--------------------------- MODULE BlockStoreProofs ---------------------------
(***************************************************************************)
(* For every set of boards, blocks, parents and titles: as long as the     *)
(* store serves one call at a time (as it does in a serialized             *)
(* transaction), its two tables agree between the calls, no block outlives *)
(* its board, and an undelete brings back what the delete removed.         *)
(*                                                                         *)
(* The invariant says, for every statement of every call, which rows are   *)
(* not yet what the history says of them.                                  *)
(***************************************************************************)
EXTENDS BlockStore, TLAPS

\* The store serves one call after the other.
OneAtATime == \E p : Process = {p}

Operations == {"insert", "patch", "delete", "undelete"}
Stages == {"base", "lookup", "update", "create", "log", "remove", "logChildren",
           "removeChildren", "createChildren"}
Rows == UNION {RowsOf(e) \cup Patch(e) : e \in Entity}
Calls == [op : Operations, id : Entity, row : Rows, at : Stages]

TypeInv ==
    /\ row \in [Entity -> Rows \cup {Absent}]
    /\ \A e \in Entity : Live(e) => row[e] \in RowsOf(e)
    /\ DOMAIN history = Entity
    /\ call \in [Process -> Calls \cup {Idle}]
    /\ DOMAIN trash = Entity

(***************************************************************************)
(* The history of e: its newest version is the newest under its parent,    *)
(* and no other version is a deletion, since what is deleted is restored   *)
(* under the parent it had.                                                *)
(***************************************************************************)
GoodHistory(e, h) ==
    /\ h.newest \in VersionsOf(e) \cup {Absent}
    /\ h.newest # Absent => /\ h.newest.row.parent \in DOMAIN h.under
                            /\ h.under[h.newest.row.parent] = h.newest
    /\ \A q \in DOMAIN h.under :
           /\ h.under[q] \in VersionsOf(e) /\ h.under[q].row.parent = q
           /\ h.under[q].deleted => h.under[q] = h.newest

HistoryInv == \A e \in Entity : GoodHistory(e, history[e])

\* The live row of e is what its history says.
Synced(e) == row[e] = IF ~Logged(e) \/ Newest(e).deleted THEN Absent ELSE Newest(e).row
SyncedBut(S) == \A e \in Entity \ S : Synced(e)

\* Every live block belongs to a live board, or to the one being deleted.
HousedBut(S) == \A b \in Block : Live(b) => Live(BoardOf[b]) \/ BoardOf[b] \in S
InBoard(e) == e \in Block => Live(BoardOf[e])

Resting(c) == c = Idle /\ SyncedBut({}) /\ HousedBut({})

Making(c) ==
    /\ c.op = "insert" /\ c.at \in {"lookup", "create"}
    /\ c.row \in RowsOf(c.id) /\ ~Live(c.id) /\ ~Logged(c.id) /\ InBoard(c.id)
    /\ SyncedBut({}) /\ HousedBut({})

Patching(c) ==
    /\ c.op = "patch" /\ c.at = "base"
    /\ c.row \in Patch(c.id) /\ Live(c.id)
    /\ SyncedBut({}) /\ HousedBut({})

Updating(c) ==
    /\ c.op = "patch" /\ c.at \in {"lookup", "update"}
    /\ c.row \in RowsOf(c.id) /\ Live(c.id)
    /\ SyncedBut({}) /\ HousedBut({})

Writing(c) ==
    /\ c.op \in {"insert", "patch"} /\ c.at = "log"
    /\ c.row \in RowsOf(c.id) /\ row[c.id] = c.row
    /\ Logged(c.id) => ~Newest(c.id).deleted
    /\ SyncedBut({c.id}) /\ HousedBut({})
    /\ \A x \in Entity : c.id \notin DOMAIN trash[x]

Deleting(c) ==
    /\ c.op = "delete" /\ c.at \in {"base", "log"}
    /\ Live(c.id) /\ c.row = row[c.id]
    /\ SyncedBut({}) /\ HousedBut({})

Removing(c) ==
    /\ c.op = "delete" /\ c.at = "remove"
    /\ Live(c.id) /\ Newest(c.id) = [row |-> row[c.id], deleted |-> TRUE]
    /\ SyncedBut({c.id}) /\ HousedBut({})

Emptying(c) ==
    /\ c.op = "delete" /\ c.at = "logChildren"
    /\ ~Live(c.id)
    /\ SyncedBut({}) /\ HousedBut({c.id})

Clearing(c) ==
    /\ c.op = "delete" /\ c.at = "removeChildren"
    /\ ~Live(c.id)
    /\ \A b \in Children(c.id) : Newest(b) = [row |-> row[b], deleted |-> TRUE]
    /\ SyncedBut(Children(c.id)) /\ HousedBut({c.id})

Reviving(c) ==
    /\ c.op = "undelete" /\ c.at = "base"
    /\ Logged(c.id) /\ InBoard(c.id)
    /\ SyncedBut({}) /\ HousedBut({})

Recording(c) ==
    /\ c.op = "undelete" /\ c.at = "log"
    /\ Newest(c.id).deleted /\ c.row = Unlinked(Newest(c.id).row) /\ InBoard(c.id)
    /\ Logged(c.id)
    /\ SyncedBut({}) /\ HousedBut({})

Recreating(c) ==
    /\ c.op = "undelete" /\ c.at = "create"
    /\ Newest(c.id) = [row |-> c.row, deleted |-> FALSE] /\ InBoard(c.id)
    /\ Logged(c.id) /\ ~Live(c.id)
    /\ SyncedBut({c.id}) /\ HousedBut({})

Restoring(c) ==
    /\ c.op = "undelete" /\ c.at = "createChildren"
    /\ Live(c.id)
    /\ SyncedBut({}) /\ HousedBut({})

Finishing(c) ==
    /\ c.op = "undelete" /\ c.at = "logChildren"
    /\ Live(c.id)
    /\ \A b \in DeletedChildren(c.id) :
           Newest(b) = [row |-> row[b], deleted |-> TRUE] /\ Live(b)
    /\ SyncedBut(DeletedChildren(c.id)) /\ HousedBut({})

Stage(c) ==
    \/ Resting(c)
    \/ c # Idle /\ \/ Making(c) \/ Patching(c) \/ Updating(c) \/ Writing(c)
                   \/ Deleting(c) \/ Removing(c) \/ Emptying(c) \/ Clearing(c)
                   \/ Reviving(c) \/ Recording(c) \/ Recreating(c)
                   \/ Restoring(c) \/ Finishing(c)

\* Version v is of the row r as it was, or as undeleteBoard wrote it.
Recalls(v, r) ==
    /\ v.row \in {r, Unlinked(r)}
    /\ ~v.deleted => v.row = Unlinked(r)

(***************************************************************************)
(* What the last delete of x removed and nothing wrote since is still what *)
(* the history says, below x; and it is all live once x is, except while   *)
(* the undelete of x has not come to the children.                         *)
(***************************************************************************)
TrashInv ==
    \A x \in Entity : \A b \in DOMAIN trash[x] :
        /\ b \in Entity /\ trash[x][b] \in RowsOf(b)
        /\ Logged(b) /\ Recalls(Newest(b), trash[x][b])
        /\ \/ b = x
           \/ b \in Block /\ BoardOf[b] = HomeOf(x) /\ (x \in Block => trash[x][b].parent = x)

Halfway(x) ==
    \E p \in Process : call[p] # Idle /\ call[p].id = x /\ call[p].op = "undelete"
                       /\ call[p].at = "createChildren"

RestoredInv ==
    \A x \in Entity :
        x \in DOMAIN trash[x] /\ Live(x) /\ ~Halfway(x) => \A b \in DOMAIN trash[x] : Live(b)

StoreInv ==
    /\ TypeInv /\ HistoryInv
    /\ \A p \in Process : Stage(call[p])
    /\ TrashInv /\ RestoredInv

----------------------------------------------------------------------------
\* Only a board's row is changed by the loss of its channel.
LEMMA UnlinkedRow ==
    ASSUME NEW e \in Entity, NEW r \in RowsOf(e)
    PROVE  /\ Unlinked(r) \in RowsOf(e) /\ Unlinked(r).parent = r.parent
           /\ Unlinked(Unlinked(r)) = Unlinked(r)
           /\ e \in Block => Unlinked(r) = r
<1>1. NoChannel \in Channel /\ (e \in Block => e \notin Board)
  BY BlockStoreAssumption
<1>. QED  BY <1>1 DEF Unlinked, RowsOf

LEMMA HistoryKept ==
    ASSUME NEW e \in Entity, GoodHistory(e, history[e]),
           NEW r \in RowsOf(e), NEW d \in BOOLEAN,
           Logged(e) => ~Newest(e).deleted \/ Newest(e).row.parent = r.parent
    PROVE  /\ GoodHistory(e, Log(e, r, d))
           /\ Log(e, r, d).newest = [row |-> r, deleted |-> d]
           /\ Log(e, r, d).newest # Absent
<1>. DEFINE v == [row |-> r, deleted |-> d]
            h == history[e]
            g == Log(e, r, d)
<1>1. v \in VersionsOf(e) /\ v # Absent /\ v.row = r /\ v.deleted = d
  BY BlockStoreAssumption DEF VersionsOf
<1>2. /\ g.newest = v /\ DOMAIN g.under = DOMAIN h.under \cup {r.parent}
      /\ g.under[r.parent] = v
      /\ \A q \in DOMAIN h.under : q # r.parent => g.under[q] = h.under[q]
  BY DEF Log
<1>. HIDE DEF v, h, g
<1>3. ASSUME NEW q \in DOMAIN h.under, q # r.parent
      PROVE  h.under[q] \in VersionsOf(e) /\ h.under[q].row.parent = q /\ ~h.under[q].deleted
  <2>1. h.under[q] \in VersionsOf(e) /\ h.under[q].row.parent = q
        /\ (h.under[q].deleted => h.under[q] = h.newest)
    BY DEF GoodHistory, h
  <2>2. h.newest = Newest(e) /\ h.under[q] # Absent
    BY <2>1, BlockStoreAssumption DEF Newest, h
  <2>. QED  BY <1>3, <2>1, <2>2 DEF Logged
<1>. QED  BY <1>1, <1>2, <1>3 DEF GoodHistory, v, g

\* What statements that write nothing leave as it was.
LEMMA TablesKept ==
    ASSUME UNCHANGED <<row, history>>
    PROVE  /\ \A S : (SyncedBut(S) <=> SyncedBut(S)') /\ (HousedBut(S) <=> HousedBut(S)')
           /\ \A e : /\ (Live(e) <=> Live(e)') /\ (InBoard(e) <=> InBoard(e)')
                     /\ (Logged(e) <=> Logged(e)') /\ Newest(e)' = Newest(e)
                     /\ Children(e)' = Children(e)
BY DEF SyncedBut, Synced, HousedBut, InBoard, Logged, Newest, Live, Children

LEMMA CallMoves ==
    ASSUME TypeInv, NEW p \in Process, call[p] # Idle
    PROVE  /\ call[p] \in Calls
           /\ \A s \in Stages : Goto(p, s) =>
                  /\ call' \in [Process -> Calls \cup {Idle}] /\ call'[p] # Idle
                  /\ call'[p].op = call[p].op /\ call'[p].id = call[p].id
                  /\ call'[p].row = call[p].row /\ call'[p].at = s
           /\ Return(p) => call' \in [Process -> Calls \cup {Idle}] /\ call'[p] = Idle
<1>1. call[p] \in Calls
  BY DEF TypeInv
<1>2. ASSUME NEW s \in Stages, Goto(p, s)
      PROVE  /\ call' \in [Process -> Calls \cup {Idle}] /\ call'[p] # Idle
             /\ call'[p].op = call[p].op /\ call'[p].id = call[p].id
             /\ call'[p].row = call[p].row /\ call'[p].at = s
  <2>1. call'[p] = [call[p] EXCEPT !.at = s]
    BY <1>2 DEF Goto, TypeInv
  <2>2. call'[p] \in Calls /\ call'[p].op = call[p].op /\ call'[p].id = call[p].id
        /\ call'[p].row = call[p].row /\ call'[p].at = s
    BY <1>1, <2>1 DEF Calls
  <2>3. call'[p] # Idle
    BY <2>2 DEF Calls, Operations, Idle
  <2>4. call' \in [Process -> Calls \cup {Idle}]
    BY <1>2, <2>1, <2>2 DEF Goto, TypeInv
  <2>. QED  BY <2>2, <2>3, <2>4
<1>3. Return(p) => call' \in [Process -> Calls \cup {Idle}] /\ call'[p] = Idle
  BY DEF Return, TypeInv
<1>. QED  BY <1>1, <1>2, <1>3

LEMMA CallNamed ==
    ASSUME TypeInv, NEW p \in Process, call[p].op \in Operations
    PROVE  call[p] # Idle
BY DEF Operations, Idle

\* Which statement comes next says how far the tables are.
LEMMA StageNamed ==
    ASSUME NEW c, Stage(c), c # Idle
    PROVE  /\ c.op = "patch" /\ c.at = "base" => Patching(c)
           /\ c.at = "lookup" => Making(c) \/ Updating(c)
           /\ c.at = "update" => Updating(c)
           /\ c.at = "create" => Making(c) \/ Recreating(c)
           /\ c.at = "log" => Writing(c) \/ Deleting(c) \/ Recording(c)
           /\ c.op = "delete" /\ c.at = "base" => Deleting(c)
           /\ c.at = "remove" => Removing(c)
           /\ c.op = "delete" /\ c.at = "logChildren" => Emptying(c)
           /\ c.at = "removeChildren" => Clearing(c)
           /\ c.op = "undelete" /\ c.at = "base" => Reviving(c)
           /\ c.at = "createChildren" => Restoring(c)
           /\ c.op = "undelete" /\ c.at = "logChildren" => Finishing(c)
BY DEF Stage, Resting, Making, Patching, Updating, Writing, Deleting, Removing, Emptying,
       Clearing, Reviving, Recording, Recreating, Restoring, Finishing

\* A statement that only moves the call on.
LEMMA CallOnly ==
    ASSUME OneAtATime, StoreInv, NEW p \in Process, UNCHANGED <<row, history, trash>>,
           call' \in [Process -> Calls \cup {Idle}], Stage(call[p])',
           call[p] # Idle => call[p].at # "createChildren"
    PROVE  StoreInv'
<1>1. \A q \in Process : q = p
  BY DEF OneAtATime
<1>2. TypeInv'
  BY DEF StoreInv, TypeInv, Live
<1>3. HistoryInv' /\ TrashInv'
  BY DEF StoreInv, HistoryInv, TrashInv, Logged, Newest
<1>4. RestoredInv'
  <2>1. \A x : ~Halfway(x)
    BY <1>1 DEF Halfway
  <2>. QED  BY <2>1, TablesKept DEF StoreInv, RestoredInv
<1>5. (\A q \in Process : Stage(call[q]))'
  BY <1>1
<1>. QED  BY <1>2, <1>3, <1>4, <1>5 DEF StoreInv

----------------------------------------------------------------------------
\* Before a call nothing is written.
LEMMA BeginKeeps ==
    ASSUME OneAtATime, StoreInv, NEW p \in Process, Begin(p)
    PROVE  StoreInv'
<1>. USE DEF Operations, Stages
<1>1. PICK e \in Entity : \/ StartInsert(p, e) \/ StartPatch(p, e)
                          \/ StartDelete(p, e) \/ StartUndelete(p, e)
  BY DEF Begin
<1>2. ASSUME NEW op \in Operations, NEW r \in RowsOf(e) \cup Patch(e), Start(p, op, e, r)
      PROVE  /\ call[p] = Idle /\ UNCHANGED <<row, history, trash>>
             /\ call'[p].op = op /\ call'[p].id = e /\ call'[p].row = r
             /\ call'[p].at = IF op = "insert" THEN "lookup" ELSE "base"
             /\ call' \in [Process -> Calls \cup {Idle}] /\ call'[p] # Idle
             /\ SyncedBut({}) /\ HousedBut({})
  <2>. DEFINE c == [op |-> op, id |-> e, row |-> r,
                    at |-> IF op = "insert" THEN "lookup" ELSE "base"]
  <2>1. call[p] = Idle /\ UNCHANGED <<row, history, trash>> /\ call' = [call EXCEPT ![p] = c]
    BY <1>2 DEF Start
  <2>2. c \in Calls /\ c # Idle
    <3>1. r \in Rows
      BY DEF Rows
    <3>. QED  BY <3>1 DEF Calls, Idle
  <2>3. call' \in [Process -> Calls \cup {Idle}] /\ call'[p] = c
    BY <2>1, <2>2 DEF StoreInv, TypeInv
  <2>4. Resting(call[p])
    BY <2>1 DEF StoreInv, Stage
  <2>. QED  BY <2>1, <2>2, <2>3, <2>4 DEF Resting
<1>. USE TablesKept
<1>3. CASE StartInsert(p, e)
  <2>1. PICK r \in RowsOf(e) : Start(p, "insert", e, r)
    BY <1>3 DEF StartInsert
  <2>2. Making(call[p])'
    BY <1>2, <1>3, <2>1 DEF StartInsert, Making, InBoard
  <2>3. Stage(call[p])'
    BY <1>2, <2>1, <2>2 DEF Stage
  <2>. QED  BY <1>2, <2>1, <2>3, CallOnly
<1>4. CASE StartPatch(p, e)
  <2>1. PICK r \in Patch(e) : Start(p, "patch", e, r)
    BY <1>4 DEF StartPatch
  <2>2. Patching(call[p])'
    BY <1>2, <1>4, <2>1 DEF StartPatch, Patching
  <2>3. Stage(call[p])'
    BY <1>2, <2>1, <2>2 DEF Stage
  <2>. QED  BY <1>2, <2>1, <2>3, CallOnly
<1>5. CASE StartDelete(p, e)
  <2>1. Start(p, "delete", e, row[e]) /\ Live(e) /\ row[e] \in RowsOf(e)
    BY <1>5 DEF StartDelete, StoreInv, TypeInv
  <2>2. Deleting(call[p])'
    BY <1>2, <2>1 DEF Deleting
  <2>3. Stage(call[p])'
    BY <1>2, <2>1, <2>2 DEF Stage
  <2>. QED  BY <1>2, <2>1, <2>3, CallOnly
<1>6. CASE StartUndelete(p, e)
  <2>1. Start(p, "undelete", e, Newest(e).row) /\ Logged(e) /\ InBoard(e)
    BY <1>6 DEF StartUndelete, InBoard
  <2>2. Newest(e).row \in RowsOf(e)
    BY <2>1 DEF StoreInv, HistoryInv, GoodHistory, VersionsOf, Newest, Logged
  <2>3. Reviving(call[p])'
    BY <1>2, <2>1, <2>2 DEF Reviving
  <2>4. Stage(call[p])'
    BY <1>2, <2>1, <2>2, <2>3 DEF Stage
  <2>. QED  BY <1>2, <2>1, <2>2, <2>4, CallOnly
<1>. QED  BY <1>1, <1>3, <1>4, <1>5, <1>6

\* A call that is over leaves the tables agreeing.
LEMMA ReturnRests ==
    ASSUME OneAtATime, StoreInv, NEW p \in Process, UNCHANGED <<row, history, trash>>,
           call[p] # Idle, call[p].at # "createChildren", Return(p),
           SyncedBut({}), HousedBut({})
    PROVE  StoreInv'
<1>1. call' \in [Process -> Calls \cup {Idle}] /\ call'[p] = Idle
  BY CallMoves DEF StoreInv
<1>2. Stage(call[p])'
  BY <1>1, TablesKept DEF Stage, Resting
<1>. QED  BY <1>1, <1>2, CallOnly

LEMMA PatchReadKeeps ==
    ASSUME OneAtATime, StoreInv, NEW p \in Process, PatchRead(p)
    PROVE  StoreInv'
<1>. DEFINE c == call[p]
            e == c.id
            r == [f \in DOMAIN c.row |-> IF c.row[f] = Keep THEN row[e][f] ELSE c.row[f]]
<1>1. c.op = "patch" /\ c.at = "base" /\ UNCHANGED <<row, history, trash>>
  BY DEF PatchRead
<1>2. c # Idle /\ c \in Calls /\ TypeInv
  BY <1>1, CallNamed, CallMoves DEF StoreInv, Operations
<1>3. Patching(c)
  BY <1>1, <1>2, StageNamed DEF StoreInv
<1>4. e \in Entity /\ Live(e) /\ row[e] \in RowsOf(e) /\ c.row \in Patch(e)
  BY <1>2, <1>3 DEF Calls, Patching, TypeInv
<1>5. call' = [call EXCEPT ![p].at = "lookup", ![p].row = r]
  BY <1>4 DEF PatchRead, Live
<1>6. r \in RowsOf(e)
  <2>1. /\ r = [parent |-> IF c.row.parent = Keep THEN row[e].parent ELSE c.row.parent,
                title  |-> IF c.row.title = Keep THEN row[e].title ELSE c.row.title,
                channel |-> IF c.row.channel = Keep THEN row[e].channel ELSE c.row.channel]
    BY <1>4 DEF Patch
  <2>. QED  BY <1>4, <2>1 DEF Patch, RowsOf
<1>. HIDE DEF r
<1>7. /\ call'[p] \in Calls /\ call'[p].op = "patch" /\ call'[p].id = e
      /\ call'[p].at = "lookup" /\ call'[p].row = r
  <2>1. call'[p] = [c EXCEPT !.at = "lookup", !.row = r]
    BY <1>2, <1>5 DEF TypeInv
  <2>2. r \in Rows
    BY <1>4, <1>6 DEF Rows
  <2>. QED  BY <1>1, <1>2, <2>1, <2>2 DEF Calls, Stages
<1>8. call' \in [Process -> Calls \cup {Idle}] /\ call'[p] # Idle
  BY <1>2, <1>5, <1>7 DEF TypeInv, Idle
<1>9. Updating(call[p])'
  BY <1>1, <1>3, <1>4, <1>6, <1>7, TablesKept DEF Patching, Updating
<1>10. Stage(call[p])'
  BY <1>8, <1>9 DEF Stage
<1>. QED  BY <1>1, <1>8, <1>10, CallOnly

LEMMA LookupKeeps ==
    ASSUME OneAtATime, StoreInv, NEW p \in Process, Lookup(p)
    PROVE  StoreInv'
<1>. DEFINE c == call[p]
<1>1. c # Idle /\ c.at = "lookup" /\ UNCHANGED <<row, history, trash>>
      /\ Goto(p, IF Live(c.id) THEN "update" ELSE "create")
  BY DEF Lookup
<1>2. Making(c) \/ Updating(c)
  BY <1>1, StageNamed DEF StoreInv
<1>3. /\ call' \in [Process -> Calls \cup {Idle}] /\ call'[p] # Idle
      /\ call'[p].op = c.op /\ call'[p].id = c.id /\ call'[p].row = c.row
      /\ call'[p].at = IF Live(c.id) THEN "update" ELSE "create"
  BY <1>1, CallMoves DEF StoreInv, Stages
<1>4. (Making(call[p]) \/ Updating(call[p]))'
  BY <1>1, <1>2, <1>3, TablesKept DEF Making, Updating
<1>5. Stage(call[p])'
  BY <1>3, <1>4 DEF Stage
<1>. QED  BY <1>1, <1>3, <1>5, CallOnly

LEMMA DeleteReadKeeps ==
    ASSUME OneAtATime, StoreInv, NEW p \in Process, DeleteRead(p)
    PROVE  StoreInv'
<1>. DEFINE c == call[p]
<1>1. c.op = "delete" /\ c.at = "base" /\ UNCHANGED <<row, history, trash>>
  BY DEF DeleteRead
<1>2. c # Idle /\ c \in Calls /\ TypeInv
  BY <1>1, CallNamed, CallMoves DEF StoreInv, Operations
<1>3. Deleting(c)
  BY <1>1, <1>2, StageNamed DEF StoreInv
<1>4. call' = [call EXCEPT ![p].at = "log", ![p].row = row[c.id]]
  BY <1>3 DEF DeleteRead, Deleting
<1>5. call'[p] = [c EXCEPT !.at = "log", !.row = c.row]
  BY <1>2, <1>3, <1>4 DEF TypeInv, Deleting
<1>6. /\ call'[p] \in Calls /\ call'[p].op = "delete" /\ call'[p].id = c.id
      /\ call'[p].at = "log" /\ call'[p].row = c.row
  BY <1>1, <1>2, <1>5 DEF Calls, Stages
<1>7. call' \in [Process -> Calls \cup {Idle}] /\ call'[p] # Idle
  BY <1>2, <1>4, <1>6 DEF TypeInv, Idle
<1>8. Deleting(call[p])'
  BY <1>1, <1>3, <1>6, TablesKept DEF Deleting
<1>9. Stage(call[p])'
  BY <1>7, <1>8 DEF Stage
<1>. QED  BY <1>1, <1>7, <1>9, CallOnly

LEMMA UndeleteReadKeeps ==
    ASSUME OneAtATime, StoreInv, NEW p \in Process, UndeleteRead(p)
    PROVE  StoreInv'
<1>. DEFINE c == call[p]
            e == c.id
<1>1. c.op = "undelete" /\ c.at = "base" /\ UNCHANGED <<row, history, trash>>
  BY DEF UndeleteRead
<1>2. c # Idle /\ c \in Calls /\ TypeInv
  BY <1>1, CallNamed, CallMoves DEF StoreInv, Operations
<1>3. Reviving(c)
  BY <1>1, <1>2, StageNamed DEF StoreInv
<1>4. CASE ~Newest(e).deleted
  <2>1. Return(p)
    BY <1>4 DEF UndeleteRead
  <2>. QED  BY <1>1, <1>2, <1>3, <2>1, ReturnRests DEF Reviving
<1>5. CASE Newest(e).deleted
  <2>. DEFINE r == Unlinked(Newest(e).row)
  <2>1. call' = [call EXCEPT ![p].at = "log", ![p].row = r]
    BY <1>5 DEF UndeleteRead
  <2>2. e \in Entity /\ Newest(e) \in VersionsOf(e)
    BY <1>2, <1>3 DEF Calls, Reviving, Logged, StoreInv, HistoryInv, GoodHistory, Newest
  <2>3. r \in Rows
    BY <2>2, UnlinkedRow DEF VersionsOf, Rows
  <2>. HIDE DEF r
  <2>4. call'[p] = [c EXCEPT !.at = "log", !.row = r]
    BY <1>2, <2>1 DEF TypeInv
  <2>5. /\ call'[p] \in Calls /\ call'[p].op = "undelete" /\ call'[p].id = e
        /\ call'[p].at = "log" /\ call'[p].row = r
    BY <1>1, <1>2, <2>3, <2>4 DEF Calls, Stages
  <2>6. call' \in [Process -> Calls \cup {Idle}] /\ call'[p] # Idle
    BY <1>2, <2>1, <2>5 DEF TypeInv, Idle
  <2>7. Recording(call[p])'
    BY <1>1, <1>3, <1>5, <2>5, TablesKept DEF Reviving, Recording, r
  <2>8. Stage(call[p])'
    BY <2>6, <2>7 DEF Stage
  <2>. QED  BY <1>1, <2>6, <2>8, CallOnly
<1>. QED  BY <1>4, <1>5

----------------------------------------------------------------------------
\* A write of the entities in S takes them out of the trash of all but "kept".
LEMMA TrashShrinks ==
    ASSUME NEW S, NEW kept
    PROVE  /\ DOMAIN Touch(S, kept) = Entity
           /\ \A x \in Entity :
                  /\ DOMAIN Touch(S, kept)[x] = DOMAIN trash[x] \ (IF x \in kept THEN {} ELSE S)
                  /\ \A b \in DOMAIN Touch(S, kept)[x] : Touch(S, kept)[x][b] = trash[x][b]
BY DEF Touch

LEMMA UpdateKeeps ==
    ASSUME OneAtATime, StoreInv, NEW p \in Process, Update(p)
    PROVE  StoreInv'
<1>. DEFINE c == call[p]
            e == c.id
<1>1. /\ c # Idle /\ c.at = "update" /\ history' = history /\ Goto(p, "log")
      /\ trash' = Touch({e}, {})
  BY DEF Update
<1>2. Updating(c) /\ c \in Calls /\ TypeInv /\ e \in Entity
  BY <1>1, StageNamed, CallMoves DEF StoreInv, Calls
<1>3. row' = [row EXCEPT ![e] = c.row]
  BY <1>2 DEF Update, Updating
<1>4. /\ call' \in [Process -> Calls \cup {Idle}] /\ call'[p] # Idle
      /\ call'[p].op = "patch" /\ call'[p].id = e /\ call'[p].row = c.row
      /\ call'[p].at = "log"
  BY <1>1, <1>2, CallMoves DEF Stages, Updating
<1>5. c.row \in RowsOf(e) /\ c.row # Absent /\ c.row \in Rows
  BY <1>2, BlockStoreAssumption DEF Updating, Rows
<1>6. /\ row'[e] = c.row /\ \A x \in Entity \ {e} : row'[x] = row[x]
      /\ row' \in [Entity -> Rows \cup {Absent}]
      /\ \A x \in Entity : Live(x)' <=> Live(x)
  BY <1>2, <1>3, <1>5 DEF TypeInv, Live, Updating
<1>7. \A x \in Entity : /\ DOMAIN trash'[x] = DOMAIN trash[x] \ {e}
                        /\ \A b \in DOMAIN trash'[x] : trash'[x][b] = trash[x][b]
  BY <1>1, TrashShrinks
<1>8. TypeInv'
  BY <1>1, <1>2, <1>4, <1>5, <1>6, TrashShrinks DEF TypeInv, Live
<1>9. HistoryInv'
  BY <1>1 DEF StoreInv, HistoryInv
<1>10. \A x \in Entity : Newest(x)' = Newest(x) /\ (Logged(x)' <=> Logged(x))
  BY <1>1 DEF Newest, Logged
<1>11. Writing(call[p])'
  <2>1. Logged(e) => ~Newest(e).deleted
    BY <1>2 DEF Updating, SyncedBut, Synced, Live
  <2>2. SyncedBut({e})'
    BY <1>2, <1>4, <1>6, <1>10 DEF Updating, SyncedBut, Synced
  <2>3. HousedBut({})'
    BY <1>2, <1>6, BlockStoreAssumption DEF Updating, HousedBut, Entity
  <2>. QED  BY <1>2, <1>4, <1>5, <1>6, <1>7, <1>10, <2>1, <2>2, <2>3 DEF Writing
<1>12. (\A q \in Process : Stage(call[q]))'
  BY <1>4, <1>11 DEF Stage, OneAtATime
<1>13. TrashInv'
  BY <1>7, <1>10 DEF StoreInv, TrashInv
<1>14. RestoredInv'
  <2>1. \A x \in Entity : ~Halfway(x)
    BY <1>1 DEF Halfway, OneAtATime
  <2>. QED  BY <1>6, <1>7, <2>1 DEF StoreInv, RestoredInv, TrashInv
<1>. QED  BY <1>8, <1>9, <1>12, <1>13, <1>14 DEF StoreInv

\* The row of a new entity, or of the one that is restored.
LEMMA CreateKeeps ==
    ASSUME OneAtATime, StoreInv, NEW p \in Process, Create(p)
    PROVE  StoreInv'
<1>. DEFINE c == call[p]
            e == c.id
            kept == IF c.op = "undelete" THEN {e} ELSE {}
<1>1. c # Idle /\ c.at = "create" /\ history' = history
  BY DEF Create
<1>2. (Making(c) \/ Recreating(c)) /\ c \in Calls /\ TypeInv /\ e \in Entity
  BY <1>1, StageNamed, CallMoves DEF StoreInv, Calls
<1>3. /\ row' = [row EXCEPT ![e] = c.row] /\ trash' = Touch({e}, kept)
      /\ Goto(p, IF c.op = "undelete" THEN "createChildren" ELSE "log")
  BY <1>2 DEF Create, Making, Recreating
<1>4. /\ call' \in [Process -> Calls \cup {Idle}] /\ call'[p] # Idle
      /\ call'[p].op = c.op /\ call'[p].id = e /\ call'[p].row = c.row
      /\ call'[p].at = IF c.op = "undelete" THEN "createChildren" ELSE "log"
  BY <1>1, <1>2, <1>3, CallMoves DEF Stages
<1>5. c.row \in RowsOf(e) /\ c.row # Absent /\ c.row \in Rows
  <2>1. c.row \in RowsOf(e)
    <3>1. CASE Making(c)
      BY <3>1 DEF Making
    <3>2. CASE Recreating(c)
      BY <1>2, <3>2 DEF Recreating, Logged, StoreInv, HistoryInv, GoodHistory, VersionsOf, Newest
    <3>. QED  BY <1>2, <3>1, <3>2
  <2>. QED  BY <1>2, <2>1, BlockStoreAssumption DEF Rows
<1>6. /\ row'[e] = c.row /\ \A x \in Entity \ {e} : row'[x] = row[x]
      /\ row' \in [Entity -> Rows \cup {Absent}]
      /\ ~Live(e) /\ \A x \in Entity : Live(x)' <=> Live(x) \/ x = e
  BY <1>2, <1>3, <1>5 DEF TypeInv, Live, Making, Recreating
<1>7. \A x \in Entity :
          /\ DOMAIN trash'[x] = DOMAIN trash[x] \ (IF x \in kept THEN {} ELSE {e})
          /\ \A b \in DOMAIN trash'[x] : trash'[x][b] = trash[x][b]
  BY <1>3, TrashShrinks
<1>8. TypeInv'
  BY <1>1, <1>2, <1>3, <1>4, <1>5, <1>6, TrashShrinks DEF TypeInv, Live
<1>9. HistoryInv'
  BY <1>1 DEF StoreInv, HistoryInv
<1>10. \A x \in Entity : Newest(x)' = Newest(x) /\ (Logged(x)' <=> Logged(x))
  BY <1>1 DEF Newest, Logged
<1>11. HousedBut({})'
  <2>1. HousedBut({}) /\ InBoard(e)
    BY <1>2 DEF Making, Recreating
  <2>. QED  BY <1>6, <2>1, BlockStoreAssumption DEF HousedBut, InBoard, Entity
<1>12. SyncedBut({e})'
  <2>1. SyncedBut({e})
    BY <1>2 DEF Making, Recreating, SyncedBut
  <2>. QED  BY <1>4, <1>6, <1>10, <2>1 DEF SyncedBut, Synced
<1>13. (Writing(call[p]) \/ Restoring(call[p]))'
  <2>1. CASE Making(c)
    BY <1>2, <1>4, <1>5, <1>6, <1>7, <1>10, <1>11, <1>12, <2>1 DEF Making, Writing
  <2>2. CASE Recreating(c)
    <3>1. Synced(e)'
      BY <1>2, <1>4, <1>6, <1>10, <2>2 DEF Recreating, Synced
    <3>2. SyncedBut({})'
      BY <1>12, <3>1 DEF SyncedBut
    <3>. QED  BY <1>2, <1>4, <1>6, <1>11, <2>2, <3>2 DEF Recreating, Restoring
  <2>. QED  BY <1>2, <2>1, <2>2
<1>14. (\A q \in Process : Stage(call[q]))'
  BY <1>4, <1>13 DEF Stage, OneAtATime
<1>15. TrashInv'
  BY <1>7, <1>10 DEF StoreInv, TrashInv
<1>16. RestoredInv'
  <2>1. \A x \in Entity : ~Halfway(x)
    BY <1>1 DEF Halfway, OneAtATime
  <2>2. c.op = "undelete" => Halfway(e)'
    BY <1>4 DEF Halfway
  <2>3. ASSUME NEW x \in Entity, x \in DOMAIN trash'[x], Live(x)', ~Halfway(x)'
        PROVE  \A b \in DOMAIN trash'[x] : Live(b)'
    <3>1. x # e
      BY <1>4, <1>7, <2>2, <2>3
    <3>. QED  BY <1>6, <1>7, <2>1, <2>3, <3>1 DEF StoreInv, RestoredInv, TrashInv
  <2>. QED  BY <2>3 DEF RestoredInv
<1>. QED  BY <1>8, <1>9, <1>14, <1>15, <1>16 DEF StoreInv

\* A call's own version.
LEMMA LogSelfKeeps ==
    ASSUME OneAtATime, StoreInv, NEW p \in Process, LogSelf(p)
    PROVE  StoreInv'
<1>. DEFINE c == call[p]
<1>. PICK e : e = c.id
  OBVIOUS
<1>1. /\ c # Idle /\ c.at = "log" /\ UNCHANGED <<row, trash>>
      /\ history' = [history EXCEPT ![e] = Log(e, c.row, c.op = "delete")]
  BY DEF LogSelf
<1>2. (Writing(c) \/ Deleting(c) \/ Recording(c)) /\ c \in Calls /\ TypeInv /\ e \in Entity
  BY <1>1, StageNamed, CallMoves DEF StoreInv, Calls
<1>3. GoodHistory(e, history[e]) /\ HistoryInv
  BY <1>2 DEF StoreInv, HistoryInv
<1>4. /\ c.row \in RowsOf(e)
      /\ Logged(e) => ~Newest(e).deleted \/ Newest(e).row.parent = c.row.parent
      /\ \A x \in Entity : e \in DOMAIN trash[x] =>
             Recalls([row |-> c.row, deleted |-> c.op = "delete"], trash[x][e])
  <2>1. CASE Writing(c)
    BY <2>1 DEF Writing
  <2>2. CASE Deleting(c)
    <3>1. Synced(e) /\ Live(e) /\ c.row = row[e] /\ c.op = "delete"
      BY <1>2, <2>2 DEF Deleting, SyncedBut
    <3>2. c.row = Newest(e).row /\ c.row \in RowsOf(e) /\ (Logged(e) => ~Newest(e).deleted)
      BY <1>2, <3>1 DEF Synced, Live, TypeInv
    <3>3. \A x \in Entity : e \in DOMAIN trash[x] => Recalls(Newest(e), trash[x][e])
      BY DEF StoreInv, TrashInv
    <3>. QED  BY <3>1, <3>2, <3>3 DEF Recalls
  <2>3. CASE Recording(c)
    <3>1. /\ Logged(e) /\ Newest(e).deleted /\ c.op # "delete"
          /\ c.row = Unlinked(Newest(e).row)
      BY <2>3 DEF Recording
    <3>2. Newest(e) \in VersionsOf(e)
      BY <1>3, <3>1 DEF GoodHistory, Logged, Newest
    <3>3. Newest(e).row \in RowsOf(e)
      BY <3>2 DEF VersionsOf
    <3>4. c.row \in RowsOf(e) /\ Newest(e).row.parent = c.row.parent
      BY <1>2, <3>1, <3>3, UnlinkedRow
    <3>5. ASSUME NEW x \in Entity, e \in DOMAIN trash[x]
          PROVE  c.row = Unlinked(trash[x][e])
      <4>1. Newest(e).row \in {trash[x][e], Unlinked(trash[x][e])} /\ trash[x][e] \in RowsOf(e)
        BY <3>5 DEF StoreInv, TrashInv, Recalls
      <4>. QED  BY <1>2, <3>1, <4>1, UnlinkedRow
    <3>. QED  BY <3>1, <3>4, <3>5 DEF Recalls
  <2>. QED  BY <1>2, <2>1, <2>2, <2>3
<1>5. /\ GoodHistory(e, history'[e])
      /\ Newest(e)' = [row |-> c.row, deleted |-> c.op = "delete"] /\ Logged(e)'
  <2>1. history'[e] = Log(e, c.row, c.op = "delete")
    BY <1>1, <1>2 DEF TypeInv
  <2>. QED  BY <1>2, <1>3, <1>4, <2>1, HistoryKept DEF Newest, Logged
<1>6. \A x \in Entity \ {e} : history'[x] = history[x] /\ Newest(x)' = Newest(x)
                              /\ (Logged(x)' <=> Logged(x))
  BY <1>1, <1>2 DEF TypeInv, Newest, Logged
<1>7. HistoryInv'
  BY <1>3, <1>5, <1>6 DEF HistoryInv
<1>8. /\ SyncedBut({e})' /\ HousedBut({})' /\ row'[e] = row[e]
      /\ (Live(e)' <=> Live(e)) /\ (InBoard(e)' <=> InBoard(e))
  <2>1. SyncedBut({e}) /\ HousedBut({})
    BY <1>2 DEF Writing, Deleting, Recording, SyncedBut
  <2>. QED  BY <1>1, <1>6, <2>1 DEF SyncedBut, Synced, HousedBut, Live, InBoard
<1>9. /\ call' \in [Process -> Calls \cup {Idle}] /\ Stage(call[p])'
  <2>1. CASE Writing(c)
    <3>1. Return(p)
      BY <2>1 DEF LogSelf, Writing
    <3>2. Synced(e)'
      <4>1. row'[e] = c.row /\ c.op # "delete"
        BY <1>1, <2>1 DEF Writing
      <4>2. Newest(e)'.row = c.row /\ Newest(e)'.deleted = (c.op = "delete")
        BY <1>5
      <4>3. ~Newest(e)'.deleted
        BY <4>1, <4>2
      <4>. QED  BY <1>5, <4>1, <4>2, <4>3 DEF Synced
    <3>3. SyncedBut({})'
      BY <1>8, <3>2 DEF SyncedBut
    <3>. QED  BY <1>1, <1>2, <1>8, <3>1, <3>3, CallMoves DEF Stage, Resting
  <2>2. CASE Deleting(c)
    <3>1. Goto(p, "remove")
      BY <2>2 DEF LogSelf, Deleting
    <3>2. /\ call' \in [Process -> Calls \cup {Idle}] /\ call'[p] # Idle
          /\ call'[p].op = c.op /\ call'[p].id = e /\ call'[p].at = "remove"
      BY <1>1, <1>2, <3>1, CallMoves DEF Stages
    <3>3. Removing(call[p])'
      BY <1>1, <1>5, <1>8, <2>2, <3>2 DEF Deleting, Removing
    <3>. QED  BY <3>2, <3>3 DEF Stage
  <2>3. CASE Recording(c)
    <3>1. Goto(p, "create")
      BY <2>3 DEF LogSelf, Recording
    <3>2. /\ call' \in [Process -> Calls \cup {Idle}] /\ call'[p] # Idle
          /\ call'[p].op = c.op /\ call'[p].id = e /\ call'[p].row = c.row
          /\ call'[p].at = "create"
      BY <1>1, <1>2, <3>1, CallMoves DEF Stages
    <3>3. ~Live(e)
      BY <1>2, <2>3 DEF Recording, SyncedBut, Synced, Live
    <3>4. Recreating(call[p])'
      BY <1>5, <1>8, <2>3, <3>2, <3>3 DEF Recording, Recreating
    <3>. QED  BY <3>2, <3>4 DEF Stage
  <2>. QED  BY <1>2, <2>1, <2>2, <2>3
<1>10. TypeInv'
  BY <1>1, <1>2, <1>9 DEF TypeInv, Live
<1>11. TrashInv'
  <2>1. ASSUME NEW x \in Entity, NEW b \in DOMAIN trash[x]
        PROVE  Logged(b)' /\ Recalls(Newest(b)', trash[x][b])
    <3>1. b \in Entity /\ Logged(b) /\ Recalls(Newest(b), trash[x][b])
      BY <2>1 DEF StoreInv, TrashInv
    <3>2. CASE b = e
      BY <1>4, <1>5, <2>1, <3>1, <3>2
    <3>3. CASE b # e
      BY <1>6, <3>1, <3>3
    <3>. QED  BY <3>2, <3>3
  <2>. QED  BY <1>1, <2>1 DEF StoreInv, TrashInv
<1>12. RestoredInv'
  <2>1. \A x \in Entity : ~Halfway(x)
    BY <1>1 DEF Halfway, OneAtATime
  <2>. QED  BY <1>1, <2>1 DEF StoreInv, RestoredInv, Live
<1>13. (\A q \in Process : Stage(call[q]))'
  BY <1>9 DEF OneAtATime
<1>. QED  BY <1>7, <1>10, <1>11, <1>12, <1>13 DEF StoreInv

\* The row of the entity that is deleted.
LEMMA RemoveSelfKeeps ==
    ASSUME OneAtATime, StoreInv, NEW p \in Process, RemoveSelf(p)
    PROVE  StoreInv'
<1>. DEFINE c == call[p]
<1>. PICK e : e = c.id
  OBVIOUS
<1>1. /\ c # Idle /\ c.at = "remove" /\ history' = history
      /\ row' = [row EXCEPT ![e] = Absent] /\ Goto(p, "logChildren")
  BY DEF RemoveSelf
<1>2. Removing(c) /\ c \in Calls /\ TypeInv /\ e \in Entity
  BY <1>1, StageNamed, CallMoves DEF StoreInv, Calls
<1>3. /\ call' \in [Process -> Calls \cup {Idle}] /\ call'[p] # Idle
      /\ call'[p].op = "delete" /\ call'[p].id = e /\ call'[p].at = "logChildren"
  BY <1>1, <1>2, CallMoves DEF Stages, Removing
<1>4. /\ row'[e] = Absent /\ \A x \in Entity \ {e} : row'[x] = row[x]
      /\ row' \in [Entity -> Rows \cup {Absent}]
      /\ \A x \in Entity : Live(x)' <=> Live(x) /\ x # e
  BY <1>1, <1>2 DEF TypeInv, Live
<1>5. \A x \in Entity : Newest(x)' = Newest(x) /\ (Logged(x)' <=> Logged(x))
  BY <1>1 DEF Newest, Logged
<1>6. /\ DOMAIN trash' = Entity /\ trash'[e] = [x \in {e} |-> row[e]]
      /\ \A x \in Entity \ {e} :
             /\ DOMAIN trash'[x] = DOMAIN trash[x] \ {e}
             /\ \A b \in DOMAIN trash'[x] : trash'[x][b] = trash[x][b]
  <2>1. trash' = [Touch({e}, {}) EXCEPT ![e] = [x \in {e} |-> row[e]]]
    BY <1>2 DEF RemoveSelf, Removing
  <2>. QED  BY <1>2, <2>1, TrashShrinks
<1>7. TypeInv'
  BY <1>1, <1>2, <1>3, <1>4, <1>6 DEF TypeInv, Live
<1>8. HistoryInv'
  BY <1>1 DEF StoreInv, HistoryInv
<1>9. Newest(e).row = row[e] /\ Newest(e).deleted /\ Logged(e)
  <2>1. Newest(e) = [row |-> row[e], deleted |-> TRUE] /\ row[e] \in RowsOf(e)
    BY <1>2 DEF Removing, TypeInv
  <2>2. Newest(e) \in VersionsOf(e)
    BY <2>1 DEF VersionsOf
  <2>3. Newest(e).row = row[e] /\ Newest(e).deleted = TRUE
    BY <2>1
  <2>4. Newest(e) # Absent
    BY <1>2, <2>2, BlockStoreAssumption
  <2>. QED  BY <2>3, <2>4 DEF Logged
<1>10. Emptying(call[p])'
  <2>1. SyncedBut({})'
    BY <1>2, <1>4, <1>5, <1>9 DEF Removing, SyncedBut, Synced
  <2>2. HousedBut({e})'
    BY <1>2, <1>4, BlockStoreAssumption DEF Removing, HousedBut, Entity
  <2>. QED  BY <1>2, <1>3, <1>4, <2>1, <2>2 DEF Emptying
<1>11. (\A q \in Process : Stage(call[q]))'
  BY <1>3, <1>10 DEF Stage, OneAtATime
<1>12. TrashInv'
  <2>1. ASSUME NEW x \in Entity, NEW b \in DOMAIN trash'[x]
        PROVE  /\ b \in Entity /\ trash'[x][b] \in RowsOf(b)
               /\ Logged(b) /\ Recalls(Newest(b), trash'[x][b])
               /\ \/ b = x
                  \/ b \in Block /\ BoardOf[b] = HomeOf(x)
                     /\ (x \in Block => trash'[x][b].parent = x)
    <3>1. CASE x = e
      <4>1. b = e /\ trash'[x][b] = row[e] /\ row[e] \in RowsOf(e)
        BY <1>2, <1>6, <2>1, <3>1 DEF Removing, TypeInv
      <4>. QED  BY <1>2, <1>9, <3>1, <4>1 DEF Recalls
    <3>2. CASE x # e
      BY <1>6, <2>1, <3>2 DEF StoreInv, TrashInv
    <3>. QED  BY <3>1, <3>2
  <2>. QED  BY <1>5, <2>1 DEF TrashInv, HomeOf
<1>13. RestoredInv'
  <2>1. \A x \in Entity : ~Halfway(x)
    BY <1>1 DEF Halfway, OneAtATime
  <2>2. ASSUME NEW x \in Entity, x \in DOMAIN trash'[x], Live(x)'
        PROVE  \A b \in DOMAIN trash'[x] : Live(b)'
    BY <1>4, <1>6, <2>1, <2>2 DEF StoreInv, RestoredInv, TrashInv
  <2>. QED  BY <2>2 DEF RestoredInv
<1>. QED  BY <1>7, <1>8, <1>11, <1>12, <1>13 DEF StoreInv

----------------------------------------------------------------------------
\* The versions of the children that are deleted with e.
LEMMA LogDeletedKeeps ==
    ASSUME OneAtATime, StoreInv, NEW p \in Process, LogDeletedChildren(p)
    PROVE  StoreInv'
<1>. DEFINE c == call[p]
<1>. PICK e : e = c.id
  OBVIOUS
<1>1. /\ c.op = "delete" /\ c.at = "logChildren" /\ UNCHANGED <<row, trash>>
      /\ Goto(p, "removeChildren")
      /\ history' = [x \in Entity |-> IF x \in Children(e) THEN Log(x, row[x], TRUE)
                                                           ELSE history[x]]
  BY DEF LogDeletedChildren
<1>2. c # Idle /\ TypeInv /\ c \in Calls
  BY <1>1, CallNamed, CallMoves DEF StoreInv, Operations
<1>3. Emptying(c) /\ e \in Entity
  BY <1>1, <1>2, StageNamed DEF StoreInv, Calls
<1>4. /\ call' \in [Process -> Calls \cup {Idle}] /\ call'[p] # Idle
      /\ call'[p].op = "delete" /\ call'[p].id = e /\ call'[p].at = "removeChildren"
  BY <1>1, <1>2, CallMoves DEF Stages
<1>5. ASSUME NEW x \in Children(e)
      PROVE  /\ x \in Entity /\ row[x] \in RowsOf(x) /\ GoodHistory(x, history[x])
             /\ Logged(x) /\ ~Newest(x).deleted /\ Newest(x).row = row[x]
  <2>1. x \in Entity /\ Live(x)
    BY DEF Children, Entity
  <2>2. Synced(x)
    BY <1>3, <2>1 DEF Emptying, SyncedBut
  <2>. QED  BY <1>2, <2>1, <2>2 DEF Synced, Live, TypeInv, StoreInv, HistoryInv
<1>6. ASSUME NEW x \in Children(e)
      PROVE  /\ GoodHistory(x, history'[x])
             /\ Newest(x)' = [row |-> row[x], deleted |-> TRUE] /\ Logged(x)'
  <2>1. history'[x] = Log(x, row[x], TRUE)
    BY <1>1, <1>5
  <2>. QED  BY <1>5, <2>1, HistoryKept DEF Newest, Logged
<1>7. \A x \in Entity \ Children(e) :
          history'[x] = history[x] /\ Newest(x)' = Newest(x) /\ (Logged(x)' <=> Logged(x))
  BY <1>1 DEF Newest, Logged
<1>8. HistoryInv'
  BY <1>6, <1>7 DEF StoreInv, HistoryInv
<1>9. TypeInv'
  BY <1>1, <1>2, <1>4 DEF TypeInv, Live
<1>10. \A S : Children(S)' = Children(S)
  BY <1>1 DEF Children, Live
<1>11. Clearing(call[p])'
  <2>1. \A x : Live(x)' <=> Live(x)
    BY <1>1 DEF Live
  <2>2. SyncedBut(Children(e))'
    BY <1>1, <1>3, <1>4, <1>7, <1>10 DEF Emptying, SyncedBut, Synced
  <2>3. HousedBut({e})'
    BY <1>3, <1>4, <2>1 DEF Emptying, HousedBut
  <2>4. \A b \in Children(e) : Newest(b)' = [row |-> row'[b], deleted |-> TRUE]
    BY <1>1, <1>6
  <2>5. ~Live(e)'
    BY <1>3, <2>1 DEF Emptying
  <2>. QED  BY <1>4, <1>10, <2>2, <2>3, <2>4, <2>5 DEF Clearing
<1>12. (\A q \in Process : Stage(call[q]))'
  BY <1>4, <1>11 DEF Stage, OneAtATime
<1>13. TrashInv'
  <2>1. ASSUME NEW x \in Entity, NEW b \in DOMAIN trash[x]
        PROVE  Logged(b)' /\ Recalls(Newest(b)', trash[x][b])
    <3>1. b \in Entity /\ Logged(b) /\ Recalls(Newest(b), trash[x][b])
      BY <2>1 DEF StoreInv, TrashInv
    <3>2. CASE b \in Children(e)
      <4>1. Newest(b)'.row = row[b] /\ Newest(b)'.deleted /\ Newest(b).row = row[b] /\ Logged(b)'
        BY <1>5, <1>6, <3>1, <3>2
      <4>. QED  BY <3>1, <4>1 DEF Recalls
    <3>3. CASE b \notin Children(e)
      BY <1>7, <3>1, <3>3
    <3>. QED  BY <3>2, <3>3
  <2>. QED  BY <1>1, <2>1 DEF StoreInv, TrashInv
<1>14. RestoredInv'
  <2>1. \A x \in Entity : ~Halfway(x)
    BY <1>1 DEF Halfway, OneAtATime
  <2>. QED  BY <1>1, <2>1 DEF StoreInv, RestoredInv, Live
<1>. QED  BY <1>8, <1>9, <1>12, <1>13, <1>14 DEF StoreInv

\* Their rows.
LEMMA RemoveChildrenKeeps ==
    ASSUME OneAtATime, StoreInv, NEW p \in Process, RemoveChildren(p)
    PROVE  StoreInv'
<1>. DEFINE c == call[p]
<1>. PICK e : e = c.id
  OBVIOUS
<1>. DEFINE gone == Children(e)
            with == {e} \cap DOMAIN trash[e]
<1>1. /\ c # Idle /\ c.at = "removeChildren" /\ history' = history /\ Return(p)
      /\ row' = [b \in Entity |-> IF b \in gone THEN Absent ELSE row[b]]
      /\ trash' = [Touch(gone, {}) EXCEPT ![e] =
                      [b \in with \cup gone |-> IF b \in gone THEN row[b] ELSE trash[e][b]]]
  BY DEF RemoveChildren
<1>2. Clearing(c) /\ c \in Calls /\ TypeInv /\ e \in Entity
  BY <1>1, StageNamed, CallMoves DEF StoreInv, Calls
<1>3. call' \in [Process -> Calls \cup {Idle}] /\ call'[p] = Idle
  BY <1>1, <1>2, CallMoves
<1>4. /\ \A x \in Entity : /\ row'[x] = IF x \in gone THEN Absent ELSE row[x]
                           /\ Live(x)' <=> Live(x) /\ x \notin gone
      /\ row' \in [Entity -> Rows \cup {Absent}]
  BY <1>1, <1>2 DEF TypeInv, Live
<1>5. \A x \in Entity : Newest(x)' = Newest(x) /\ (Logged(x)' <=> Logged(x))
  BY <1>1 DEF Newest, Logged
<1>6. /\ DOMAIN trash' = Entity
      /\ DOMAIN trash'[e] = with \cup gone
      /\ \A b \in with \cup gone :
             trash'[e][b] = IF b \in gone THEN row[b] ELSE trash[e][b]
      /\ \A x \in Entity \ {e} :
             /\ DOMAIN trash'[x] = DOMAIN trash[x] \ gone
             /\ \A b \in DOMAIN trash'[x] : trash'[x][b] = trash[x][b]
  <2>. HIDE DEF gone, with
  <2>. QED  BY <1>1, <1>2, TrashShrinks
<1>7. TypeInv'
  BY <1>1, <1>2, <1>3, <1>4, <1>6 DEF TypeInv, Live
<1>8. HistoryInv'
  BY <1>1 DEF StoreInv, HistoryInv
<1>9. ASSUME NEW b \in gone
      PROVE  /\ b \in Block /\ b \in Entity /\ BoardOf[b] = HomeOf(e)
             /\ e \in Block => row[b].parent = e
             /\ row[b] \in RowsOf(b)
             /\ Newest(b).row = row[b] /\ Newest(b).deleted /\ Logged(b)
  <2>1. /\ b \in Block /\ b \in Entity /\ Live(b) /\ BoardOf[b] = HomeOf(e)
        /\ e \in Block => row[b].parent = e
    BY <1>9 DEF Children, Entity
  <2>2. Newest(b) = [row |-> row[b], deleted |-> TRUE]
    BY <1>2 DEF Clearing
  <2>3. Newest(b) \in VersionsOf(b)
    BY <1>2, <2>1, <2>2 DEF TypeInv, VersionsOf
  <2>4. Newest(b).row = row[b] /\ Newest(b).deleted = TRUE
    BY <2>2
  <2>5. Newest(b) # Absent
    BY <2>1, <2>3, BlockStoreAssumption
  <2>6. row[b] \in RowsOf(b)
    BY <1>2, <2>1 DEF TypeInv
  <2>. QED  BY <2>1, <2>4, <2>5, <2>6 DEF Logged
<1>10. Resting(call[p])'
  <2>1. SyncedBut({})'
    BY <1>2, <1>4, <1>5, <1>9 DEF Clearing, SyncedBut, Synced
  <2>2. HousedBut({})'
    <3>1. ASSUME NEW b \in Block, Live(b)'
          PROVE  Live(BoardOf[b])'
      <4>1. b \in Entity /\ BoardOf[b] \in Board /\ BoardOf[b] \in Entity
            /\ BoardOf[b] \notin Block
        BY BlockStoreAssumption DEF Entity
      <4>2. Live(b) /\ b \notin gone
        BY <1>4, <3>1, <4>1
      <4>3. Live(BoardOf[b]) \/ BoardOf[b] = e
        BY <1>2, <4>2 DEF Clearing, HousedBut
      <4>4. BoardOf[b] # e
        BY <4>1, <4>2 DEF Children, HomeOf
      <4>5. BoardOf[b] \notin gone
        BY <4>1 DEF Children
      <4>. QED  BY <1>4, <4>1, <4>3, <4>4, <4>5
    <3>. QED  BY <3>1 DEF HousedBut
  <2>. QED  BY <1>3, <2>1, <2>2 DEF Resting
<1>11. (\A q \in Process : Stage(call[q]))'
  BY <1>10 DEF Stage, OneAtATime
<1>12. TrashInv'
  <2>1. ASSUME NEW x \in Entity, NEW b \in DOMAIN trash'[x]
        PROVE  /\ b \in Entity /\ trash'[x][b] \in RowsOf(b)
               /\ Logged(b) /\ Recalls(Newest(b), trash'[x][b])
               /\ \/ b = x
                  \/ b \in Block /\ BoardOf[b] = HomeOf(x)
                     /\ (x \in Block => trash'[x][b].parent = x)
    <3>1. CASE x = e /\ b \in gone
      BY <1>6, <1>9, <3>1 DEF Recalls
    <3>2. CASE x # e \/ b \notin gone
      <4>1. b \in DOMAIN trash[x] /\ trash'[x][b] = trash[x][b]
        BY <1>6, <2>1, <3>2
      <4>. QED  BY <4>1 DEF StoreInv, TrashInv
    <3>. QED  BY <3>1, <3>2
  <2>. QED  BY <1>5, <2>1 DEF TrashInv, HomeOf
<1>13. RestoredInv'
  <2>1. \A x \in Entity : ~Halfway(x)
    BY <1>1 DEF Halfway, OneAtATime
  <2>2. ASSUME NEW x \in Entity, x \in DOMAIN trash'[x], Live(x)'
        PROVE  \A b \in DOMAIN trash'[x] : Live(b)'
    <3>1. x # e
      BY <1>2, <1>4, <2>2 DEF Clearing
    <3>2. \A b \in DOMAIN trash'[x] : b \in Entity /\ Live(b) /\ b \notin gone
      BY <1>4, <1>6, <2>1, <2>2, <3>1 DEF StoreInv, RestoredInv, TrashInv
    <3>. QED  BY <1>4, <3>2
  <2>. QED  BY <2>2 DEF RestoredInv
<1>. QED  BY <1>7, <1>8, <1>11, <1>12, <1>13 DEF StoreInv

\* What an undelete of e takes from the history are newest versions.
LEMMA DeletedNewest ==
    ASSUME HistoryInv, NEW e, NEW b \in DeletedChildren(e)
    PROVE  /\ b \in Block /\ b \in Entity /\ BoardOf[b] = HomeOf(e)
           /\ VersionFor(e, b) = Newest(b) /\ Logged(b)
           /\ Newest(b).row \in RowsOf(b)
           /\ Newest(b) = [row |-> Newest(b).row, deleted |-> TRUE]
<1>1. /\ b \in Block /\ b \in Entity
      /\ VersionFor(e, b) # Absent /\ VersionFor(e, b).deleted
  BY DEF DeletedChildren, Entity
<1>2. BoardOf[b] = HomeOf(e)
  BY <1>1 DEF VersionFor
<1>3. GoodHistory(b, history[b])
  BY <1>1 DEF HistoryInv
<1>4. VersionFor(e, b) = Newest(b)
  <2>1. CASE e \in Board
    BY <1>2, <2>1 DEF VersionFor
  <2>2. CASE e \notin Board
    <3>1. e \in DOMAIN history[b].under /\ VersionFor(e, b) = history[b].under[e]
      BY <1>1, <1>2, <2>2 DEF VersionFor
    <3>. QED  BY <1>1, <1>3, <3>1 DEF GoodHistory, Newest
  <2>. QED  BY <2>1, <2>2
<1>5. Newest(b) \in VersionsOf(b) /\ Newest(b).deleted
  BY <1>1, <1>3, <1>4 DEF GoodHistory, Newest
<1>6. Newest(b).row \in RowsOf(b) /\ Newest(b) = [row |-> Newest(b).row, deleted |-> TRUE]
  <2>. DEFINE v == Newest(b)
  <2>1. v \in [row : RowsOf(b), deleted : BOOLEAN] /\ v.deleted = TRUE
    BY <1>5 DEF VersionsOf
  <2>. HIDE DEF v
  <2>2. v.row \in RowsOf(b) /\ v = [row |-> v.row, deleted |-> TRUE]
    BY <2>1
  <2>. QED  BY <2>2 DEF v
<1>. QED  BY <1>1, <1>2, <1>4, <1>6 DEF Logged

\* What the delete of e removed and is still deleted is among them.
LEMMA RemovedFound ==
    ASSUME HistoryInv, TrashInv, NEW e \in Entity, NEW b \in DOMAIN trash[e], b # e,
           Newest(b).deleted
    PROVE  b \in DeletedChildren(e)
<1>1. /\ b \in Entity /\ Logged(b) /\ Newest(b).row = trash[e][b]
      /\ b \in Block /\ BoardOf[b] = HomeOf(e) /\ (e \in Block => trash[e][b].parent = e)
  BY UnlinkedRow DEF TrashInv, Recalls
<1>2. VersionFor(e, b) = Newest(b)
  <2>1. CASE e \in Board
    BY <1>1, <2>1 DEF VersionFor
  <2>2. CASE e \notin Board
    <3>1. e \in Block /\ Newest(b).row.parent = e
      BY <1>1, <2>2 DEF Entity
    <3>2. e \in DOMAIN history[b].under /\ history[b].under[e] = Newest(b)
      BY <1>1, <3>1 DEF HistoryInv, GoodHistory, Newest, Logged
    <3>. QED  BY <1>1, <2>2, <3>2 DEF VersionFor
  <2>. QED  BY <2>1, <2>2
<1>. QED  BY <1>1, <1>2 DEF DeletedChildren, Logged

\* The rows of the children that are restored: none of them is there, so that the
\* statement does not fail.
LEMMA CreateChildrenKeeps ==
    ASSUME OneAtATime, StoreInv, NEW p \in Process, CreateChildren(p)
    PROVE  StoreInv' /\ Goto(p, "logChildren")
<1>. DEFINE c == call[p]
<1>. PICK e : e = c.id
  OBVIOUS
<1>. DEFINE back == DeletedChildren(e)
<1>1. c # Idle /\ c.at = "createChildren" /\ history' = history
  BY DEF CreateChildren
<1>2. Restoring(c) /\ c \in Calls /\ TypeInv /\ HistoryInv /\ TrashInv /\ e \in Entity
  BY <1>1, StageNamed, CallMoves DEF StoreInv, Calls
<1>3. ASSUME NEW b \in back
      PROVE  /\ b \in Block /\ b \in Entity /\ BoardOf[b] = HomeOf(e)
             /\ VersionFor(e, b) = Newest(b) /\ Newest(b).row \in RowsOf(b)
             /\ Newest(b).row # Absent /\ Newest(b).row \in Rows
             /\ Newest(b) = [row |-> Newest(b).row, deleted |-> TRUE]
             /\ ~Live(b)
  <2>1. /\ b \in Block /\ b \in Entity /\ BoardOf[b] = HomeOf(e)
        /\ VersionFor(e, b) = Newest(b) /\ Newest(b).row \in RowsOf(b)
        /\ Newest(b) = [row |-> Newest(b).row, deleted |-> TRUE]
    BY <1>2, <1>3, DeletedNewest
  <2>2. Newest(b).deleted = TRUE
    BY <2>1
  <2>3. ~Live(b)
    BY <1>2, <2>1, <2>2 DEF Restoring, SyncedBut, Synced, Live
  <2>4. Newest(b).row # Absent /\ Newest(b).row \in Rows
    BY <2>1, BlockStoreAssumption DEF Rows
  <2>. QED  BY <2>1, <2>3, <2>4
<1>4. /\ Goto(p, "logChildren") /\ trash' = Touch(back, {e})
      /\ row' = [b \in Entity |-> IF b \in back THEN VersionFor(e, b).row ELSE row[b]]
  BY <1>3 DEF CreateChildren
<1>5. /\ call' \in [Process -> Calls \cup {Idle}] /\ call'[p] # Idle
      /\ call'[p].op = "undelete" /\ call'[p].id = e /\ call'[p].at = "logChildren"
  BY <1>1, <1>2, <1>4, CallMoves DEF Stages, Restoring
<1>6. /\ \A x \in Entity : /\ row'[x] = IF x \in back THEN Newest(x).row ELSE row[x]
                           /\ Live(x)' <=> Live(x) \/ x \in back
      /\ row' \in [Entity -> Rows \cup {Absent}]
  <2>. HIDE DEF back
  <2>. QED  BY <1>2, <1>3, <1>4 DEF TypeInv, Live
<1>7. \A x \in Entity :
          /\ DOMAIN trash'[x] = DOMAIN trash[x] \ (IF x = e THEN {} ELSE back)
          /\ \A b \in DOMAIN trash'[x] : trash'[x][b] = trash[x][b]
  <2>. HIDE DEF back
  <2>. QED  BY <1>4, TrashShrinks
<1>8. TypeInv'
  <2>1. \A x \in Entity : Live(x)' => row'[x] \in RowsOf(x)
    BY <1>2, <1>3, <1>6 DEF TypeInv
  <2>2. DOMAIN trash' = Entity
    BY <1>4, TrashShrinks
  <2>. QED  BY <1>1, <1>2, <1>5, <1>6, <2>1, <2>2 DEF TypeInv
<1>9. HistoryInv'
  BY <1>1, <1>2 DEF HistoryInv
<1>10. /\ \A x \in Entity : Newest(x)' = Newest(x) /\ (Logged(x)' <=> Logged(x))
       /\ DeletedChildren(e)' = back
  BY <1>1 DEF Newest, Logged, DeletedChildren, VersionFor
<1>11. Finishing(call[p])'
  <2>1. \A x \in Entity \ back : Synced(x)'
    <3>. HIDE DEF back
    <3>. QED  BY <1>2, <1>6, <1>10 DEF Restoring, SyncedBut, Synced
  <2>2. HousedBut({})'
    <3>1. ASSUME NEW b \in Block, Live(b)'
          PROVE  Live(BoardOf[b])'
      <4>1. b \in Entity /\ BoardOf[b] \in Board /\ BoardOf[b] \in Entity
        BY BlockStoreAssumption DEF Entity
      <4>2. CASE b \in back
        <5>1. BoardOf[b] = HomeOf(e)
          BY <1>3, <4>2
        <5>2. Live(HomeOf(e))
          BY <1>2 DEF Restoring, HousedBut, HomeOf, Entity
        <5>. QED  BY <1>6, <4>1, <5>1, <5>2
      <4>3. CASE b \notin back
        BY <1>2, <1>6, <3>1, <4>1, <4>3 DEF Restoring, HousedBut
      <4>. QED  BY <4>2, <4>3
    <3>. QED  BY <3>1 DEF HousedBut
  <2>3. \A b \in back : Newest(b)' = [row |-> row'[b], deleted |-> TRUE] /\ Live(b)'
    BY <1>3, <1>6, <1>10
  <2>4. Live(e)'
    BY <1>2, <1>6 DEF Restoring
  <2>. HIDE DEF back
  <2>5. SyncedBut(DeletedChildren(e))' /\ \A b \in DeletedChildren(e)' :
            Newest(b)' = [row |-> row'[b], deleted |-> TRUE] /\ Live(b)'
    BY <1>10, <2>1, <2>3 DEF SyncedBut
  <2>. QED  BY <1>5, <2>2, <2>4, <2>5 DEF Finishing
<1>12. (\A q \in Process : Stage(call[q]))'
  BY <1>5, <1>11 DEF Stage, OneAtATime
<1>13. TrashInv'
  BY <1>2, <1>7, <1>10 DEF TrashInv, HomeOf
<1>14. RestoredInv'
  <2>1. \A x \in Entity \ {e} : ~Halfway(x)
    BY DEF Halfway, OneAtATime
  <2>2. ASSUME NEW x \in Entity, x \in DOMAIN trash'[x], Live(x)'
        PROVE  \A b \in DOMAIN trash'[x] : Live(b)'
    <3>1. CASE x = e
      <4>1. ASSUME NEW b \in DOMAIN trash[e]
            PROVE  Live(b)'
        <5>1. b \in Entity /\ Logged(b)
          BY <1>2, <4>1 DEF TrashInv
        <5>2. CASE b = e
          BY <1>2, <1>6, <5>2 DEF Restoring
        <5>3. CASE b # e /\ Newest(b).deleted
          BY <1>2, <1>6, <5>1, <5>3, RemovedFound
        <5>4. CASE ~Newest(b).deleted
          <6>1. row[b] = Newest(b).row /\ Newest(b) \in VersionsOf(b)
            BY <1>2, <5>1, <5>4
            DEF Restoring, SyncedBut, Synced, HistoryInv, GoodHistory, Newest, Logged
          <6>2. Live(b)
            BY <5>1, <6>1, BlockStoreAssumption DEF VersionsOf, Live
          <6>. QED  BY <1>6, <5>1, <6>2
        <5>. QED  BY <5>2, <5>3, <5>4
      <4>. QED  BY <1>2, <1>7, <3>1, <4>1
    <3>2. CASE x # e
      <4>1. x \in DOMAIN trash[x] /\ x \notin back
        BY <1>7, <2>2, <3>2
      <4>2. Live(x)
        BY <1>6, <2>2, <4>1
      <4>3. \A b \in DOMAIN trash[x] : Live(b) /\ b \in Entity
        BY <2>1, <3>2, <4>1, <4>2 DEF StoreInv, RestoredInv, TrashInv
      <4>. QED  BY <1>6, <1>7, <4>3
    <3>. QED  BY <3>1, <3>2
  <2>. QED  BY <2>2 DEF RestoredInv
<1>. QED  BY <1>4, <1>8, <1>9, <1>12, <1>13, <1>14 DEF StoreInv

\* The versions of the children that are restored.
LEMMA LogRestoredKeeps ==
    ASSUME OneAtATime, StoreInv, NEW p \in Process, LogRestoredChildren(p)
    PROVE  StoreInv'
<1>. DEFINE c == call[p]
<1>. PICK e : e = c.id
  OBVIOUS
<1>. DEFINE back == DeletedChildren(e)
<1>1. /\ c.op = "undelete" /\ c.at = "logChildren" /\ UNCHANGED <<row, trash>> /\ Return(p)
      /\ history' = [b \in Entity |-> IF b \in back THEN Log(b, VersionFor(e, b).row, FALSE)
                                                    ELSE history[b]]
  BY DEF LogRestoredChildren
<1>2. c # Idle /\ TypeInv /\ HistoryInv /\ c \in Calls
  BY <1>1, CallNamed, CallMoves DEF StoreInv, Operations
<1>3. Finishing(c)
  BY <1>1, <1>2, StageNamed DEF StoreInv
<1>4. call' \in [Process -> Calls \cup {Idle}] /\ call'[p] = Idle
  BY <1>1, <1>2, CallMoves
<1>5. ASSUME NEW b \in back
      PROVE  /\ b \in Entity /\ GoodHistory(b, history[b]) /\ row[b] \in RowsOf(b)
             /\ VersionFor(e, b).row = row[b] /\ Newest(b).row = row[b] /\ Live(b)
  <2>1. b \in Entity /\ VersionFor(e, b) = Newest(b)
    BY <1>2, DeletedNewest
  <2>2. Newest(b) = [row |-> row[b], deleted |-> TRUE] /\ Live(b)
    BY <1>3 DEF Finishing
  <2>3. Newest(b).row = row[b]
    BY <2>2
  <2>. QED  BY <1>2, <2>1, <2>2, <2>3 DEF HistoryInv, TypeInv
<1>6. ASSUME NEW b \in back
      PROVE  /\ GoodHistory(b, history'[b])
             /\ Newest(b)' = [row |-> row[b], deleted |-> FALSE] /\ Logged(b)'
  <2>1. history'[b] = Log(b, row[b], FALSE)
    BY <1>1, <1>5
  <2>2. /\ GoodHistory(b, Log(b, row[b], FALSE))
        /\ Log(b, row[b], FALSE).newest = [row |-> row[b], deleted |-> FALSE]
        /\ Log(b, row[b], FALSE).newest # Absent
    <3>1. FALSE \in BOOLEAN
      OBVIOUS
    <3>2. Logged(b) => ~Newest(b).deleted \/ Newest(b).row.parent = row[b].parent
      BY <1>5
    <3>. HIDE DEF back
    <3>. QED  BY <1>5, <3>1, <3>2, HistoryKept
  <2>. QED  BY <2>1, <2>2 DEF Newest, Logged
<1>. HIDE DEF back
<1>7. \A x \in Entity \ back :
          history'[x] = history[x] /\ Newest(x)' = Newest(x) /\ (Logged(x)' <=> Logged(x))
  BY <1>1 DEF Newest, Logged
<1>8. HistoryInv'
  BY <1>2, <1>6, <1>7 DEF HistoryInv
<1>9. TypeInv'
  BY <1>1, <1>2, <1>4 DEF TypeInv, Live
<1>10. Resting(call[p])'
  <2>1. ASSUME NEW x \in Entity
        PROVE  Synced(x)'
    <3>1. CASE x \in back
      <4>1. Newest(x)'.row = row[x] /\ Newest(x)'.deleted = FALSE /\ Logged(x)'
        BY <1>6, <3>1
      <4>. QED  BY <1>1, <4>1 DEF Synced
    <3>2. CASE x \notin back
      BY <1>1, <1>3, <1>7, <3>2 DEF Finishing, SyncedBut, Synced, back
    <3>. QED  BY <3>1, <3>2
  <2>2. HousedBut({})'
    BY <1>1, <1>3 DEF Finishing, HousedBut, Live
  <2>. QED  BY <1>4, <2>1, <2>2 DEF Resting, SyncedBut
<1>11. (\A q \in Process : Stage(call[q]))'
  BY <1>10 DEF Stage, OneAtATime
<1>12. TrashInv'
  <2>1. ASSUME NEW x \in Entity, NEW b \in DOMAIN trash[x]
        PROVE  Logged(b)' /\ Recalls(Newest(b)', trash[x][b])
    <3>1. b \in Entity /\ Logged(b) /\ Recalls(Newest(b), trash[x][b])
      BY <2>1 DEF StoreInv, TrashInv
    <3>2. CASE b \in back
      <4>1. b \in Block /\ trash[x][b] \in RowsOf(b)
        BY <2>1, <3>2 DEF StoreInv, TrashInv, back, DeletedChildren
      <4>2. Newest(b)'.row = Newest(b).row /\ Logged(b)'
        BY <1>5, <1>6, <3>2
      <4>. QED  BY <3>1, <4>1, <4>2, UnlinkedRow DEF Recalls
    <3>3. CASE b \notin back
      BY <1>7, <3>1, <3>3
    <3>. QED  BY <3>2, <3>3
  <2>. QED  BY <1>1, <2>1 DEF StoreInv, TrashInv
<1>13. RestoredInv'
  <2>1. \A x \in Entity : ~Halfway(x)
    BY <1>1 DEF Halfway, OneAtATime
  <2>. QED  BY <1>1, <2>1 DEF StoreInv, RestoredInv, Live
<1>. QED  BY <1>8, <1>9, <1>11, <1>12, <1>13 DEF StoreInv

----------------------------------------------------------------------------
LEMMA StoreInit == Init => StoreInv
<1>. SUFFICES ASSUME Init PROVE StoreInv
  OBVIOUS
<1>1. /\ row = [e \in Entity |-> Absent] /\ history = [e \in Entity |-> NoHistory]
      /\ call = [p \in Process |-> Idle] /\ trash = [e \in Entity |-> <<>>]
  BY DEF Init
<1>2. \A e \in Entity : /\ ~Live(e) /\ ~Logged(e) /\ Newest(e) = Absent
                        /\ DOMAIN history[e].under = {} /\ DOMAIN trash[e] = {}
  BY <1>1 DEF Live, Logged, Newest, NoHistory
<1>3. TypeInv
  BY <1>1, <1>2 DEF TypeInv
<1>4. HistoryInv
  BY <1>2 DEF HistoryInv, GoodHistory, Newest
<1>5. \A p \in Process : Stage(call[p])
  BY <1>1, <1>2 DEF Stage, Resting, SyncedBut, Synced, HousedBut, Live, Entity
<1>. QED  BY <1>2, <1>3, <1>4, <1>5 DEF StoreInv, TrashInv, RestoredInv

LEMMA StoreStep == OneAtATime /\ StoreInv /\ [Next]_vars => StoreInv'
<1>. SUFFICES ASSUME OneAtATime, StoreInv, [Next]_vars PROVE StoreInv'
  OBVIOUS
<1>1. ASSUME NEW p \in Process, Begin(p)
      PROVE  StoreInv'
  BY <1>1, BeginKeeps
<1>2. ASSUME NEW p \in Process, Statement(p)
      PROVE  StoreInv'
  BY <1>2, PatchReadKeeps, LookupKeeps, UpdateKeeps, CreateKeeps, LogSelfKeeps,
     DeleteReadKeeps, RemoveSelfKeeps, LogDeletedKeeps, RemoveChildrenKeeps,
     UndeleteReadKeeps, CreateChildrenKeeps, LogRestoredKeeps DEF Statement
<1>3. CASE UNCHANGED vars
  <2>1. UNCHANGED <<row, history, call, trash>>
    BY <1>3 DEF vars
  <2>2. TypeInv' /\ HistoryInv' /\ TrashInv'
    BY <2>1 DEF StoreInv, TypeInv, HistoryInv, TrashInv, Live, Logged, Newest
  <2>3. RestoredInv'
    BY <2>1 DEF StoreInv, RestoredInv, Halfway, Live
  <2>4. \A p \in Process : Stage(call[p])'
    <3>. SUFFICES ASSUME NEW p \in Process PROVE Stage(call[p])'
      OBVIOUS
    <3>1. Stage(call[p]) /\ call'[p] = call[p] /\ trash' = trash /\ row' = row
      BY <2>1 DEF StoreInv
    <3>2. \A e : DeletedChildren(e)' = DeletedChildren(e)
      BY <2>1 DEF DeletedChildren, VersionFor, Newest
    <3>. QED  BY <2>1, <3>1, <3>2, TablesKept
         DEF Stage, Resting, Making, Patching, Updating, Writing, Deleting, Removing,
             Emptying, Clearing, Reviving, Recording, Recreating, Restoring, Finishing
  <2>. QED  BY <2>2, <2>3, <2>4 DEF StoreInv
<1>. QED  BY <1>1, <1>2, <1>3 DEF Next

LEMMA StoreInvariant == OneAtATime => (Spec => []StoreInv)
<1>. SUFFICES ASSUME OneAtATime PROVE Spec => []StoreInv
  OBVIOUS
<1>1. Init => StoreInv
  BY StoreInit
<1>2. StoreInv /\ [Next]_vars => StoreInv'
  BY StoreStep
<1>. QED  BY <1>1, <1>2, PTL DEF Spec

\* Between two calls the live tables are the newest versions of the history.
THEOREM TablesCorrect == OneAtATime => (Spec => []TablesAgree)
<1>. SUFFICES ASSUME OneAtATime PROVE Spec => []TablesAgree
  OBVIOUS
<1>1. StoreInv => TablesAgree
  BY DEF StoreInv, OneAtATime, Stage, Resting, SyncedBut, Synced, TablesAgree, Quiescent
<1>. QED  BY <1>1, StoreInvariant, PTL

\* Between two calls every live block belongs to a live board.
THEOREM HousedCorrect == OneAtATime => (Spec => []BlockHasBoard)
<1>. SUFFICES ASSUME OneAtATime PROVE Spec => []BlockHasBoard
  OBVIOUS
<1>1. StoreInv => BlockHasBoard
  BY DEF StoreInv, OneAtATime, Stage, Resting, HousedBut, BlockHasBoard, Quiescent
<1>. QED  BY <1>1, StoreInvariant, PTL

\* An undelete that returns has brought back what the delete removed.
LEMMA RestoredStep ==
    ASSUME OneAtATime, StoreInv, [Next]_vars, NEW p \in Process,
           call[p] # Idle, call[p].op = "undelete", call'[p] = Idle,
           call[p].id \in DOMAIN trash[call[p].id]
    PROVE  \A b \in DOMAIN trash[call[p].id] : row'[b] = Unlinked(trash[call[p].id][b])
<1>. DEFINE c == call[p]
            e == c.id
<1>1. c \in Calls /\ e \in Entity /\ TypeInv /\ TrashInv /\ Stage(c)
  BY CallMoves DEF StoreInv, Calls
<1>2. \A q \in Process : q = p
  BY DEF OneAtATime
<1>3. Statement(p) /\ call' # call
  <2>1. call' # call
    OBVIOUS
  <2>2. PICK q \in Process : Begin(q) \/ Statement(q)
    BY <2>1 DEF Next, vars
  <2>3. ~Begin(p)
    BY DEF Begin, Start, StartInsert, StartPatch, StartDelete, StartUndelete
  <2>. QED  BY <1>2, <2>1, <2>2, <2>3
<1>4. ASSUME NEW s \in Stages
      PROVE  ~Goto(p, s)
  BY <1>1, CallMoves
<1>5. UndeleteRead(p) \/ LogRestoredChildren(p)
  <2>1. ~PatchRead(p) /\ ~DeleteRead(p) /\ ~LogDeletedChildren(p)
    BY DEF PatchRead, DeleteRead, LogDeletedChildren
  <2>2. ~Lookup(p) /\ ~Update(p) /\ ~RemoveSelf(p)
    BY <1>4 DEF Lookup, Update, RemoveSelf, Stages
  <2>3. ~LogSelf(p)
    BY <1>4 DEF LogSelf, Stages
  <2>4. ~RemoveChildren(p)
    BY <1>1, StageNamed DEF RemoveChildren, Clearing
  <2>5. ~CreateChildren(p)
    BY <1>4, CreateChildrenKeeps DEF Stages
  <2>6. ~Create(p)
    <3>1. ASSUME Create(p) PROVE Recreating(c)
      BY <1>1, <3>1, StageNamed DEF Create, Making
    <3>. QED  BY <1>4, <3>1 DEF Create, Recreating, Stages
  <2>. QED  BY <1>3, <2>1, <2>2, <2>3, <2>4, <2>5, <2>6 DEF Statement
<1>6. \A b \in DOMAIN trash[e] : /\ b \in Entity /\ Logged(b)
                                  /\ Recalls(Newest(b), trash[e][b])
                                  /\ (b = e \/ Newest(b).row = Unlinked(trash[e][b]))
  BY <1>1, UnlinkedRow DEF TrashInv, Recalls
<1>7. \A b \in DOMAIN trash[e] : b \in Entity
  BY <1>1 DEF TrashInv
<1>8. /\ row' = row /\ Live(e) /\ ~Halfway(e)
      /\ \A b \in DOMAIN trash[e] : Live(b) => row[b] = Newest(b).row
      /\ Newest(e).row = Unlinked(trash[e][e])
  <2>1. CASE UndeleteRead(p)
    <3>1. Reviving(c) /\ UNCHANGED row
      BY <1>1, <2>1, StageNamed DEF UndeleteRead
    <3>2. ~Newest(e).deleted
      <4>1. ASSUME Newest(e).deleted
            PROVE  call'[p].op = "undelete"
        <5>1. call' = [call EXCEPT ![p].at = "log", ![p].row = Unlinked(Newest(e).row)]
          BY <2>1, <4>1 DEF UndeleteRead
        <5>2. call'[p] = [c EXCEPT !.at = "log", !.row = Unlinked(Newest(e).row)]
          BY <1>1, <5>1 DEF TypeInv
        <5>. QED  BY <1>1, <5>2 DEF Calls
      <4>. QED  BY <4>1 DEF Idle
    <3>3. \A b \in Entity : Live(b) => row[b] = Newest(b).row
      BY <3>1 DEF Reviving, SyncedBut, Synced, Live
    <3>4. Live(e)
      <4>1. row[e] = Newest(e).row /\ Logged(e) /\ Newest(e) \in VersionsOf(e)
        BY <1>1, <3>1, <3>2
        DEF Reviving, SyncedBut, Synced, StoreInv, HistoryInv, GoodHistory, Newest, Logged
      <4>. QED  BY <1>1, <4>1, BlockStoreAssumption DEF VersionsOf, Live
    <3>5. Newest(e).row = Unlinked(trash[e][e])
      BY <1>6, <3>2 DEF Recalls
    <3>6. row' = row /\ ~Halfway(e)
      BY <1>2, <2>1 DEF Halfway, UndeleteRead
    <3>7. \A b \in DOMAIN trash[e] : Live(b) => row[b] = Newest(b).row
      BY <1>7, <3>3
    <3>. HIDE DEF c, e
    <3>. QED  BY <3>4, <3>5, <3>6, <3>7
  <2>2. CASE LogRestoredChildren(p)
    <3>1. Finishing(c) /\ UNCHANGED row
      BY <1>1, <2>2, StageNamed DEF LogRestoredChildren
    <3>2. ASSUME NEW b \in Entity, Live(b)
          PROVE  row[b] = Newest(b).row
      <4>1. CASE b \in DeletedChildren(e)
        <5>1. Newest(b) = [row |-> row[b], deleted |-> TRUE]
          BY <3>1, <4>1 DEF Finishing
        <5>. QED  BY <5>1
      <4>2. CASE b \notin DeletedChildren(e)
        BY <3>1, <3>2, <4>2 DEF Finishing, SyncedBut, Synced, Live
      <4>. QED  BY <4>1, <4>2
    <3>3. Newest(e).row = Unlinked(trash[e][e])
      <4>1. CASE e \in Block
        BY <1>1, <1>6, <4>1, UnlinkedRow DEF Recalls, TrashInv
      <4>2. CASE e \notin Block
        <5>1. ~Newest(e).deleted
          BY <1>1, <3>1, <4>2 DEF Finishing, SyncedBut, Synced, Live, DeletedChildren
        <5>. QED  BY <1>6, <5>1 DEF Recalls
      <4>. QED  BY <4>1, <4>2
    <3>4. row' = row /\ Live(e) /\ ~Halfway(e)
      BY <1>2, <2>2, <3>1 DEF Finishing, Halfway, LogRestoredChildren
    <3>5. \A b \in DOMAIN trash[e] : Live(b) => row[b] = Newest(b).row
      BY <1>7, <3>2
    <3>. HIDE DEF c, e
    <3>. QED  BY <3>3, <3>4, <3>5
  <2>. QED  BY <1>5, <2>1, <2>2
<1>9. \A b \in DOMAIN trash[e] : Live(b)
  BY <1>1, <1>8 DEF StoreInv, RestoredInv
<1>. QED  BY <1>6, <1>8, <1>9

\* When an undelete call returns, all that the matching delete removed and nobody
\* wrote since is live again, as it was but for the channel of a board.
THEOREM UndeleteCorrect == OneAtATime => (Spec => UndeleteRestores)
<1>. SUFFICES ASSUME OneAtATime PROVE Spec => UndeleteRestores
  OBVIOUS
<1>1. StoreInv /\ [Next]_vars =>
          [\A p \in Process :
               call[p] # Idle /\ call[p].op = "undelete" /\ call'[p] = Idle =>
                   LET e == call[p].id
                   IN e \in DOMAIN trash[e] =>
                          \A b \in DOMAIN trash[e] : row'[b] = Unlinked(trash[e][b])]_vars
  BY RestoredStep
<1>. QED  BY <1>1, StoreInvariant, PTL DEF Spec, UndeleteRestores
=============================================================================
