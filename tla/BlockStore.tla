----------------------------- MODULE BlockStore -----------------------------
(***************************************************************************)
(* server/services/store/sqlstore/{blocks,board}.go: boards and blocks are *)
(* kept twice, as the live row (tables boards and blocks) and as an append *)
(* only log of versions (boards_history and blocks_history) from which     *)
(* deleted ones are restored.                                              *)
(*                                                                         *)
(* One step is one SQL statement.  On SQLite the store runs them without a *)
(* transaction (public_methods.go), so the calls of two requests           *)
(* interleave at every statement; with one process the calls run one after *)
(* the other, as serialized transactions would.  Boards and blocks are     *)
(* written by the same statements over two pairs of tables: an entity is   *)
(* either, and the operators below say where the two differ.               *)
(*                                                                         *)
(* Abstractions: a row is its parent, the channel a board is linked to and *)
(* its title, which stands for the rest of the content; of the history an entity keeps its newest version  *)
(* and the newest one under each parent, the only ones that the modelled   *)
(* queries return (ORDER BY insert_at DESC, max(insert_at) GROUP BY id);   *)
(* insert_at grows with every statement (no two versions of a block within *)
(* its resolution); files are left out, and nothing fails but a duplicate  *)
(* primary key.                                                            *)
(***************************************************************************)
EXTENDS Integers, Sequences, FiniteSets

CONSTANTS Board, Block,
          BoardOf,    \* [Block -> Board]: board_id never changes
          Parents,    \* [Block -> the parents the block may be given]
          Title,
          Channel,    \* what channel_id may hold
          Process,    \* the request handlers
          NoParent, NoChannel, Absent, Keep

Entity == Board \cup Block

\* The rows an entity may have, what a patch may change of them, its versions.
\* Only a board has a channel (a block is written with channel_id "").
RowsOf(e) ==
    [parent : IF e \in Board THEN {NoParent} ELSE Parents[e], title : Title,
     channel : IF e \in Board THEN Channel ELSE {NoChannel}]
Patch(e) ==
    [parent : IF e \in Board THEN {Keep} ELSE {Keep} \cup Parents[e],
     title : {Keep} \cup Title,
     channel : IF e \in Board THEN {Keep} \cup Channel ELSE {Keep}]
VersionsOf(e) == [row : RowsOf(e), deleted : BOOLEAN]

ASSUME BlockStoreAssumption ==
    /\ BoardOf \in [Block -> Board]
    /\ Parents \in [Block -> SUBSET Entity]
    /\ Board \cap Block = {}
    /\ NoChannel \in Channel
    /\ {NoParent, Absent, Keep} \cap (Entity \cup Title \cup Channel) = {}
    /\ \A e \in Entity : Absent \notin RowsOf(e) /\ Absent \notin VersionsOf(e)

VARIABLES
    row,      \* [Entity -> its live row or Absent]
    history,  \* [Entity -> its newest version and the newest under each parent]
    call,     \* [Process -> the store call in progress]
    trash     \* history variable: what each delete call removed, as long as
              \* nothing else wrote it
vars == <<row, history, call, trash>>

Idle == [op |-> "none"]
NoHistory == [newest |-> Absent, under |-> <<>>]

Init ==
    /\ row = [e \in Entity |-> Absent]
    /\ history = [e \in Entity |-> NoHistory]
    /\ call = [p \in Process |-> Idle]
    /\ trash = [e \in Entity |-> <<>>]

----------------------------------------------------------------------------
Live(e) == row[e] # Absent

Goto(p, stage) == call' = [call EXCEPT ![p].at = stage]
Return(p) == call' = [call EXCEPT ![p] = Idle]

\* A row as undeleteBoard writes it, with channel_id "".
Unlinked(r) == [r EXCEPT !.channel = NoChannel]

\* The newest version of e, if it has any.
Newest(e) == history[e].newest
Logged(e) == Newest(e) # Absent

\* The history of e after a version was added.
Log(e, r, deleted) ==
    LET v == [row |-> r, deleted |-> deleted]
    IN [newest |-> v,
        under  |-> [q \in DOMAIN history[e].under \cup {r.parent} |->
                       IF q = r.parent THEN v ELSE history[e].under[q]]]

\* The board_id of the call for e.
HomeOf(e) == IF e \in Board THEN e ELSE BoardOf[e]

\* Mutant: a board's blocks are selected by parent_id too.
DirectChildren(e) == {b \in Block : Live(b) /\ row[b].parent = e}

\* The rows deleteBlockChildren selects: every block of a board, the direct
\* children of a block.
Children(e) ==
    {b \in Block : /\ Live(b) /\ BoardOf[b] = HomeOf(e)
                   /\ e \in Block => row[b].parent = e}

\* The newest version of b that undeleteBlockChildren(e) selects, if any.
VersionFor(e, b) ==
    IF BoardOf[b] # HomeOf(e) THEN Absent
    ELSE IF e \in Board THEN Newest(b)
    ELSE IF e \in DOMAIN history[b].under THEN history[b].under[e] ELSE Absent

\* The blocks it restores: the newest of these versions is a deletion.
DeletedChildren(e) ==
    {b \in Block : VersionFor(e, b) # Absent /\ VersionFor(e, b).deleted}

\* A write of the blocks in S ends their stay in the trash of every entity but
\* `kept' (the one being restored).
Touch(S, kept) ==
    [e \in Entity |->
        [b \in DOMAIN trash[e] \ (IF e \in kept THEN {} ELSE S) |-> trash[e][b]]]

----------------------------------------------------------------------------
(* Starting a call: what the API and the app check before they call the      *)
(* store.  New blocks get fresh ids (GenerateBlockIDs, CreateBoard).         *)

Start(p, op, e, r) ==
    /\ call[p] = Idle
    /\ call' = [call EXCEPT ![p] =
                   [op |-> op, id |-> e, row |-> r,
                    at |-> IF op = "insert" THEN "lookup" ELSE "base"]]
    /\ UNCHANGED <<row, history, trash>>

\* App.InsertBlock (its board must exist), App.CreateBoard
StartInsert(p, e) ==
    /\ ~Logged(e) /\ ~Live(e)
    /\ \A q \in Process : call[q] # Idle => call[q].id # e
    /\ e \in Block => Live(BoardOf[e])
    /\ \E r \in RowsOf(e) : Start(p, "insert", e, r)

\* App.PatchBlock, App.PatchBoard
StartPatch(p, e) ==
    /\ Live(e)
    /\ e \in Block => Live(BoardOf[e])
    /\ \E r \in Patch(e) : Start(p, "patch", e, r)

\* App.DeleteBlock, App.DeleteBoard
StartDelete(p, e) ==
    /\ Live(e)
    /\ e \in Block => Live(BoardOf[e])
    /\ Start(p, "delete", e, row[e])

\* API.handleUndeleteBlock, App.UndeleteBlock, App.UndeleteBoard
StartUndelete(p, e) ==
    /\ Logged(e)
    /\ e \in Block => Live(BoardOf[e])
    /\ Start(p, "undelete", e, Newest(e).row)

----------------------------------------------------------------------------
(* patchBlock reads the row it patches, then goes on in insertBlock.         *)

PatchRead(p) ==
    /\ call[p].op = "patch" /\ call[p].at = "base"
    /\ LET old   == row[call[p].id]
           patch == call[p].row
       IN IF old = Absent
          THEN Return(p)
          ELSE call' = [call EXCEPT ![p].at = "lookup",
                            ![p].row = [f \in DOMAIN patch |->
                                IF patch[f] = Keep THEN old[f] ELSE patch[f]]]
    /\ UNCHANGED <<row, history, trash>>

\* insertBlock, insertBoard: does the row exist?
Lookup(p) ==
    /\ call[p] # Idle /\ call[p].at = "lookup"
    /\ Goto(p, IF Live(call[p].id) THEN "update" ELSE "create")
    /\ UNCHANGED <<row, history, trash>>

\* Mutant: an update writes no version.
UpdateUnlogged(p) ==
    /\ call[p] # Idle /\ call[p].at = "update"
    /\ row' = [row EXCEPT ![call[p].id] = call[p].row]
    /\ trash' = Touch({call[p].id}, {})
    /\ Return(p)
    /\ UNCHANGED history

\* UPDATE ... WHERE id = ...: no row, no change, no error.
Update(p) ==
    /\ call[p] # Idle /\ call[p].at = "update"
    /\ LET e == call[p].id
       IN /\ row' = IF Live(e) THEN [row EXCEPT ![e] = call[p].row] ELSE row
          /\ trash' = Touch({e}, {})
    /\ Goto(p, "log")
    /\ UNCHANGED history

\* INSERT INTO blocks or boards: a duplicate key ends the call with an error.
Create(p) ==
    /\ call[p] # Idle /\ call[p].at = "create"
    /\ LET e == call[p].id
       IN IF Live(e)
          THEN Return(p) /\ UNCHANGED <<row, trash>>
          ELSE /\ row' = [row EXCEPT ![e] = call[p].row]
               /\ IF call[p].op = "undelete"
                  THEN /\ trash' = Touch({e}, {e})
                       /\ Goto(p, "createChildren")
                  ELSE /\ trash' = Touch({e}, {})
                       /\ Goto(p, "log")
    /\ UNCHANGED history

\* The version that insertBlock, undeleteBlock and deleteBlockAndChildren add.
\* An insert logs after it wrote the row, the other two before.
LogSelf(p) ==
    /\ call[p] # Idle /\ call[p].at = "log"
    /\ LET e == call[p].id
       IN history' = [history EXCEPT ![e] =
                         Log(e, call[p].row, call[p].op = "delete")]
    /\ CASE call[p].op = "delete"   -> Goto(p, "remove")
         [] call[p].op = "undelete" -> Goto(p, "create")
         [] OTHER                   -> Return(p)
    /\ UNCHANGED <<row, trash>>

----------------------------------------------------------------------------
(* deleteBlockAndChildren, deleteBoardAndChildren                            *)

DeleteRead(p) ==
    /\ call[p].op = "delete" /\ call[p].at = "base"
    /\ IF Live(call[p].id)
       THEN call' = [call EXCEPT ![p].at = "log", ![p].row = row[call[p].id]]
       ELSE Return(p)
    /\ UNCHANGED <<row, history, trash>>

RemoveSelf(p) ==
    /\ call[p] # Idle /\ call[p].at = "remove"
    /\ LET e == call[p].id
       IN /\ trash' = [Touch({e}, {}) EXCEPT ![e] =
                          IF Live(e) THEN [x \in {e} |-> row[e]] ELSE <<>>]
          /\ row' = [row EXCEPT ![e] = Absent]
    /\ Goto(p, "logChildren")
    /\ UNCHANGED history

\* INSERT INTO blocks_history SELECT ... FROM blocks
LogDeletedChildren(p) ==
    /\ call[p].op = "delete" /\ call[p].at = "logChildren"
    /\ history' = [e \in Entity |->
                      IF e \in Children(call[p].id) THEN Log(e, row[e], TRUE)
                                                    ELSE history[e]]
    /\ Goto(p, "removeChildren")
    /\ UNCHANGED <<row, trash>>

\* DELETE FROM blocks
RemoveChildren(p) ==
    /\ call[p] # Idle /\ call[p].at = "removeChildren"
    /\ LET e    == call[p].id
           gone == Children(e)
           with == {e} \cap DOMAIN trash[e]
       IN /\ trash' = [Touch(gone, {}) EXCEPT ![e] =
                          [b \in with \cup gone |->
                              IF b \in gone THEN row[b] ELSE trash[e][b]]]
          /\ row' = [b \in Entity |-> IF b \in gone THEN Absent ELSE row[b]]
    /\ Return(p)
    /\ UNCHANGED history

----------------------------------------------------------------------------
(* undeleteBlock, undeleteBoard and undeleteBlockChildren                    *)

UndeleteRead(p) ==
    /\ call[p].op = "undelete" /\ call[p].at = "base"
    /\ LET newest == Newest(call[p].id)
       IN IF newest.deleted
          THEN call' = [call EXCEPT ![p].at = "log", ![p].row = Unlinked(newest.row)]
          ELSE Return(p)
    /\ UNCHANGED <<row, history, trash>>

\* Mutant: the two INSERT ... SELECT of undeleteBlockChildren swapped: the
\* history is written first and the second selects nothing.
LogRestoredFirst(p) ==
    /\ call[p] # Idle /\ call[p].at = "createChildren"
    /\ LET e == call[p].id
       IN history' = [b \in Entity |->
                         IF b \in DeletedChildren(e)
                         THEN Log(b, VersionFor(e, b).row, FALSE)
                         ELSE history[b]]
    /\ Goto(p, "logChildren")
    /\ UNCHANGED <<row, trash>>

\* INSERT INTO blocks SELECT ... FROM blocks_history: all or, if one of the
\* blocks exists, none and an error.
CreateChildren(p) ==
    /\ call[p] # Idle /\ call[p].at = "createChildren"
    /\ LET e    == call[p].id
           back == DeletedChildren(e)
       IN IF \E b \in back : Live(b)
          THEN Return(p) /\ UNCHANGED <<row, trash>>
          ELSE /\ row' = [b \in Entity |->
                             IF b \in back THEN VersionFor(e, b).row
                                           ELSE row[b]]
               /\ trash' = Touch(back, {e})
               /\ Goto(p, "logChildren")
    /\ UNCHANGED history

LogRestoredChildren(p) ==
    /\ call[p].op = "undelete" /\ call[p].at = "logChildren"
    /\ LET e == call[p].id
       IN history' = [b \in Entity |->
                         IF b \in DeletedChildren(e)
                         THEN Log(b, VersionFor(e, b).row, FALSE)
                         ELSE history[b]]
    /\ Return(p)
    /\ UNCHANGED <<row, trash>>

----------------------------------------------------------------------------
Begin(p) ==
    \E e \in Entity :
        \/ StartInsert(p, e)
        \/ StartPatch(p, e)
        \/ StartDelete(p, e)
        \/ StartUndelete(p, e)

Statement(p) ==
    \/ PatchRead(p)
    \/ Lookup(p)
    \/ Update(p)
    \/ Create(p)
    \/ LogSelf(p)
    \/ DeleteRead(p)
    \/ RemoveSelf(p)
    \/ LogDeletedChildren(p)
    \/ RemoveChildren(p)
    \/ UndeleteRead(p)
    \/ CreateChildren(p)
    \/ LogRestoredChildren(p)

Next == \E p \in Process : Begin(p) \/ Statement(p)
Spec == Init /\ [][Next]_vars

----------------------------------------------------------------------------
Quiescent == \A p \in Process : call[p] = Idle

\* Between two calls the live tables are the newest versions of the history:
\* an entity is live exactly if its newest version is not a deletion, and then
\* the two agree (what every undelete and every history query relies on).
TablesAgree ==
    Quiescent => \A e \in Entity :
        row[e] = IF ~Logged(e) \/ Newest(e).deleted THEN Absent ELSE Newest(e).row

\* Between two calls every live block belongs to a live board, also after the
\* board or the block was deleted and restored.
BlockHasBoard ==
    Quiescent => \A b \in Block : Live(b) => Live(BoardOf[b])

\* When an undelete call returns, all that the matching delete call removed and
\* nobody wrote since is live again, as it was but for the channel of a board,
\* which undeleteBoard clears: boards with every block, cards with their content
\* (storetests/blocks.go, "ensure the card children were restored").
UndeleteRestores ==
    [][\A p \in Process :
           call[p] # Idle /\ call[p].op = "undelete" /\ call'[p] = Idle =>
               LET e == call[p].id
               IN e \in DOMAIN trash[e] =>
                      \A b \in DOMAIN trash[e] : row'[b] = Unlinked(trash[e][b])]_vars

\* Between two calls, what is not live but once was can be undeleted: its
\* newest version is a deletion (otherwise undeleteBlock takes it for a block
\* that was never deleted and does nothing).
DeletedCanBeUndeleted ==
    Quiescent => \A e \in Entity :
        ~Live(e) /\ Logged(e) => Newest(e).deleted
============================================================================
