------------------------ MODULE BoardMembershipProofs ------------------------
(***************************************************************************)
(* For every set of users and request handlers: the state of               *)
(* BoardMembership is well typed, a board keeps an admin unless two calls  *)
(* that write no admin role overlapped for two different users, and the    *)
(* history of a user agrees with the table unless two calls about that     *)
(* user overlapped.                                                        *)
(***************************************************************************)
EXTENDS BoardMembership, TLAPS

\* An admin other than u.
OtherAdmin(u) == \E v \in User : v # u /\ IsAdmin(v)

\* The call in progress of p will write a row without the admin role.
Demoting(p) == call[p] # Idle /\ TakesAdmin(call[p])

\* Only deletions reach the DELETE statement.
EraseByDelete ==
    \A p \in Process : At(p, "erase") => call[p].op = "delete"

\* What isLastAdmin must still know when the row is written: every call on its
\* way to demote a user is about the same user, and another user is an admin.
OneDemoted ==
    \A p, q \in Process :
        Demoting(p) /\ Demoting(q) => call[p].user = call[q].user
BackedUp ==
    \A p \in Process :
        Demoting(p) /\ call[p].at \in {"saveRead", "save", "erase"}
            => OtherAdmin(call[p].user)

IInv ==
    /\ TypeOK
    /\ EraseByDelete
    /\ ~raced => HasAdmin /\ OneDemoted /\ BackedUp
----------------------------------------------------------------------------
(* Type correctness. *)

\* A call in progress is a proper call record.
LEMMA InProgress ==
    ASSUME TypeOK, NEW p \in Process, call[p] # Idle
    PROVE  call[p] \in Calls
BY DEF TypeOK

LEMMA RequestType ==
    ASSUME NEW op \in {"add", "update", "delete"}, NEW u \in User, NEW r \in Role
    PROVE  Request(op, u, r) \in Calls
BY DEF Request, Calls, Stage

\* The two ways a call goes on: to its next statement, or back to idle.
LEMMA GotoType ==
    ASSUME TypeOK, NEW p \in Process, call[p] # Idle, NEW s \in Stage,
           Goto(p, s)
    PROVE  call' \in [Process -> Calls \cup {Idle}]
<1>1. [call[p] EXCEPT !.at = s] \in Calls
  BY InProgress DEF Calls
<1>. QED  BY <1>1 DEF Goto, TypeOK

LEMMA ReturnType ==
    ASSUME TypeOK, NEW p \in Process, Return(p)
    PROVE  call' \in [Process -> Calls \cup {Idle}]
BY DEF Return, TypeOK

LEMMA TypeStep == TypeOK /\ [Next]_vars => TypeOK'
<1>. SUFFICES ASSUME TypeOK, [Next]_vars
              PROVE  TypeOK'
  OBVIOUS
<1>1. CASE UNCHANGED vars
  BY <1>1 DEF TypeOK, vars
<1>2. ASSUME NEW p \in Process, NEW c \in Calls, Start(p, c)
      PROVE  TypeOK'
  BY <1>2 DEF Start, TypeOK
<1>3. ASSUME NEW p \in Process, Begin(p)
      PROVE  TypeOK'
  <2>1. PICK u \in User : StartAdd(p, u) \/ StartUpdate(p, u) \/ StartDelete(p, u)
    BY <1>3 DEF Begin
  <2>2. "editor" \in Role
    BY DEF Role
  <2>. QED  BY <1>2, <2>1, <2>2, RequestType DEF StartAdd, StartUpdate, StartDelete
<1>4. ASSUME NEW p \in Process, Statement(p)
      PROVE  TypeOK'
  <2>1. CASE Read(p)
    BY <2>1, GotoType, ReturnType DEF Read, At, Stage, TypeOK
  <2>2. CASE Check(p)
    BY <2>2, GotoType, ReturnType DEF Check, At, Stage, TypeOK
  <2>3. CASE SaveRead(p)
    <3>1. call[p] \in Calls
      BY <2>3, InProgress DEF SaveRead, At
    <3>2. [call[p] EXCEPT !.at = "save", !.fresh = (member[call[p].user] = "none")]
              \in Calls
      BY <3>1 DEF Calls, Stage
    <3>. QED  BY <2>3, <3>1, <3>2 DEF SaveRead, TypeOK
  <2>4. CASE Save(p)
    <3>1. call[p].user \in User /\ call[p].role \in Role
      BY <2>4, InProgress DEF Save, At, Calls
    <3>. QED  BY <2>4, <3>1, GotoType, ReturnType DEF Save, At, Stage, TypeOK
  <2>5. CASE LogCreated(p)
    BY <2>5, ReturnType DEF LogCreated, TypeOK
  <2>6. CASE Erase(p)
    BY <2>6, GotoType, ReturnType DEF Erase, At, Stage, TypeOK
  <2>7. CASE LogDeleted(p)
    BY <2>7, ReturnType DEF LogDeleted, TypeOK
  <2>. QED  BY <1>4, <2>1, <2>2, <2>3, <2>4, <2>5, <2>6, <2>7 DEF Statement
<1>. QED  BY <1>1, <1>3, <1>4 DEF Next

\* The tables, the calls and the history variables always have their types.
THEOREM TypeCorrect == Spec => []TypeOK
<1>1. Init => TypeOK
  BY BoardMembershipAssumption DEF Init, TypeOK, Role, Idle
<1>. QED  BY <1>1, TypeStep, PTL DEF Spec

----------------------------------------------------------------------------
(* A board keeps an admin. *)

LEMMA InitIInv == Init => IInv
<1>. SUFFICES ASSUME Init PROVE IInv
  OBVIOUS
<1>1. TypeOK
  BY BoardMembershipAssumption DEF Init, TypeOK, Role, Idle
<1>2. HasAdmin
  BY BoardMembershipAssumption DEF Init, HasAdmin, IsAdmin
<1>3. EraseByDelete /\ OneDemoted /\ BackedUp
  BY DEF Init, EraseByDelete, OneDemoted, BackedUp, Demoting, At
<1>. QED  BY <1>1, <1>2, <1>3 DEF IInv

\* A new call demotes nobody yet; if it is going to, it is the only one about a
\* user other than its own, or the calls raced.
LEMMA StartIInv ==
    ASSUME IInv, TypeOK', NEW p \in Process, NEW c \in Calls, c.at = "read",
           Start(p, c)
    PROVE  IInv'
<1>1. /\ call'[p] = c
      /\ \A q \in Process : q # p => call'[q] = call[q]
      /\ call[p] = Idle /\ member' = member
  BY DEF Start, IInv, TypeOK
<1>2. EraseByDelete'
  BY <1>1 DEF IInv, EraseByDelete, At
<1>3. ASSUME ~raced'
      PROVE  HasAdmin' /\ OneDemoted' /\ BackedUp'
  <2>1. ~raced
    BY <1>3 DEF Start
  <2>2. HasAdmin'
    BY <1>1, <2>1 DEF IInv, HasAdmin, IsAdmin
  <2>3. \A q \in Process : Demoting(q) /\ TakesAdmin(c) => call[q].user = c.user
    BY <1>3 DEF Start, Demoting
  <2>4. OneDemoted'
    BY <1>1, <2>1, <2>3 DEF IInv, OneDemoted, Demoting, TakesAdmin
  <2>5. BackedUp'
    BY <1>1, <2>1 DEF IInv, BackedUp, Demoting, TakesAdmin, OtherAdmin, IsAdmin
  <2>. QED  BY <2>2, <2>4, <2>5
<1>. QED  BY <1>2, <1>3 DEF IInv

\* A step that leaves the table alone and takes one call to another statement, or
\* ends it, is safe if the call, where it demotes, knows of another admin.
LEMMA QuietIInv ==
    ASSUME IInv, TypeOK', NEW p \in Process, call[p] # Idle,
           member' = member, raced' = raced,
           \A q \in Process : q # p => call'[q] = call[q],
           \/ call'[p] = Idle
           \/ /\ call'[p].op = call[p].op
              /\ call'[p].user = call[p].user
              /\ call'[p].role = call[p].role
              /\ call'[p].at = "erase" => call[p].op = "delete"
              /\ call'[p].at \in {"saveRead", "save", "erase"} /\ ~raced /\ TakesAdmin(call[p])
                   => OtherAdmin(call[p].user)
    PROVE  IInv'
<1>1. EraseByDelete'
  BY DEF IInv, EraseByDelete, At
<1>2. ASSUME ~raced'
      PROVE  HasAdmin' /\ OneDemoted' /\ BackedUp'
  <2>1. HasAdmin /\ OneDemoted /\ BackedUp
    BY <1>2 DEF IInv
  <2>2. \A u : OtherAdmin(u)' <=> OtherAdmin(u)
    BY DEF OtherAdmin, IsAdmin
  <2>3. \A q \in Process : Demoting(q)' => Demoting(q) /\ call'[q].user = call[q].user
    BY DEF Demoting, TakesAdmin
  <2>4. HasAdmin'
    BY <2>1 DEF HasAdmin, IsAdmin
  <2>5. OneDemoted'
    BY <2>1, <2>3 DEF OneDemoted
  <2>6. BackedUp'
    BY <1>2, <2>1, <2>2, <2>3 DEF BackedUp, Demoting
  <2>. QED  BY <2>4, <2>5, <2>6
<1>. QED  BY <1>1, <1>2 DEF IInv

\* A write to the row of a call's user is safe if it makes the user an admin, or if
\* the call demotes and is past the check: then the other admin stays one.
LEMMA WriteIInv ==
    ASSUME IInv, TypeOK', NEW p \in Process, call[p] # Idle,
           call[p].at \in {"save", "erase"},
           NEW r \in Role \cup {"none"},
           r # "admin" => TakesAdmin(call[p]),
           member' = [member EXCEPT ![call[p].user] = r], raced' = raced,
           \A q \in Process : q # p => call'[q] = call[q],
           \/ call'[p] = Idle
           \/ /\ call'[p].op = call[p].op
              /\ call'[p].user = call[p].user
              /\ call'[p].role = call[p].role
              /\ call'[p].at \in {"logCreated", "logDeleted"}
    PROVE  IInv'
<1>1. PICK u \in User : u = call[p].user
  BY InProgress DEF IInv, Calls
<1>2. member'[u] = r /\ \A v \in User : v # u => member'[v] = member[v]
  BY <1>1 DEF IInv, TypeOK
<1>3. EraseByDelete'
  BY DEF IInv, EraseByDelete, At
<1>4. ASSUME ~raced'
      PROVE  HasAdmin' /\ OneDemoted' /\ BackedUp'
  <2>1. HasAdmin /\ OneDemoted /\ BackedUp
    BY <1>4 DEF IInv
  <2>2. \A q \in Process : Demoting(q)' => q # p \/ call'[q].at \in {"logCreated", "logDeleted"}
    BY DEF Demoting
  <2>3. \A q \in Process : Demoting(q)' => Demoting(q) /\ call'[q].user = call[q].user
    BY DEF Demoting, TakesAdmin
  <2>4. OneDemoted'
    BY <2>1, <2>3 DEF OneDemoted
  <2>5. CASE r = "admin"
    <3>1. \A v \in User : IsAdmin(v) => IsAdmin(v)'
      BY <1>2, <2>5 DEF IsAdmin
    <3>2. \A v : OtherAdmin(v) => OtherAdmin(v)'
      BY <3>1 DEF OtherAdmin
    <3>3. HasAdmin'
      BY <2>1, <3>1 DEF HasAdmin
    <3>4. BackedUp'
      BY <2>1, <2>2, <2>3, <3>2 DEF BackedUp, Demoting
    <3>. QED  BY <2>4, <3>3, <3>4
  <2>6. CASE r # "admin"
    <3>1. Demoting(p) /\ OtherAdmin(u)
      BY <1>1, <2>1, <2>6 DEF BackedUp, Demoting
    <3>2. OtherAdmin(u)'
      BY <1>2, <3>1 DEF OtherAdmin, IsAdmin
    <3>3. HasAdmin'
      BY <3>2 DEF OtherAdmin, HasAdmin
    <3>4. \A q \in Process : Demoting(q)' => call'[q].user = u
      BY <1>1, <2>1, <2>3, <3>1 DEF OneDemoted
    <3>5. BackedUp'
      BY <3>2, <3>4 DEF BackedUp, OtherAdmin
    <3>. QED  BY <2>4, <3>3, <3>5
  <2>. QED  BY <2>5, <2>6
<1>. QED  BY <1>3, <1>4 DEF IInv

LEMMA StepIInv == IInv /\ [Next]_vars => IInv'
<1>. SUFFICES ASSUME IInv, [Next]_vars
              PROVE  IInv'
  OBVIOUS
<1>0. TypeOK /\ TypeOK'
  BY TypeStep DEF IInv
<1>1. CASE UNCHANGED vars
  BY <1>1, <1>0 DEF vars, IInv, EraseByDelete, HasAdmin, OneDemoted, BackedUp,
     Demoting, OtherAdmin, IsAdmin, At
<1>2. ASSUME NEW p \in Process, Begin(p)
      PROVE  IInv'
  <2>1. PICK u \in User : StartAdd(p, u) \/ StartUpdate(p, u) \/ StartDelete(p, u)
    BY <1>2 DEF Begin
  <2>2. PICK op \in {"add", "update", "delete"}, r \in Role : Start(p, Request(op, u, r))
    BY <2>1 DEF StartAdd, StartUpdate, StartDelete, Role
  <2>3. Request(op, u, r).at = "read"
    BY DEF Request
  <2>. QED  BY <1>0, <2>2, <2>3, RequestType, StartIInv
<1>3. ASSUME NEW p \in Process, Statement(p)
      PROVE  IInv'
  <2>1. call[p] # Idle
    BY <1>3 DEF Statement, Read, Check, SaveRead, Save, LogCreated, Erase, LogDeleted, At
  <2>2. call[p] \in Calls
    BY <1>0, <2>1, InProgress
  <2>3. ASSUME NEW s, Goto(p, s)
        PROVE  /\ call'[p].op = call[p].op /\ call'[p].user = call[p].user
               /\ call'[p].role = call[p].role /\ call'[p].at = s
               /\ \A q \in Process : q # p => call'[q] = call[q]
    <3>1. call'[p] = [call[p] EXCEPT !.at = s]
      BY <1>0, <2>3 DEF Goto, TypeOK
    <3>. QED  BY <1>0, <2>2, <2>3, <3>1 DEF Goto, TypeOK, Calls
  <2>4. ASSUME Return(p)
        PROVE  /\ call'[p] = Idle
               /\ \A q \in Process : q # p => call'[q] = call[q]
    BY <1>0, <2>4 DEF Return, TypeOK
  <2>5. ASSUME ~raced, OneDemoted, HasAdmin, ~IsAdmin(call[p].user)
        PROVE  OtherAdmin(call[p].user)
    BY <2>5 DEF HasAdmin, OtherAdmin
  <2>6. CASE Read(p)
    <3>1. member' = member /\ raced' = raced
      BY <2>6 DEF Read
    <3>2. CASE Return(p)
      BY <1>0, <2>1, <2>4, <3>1, <3>2, QuietIInv
    <3>3. CASE Goto(p, "check")
      BY <1>0, <2>1, <2>3, <3>1, <3>3, QuietIInv
    <3>4. ASSUME NEW s \in {"erase", "saveRead"}, Goto(p, s),
                 s = "erase" => call[p].op = "delete",
                 ~(IsAdmin(call[p].user) /\ TakesAdmin(call[p]))
          PROVE  IInv'
      <4>1. ~raced /\ TakesAdmin(call[p]) => OtherAdmin(call[p].user)
        BY <2>5, <3>4 DEF IInv
      <4>. QED  BY <1>0, <2>1, <2>3, <3>1, <3>4, <4>1, QuietIInv
    <3>. QED  BY <2>6, <3>2, <3>3, <3>4 DEF Read, IsAdmin
  <2>7. CASE Check(p)
    <3>1. member' = member /\ raced' = raced
      BY <2>7 DEF Check
    <3>2. CASE Return(p)
      BY <1>0, <2>1, <2>4, <3>1, <3>2, QuietIInv
    <3>3. ASSUME NEW s \in {"erase", "saveRead"}, Goto(p, s),
                 s = "erase" => call[p].op = "delete", OtherAdmin(call[p].user)
          PROVE  IInv'
      BY <1>0, <2>1, <2>3, <3>1, <3>3, QuietIInv
    <3>. QED  BY <2>7, <3>2, <3>3 DEF Check, OtherAdmin
  <2>8. CASE SaveRead(p)
    <3>1. /\ call'[p] = [call[p] EXCEPT !.at = "save",
                                        !.fresh = (member[call[p].user] = "none")]
          /\ \A q \in Process : q # p => call'[q] = call[q]
      BY <1>0, <2>8 DEF SaveRead, TypeOK
    <3>2. ~raced /\ TakesAdmin(call[p]) => OtherAdmin(call[p].user)
      BY <2>1, <2>8 DEF SaveRead, At, IInv, BackedUp, Demoting
    <3>3. /\ call'[p].op = call[p].op /\ call'[p].user = call[p].user
          /\ call'[p].role = call[p].role /\ call'[p].at = "save"
      BY <2>2, <3>1 DEF Calls
    <3>4. member' = member /\ raced' = raced
      BY <2>8 DEF SaveRead
    <3>. QED  BY <1>0, <2>1, <3>1, <3>2, <3>3, <3>4, QuietIInv
  <2>9. CASE Save(p)
    <3>1. call[p].role \in Role /\ (call[p].role # "admin" => TakesAdmin(call[p]))
      BY <2>2 DEF Calls, TakesAdmin
    <3>2. call[p].at = "save" /\ member' = [member EXCEPT ![call[p].user] = call[p].role]
          /\ raced' = raced
      BY <2>9 DEF Save, At
    <3>3. CASE Goto(p, "logCreated")
      <4>1. /\ call'[p].op = call[p].op /\ call'[p].user = call[p].user
            /\ call'[p].role = call[p].role /\ call'[p].at \in {"logCreated", "logDeleted"}
            /\ \A q \in Process : q # p => call'[q] = call[q]
        BY <2>3, <3>3
      <4>. QED  BY <1>0, <2>1, <3>1, <3>2, <4>1, WriteIInv
    <3>4. CASE Return(p)
      BY <1>0, <2>1, <2>4, <3>1, <3>2, <3>4, WriteIInv
    <3>. QED  BY <2>9, <3>3, <3>4 DEF Save
  <2>10. CASE LogCreated(p)
    BY <1>0, <2>1, <2>4, <2>10, QuietIInv DEF LogCreated
  <2>11. CASE Erase(p)
    <3>1. TakesAdmin(call[p])
      BY <2>11 DEF Erase, IInv, EraseByDelete, TakesAdmin
    <3>2. call[p].at = "erase" /\ member' = [member EXCEPT ![call[p].user] = "none"]
          /\ raced' = raced
      BY <2>11 DEF Erase, At
    <3>3. CASE Goto(p, "logDeleted")
      <4>1. /\ call'[p].op = call[p].op /\ call'[p].user = call[p].user
            /\ call'[p].role = call[p].role /\ call'[p].at \in {"logCreated", "logDeleted"}
            /\ \A q \in Process : q # p => call'[q] = call[q]
        BY <2>3, <3>3
      <4>. QED  BY <1>0, <2>1, <3>1, <3>2, <4>1, WriteIInv
    <3>4. CASE Return(p)
      BY <1>0, <2>1, <2>4, <3>1, <3>2, <3>4, WriteIInv
    <3>. QED  BY <2>11, <3>3, <3>4 DEF Erase
  <2>12. CASE LogDeleted(p)
    BY <1>0, <2>1, <2>4, <2>12, QuietIInv DEF LogDeleted
  <2>. QED  BY <1>3, <2>6, <2>7, <2>8, <2>9, <2>10, <2>11, <2>12 DEF Statement
<1>. QED  BY <1>1, <1>2, <1>3 DEF Next

\* isLastAdmin protects the last admin against every interleaving but the race of
\* two demotions or removals of different users.
THEOREM AdminCorrect == Spec => []AdminRemains
<1>1. IInv => AdminRemains
  BY DEF IInv, AdminRemains
<1>. QED  BY <1>1, InitIInv, StepIInv, PTL DEF Spec

----------------------------------------------------------------------------
(* The history agrees with the table. *)

About(p, u) == call[p] # Idle /\ call[p].user = u
Agree(u) == logged[u] = "created" <=> member[u] # "none"

\* What a call knows of its user's row, as long as nobody else writes it: saveMember
\* whether it inserts, and either log statement what the write before it left.
KnowsRow(p, u) ==
    /\ At(p, "save") => (call[p].fresh <=> member[u] = "none")
    /\ At(p, "logCreated") => member[u] # "none"
    /\ At(p, "logDeleted") => member[u] = "none"

\* HistoryAgrees holds between the calls; inside a call the history is behind the
\* table only from the write to the log entry, and the entry to come repairs it.
UserHistory(u) ==
    ~mixed[u] =>
        /\ \A p, q \in Process : About(p, u) /\ About(q, u) => p = q
        /\ \A p \in Process : About(p, u) => KnowsRow(p, u)
        /\ \/ Agree(u)
           \/ \E p \in Process : About(p, u) /\ (At(p, "logCreated") \/ At(p, "logDeleted"))

HistoryInv == TypeOK /\ \A u \in User : UserHistory(u)

\* A step of a call leaves the history of every other user alone.
LEMMA OthersHistory ==
    ASSUME NEW v \in User, UserHistory(v), NEW p \in Process,
           ~About(p, v), ~About(p, v)',
           \A q \in Process : q # p => call'[q] = call[q],
           member'[v] = member[v], logged'[v] = logged[v], mixed'[v] = mixed[v]
    PROVE  UserHistory(v)'
<1>1. \A q \in Process : About(q, v)' <=> About(q, v)
  BY DEF About
<1>2. \A q \in Process : About(q, v) => q # p
  OBVIOUS
<1>. QED  BY <1>1, <1>2 DEF UserHistory, KnowsRow, Agree, At

\* The one call about a user keeps that user's history if it knows the row it left
\* and either the history agrees or the call has still to write its entry.
LEMMA OwnHistory ==
    ASSUME NEW u \in User, UserHistory(u), NEW p \in Process, About(p, u),
           call'[p] # Idle => call'[p].user = u,
           \A q \in Process : q # p => call'[q] = call[q],
           mixed'[u] = mixed[u],
           ~mixed[u] /\ call'[p] # Idle => KnowsRow(p, u)',
           ~mixed[u] => \/ Agree(u)'
                        \/ At(p, "logCreated")' \/ At(p, "logDeleted")'
    PROVE  UserHistory(u)'
<1>. SUFFICES ASSUME ~mixed[u]
              PROVE  UserHistory(u)'
  BY DEF UserHistory
<1>1. \A q \in Process : About(q, u) => q = p
  BY DEF UserHistory
<1>2. \A q \in Process : About(q, u)' => q = p
  BY <1>1 DEF About
<1>3. About(p, u)' <=> call'[p] # Idle
  BY DEF About
<1>4. At(p, "logCreated")' \/ At(p, "logDeleted")' => About(p, u)'
  BY <1>3 DEF At
<1>. QED  BY <1>2, <1>3, <1>4 DEF UserHistory

\* A call that is started about a user with another call in progress mixes the two;
\* any other knows nothing yet and changes nothing.
LEMMA StartHistory ==
    ASSUME HistoryInv, TypeOK', NEW p \in Process, NEW c \in Calls, c.at = "read",
           Start(p, c)
    PROVE  HistoryInv'
<1>1. /\ call'[p] = c /\ c.user \in User /\ call[p] = Idle
      /\ \A q \in Process : q # p => call'[q] = call[q]
      /\ member' = member /\ logged' = logged
      /\ \A v \in User : v # c.user => mixed'[v] = mixed[v]
      /\ mixed'[c.user] = (mixed[c.user] \/ \E q \in Process : About(q, c.user))
  BY DEF Start, HistoryInv, TypeOK, Calls, About
<1>2. ASSUME NEW v \in User, v # c.user
      PROVE  UserHistory(v)'
  BY <1>1, <1>2, OthersHistory DEF HistoryInv, About
<1>3. UserHistory(c.user)'
  <2>. SUFFICES ASSUME ~mixed'[c.user]
                PROVE  UserHistory(c.user)'
    BY DEF UserHistory
  <2>1. ~mixed[c.user] /\ \A q \in Process : ~About(q, c.user)
    BY <1>1
  <2>2. \A q \in Process : About(q, c.user)' => q = p
    BY <1>1, <2>1 DEF About
  <2>3. Agree(c.user)'
    BY <1>1, <2>1 DEF HistoryInv, UserHistory, Agree
  <2>4. KnowsRow(p, c.user)'
    BY <1>1 DEF KnowsRow, At
  <2>. QED  BY <2>2, <2>3, <2>4 DEF UserHistory
<1>. QED  BY <1>2, <1>3 DEF HistoryInv

\* The statements of a call, one by one.
LEMMA StatementHistory ==
    ASSUME HistoryInv, TypeOK', NEW p \in Process, Statement(p)
    PROVE  HistoryInv'
<1>0. PICK u \in User : About(p, u)
  <2>1. call[p] # Idle
    BY DEF Statement, Read, Check, SaveRead, Save, LogCreated, Erase, LogDeleted, At
  <2>. QED  BY <2>1, InProgress DEF HistoryInv, Calls, About
<1>1. call[p] \in Calls /\ call[p].user = u /\ TypeOK /\ UserHistory(u)
  BY <1>0, InProgress DEF HistoryInv, About
<1>2. ASSUME NEW s, Goto(p, s)
      PROVE  /\ call'[p] # Idle /\ call'[p].user = u
             /\ \A r : At(p, r)' <=> s = r
             /\ call'[p].fresh = call[p].fresh
             /\ \A q \in Process : q # p => call'[q] = call[q]
  <2>1. call'[p] = [call[p] EXCEPT !.at = s]
    BY <1>1, <1>2 DEF Goto, TypeOK
  <2>2. call'[p].user = u /\ call'[p].at = s /\ call'[p].fresh = call[p].fresh
    BY <1>1, <2>1 DEF Calls
  <2>3. call'[p] # Idle
    BY <1>1, <2>1 DEF Calls, Idle
  <2>. QED  BY <1>1, <1>2, <2>2, <2>3 DEF Goto, TypeOK, At
<1>3. ASSUME Return(p)
      PROVE  /\ call'[p] = Idle
             /\ \A q \in Process : q # p => call'[q] = call[q]
  BY <1>1, <1>3 DEF Return, TypeOK
<1>4. ASSUME UserHistory(u)', call'[p] # Idle => call'[p].user = u,
             \A q \in Process : q # p => call'[q] = call[q],
             \A v \in User : v # u => /\ member'[v] = member[v]
                                      /\ logged'[v] = logged[v]
                                      /\ mixed'[v] = mixed[v]
      PROVE  HistoryInv'
  <2>1. ASSUME NEW v \in User, v # u
        PROVE  UserHistory(v)'
    <3>1. ~About(p, v) /\ ~About(p, v)'
      BY <1>1, <1>4, <2>1 DEF About
    <3>. QED  BY <1>4, <2>1, <3>1, OthersHistory DEF HistoryInv
  <2>. QED  BY <1>4, <2>1 DEF HistoryInv
<1>5. ~mixed[u] => KnowsRow(p, u)
  BY <1>0, <1>1 DEF UserHistory
<1>6. ASSUME ~mixed[u], ~At(p, "logCreated"), ~At(p, "logDeleted")
      PROVE  Agree(u)
  <2>1. \A q \in Process : About(q, u) => q = p
    BY <1>0, <1>1, <1>6 DEF UserHistory
  <2>. QED  BY <1>1, <1>6, <2>1 DEF UserHistory
<1>7. ASSUME NEW s \in {"check", "erase", "saveRead"}, Goto(p, s) \/ Return(p),
             ~At(p, "logCreated"), ~At(p, "logDeleted"),
             UNCHANGED <<member, logged, mixed>>
      PROVE  HistoryInv'
  <2>1. call'[p] # Idle => call'[p].user = u
    BY <1>2, <1>3, <1>7
  <2>2. \A q \in Process : q # p => call'[q] = call[q]
    BY <1>2, <1>3, <1>7
  <2>3. ~mixed[u] => Agree(u)'
    BY <1>6, <1>7 DEF Agree
  <2>4. KnowsRow(p, u)'
    BY <1>2, <1>3, <1>7 DEF KnowsRow, At
  <2>5. UserHistory(u)'
    BY <1>0, <1>1, <1>7, <2>1, <2>2, <2>3, <2>4, OwnHistory
  <2>. QED  BY <1>4, <1>7, <2>1, <2>2, <2>5
<1>8. CASE Read(p)
  BY <1>7, <1>8 DEF Read, At
<1>9. CASE Check(p)
  BY <1>7, <1>9 DEF Check, At
<1>10. CASE SaveRead(p)
  <2>1. call'[p] = [call[p] EXCEPT !.at = "save", !.fresh = (member[u] = "none")]
    BY <1>1, <1>10 DEF SaveRead, TypeOK
  <2>2. /\ call'[p].user = u /\ call'[p].at = "save"
        /\ call'[p].fresh = (member[u] = "none")
    BY <1>1, <2>1 DEF Calls
  <2>3. /\ \A q \in Process : q # p => call'[q] = call[q]
        /\ UNCHANGED <<member, logged, mixed>>
    BY <1>1, <1>10 DEF SaveRead, TypeOK
  <2>4. KnowsRow(p, u)'
    BY <2>2, <2>3 DEF KnowsRow, At
  <2>5. ~mixed[u] => Agree(u)'
    BY <1>6, <1>10, <2>3 DEF SaveRead, At, Agree
  <2>6. UserHistory(u)'
    BY <1>0, <1>1, <2>2, <2>3, <2>4, <2>5, OwnHistory
  <2>. QED  BY <1>4, <2>2, <2>3, <2>6
<1>11. CASE Save(p)
  <2>1. call[p].role \in Role /\ At(p, "save")
    BY <1>1, <1>11 DEF Save, Calls
  <2>2. /\ member'[u] # "none" /\ logged' = logged /\ mixed' = mixed
        /\ \A v \in User : v # u => member'[v] = member[v]
    BY <1>1, <1>11, <2>1 DEF Save, TypeOK, Role
  <2>3. CASE Goto(p, "logCreated")
    <3>1. /\ call'[p] # Idle /\ call'[p].user = u
          /\ \A r : At(p, r)' <=> r = "logCreated"
          /\ \A q \in Process : q # p => call'[q] = call[q]
      BY <1>2, <2>3
    <3>2. KnowsRow(p, u)'
      BY <2>2, <3>1 DEF KnowsRow
    <3>3. At(p, "logCreated")'
      BY <3>1
    <3>4. UserHistory(u)'
      BY <1>0, <1>1, <2>2, <3>1, <3>2, <3>3, OwnHistory
    <3>. QED  BY <1>4, <2>2, <3>1, <3>4
  <2>4. CASE Return(p) /\ ~call[p].fresh
    <3>1. ~mixed[u] => Agree(u)'
      BY <1>5, <1>6, <2>1, <2>2, <2>4 DEF KnowsRow, Agree, At
    <3>2. UserHistory(u)'
      BY <1>0, <1>1, <1>3, <2>2, <2>4, <3>1, OwnHistory
    <3>. QED  BY <1>3, <1>4, <2>2, <2>4, <3>2
  <2>. QED  BY <1>11, <2>3, <2>4 DEF Save
<1>12. CASE LogCreated(p)
  <2>1. /\ Return(p) /\ member' = member /\ mixed' = mixed /\ At(p, "logCreated")
        /\ logged'[u] = "created"
        /\ \A v \in User : v # u => logged'[v] = logged[v]
    BY <1>1, <1>12 DEF LogCreated, TypeOK
  <2>2. ~mixed[u] => Agree(u)'
    BY <1>5, <2>1 DEF KnowsRow, Agree
  <2>3. UserHistory(u)'
    BY <1>0, <1>1, <1>3, <2>1, <2>2, OwnHistory
  <2>. QED  BY <1>3, <1>4, <2>1, <2>3
<1>13. CASE Erase(p)
  <2>1. /\ At(p, "erase") /\ member'[u] = "none" /\ logged' = logged /\ mixed' = mixed
        /\ \A v \in User : v # u => member'[v] = member[v]
    BY <1>1, <1>13 DEF Erase, TypeOK
  <2>2. CASE Goto(p, "logDeleted")
    <3>1. /\ call'[p] # Idle /\ call'[p].user = u
          /\ \A r : At(p, r)' <=> r = "logDeleted"
          /\ \A q \in Process : q # p => call'[q] = call[q]
      BY <1>2, <2>2
    <3>2. KnowsRow(p, u)'
      BY <2>1, <3>1 DEF KnowsRow
    <3>3. At(p, "logDeleted")'
      BY <3>1
    <3>4. UserHistory(u)'
      BY <1>0, <1>1, <2>1, <3>1, <3>2, <3>3, OwnHistory
    <3>. QED  BY <1>4, <2>1, <3>1, <3>4
  <2>3. CASE Return(p) /\ member[u] = "none"
    <3>1. ~mixed[u] => Agree(u)'
      BY <1>6, <2>1, <2>3 DEF Agree, At
    <3>2. UserHistory(u)'
      BY <1>0, <1>1, <1>3, <2>1, <2>3, <3>1, OwnHistory
    <3>. QED  BY <1>3, <1>4, <2>1, <2>3, <3>2
  <2>. QED  BY <1>1, <1>13, <2>2, <2>3 DEF Erase
<1>14. CASE LogDeleted(p)
  <2>1. /\ Return(p) /\ member' = member /\ mixed' = mixed /\ At(p, "logDeleted")
        /\ logged'[u] = "deleted"
        /\ \A v \in User : v # u => logged'[v] = logged[v]
    BY <1>1, <1>14 DEF LogDeleted, TypeOK
  <2>2. ~mixed[u] => Agree(u)'
    BY <1>5, <2>1 DEF KnowsRow, Agree
  <2>3. UserHistory(u)'
    BY <1>0, <1>1, <1>3, <2>1, <2>2, OwnHistory
  <2>. QED  BY <1>3, <1>4, <2>1, <2>3
<1>. QED
  BY <1>8, <1>9, <1>10, <1>11, <1>12, <1>13, <1>14 DEF Statement

LEMMA HistoryStep == HistoryInv /\ [Next]_vars => HistoryInv'
<1>. SUFFICES ASSUME HistoryInv, [Next]_vars
              PROVE  HistoryInv'
  OBVIOUS
<1>0. TypeOK'
  BY TypeStep DEF HistoryInv
<1>1. CASE UNCHANGED vars
  BY <1>0, <1>1 DEF vars, HistoryInv, UserHistory, About, KnowsRow, Agree, At
<1>2. ASSUME NEW p \in Process, Begin(p)
      PROVE  HistoryInv'
  <2>1. PICK u \in User : StartAdd(p, u) \/ StartUpdate(p, u) \/ StartDelete(p, u)
    BY <1>2 DEF Begin
  <2>2. PICK op \in {"add", "update", "delete"}, r \in Role : Start(p, Request(op, u, r))
    BY <2>1 DEF StartAdd, StartUpdate, StartDelete, Role
  <2>3. Request(op, u, r).at = "read"
    BY DEF Request
  <2>. QED  BY <1>0, <2>2, <2>3, RequestType, StartHistory
<1>. QED  BY <1>0, <1>1, <1>2, StatementHistory DEF Next

\* Whenever no call about a user is in progress and no two ever overlapped, the last
\* entry of the history tells whether the user is a member, for any number of users
\* and of concurrent requests about others.
THEOREM HistoryCorrect == Spec => []HistoryAgrees
<1>1. Init => HistoryInv
  <2>. SUFFICES ASSUME Init PROVE HistoryInv
    OBVIOUS
  <2>1. TypeOK
    BY BoardMembershipAssumption DEF Init, TypeOK, Role, Idle
  <2>2. \A u \in User : Agree(u)
    BY DEF Init, Agree
  <2>3. \A p \in Process, u \in User : ~About(p, u)
    BY DEF Init, About
  <2>. QED  BY <2>1, <2>2, <2>3 DEF HistoryInv, UserHistory
<1>2. HistoryInv => HistoryAgrees
  BY DEF HistoryInv, UserHistory, HistoryAgrees, About, Agree
<1>. QED  BY <1>1, <1>2, HistoryStep, PTL DEF Spec
============================================================================
