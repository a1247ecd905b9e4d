--------------------------- MODULE BoardMembership ---------------------------
(***************************************************************************)
(* The members of one board: AddMemberToBoard, UpdateBoardMember and       *)
(* DeleteBoardMember of server/app/boards.go with the statements of        *)
(* saveMember and deleteMember (sqlstore/board.go).  None of them runs in  *)
(* a transaction, so a request reads the table, decides, and writes, with  *)
(* the statements of other requests in between.                            *)
(*                                                                         *)
(* Abstractions: of the role flags only scheme_admin matters here, so a    *)
(* member is an "admin" or an "editor"; the board exists throughout; of    *)
(* board_members_history the last entry of each user is kept; synthetic    *)
(* members exist only in the Mattermost store and not in this one.  The    *)
(* broadcast and the default category that follow a write are not here:   *)
(* they touch neither table.                                               *)
(***************************************************************************)
EXTENDS FiniteSets

CONSTANTS User,
          Creator,   \* the user who created the board
          Process    \* the request handlers

ASSUME BoardMembershipAssumption == Creator \in User

VARIABLES
    member,  \* [User -> role in board_members, "none" without a row]
    logged,  \* [User -> action of the last row in board_members_history]
    call,    \* [Process -> the app call in progress]
    raced,   \* history variable: two calls that may take away two admins overlapped
    mixed    \* history variable: [User -> two calls about the user overlapped]
vars == <<member, logged, call, raced, mixed>>

Role  == {"admin", "editor"}
Stage == {"read", "check", "saveRead", "save", "logCreated", "erase",
          "logDeleted"}
Idle  == [op |-> "none"]
Calls == [op : {"add", "update", "delete"}, user : User, role : Role,
          fresh : BOOLEAN, at : Stage]

TypeOK ==
    /\ member \in [User -> Role \cup {"none"}]
    /\ logged \in [User -> {"none", "created", "deleted"}]
    /\ call \in [Process -> Calls \cup {Idle}]
    /\ raced \in BOOLEAN
    /\ mixed \in [User -> BOOLEAN]

\* insertBoardWithAdmin
Init ==
    /\ member = [u \in User |-> IF u = Creator THEN "admin" ELSE "none"]
    /\ logged = [u \in User |-> IF u = Creator THEN "created" ELSE "none"]
    /\ call = [p \in Process |-> Idle]
    /\ raced = FALSE
    /\ mixed = [u \in User |-> FALSE]

----------------------------------------------------------------------------
IsAdmin(u) == member[u] = "admin"

\* A call whose write can take the admin role from its user: a removal, or an
\* update or add (saveMember overwrites the row it finds) with another role.
TakesAdmin(c) == c.op = "delete" \/ c.role # "admin"

Goto(p, stage) == call' = [call EXCEPT ![p].at = stage]
Return(p) == call' = [call EXCEPT ![p] = Idle]
At(p, stage) == call[p] # Idle /\ call[p].at = stage

Start(p, c) ==
    /\ call[p] = Idle
    /\ call' = [call EXCEPT ![p] = c]
    /\ raced' = (raced \/ \E q \in Process : /\ call[q] # Idle
                                             /\ call[q].user # c.user
                                             /\ TakesAdmin(call[q])
                                             /\ TakesAdmin(c))
    /\ mixed' = [mixed EXCEPT ![c.user] =
                    @ \/ \E q \in Process : call[q] # Idle /\ call[q].user = c.user]
    /\ UNCHANGED <<member, logged>>

Request(op, u, r) ==
    [op |-> op, user |-> u, role |-> r, fresh |-> FALSE, at |-> "read"]

\* API.handleAddMember by an admin, or API.handleJoinBoard of an open board.
StartAdd(p, u) ==
    \E r \in Role :
        /\ r = "admin" => \E v \in User : IsAdmin(v)
        /\ Start(p, Request("add", u, r))

\* API.handleUpdateMember needs an admin.
StartUpdate(p, u) ==
    /\ \E v \in User : IsAdmin(v)
    /\ \E r \in Role : Start(p, Request("update", u, r))

\* API.handleDeleteMember needs an admin, API.handleLeaveBoard a member.
StartDelete(p, u) ==
    /\ (\E v \in User : IsAdmin(v)) \/ member[u] # "none"
    /\ Start(p, Request("delete", u, "editor"))

----------------------------------------------------------------------------
\* GetMemberForBoard of the app: an added member must be new, an updated or
\* deleted one must exist, and one that loses the admin role is checked first.
Read(p) ==
    /\ At(p, "read")
    /\ LET c   == call[p]
           old == member[c.user]
       IN IF (c.op = "add") # (old = "none")
          THEN Return(p)
          ELSE Goto(p, IF old = "admin" /\ TakesAdmin(c) THEN "check"
                       ELSE IF c.op = "delete" THEN "erase" ELSE "saveRead")
    /\ UNCHANGED <<member, logged, raced, mixed>>

\* Mutant: the member to be changed counts as another admin.
CheckAnyAdmin(p) ==
    /\ At(p, "check")
    /\ IF \E v \in User : IsAdmin(v)
       THEN Goto(p, IF call[p].op = "delete" THEN "erase" ELSE "saveRead")
       ELSE Return(p)
    /\ UNCHANGED <<member, logged, raced, mixed>>

\* isLastAdmin; ErrBoardMemberIsLastAdmin ends the call.
Check(p) ==
    /\ At(p, "check")
    /\ IF \E v \in User : IsAdmin(v) /\ v # call[p].user
       THEN Goto(p, IF call[p].op = "delete" THEN "erase" ELSE "saveRead")
       ELSE Return(p)
    /\ UNCHANGED <<member, logged, raced, mixed>>

\* saveMember reads the row once more to know whether it creates it.
SaveRead(p) ==
    /\ At(p, "saveRead")
    /\ call' = [call EXCEPT ![p].at = "save",
                            ![p].fresh = (member[call[p].user] = "none")]
    /\ UNCHANGED <<member, logged, raced, mixed>>

\* INSERT ... ON CONFLICT DO UPDATE
Save(p) ==
    /\ At(p, "save")
    /\ member' = [member EXCEPT ![call[p].user] = call[p].role]
    /\ IF call[p].fresh THEN Goto(p, "logCreated") ELSE Return(p)
    /\ UNCHANGED <<logged, raced, mixed>>

\* Mutant: the entry names the app's operation.
LogOperation(p) ==
    /\ At(p, "logCreated")
    /\ logged' = [logged EXCEPT ![call[p].user] = call[p].op]
    /\ Return(p)
    /\ UNCHANGED <<member, raced, mixed>>

LogCreated(p) ==
    /\ At(p, "logCreated")
    /\ logged' = [logged EXCEPT ![call[p].user] = "created"]
    /\ Return(p)
    /\ UNCHANGED <<member, raced, mixed>>

\* Mutant: the number of rows that were deleted is taken the wrong way round.
EraseInverted(p) ==
    /\ At(p, "erase")
    /\ member' = [member EXCEPT ![call[p].user] = "none"]
    /\ IF member[call[p].user] = "none" THEN Goto(p, "logDeleted") ELSE Return(p)
    /\ UNCHANGED <<logged, raced, mixed>>

\* DELETE FROM board_members; nothing is logged if no row was there.
Erase(p) ==
    /\ At(p, "erase")
    /\ member' = [member EXCEPT ![call[p].user] = "none"]
    /\ IF member[call[p].user] # "none" THEN Goto(p, "logDeleted") ELSE Return(p)
    /\ UNCHANGED <<logged, raced, mixed>>

LogDeleted(p) ==
    /\ At(p, "logDeleted")
    /\ logged' = [logged EXCEPT ![call[p].user] = "deleted"]
    /\ Return(p)
    /\ UNCHANGED <<member, raced, mixed>>

----------------------------------------------------------------------------
Begin(p) ==
    \E u \in User :
        \/ StartAdd(p, u)
        \/ StartUpdate(p, u)
        \/ StartDelete(p, u)

Statement(p) ==
    \/ Read(p)
    \/ Check(p)
    \/ SaveRead(p)
    \/ Save(p)
    \/ LogCreated(p)
    \/ Erase(p)
    \/ LogDeleted(p)

Next == \E p \in Process : Begin(p) \/ Statement(p)
Spec == Init /\ [][Next]_vars

----------------------------------------------------------------------------
HasAdmin == \E u \in User : IsAdmin(u)

\* A board loses its last admin only if two calls that write no admin role, for
\* two different users, overlapped: no other interleaving of adds, promotions,
\* demotions, joins and removals, with their stale reads, gets past isLastAdmin.
AdminRemains == raced \/ HasAdmin

\* The last history entry of a user says "created" exactly if the user is a
\* member, unless two calls about that user overlapped or one is in progress.
HistoryAgrees ==
    \A u \in User :
        \/ mixed[u]
        \/ \E p \in Process : call[p] # Idle /\ call[p].user = u
        \/ (logged[u] = "created") = (member[u] # "none")

\* "cannot leave a board with no admins" (model/error.go).
NeverWithoutAdmin == HasAdmin
============================================================================
