------------------------------- MODULE Sharing -------------------------------
(***************************************************************************)
(* The members and the sharing of the board that is open: the share dialog *)
(* and its rows, the person property that adds a member, the stores of     *)
(* boards and users behind them (store/boards.ts, store/users.ts), and the *)
(* permissions that the page grants (hooks/permissions.tsx).               *)
(***************************************************************************)
EXTENDS Integers, Sequences, SequencesExt, FiniteSets

CONSTANTS
    Me,             \* the user of the page
    People,         \* the users of the team
    Guests,         \* those of them who are guests
    FirstRoles,     \* of a member: the role
    Rules,          \* the board: its type, minimum role and channel
    SharingActs,    \* bound: what I and the others do, all before the first mishap
    Crowd           \* bound: the requests and broadcasts under way when something is done

VARIABLES
    team,           \* server: members, board, shared, the number of tokens given; history:
                    \* relinked, whether another administrator changed the sharing last
    known,          \* the stores: board, members with the least role each came with (minimumRole),
                    \* users, and my membership
    dialog,         \* the share dialog's sharing, the person property's options and dialog
    underWay,       \* my requests: sent, served by the server, answered
    pushed,         \* broadcasts on their way to me
    mishaps,        \* history: answers that came after what they tell had changed, refusals
    sharingActs     \* history: how much was done

sharingVars == <<team, known, dialog, underWay, pushed, mishaps, sharingActs>>

Nobody == "nobody"
NoBoard == [type |-> "gone", minimum |-> "none", channel |-> ""]
NoSharing == [on |-> FALSE, token |-> 0]
Level == [none |-> 0, viewer |-> 1, commenter |-> 2, editor |-> 3, admin |-> 4]
RoleIn(members, u) == IF u \in DOMAIN members THEN members[u] ELSE "none"
With(members, u, role) ==
    [v \in IF role = "none" THEN DOMAIN members \ {u} ELSE DOMAIN members \cup {u} |-> IF v = u THEN role ELSE members[v]]
\* A member has the minimum role of the board if its own is below it.
Raised(role, minimum) == IF Level[role] >= Level[minimum] THEN role ELSE minimum
AdminsOf(members) == {u \in DOMAIN members : members[u] = "admin"}

\* I am a member of a board that has an administrator and whose minimum role is none of an administrator.
ASSUME SharingAssumption ==
    /\ Nobody \notin People
    /\ DOMAIN FirstRoles \subseteq People /\ FirstRoles \in [DOMAIN FirstRoles -> DOMAIN Level \ {"none"}]
    /\ Me \in DOMAIN FirstRoles /\ AdminsOf(FirstRoles) # {}
    /\ Rules \in [type : {"open", "private"}, minimum : DOMAIN Level \ {"admin"}, channel : {"", "channel"}]

-----------------------------------------------------------------------------
\* useHasPermissions and BoardPermissionGate; a permission is named by the role that has it.
useHasPermissions(p) ==
    /\ known.board # NoBoard /\ known.mine # "none"
    /\ Level[known.mine] >= Level[p] \/ (p # "admin" /\ Level[known.board.minimum] >= Level[p])

\* HasPermissionToBoard
HasPermission(t, u, p) ==
    u \in DOMAIN t.members /\ (Level[t.members[u]] >= Level[p] \/ Level[t.board.minimum] >= Level[p])

\* The rule of the server: a board keeps an administrator.
LastAdmin(t, u, role) == RoleIn(t.members, u) = "admin" /\ role # "admin" /\ AdminsOf(t.members) \subseteq {u}

\* Mutant: the dialog lets the last administrator go.
neverLastAdmin(members) == FALSE
isLastAdmin(members) == Cardinality(AdminsOf(members)) <= 1

\* The roles that a row of the dialog offers, and those of the dialog that adds a person.
OfferedRoles(u) ==
    {"editor"} \cup (IF u \in Guests THEN {} ELSE {"admin"})
    \cup (IF known.board.minimum \in {"none", "viewer"} THEN {"viewer"} ELSE {})
    \cup (IF known.board.minimum \in {"none", "viewer", "commenter"} THEN {"commenter"} ELSE {})
LeastRole == IF known.board.minimum = "none" THEN "viewer" ELSE known.board.minimum

\* UserPermissionsRow and TeamPermissionsRow: what they say of a member and of the team.
\* The row raises the role to the minimum that the member came with, not to the board's.
DisplayRole(u) == Raised(known.members[u], known.least[u])
currentRoleName ==
    IF known.board.type # "open" THEN "none"
    ELSE IF known.board.minimum \in {"commenter", "viewer"} THEN known.board.minimum ELSE "editor"

\* The rows of the dialog: the users that the store has and that are members.
Rows == known.users \cap DOMAIN known.members

-----------------------------------------------------------------------------
AtRest == underWay = <<>> /\ pushed = <<>>
SharingAct == mishaps \subseteq {"away"} /\ sharingActs < SharingActs /\ Len(underWay) + Len(pushed) <= Crowd /\ sharingActs' = sharingActs + 1
Ask(kind, user, role, what) ==
    [kind |-> kind, user |-> user, role |-> role, what |-> what, served |-> FALSE, answer |-> <<>>, fresh |-> AtRest]
SendAsk(a) == underWay' = Append(underWay, a)
\* What has changed by now makes the requests that are under way no longer fresh.
Stale(asks) == [i \in DOMAIN asks |-> [asks[i] EXCEPT !.fresh = FALSE]]
IManage == useHasPermissions("admin") /\ SharingAct /\ UNCHANGED <<team, known, pushed>>

addUser(u) ==
    /\ IManage /\ u \notin DOMAIN known.members
    /\ SendAsk(Ask("add", u, LeastRole, <<>>)) /\ UNCHANGED <<dialog, mishaps>>
onUpdateBoardMember(u, role) ==
    /\ IManage /\ u \in Rows /\ role \in OfferedRoles(u) /\ role # known.members[u]
    /\ ~(u = Me /\ isLastAdmin(known.members))
    /\ SendAsk(Ask("update", u, role, <<>>)) /\ UNCHANGED <<dialog, mishaps>>
onDeleteBoardMember(u) ==
    /\ IManage /\ u \in Rows /\ ~(u = Me /\ isLastAdmin(known.members))
    /\ SendAsk(Ask("remove", u, "none", <<>>)) /\ UNCHANGED <<dialog, mishaps>>

\* A change of the board is sent as the fields that differ.
Change(new) ==
    /\ new # known.board
    /\ SendAsk(Ask("patch", Nobody, "none", [f \in {f \in DOMAIN new : new[f] # known.board[f]} |-> new[f]]))
    /\ UNCHANGED <<dialog, mishaps>>
updateBoardType(type, minimum) == IManage /\ Change([known.board EXCEPT !.type = type, !.minimum = minimum])
onLinkBoard(channel) == IManage /\ Change([known.board EXCEPT !.channel = channel])
onUnlinkBoard == IManage /\ known.board.channel # "" /\ Change([known.board EXCEPT !.channel = ""])

\* The object of the dialog's state is changed itself, and read again after it was sent.
Shares(new) ==
    /\ IManage
    /\ dialog' = [dialog EXCEPT !.sharing = IF @ = NoSharing THEN @ ELSE new]
    /\ SendAsk(Ask("share", Nobody, "none", new))
    /\ mishaps' = mishaps \cup {"late" : i \in {j \in DOMAIN underWay : underWay[j].kind = "share"}}
NewToken == Cardinality({team.shared.token, dialog.sharing.token}) + team.tokens
onShareChanged(on) ==
    LET now == IF dialog.sharing = NoSharing THEN [on |-> TRUE, token |-> NewToken] ELSE dialog.sharing
    IN  Shares([now EXCEPT !.on = on])
onRegenerateToken == dialog.sharing.on /\ Shares([dialog.sharing EXCEPT !.token = NewToken])
\* The link that is shown and copied
PublicLink == IF dialog.sharing.on THEN dialog.sharing.token ELSE 0

\* The person property: the options are users of the board when they are loaded, and one
\* who has left by the time is asked to be added.
loadOptions ==
    /\ useHasPermissions("editor") /\ dialog.options # known.users
    /\ dialog' = [dialog EXCEPT !.options = known.users]
    /\ UNCHANGED <<team, known, underWay, pushed, mishaps, sharingActs>>
onChangePerson(u) ==
    /\ useHasPermissions("editor") /\ SharingAct /\ u \in dialog.options /\ dialog.adding = Nobody
    /\ dialog' = IF u \in known.users THEN [dialog EXCEPT !.person = u] ELSE [dialog EXCEPT !.adding = u, !.role = LeastRole]
    /\ UNCHANGED <<team, known, underWay, pushed, mishaps>>
\* Whoever is an administrator picks the role; the dialog, and the role picked, outlive my
\* rights to add someone, and what is asked then is not offered on what the page knows.
chooseRole(role) ==
    /\ dialog.adding # Nobody /\ useHasPermissions("admin") /\ role \in OfferedRoles(dialog.adding) \ {dialog.role}
    /\ dialog' = [dialog EXCEPT !.role = role]
    /\ UNCHANGED <<team, known, underWay, pushed, mishaps, sharingActs>>
allowAddUsers == Me \notin Guests /\ (useHasPermissions("admin") \/ known.board.type = "open")
addPerson ==
    /\ dialog.adding # Nobody /\ known.board # NoBoard
    /\ SendAsk([Ask("addPerson", dialog.adding, dialog.role, <<>>) EXCEPT !.fresh = @ /\ allowAddUsers /\ useHasPermissions("editor")])
    /\ dialog' = [dialog EXCEPT !.adding = Nobody, !.role = "none"]
    /\ UNCHANGED <<team, known, pushed, mishaps, sharingActs>>

-----------------------------------------------------------------------------
\* External: the server carries out a request of mine, and another's; it tells the members,
\* and whom the change is about.
Told(t, news) == IF Me \in DOMAIN t.members \/ (news.kind = "member" /\ news.user = Me) THEN <<news>> ELSE <<>>
Member(u, role) == [kind |-> "member", user |-> u, role |-> role, board |-> NoBoard]
Board(board) == [Member(Nobody, "none") EXCEPT !.kind = "board", !.board = board]
Allowed(a) ==
    CASE a.kind \in {"add", "addPerson"} -> HasPermission(team, Me, "admin") \/ (team.board.type = "open" /\ HasPermission(team, Me, "editor"))
      [] a.kind \in {"update", "remove"} -> HasPermission(team, Me, "admin") /\ a.user \in DOMAIN team.members /\ ~LastAdmin(team, a.user, a.role)
      [] a.kind \in {"patch", "share"} -> HasPermission(team, Me, "admin")
      [] OTHER -> Me \in DOMAIN team.members
Reads == {"fetchMembers", "getBoard", "getUser"}
Served(a) ==
    IF ~Allowed(a) THEN team
    ELSE CASE a.kind \in {"update", "remove"} \/ (a.kind \in {"add", "addPerson"} /\ a.user \notin DOMAIN team.members) ->
                 [team EXCEPT !.members = With(@, a.user, a.role)]
           [] a.kind = "patch" -> [team EXCEPT !.board = [f \in DOMAIN @ |-> IF f \in DOMAIN a.what THEN a.what[f] ELSE @[f]]]
           [] a.kind = "share" -> [team EXCEPT !.shared = a.what, !.tokens = @ + 1, !.relinked = FALSE]
           [] OTHER -> team
ServeAsk(i) ==
    LET a == underWay[i]
        t == Served(a)
        news == CASE t.members # team.members -> Told(t, Member(a.user, a.role))
                  [] t.board # team.board -> Told(t, Board(t.board))
                  [] OTHER -> <<>>
        others == IF t = team THEN underWay ELSE Stale(underWay)
        answer == CASE a.kind = "share" -> (IF HasPermission(t, Me, "admin") THEN t.shared ELSE NoSharing)
                    [] a.kind = "fetchMembers" -> (IF Allowed(a) THEN t.members ELSE <<>>)
                    [] OTHER -> t.board
        \* Members that are loaded come with the minimum role of the board.
        role == IF a.kind = "fetchMembers" THEN t.board.minimum ELSE a.role
    IN  /\ ~a.served
        /\ team' = t /\ pushed' = pushed \o news
        /\ underWay' = [others EXCEPT ![i] = [a EXCEPT !.served = TRUE, !.answer = answer, !.role = role]]
        /\ mishaps' = mishaps \cup (IF Allowed(a) THEN {} ELSE IF a.fresh /\ mishaps = {} /\ a.kind \notin Reads THEN {"refused"} ELSE {"raced"})
        /\ UNCHANGED <<known, dialog, sharingActs>>
AnotherAdmin(u, role) ==
    /\ SharingAct /\ role # RoleIn(team.members, u) /\ ~LastAdmin(team, u, role)
    /\ LET t == [team EXCEPT !.members = With(@, u, role)]
       IN  team' = t /\ pushed' = pushed \o Told(t, Member(u, role))
    /\ underWay' = Stale(underWay)
    /\ UNCHANGED <<known, dialog, mishaps>>
\* It may change the board, which is told, and the public link, which is told to nobody.
BoardsOf(board) ==
    {[board EXCEPT !.type = "open", !.minimum = minimum] : minimum \in {"editor", "commenter", "viewer"}}
    \cup {[board EXCEPT !.type = "private", !.minimum = "none"], [board EXCEPT !.channel = ""]}
AnotherChanges(new) ==
    /\ SharingAct /\ new # team.board /\ ~(AdminsOf(team.members) \subseteq {Me})
    /\ team' = [team EXCEPT !.board = new] /\ pushed' = pushed \o Told(team, Board(new))
    /\ underWay' = Stale(underWay)
    /\ UNCHANGED <<known, dialog, mishaps>>
AnotherShares(new) ==
    /\ SharingAct /\ new # team.shared /\ ~(AdminsOf(team.members) \subseteq {Me})
    /\ team' = [team EXCEPT !.shared = new, !.tokens = @ + 1, !.relinked = TRUE]
    /\ underWay' = Stale(underWay)
    /\ UNCHANGED <<known, dialog, pushed, mishaps>>

-----------------------------------------------------------------------------
\* The members that a message tells of, in the stores: updateMembersHandler. What the server
\* broadcasts of a member is what was asked of it, which has no minimum role.
updateMembers(k, u, role) == [k EXCEPT !.members = With(@, u, role), !.least[u] = "none"]

\* updateMembersEnsuringBoardsAndUsers: a board that I am a member of now is loaded first,
\* one that I am not drops out at once; a user whom the store has not is loaded afterwards.
Ensure(k, u, role) ==
    LET known1 == updateMembers(k, u, role)
    IN  IF role = "none" THEN [known1 EXCEPT !.users = @ \ {u}] ELSE known1
UsersAsked(k, u, role) == IF role = "none" \/ u \in k.users THEN <<>> ELSE <<Ask("getUser", u, role, <<>>)>>

ReceiveMember ==
    LET n == Head(pushed)
        k == IF n.user = Me THEN [known EXCEPT !.mine = n.role] ELSE known
        dropped == IF n.user = Me /\ n.role = "none" THEN [k EXCEPT !.board = NoBoard] ELSE k
        waits == n.user = Me /\ n.role # "none" /\ known.board = NoBoard
    IN  /\ pushed # <<>> /\ n.kind = "member" /\ pushed' = Tail(pushed)
        /\ known' = IF waits THEN k ELSE Ensure(dropped, n.user, n.role)
        /\ underWay' = Stale(underWay) \o (IF waits THEN <<[Ask("getBoard", Me, n.role, <<>>) EXCEPT !.fresh = TRUE]>>
                                           ELSE UsersAsked(k, n.user, n.role))
        /\ mishaps' = IF n.user = Me /\ n.role = "none" THEN mishaps \cup {"away"} ELSE mishaps
        /\ UNCHANGED <<team, dialog, sharingActs>>
\* updateBoards; the members of the board that is open are loaded anew (fetchBoardMembers).
ReceiveBoard ==
    /\ pushed # <<>> /\ Head(pushed).kind = "board" /\ pushed' = Tail(pushed)
    /\ known' = [known EXCEPT !.board = Head(pushed).board]
    /\ SendAsk([Ask("fetchMembers", Nobody, "none", <<>>) EXCEPT !.fresh = TRUE])
    /\ UNCHANGED <<team, dialog, mishaps, sharingActs>>

\* An answer: a deleted member's user goes although the answer may be a refusal.
Answered(i) ==
    LET a == underWay[i]
        late == CASE a.kind = "remove" -> a.user \in DOMAIN team.members
                  [] a.kind = "getUser" -> a.user \notin DOMAIN known.members
                  [] a.kind \in {"fetchMembers", "getBoard"} -> ~a.fresh
                  [] OTHER -> FALSE
    IN  /\ a.served
        /\ known' = CASE a.kind = "remove" -> [known EXCEPT !.users = @ \ {a.user}]
                      [] a.kind = "getUser" -> [known EXCEPT !.users = @ \cup {a.user}]
                      [] a.kind = "getBoard" -> updateMembers([known EXCEPT !.board = a.answer], Me, a.role)
                      [] a.kind = "fetchMembers" /\ a.answer = <<>> -> [known EXCEPT !.users = {}]
                      [] a.kind = "fetchMembers" /\ a.answer # <<>> ->
                             [known EXCEPT !.users = DOMAIN a.answer, !.members = a.answer, !.least = [v \in People |-> a.role]]
                      [] OTHER -> known
        /\ dialog' = CASE a.kind = "share" -> [dialog EXCEPT !.sharing = a.answer]
                       [] a.kind = "addPerson" -> [dialog EXCEPT !.person = a.user]
                       [] OTHER -> dialog
        /\ underWay' = RemoveAt(underWay, i) \o (IF a.kind = "getBoard" THEN UsersAsked(known, Me, a.role) ELSE <<>>)
        /\ mishaps' = IF late THEN mishaps \cup {"late"} ELSE mishaps
        /\ UNCHANGED <<team, pushed, sharingActs>>

SharingInit ==
    /\ team = [members |-> FirstRoles, board |-> Rules, shared |-> NoSharing, tokens |-> 0, relinked |-> FALSE]
    /\ known = [board |-> Rules, members |-> FirstRoles, least |-> [u \in People |-> Rules.minimum],
                users |-> DOMAIN FirstRoles, mine |-> FirstRoles[Me]]
    /\ dialog = [sharing |-> NoSharing, options |-> {}, adding |-> Nobody, role |-> "none", person |-> Nobody]
    /\ underWay = <<>> /\ pushed = <<>> /\ mishaps = {} /\ sharingActs = 0

SharingNext ==
    \/ \E u \in People : addUser(u) \/ onDeleteBoardMember(u) \/ onChangePerson(u)
    \/ \E u \in People, role \in DOMAIN Level : onUpdateBoardMember(u, role)
    \/ \E u \in People, role \in DOMAIN Level : AnotherAdmin(u, role)
    \/ \E new \in BoardsOf(team.board) : AnotherChanges(new)
    \/ \E new \in {[team.shared EXCEPT !.on = FALSE], [on |-> TRUE, token |-> NewToken]} : AnotherShares(new)
    \/ \E minimum \in {"editor", "commenter", "viewer"} : updateBoardType("open", minimum)
    \/ updateBoardType("private", "none") \/ onLinkBoard("channel") \/ onUnlinkBoard
    \/ \E on \in BOOLEAN : onShareChanged(on)
    \/ onRegenerateToken \/ loadOptions
    \/ addPerson \/ \E role \in DOMAIN Level : chooseRole(role)
    \/ \E i \in DOMAIN underWay : ServeAsk(i) \/ Answered(i)
    \/ ReceiveMember \/ ReceiveBoard

SharingSpec == SharingInit /\ [][SharingNext]_sharingVars

-----------------------------------------------------------------------------
\* Nothing that the page offers on what it knows is refused, unless someone else, or I, have
\* changed the board by then: the dialog's own checks are those of the server.
NeverRefused == "refused" \notin mishaps

\* When nothing is under way the page grants what the server grants, lists every member with
\* the role that it has on the board, or with its own role if the last that came of it was a
\* broadcast, which tells no minimum, and shows the link that works, unless another administrator
\* has changed the sharing since I did: that is told to nobody.
Agrees ==
    AtRest /\ mishaps \subseteq {"refused", "raced"} =>
        /\ \A p \in DOMAIN Level \ {"none"} : useHasPermissions(p) <=> HasPermission(team, Me, p)
        /\ known.members = team.members /\ Rows = DOMAIN team.members
        /\ known.board = team.board
        /\ \A u \in Rows : DisplayRole(u) = IF known.least[u] = "none" THEN team.members[u]
                                            ELSE Raised(team.members[u], team.board.minimum)
        /\ currentRoleName = "none" <=> team.board.type # "open"
        /\ HasPermission(team, Me, "admin") /\ ~team.relinked => PublicLink \in {0, team.shared.token} /\ (PublicLink # 0 => team.shared.on)

\* Two ways in which administrators could all be gone: the server's and the dialog's rule.
HasAdmin == AdminsOf(team.members) # {}

\* The page's permissions, its lists and its link (permissions.tsx, shareBoard.tsx) are those of the server.
SharingKept == NeverRefused /\ Agrees /\ HasAdmin
=============================================================================
