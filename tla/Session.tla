------------------------------- MODULE Session -------------------------------
(***************************************************************************)
(* One window of the web application on a server of its own: who is signed *)
(* in (login, register and account pages, store/users.ts), where the       *)
(* router sends the window, and which board it loads or joins (boardPage,  *)
(* store/initialLoad.ts, userSettings.ts).                                 *)
(***************************************************************************)
EXTENDS Integers, Sequences, SequencesExt, FiniteSets, FiniteSetsExt, TLC

CONSTANTS
    FirstAccounts,  \* of a user: the password
    Newcomer,       \* a user who may register
    Passwords,      \* those that are typed
    Weak,           \* those of them with less than eight characters
    Admins,         \* adminUsernames
    Managers,       \* users with manage_system or manage_team
    FirstMembers,   \* of a board: its members
    OpenBoards,     \* the boards that any user may join
    SharedBoards,   \* the boards that are published
    Views,          \* of a board: its views, in order
    Categories,     \* the boards of each category of the sidebar
    Links,          \* the addresses that may be opened
    SessionActs,    \* bound: what is done, all before the first fault
    Busy,           \* bound: the requests under way when something is done
    UnderWay        \* bound: the requests under way; a session that ended loads for ever

VARIABLES
    server,     \* passwords, sessions, members
    kept,     \* localStorage: focalboardSessionId, lastBoardId, lastViewId
    user,       \* store/users.ts: me, loggedIn
    where,      \* the route, and the route before it
    form,       \* the form of the page: whose, isSubmitting, the message
    loaded,     \* the stores: boards, categories, the board whose blocks they hold
    asks,       \* requests that are not answered
    joining,    \* the board of the dialog "Join private board"
    faults,     \* history: what has disturbed the session
    sessionActs \* history: how much was done

sessionVars == <<server, kept, user, where, form, loaded, asks, joining, faults, sessionActs>>

Nobody == ""
NoBoard == ""
Boards == DOMAIN FirstMembers
Nothing == [boards |-> {}, categories |-> <<>>, blocks |-> NoBoard]
NoForm == [for |-> Nobody, busy |-> FALSE, message |-> "", new |-> ""]
Route(page, board, long) == [page |-> page, board |-> board, view |-> "", long |-> long, back |-> NoBoard]
Home == Route("board", NoBoard, FALSE)
Error(id) == Route(id, NoBoard, FALSE)

\* The requests; each carries the token that is stored when it is sent.
Ask(kind, board, text, next) ==
    [kind |-> kind, token |-> kept.token, board |-> board, text |-> text, next |-> next]
Plain(kind) == Ask(kind, NoBoard, "", Home)
Owner(a) == IF a.token \in server.sessions THEN a.token ELSE Nobody

-----------------------------------------------------------------------------
\* FBRoute, LoginPage and RegisterPage: where a route sends the window.  Only a link with
\* the team, or the word board, in it is found again after the login.
LoginPage(back) == [Route("login", NoBoard, FALSE) EXCEPT !.back = back]
FBRoute(to, u) ==
    CASE to.page \in {"board", "admin"} /\ u.loggedIn = "no" -> LoginPage(IF to.long THEN to.board ELSE NoBoard)
      [] to.page = "admin" /\ u.me \notin Admins -> Home
      [] to.page \in {"login", "register"} /\ u.loggedIn = "yes" -> Home
      [] OTHER -> to

\* ErrorPage: who is not logged in is sent on to the login.
NotLoggedIn == LoginPage(NoBoard)

\* TeamToBoardAndViewRedirect: the last board of the team, else the first one of the last
\* category that has one; then the last view of the board, else the first one.
FirstBoard(l) ==
    LET here == [i \in DOMAIN l.categories |-> SelectSeq(l.categories[i], LAMBDA b : b \in l.boards)]
        some == SelectSeq(here, LAMBDA c : c # <<>>)
    IN  IF some = <<>> THEN NoBoard ELSE Last(some)[1]
WithBoard(r, s, l) ==
    IF r.board # NoBoard THEN r ELSE [r EXCEPT !.board = IF s.lastBoard # NoBoard THEN s.lastBoard ELSE FirstBoard(l)]
ViewOf(b, s) == IF b \in DOMAIN s.lastView THEN s.lastView[b] ELSE Views[b][1]
WithView(r, s, l) ==
    IF r.board = NoBoard \/ r.view # "" \/ l.blocks # r.board THEN r ELSE [r EXCEPT !.view = ViewOf(r.board, s)]

\* The effects of BoardPage: all is loaded again when the board, the view or the user is
\* another one, and the board is loaded or joined.  A page that is left on the way is
\* mounted anew.
Effects(from, way, to, u) ==
    LET anew == from.page # to.page \/ way.page # to.page \/ u.me # user.me
    IN  CASE to.page = "board" /\ (anew \/ from.board # to.board \/ from.view # to.view) ->
                 <<Plain("initial")>>
                 \o (IF to.board # NoBoard /\ u.me # Nobody /\ (anew \/ from.board # to.board)
                     THEN <<Ask("load", to.board, u.me, Home)>> ELSE <<>>)
          [] to.page = "shared" /\ (anew \/ from.board # to.board) -> <<Ask("readOnly", to.board, "", Home)>>
          [] to.page = "workspace" /\ anew -> <<Ask("getBoard", to.board, "", Home)>>
          [] OTHER -> <<>>

\* A team without a board is replaced by its first board, and a board by its view.
Replaced(at) == at.page = where.now.page /\ where.now.board \in {NoBoard, at.board}

\* The window goes to a route with what is stored and loaded now, and asks.
Go(to, u, s, l, rest) ==
    LET r == FBRoute(to, u)
        at == IF r.page = "board" THEN WithView(WithBoard(r, s, l), s, l) ELSE r
    IN  /\ user' = u /\ loaded' = l
        /\ where' = [now |-> at, before |-> IF Replaced(at) THEN where.before ELSE where.now]
        /\ kept' = IF at.view = "" THEN s ELSE [s EXCEPT !.lastView = (at.board :> at.view) @@ @]
        /\ asks' = rest \o SelectSeq(Effects(where.now, to, at, u), LAMBDA a : a \notin ToSet(rest))

Act == sessionActs < SessionActs /\ faults = {} /\ Len(asks) <= Busy /\ sessionActs' = sessionActs + 1
Page(p) == where.now.page = p
Rest(i) == RemoveAt(asks, i)

-----------------------------------------------------------------------------
\* The application is opened at a link, with what the browser keeps.
OpenLink(link) ==
    /\ Act /\ asks = <<>>
    /\ LET u == [me |-> Nobody, loggedIn |-> "unknown"]
           r == FBRoute(link, u)
           at == IF r.page = "board" THEN WithBoard(r, kept, Nothing) ELSE r
       IN  /\ user' = u /\ loaded' = Nothing
           /\ where' = [now |-> at, before |-> at]
           /\ asks' = Effects(Error(""), at, at, u) \o <<Plain("me")>>
    /\ form' = NoForm /\ joining' = NoBoard
    /\ UNCHANGED <<server, kept, faults>>

\* showBoard, and a link to an account page in the user's menu
ShowBoard(b) ==
    /\ Act /\ Page("board") /\ b \in loaded.boards \ {where.now.board} /\ joining = NoBoard
    /\ Go(Route("board", b, FALSE), user, kept, loaded, asks)
    /\ UNCHANGED <<server, form, joining, faults>>
OpenPage(page) ==
    /\ Act /\ Page("board") /\ user.me # Nobody
    /\ Go(Route(page, NoBoard, FALSE), user, kept, loaded, asks)
    /\ form' = NoForm
    /\ UNCHANGED <<server, joining, faults>>

\* A card of a published board: the address loses the word shared (getBoardPagePath).
ShowCard ==
    /\ Act /\ Page("shared") /\ loaded.blocks = where.now.board
    /\ Go(Route("board", where.now.board, FALSE), user, kept, loaded, asks)
    /\ UNCHANGED <<server, form, joining, faults>>

Submit(kind, for, text, new, next) ==
    /\ Act /\ ~form.busy
    /\ asks' = Append(asks, Ask(kind, for, text, next))
    /\ form' = [for |-> for, busy |-> TRUE, message |-> "", new |-> new]
    /\ UNCHANGED <<server, kept, user, where, loaded, joining, faults>>
handleLogin(u, p) == Page("login") /\ Submit("login", u, p, "", Route("board", where.now.back, TRUE))
handleRegister(p) == Page("register") /\ Submit("register", Newcomer, p, "", Home)
\* ChangePasswordPage, ChangeEmailPage and ChangeUsernamePage: only the first changes
\* what this model keeps.
ChangePassword(old, new) == Page("password") /\ user.me # Nobody /\ Submit("change", user.me, old, new, Home)
ChangeEmail(old) == Page("email") /\ user.me # Nobody /\ Submit("change", user.me, old, "", Home)
ChangeUsername(old) == Page("username") /\ user.me # Nobody /\ Submit("change", user.me, old, "", Home)

\* AdminPage and its dialog: the password is typed twice; the form is never busy.
openChangePasswordDialog(u) ==
    /\ Page("admin") /\ u # form.for /\ faults = {}
    /\ form' = [NoForm EXCEPT !.for = u]
    /\ UNCHANGED <<server, kept, user, where, loaded, asks, joining, faults, sessionActs>>
handleChangePassword(new, again) ==
    /\ Act /\ Page("admin") /\ form.for # Nobody
    /\ IF new # again \/ new \in Weak
       THEN UNCHANGED asks /\ form' = [form EXCEPT !.message = "error"]
       ELSE asks' = Append(asks, Ask("changeOther", form.for, new, Home)) /\ UNCHANGED form
    /\ UNCHANGED <<server, kept, user, where, loaded, joining, faults>>

Logout ==
    /\ Act /\ user.me # Nobody /\ Page("board")
    /\ asks' = Append(asks, Plain("logout"))
    /\ UNCHANGED <<server, kept, user, where, form, loaded, joining, faults>>

\* The dialog for those who manage the system; closing it goes back.
onConfirmJoin ==
    /\ joining # NoBoard
    /\ asks' = Append(asks, Ask("adminJoin", joining, user.me, Home)) /\ joining' = NoBoard
    /\ UNCHANGED <<server, kept, user, where, form, loaded, faults, sessionActs>>
onCloseJoin ==
    /\ joining # NoBoard /\ joining' = NoBoard
    /\ Go(where.before, user, kept, loaded, asks)
    /\ faults' = IF where.before.board = where.now.board THEN faults \cup {"nowhere"} ELSE faults
    /\ UNCHANGED <<server, form, sessionActs>>

-----------------------------------------------------------------------------
\* The answers, in any order.  "Late" is one for a page that is not shown any more.
Answer(i, kind) == asks[i].kind = kind /\ Len(asks) <= UnderWay /\ UNCHANGED sessionActs
Fault(c, f) == faults' = IF c THEN faults \cup {f} ELSE faults
Late(a, c) == Fault(c \/ a.token # kept.token, "late")
NotHere(a) == ~Page("board") \/ where.now.board # a.board

\* fetchMe; after a login the window goes on to where it was to go.
FetchedMe(i) ==
    LET a == asks[i]
        me == Owner(a)
        u == [me |-> me, loggedIn |-> IF me = Nobody THEN "no" ELSE "yes"]
    IN  /\ Answer(i, "me")
        /\ Go(IF a.text = "next" THEN a.next ELSE where.now, u, kept, loaded, Rest(i))
        /\ form' = IF a.text = "next" THEN NoForm ELSE form
        /\ Late(a, FALSE)
        /\ UNCHANGED <<server, joining>>

\* initialLoad, with the categories, which are a request of their own; without a user the
\* global error sends the window away from any page.
LoadedAll(i) ==
    LET a == asks[i]
        me == Owner(a)
        boards == {b \in Boards : b \in OpenBoards \/ me \in server.members[b]}
    IN  /\ Answer(i, "initial")
        /\ IF me # Nobody
           THEN Go(where.now, user, kept, [loaded EXCEPT !.boards = boards, !.categories = Categories], Rest(i))
           ELSE Go(NotLoggedIn, user, kept, loaded, Rest(i))
        /\ Late(a, FALSE)
        /\ UNCHANGED <<server, form, joining>>
\* One of its requests gets no answer, or there is no team.
LoadFailed(i) ==
    /\ Answer(i, "initial")
    /\ Go(Error("failed"), user, kept, loaded, Rest(i))
    /\ faults' = faults \cup {"failed"}
    /\ UNCHANGED <<server, form, joining>>

\* loadOrJoinBoard: a board without blocks is taken for one to join.
LoadedBoard(i) ==
    LET a == asks[i]
        member == Owner(a) # Nobody /\ Owner(a) \in server.members[a.board]
        blocks == [loaded EXCEPT !.blocks = IF member THEN a.board ELSE NoBoard]
    IN  /\ Answer(i, "load")
        /\ IF member THEN Go(where.now, user, [kept EXCEPT !.lastBoard = a.board], blocks, Rest(i))
           ELSE Go(where.now, user, kept, blocks, Append(Rest(i), Ask("join", a.board, a.text, Home)))
        /\ Late(a, NotHere(a))
        /\ UNCHANGED <<server, form, joining>>

\* joinBoard: a board that the server does not let one join is forgotten.
Joined(i) ==
    LET a == asks[i]
        me == Owner(a)
        joins == me # Nobody /\ (a.board \in OpenBoards \/ a.kind = "adminJoin")
        forgotten == [kept EXCEPT !.lastBoard = NoBoard, !.lastView = Restrict(@, DOMAIN @ \ {a.board})]
    IN  /\ Answer(i, a.kind) /\ a.kind \in {"join", "adminJoin"}
        /\ server' = IF joins THEN [server EXCEPT !.members[a.board] = @ \cup {me}] ELSE server
        /\ joining' = IF ~joins /\ a.text \in Managers THEN a.board ELSE joining
        /\ CASE joins -> asks' = Append(Rest(i), Ask("loadJoined", a.board, a.text, Home)) /\ UNCHANGED <<kept, user, where, loaded>>
             [] ~joins /\ a.text \in Managers -> asks' = Rest(i) /\ UNCHANGED <<kept, user, where, loaded>>
             [] OTHER -> Go(Error("board-not-found"), user, forgotten, loaded, Rest(i))
        /\ Late(a, NotHere(a))
        /\ UNCHANGED form
LoadedJoined(i) ==
    LET a == asks[i]
        member == Owner(a) # Nobody /\ Owner(a) \in server.members[a.board]
    IN  /\ Answer(i, "loadJoined")
        /\ Go(where.now, user, [kept EXCEPT !.lastBoard = IF member THEN a.board ELSE @],
              [loaded EXCEPT !.blocks = IF member THEN a.board ELSE NoBoard], Rest(i))
        /\ Late(a, NotHere(a))
        /\ UNCHANGED <<server, form, joining>>

\* initialReadOnlyLoad
LoadedReadOnly(i) ==
    LET b == asks[i].board
    IN  /\ Answer(i, "readOnly")
        /\ IF b \in SharedBoards
           THEN /\ loaded' = [loaded EXCEPT !.boards = {b}, !.blocks = b]
                /\ asks' = Rest(i) /\ UNCHANGED <<kept, user, where>>
           ELSE Go(Error("invalid-read-only-board"), user, kept, loaded, Rest(i))
        /\ Late(asks[i], ~Page("shared"))
        /\ UNCHANGED <<server, form, joining>>

\* WorkspaceToTeamRedirect: without an answer the page stays empty.
GotBoard(i) ==
    LET a == asks[i]
    IN  /\ Answer(i, "getBoard")
        /\ IF Owner(a) # Nobody /\ Owner(a) \in server.members[a.board]
           THEN Go(Route("board", a.board, TRUE), user, kept, loaded, Rest(i))
           ELSE asks' = Rest(i) /\ UNCHANGED <<kept, user, where, loaded>>
        /\ UNCHANGED <<server, form, joining, faults>>

\* login: the token is stored, and the user fetched with it.
LoggedIn(i) ==
    LET a == asks[i]
        ok == a.board \in DOMAIN server.passwords /\ server.passwords[a.board] = a.text
    IN  /\ Answer(i, "login")
        /\ IF ok
           THEN /\ server' = [server EXCEPT !.sessions = @ \cup {a.board}]
                /\ kept' = [kept EXCEPT !.token = a.board]
                /\ asks' = Append(Rest(i), [a EXCEPT !.kind = "me", !.token = a.board, !.text = "next"])
                /\ UNCHANGED form
           ELSE /\ asks' = Rest(i) /\ form' = [form EXCEPT !.busy = FALSE, !.message = "error"]
                /\ UNCHANGED <<server, kept>>
        /\ UNCHANGED <<user, where, loaded, joining, faults>>
Registered(i) ==
    LET a == asks[i]
        isNew == a.board \notin DOMAIN server.passwords
    IN  /\ Answer(i, "register")
        /\ IF isNew
           THEN /\ server' = [server EXCEPT !.passwords = (a.board :> a.text) @@ @]
                /\ asks' = Append(Rest(i), [a EXCEPT !.kind = "login"]) /\ UNCHANGED form
           ELSE /\ asks' = Rest(i) /\ form' = [form EXCEPT !.busy = FALSE, !.message = "error"] /\ UNCHANGED server
        /\ UNCHANGED <<kept, user, where, loaded, joining, faults>>

\* The answer to a change of the account is shown in the form, whoever it is for by now.
Changed(i) ==
    LET a == asks[i]
        ok == /\ Owner(a) # Nobody
              /\ a.kind = "change" => server.passwords[a.board] = a.text
        new == IF a.kind = "change" THEN form.new ELSE a.text
    IN  /\ Answer(i, a.kind) /\ a.kind \in {"change", "changeOther"}
        /\ asks' = Rest(i)
        /\ server' = IF ok /\ new # "" THEN [server EXCEPT !.passwords[a.board] = new] ELSE server
        /\ form' = IF form.for = Nobody THEN form
                   ELSE [form EXCEPT !.busy = FALSE, !.message = IF ok THEN "success" ELSE "error",
                                     !.new = IF a.kind = "change" THEN @ ELSE new]
        /\ Late(a, form.for # a.board)
        /\ UNCHANGED <<kept, user, where, loaded, joining>>

\* Mutant: the user stays in the store until the next fetch.
keepMe(u) == user
\* The token goes whatever the answer is, and then the user.
setMe(u) == [me |-> u, loggedIn |-> IF u = Nobody THEN "no" ELSE "yes"]
LoggedOut(i) ==
    /\ Answer(i, "logout")
    /\ server' = [server EXCEPT !.sessions = @ \ {asks[i].token}]
    /\ Go(LoginPage(NoBoard), setMe(Nobody), [kept EXCEPT !.token = Nobody], loaded, Rest(i))
    /\ form' = NoForm
    /\ UNCHANGED <<joining, faults>>

\* External: a session ends on the server.
Expire(u) ==
    /\ Act /\ u \in server.sessions
    /\ server' = [server EXCEPT !.sessions = @ \ {u}]
    /\ faults' = faults \cup {"expired"}
    /\ UNCHANGED <<kept, user, where, form, loaded, asks, joining>>

\* Someone may have signed in before.
SessionInit ==
    /\ \E u \in {Nobody} \cup DOMAIN FirstAccounts :
        /\ server = [passwords |-> FirstAccounts, sessions |-> {u} \ {Nobody}, members |-> FirstMembers]
        /\ kept = [token |-> u, lastBoard |-> NoBoard, lastView |-> <<>>]
    /\ user = [me |-> Nobody, loggedIn |-> "unknown"]
    /\ where = [now |-> Error("closed"), before |-> Error("closed")]
    /\ form = NoForm /\ loaded = Nothing /\ asks = <<>> /\ joining = NoBoard /\ faults = {} /\ sessionActs = 0

SessionNext ==
    \/ \E link \in Links : OpenLink(link)
    \/ \E b \in Boards : ShowBoard(b)
    \/ \E page \in {"password", "email", "username", "admin"} : OpenPage(page)
    \/ ShowCard \/ Logout \/ onConfirmJoin \/ onCloseJoin
    \/ \E p \in Passwords :
        \/ handleRegister(p) \/ ChangeEmail(p) \/ ChangeUsername(p)
        \/ \E u \in DOMAIN server.passwords : handleLogin(u, p)
        \/ \E q \in Passwords : ChangePassword(p, q) \/ handleChangePassword(p, q)
    \/ \E u \in DOMAIN server.passwords : openChangePasswordDialog(u) \/ Expire(u)
    \/ \E i \in DOMAIN asks :
        \/ FetchedMe(i) \/ LoadedAll(i) \/ LoadFailed(i) \/ LoadedBoard(i) \/ Joined(i)
        \/ LoadedJoined(i) \/ LoadedReadOnly(i) \/ GotBoard(i) \/ LoggedIn(i) \/ Registered(i) \/ Changed(i) \/ LoggedOut(i)

-----------------------------------------------------------------------------
\* Nothing is under way.
AtRest == asks = <<>> /\ joining = NoBoard

\* The three places that say who is signed in agree when nothing is under way: the store,
\* the browser's token and the server's sessions; then nobody who is signed in is left on
\* the login page, and nobody who is not sees a board that needs a login.
SignedIn ==
    /\ AtRest /\ "late" \notin faults => (user.me # Nobody => user.me = kept.token)
    /\ AtRest /\ faults = {} =>
        /\ user.me # Nobody => user.me \in server.sessions
        /\ Page("login") \/ Page("register") => user.loggedIn = "no"
        /\ Page("board") => user.loggedIn = "yes"

\* Whoever looks at a board is a member, sees the blocks of that board, and comes back to
\* it, however many boards were opened and joined before.
OnBoard ==
    AtRest /\ faults = {} /\ Page("board") /\ where.now.board # NoBoard =>
        /\ user.me \in server.members[where.now.board]
        /\ loaded.blocks = where.now.board /\ kept.lastBoard = where.now.board
        /\ where.now.view = ViewOf(where.now.board, kept)

\* Success is only shown to someone whose password it is.
Changes ==
    faults = {} /\ form.message = "success" /\ form.new # "" => server.passwords[form.for] = form.new

SessionKept == SignedIn /\ OnBoard /\ Changes
=============================================================================
