------------------------------ MODULE WsServer ------------------------------
(***************************************************************************)
(* The websocket server of the standalone edition (server/ws/server.go):   *)
(* one goroutine per session reads commands and changes, under ws.mu, the  *)
(* listener maps; broadcasts read these maps without ws.mu and write to    *)
(* the sessions they find.                                                 *)
(*                                                                         *)
(* Abstractions: one board, whose blocks the subscriptions are about; the  *)
(* sessions a broadcast has collected are a set (one subscribed twice over *)
(* gets the message twice); one broadcast at a time, as broadcasts share   *)
(* nothing but the closing of a connection, which the client may do too.   *)
(* BroadcastConfigChange has no caller in this edition and is left out.    *)
(* Every user has access to every team here (localpermissions); in single  *)
(* user mode the one valid token gives the one user.                       *)
(***************************************************************************)
EXTENDS Integers, Sequences, FiniteSets, Functions

CONSTANTS Session, User, Team, Block,
          BoardTeam,   \* the team of the board
          Parent,      \* [Block -> Block], a block under the board maps to itself
          NoUser,      \* an empty userID
          NoBlock,     \* the message is not about a block
          Free         \* ws.mu is not held

ASSUME WsServerAssumption ==
    /\ BoardTeam \in Team
    /\ Parent \in [Block -> Block]
    /\ NoUser \notin User /\ NoBlock \notin Block
    /\ Free \notin Session
    /\ Team \cap Block = {} /\ "team" \notin Block

VARIABLES
    phase,     \* [Session -> not connected yet, open, connection closed, returned]
    user,      \* [Session -> userID]
    teams,     \* [Session -> listener.teams]
    blocks,    \* [Session -> listener.blocks]
    job,       \* [Session -> what its goroutine does under ws.mu]
    mu,        \* the session that holds ws.mu
    listeners, byTeam, byBlock,   \* the maps of the Server
    member,    \* the board's members in the store
    cast,      \* the broadcast in progress
    crashed,   \* the Go runtime has ended the process
    due,       \* history variable: sessions entitled since the broadcast began, and how
    heard      \* history variable: users the broadcast was ever meant for

session == <<phase, user, teams, blocks, job, mu>>
maps    == <<listeners, byTeam, byBlock>>
vars    == <<session, maps, member, cast, crashed, due, heard>>

NoJob  == [op |-> "none", todo |-> {}]
NoCast == [kind |-> "none"]

\* The ways in which a broadcast may be for a session: as a member's session that
\* is subscribed to the team, as a subscriber of a block.
Way == {"team"} \cup Block

Init ==
    /\ phase = [s \in Session |-> "none"]
    /\ user = [s \in Session |-> NoUser]
    /\ teams = [s \in Session |-> {}]
    /\ blocks = [s \in Session |-> {}]
    /\ job = [s \in Session |-> NoJob]
    /\ mu = Free
    /\ listeners = {}
    /\ byTeam = [t \in Team |-> <<>>]
    /\ byBlock = [b \in Block |-> {}]
    /\ member = User
    /\ cast = NoCast
    /\ crashed = FALSE
    /\ due = {}
    /\ heard = {}

----------------------------------------------------------------------------
(* The goroutine of a session, handleWebSocket.  A command that is rejected, *)
(* or finds nothing to do, changes nothing and is left out.  Frames that are *)
(* already in the read buffer are handled even if the connection is closed.  *)

Reading(s) == job[s].op = "none" /\ phase[s] \in {"open", "closed"}

Lock(s, op, todo) ==
    /\ mu = Free
    /\ mu' = s
    /\ job' = [job EXCEPT ![s] = [op |-> op, todo |-> todo]]
    /\ UNCHANGED <<phase, user, teams, blocks, maps, member, cast>>

Unlock(s) ==
    /\ mu' = Free
    /\ job' = [job EXCEPT ![s] = NoJob]

\* The upgraded connection's addListener.
Connect(s) ==
    /\ phase[s] = "none"
    /\ Lock(s, "add", {})

\* Mutant: a session may authenticate again, as someone else.
AuthenticateAgain(s) ==
    /\ Reading(s)
    /\ \E u \in User \cup {NoUser} :
           IF u = NoUser
           THEN phase' = [phase EXCEPT ![s] = "closed"] /\ user' = user
           ELSE user' = [user EXCEPT ![s] = u] /\ phase' = phase
    /\ UNCHANGED <<teams, blocks, job, mu, maps, member, cast>>

\* authenticateListener: the token is some user's, or is refused with a close.
Authenticate(s) ==
    /\ Reading(s)
    /\ user[s] = NoUser
    /\ \E u \in User \cup {NoUser} :
           IF u = NoUser
           THEN phase' = [phase EXCEPT ![s] = "closed"] /\ user' = user
           ELSE user' = [user EXCEPT ![s] = u] /\ phase' = phase
    /\ UNCHANGED <<teams, blocks, job, mu, maps, member, cast>>

SubscribeTeam(s) ==
    /\ Reading(s)
    /\ user[s] # NoUser
    /\ \E t \in Team \ teams[s] : Lock(s, "subTeam", {t})

UnsubscribeTeam(s) ==
    /\ Reading(s)
    /\ user[s] # NoUser
    /\ \E t \in teams[s] : Lock(s, "unsubTeam", {t})

\* With a valid read token; no authentication is needed.
SubscribeBlocks(s) ==
    /\ Reading(s)
    /\ \E bs \in SUBSET (Block \ blocks[s]) \ {{}} : Lock(s, "subBlocks", bs)

UnsubscribeBlocks(s) ==
    /\ Reading(s)
    /\ \E bs \in SUBSET blocks[s] \ {{}} : Lock(s, "unsubBlocks", bs)

\* Mutant: a closed session gives up its teams only.
ReadErrorKeepsBlocks(s) ==
    /\ Reading(s)
    /\ phase[s] = "closed"
    /\ Lock(s, "remove", teams[s])

\* ReadMessage fails: removeListener.  The deferred second call finds nothing.
ReadError(s) ==
    /\ Reading(s)
    /\ phase[s] = "closed"
    /\ Lock(s, "remove", teams[s] \cup blocks[s])

----------------------------------------------------------------------------
(* The statements under ws.mu.  Broadcasts see the maps between them.        *)

Holds(s, op) == mu = s /\ job[s].op \in op

\* The loop goes on to its next team or block; a removal has one more statement.
Done(s, x) ==
    IF job[s].todo = {x} /\ job[s].op # "remove"
    THEN Unlock(s)
    ELSE job' = [job EXCEPT ![s].todo = @ \ {x}] /\ UNCHANGED mu

AddListener(s) ==
    /\ Holds(s, {"add"})
    /\ listeners' = listeners \cup {s}
    /\ phase' = [phase EXCEPT ![s] = "open"]
    /\ Unlock(s)
    /\ UNCHANGED <<user, teams, blocks, byTeam, byBlock, member, cast>>

\* Mutant: the command returns with the mutex held.
AddToTeamLocked(s) ==
    /\ Holds(s, {"subTeam"})
    /\ \E t \in job[s].todo :
        /\ byTeam' = [byTeam EXCEPT ![t] = Append(@, s)]
        /\ teams' = [teams EXCEPT ![s] = @ \cup {t}]
    /\ job' = [job EXCEPT ![s] = NoJob]
    /\ UNCHANGED <<phase, user, blocks, mu, listeners, byBlock, member, cast>>

AddToTeam(s) ==
    /\ Holds(s, {"subTeam"})
    /\ \E t \in job[s].todo :
        /\ byTeam' = [byTeam EXCEPT ![t] = Append(@, s)]
        /\ teams' = [teams EXCEPT ![s] = @ \cup {t}]
        /\ Done(s, t)
    /\ UNCHANGED <<phase, user, blocks, listeners, byBlock, member, cast>>

AddToBlock(s) ==
    /\ Holds(s, {"subBlocks"})
    /\ \E b \in job[s].todo :
        /\ byBlock' = [byBlock EXCEPT ![b] = @ \cup {s}]
        /\ blocks' = [blocks EXCEPT ![s] = @ \cup {b}]
        /\ Done(s, b)
    /\ UNCHANGED <<phase, user, teams, listeners, byTeam, member, cast>>

\* The loop of removeListenerFromTeam copies the other listeners in their order.
Without(q, s) ==
    LET kept[i \in 0 .. Len(q)] ==
            IF i = 0 THEN <<>>
            ELSE IF q[i] # s THEN Append(kept[i - 1], q[i]) ELSE kept[i - 1]
    IN kept[Len(q)]

RemoveFromTeam(s) ==
    /\ Holds(s, {"unsubTeam", "remove"})
    /\ \E t \in job[s].todo \cap Team :
        /\ byTeam' = [byTeam EXCEPT ![t] = Without(@, s)]
        /\ teams' = [teams EXCEPT ![s] = @ \ {t}]
        /\ Done(s, t)
    /\ UNCHANGED <<phase, user, blocks, listeners, byBlock, member, cast>>

RemoveFromBlock(s) ==
    /\ Holds(s, {"unsubBlocks", "remove"})
    /\ job[s].todo \cap Team = {}
    /\ \E b \in job[s].todo :
        /\ byBlock' = [byBlock EXCEPT ![b] = @ \ {s}]
        /\ blocks' = [blocks EXCEPT ![s] = @ \ {b}]
        /\ Done(s, b)
    /\ UNCHANGED <<phase, user, teams, listeners, byTeam, member, cast>>

\* A session's removal ends with its entry in ws.listeners.
RemoveListener(s) ==
    /\ Holds(s, {"remove"})
    /\ job[s].todo = {}
    /\ listeners' = listeners \ {s}
    /\ phase' = [phase EXCEPT ![s] = "gone"]
    /\ Unlock(s)
    /\ UNCHANGED <<user, teams, blocks, byTeam, byBlock, member, cast>>

\* The client leaves or the connection breaks.
Close(s) ==
    /\ phase[s] = "open"
    /\ phase' = [phase EXCEPT ![s] = "closed"]
    /\ UNCHANGED <<user, teams, blocks, job, mu, maps, member, cast>>

----------------------------------------------------------------------------
(* Broadcasts.                                                               *)

\* The block of a block's message is of.
Begin(kind, stage, ensured, of, bs) ==
    /\ cast = NoCast
    /\ cast' = [kind |-> kind, stage |-> stage, ensured |-> ensured, failed |-> FALSE,
                of |-> of, users |-> {}, blocks |-> bs, viaTeam |-> {},
                viaBlock |-> {}, got |-> {}]
    /\ UNCHANGED <<session, maps, member>>

\* BroadcastBoardChange and BroadcastMemberChange.
BroadcastBoard == Begin("board", "members", {}, NoBlock, {})

\* Mutant: the subscribers of the parent are forgotten.
BroadcastBlockOnly ==
    \E b \in Block : Begin("change", "members", {}, b, {b})

BroadcastBlockChange ==
    \E b \in Block : Begin("change", "members", {}, b, {b, Parent[b]})

\* The block it makes up has no ParentID.
BroadcastBlockDelete ==
    \E b \in Block : Begin("delete", "members", {}, b, {b})

\* Mutant: the user who left is not addressed.
BroadcastLeaveToMembers ==
    \E u \in User \ member : Begin("leave", "members", {}, NoBlock, {})

\* BroadcastMemberDelete, which ensures that the user who left is told.
BroadcastLeave ==
    \E u \in User \ member : Begin("leave", "members", {u}, NoBlock, {})

\* BroadcastCategoryChange, -Reorder, -BoardsReorder and -BoardChange.
BroadcastCategory == \E u \in User : Begin("category", "collect", {u}, NoBlock, {})

Stage(s) == cast # NoCast /\ cast.stage = s

\* GetMembersForBoard, which may fail: then no listener is found by the team.
ReadMembers ==
    /\ Stage("members")
    /\ \/ cast' = [cast EXCEPT !.users = member \cup cast.ensured, !.stage = "collect"]
       \/ cast' = [cast EXCEPT !.failed = TRUE, !.stage = "collect"]
    /\ UNCHANGED <<session, maps, member>>

SessionsOf(u) == {s \in Range(byTeam[BoardTeam]) : user[s] = u}

\* Mutant: only one session of each member is found.
CollectUserOnce ==
    /\ Stage("collect")
    /\ \E u \in cast.users :
        \E ss \in {{s} : s \in SessionsOf(u)} \cup {{}} :
           /\ ss = {} => SessionsOf(u) = {}
           /\ cast' = [cast EXCEPT !.users = @ \ {u}, !.viaTeam = @ \cup ss]
    /\ UNCHANGED <<session, maps, member>>

\* One round of the loop over the members, in the order of a Go map.
CollectUser ==
    /\ Stage("collect")
    /\ \E u \in cast.users :
           cast' = [cast EXCEPT !.users = @ \ {u}, !.viaTeam = @ \cup SessionsOf(u)]
    /\ UNCHANGED <<session, maps, member>>

CollectBlock ==
    /\ Stage("collect")
    /\ cast.users = {}
    /\ \E b \in cast.blocks :
           cast' = [cast EXCEPT !.blocks = @ \ {b}, !.viaBlock = @ \cup byBlock[b]]
    /\ UNCHANGED <<session, maps, member>>

\* getListenerForUser returns the first session of the user.
CollectFirst ==
    /\ Stage("collect")
    /\ cast.kind = "category"
    /\ LET all == byTeam[BoardTeam]
           own == {i \in DOMAIN all : user[all[i]] \in cast.ensured}
       IN cast' = [cast EXCEPT !.viaTeam = {all[i] : i \in {j \in own : \A k \in own : j <= k}},
                               !.stage = "write"]
    /\ UNCHANGED <<session, maps, member>>

CollectDone ==
    /\ Stage("collect")
    /\ cast.kind # "category" /\ cast.users = {} /\ cast.blocks = {}
    /\ cast' = [cast EXCEPT !.stage = "write"]
    /\ UNCHANGED <<session, maps, member>>

Addressees == (cast.viaTeam \cup cast.viaBlock) \ cast.got

\* Mutant: a failed write is tried again.
WriteOrRetry ==
    /\ Stage("write")
    /\ \E s \in Addressees :
           cast' = [cast EXCEPT !.got = IF phase[s] = "open" THEN @ \cup {s} ELSE @]
    /\ UNCHANGED <<session, maps, member>>

\* WriteJSON; on a broken connection it fails, and conn.Close changes nothing more.
Write ==
    /\ Stage("write")
    /\ \E s \in Addressees : cast' = [cast EXCEPT !.got = @ \cup {s}]
    /\ UNCHANGED <<session, maps, member>>

End ==
    /\ Stage("write")
    /\ Addressees = {}
    /\ cast' = NoCast
    /\ UNCHANGED <<session, maps, member>>

----------------------------------------------------------------------------
(* The board's members change in the store meanwhile.                        *)

Join == \E u \in User \ member : /\ member' = member \cup {u}
                                 /\ UNCHANGED <<session, maps, cast>>
Leave == \E u \in member : /\ member' = member \ {u}
                           /\ UNCHANGED <<session, maps, cast>>

\* A map that is read while it is written: the Go runtime may notice and throw.
Writes(s) ==
    (IF job[s].todo \cap Team # {} THEN {"byTeam"} ELSE {})
    \cup (IF job[s].todo \cap Block # {} THEN {"byBlock"} ELSE {})
Reads ==
    IF Stage("collect")
    THEN IF cast.users # {} \/ cast.kind = "category" THEN {"byTeam"} ELSE {"byBlock"}
    ELSE {}
Throw ==
    /\ mu # Free
    /\ Writes(mu) \cap Reads # {}
    /\ UNCHANGED <<session, maps, member, cast>>

----------------------------------------------------------------------------
\* The blocks whose subscribers are to hear of a change of a block: its own and
\* its parent's; of its deletion, its own.
Concerned ==
    CASE cast.kind = "change" -> {cast.of, Parent[cast.of]}
      [] cast.kind = "delete" -> {cast.of}
      [] OTHER                -> {}

\* The broadcast in progress is for the session, in this way.
Entitled(s, way) ==
    /\ phase[s] = "open"
    /\ IF way = "team"
       THEN /\ cast.kind # "category"
            /\ BoardTeam \in teams[s] /\ user[s] \in member \cup cast.ensured
       ELSE way \in Concerned \cap blocks[s]

\* The history variables: who was entitled throughout, who was ever meant.
Record ==
    /\ due' = IF cast' = NoCast THEN {}
              ELSE {d \in (IF cast = NoCast THEN Session \X Way ELSE due) :
                       Entitled(d[1], d[2])'}
    /\ heard' = IF cast' = NoCast THEN {}
                ELSE heard \cup member' \cup cast'.ensured

\* A step of the running program.
Do(A) == ~crashed /\ A /\ Record /\ UNCHANGED crashed
Crash == ~crashed /\ Throw /\ crashed' = TRUE /\ UNCHANGED <<due, heard>>

Handler(s) ==
    \/ Do(Connect(s))
    \/ Do(Authenticate(s))
    \/ Do(SubscribeTeam(s))
    \/ Do(UnsubscribeTeam(s))
    \/ Do(SubscribeBlocks(s))
    \/ Do(UnsubscribeBlocks(s))
    \/ Do(ReadError(s))
    \/ Do(Close(s))

Section(s) ==
    \/ Do(AddListener(s))
    \/ Do(AddToTeam(s))
    \/ Do(AddToBlock(s))
    \/ Do(RemoveFromTeam(s))
    \/ Do(RemoveFromBlock(s))
    \/ Do(RemoveListener(s))

BeginCast ==
    \/ Do(BroadcastBoard)
    \/ Do(BroadcastBlockChange)
    \/ Do(BroadcastBlockDelete)
    \/ Do(BroadcastLeave)
    \/ Do(BroadcastCategory)

GoOnCast ==
    \/ Do(ReadMembers)
    \/ Do(CollectUser)
    \/ Do(CollectBlock)
    \/ Do(CollectFirst)
    \/ Do(CollectDone)
    \/ Do(Write)
    \/ Do(End)

Next ==
    \/ \E s \in Session : Handler(s) \/ Section(s)
    \/ BeginCast
    \/ GoOnCast
    \/ Do(Join)
    \/ Do(Leave)
    \/ Crash

\* A goroutine in a critical section or a broadcast goes on; sync.RWMutex starves
\* nobody; and the frames that a closed connection still holds come to an end.
Fairness ==
    /\ \A s \in Session : WF_vars(Section(s)) /\ SF_vars(Do(ReadError(s)))
    /\ WF_vars(GoOnCast)

Spec == Init /\ [][Next]_vars /\ Fairness

----------------------------------------------------------------------------
\* A session's own lists and the server's maps name the same subscriptions, each
\* once, and a session that has returned is in none of the maps: whatever commands
\* it sent, and whenever its connection broke.
MapsAgree ==
    /\ \A t \in Team : IsInjective(byTeam[t])
    /\ \A s \in Session :
        /\ \A t \in Team : s \in Range(byTeam[t]) <=> t \in teams[s]
        /\ \A b \in Block : s \in byBlock[b] <=> b \in blocks[s]
        /\ phase[s] = "gone" => /\ s \notin listeners
                                /\ teams[s] = {} /\ blocks[s] = {}

\* What a broadcast sends by the team goes to sessions of users who were members of
\* the board during the broadcast, or who have just left it; authenticating, leaving
\* and subscribing while the listeners are collected do not change that.
MeantForThem ==
    cast # NoCast => \A s \in cast.viaTeam : user[s] \in heard

\* A session that stays open and entitled in one way from the beginning of a
\* broadcast to its end gets the message, whatever other sessions do meanwhile and
\* however many connections break: a subscriber of the block or, if the block was
\* not deleted, of its parent; and, unless the store fails to name the members, a
\* member who is subscribed to the team.
StayersServed ==
    [][cast # NoCast /\ cast' = NoCast =>
           \A d \in due : d[1] \in cast.got \/ (cast.failed /\ d[2] = "team")]_vars

\* Broken connections and changing subscriptions do not keep a broadcast, and so a
\* worker of the pool it runs on, from ending.
BroadcastEnds == cast # NoCast ~> cast = NoCast \/ crashed

\* A closed connection's session leaves every map in the end.
DeadSessionsLeave ==
    \A s \in Session : phase[s] = "closed" ~> phase[s] = "gone" \/ crashed

\* subscribeListenerToTeam and its siblings say they "safely" modify the server's
\* data structures: no broadcast makes the runtime throw.
NeverCrashes == ~crashed
============================================================================
