------------------------------ MODULE ClientSync ------------------------------
(***************************************************************************)
(* How a change of a block reaches the page of another user: the server's  *)
(* broadcast, the websocket client with its reconnection, team             *)
(* subscriptions and delayed batches (wsclient.ts), the board page that    *)
(* loads a board and merges what arrives (boardPage.tsx, store/).          *)
(*                                                                         *)
(* The browser is one thread: an action is one callback of it, the server  *)
(* (external here, WsServer has its details) and the network act between   *)
(* callbacks.                                                              *)
(***************************************************************************)
EXTENDS Naturals, Sequences, FiniteSets

CONSTANTS
    Block, Board, Team,
    KindOf, ParentOf,     \* of a block: its kind and parent
    BoardOf, TeamOf,      \* of a block its board, of a board its team
    First,                \* the blocks that exist at the start
    NoTeam,               \* the empty team id
    MaxRetries,           \* reopenMaxRetries
    MaxEdits, MaxLoads,   \* bounds of the model: changes, loads in progress,
    MaxFrames             \* commands on the connection

ASSUME SyncAssumption ==
    /\ First \subseteq Block /\ IsFiniteSet(First) /\ NoTeam \notin Team
    /\ KindOf \in [Block -> {"card", "view", "content", "comment", "attachment"}]
    /\ BoardOf \in [Block -> Board] /\ TeamOf \in [Board -> Team]
    /\ MaxRetries \in Nat /\ MaxEdits \in Nat /\ MaxLoads \in Nat \ {0}
    /\ MaxFrames \in Nat

VARIABLES
    rows,      \* the server's blocks: version and whether it is live
    outbox,    \* broadcasts that workers of the server have not yet sent
    served,    \* the teams that the client's session is subscribed to
    up, down,  \* frames on the connection, to and from the server
    link,      \* the state of the socket
    retries,   \* reopenRetryCount
    banner,    \* of WebsocketConnection: "hidden", "soon" (timer), "shown"
    subs,      \* subscriptions.Teams, how many components asked for a team
    team,      \* WSClient.teamId
    queued,    \* updatedData; its timer runs exactly when it holds something
    page,      \* the board of the page
    loads,     \* loadBoardData calls in progress
    store,     \* the slices of the Redux store
    given,     \* history: of each block, the version the store was last given
    missed,    \* history: blocks of which the client missed the last change
    edits      \* history: number of changes

INSTANCE BlockSlices
INSTANCE WsQueue

server == <<rows, outbox>>
socket == <<served, up, down, link, retries, banner>>
wsClient == <<subs, team, queued>>
vars == <<rows, outbox, served, up, down, link, retries, banner, subs, team,
          queued, page, loads, store, given, missed, edits>>

\* The components of a page that use useWebsockets: the page and the sidebar.
Components == 2

BlocksOf(b) == {x \in Block : BoardOf[x] = b}

Change(b, r) == [id |-> b, ver |-> r.ver, live |-> r.live]

\* What a reader of block b should see.
Wanted(b) == IF rows[b].live THEN rows[b].ver ELSE 0

\* A load is asked, then answered by the server with the live blocks, then its answer
\* arrives.  "seen" has the versions of all blocks the server saw when it answered,
\* "retry" says that the load was made after joinBoard.
Load(b, retry) == [board |-> b, phase |-> "asked", answer |-> NoMap,
                   seen |-> [x \in Block |-> 0], retry |-> retry]

\* What a set of changes, or of a batch's changes, means for the history.
Newest(c) == c.ver = rows[c.id].ver

Lost(changes) == {c.id : c \in {x \in changes : Newest(x)}}

Subscribe(t) == [action |-> "SUBSCRIBE_TEAM", team |-> t]
Unsubscribe(t) == [action |-> "UNSUBSCRIBE_TEAM", team |-> t]

Init ==
    /\ rows = [b \in Block |-> [ver |-> IF b \in First THEN 1 ELSE 0, live |-> b \in First]]
    /\ outbox = <<>> /\ edits = 0
    /\ served = {} /\ up = <<>> /\ down = <<>>
    /\ link = "connecting" /\ retries = 0 /\ banner = "hidden"
    /\ page \in Board
    /\ team = TeamOf[page]
    /\ subs = [t \in Team |-> IF t = team THEN Components ELSE 0]
    /\ queued = NoUpdates
    /\ loads = <<Load(page, FALSE)>>
    /\ store = EmptySlices /\ given = [b \in Block |-> 0]
    /\ missed = First

(***************************************************************************)
(* The server.                                                             *)
(***************************************************************************)

\* Another user inserts, patches, deletes or restores a block, and a broadcast
\* of what it is now is handed to the callback queue: the client may get this one.
Edit(b) ==
    /\ edits < MaxEdits
    /\ \E live \in BOOLEAN :
        /\ live \/ rows[b].live
        /\ rows' = [rows EXCEPT ![b] = [ver |-> @.ver + 1, live |-> live]]
    /\ outbox' = Append(outbox, Change(b, rows'[b]))
    /\ edits' = edits + 1
    /\ missed' = missed \ {b}
    /\ UNCHANGED <<socket, wsClient, page, loads, store, given>>

\* A worker of the queue sends the i-th broadcast; a later one may overtake it.
\* Only a session that is subscribed to the block's team gets it.
Broadcast(i) ==
    LET c    == outbox[i]
        t    == TeamOf[BoardOf[c.id]]
        told == link = "open" /\ t \in served
    IN  /\ outbox' = RemoveAt(outbox, i)
        /\ down' = IF told THEN Append(down, [team |-> t, block |-> c]) ELSE down
        /\ missed' = IF told THEN missed ELSE missed \cup Lost({c})
        /\ UNCHANGED <<rows, served, up, link, retries, banner, wsClient, page,
                       loads, store, given, edits>>

\* The session reads one command of the client.
Serve ==
    /\ link = "open" /\ up # <<>>
    /\ up' = Tail(up)
    /\ served' = IF Head(up).action = "SUBSCRIBE_TEAM" THEN served \cup {Head(up).team}
                 ELSE served \ {Head(up).team}
    /\ UNCHANGED <<server, down, link, retries, banner, wsClient, page, loads,
                   store, given, missed, edits>>

\* The server answers the i-th load with the blocks of its board.
Answer(i) ==
    /\ loads[i].phase = "asked"
    /\ loads' = [loads EXCEPT ![i].phase = "answered",
                     ![i].answer = [b \in {x \in BlocksOf(loads[i].board) : rows[x].live}
                                        |-> rows[b].ver],
                     ![i].seen = [b \in Block |-> IF BoardOf[b] = loads[i].board
                                                  THEN rows[b].ver ELSE 0]]
    /\ UNCHANGED <<server, socket, wsClient, page, store, given, missed, edits>>

(***************************************************************************)
(* The websocket client.                                                   *)
(***************************************************************************)

\* ws.onopen: the client authenticates and sends the subscriptions it has.
Opened ==
    /\ link = "connecting"
    /\ link' = "open" /\ retries' = 0 /\ banner' = "hidden"
    /\ up' = SetToSeq({Subscribe(t) : t \in {x \in Team : subs[x] > 0}})
    /\ UNCHANGED <<server, served, down, wsClient, page, loads, store, given, missed,
                   edits>>

\* ws.onclose: a connection attempt fails or the connection breaks, and with it
\* the server's session and the frames on the way.
Closed ==
    /\ link \in {"connecting", "open"}
    /\ link' = "closed"
    /\ banner' = IF banner = "hidden" THEN "soon" ELSE banner
    /\ served' = {} /\ up' = <<>> /\ down' = <<>>
    /\ missed' = missed \cup Lost({down[i].block : i \in DOMAIN down})
    /\ UNCHANGED <<server, retries, wsClient, page, loads, store, given, edits>>

\* Mutant: reopenRetryCount is not increased.
ReopenUncounted ==
    /\ link = "closed" /\ retries < MaxRetries
    /\ link' = "connecting"
    /\ UNCHANGED <<server, served, up, down, retries, banner, wsClient, page, loads,
                   store, given, missed, edits>>

\* The timer of reopenDelay.  The handlers of onReconnect dispatch initialLoad,
\* which asks for boards but not for blocks.
Reopen ==
    /\ link = "closed" /\ retries < MaxRetries
    /\ link' = "connecting" /\ retries' = retries + 1
    /\ UNCHANGED <<server, served, up, down, banner, wsClient, page, loads, store, given,
                   missed, edits>>

\* Five seconds after the last close; a close starts the timer again.
ShowBanner ==
    /\ banner = "soon"
    /\ banner' = "shown"
    /\ UNCHANGED <<server, served, up, down, link, retries, wsClient, page, loads,
                   store, given, missed, edits>>

\* ws.onmessage, updateHandler: a message for another team is ignored, any other
\* one joins the batch and starts its timer again.  A change in the batch is replaced by
\* a change of the same block, even by an older one.
Receive ==
    /\ link = "open" /\ down # <<>>
    /\ LET m == Head(down) IN
        IF m.team # team
        THEN /\ missed' = missed \cup Lost({m.block})
             /\ UNCHANGED queued
        ELSE /\ queued' = QueueUpdate(queued, "block", m.block)
             /\ missed' = missed \cup {c.id : c \in {x \in Range(queued.blocks) :
                                        x.id = m.block.id /\ x.ver > m.block.ver}}
    /\ down' = Tail(down)
    /\ UNCHANGED <<server, served, up, link, retries, banner, subs, team, page,
                   loads, store, given, edits>>

\* The batch's timer: the page's handler merges the blocks (incrementalBlockUpdate).
\* A reducer may leave a change out, and nothing keeps an older change from
\* following a newer one.
Flush ==
    LET batch == Range(queued.blocks) IN
    /\ batch # {}
    /\ store' = ApplyBatch(store, queued.blocks)
    /\ given' = [b \in Block |-> IF \E c \in batch : c.id = b
                                 THEN (CHOOSE c \in batch : c.id = b).ver ELSE given[b]]
    /\ missed' = (missed \ {c.id : c \in {x \in batch : Newest(x)}})
           \cup (UNION {LeftOut(k, store.listed[k], Share(k, queued.blocks)) : k \in ListedKinds})
           \cup {c.id : c \in {x \in batch : x.ver < given[x.id]}}
    /\ queued' = NoUpdates
    /\ UNCHANGED <<server, socket, subs, team, page, loads, edits>>

\* Mutant: only the first component of a team is counted.
JoinUncounted(s, t) ==
    [counts |-> [s.counts EXCEPT ![t] = 1],
     team   |-> IF s.counts[t] = 0 THEN t ELSE s.team,
     sent   |-> IF s.counts[t] = 0 THEN Append(s.sent, Subscribe(t)) ELSE s.sent]

\* subscribeToTeam and unsubscribeToTeam send a command only for the first and the
\* last component; on a connection that is not open the command is left to onopen.
Join(s, t) ==
    [counts |-> [s.counts EXCEPT ![t] = @ + 1],
     team   |-> IF s.counts[t] = 0 THEN t ELSE s.team,
     sent   |-> IF s.counts[t] = 0 THEN Append(s.sent, Subscribe(t)) ELSE s.sent]

Leave(s, t) ==
    [counts |-> [s.counts EXCEPT ![t] = @ - 1],
     team   |-> IF s.counts[t] = 1 /\ s.team = t THEN NoTeam ELSE s.team,
     sent   |-> IF s.counts[t] = 1 THEN Append(s.sent, Unsubscribe(t)) ELSE s.sent]

\* useWebsockets runs again: the component leaves the old team and joins the new one.
Move(s, from, to) == Join(Leave(s, from), to)

\* The page does so for every board, the sidebar only for another team.
MoveAll(s, from, to) ==
    IF from = to THEN Move(s, from, to) ELSE Move(Move(s, from, to), from, to)

\* The user opens another board; loadOrJoinBoard asks for its blocks.
Navigate(b) ==
    LET s == MoveAll([counts |-> subs, team |-> team, sent |-> <<>>],
                     TeamOf[page], TeamOf[b])
    IN  /\ b # page /\ Len(loads) < MaxLoads
        /\ Len(up) + Len(s.sent) <= MaxFrames
        /\ subs' = s.counts /\ team' = s.team
        /\ up' = IF link = "open" THEN up \o s.sent ELSE up
        /\ page' = b
        /\ loads' = Append(loads, Load(b, FALSE))
        /\ UNCHANGED <<server, served, down, link, retries, banner, queued, store, given,
                       missed, edits>>

(***************************************************************************)
(* The board page.                                                         *)
(***************************************************************************)

\* loadBoardData.fulfilled: the answer replaces what the store held, even by what is
\* older, and the blocks of the board that was loaded before are gone.  An answer
\* without blocks makes the page join the board and load once more.
Merge(i) ==
    LET l == loads[i] IN
    /\ store' = LoadSlices(l.answer) /\ given' = l.seen
    /\ loads' = IF l.answer = NoMap /\ ~l.retry
                THEN Append(RemoveAt(loads, i), Load(l.board, TRUE))
                ELSE RemoveAt(loads, i)
    /\ missed' = (missed \ {b \in Block : l.seen[b] = rows[b].ver})
                     \cup {b \in Block : l.seen[b] < given[b]}
    /\ UNCHANGED <<server, socket, wsClient, page, edits>>

Loaded(i) == loads[i].phase = "answered" /\ Merge(i)

\* A status other than 200 counts as an empty board (getBlocksWithPath).
LoadRefused(i) == loads[i].phase = "asked" /\ Merge(i)

\* The request itself fails: the thunk is rejected and the store keeps what it had.
LoadRejected(i) ==
    /\ loads' = RemoveAt(loads, i)
    /\ UNCHANGED <<server, socket, wsClient, page, store, given, missed, edits>>

Next ==
    \/ \E b \in Block : Edit(b)
    \/ \E i \in DOMAIN outbox : Broadcast(i)
    \/ Serve
    \/ \E i \in DOMAIN loads : Answer(i) \/ Loaded(i) \/ LoadRefused(i) \/ LoadRejected(i)
    \/ Opened \/ Closed \/ Reopen \/ ShowBanner
    \/ Receive \/ Flush
    \/ \E b \in Board : Navigate(b)

\* A connection attempt ends one way or the other, and the browser's timers fire.  The
\* banner's timer is started again by every failed attempt, so it is only sure to
\* fire when no attempt will follow.
Fairness ==
    /\ WF_vars(Reopen)
    /\ WF_vars(Opened \/ (link = "connecting" /\ Closed))
    /\ WF_vars(ShowBanner /\ link = "closed" /\ retries = MaxRetries)

Spec == Init /\ [][Next]_vars /\ Fairness

(***************************************************************************)
(* Properties.                                                             *)
(***************************************************************************)

\* Once nothing is on its way, the page shows every block of its board as the server
\* has it, unless one of these happened to the block's last change: no broadcast
\* of it reached the client, a reducer left it out, or an older version, of another
\* broadcast or of a load, came after it.  This is what queueUpdateNotification, the
\* delay, the reducers and a load of the board have to achieve in any order.
CaughtUp ==
    outbox = <<>> /\ down = <<>> /\ queued.blocks = <<>> /\ loads = <<>> =>
        \A b \in BlocksOf(page) \ missed : Shown(store, b) = Wanted(b)

\* However the user moves between boards and the connection breaks and comes
\* back, the client listens for the team of its page, and the server, once it has read
\* the client's commands, sends that team's messages and no other's.
ListensToItsTeam ==
    /\ team = TeamOf[page]
    /\ link = "open" /\ up = <<>> => served = {TeamOf[page]}

\* The user of a page without a connection sees it come back or is told of the
\* interruption: attempts to reconnect do not go on for ever in silence.
OutageIsReported == (link # "open") ~> (link = "open" \/ banner = "shown")
=============================================================================
