--------------------------- MODULE ClientSyncProofs ---------------------------
(***************************************************************************)
(* For every set of boards, teams and blocks, and however often the        *)
(* connection breaks: the client listens for the team of its page, and the *)
(* server, once it has read the client's commands, serves that team alone; *)
(* and once nothing is on its way, the page shows every block of its board *)
(* as the server has it, but for the blocks whose last change it missed.   *)
(***************************************************************************)
EXTENDS ClientSync, SequenceLemmas, FiniteSetTheorems

Command == [action : {"SUBSCRIBE_TEAM", "UNSUBSCRIBE_TEAM"}, team : Team]

(***************************************************************************)
(* What the server will serve once it has read the commands on the way:    *)
(* the last command about a team decides, or what it serves now.           *)
(***************************************************************************)
WillServe(srv, cmds, t) ==
    \/ t \in srv /\ \A i \in DOMAIN cmds : cmds[i].team # t
    \/ \E i \in DOMAIN cmds :
           /\ cmds[i] = Subscribe(t)
           /\ \A j \in DOMAIN cmds : j > i => cmds[j].team # t

LEMMA CommandType ==
    ASSUME NEW t \in Team
    PROVE  Subscribe(t) \in Command /\ Unsubscribe(t) \in Command
BY DEF Subscribe, Unsubscribe, Command

\* A command that is sent last decides about its team and no other.
LEMMA WillServeAppend ==
    ASSUME NEW srv, NEW cmds \in Seq(Command), NEW c \in Command, NEW t \in Team
    PROVE  WillServe(srv, Append(cmds, c), t) <=>
               IF c.team = t THEN c = Subscribe(t) ELSE WillServe(srv, cmds, t)
<1>. DEFINE d == Append(cmds, c)
            n == Len(cmds)
<1>1. /\ n \in Nat /\ DOMAIN cmds = 1 .. n /\ DOMAIN d = 1 .. (n + 1)
      /\ \A i \in 1 .. n : d[i] = cmds[i]
      /\ d[n + 1] = c
  BY LenProperties, AppendProperties
<1>2. \A i \in 1 .. (n + 1) : i \in 1 .. n \/ i = n + 1
  BY <1>1
<1>3. n + 1 \in 1 .. (n + 1) /\ \A i \in 1 .. n : i \in 1 .. (n + 1) /\ n + 1 > i
  BY <1>1
<1>4. ASSUME NEW x PROVE Subscribe(x).team = x
  BY DEF Subscribe
<1>. HIDE DEF d, n
<1>5. CASE c.team = t
  <2>1. \A j \in DOMAIN d : ~(j > n + 1)
    BY <1>1
  <2>. QED  BY <1>1, <1>2, <1>3, <1>5, <2>1 DEF WillServe, d
<1>6. CASE c.team # t
  BY <1>1, <1>2, <1>3, <1>4, <1>6 DEF WillServe, d
<1>. QED  BY <1>5, <1>6

\* Reading a command does not change what will be served in the end.
LEMMA WillServeTail ==
    ASSUME NEW srv, NEW cmds \in Seq(Command), cmds # <<>>, NEW t \in Team,
           NEW next, next = IF Head(cmds).action = "SUBSCRIBE_TEAM"
                            THEN srv \cup {Head(cmds).team} ELSE srv \ {Head(cmds).team}
    PROVE  WillServe(next, Tail(cmds), t) <=> WillServe(srv, cmds, t)
<1>. DEFINE d == Tail(cmds)
            n == Len(cmds)
            h == Head(cmds)
<1>1. /\ n \in Nat \ {0} /\ DOMAIN cmds = 1 .. n /\ DOMAIN d = 1 .. (n - 1)
      /\ \A i \in 1 .. (n - 1) : d[i] = cmds[i + 1]
      /\ h = cmds[1] /\ h \in Command
  BY EmptySeq, LenProperties, HeadTailProperties
<1>2. \A i \in 1 .. n : i = 1 \/ (i - 1 \in 1 .. (n - 1) /\ cmds[i] = d[i - 1])
  BY <1>1
<1>3. \A i \in 1 .. (n - 1) : i + 1 \in 1 .. n /\ i + 1 > 1
  BY <1>1
<1>4. 1 \in 1 .. n
  BY <1>1
<1>5. h.action = "SUBSCRIBE_TEAM" <=> h = Subscribe(h.team)
  BY <1>1 DEF Command, Subscribe
<1>6. \A i, j \in 1 .. n : i - 1 \in 1 .. (n - 1) /\ j - 1 \in 1 .. (n - 1)
                             => (j > i <=> j - 1 > i - 1)
  BY <1>1
<1>7. \A i, j \in 1 .. (n - 1) : j > i <=> j + 1 > i + 1
  BY <1>1
<1>8. next = IF h.action = "SUBSCRIBE_TEAM" THEN srv \cup {h.team} ELSE srv \ {h.team}
  OBVIOUS
<1>. HIDE DEF d, n, h
<1>9. (\A i \in DOMAIN cmds : cmds[i].team # t) <=>
          h.team # t /\ \A i \in DOMAIN d : d[i].team # t
  BY <1>1, <1>2, <1>3, <1>4
<1>10. (\E i \in DOMAIN cmds : /\ cmds[i] = Subscribe(t)
                               /\ \A j \in DOMAIN cmds : j > i => cmds[j].team # t) <=>
          \/ h = Subscribe(t) /\ \A i \in DOMAIN d : d[i].team # t
          \/ \E i \in DOMAIN d : /\ d[i] = Subscribe(t)
                                 /\ \A j \in DOMAIN d : j > i => d[j].team # t
  <2>1. ASSUME NEW i \in DOMAIN cmds, cmds[i] = Subscribe(t),
               \A j \in DOMAIN cmds : j > i => cmds[j].team # t
        PROVE  \/ h = Subscribe(t) /\ \A k \in DOMAIN d : d[k].team # t
               \/ \E k \in DOMAIN d : /\ d[k] = Subscribe(t)
                                      /\ \A j \in DOMAIN d : j > k => d[j].team # t
    <3>1. CASE i = 1
      BY <1>1, <1>3, <2>1, <3>1
    <3>2. CASE i # 1
      <4>1. i - 1 \in DOMAIN d /\ d[i - 1] = Subscribe(t) /\ i \in Int
        BY <1>1, <1>2, <2>1, <3>2
      <4>2. ASSUME NEW j \in DOMAIN d, j > i - 1
            PROVE  d[j].team # t
        <5>1. j + 1 \in DOMAIN cmds /\ j + 1 > i /\ d[j] = cmds[j + 1]
          BY <1>1, <1>3, <4>1, <4>2
        <5>. QED  BY <2>1, <5>1
      <4>. QED  BY <4>1, <4>2
    <3>. QED  BY <3>1, <3>2
  <2>2. ASSUME h = Subscribe(t), \A k \in DOMAIN d : d[k].team # t
        PROVE  \E i \in DOMAIN cmds : /\ cmds[i] = Subscribe(t)
                                      /\ \A j \in DOMAIN cmds : j > i => cmds[j].team # t
    <3>1. ASSUME NEW j \in DOMAIN cmds, j > 1
          PROVE  cmds[j].team # t
      <4>1. j # 1 /\ j \in 1 .. n
        BY <1>1, <3>1
      <4>. QED  BY <1>1, <1>2, <2>2, <4>1
    <3>. QED  BY <1>1, <1>4, <2>2, <3>1
  <2>3. ASSUME NEW k \in DOMAIN d, d[k] = Subscribe(t),
               \A j \in DOMAIN d : j > k => d[j].team # t
        PROVE  \E i \in DOMAIN cmds : /\ cmds[i] = Subscribe(t)
                                      /\ \A j \in DOMAIN cmds : j > i => cmds[j].team # t
    <3>1. k + 1 \in DOMAIN cmds /\ cmds[k + 1] = Subscribe(t) /\ k \in Int /\ k >= 1
      BY <1>1, <1>3, <2>3
    <3>2. ASSUME NEW j \in DOMAIN cmds, j > k + 1
          PROVE  cmds[j].team # t
      <4>1. j - 1 \in DOMAIN d /\ j - 1 > k /\ cmds[j] = d[j - 1]
        BY <1>1, <1>2, <3>1, <3>2
      <4>. QED  BY <2>3, <4>1
    <3>. QED  BY <3>1, <3>2
  <2>. QED  BY <2>1, <2>2, <2>3
<1>11. h = Subscribe(t) <=> h.action = "SUBSCRIBE_TEAM" /\ h.team = t
  BY <1>1 DEF Command, Subscribe
<1>12. t \in next <=> IF h.team = t THEN h.action = "SUBSCRIBE_TEAM" ELSE t \in srv
  BY <1>8
<1>. QED  BY <1>9, <1>10, <1>11, <1>12 DEF WillServe, d

(***************************************************************************)
(* The inductive invariant.  The components of the page are the only ones  *)
(* that listen, so the counts are those of the page's team alone; and on   *)
(* an open connection the commands on the way, after what the server does  *)
(* now, leave it serving that team and no other.                           *)
(***************************************************************************)
Counts(t) == [x \in Team |-> IF x = t THEN Components ELSE 0]

ListenInv ==
    /\ page \in Board
    /\ team = TeamOf[page] /\ subs = Counts(TeamOf[page])
    /\ served \subseteq Team /\ up \in Seq(Command)
    /\ link \in {"connecting", "open", "closed"}
    /\ link # "open" => served = {} /\ up = <<>>
    /\ link = "open" => \A t \in Team : WillServe(served, up, t) <=> t = TeamOf[page]

\* Both components move: the page leaves the old team and joins the new one while
\* the sidebar still listens to the old one, so that the order of the commands is
\* that of the last one out.
LEMMA MoveBoth ==
    ASSUME NEW from \in Team, NEW to \in Team,
           NEW s, s = [counts |-> Counts(from), team |-> from, sent |-> <<>>]
    PROVE  MoveAll(s, from, to) =
               [counts |-> Counts(to), team |-> to,
                sent   |-> IF from = to THEN <<>> ELSE <<Subscribe(to), Unsubscribe(from)>>]
<1>1. NoTeam \notin Team
  BY SyncAssumption
<1>2. CASE from = to
  <2>. DEFINE a == Leave(s, from)
  <2>1. /\ a.counts = [Counts(from) EXCEPT ![from] = 1]
        /\ a.team = from /\ a.sent = <<>>
    BY DEF Leave, Counts, Components
  <2>. HIDE DEF a
  <2>2. Join(a, to) = [counts |-> Counts(to), team |-> to, sent |-> <<>>]
    BY <1>2, <2>1 DEF Join, Counts, Components
  <2>. QED  BY <1>2, <2>2 DEF MoveAll, Move, a
<1>3. CASE from # to
  <2>. DEFINE a == Leave(s, from)
              b == Join(a, to)
              c == Leave(b, from)
              d == Join(c, to)
  <2>1. /\ a.counts = [x \in Team |-> IF x = from THEN 1 ELSE 0]
        /\ a.team = from /\ a.sent = <<>>
    BY DEF Leave, Counts, Components
  <2>. HIDE DEF a
  <2>2. /\ b.counts = [x \in Team |-> IF x = from \/ x = to THEN 1 ELSE 0]
        /\ b.team = to /\ b.sent = <<Subscribe(to)>>
    <3>1. a.counts[to] = 0
      BY <1>3, <2>1
    <3>2. Append(a.sent, Subscribe(to)) = <<Subscribe(to)>>
      BY <2>1, ShortSequences
    <3>3. [a.counts EXCEPT ![to] = @ + 1] = [x \in Team |-> IF x = from \/ x = to THEN 1 ELSE 0]
      BY <1>3, <2>1, <3>1
    <3>. QED  BY <2>1, <3>1, <3>2, <3>3 DEF Join
  <2>. HIDE DEF b
  <2>3. /\ c.counts = [x \in Team |-> IF x = to THEN 1 ELSE 0]
        /\ c.team = to /\ c.sent = <<Subscribe(to), Unsubscribe(from)>>
    <3>1. b.counts[from] = 1
      BY <2>2
    <3>2. Append(b.sent, Unsubscribe(from)) = <<Subscribe(to), Unsubscribe(from)>>
      BY <2>2, ShortSequences
    <3>3. [b.counts EXCEPT ![from] = @ - 1] = [x \in Team |-> IF x = to THEN 1 ELSE 0]
      BY <1>3, <2>2
    <3>. QED  BY <1>3, <2>2, <3>1, <3>2, <3>3 DEF Leave
  <2>. HIDE DEF c
  <2>4. d = [counts |-> Counts(to), team |-> to,
             sent   |-> <<Subscribe(to), Unsubscribe(from)>>]
    BY <1>3, <2>3 DEF Join, Counts, Components
  <2>. QED  BY <1>3, <2>4 DEF MoveAll, Move, a, b, c, d
<1>. QED  BY <1>2, <1>3

\* When the connection opens there is one team to subscribe to, and one command.
LEMMA OpenedSends ==
    ASSUME NEW t \in Team
    PROVE  SetToSeq({Subscribe(x) : x \in {y \in Team : Counts(t)[y] > 0}}) = <<Subscribe(t)>>
<1>1. {Subscribe(x) : x \in {y \in Team : Counts(t)[y] > 0}} = {Subscribe(t)}
  <2>1. {y \in Team : Counts(t)[y] > 0} = {t}
    BY DEF Counts, Components
  <2>. QED  BY <2>1
<1>. DEFINE S == {Subscribe(t)}
            f == SetToSeq(S)
<1>2. Cardinality(S) = 1
  BY FS_Singleton
<1>3. [i \in 1 .. 1 |-> Subscribe(t)] \in [1 .. 1 -> S]
      /\ IsInjective([i \in 1 .. 1 |-> Subscribe(t)])
  BY DEF IsInjective
<1>4. f \in [1 .. 1 -> S]
  BY <1>2, <1>3 DEF SetToSeq
<1>5. f = <<Subscribe(t)>>
  BY <1>4, ShortSequences
<1>. QED  BY <1>1, <1>5

LEMMA ListenInit == Init => ListenInv
<1>. SUFFICES ASSUME Init PROVE ListenInv
  OBVIOUS
<1>1. page \in Board /\ team = TeamOf[page] /\ link = "connecting" /\ served = {} /\ up = <<>>
  BY DEF Init
<1>2. subs = Counts(TeamOf[page])
  BY DEF Init, Counts
<1>. QED  BY <1>1, <1>2 DEF ListenInv

LEMMA ServeListens == ListenInv /\ Serve => ListenInv'
<1>. SUFFICES ASSUME ListenInv, Serve PROVE ListenInv'
  OBVIOUS
<1>1. up # <<>> /\ up \in Seq(Command) /\ link = "open" /\ served \subseteq Team
  BY DEF ListenInv, Serve
<1>2. UNCHANGED <<page, team, subs, link>> /\ up' = Tail(up)
  BY DEF Serve, wsClient
<1>3. served' = IF Head(up).action = "SUBSCRIBE_TEAM"
                THEN served \cup {Head(up).team} ELSE served \ {Head(up).team}
  BY DEF Serve
<1>4. Head(up) \in Command /\ up' \in Seq(Command)
  BY <1>1, <1>2, HeadTailProperties
<1>5. served' \subseteq Team
  BY <1>1, <1>3, <1>4 DEF Command
<1>6. ASSUME NEW t \in Team
      PROVE  WillServe(served', up', t) <=> WillServe(served, up, t)
  BY <1>1, <1>2, <1>3, WillServeTail
<1>. QED  BY <1>1, <1>2, <1>4, <1>5, <1>6 DEF ListenInv

LEMMA OpenedListens == ListenInv /\ Opened => ListenInv'
<1>. SUFFICES ASSUME ListenInv, Opened PROVE ListenInv'
  OBVIOUS
<1>. DEFINE now == TeamOf[page]
<1>1. now \in Team
  BY SyncAssumption DEF ListenInv
<1>2. UNCHANGED <<page, team, subs, served>> /\ link' = "open" /\ served = {}
  BY DEF Opened, wsClient, ListenInv
<1>3. up' = <<Subscribe(now)>>
  BY <1>1, OpenedSends DEF Opened, ListenInv
<1>4. up' \in Seq(Command)
  BY <1>1, <1>3, CommandType
<1>5. ASSUME NEW t \in Team
      PROVE  WillServe(served', up', t) <=> t = now
  BY <1>2, <1>3 DEF WillServe, Subscribe
<1>. QED  BY <1>2, <1>4, <1>5 DEF ListenInv

LEMMA NavigateListens ==
    ASSUME NEW b \in Board, ListenInv, Navigate(b)
    PROVE  ListenInv'
<1>. DEFINE from == TeamOf[page]
            to   == TeamOf[b]
            s    == MoveAll([counts |-> subs, team |-> team, sent |-> <<>>], from, to)
<1>1. from \in Team /\ to \in Team
  BY SyncAssumption DEF ListenInv
<1>2. s = [counts |-> Counts(to), team |-> to,
           sent   |-> IF from = to THEN <<>> ELSE <<Subscribe(to), Unsubscribe(from)>>]
  BY <1>1, MoveBoth DEF ListenInv
<1>3. /\ page' = b /\ subs' = s.counts /\ team' = s.team
      /\ up' = IF link = "open" THEN up \o s.sent ELSE up
      /\ UNCHANGED <<served, link>>
  BY DEF Navigate
<1>. HIDE DEF s
<1>4. /\ page' \in Board /\ team' = TeamOf[page'] /\ subs' = Counts(TeamOf[page'])
      /\ served' \subseteq Team /\ link' \in {"connecting", "open", "closed"}
  BY <1>2, <1>3 DEF ListenInv
<1>5. CASE link # "open" \/ from = to
  <2>1. up' = up
    BY <1>2, <1>3, <1>5, ConcatProperties DEF ListenInv
  <2>. QED  BY <1>3, <1>4, <1>5, <2>1 DEF ListenInv
<1>6. CASE link = "open" /\ from # to
  <2>. DEFINE one == Append(up, Subscribe(to))
              two == Append(one, Unsubscribe(from))
  <2>1. up \in Seq(Command) /\ Subscribe(to) \in Command /\ Unsubscribe(from) \in Command
    BY <1>1, CommandType DEF ListenInv
  <2>2. one \in Seq(Command) /\ two \in Seq(Command)
    BY <2>1, AppendProperties
  <2>3. up' = two
    BY <1>2, <1>3, <1>6, <2>1
  <2>. HIDE DEF one, two
  <2>4. Unsubscribe(from).team = from /\ Subscribe(to).team = to
        /\ Unsubscribe(from) # Subscribe(from)
    BY DEF Subscribe, Unsubscribe
  <2>5. ASSUME NEW t \in Team
        PROVE  WillServe(served, two, t) <=> t = to
    <3>1. WillServe(served, up, t) <=> t = from
      BY <1>6 DEF ListenInv
    <3>2. WillServe(served, one, t) <=> IF to = t THEN TRUE ELSE t = from
      BY <2>1, <2>4, <3>1, WillServeAppend DEF one
    <3>3. WillServe(served, two, t) <=> IF from = t THEN FALSE ELSE WillServe(served, one, t)
      BY <2>1, <2>2, <2>4, WillServeAppend DEF two
    <3>. QED  BY <1>6, <3>2, <3>3
  <2>. QED  BY <1>3, <1>4, <1>6, <2>2, <2>3, <2>5 DEF ListenInv
<1>. QED  BY <1>5, <1>6

\* Everything else leaves the subscriptions alone, or ends the connection.
LEMMA ListenStep == ListenInv /\ [Next]_vars => ListenInv'
<1>. SUFFICES ASSUME ListenInv, [Next]_vars PROVE ListenInv'
  OBVIOUS
<1>. DEFINE quiet == UNCHANGED <<page, team, subs, served, up>>
<1>1. ASSUME quiet, UNCHANGED link
      PROVE  ListenInv'
  BY <1>1 DEF ListenInv
<1>2. ASSUME NEW b \in Block, Edit(b)
      PROVE  ListenInv'
  BY <1>1, <1>2 DEF Edit, socket, wsClient
<1>3. ASSUME NEW i, Broadcast(i)
      PROVE  ListenInv'
  BY <1>1, <1>3 DEF Broadcast, wsClient
<1>4. ASSUME NEW i, Answer(i) \/ Loaded(i) \/ LoadRefused(i) \/ LoadRejected(i)
      PROVE  ListenInv'
  BY <1>1, <1>4 DEF Answer, Loaded, LoadRefused, LoadRejected, Merge, socket, wsClient
<1>5. CASE Serve
  BY <1>5, ServeListens
<1>6. CASE Opened
  BY <1>6, OpenedListens
<1>7. CASE Closed
  <2>1. /\ UNCHANGED <<page, team, subs>> /\ link' = "closed"
        /\ served' = {} /\ up' = <<>>
    BY <1>7 DEF Closed, wsClient
  <2>. QED  BY <2>1 DEF ListenInv
<1>8. CASE Reopen
  <2>1. quiet /\ link = "closed" /\ link' = "connecting"
    BY <1>8 DEF Reopen, wsClient
  <2>. QED  BY <2>1 DEF ListenInv
<1>9. CASE ShowBanner \/ Receive \/ Flush
  BY <1>1, <1>9 DEF ShowBanner, Receive, Flush, socket, wsClient
<1>10. ASSUME NEW b \in Board, Navigate(b)
       PROVE  ListenInv'
  BY <1>10, NavigateListens
<1>11. CASE UNCHANGED vars
  BY <1>1, <1>11 DEF vars
<1>. QED
  BY <1>2, <1>3, <1>4, <1>5, <1>6, <1>7, <1>8, <1>9, <1>10, <1>11 DEF Next

LEMMA ListenInvariant == Spec => []ListenInv
<1>. QED  BY ListenInit, ListenStep, PTL DEF Spec

\* However often the connection breaks, and wherever the user goes: the client
\* listens for the team of its page, and a server that has read the client's
\* commands serves that team alone.
THEOREM ListensCorrect == Spec => []ListensToItsTeam
<1>1. ListenInv => ListensToItsTeam
  <2>. SUFFICES ASSUME ListenInv PROVE ListensToItsTeam
    OBVIOUS
  <2>1. ASSUME link = "open", up = <<>>
        PROVE  served = {TeamOf[page]}
    <3>1. \A t \in Team : WillServe(served, up, t) <=> t \in served
      BY <2>1 DEF WillServe
    <3>2. served \subseteq Team /\ TeamOf[page] \in Team
      BY SyncAssumption DEF ListenInv
    <3>. QED  BY <2>1, <3>1, <3>2 DEF ListenInv
  <2>. QED  BY <2>1 DEF ListenInv, ListensToItsTeam
<1>. QED  BY <1>1, ListenInvariant, PTL

(***************************************************************************)
(* The slices of the store.                                                *)
(***************************************************************************)
Version == Nat
ChangeRec == [id : Block, ver : Version, live : BOOLEAN]

\* What the page should show of a block after the change c.
Value(c) == IF c.live THEN c.ver ELSE 0

Silent(changes, b) == \A i \in DOMAIN changes : changes[i].id # b

\* The functions from a part of D to R.
Partial(D, R) == UNION {[E -> R] : E \in SUBSET D}

Parents == {ParentOf[b] : b \in Block}

Lists == Seq(ChangeRec)
Map == Partial(Block, Version)
Slice == [byId : Map, byCard : Partial(Parents, Lists)]
Progress == [byId : Map, byCard : Partial(Parents, Lists),
             stop : BOOLEAN, taken : SUBSET Block]

Entries(l, p) == Range(ListOf(l, p))

ShownOf(l, b) == ShownInList(ListOf(l, ParentOf[b]), b)

\* A list holds blocks of its card that the slice knows, each in one version.
SliceOK(l) ==
    \A p \in Parents : \A e \in Entries(l, p) :
        /\ ParentOf[e.id] = p /\ e.id \in DOMAIN l.byId
        /\ \A d \in Entries(l, p) : d.id = e.id => d.ver = e.ver

\* r is what l becomes by the change c: the block is in the list of its card in its
\* new version, or no more if it is deleted, and other blocks are where they were.
Stepped(l, c, r) ==
    /\ r.byId \in Map /\ r.byCard \in Partial(Parents, Lists)
    /\ r.stop \in BOOLEAN /\ r.listed \in BOOLEAN /\ (r.listed \/ c.live)
    /\ \A b : b \in DOMAIN r.byId <=> IF b = c.id THEN c.live ELSE b \in DOMAIN l.byId
    /\ \A p \in Parents : p # ParentOf[c.id] => Entries(r, p) = Entries(l, p)
    /\ \A e : e \in Entries(r, ParentOf[c.id]) <=>
                  IF r.listed
                  THEN (e \in Entries(l, ParentOf[c.id]) /\ e.id # c.id) \/ (c.live /\ e = c)
                  ELSE e \in Entries(l, ParentOf[c.id])

\* A map stays one when an entry is put into it,
LEMMA PartialPut ==
    ASSUME NEW D, NEW R, NEW f \in Partial(D, R), NEW x \in D, NEW y \in R
    PROVE  Put(f, x, y) \in Partial(D, R)
<1>1. PICK E \in SUBSET D : f \in [E -> R]
  BY DEF Partial
<1>2. Put(f, x, y) \in [E \cup {x} -> R] /\ E \cup {x} \in SUBSET D
  BY <1>1 DEF Put
<1>. QED  BY <1>2 DEF Partial

\* and when one is dropped.
LEMMA PartialDrop ==
    ASSUME NEW D, NEW R, NEW f \in Partial(D, R), NEW x
    PROVE  Drop(f, x) \in Partial(D, R)
<1>1. PICK E \in SUBSET D : f \in [E -> R]
  BY DEF Partial
<1>2. Drop(f, x) \in [E \ {x} -> R] /\ E \ {x} \in SUBSET D
  BY <1>1 DEF Drop, Restrict
<1>. QED  BY <1>2 DEF Partial

\* What the page shows of a block in a list that has it in one version at most.
LEMMA ShownEntry ==
    ASSUME NEW list, NEW b,
           \A d, e \in Range(list) : d.id = e.id => d.ver = e.ver
    PROVE  /\ (\A e \in Range(list) : e.id # b) => ShownInList(list, b) = 0
           /\ \A e \in Range(list) : e.id = b => ShownInList(list, b) = e.ver
<1>1. ASSUME NEW e \in Range(list), e.id = b
      PROVE  ShownInList(list, b) = e.ver
  <2>1. PICK i \in DOMAIN list : list[i].id = b
    BY <1>1 DEF Range
  <2>. DEFINE j == CHOOSE k \in DOMAIN list : list[k].id = b
  <2>2. j \in DOMAIN list /\ list[j].id = b
    BY <2>1
  <2>3. list[j] \in Range(list)
    BY <2>2 DEF Range
  <2>4. ShownInList(list, b) = list[j].ver
    BY <2>1 DEF ShownInList, InList
  <2>. QED  BY <1>1, <2>2, <2>3, <2>4
<1>2. ASSUME \A e \in Range(list) : e.id # b
      PROVE  ShownInList(list, b) = 0
  BY <1>2 DEF Range, ShownInList, InList
<1>. QED  BY <1>1, <1>2

\* A list of a slice.
LEMMA ListType ==
    ASSUME NEW l, l.byCard \in Partial(Parents, Lists), NEW p
    PROVE  /\ ListOf(l, p) \in Seq(ChangeRec)
           /\ Entries(l, p) \subseteq ChangeRec
           /\ \A b : InList(ListOf(l, p), b) <=> \E e \in Entries(l, p) : e.id = b
<1>1. ListOf(l, p) \in Seq(ChangeRec)
  <2>1. PICK E \in SUBSET Parents : l.byCard \in [E -> Seq(ChangeRec)]
    BY DEF Partial, Lists
  <2>. QED  BY <2>1 DEF ListOf
<1>2. Entries(l, p) \subseteq ChangeRec
  BY <1>1, LenProperties, ElementOfSeq DEF Entries, Range
<1>. QED  BY <1>1, <1>2 DEF InList, Entries, Range

\* Replacing the entries of a block in a list.
LEMMA ReplacedEntries ==
    ASSUME NEW list \in Seq(ChangeRec), NEW c \in ChangeRec, InList(list, c.id),
           NEW kind
    PROVE  /\ Replaced(kind, list, c) \in Seq(ChangeRec)
           /\ Range(Replaced(kind, list, c)) =
                  IF kind = "attachment" THEN Range(list)
                  ELSE {e \in Range(list) : e.id # c.id} \cup {c}
<1>1. CASE kind = "attachment"
  BY <1>1 DEF Replaced
<1>2. CASE kind # "attachment"
  <2>. DEFINE new == [i \in DOMAIN list |-> IF list[i].id = c.id THEN c ELSE list[i]]
              n == Len(list)
  <2>1. n \in Nat /\ DOMAIN list = 1 .. n /\ \A i \in 1 .. n : list[i] \in ChangeRec
    BY LenProperties, ElementOfSeq
  <2>. HIDE DEF n
  <2>2. new \in [1 .. n -> ChangeRec]
    BY <2>1
  <2>3. new \in Seq(ChangeRec)
    BY <2>1, <2>2, SeqDef
  <2>4. DOMAIN new = DOMAIN list
    OBVIOUS
  <2>5. PICK k \in DOMAIN list : list[k].id = c.id
    BY DEF InList
  <2>6. Range(new) = {e \in Range(list) : e.id # c.id} \cup {c}
    BY <2>4, <2>5 DEF Range
  <2>. QED  BY <1>2, <2>3, <2>6 DEF Replaced
<1>. QED  BY <1>1, <1>2

\* A live change.
LEMMA KeepSteps ==
    ASSUME NEW kind, NEW l, l.byId \in Map, l.byCard \in Partial(Parents, Lists),
           NEW c \in ChangeRec, c.live
    PROVE  Stepped(l, c, KeepListed(kind, l, c))
<1>. DEFINE r    == KeepListed(kind, l, c)
            p    == ParentOf[c.id]
            list == ListOf(l, p)
            seen == InList(list, c.id)
            new  == IF seen THEN Replaced(kind, list, c) ELSE Append(list, c)
<1>1. c.id \in Block /\ c.ver \in Version /\ p \in Parents
  BY DEF ChangeRec, Parents
<1>2. /\ r.byId = Put(l.byId, c.id, c.ver) /\ r.byCard = Put(l.byCard, p, new)
      /\ r.stop = (p \notin DOMAIN l.byCard \/ (seen /\ kind = "comment"))
      /\ r.listed = ~(seen /\ kind = "attachment")
  BY DEF KeepListed
<1>3. list \in Seq(ChangeRec) /\ (seen <=> \E e \in Entries(l, p) : e.id = c.id)
      /\ Range(list) = Entries(l, p)
  BY ListType DEF Entries
<1>4. /\ new \in Seq(ChangeRec)
      /\ r.listed => Range(new) = {e \in Entries(l, p) : e.id # c.id} \cup {c}
      /\ ~r.listed => Range(new) = Entries(l, p)
  <2>1. CASE seen
    <3>. HIDE DEF list
    <3>1. new \in Seq(ChangeRec) /\ Range(new) =
              IF kind = "attachment" THEN Range(list) ELSE {e \in Range(list) : e.id # c.id} \cup {c}
      BY <1>3, <2>1, ReplacedEntries
    <3>. QED  BY <1>2, <1>3, <2>1, <3>1
  <2>2. CASE ~seen
    <3>. HIDE DEF list
    <3>1. new = Append(list, c)
      BY <2>2
    <3>2. Append(list, c) \in Seq(ChangeRec) /\ Range(Append(list, c)) = Range(list) \cup {c}
      BY <1>3, AppendNew, AppendProperties
    <3>. HIDE DEF new
    <3>. QED  BY <1>2, <1>3, <2>2, <3>1, <3>2
  <2>. QED  BY <2>1, <2>2
<1>. SUFFICES Stepped(l, c, r)
  OBVIOUS
<1>. HIDE DEF r, p, new, list, seen
<1>5. r.byId \in Map /\ DOMAIN r.byId = DOMAIN l.byId \cup {c.id}
  <2>1. Put(l.byId, c.id, c.ver) \in Map
    BY <1>1, PartialPut DEF Map
  <2>2. DOMAIN Put(l.byId, c.id, c.ver) = DOMAIN l.byId \cup {c.id}
    BY DEF Put
  <2>. QED  BY <1>2, <2>1, <2>2
<1>8. new \in Lists
  BY <1>4 DEF Lists
<1>6. /\ r.byCard \in Partial(Parents, Lists)
      /\ DOMAIN r.byCard = DOMAIN l.byCard \cup {p}
      /\ r.byCard[p] = new
      /\ \A z \in DOMAIN l.byCard : z # p => r.byCard[z] = l.byCard[z]
  <2>1. Put(l.byCard, p, new) \in Partial(Parents, Lists)
    BY <1>1, <1>8, PartialPut
  <2>2. /\ DOMAIN Put(l.byCard, p, new) = DOMAIN l.byCard \cup {p}
      /\ Put(l.byCard, p, new)[p] = new
      /\ \A z \in DOMAIN l.byCard : z # p => Put(l.byCard, p, new)[z] = l.byCard[z]
    BY DEF Put
  <2>. QED  BY <1>2, <2>1, <2>2
<1>7. ListOf(r, p) = new /\ \A z \in Parents : z # p => ListOf(r, z) = ListOf(l, z)
  BY <1>6 DEF ListOf
<1>9. /\ r.stop \in BOOLEAN /\ r.listed \in BOOLEAN
      /\ \A e : e \in Entries(r, p) <=>
                 IF r.listed THEN (e \in Entries(l, p) /\ e.id # c.id) \/ e = c
                 ELSE e \in Entries(l, p)
  BY <1>2, <1>4, <1>7 DEF Entries
<1>10. \A q \in Parents : q # p => Entries(r, q) = Entries(l, q)
  BY <1>7 DEF Entries
<1>11. \A b : b \in DOMAIN r.byId <=> IF b = c.id THEN c.live ELSE b \in DOMAIN l.byId
  BY <1>5
<1>. QED  BY <1>5, <1>6, <1>9, <1>10, <1>11  DEF Stepped, p

\* A deletion.
LEMMA DropSteps ==
    ASSUME NEW l, l.byId \in Map, l.byCard \in Partial(Parents, Lists), SliceOK(l),
           NEW c \in ChangeRec, ~c.live
    PROVE  Stepped(l, c, DropListed(l, c))
<1>. DEFINE r     == DropListed(l, c)
            p     == ParentOf[c.id]
            known == c.id \in DOMAIN l.byId /\ p \in DOMAIN l.byCard
            new   == Selected(l.byCard[p], {e \in Range(l.byCard[p]) : e.id # c.id})
<1>1. c.id \in Block /\ p \in Parents
  BY DEF ChangeRec, Parents
<1>2. /\ r.byId = Drop(l.byId, c.id)
      /\ r.byCard = IF known THEN Put(l.byCard, p, new) ELSE l.byCard
      /\ r.stop = ~known /\ r.listed = TRUE
  BY DEF DropListed
<1>. SUFFICES Stepped(l, c, r)
  OBVIOUS
<1>. HIDE DEF r, p, known, new
<1>3. r.byId \in Map /\ DOMAIN r.byId = DOMAIN l.byId \ {c.id}
  <2>1. Drop(l.byId, c.id) \in Map
    BY PartialDrop DEF Map
  <2>2. DOMAIN Drop(l.byId, c.id) = DOMAIN l.byId \ {c.id}
    BY DEF Drop, Restrict
  <2>. QED  BY <1>2, <2>1, <2>2
<1>4. CASE known
  <2>1. l.byCard[p] \in Seq(ChangeRec) /\ Range(l.byCard[p]) = Entries(l, p)
    BY <1>4, ListType DEF Entries, ListOf, known
  <2>2. new \in Seq(ChangeRec) /\ Range(new) = {e \in Entries(l, p) : e.id # c.id}
    BY <2>1, SelectedProperties DEF new
  <2>5. new \in Lists
    BY <2>2 DEF Lists
  <2>3. /\ r.byCard \in Partial(Parents, Lists)
        /\ DOMAIN r.byCard = DOMAIN l.byCard \cup {p}
        /\ r.byCard[p] = new
        /\ \A z \in DOMAIN l.byCard : z # p => r.byCard[z] = l.byCard[z]
    <3>1. Put(l.byCard, p, new) \in Partial(Parents, Lists)
      BY <1>1, <2>5, PartialPut
    <3>2. /\ DOMAIN Put(l.byCard, p, new) = DOMAIN l.byCard \cup {p}
        /\ Put(l.byCard, p, new)[p] = new
        /\ \A z \in DOMAIN l.byCard : z # p => Put(l.byCard, p, new)[z] = l.byCard[z]
      BY DEF Put
    <3>. QED  BY <1>2, <1>4, <3>1, <3>2
  <2>4. ListOf(r, p) = new /\ \A z \in Parents : z # p => ListOf(r, z) = ListOf(l, z)
    BY <2>3 DEF ListOf
  <2>6. \A e : e \in Entries(r, p) <=> e \in Entries(l, p) /\ e.id # c.id
    BY <2>2, <2>4 DEF Entries
  <2>7. \A q \in Parents : q # p => Entries(r, q) = Entries(l, q)
    BY <2>4 DEF Entries
  <2>8. \A b : b \in DOMAIN r.byId <=> IF b = c.id THEN c.live ELSE b \in DOMAIN l.byId
    BY <1>3
  <2>. QED  BY <1>2, <1>3, <2>3, <2>6, <2>7, <2>8  DEF Stepped, p
<1>5. CASE ~known
  <2>1. r.byCard = l.byCard /\ \A z \in Parents : Entries(r, z) = Entries(l, z)
    BY <1>2, <1>5 DEF Entries, ListOf
  <2>2. \A e \in Entries(l, p) : e.id # c.id
    <3>1. CASE c.id \notin DOMAIN l.byId
      BY <1>1, <3>1 DEF SliceOK
    <3>2. CASE p \notin DOMAIN l.byCard
      <4>1. ListOf(l, p) = <<>>
        BY <3>2 DEF ListOf
      <4>. QED  BY <4>1 DEF Entries, Range
    <3>. QED  BY <1>5, <3>1, <3>2 DEF known
  <2>3. \A e : e \in Entries(r, p) <=> e \in Entries(l, p) /\ e.id # c.id
    BY <1>1, <2>1, <2>2
  <2>4. \A b : b \in DOMAIN r.byId <=> IF b = c.id THEN c.live ELSE b \in DOMAIN l.byId
    BY <1>3
  <2>. QED  BY <1>2, <1>3, <2>1, <2>3, <2>4  DEF Stepped, p
<1>. QED  BY <1>4, <1>5

\* One round of a reducer's loop.
Applied(a, c, r) ==
    /\ r \in Progress /\ SliceOK(r)
    /\ r.taken = a.taken \/ r.taken = a.taken \cup {c.id}
    /\ \A b \in Block : b # c.id => ShownOf(r, b) = ShownOf(a, b)
    /\ c.id \in r.taken /\ c.id \notin a.taken => ShownOf(r, c.id) = Value(c)

\* One round of the loop over a slice in order leaves it so.
LEMMA StepShows ==
    ASSUME NEW kind, NEW a \in Progress, SliceOK(a), NEW c \in ChangeRec,
           NEW r, r = StepListed(kind, a, c)
    PROVE  Applied(a, c, r)
<1>1. CASE a.stop
  <2>1. r = a
    BY <1>1 DEF StepListed
  <2>. QED  BY <2>1 DEF Applied
<1>2. CASE ~a.stop
  <2>. DEFINE s == IF c.live THEN KeepListed(kind, a, c) ELSE DropListed(a, c)
              p == ParentOf[c.id]
  <2>1. r = [byId |-> s.byId, byCard |-> s.byCard, stop |-> s.stop,
             taken |-> IF s.listed THEN a.taken \cup {c.id} ELSE a.taken]
    BY <1>2 DEF StepListed
  <2>2. a.byId \in Map /\ a.byCard \in Partial(Parents, Lists) /\ a.taken \subseteq Block
        /\ c.id \in Block /\ c.live \in BOOLEAN /\ p \in Parents
    BY DEF Progress, ChangeRec, Parents
  <2>3. Stepped(a, c, s)
    BY <2>2, KeepSteps, DropSteps
  <2>. HIDE DEF s
  <2>4. r \in Progress
    BY <2>1, <2>2, <2>3 DEF Progress, Stepped
  <2>5. \A q : Entries(r, q) = Entries(s, q)
    BY <2>1 DEF Entries, ListOf
  <2>6. \A q \in Parents : Entries(r, q) \subseteq ChangeRec /\ Entries(a, q) \subseteq ChangeRec
    BY <2>2, <2>4, ListType DEF Progress
  <2>7. SliceOK(r)
    <3>. SUFFICES ASSUME NEW q \in Parents, NEW e \in Entries(r, q)
                  PROVE  /\ ParentOf[e.id] = q /\ e.id \in DOMAIN r.byId
                         /\ \A d \in Entries(r, q) : d.id = e.id => d.ver = e.ver
      BY DEF SliceOK
    <3>1. \A x \in Entries(a, q) : /\ ParentOf[x.id] = q /\ x.id \in DOMAIN a.byId
                                   /\ \A d \in Entries(a, q) : d.id = x.id => d.ver = x.ver
      BY DEF SliceOK
    <3>2. CASE q # p
      <4>1. Entries(r, q) = Entries(a, q)
        BY <2>3, <2>5, <3>2 DEF Stepped
      <4>2. e.id # c.id
        BY <3>1, <3>2, <4>1
      <4>. QED  BY <2>1, <2>3, <3>1, <4>1, <4>2 DEF Stepped
    <3>3. CASE q = p
      <4>1. \A x : x \in Entries(r, q) <=>
                IF s.listed THEN (x \in Entries(a, q) /\ x.id # c.id) \/ (c.live /\ x = c)
                ELSE x \in Entries(a, q)
        BY <2>3, <2>5, <3>3 DEF Stepped
      <4>2. \A b : b \in DOMAIN r.byId <=> IF b = c.id THEN c.live ELSE b \in DOMAIN a.byId
        BY <2>1, <2>3 DEF Stepped
      <4>3. s.listed \/ c.live
        BY <2>3 DEF Stepped
      <4>. QED  BY <3>1, <3>3, <4>1, <4>2, <4>3
    <3>. QED  BY <3>2, <3>3
  <2>8. \A x \in {a, r} : \A q \in Parents : \A d, e \in Range(ListOf(x, q)) : d.id = e.id => d.ver = e.ver
    BY <2>7 DEF SliceOK, Entries
  <2>9. ASSUME NEW b \in Block, b # c.id
        PROVE  ShownOf(r, b) = ShownOf(a, b)
    <3>. DEFINE q == ParentOf[b]
    <3>1. q \in Parents
      BY DEF Parents
    <3>2. \A e : e.id = b => (e \in Entries(r, q) <=> e \in Entries(a, q))
      <4>1. CASE q = p
        BY <2>3, <2>5, <2>9, <4>1 DEF Stepped
      <4>2. CASE q # p
        <5>1. Entries(s, q) = Entries(a, q) /\ Entries(r, q) = Entries(s, q)
          BY <2>3, <2>5, <3>1, <4>2 DEF Stepped
        <5>. QED  BY <5>1
      <4>. QED  BY <4>1, <4>2
    <3>3. CASE \E e \in Entries(a, q) : e.id = b
      <4>1. PICK e \in Entries(a, q) : e.id = b
        BY <3>3
      <4>2. e \in Entries(r, q)
        BY <3>2, <4>1
      <4>3. ShownInList(ListOf(r, q), b) = e.ver /\ ShownInList(ListOf(a, q), b) = e.ver
        BY <2>8, <3>1, <4>1, <4>2, ShownEntry DEF Entries
      <4>. QED  BY <4>3 DEF ShownOf
    <3>4. CASE ~ \E e \in Entries(a, q) : e.id = b
      <4>1. /\ \A e \in Range(ListOf(a, q)) : e.id # b
            /\ \A e \in Range(ListOf(r, q)) : e.id # b
        BY <3>2, <3>4 DEF Entries
      <4>2. ShownInList(ListOf(r, q), b) = 0 /\ ShownInList(ListOf(a, q), b) = 0
        BY <2>8, <3>1, <4>1, ShownEntry
      <4>. QED  BY <4>2 DEF ShownOf
    <3>. QED  BY <3>3, <3>4
  <2>10. ASSUME c.id \in r.taken, c.id \notin a.taken
         PROVE  ShownOf(r, c.id) = Value(c)
    <3>1. s.listed
      BY <2>1, <2>3, <2>10
    <3>2. CASE c.live
      <4>1. c \in Entries(r, p)
        BY <2>3, <2>5, <3>1, <3>2 DEF Stepped
      <4>. QED  BY <2>2, <2>8, <3>2, <4>1, ShownEntry DEF ShownOf, Value, Entries
    <3>3. CASE ~c.live
      <4>1. \A e \in Entries(r, p) : e.id # c.id
        BY <2>3, <2>5, <3>1, <3>3 DEF Stepped
      <4>. QED  BY <2>2, <2>8, <3>3, <4>1, ShownEntry DEF ShownOf, Value, Entries
    <3>. QED  BY <3>2, <3>3
  <2>11. r.taken = a.taken \/ r.taken = a.taken \cup {c.id}
    BY <2>1
  <2>. QED  BY <2>4, <2>7, <2>9, <2>10, <2>11 DEF Applied
<1>. QED  BY <1>1, <1>2

\* r is what the changes ch make of the slice l, as far as its loop took them.
Merged(l, ch, r) ==
    /\ r \in Progress /\ SliceOK(r)
    /\ \A b \in Block : Silent(ch, b) => ShownOf(r, b) = ShownOf(l, b)
    /\ \A i \in DOMAIN ch : ch[i].id \in r.taken => ShownOf(r, ch[i].id) = Value(ch[i])

\* What a reducer's loop makes of a slice.
LEMMA RunShows ==
    ASSUME NEW kind, NEW l, l.byId \in Map, l.byCard \in Partial(Parents, Lists), SliceOK(l),
           NEW ch \in Seq(ChangeRec), Distinct(ch),
           NEW r, r = RunListed(kind, l, ch)
    PROVE  Merged(l, ch, r)
<1>. DEFINE n == Len(ch)
            start == [byId |-> l.byId, byCard |-> l.byCard, stop |-> FALSE, taken |-> {}]
            f == CHOOSE g : g = [i \in 0 .. n |-> IF i = 0 THEN start
                                                  ELSE StepListed(kind, g[i - 1], ch[i])]
            A == {a \in Progress : SliceOK(a)}
            step == [i \in 1 .. n |-> [a \in A |-> StepListed(kind, a, ch[i])]]
<1>1. n \in Nat /\ DOMAIN ch = 1 .. n /\ \A i \in 1 .. n : ch[i] \in ChangeRec
  BY LenProperties, ElementOfSeq
<1>2. r = f[n]
  BY DEF RunListed
<1>. HIDE DEF n
<1>3. start \in A /\ \A b : ShownOf(start, b) = ShownOf(l, b)
  <2>1. start \in Progress
    BY DEF Progress
  <2>2. \A p : ListOf(start, p) = ListOf(l, p)
    BY DEF ListOf
  <2>3. start.byId = l.byId
    OBVIOUS
  <2>. HIDE DEF start
  <2>4. SliceOK(start)
    BY <2>2, <2>3 DEF SliceOK, Entries
  <2>. QED  BY <2>1, <2>2, <2>4 DEF ShownOf
<1>. HIDE DEF start
<1>4. \A i \in 1 .. n : \A a \in A : StepListed(kind, a, ch[i]) \in A
  BY <1>1, StepShows DEF Applied
<1>5. /\ f[0] = start
      /\ \A i \in 1 .. n : f[i] = StepListed(kind, f[i - 1], ch[i])
  <2>1. step \in [1 .. n -> [A -> A]]
    BY <1>4
  <2>2. \A i \in 1 .. n : \A a \in A : step[i][a] = StepListed(kind, a, ch[i])
    OBVIOUS
  <2>. HIDE DEF A, step
  <2>3. PICK g : Iterates(g, n, A, start, step)
    BY <1>1, <1>3, <2>1, Iteration
  <2>4. g \in [0 .. n -> A] /\ \A i \in 0 .. n : g[i] = IF i = 0 THEN start ELSE step[i][g[i - 1]]
    BY <2>3 DEF Iterates
  <2>5. \A i \in 0 .. n : i # 0 => i \in 1 .. n /\ i - 1 \in 0 .. n
    BY <1>1
  <2>6. g = [i \in 0 .. n |-> IF i = 0 THEN start ELSE StepListed(kind, g[i - 1], ch[i])]
    BY <2>2, <2>4, <2>5
  <2>7. f = [i \in 0 .. n |-> IF i = 0 THEN start ELSE StepListed(kind, f[i - 1], ch[i])]
    BY <2>6
  <2>. HIDE DEF f
  <2>8. 0 \in 0 .. n /\ \A i \in 1 .. n : i \in 0 .. n /\ i # 0
    BY <1>1
  <2>. QED  BY <2>7, <2>8
<1>. HIDE DEF f
<1>. DEFINE P(i) ==
        /\ f[i] \in Progress /\ SliceOK(f[i])
        /\ f[i].taken \subseteq {ch[j].id : j \in 1 .. i}
        /\ \A b \in Block : (\A j \in 1 .. i : ch[j].id # b) => ShownOf(f[i], b) = ShownOf(l, b)
        /\ \A j \in 1 .. i : ch[j].id \in f[i].taken => ShownOf(f[i], ch[j].id) = Value(ch[j])
            G == {i \in 0 .. n : P(i)}
<1>6. 0 \in G
  <2>1. f[0].taken = {}
    BY <1>5 DEF start
  <2>2. P(0)
    BY <1>3, <1>5, <2>1
  <2>. QED  BY <1>1, <2>2
<1>. HIDE DEF G
<1>7. ASSUME NEW m \in 0 .. n, m # 0, m - 1 \in G
      PROVE  m \in G
  <2>. DEFINE a == f[m - 1]
              z == f[m]
              c == ch[m]
  <2>1. m \in 1 .. n
    BY <1>1, <1>7
  <2>2. P(m - 1)
    BY <1>7 DEF G
  <2>3. a \in Progress /\ SliceOK(a) /\ c \in ChangeRec /\ z = StepListed(kind, a, c)
    BY <1>1, <1>5, <2>1, <2>2
  <2>. HIDE DEF a, z, c
  <2>4. /\ z \in Progress /\ SliceOK(z)
        /\ z.taken = a.taken \/ z.taken = a.taken \cup {c.id}
        /\ \A b \in Block : b # c.id => ShownOf(z, b) = ShownOf(a, b)
        /\ c.id \in z.taken /\ c.id \notin a.taken => ShownOf(z, c.id) = Value(c)
    <3>1. Applied(a, c, z)
      BY <2>3, StepShows
    <3>. QED  BY <3>1 DEF Applied
  <2>5. \A j \in 1 .. m : j = m \/ j \in 1 .. (m - 1)
    BY <2>1
  <2>6. \A j \in 1 .. (m - 1) : j \in 1 .. m /\ j \in 1 .. n /\ j # m /\ ch[j].id # c.id
    <3>1. \A j \in 1 .. (m - 1) : j \in 1 .. m /\ j \in 1 .. n /\ j # m
      BY <1>1, <2>1
    <3>. QED  BY <1>1, <2>1, <3>1 DEF Distinct, c
  <2>7. c.id \notin a.taken /\ c.id \in Block /\ \A j \in 1 .. n : ch[j].id \in Block
    BY <1>1, <2>2, <2>3, <2>6 DEF a, ChangeRec
  <2>8. z.taken \subseteq {ch[j].id : j \in 1 .. m}
    BY <2>1, <2>2, <2>4, <2>6 DEF a, c
  <2>9. ASSUME NEW b \in Block, \A j \in 1 .. m : ch[j].id # b
        PROVE  ShownOf(z, b) = ShownOf(l, b)
    <3>1. b # c.id
      BY <2>1, <2>9 DEF c
    <3>2. \A j \in 1 .. (m - 1) : ch[j].id # b
      BY <2>6, <2>9
    <3>. QED  BY <2>2, <2>4, <3>1, <3>2 DEF a
  <2>10. ASSUME NEW j \in 1 .. m, ch[j].id \in z.taken
         PROVE  ShownOf(z, ch[j].id) = Value(ch[j])
    <3>1. CASE j = m
      BY <2>4, <2>7, <2>10, <3>1 DEF c
    <3>2. CASE j # m
      <4>1. j \in 1 .. (m - 1)
        BY <2>5, <3>2
      <4>2. ch[j].id # c.id /\ ch[j].id \in Block
        BY <2>6, <2>7, <4>1
      <4>3. ch[j].id \in a.taken
        BY <2>4, <2>10, <4>2
      <4>. QED  BY <2>2, <2>4, <4>1, <4>2, <4>3 DEF a
    <3>. QED  BY <3>1, <3>2
  <2>. QED  BY <2>1, <2>4, <2>8, <2>9, <2>10 DEF G, z
<1>8. P(n)
  <2>1. G \in SUBSET (0 .. n)
    BY DEF G
  <2>2. \A i \in 0 .. n : i \in G
    BY <1>1, <1>6, <1>7, <2>1, Reaches
  <2>3. n \in 0 .. n
    BY <1>1
  <2>. QED  BY <2>2, <2>3 DEF G
<1>. QED  BY <1>1, <1>2, <1>8 DEF Silent, Merged

\* The same for the maps of cards and views.
LEMMA MapShows ==
    ASSUME NEW map \in Map, NEW ch \in Seq(ChangeRec), Distinct(ch),
           NEW r, r = UpdateMap(map, ch)
    PROVE  /\ r \in Map
           /\ \A b \in Block : Silent(ch, b) => ShownInMap(r, b) = ShownInMap(map, b)
           /\ \A i \in DOMAIN ch : ShownInMap(r, ch[i].id) = Value(ch[i])
<1>. DEFINE n == Len(ch)
            f == CHOOSE g : g = [i \in 0 .. n |-> IF i = 0 THEN map
                                                  ELSE StepMap(g[i - 1], ch[i])]
            step == [i \in 1 .. n |-> [a \in Map |-> StepMap(a, ch[i])]]
<1>1. n \in Nat /\ DOMAIN ch = 1 .. n /\ \A i \in 1 .. n : ch[i] \in ChangeRec
  BY LenProperties, ElementOfSeq
<1>2. r = f[n]
  BY DEF UpdateMap
<1>. HIDE DEF n
<1>3. ASSUME NEW a \in Map, NEW c \in ChangeRec
      PROVE  /\ StepMap(a, c) \in Map
             /\ \A b : b # c.id => ShownInMap(StepMap(a, c), b) = ShownInMap(a, b)
             /\ ShownInMap(StepMap(a, c), c.id) = Value(c)
  <2>1. c.id \in Block /\ c.ver \in Version /\ c.live \in BOOLEAN
    BY DEF ChangeRec
  <2>2. Put(a, c.id, c.ver) \in Map /\ Drop(a, c.id) \in Map
    BY <2>1, PartialPut, PartialDrop DEF Map
  <2>3. CASE c.live
    <3>1. StepMap(a, c) = Put(a, c.id, c.ver)
      BY <2>3 DEF StepMap
    <3>. QED  BY <2>2, <2>3, <3>1 DEF ShownInMap, Put, Value
  <2>4. CASE ~c.live
    <3>1. StepMap(a, c) = Drop(a, c.id)
      BY <2>4 DEF StepMap
    <3>. QED  BY <2>2, <2>4, <3>1 DEF ShownInMap, Drop, Restrict, Value
  <2>. QED  BY <2>3, <2>4
<1>4. \A i \in 1 .. n : \A a \in Map : StepMap(a, ch[i]) \in Map
  BY <1>1, <1>3
<1>5. /\ f[0] = map
      /\ \A i \in 1 .. n : f[i] = StepMap(f[i - 1], ch[i])
  <2>1. step \in [1 .. n -> [Map -> Map]]
    BY <1>4
  <2>2. \A i \in 1 .. n : \A a \in Map : step[i][a] = StepMap(a, ch[i])
    OBVIOUS
  <2>. HIDE DEF step
  <2>3. PICK g : Iterates(g, n, Map, map, step)
    BY <1>1, <2>1, Iteration
  <2>4. g \in [0 .. n -> Map] /\ \A i \in 0 .. n : g[i] = IF i = 0 THEN map ELSE step[i][g[i - 1]]
    BY <2>3 DEF Iterates
  <2>5. \A i \in 0 .. n : i # 0 => i \in 1 .. n /\ i - 1 \in 0 .. n
    BY <1>1
  <2>6. g = [i \in 0 .. n |-> IF i = 0 THEN map ELSE StepMap(g[i - 1], ch[i])]
    BY <2>2, <2>4, <2>5
  <2>7. f = [i \in 0 .. n |-> IF i = 0 THEN map ELSE StepMap(f[i - 1], ch[i])]
    BY <2>6
  <2>. HIDE DEF f
  <2>8. 0 \in 0 .. n /\ \A i \in 1 .. n : i \in 0 .. n /\ i # 0
    BY <1>1
  <2>. QED  BY <2>7, <2>8
<1>. HIDE DEF f
<1>. DEFINE P(i) ==
        /\ f[i] \in Map
        /\ \A b \in Block : (\A j \in 1 .. i : ch[j].id # b) => ShownInMap(f[i], b) = ShownInMap(map, b)
        /\ \A j \in 1 .. i : ShownInMap(f[i], ch[j].id) = Value(ch[j])
            G == {i \in 0 .. n : P(i)}
<1>6. 0 \in G
  <2>1. P(0)
    BY <1>5
  <2>. QED  BY <1>1, <2>1
<1>. HIDE DEF G
<1>7. ASSUME NEW m \in 0 .. n, m # 0, m - 1 \in G
      PROVE  m \in G
  <2>. DEFINE a == f[m - 1]
              z == f[m]
              c == ch[m]
  <2>1. m \in 1 .. n
    BY <1>1, <1>7
  <2>2. P(m - 1)
    BY <1>7 DEF G
  <2>3. a \in Map /\ c \in ChangeRec /\ z = StepMap(a, c)
    BY <1>1, <1>5, <2>1, <2>2
  <2>. HIDE DEF a, z, c
  <2>4. /\ z \in Map
        /\ \A b : b # c.id => ShownInMap(z, b) = ShownInMap(a, b)
        /\ ShownInMap(z, c.id) = Value(c)
    BY <1>3, <2>3
  <2>5. \A j \in 1 .. m : j = m \/ j \in 1 .. (m - 1)
    BY <2>1
  <2>6. \A j \in 1 .. (m - 1) : j \in 1 .. m /\ ch[j].id # c.id
    <3>1. \A j \in 1 .. (m - 1) : j \in 1 .. m /\ j \in 1 .. n /\ j # m
      BY <1>1, <2>1
    <3>. QED  BY <1>1, <2>1, <3>1 DEF Distinct, c
  <2>7. ASSUME NEW b \in Block, \A j \in 1 .. m : ch[j].id # b
        PROVE  ShownInMap(z, b) = ShownInMap(map, b)
    <3>1. b # c.id
      BY <2>1, <2>7 DEF c
    <3>2. \A j \in 1 .. (m - 1) : ch[j].id # b
      BY <2>6, <2>7
    <3>. QED  BY <2>2, <2>4, <3>1, <3>2 DEF a
  <2>8. ASSUME NEW j \in 1 .. m
        PROVE  ShownInMap(z, ch[j].id) = Value(ch[j])
    <3>1. CASE j = m
      BY <2>4, <3>1 DEF c
    <3>2. CASE j # m
      BY <2>2, <2>4, <2>5, <2>6, <3>2 DEF a
    <3>. QED  BY <3>1, <3>2
  <2>. QED  BY <2>1, <2>4, <2>7, <2>8 DEF G, z
<1>8. P(n)
  <2>1. G \in SUBSET (0 .. n)
    BY DEF G
  <2>2. \A i \in 0 .. n : i \in G
    BY <1>1, <1>6, <1>7, <2>1, Reaches
  <2>3. n \in 0 .. n
    BY <1>1
  <2>. QED  BY <2>2, <2>3 DEF G
<1>. QED  BY <1>1, <1>2, <1>8 DEF Silent

(***************************************************************************)
(* All slices together: a batch, and the answer to a load.                 *)
(***************************************************************************)
StoreOK(s) ==
    /\ s.cards \in Map /\ s.views \in Map
    /\ \A k \in ListedKinds : /\ s.listed[k].byId \in Map
                              /\ s.listed[k].byCard \in Partial(Parents, Lists)
                              /\ SliceOK(s.listed[k])

\* What a reducer is handed says of the blocks of its kind what the batch says.
LEMMA ShareProperties ==
    ASSUME NEW kind, NEW ch \in Seq(ChangeRec), Distinct(ch), NEW t, t = Share(kind, ch)
    PROVE  /\ t \in Seq(ChangeRec) /\ Distinct(t)
           /\ \A b : Silent(ch, b) => Silent(t, b)
           /\ \A i \in DOMAIN ch : KindOf[ch[i].id] = kind => \E j \in DOMAIN t : t[j] = ch[i]
<1>. DEFINE T == {c \in Range(ch) : KindOf[c.id] = kind \/ ~c.live}
<1>1. t = Selected(ch, T)
  BY DEF Share
<1>. HIDE DEF T
<1>2. t \in Seq(ChangeRec) /\ Range(t) = Range(ch) \cap T /\ Distinct(t)
  BY <1>1, SelectedProperties
<1>3. ASSUME NEW b, Silent(ch, b)
      PROVE  Silent(t, b)
  <2>. SUFFICES ASSUME NEW i \in DOMAIN t
                PROVE  t[i].id # b
    BY DEF Silent
  <2>1. t[i] \in Range(ch)
    BY <1>2 DEF Range
  <2>2. PICK j \in DOMAIN ch : ch[j] = t[i]
    BY <2>1 DEF Range
  <2>. QED  BY <1>3, <2>2 DEF Silent
<1>4. ASSUME NEW i \in DOMAIN ch, KindOf[ch[i].id] = kind
      PROVE  \E j \in DOMAIN t : t[j] = ch[i]
  <2>1. ch[i] \in Range(t)
    BY <1>2, <1>4 DEF T, Range
  <2>. QED  BY <2>1 DEF Range
<1>. QED  BY <1>2, <1>3, <1>4

\* What the page shows after a batch: the changed blocks as the batch has them,
\* but for those left out, and the others as before.
LEMMA BatchShows ==
    ASSUME NEW s, StoreOK(s), NEW ch \in Seq(ChangeRec), Distinct(ch),
           NEW z, z = ApplyBatch(s, ch)
    PROVE  /\ StoreOK(z)
           /\ \A b \in Block : Silent(ch, b) => Shown(z, b) = Shown(s, b)
           /\ \A i \in DOMAIN ch :
                 ch[i].id \notin UNION {LeftOut(k, s.listed[k], Share(k, ch)) : k \in ListedKinds}
                    => Shown(z, ch[i].id) = Value(ch[i])
<1>1. /\ z.cards = UpdateMap(s.cards, Share("card", ch))
      /\ z.views = UpdateMap(s.views, Share("view", ch))
      /\ \A k \in ListedKinds : z.listed[k] = UpdateListed(k, s.listed[k], Share(k, ch))
  BY DEF ApplyBatch
<1>2. ASSUME NEW k
      PROVE  /\ Share(k, ch) \in Seq(ChangeRec) /\ Distinct(Share(k, ch))
             /\ \A b : Silent(ch, b) => Silent(Share(k, ch), b)
             /\ \A i \in DOMAIN ch : KindOf[ch[i].id] = k =>
                   \E j \in DOMAIN Share(k, ch) : Share(k, ch)[j] = ch[i]
  BY ShareProperties
<1>3. \A m \in Map : \A k : LET r == UpdateMap(m, Share(k, ch)) IN
        /\ r \in Map
        /\ \A b \in Block : Silent(ch, b) => ShownInMap(r, b) = ShownInMap(m, b)
        /\ \A i \in DOMAIN ch : KindOf[ch[i].id] = k => ShownInMap(r, ch[i].id) = Value(ch[i])
  <2>. SUFFICES ASSUME NEW m \in Map, NEW k, NEW r, r = UpdateMap(m, Share(k, ch))
                PROVE  /\ r \in Map
                       /\ \A b \in Block : Silent(ch, b) => ShownInMap(r, b) = ShownInMap(m, b)
                       /\ \A i \in DOMAIN ch : KindOf[ch[i].id] = k =>
                             ShownInMap(r, ch[i].id) = Value(ch[i])
    OBVIOUS
  <2>. DEFINE t == Share(k, ch)
  <2>1. t \in Seq(ChangeRec) /\ Distinct(t)
    BY <1>2
  <2>2. /\ r \in Map
        /\ \A b \in Block : Silent(t, b) => ShownInMap(r, b) = ShownInMap(m, b)
        /\ \A i \in DOMAIN t : ShownInMap(r, t[i].id) = Value(t[i])
    BY <2>1, MapShows
  <2>. QED  BY <1>2, <2>2
<1>4. ASSUME NEW k \in ListedKinds
      PROVE  /\ z.listed[k].byId \in Map /\ z.listed[k].byCard \in Partial(Parents, Lists)
             /\ SliceOK(z.listed[k])
             /\ \A b \in Block : Silent(ch, b) => ShownOf(z.listed[k], b) = ShownOf(s.listed[k], b)
             /\ \A i \in DOMAIN ch :
                   KindOf[ch[i].id] = k /\ ch[i].id \notin LeftOut(k, s.listed[k], Share(k, ch))
                      => ShownOf(z.listed[k], ch[i].id) = Value(ch[i])
  <2>. DEFINE t == Share(k, ch)
              l == s.listed[k]
              r == RunListed(k, l, t)
              u == z.listed[k]
  <2>1. t \in Seq(ChangeRec) /\ Distinct(t)
    BY <1>2
  <2>2. l.byId \in Map /\ l.byCard \in Partial(Parents, Lists) /\ SliceOK(l)
    BY DEF StoreOK
  <2>3. u = [byId |-> r.byId, byCard |-> r.byCard]
    <3>1. u = UpdateListed(k, l, t)
      BY <1>1
    <3>. QED  BY <3>1 DEF UpdateListed
  <2>. HIDE DEF l, r, u, t
  <2>4. /\ r \in Progress /\ SliceOK(r)
        /\ \A b \in Block : Silent(t, b) => ShownOf(r, b) = ShownOf(l, b)
        /\ \A i \in DOMAIN t : t[i].id \in r.taken => ShownOf(r, t[i].id) = Value(t[i])
    <3>1. Merged(l, t, r)
      BY <2>1, <2>2, RunShows DEF r
    <3>. QED  BY <3>1 DEF Merged
  <2>5. \A p : ListOf(u, p) = ListOf(r, p)
    BY <2>3 DEF ListOf
  <2>6. SliceOK(u) /\ \A b : ShownOf(u, b) = ShownOf(r, b)
    BY <2>3, <2>4, <2>5 DEF SliceOK, Entries, ShownOf
  <2>7. u.byId \in Map /\ u.byCard \in Partial(Parents, Lists)
    BY <2>3, <2>4 DEF Progress
  <2>8. ASSUME NEW i \in DOMAIN ch, KindOf[ch[i].id] = k, ch[i].id \notin LeftOut(k, l, t)
        PROVE  ShownOf(u, ch[i].id) = Value(ch[i])
    <3>1. PICK j \in DOMAIN t : t[j] = ch[i]
      BY <1>2, <2>8 DEF t
    <3>2. t[j].id \in r.taken
      <4>1. t[j] \in Range(t)
        BY DEF Range
      <4>. QED  BY <2>8, <3>1, <4>1 DEF LeftOut, r
    <3>. QED  BY <2>4, <2>6, <3>1, <3>2
  <2>9. \A b \in Block : Silent(ch, b) => ShownOf(u, b) = ShownOf(l, b)
    BY <1>2, <2>4, <2>6 DEF t
  <2>. QED  BY <2>6, <2>7, <2>8, <2>9 DEF u, l, t
<1>5. StoreOK(z)
  BY <1>1, <1>3, <1>4 DEF StoreOK
<1>6. \A b \in Block : KindOf[b] \in {"card", "view"} \cup ListedKinds
  BY SyncAssumption DEF ListedKinds
<1>7. \A x : \A b \in Block :
        Shown(x, b) = IF KindOf[b] = "card" THEN ShownInMap(x.cards, b)
                      ELSE IF KindOf[b] = "view" THEN ShownInMap(x.views, b)
                      ELSE ShownOf(x.listed[KindOf[b]], b)
  BY DEF Shown, ShownOf
<1>8. ASSUME NEW b \in Block, Silent(ch, b)
      PROVE  Shown(z, b) = Shown(s, b)
  BY <1>1, <1>3, <1>4, <1>6, <1>7, <1>8 DEF StoreOK
<1>9. ASSUME NEW i \in DOMAIN ch,
             ch[i].id \notin UNION {LeftOut(k, s.listed[k], Share(k, ch)) : k \in ListedKinds}
      PROVE  Shown(z, ch[i].id) = Value(ch[i])
  <2>0. DOMAIN ch = 1 .. Len(ch)
    BY LenProperties
  <2>1. ch[i].id \in Block
    <3>1. ch[i] \in ChangeRec
      BY <2>0, ElementOfSeq
    <3>. QED  BY <3>1 DEF ChangeRec
  <2>. DEFINE b == ch[i].id
              k == KindOf[b]
  <2>2. CASE k = "card"
    BY <1>1, <1>3, <1>7, <2>1, <2>2 DEF StoreOK
  <2>3. CASE k = "view"
    BY <1>1, <1>3, <1>7, <2>1, <2>3 DEF StoreOK
  <2>4. CASE k \in ListedKinds
    <3>1. b \notin LeftOut(k, s.listed[k], Share(k, ch))
      BY <1>9, <2>4
    <3>2. ShownOf(z.listed[k], b) = Value(ch[i])
      BY <1>4, <2>4, <3>1
    <3>3. k # "card" /\ k # "view"
      BY <2>4 DEF ListedKinds
    <3>. QED  BY <1>7, <2>1, <3>2, <3>3
  <2>. QED  BY <1>6, <2>1, <2>2, <2>3, <2>4
<1>. QED  BY <1>5, <1>8, <1>9

\* A finite set written as a list.
LEMMA SetToSeqType ==
    ASSUME NEW S, IsFiniteSet(S)
    PROVE  SetToSeq(S) \in Seq(S) /\ Range(SetToSeq(S)) = S
<1>. DEFINE n == Cardinality(S)
            g == SetToSeq(S)
<1>1. n \in Nat /\ ExistsBijection(1 .. n, S)
  BY FS_CardinalityType
<1>2. IsFiniteSet(1 .. n) /\ Cardinality(1 .. n) = n
  BY <1>1, FS_Interval
<1>. HIDE DEF n
<1>3. PICK f : f \in Bijection(1 .. n, S)
  BY <1>1 DEF ExistsBijection
<1>4. f \in [1 .. n -> S] /\ IsInjective(f)
  BY <1>3 DEF Bijection, Injection, Surjection, IsInjective
<1>5. g \in [1 .. n -> S] /\ IsInjective(g)
  BY <1>4 DEF SetToSeq, n
<1>. HIDE DEF g
<1>6. g \in Injection(1 .. n, S)
  BY <1>5 DEF Injection, IsInjective
<1>7. g \in Surjection(1 .. n, S)
  BY <1>2, <1>6, FS_Injection DEF n
<1>8. Range(g) = S
  BY <1>5, <1>7 DEF Surjection, Range
<1>. QED  BY <1>1, <1>5, <1>8, SeqDef DEF g

\* What the server may answer to a load.
Answers == UNION {[E -> Version] : E \in {F \in SUBSET Block : IsFiniteSet(F)}}

\* A load makes a store in order, which shows what the answer says.
LEMMA LoadedStore ==
    ASSUME NEW answer \in Answers
    PROVE  /\ StoreOK(LoadSlices(answer))
           /\ \A b \in Block : Shown(LoadSlices(answer), b) = ShownInMap(answer, b)
<1>. DEFINE Ids(kind) == {b \in DOMAIN answer : KindOf[b] \in Loads(kind)}
            L(k, p) == SetToSeq({b \in Ids(k) : ParentOf[b] = p})
            Entry(b) == [id |-> b, ver |-> answer[b], live |-> TRUE]
            s == LoadSlices(answer)
<1>1. PICK E \in SUBSET Block : IsFiniteSet(E) /\ answer \in [E -> Version]
  BY DEF Answers
<1>2. \A F \in SUBSET E : Restrict(answer, F) \in Map /\ DOMAIN Restrict(answer, F) = F
  <2>. SUFFICES ASSUME NEW F \in SUBSET E
                PROVE  Restrict(answer, F) \in Map /\ DOMAIN Restrict(answer, F) = F
    OBVIOUS
  <2>1. Restrict(answer, F) \in [F -> Version] /\ F \in SUBSET Block
    BY <1>1 DEF Restrict
  <2>. QED  BY <2>1 DEF Map, Partial
<1>3. \A k : Ids(k) \in SUBSET E
  BY <1>1
<1>4. /\ s.cards = Restrict(answer, Ids("card")) /\ s.views = Restrict(answer, Ids("view"))
      /\ \A k \in ListedKinds :
            /\ s.listed[k].byId = Restrict(answer, Ids(k))
            /\ s.listed[k].byCard = [p \in {ParentOf[b] : b \in Ids(k)} |->
                                        [i \in DOMAIN L(k, p) |-> Entry(L(k, p)[i])]]
  BY DEF LoadSlices
<1>. HIDE DEF s
<1>5. ASSUME NEW k \in ListedKinds
      PROVE  /\ s.listed[k].byCard \in Partial(Parents, Lists)
             /\ SliceOK(s.listed[k])
             /\ \A b \in Block : KindOf[b] = k => ShownOf(s.listed[k], b) = ShownInMap(answer, b)
  <2>. DEFINE list(p) == [i \in DOMAIN L(k, p) |-> Entry(L(k, p)[i])]
              D == {ParentOf[b] : b \in Ids(k)}
              l == s.listed[k]
  <2>1. ASSUME NEW p
        PROVE  /\ list(p) \in Seq(ChangeRec)
               /\ \A i \in DOMAIN list(p) : \E b \in Ids(k) : ParentOf[b] = p /\ list(p)[i] = Entry(b)
               /\ \A b \in Ids(k) : ParentOf[b] = p => Entry(b) \in Range(list(p))
    <3>. DEFINE S == {b \in Ids(k) : ParentOf[b] = p}
                q == L(k, p)
    <3>1. S \in SUBSET E /\ IsFiniteSet(S)
      BY <1>1, <1>3, FS_Subset
    <3>2. q \in Seq(S) /\ Range(q) = S
      BY <3>1, SetToSeqType
    <3>3. Len(q) \in Nat /\ DOMAIN q = 1 .. Len(q) /\ \A i \in 1 .. Len(q) : q[i] \in S
      BY <3>2, LenProperties, ElementOfSeq
    <3>. HIDE DEF q, S
    <3>4. \A b \in S : Entry(b) \in ChangeRec
      BY <1>1, <3>1 DEF ChangeRec
    <3>5. list(p) \in [1 .. Len(q) -> ChangeRec]
      BY <3>3, <3>4 DEF q
    <3>6. list(p) \in Seq(ChangeRec)
      BY <3>3, <3>5, SeqDef
    <3>7. \A i \in DOMAIN list(p) : i \in DOMAIN q /\ list(p)[i] = Entry(q[i])
      BY DEF q
    <3>8. \A b \in S : b \in Ids(k) /\ ParentOf[b] = p
      BY DEF S
    <3>9. ASSUME NEW b \in Ids(k), ParentOf[b] = p
          PROVE  Entry(b) \in Range(list(p))
      <4>1. b \in Range(q)
        BY <3>2, <3>9 DEF S
      <4>2. PICK i \in DOMAIN q : q[i] = b
        BY <4>1 DEF Range
      <4>3. i \in DOMAIN list(p) /\ list(p)[i] = Entry(b)
        BY <4>2 DEF q
      <4>. QED  BY <4>3 DEF Range
    <3>. QED  BY <3>3, <3>6, <3>7, <3>8, <3>9
  <2>. HIDE DEF list
  <2>2. l.byCard = [p \in D |-> list(p)] /\ l.byId = Restrict(answer, Ids(k))
    BY <1>4 DEF list
  <2>3. D \in SUBSET Parents
    BY <1>1 DEF Parents
  <2>. HIDE DEF l, D
  <2>4. l.byCard \in [D -> Lists]
    BY <2>1, <2>2 DEF Lists
  <2>5. l.byCard \in Partial(Parents, Lists)
    BY <2>3, <2>4 DEF Partial
  <2>6. ASSUME NEW p \in Parents, NEW e \in Entries(l, p)
        PROVE  \E b \in Ids(k) : ParentOf[b] = p /\ e = Entry(b)
    <3>1. p \in DOMAIN l.byCard
      <4>. SUFFICES ASSUME p \notin DOMAIN l.byCard PROVE FALSE
        OBVIOUS
      <4>1. ListOf(l, p) = <<>>
        BY DEF ListOf
      <4>. QED  BY <2>6, <4>1 DEF Entries, Range
    <3>2. ListOf(l, p) = list(p)
      BY <2>2, <3>1 DEF ListOf
    <3>. QED  BY <2>1, <2>6, <3>2 DEF Entries, Range
  <2>7. DOMAIN l.byId = Ids(k)
    BY <1>2, <1>3, <2>2
  <2>8. SliceOK(l)
    <3>. SUFFICES ASSUME NEW p \in Parents, NEW e \in Entries(l, p)
                  PROVE  /\ ParentOf[e.id] = p /\ e.id \in DOMAIN l.byId
                         /\ \A d \in Entries(l, p) : d.id = e.id => d.ver = e.ver
      BY DEF SliceOK
    <3>. HIDE DEF Ids
    <3>1. \A d \in Entries(l, p) : d.id \in Ids(k) /\ ParentOf[d.id] = p /\ d.ver = answer[d.id]
      BY <2>6
    <3>. QED  BY <2>7, <3>1
  <2>9. ASSUME NEW b \in Block, KindOf[b] = k
        PROVE  ShownOf(l, b) = ShownInMap(answer, b)
    <3>. DEFINE p == ParentOf[b]
    <3>1. p \in Parents /\ (b \in Ids(k) <=> b \in DOMAIN answer)
      BY <1>5, <2>9 DEF Parents, Loads, ListedKinds
    <3>2. \A d, e \in Range(ListOf(l, p)) : d.id = e.id => d.ver = e.ver
      BY <2>8, <3>1 DEF SliceOK, Entries
    <3>3. CASE b \in DOMAIN answer
      <4>1. p \in DOMAIN l.byCard
        BY <2>2, <3>1, <3>3 DEF D
      <4>2. ListOf(l, p) = list(p)
        BY <2>2, <4>1 DEF ListOf
      <4>3. Entry(b) \in Range(ListOf(l, p))
        BY <2>1, <3>1, <3>3, <4>2
      <4>4. ShownInList(ListOf(l, p), b) = Entry(b).ver
        BY <3>2, <4>3, ShownEntry
      <4>. QED  BY <3>3, <4>4 DEF ShownOf, ShownInMap
    <3>4. CASE b \notin DOMAIN answer
      <4>1. \A e \in Range(ListOf(l, p)) : e.id # b
        BY <2>6, <3>1, <3>4 DEF Entries
      <4>2. ShownInList(ListOf(l, p), b) = 0
        BY <3>2, <4>1, ShownEntry
      <4>. QED  BY <3>4, <4>2 DEF ShownOf, ShownInMap
    <3>. QED  BY <3>3, <3>4
  <2>. QED  BY <2>5, <2>8, <2>9 DEF l
<1>6. StoreOK(s)
  BY <1>2, <1>3, <1>4, <1>5 DEF StoreOK
<1>7. ASSUME NEW b \in Block
      PROVE  Shown(s, b) = ShownInMap(answer, b)
  <2>1. KindOf[b] \in {"card", "view"} \cup ListedKinds
    BY SyncAssumption DEF ListedKinds
  <2>2. ASSUME NEW k \in {"card", "view"}, KindOf[b] = k
        PROVE  ShownInMap(Restrict(answer, Ids(k)), b) = ShownInMap(answer, b)
    <3>1. b \in Ids(k) <=> b \in DOMAIN answer
      BY <2>2 DEF Loads
    <3>2. DOMAIN Restrict(answer, Ids(k)) = Ids(k)
      BY <1>2, <1>3
    <3>3. b \in Ids(k) => Restrict(answer, Ids(k))[b] = answer[b]
      BY DEF Restrict
    <3>. HIDE DEF Ids
    <3>. QED  BY <3>1, <3>2, <3>3 DEF ShownInMap
  <2>3. CASE KindOf[b] = "card"
    BY <1>4, <2>2, <2>3 DEF Shown
  <2>4. CASE KindOf[b] = "view"
    BY <1>4, <2>2, <2>4 DEF Shown
  <2>5. ASSUME NEW k \in ListedKinds, KindOf[b] = k
        PROVE  Shown(s, b) = ShownInMap(answer, b)
    <3>1. Shown(s, b) = ShownOf(s.listed[k], b)
      BY <2>5 DEF Shown, ShownOf, ListedKinds
    <3>. QED  BY <1>5, <2>5, <3>1
  <2>. QED  BY <2>1, <2>3, <2>4, <2>5
<1>. QED  BY <1>6, <1>7 DEF s

(***************************************************************************)
(* The whole: what is on its way makes up for what the store lacks.        *)
(***************************************************************************)
LoadRec == [board : Board, phase : {"asked", "answered"}, answer : Answers,
            seen : [Block -> Version], retry : BOOLEAN]

Frame == [team : Team, block : ChangeRec]

Updates == [blocks : Lists, categories : {<<>>}, boardCategories : {<<>>}, boards : {<<>>},
            members : {<<>>}, categoryOrder : {<<>>}]

ServerOK ==
    /\ rows \in [Block -> [ver : Version, live : BOOLEAN]]
    /\ IsFiniteSet({b \in Block : rows[b].live})
    /\ outbox \in Seq(ChangeRec)

ClientOK ==
    /\ down \in Seq(Frame)
    /\ queued \in Updates /\ Distinct(queued.blocks)
    /\ loads \in Seq(LoadRec)
    /\ StoreOK(store) /\ given \in [Block -> Version]

\* No change on its way is newer than the server's row, and one of the row's version
\* is the row's last.
Genuine(c) == /\ c.ver <= rows[c.id].ver
              /\ c.ver = rows[c.id].ver => c.live = rows[c.id].live

AllGenuine ==
    /\ \A c \in Range(outbox) : Genuine(c)
    /\ \A c \in Range(queued.blocks) : Genuine(c)
    /\ \A m \in Range(down) : Genuine(m.block)

\* A load has seen nothing newer than the server's rows, and where it has seen the
\* last version its answer has the row.
Faithful(l) ==
    \A b \in Block : /\ l.seen[b] <= rows[b].ver
                     /\ l.seen[b] = rows[b].ver => ShownInMap(l.answer, b) = Wanted(b)

AllFaithful ==
    /\ \A l \in Range(loads) : Faithful(l)
    /\ \A b \in Block : given[b] <= rows[b].ver

\* The last change of b is on its way, or the store has been given it last.
LastOf(b) == Change(b, rows[b])

Fresh(b) ==
    \/ LastOf(b) \in Range(outbox)
    \/ \E m \in Range(down) : m.block = LastOf(b)
    \/ LastOf(b) \in Range(queued.blocks)
    \/ given[b] = rows[b].ver /\ Shown(store, b) = Wanted(b)

NotMissed == \A b \in Block \ missed : Fresh(b)

SyncInv == ServerOK /\ ClientOK /\ AllGenuine /\ AllFaithful /\ NotMissed

(***************************************************************************)
(* The lists of changes on their way.                                      *)
(***************************************************************************)

\* Taking one entry out of a list leaves the others.
LEMMA RemoveOne ==
    ASSUME NEW S, NEW s \in Seq(S), NEW i \in DOMAIN s
    PROVE  /\ RemoveAt(s, i) \in Seq(S) /\ s[i] \in S
           /\ Range(RemoveAt(s, i)) \subseteq Range(s)
           /\ \A j \in DOMAIN s : j # i => s[j] \in Range(RemoveAt(s, i))
<1>. DEFINE n == Len(s)
            a == SubSeq(s, 1, i - 1)
            z == SubSeq(s, i + 1, n)
<1>1. n \in Nat /\ DOMAIN s = 1 .. n /\ i \in 1 .. n /\ \A j \in 1 .. n : s[j] \in S
  BY LenProperties, ElementOfSeq
<1>. HIDE DEF n
<1>2. /\ a \in Seq(S) /\ Len(a) = i - 1 /\ \A j \in 1 .. (i - 1) : a[j] = s[j]
      /\ z \in Seq(S) /\ Len(z) = n - i /\ \A j \in 1 .. (n - i) : z[j] = s[i + j]
  <2>1. \A j \in 1 .. (i - 1) : s[j] \in S
    BY <1>1
  <2>2. \A j \in (i + 1) .. n : s[j] \in S
    BY <1>1
  <2>3. /\ a \in Seq(S) /\ Len(a) = IF 1 <= i - 1 THEN i - 1 - 1 + 1 ELSE 0
        /\ \A j \in 1 .. (i - 1 - 1 + 1) : a[j] = s[1 + j - 1]
    BY <1>1, <2>1, SubSeqProperties
  <2>4. /\ z \in Seq(S) /\ Len(z) = IF i + 1 <= n THEN n - (i + 1) + 1 ELSE 0
        /\ \A j \in 1 .. (n - (i + 1) + 1) : z[j] = s[i + 1 + j - 1]
    BY <1>1, <2>2, SubSeqProperties
  <2>. HIDE DEF a, z
  <2>5. /\ i - 1 - 1 + 1 = i - 1 /\ n - (i + 1) + 1 = n - i
        /\ \A j \in 1 .. (i - 1) : 1 + j - 1 = j
        /\ \A j \in 1 .. (n - i) : i + 1 + j - 1 = i + j
        /\ (~(1 <= i - 1) => i - 1 = 0) /\ (~(i + 1 <= n) => n - i = 0)
    BY <1>1
  <2>. QED  BY <2>3, <2>4, <2>5
<1>3. RemoveAt(s, i) = a \o z
  BY DEF RemoveAt, n
<1>. HIDE DEF a, z
<1>4. a \o z \in Seq(S) /\ Range(a \o z) = Range(a) \cup Range(z)
  BY <1>2, ConcatProperties, RangeConcatenation
<1>5. DOMAIN a = 1 .. (i - 1) /\ DOMAIN z = 1 .. (n - i)
  BY <1>2, LenProperties
<1>6. Range(a) \subseteq Range(s) /\ Range(z) \subseteq Range(s)
  <2>1. \A j \in 1 .. (i - 1) : j \in 1 .. n
    BY <1>1
  <2>2. \A j \in 1 .. (n - i) : i + j \in 1 .. n
    BY <1>1
  <2>. QED  BY <1>1, <1>2, <1>5, <2>1, <2>2 DEF Range
<1>7. ASSUME NEW j \in DOMAIN s, j # i
      PROVE  s[j] \in Range(a) \cup Range(z)
  <2>1. CASE j \in 1 .. (i - 1)
    BY <1>2, <1>5, <2>1 DEF Range
  <2>2. CASE j \notin 1 .. (i - 1)
    <3>. DEFINE k == j - i
    <3>1. k \in 1 .. (n - i) /\ j = i + k
      BY <1>1, <1>7, <2>2
    <3>. HIDE DEF k
    <3>2. z[k] = s[j] /\ k \in DOMAIN z
      BY <1>2, <1>5, <3>1
    <3>. QED  BY <3>2 DEF Range
  <2>. QED  BY <2>1, <2>2
<1>. QED  BY <1>1, <1>3, <1>4, <1>6, <1>7

\* Taking the first entry leaves the others.
LEMMA HeadAndTail ==
    ASSUME NEW S, NEW s \in Seq(S), s # <<>>
    PROVE  /\ Head(s) \in S /\ Tail(s) \in Seq(S)
           /\ Range(s) = {Head(s)} \cup Range(Tail(s))
<1>. DEFINE h == Head(s)
            t == Tail(s)
<1>1. h \in S /\ t \in Seq(S) /\ <<h>> \o t = s
  BY HeadTailProperties, ConcatProperties
<1>2. <<h>> \in Seq(S)
  BY <1>1
<1>. HIDE DEF h, t
<1>3. Range(<<h>> \o t) = Range(<<h>>) \cup Range(t)
  BY <1>1, <1>2, RangeConcatenation
<1>4. Range(<<h>>) = {h}
  BY DEF Range
<1>. QED  BY <1>1, <1>3, <1>4 DEF h, t

\* A message joins the batch in the place of the change of its block.
LEMMA RenewProperties ==
    ASSUME NEW q \in Seq(ChangeRec), Distinct(q), NEW c \in ChangeRec
    PROVE  /\ Renew(q, c) \in Seq(ChangeRec) /\ Distinct(Renew(q, c))
           /\ \A e : e \in Range(Renew(q, c)) <=> e = c \/ (e \in Range(q) /\ e.id # c.id)
<1>. DEFINE w == Without(q, {c.id})
            T == {e \in Range(q) : e.id \notin {c.id}}
<1>1. w \in Seq(ChangeRec) /\ Range(w) = Range(q) \cap T /\ Distinct(w)
  BY SelectedProperties DEF Without
<1>. HIDE DEF w
<1>2. \A e : e \in Range(w) <=> e \in Range(q) /\ e.id # c.id
  BY <1>1
<1>3. Renew(q, c) = Append(w, c)
  BY DEF Renew, w
<1>4. Append(w, c) \in Seq(ChangeRec) /\ Range(Append(w, c)) = Range(w) \cup {c}
  BY <1>1, AppendNew, AppendProperties
<1>5. Distinct(Append(w, c))
  <2>1. /\ DOMAIN w = 1 .. Len(w) /\ Len(w) \in Nat
        /\ DOMAIN Append(w, c) = 1 .. (Len(w) + 1)
        /\ \A i \in 1 .. Len(w) : Append(w, c)[i] = w[i]
        /\ Append(w, c)[Len(w) + 1] = c
    BY <1>1, <1>4, AppendProperties, LenProperties
  <2>2. \A i \in 1 .. Len(w) : w[i].id # c.id
    BY <1>2, <2>1 DEF Range
  <2>3. \A i \in DOMAIN Append(w, c) : i \in DOMAIN w \/ i = Len(w) + 1
    BY <2>1
  <2>. QED  BY <1>1, <2>1, <2>2, <2>3 DEF Distinct
<1>6. \A e : e \in Range(Append(w, c)) <=> e = c \/ (e \in Range(q) /\ e.id # c.id)
  BY <1>2, <1>4
<1>. QED  BY <1>3, <1>4, <1>5, <1>6

\* Without frames there is nothing to receive.
LEMMA Nothing == <<>> \in Seq(ChangeRec) /\ <<>> \in Seq(Frame) /\ Range(<<>>) = {}
BY DEF Range

\* The empty map is a map, and an answer.
LEMMA NoMapType == NoMap \in Map /\ NoMap \in Answers /\ NoMap \in Partial(Parents, Lists)
<1>1. /\ NoMap \in [{} -> Version] /\ NoMap \in [{} -> Lists] /\ {} \in SUBSET Block
      /\ {} \in SUBSET Parents
  BY DEF NoMap
<1>2. IsFiniteSet({})
  BY FS_EmptySet
<1>. QED  BY <1>1, <1>2 DEF Map, Partial, Answers

\* What the client holds is typed.
LEMMA HeldType ==
    ASSUME SyncInv
    PROVE  /\ rows \in [Block -> [ver : Version, live : BOOLEAN]]
           /\ outbox \in Seq(ChangeRec) /\ Range(outbox) \subseteq ChangeRec
           /\ down \in Seq(Frame) /\ \A m \in Range(down) : m \in Frame /\ m.block \in ChangeRec
           /\ queued.blocks \in Seq(ChangeRec) /\ Range(queued.blocks) \subseteq ChangeRec
           /\ Distinct(queued.blocks)
           /\ given \in [Block -> Version]
<1>1. /\ rows \in [Block -> [ver : Version, live : BOOLEAN]]
      /\ outbox \in Seq(ChangeRec) /\ down \in Seq(Frame) /\ Distinct(queued.blocks)
      /\ queued \in Updates /\ given \in [Block -> Version]
  BY DEF SyncInv, ServerOK, ClientOK
<1>2. queued.blocks \in Seq(ChangeRec)
  BY <1>1 DEF Updates, Lists
<1>3. Range(outbox) \subseteq ChangeRec
  BY <1>1, RangeOfSeq
<1>4. Range(queued.blocks) \subseteq ChangeRec
  BY <1>2, RangeOfSeq
<1>5. \A m \in Range(down) : m \in Frame /\ m.block \in ChangeRec
  <2>1. Range(down) \subseteq Frame
    BY <1>1, RangeOfSeq
  <2>. QED  BY <2>1 DEF Frame
<1>. QED  BY <1>1, <1>2, <1>3, <1>4, <1>5

\* A genuine change of the row's version is the row's last change.
LEMMA GenuineLast ==
    ASSUME NEW c \in ChangeRec, rows \in [Block -> [ver : Version, live : BOOLEAN]], Genuine(c)
    PROVE  /\ c.id \in Block /\ c.ver \in Nat /\ rows[c.id].ver \in Nat
           /\ Newest(c) => c = LastOf(c.id) /\ Value(c) = Wanted(c.id)
           /\ ~Newest(c) => c.ver < rows[c.id].ver
           /\ \A b \in Block : c = LastOf(b) => b = c.id /\ Newest(c)
<1>1. c.id \in Block /\ c.ver \in Nat /\ rows[c.id].ver \in Nat
  BY DEF ChangeRec, Version
<1>2. ASSUME Newest(c)
      PROVE  c = LastOf(c.id) /\ Value(c) = Wanted(c.id)
  <2>1. c.ver = rows[c.id].ver /\ c.live = rows[c.id].live
    BY <1>2 DEF Newest, Genuine
  <2>2. c = [id |-> c.id, ver |-> c.ver, live |-> c.live]
    BY DEF ChangeRec
  <2>. QED  BY <2>1, <2>2 DEF LastOf, Change, Value, Wanted
<1>3. ~Newest(c) => c.ver < rows[c.id].ver
  BY <1>1 DEF Newest, Genuine
<1>4. \A b \in Block : c = LastOf(b) => b = c.id /\ Newest(c)
  BY DEF LastOf, Change, Newest
<1>. QED  BY <1>1, <1>2, <1>3, <1>4

\* At the start only the first blocks are missing, and they are missed.
LEMMA SyncInit == Init => SyncInv
<1>. SUFFICES ASSUME Init PROVE SyncInv
  OBVIOUS
<1>1. ServerOK
  <2>1. rows \in [Block -> [ver : Version, live : BOOLEAN]]
    BY DEF Init, Version
  <2>2. {b \in Block : rows[b].live} = First
    BY SyncAssumption DEF Init
  <2>. QED  BY <2>1, <2>2, SyncAssumption, Nothing DEF Init, ServerOK
<1>2. StoreOK(store)
  <2>1. \A p : ListOf(NoList, p) = <<>>
    BY DEF ListOf, NoList, NoMap
  <2>2. SliceOK(NoList)
    BY <2>1 DEF SliceOK, Entries, Range
  <2>3. store.cards = NoMap /\ store.views = NoMap /\ \A k \in ListedKinds : store.listed[k] = NoList
    BY DEF Init, EmptySlices
  <2>. QED  BY <2>2, <2>3, NoMapType DEF StoreOK, NoList
<1>3. Load(page, FALSE) \in LoadRec /\ loads = <<Load(page, FALSE)>>
  BY NoMapType DEF Init, Load, LoadRec, Version
<1>4. ClientOK
  <2>1. loads \in Seq(LoadRec)
    <3>1. \A S : \A x \in S : <<x>> \in Seq(S)
      OBVIOUS
    <3>. DEFINE l == Load(page, FALSE)
    <3>. HIDE DEF l
    <3>2. l \in LoadRec /\ loads = <<l>>
      BY <1>3 DEF l
    <3>. QED  BY <3>1, <3>2
  <2>2. queued \in Updates
    BY Nothing DEF Init, Updates, NoUpdates, Lists
  <2>3. Distinct(queued.blocks)
    BY DEF Init, NoUpdates, Distinct
  <2>4. given \in [Block -> Version]
    BY DEF Init, Version
  <2>. QED  BY <1>2, <2>1, <2>2, <2>3, <2>4, Nothing DEF ClientOK, Init
<1>5. AllGenuine
  BY DEF AllGenuine, Init, NoUpdates, Range
<1>6. AllFaithful
  <2>1. \A b \in Block : rows[b].ver \in Nat /\ 0 <= rows[b].ver /\ given[b] = 0
    BY DEF Init
  <2>2. \A b \in Block : rows[b].ver = 0 => Wanted(b) = 0
    BY DEF Wanted
  <2>3. \A b \in Block : ShownInMap(NoMap, b) = 0
    BY DEF NoMap, ShownInMap
  <2>4. Faithful(Load(page, FALSE))
    BY <2>1, <2>2, <2>3 DEF Faithful, Load
  <2>5. Range(loads) = {Load(page, FALSE)}
    <3>. DEFINE l == Load(page, FALSE)
    <3>. HIDE DEF l
    <3>1. Range(<<l>>) = {l}
      BY DEF Range
    <3>. QED  BY <1>3, <3>1 DEF l
  <2>. QED  BY <2>1, <2>4, <2>5 DEF AllFaithful
<1>7. NotMissed
  <2>. SUFFICES ASSUME NEW b \in Block \ missed
                PROVE  given[b] = rows[b].ver /\ Shown(store, b) = Wanted(b)
    BY DEF NotMissed, Fresh
  <2>1. Wanted(b) = 0 /\ rows[b].ver = 0 /\ given[b] = 0
    BY DEF Init, Wanted
  <2>2. \A p : ListOf(NoList, p) = <<>>
    BY DEF ListOf, NoList, NoMap
  <2>3. KindOf[b] \in {"card", "view"} \cup ListedKinds
    BY SyncAssumption DEF ListedKinds
  <2>4. ShownInMap(NoMap, b) = 0 /\ ShownInList(<<>>, b) = 0
    BY DEF NoMap, ShownInMap, ShownInList, InList
  <2>5. Shown(EmptySlices, b) = 0
    BY <2>2, <2>3, <2>4 DEF Shown, EmptySlices
  <2>. QED  BY <2>1, <2>5 DEF Init
<1>. QED  BY <1>1, <1>4, <1>5, <1>6, <1>7 DEF SyncInv

\* Steps that touch neither the server's blocks nor what the client holds of them.
LEMMA QuietSync ==
    ASSUME SyncInv, UNCHANGED <<rows, outbox, down, queued, store, given, missed>>,
           loads' \in Seq(LoadRec), \A l \in Range(loads') : Faithful(l)
    PROVE  SyncInv'
<1>1. ServerOK'
  BY DEF SyncInv, ServerOK
<1>2. ClientOK'
  BY DEF SyncInv, ClientOK
<1>3. AllGenuine'
  BY DEF SyncInv, AllGenuine, Genuine
<1>4. AllFaithful'
  <2>1. \A l : Faithful(l)' <=> Faithful(l)
    BY DEF Faithful, Wanted
  <2>2. \A b \in Block : given'[b] <= rows'[b].ver
    BY DEF SyncInv, AllFaithful
  <2>. QED  BY <2>1, <2>2 DEF AllFaithful
<1>5. NotMissed'
  BY DEF SyncInv, NotMissed, Fresh, Wanted, LastOf, Change
<1>. QED  BY <1>1, <1>2, <1>3, <1>4, <1>5 DEF SyncInv

\* A new change makes all that is on its way about its block old, and is on its way itself.
LEMMA EditSyncs ==
    ASSUME SyncInv, NEW b \in Block, Edit(b)
    PROVE  SyncInv'
<1>1. PICK live \in BOOLEAN :
        rows' = [rows EXCEPT ![b] = [ver |-> @.ver + 1, live |-> live]]
  BY DEF Edit
<1>. DEFINE c == Change(b, rows'[b])
<1>2. /\ rows \in [Block -> [ver : Version, live : BOOLEAN]]
      /\ outbox \in Seq(ChangeRec) /\ IsFiniteSet({x \in Block : rows[x].live})
  BY DEF SyncInv, ServerOK
<1>3. /\ rows' \in [Block -> [ver : Version, live : BOOLEAN]]
      /\ \A x \in Block : x # b => rows'[x] = rows[x]
      /\ rows'[b].ver = rows[b].ver + 1
  BY <1>1, <1>2 DEF Version
<1>4. c \in ChangeRec
  BY <1>3 DEF Change, ChangeRec
<1>5. outbox' = Append(outbox, c) /\ missed' = missed \ {b}
  BY DEF Edit
<1>6. UNCHANGED <<down, queued, loads, store, given>>
  BY DEF Edit, socket, wsClient
<1>. HIDE DEF c
<1>7. outbox' \in Seq(ChangeRec) /\ Range(outbox') = Range(outbox) \cup {c}
  BY <1>2, <1>4, <1>5, AppendNew, AppendProperties
<1>8. ServerOK'
  <2>1. {x \in Block : rows'[x].live} \subseteq {x \in Block : rows[x].live} \cup {b}
    BY <1>3
  <2>2. IsFiniteSet({x \in Block : rows[x].live} \cup {b})
    BY <1>2, FS_AddElement
  <2>3. IsFiniteSet({x \in Block : rows'[x].live})
    BY <2>1, <2>2, FS_Subset
  <2>. QED  BY <1>3, <1>7, <2>3 DEF ServerOK
<1>9. ClientOK'
  BY <1>6 DEF SyncInv, ClientOK
<1>10. AllGenuine'
  <2>1. ASSUME NEW x \in ChangeRec, Genuine(x)
        PROVE  Genuine(x)'
    <3>1. CASE x.id = b
      <4>1. x.ver \in Nat /\ rows[b].ver \in Nat
        BY <1>2 DEF ChangeRec, Version
      <4>. QED  BY <1>3, <2>1, <3>1, <4>1 DEF Genuine
    <3>2. CASE x.id # b
      BY <1>3, <2>1, <3>2 DEF Genuine, ChangeRec
    <3>. QED  BY <3>1, <3>2
  <2>2. ASSUME NEW x, x = c
        PROVE  Genuine(x)'
    BY <1>3, <2>2 DEF Genuine, c, Change, Version
  <2>3. AllGenuine
    BY DEF SyncInv
  <2>6. ASSUME NEW x \in Range(outbox') PROVE Genuine(x)'
    BY <1>7, <2>1, <2>2, <2>3, HeldType DEF AllGenuine
  <2>7. ASSUME NEW x \in Range(queued'.blocks) PROVE Genuine(x)'
    BY <1>6, <2>1, <2>3, HeldType DEF AllGenuine
  <2>8. ASSUME NEW m \in Range(down') PROVE Genuine(m.block)'
    BY <1>6, <2>1, <2>3, HeldType DEF AllGenuine
  <2>. QED  BY <2>6, <2>7, <2>8 DEF AllGenuine
<1>11. AllFaithful'
  <2>1. \A x \in Block : /\ rows[x].ver \in Nat /\ rows'[x].ver \in Nat
                         /\ x # b => rows'[x].ver = rows[x].ver /\ Wanted(x)' = Wanted(x)
    BY <1>2, <1>3 DEF Version, Wanted
  <2>2. ASSUME NEW l \in Range(loads'), NEW x \in Block
        PROVE  /\ l.seen[x] <= rows'[x].ver
               /\ l.seen[x] = rows'[x].ver => ShownInMap(l.answer, x) = Wanted(x)'
    <3>1. /\ l.seen[x] <= rows[x].ver
          /\ l.seen[x] = rows[x].ver => ShownInMap(l.answer, x) = Wanted(x)
      BY <1>6, <2>2 DEF SyncInv, AllFaithful, Faithful
    <3>2. l.seen[x] \in Nat
      <4>1. Range(loads) \subseteq LoadRec
        BY RangeOfSeq DEF SyncInv, ClientOK
      <4>. QED  BY <1>6, <2>2, <4>1 DEF LoadRec, Version
    <3>3. CASE x = b
      BY <1>3, <2>1, <3>1, <3>2, <3>3
    <3>4. CASE x # b
      BY <2>1, <3>1, <3>4
    <3>. QED  BY <3>3, <3>4
  <2>3. ASSUME NEW x \in Block
        PROVE  given'[x] <= rows'[x].ver
    <3>1. given[x] <= rows[x].ver /\ given[x] \in Nat
      BY HeldType DEF SyncInv, AllFaithful, Version
    <3>. QED  BY <1>3, <1>6, <2>1, <3>1
  <2>. QED  BY <2>2, <2>3 DEF AllFaithful, Faithful
<1>12. NotMissed'
  <2>. SUFFICES ASSUME NEW x \in Block, x \notin missed'
                PROVE  Fresh(x)'
    BY DEF NotMissed
  <2>1. CASE x = b
    <3>1. LastOf(x)' = c
      BY <2>1 DEF LastOf, c
    <3>. QED  BY <1>7, <3>1 DEF Fresh
  <2>2. CASE x # b
    <3>1. rows'[x] = rows[x] /\ Wanted(x)' = Wanted(x) /\ LastOf(x)' = LastOf(x)
      BY <1>3, <2>2 DEF Wanted, LastOf, Change
    <3>2. Fresh(x)
      BY <1>5, <2>2 DEF SyncInv, NotMissed
    <3>. QED  BY <1>6, <1>7, <3>1, <3>2 DEF Fresh
  <2>. QED  BY <2>1, <2>2
<1>. QED  BY <1>8, <1>9, <1>10, <1>11, <1>12 DEF SyncInv

\* The rest of a step that leaves the rows and the loads alone.
LEMMA RowsKept ==
    ASSUME SyncInv, UNCHANGED <<rows, loads>>
    PROVE  /\ \A x : (Genuine(x)' <=> Genuine(x)) /\ Wanted(x)' = Wanted(x) /\ LastOf(x)' = LastOf(x)
           /\ \A l \in Range(loads') : Faithful(l)'
           /\ UNCHANGED given => AllFaithful'
<1>1. \A x : (Genuine(x)' <=> Genuine(x)) /\ Wanted(x)' = Wanted(x) /\ LastOf(x)' = LastOf(x)
  BY DEF Genuine, Wanted, LastOf, Change
<1>2. \A l : Faithful(l)' <=> Faithful(l)
  BY DEF Faithful, Wanted
<1>3. \A l \in Range(loads') : Faithful(l)'
  BY <1>2 DEF SyncInv, AllFaithful
<1>4. UNCHANGED given => AllFaithful'
  BY <1>3 DEF SyncInv, AllFaithful
<1>. QED  BY <1>1, <1>3, <1>4

\* A broadcast reaches the client, or its change is lost.
LEMMA BroadcastSyncs ==
    ASSUME SyncInv, NEW i \in DOMAIN outbox, Broadcast(i)
    PROVE  SyncInv'
<1>. DEFINE c    == outbox[i]
            t    == TeamOf[BoardOf[c.id]]
            told == link = "open" /\ t \in served
            m    == [team |-> t, block |-> c]
<1>1. /\ outbox' = RemoveAt(outbox, i)
      /\ down' = IF told THEN Append(down, m) ELSE down
      /\ missed' = IF told THEN missed ELSE missed \cup Lost({c})
  BY DEF Broadcast
<1>2. UNCHANGED <<rows, queued, loads, store, given>>
  BY DEF Broadcast, wsClient
<1>3. /\ outbox \in Seq(ChangeRec) /\ down \in Seq(Frame)
      /\ rows \in [Block -> [ver : Version, live : BOOLEAN]]
  BY HeldType
<1>4. /\ c \in ChangeRec
      /\ outbox' \in Seq(ChangeRec) /\ Range(outbox') \subseteq Range(outbox)
      /\ \A j \in DOMAIN outbox : j # i => outbox[j] \in Range(outbox')
  BY <1>1, <1>3, RemoveOne
<1>5. m \in Frame /\ m.block = c
  BY <1>4, SyncAssumption DEF ChangeRec, Frame
<1>6. \A x \in Range(outbox) : Genuine(x)
  BY DEF SyncInv, AllGenuine
<1>7. c \in Range(outbox)
  BY DEF Range
<1>8. \A x \in Range(outbox) : x = c \/ x \in Range(outbox')
  BY <1>4 DEF Range
<1>. HIDE DEF c, t, told, m
<1>9. /\ down' \in Seq(Frame) /\ Range(down) \subseteq Range(down')
      /\ Range(down') \subseteq Range(down) \cup {m} /\ (told => m \in Range(down'))
  BY <1>1, <1>3, <1>5, AppendNew, AppendProperties
<1>10. ServerOK'
  BY <1>2, <1>4 DEF SyncInv, ServerOK
<1>11. ClientOK'
  BY <1>2, <1>9 DEF SyncInv, ClientOK
<1>12. AllGenuine'
  <2>1. \A x : Genuine(x)' <=> Genuine(x)
    BY <1>2, RowsKept
  <2>. QED  BY <1>2, <1>4, <1>5, <1>6, <1>7, <1>9, <2>1 DEF SyncInv, AllGenuine
<1>13. AllFaithful'
  BY <1>2, RowsKept
<1>14. NotMissed'
  <2>. SUFFICES ASSUME NEW b \in Block, b \notin missed'
                PROVE  Fresh(b)'
    BY DEF NotMissed
  <2>1. LastOf(b)' = LastOf(b) /\ Wanted(b)' = Wanted(b)
    BY <1>2, RowsKept
  <2>2. Fresh(b)
    BY <1>1 DEF SyncInv, NotMissed
  <2>3. CASE LastOf(b) = c
    <3>1. b = c.id /\ Newest(c)
      BY <1>3, <1>4, <1>6, <1>7, <2>3, GenuineLast
    <3>2. told
      BY <1>1, <3>1 DEF Lost
    <3>. QED  BY <1>5, <1>9, <2>1, <2>3, <3>2 DEF Fresh
  <2>4. CASE LastOf(b) # c
    BY <1>2, <1>8, <1>9, <2>1, <2>2, <2>4 DEF Fresh
  <2>. QED  BY <2>3, <2>4
<1>. QED  BY <1>10, <1>11, <1>12, <1>13, <1>14 DEF SyncInv

\* With the connection, the frames on the way are lost.
LEMMA ClosedSyncs == SyncInv /\ Closed => SyncInv'
<1>. SUFFICES ASSUME SyncInv, Closed PROVE SyncInv'
  OBVIOUS
<1>1. /\ down' = <<>> /\ missed' = missed \cup Lost({down[i].block : i \in DOMAIN down})
      /\ UNCHANGED <<rows, outbox, queued, loads, store, given>>
  BY DEF Closed, server, wsClient
<1>2. ServerOK'
  BY <1>1 DEF SyncInv, ServerOK
<1>3. ClientOK'
  BY <1>1, Nothing DEF SyncInv, ClientOK
<1>4. AllGenuine'
  <2>1. \A x : Genuine(x)' <=> Genuine(x)
    BY <1>1, RowsKept
  <2>. QED  BY <1>1, <2>1, Nothing DEF SyncInv, AllGenuine
<1>5. AllFaithful'
  BY <1>1, RowsKept
<1>6. NotMissed'
  <2>. SUFFICES ASSUME NEW b \in Block, b \notin missed'
                PROVE  Fresh(b)'
    BY DEF NotMissed
  <2>1. LastOf(b)' = LastOf(b) /\ Wanted(b)' = Wanted(b)
    BY <1>1, RowsKept
  <2>2. Fresh(b)
    BY <1>1 DEF SyncInv, NotMissed
  <2>3. ASSUME NEW m \in Range(down), m.block = LastOf(b)
        PROVE  FALSE
    <3>1. m.block \in ChangeRec /\ Genuine(m.block)
      BY HeldType DEF SyncInv, AllGenuine
    <3>2. m.block.id = b /\ Newest(m.block)
      BY <2>3, <3>1, HeldType, GenuineLast
    <3>3. m.block \in {down[i].block : i \in DOMAIN down}
      BY DEF Range
    <3>. QED  BY <1>1, <3>2, <3>3 DEF Lost
  <2>. QED  BY <1>1, <2>1, <2>2, <2>3 DEF Fresh
<1>. QED  BY <1>2, <1>3, <1>4, <1>5, <1>6 DEF SyncInv

\* A message moves from the wire to the batch, or its change is lost.
LEMMA ReceiveSyncs == SyncInv /\ Receive => SyncInv'
<1>. SUFFICES ASSUME SyncInv, Receive PROVE SyncInv'
  OBVIOUS
<1>. DEFINE m == Head(down)
            c == m.block
            q == queued.blocks
            p == queued'.blocks
            Older == {x.id : x \in {y \in Range(q) : y.id = c.id /\ y.ver > c.ver}}
<1>1. /\ down # <<>> /\ down' = Tail(down)
      /\ m.team # team => missed' = missed \cup Lost({c}) /\ queued' = queued
      /\ m.team = team => missed' = missed \cup Older
                          /\ queued' = QueueUpdate(queued, "block", c)
      /\ UNCHANGED <<rows, outbox, loads, store, given>>
  <2>1. down # <<>> /\ down' = Tail(down)
    BY DEF Receive
  <2>2. UNCHANGED <<rows, outbox, loads, store, given>>
    BY DEF Receive, server
  <2>3. ASSUME m.team # team PROVE missed' = missed \cup Lost({c}) /\ queued' = queued
    BY <2>3 DEF Receive
  <2>4. ASSUME m.team = team
        PROVE  missed' = missed \cup Older /\ queued' = QueueUpdate(queued, "block", c)
    BY <2>4 DEF Receive
  <2>. QED  BY <2>1, <2>2, <2>3, <2>4
<1>2. /\ q \in Seq(ChangeRec) /\ Distinct(q) /\ queued \in Updates /\ down \in Seq(Frame)
      /\ rows \in [Block -> [ver : Version, live : BOOLEAN]] /\ Range(q) \subseteq ChangeRec
  BY HeldType DEF SyncInv, ClientOK
<1>3. m \in Frame /\ down' \in Seq(Frame) /\ Range(down) = {m} \cup Range(down')
  BY <1>1, <1>2, HeadAndTail
<1>4. c \in ChangeRec /\ Genuine(c)
  BY <1>3 DEF Frame, SyncInv, AllGenuine
<1>. HIDE DEF m, c, Older
<1>5. ServerOK'
  BY <1>1 DEF SyncInv, ServerOK
<1>6. AllFaithful'
  BY <1>1, RowsKept
<1>7. \A x : (Genuine(x)' <=> Genuine(x)) /\ Wanted(x)' = Wanted(x) /\ LastOf(x)' = LastOf(x)
  BY <1>1, RowsKept
<1>8. \A b \in Block : LastOf(b) = c => b = c.id /\ Newest(c)
  BY <1>2, <1>4, GenuineLast
<1>9. \A b \in Block : (\E x \in Range(down) : x.block = LastOf(b)) =>
                          LastOf(b) = c \/ \E x \in Range(down') : x.block = LastOf(b)
  BY <1>3 DEF c
<1>10. CASE m.team # team
  <2>1. ClientOK'
    BY <1>1, <1>3, <1>10 DEF SyncInv, ClientOK
  <2>2. AllGenuine'
    BY <1>1, <1>3, <1>7, <1>10 DEF SyncInv, AllGenuine
  <2>3. NotMissed'
    <3>. SUFFICES ASSUME NEW b \in Block, b \notin missed'
                  PROVE  Fresh(b)'
      BY DEF NotMissed
    <3>1. Fresh(b)
      BY <1>1, <1>10 DEF SyncInv, NotMissed
    <3>2. LastOf(b) # c
      BY <1>1, <1>8, <1>10 DEF Lost
    <3>. QED  BY <1>1, <1>7, <1>9, <1>10, <3>1, <3>2 DEF Fresh
  <2>. QED  BY <1>5, <1>6, <2>1, <2>2, <2>3 DEF SyncInv
<1>11. CASE m.team = team
  <2>1. queued' = [queued EXCEPT !.blocks = Renew(@, c)]
    BY <1>1, <1>11 DEF QueueUpdate
  <2>2. p = Renew(q, c)
    BY <1>2, <2>1 DEF Updates
  <2>. HIDE DEF p, q
  <2>3. /\ p \in Seq(ChangeRec) /\ Distinct(p)
        /\ \A e : e \in Range(p) <=> e = c \/ (e \in Range(q) /\ e.id # c.id)
    BY <1>2, <1>4, <2>2, RenewProperties
  <2>4. ClientOK'
    <3>1. queued' \in Updates
      BY <1>2, <2>1, <2>2, <2>3 DEF Updates, Lists, q
    <3>. QED  BY <1>1, <1>3, <2>3, <3>1 DEF SyncInv, ClientOK, p
  <2>5. AllGenuine'
    <3>1. \A x \in Range(p) : Genuine(x)
      BY <1>4, <2>3 DEF SyncInv, AllGenuine, q
    <3>. QED  BY <1>1, <1>3, <1>7, <3>1 DEF SyncInv, AllGenuine, p
  <2>6. NotMissed'
    <3>. SUFFICES ASSUME NEW b \in Block, b \notin missed'
                  PROVE  Fresh(b)'
      BY DEF NotMissed
    <3>1. Fresh(b) /\ b \notin Older
      BY <1>1, <1>11 DEF SyncInv, NotMissed
    <3>2. ASSUME LastOf(b) \in Range(q)
          PROVE  LastOf(b) \in Range(p)
      <4>. DEFINE e == LastOf(b)
      <4>1. e \in ChangeRec /\ Genuine(e) /\ e.id = b /\ e.ver = rows[b].ver
        BY <1>2, <3>2 DEF SyncInv, AllGenuine, LastOf, Change, q
      <4>. HIDE DEF e
      <4>2. CASE c.id # b
        BY <2>3, <3>2, <4>1, <4>2 DEF e
      <4>3. CASE c.id = b
        <5>1. ~(e.ver > c.ver)
          BY <3>1, <3>2, <4>1, <4>3 DEF Older, q, e
        <5>2. Newest(c)
          BY <1>2, <1>4, <4>1, <4>3, <5>1, GenuineLast
        <5>3. c = LastOf(b)
          BY <1>2, <1>4, <4>3, <5>2, GenuineLast
        <5>. QED  BY <2>3, <5>3
      <4>. QED  BY <4>2, <4>3
    <3>3. LastOf(b) = c => LastOf(b) \in Range(p)
      BY <2>3
    <3>. QED  BY <1>1, <1>7, <1>9, <3>1, <3>2, <3>3 DEF Fresh, p, q
  <2>. QED  BY <1>5, <1>6, <2>4, <2>5, <2>6 DEF SyncInv
<1>. QED  BY <1>10, <1>11

\* The batch is merged: what it says is shown, but for what is left out or older.
LEMMA FlushSyncs == SyncInv /\ Flush => SyncInv'
<1>. SUFFICES ASSUME SyncInv, Flush PROVE SyncInv'
  OBVIOUS
<1>. DEFINE q == queued.blocks
            batch == Range(q)
            out == (UNION {LeftOut(k, store.listed[k], Share(k, q)) : k \in ListedKinds})
            Older == {c.id : c \in {x \in batch : x.ver < given[x.id]}}
<1>1. /\ store' = ApplyBatch(store, q) /\ queued' = NoUpdates
      /\ missed' = (missed \ {c.id : c \in {x \in batch : Newest(x)}}) \cup out \cup Older
      /\ given' = [b \in Block |-> IF \E c \in batch : c.id = b
                                  THEN (CHOOSE c \in batch : c.id = b).ver ELSE given[b]]
      /\ UNCHANGED <<rows, outbox, down, loads>>
  BY DEF Flush, server, socket
<1>2. /\ q \in Seq(ChangeRec) /\ Distinct(q) /\ StoreOK(store) /\ batch \subseteq ChangeRec
      /\ rows \in [Block -> [ver : Version, live : BOOLEAN]] /\ given \in [Block -> Version]
      /\ \A c \in batch : Genuine(c)
  BY HeldType DEF SyncInv, ClientOK, AllGenuine
<1>3. \A c, d \in batch : c.id = d.id => c = d
  BY <1>2 DEF Distinct, Range
<1>. HIDE DEF out
<1>4. /\ StoreOK(store')
      /\ \A b \in Block : Silent(q, b) => Shown(store', b) = Shown(store, b)
      /\ \A i \in DOMAIN q : q[i].id \notin out => Shown(store', q[i].id) = Value(q[i])
  BY <1>1, <1>2, BatchShows DEF out
<1>5. /\ \A b \in Block : (\A c \in batch : c.id # b) => Shown(store', b) = Shown(store, b)
      /\ \A c \in batch : c.id \notin out => Shown(store', c.id) = Value(c)
  BY <1>4 DEF Silent, Range
<1>. HIDE DEF q, batch, Older
<1>6. /\ \A c \in batch : given'[c.id] = c.ver
      /\ \A b \in Block : (\A c \in batch : c.id # b) => given'[b] = given[b]
  <2>1. ASSUME NEW c \in batch
        PROVE  given'[c.id] = c.ver
    <3>1. c.id \in Block
      BY <1>2 DEF ChangeRec
    <3>2. (CHOOSE d \in batch : d.id = c.id) = c
      BY <1>3
    <3>. QED  BY <1>1, <3>1, <3>2
  <2>. QED  BY <1>1, <2>1
<1>7. /\ queued'.blocks = <<>> /\ Range(queued'.blocks) = {} /\ Distinct(queued'.blocks)
      /\ queued' \in Updates
  BY <1>1, Nothing DEF NoUpdates, Updates, Lists, Distinct
<1>8. ServerOK'
  BY <1>1 DEF SyncInv, ServerOK
<1>9. \A b \in Block : given'[b] \in Version /\ given'[b] <= rows'[b].ver
  <2>. SUFFICES ASSUME NEW b \in Block
                PROVE  given'[b] \in Version /\ given'[b] <= rows[b].ver
    BY <1>1
  <2>1. ASSUME NEW c \in batch, c.id = b
        PROVE  given'[b] \in Version /\ given'[b] <= rows[b].ver
    BY <1>2, <1>6, <2>1 DEF Genuine, ChangeRec
  <2>2. CASE \A c \in batch : c.id # b
    BY <1>2, <1>6, <2>2 DEF SyncInv, AllFaithful
  <2>. QED  BY <2>1, <2>2
<1>10. ClientOK'
  <2>1. given' \in [Block -> Version]
    <3>1. given' = [b \in Block |-> given'[b]]
      BY <1>1
    <3>. QED  BY <1>9, <3>1
  <2>. QED  BY <1>1, <1>4, <1>7, <2>1 DEF SyncInv, ClientOK
<1>11. AllGenuine'
  <2>1. \A x : Genuine(x)' <=> Genuine(x)
    BY <1>1, RowsKept
  <2>. QED  BY <1>1, <1>7, <2>1 DEF SyncInv, AllGenuine
<1>12. AllFaithful'
  <2>1. \A l \in Range(loads') : Faithful(l)'
    BY <1>1, RowsKept
  <2>. QED  BY <1>9, <2>1 DEF AllFaithful
<1>13. NotMissed'
  <2>. SUFFICES ASSUME NEW b \in Block, b \notin missed'
                PROVE  Fresh(b)'
    BY DEF NotMissed
  <2>1. LastOf(b)' = LastOf(b) /\ Wanted(b)' = Wanted(b) /\ rows'[b] = rows[b]
    BY <1>1, RowsKept
  <2>2. b \notin out /\ b \notin Older
    BY <1>1
  <2>3. ASSUME NEW c \in batch, c.id = b, Newest(c)
        PROVE  Fresh(b)'
    <3>1. Shown(store', b) = Wanted(b)
      BY <1>2, <1>5, <2>2, <2>3, GenuineLast
    <3>2. given'[b] = rows[b].ver
      BY <1>6, <2>3 DEF Newest
    <3>. QED  BY <2>1, <3>1, <3>2 DEF Fresh
  <2>4. CASE \A c \in batch : c.id = b => ~Newest(c)
    <3>1. b \notin missed
      BY <1>1, <2>2, <2>4
    <3>2. Fresh(b)
      BY <3>1 DEF SyncInv, NotMissed
    <3>3. LastOf(b) \notin batch
      BY <2>4 DEF LastOf, Change, Newest
    <3>4. ASSUME given[b] = rows[b].ver, Shown(store, b) = Wanted(b)
          PROVE  given'[b] = rows[b].ver /\ Shown(store', b) = Wanted(b)
      <4>1. ASSUME NEW c \in batch, c.id = b
            PROVE  FALSE
        <5>1. c.ver < rows[c.id].ver
          BY <1>2, <2>4, <4>1, GenuineLast
        <5>. QED  BY <2>2, <3>4, <4>1, <5>1 DEF Older
      <4>. QED  BY <1>5, <1>6, <3>4, <4>1
    <3>. QED  BY <1>1, <2>1, <3>2, <3>3, <3>4 DEF Fresh, batch, q
  <2>. QED  BY <2>3, <2>4
<1>. QED  BY <1>8, <1>10, <1>11, <1>12, <1>13 DEF SyncInv

\* A load replaces the store by what the server had when it answered.
LEMMA MergeSyncs ==
    ASSUME SyncInv, NEW i \in DOMAIN loads, Merge(i)
    PROVE  SyncInv'
<1>. DEFINE l == loads[i]
<1>1. /\ store' = LoadSlices(l.answer) /\ given' = l.seen
      /\ missed' = (missed \ {b \in Block : l.seen[b] = rows[b].ver})
                       \cup {b \in Block : l.seen[b] < given[b]}
      /\ loads' = IF l.answer = NoMap /\ ~l.retry
                  THEN Append(RemoveAt(loads, i), Load(l.board, TRUE))
                  ELSE RemoveAt(loads, i)
  BY DEF Merge
<1>2. UNCHANGED <<rows, outbox, down, queued>>
  BY DEF Merge, server, socket, wsClient
<1>3. loads \in Seq(LoadRec)
  BY DEF SyncInv, ClientOK
<1>4. /\ RemoveAt(loads, i) \in Seq(LoadRec) /\ l \in LoadRec /\ l \in Range(loads)
      /\ Range(RemoveAt(loads, i)) \subseteq Range(loads)
  BY <1>3, RemoveOne DEF Range
<1>5. /\ rows \in [Block -> [ver : Version, live : BOOLEAN]] /\ given \in [Block -> Version]
      /\ \A b \in Block : given[b] <= rows[b].ver
  BY HeldType DEF SyncInv, AllFaithful
<1>6. Faithful(l)
  BY <1>4 DEF SyncInv, AllFaithful
<1>. HIDE DEF l
<1>7. /\ l.seen \in [Block -> Version] /\ l.answer \in Answers /\ l.board \in Board
  BY <1>4 DEF LoadRec
<1>8. Load(l.board, TRUE) \in LoadRec
  BY <1>7, NoMapType DEF Load, LoadRec, Version
<1>9. Faithful(Load(l.board, TRUE))
  <2>1. \A b \in Block : rows[b].ver \in Nat /\ 0 <= rows[b].ver
    BY <1>5 DEF Version
  <2>2. \A b \in Block : rows[b].ver = 0 => Wanted(b) = 0
    BY DEF Wanted
  <2>3. \A b \in Block : ShownInMap(NoMap, b) = 0
    BY DEF NoMap, ShownInMap
  <2>. QED  BY <2>1, <2>2, <2>3 DEF Faithful, Load
<1>10. /\ loads' \in Seq(LoadRec)
       /\ Range(loads') \subseteq Range(loads) \cup {Load(l.board, TRUE)}
  <2>. DEFINE r == RemoveAt(loads, i)
              n == Load(l.board, TRUE)
  <2>. HIDE DEF r, n
  <2>0. r \in Seq(LoadRec) /\ Range(r) \subseteq Range(loads) /\ n \in LoadRec
    BY <1>4, <1>8 DEF r, n
  <2>1. Append(r, n) \in Seq(LoadRec) /\ Range(Append(r, n)) = Range(r) \cup {n}
    BY <2>0, AppendNew, AppendProperties
  <2>2. loads' = Append(r, n) \/ loads' = r
    BY <1>1 DEF r, n
  <2>3. loads' \in Seq(LoadRec) /\ Range(loads') \subseteq Range(loads) \cup {n}
    BY <2>0, <2>1, <2>2
  <2>. QED  BY <2>3 DEF n
<1>11. ServerOK'
  BY <1>2 DEF SyncInv, ServerOK
<1>12. ClientOK'
  <2>1. StoreOK(store')
    BY <1>1, <1>7, LoadedStore
  <2>. QED  BY <1>1, <1>2, <1>7, <1>10, <2>1 DEF SyncInv, ClientOK
<1>13. AllGenuine'
  BY <1>2 DEF SyncInv, AllGenuine, Genuine
<1>14. AllFaithful'
  <2>1. \A x : Faithful(x)' <=> Faithful(x)
    BY <1>2 DEF Faithful, Wanted
  <2>2. \A x \in Range(loads') : Faithful(x)
    BY <1>9, <1>10 DEF SyncInv, AllFaithful
  <2>3. \A b \in Block : given'[b] <= rows'[b].ver
    BY <1>1, <1>2, <1>6 DEF Faithful
  <2>. QED  BY <2>1, <2>2, <2>3 DEF AllFaithful
<1>15. NotMissed'
  <2>. SUFFICES ASSUME NEW b \in Block, b \notin missed'
                PROVE  Fresh(b)'
    BY DEF NotMissed
  <2>1. LastOf(b)' = LastOf(b) /\ Wanted(b)' = Wanted(b) /\ rows'[b] = rows[b]
    BY <1>2 DEF LastOf, Change, Wanted
  <2>2. CASE l.seen[b] = rows[b].ver
    <3>1. Shown(store', b) = ShownInMap(l.answer, b)
      BY <1>1, <1>7, LoadedStore
    <3>. QED  BY <1>1, <1>6, <2>1, <2>2, <3>1 DEF Fresh, Faithful
  <2>3. CASE l.seen[b] # rows[b].ver
    <3>1. Fresh(b) /\ ~(l.seen[b] < given[b])
      BY <1>1, <2>3 DEF SyncInv, NotMissed
    <3>2. given[b] # rows[b].ver
      <4>1. l.seen[b] \in Nat /\ given[b] \in Nat /\ rows[b].ver \in Nat
        BY <1>5, <1>7 DEF Version
      <4>2. l.seen[b] <= rows[b].ver /\ given[b] <= rows[b].ver
        BY <1>5, <1>6 DEF Faithful
      <4>. QED  BY <2>3, <3>1, <4>1, <4>2
    <3>. QED  BY <1>2, <2>1, <3>1, <3>2 DEF Fresh
  <2>. QED  BY <2>2, <2>3
<1>. QED  BY <1>11, <1>12, <1>13, <1>14, <1>15 DEF SyncInv

\* The server answers a load with what it has.
LEMMA AnswerSyncs ==
    ASSUME SyncInv, NEW i \in DOMAIN loads, Answer(i)
    PROVE  SyncInv'
<1>. DEFINE E == {x \in BlocksOf(loads[i].board) : rows[x].live}
            a == [b \in E |-> rows[b].ver]
            z == [b \in Block |-> IF BoardOf[b] = loads[i].board THEN rows[b].ver ELSE 0]
            l == [loads[i] EXCEPT !.phase = "answered", !.answer = a, !.seen = z]
<1>1. UNCHANGED <<rows, outbox, down, queued, store, given, missed>>
  BY DEF Answer, server, socket, wsClient
<1>2. /\ rows \in [Block -> [ver : Version, live : BOOLEAN]] /\ loads \in Seq(LoadRec)
      /\ IsFiniteSet({b \in Block : rows[b].live})
  BY DEF SyncInv, ServerOK, ClientOK
<1>3. a \in Answers
  <2>1. E \subseteq {b \in Block : rows[b].live}
    BY DEF BlocksOf
  <2>2. IsFiniteSet(E) /\ E \in SUBSET Block
    BY <1>2, <2>1, FS_Subset
  <2>3. a \in [E -> Version]
    BY <1>2, <2>1
  <2>. QED  BY <2>2, <2>3 DEF Answers
<1>4. z \in [Block -> Version]
  BY <1>2 DEF Version
<1>5. loads' = [loads EXCEPT ![i] = l] /\ loads[i] \in LoadRec
  BY <1>2, RemoveOne DEF Answer
<1>6. \A b \in Block : /\ b \in E <=> BoardOf[b] = loads[i].board /\ rows[b].live
                       /\ b \in E => a[b] = rows[b].ver
  BY DEF BlocksOf
<1>7. DOMAIN a = E
  OBVIOUS
<1>8. \A b \in Block : z[b] = IF BoardOf[b] = loads[i].board THEN rows[b].ver ELSE 0
  OBVIOUS
<1>. HIDE DEF E, a, z
<1>9. l \in LoadRec /\ l.answer = a /\ l.seen = z
  BY <1>3, <1>4, <1>5 DEF LoadRec
<1>10. Faithful(l)
  <2>. SUFFICES ASSUME NEW b \in Block
                PROVE  /\ z[b] <= rows[b].ver
                       /\ z[b] = rows[b].ver => ShownInMap(a, b) = Wanted(b)
    BY <1>9 DEF Faithful
  <2>1. rows[b].ver \in Nat /\ rows[b].live \in BOOLEAN
    BY <1>2 DEF Version
  <2>2. CASE BoardOf[b] = loads[i].board
    BY <1>6, <1>7, <1>8, <2>1, <2>2 DEF ShownInMap, Wanted
  <2>3. CASE BoardOf[b] # loads[i].board
    BY <1>6, <1>7, <1>8, <2>1, <2>3 DEF ShownInMap, Wanted
  <2>. QED  BY <2>2, <2>3
<1>. HIDE DEF l
<1>11. loads' \in Seq(LoadRec)
  BY <1>2, <1>5, <1>9, ExceptSeq, LenProperties
<1>12. \A x \in Range(loads') : x = l \/ x \in Range(loads)
  BY <1>2, <1>5, LenProperties DEF Range
<1>13. \A x \in Range(loads') : Faithful(x)
  BY <1>10, <1>12 DEF SyncInv, AllFaithful
<1>. QED  BY <1>1, <1>11, <1>13, QuietSync

\* Every step.
LEMMA SyncStep == SyncInv /\ [Next]_vars => SyncInv'
<1>. SUFFICES ASSUME SyncInv, [Next]_vars PROVE SyncInv'
  OBVIOUS
<1>0. loads \in Seq(LoadRec) /\ \A l \in Range(loads) : Faithful(l)
  BY DEF SyncInv, ClientOK, AllFaithful
<1>1. ASSUME NEW b \in Block, Edit(b) PROVE SyncInv'
  BY <1>1, EditSyncs
<1>2. ASSUME NEW i \in DOMAIN outbox, Broadcast(i) PROVE SyncInv'
  BY <1>2, BroadcastSyncs
<1>3. CASE Serve
  <2>1. UNCHANGED <<rows, outbox, down, queued, store, given, missed, loads>>
    BY <1>3 DEF Serve, server, wsClient
  <2>. QED  BY <1>0, <2>1, QuietSync
<1>4. ASSUME NEW i \in DOMAIN loads, Answer(i) PROVE SyncInv'
  BY <1>4, AnswerSyncs
<1>5. ASSUME NEW i \in DOMAIN loads, Loaded(i) \/ LoadRefused(i) PROVE SyncInv'
  BY <1>5, MergeSyncs DEF Loaded, LoadRefused
<1>6. ASSUME NEW i \in DOMAIN loads, LoadRejected(i) PROVE SyncInv'
  <2>1. /\ loads' = RemoveAt(loads, i)
        /\ UNCHANGED <<rows, outbox, down, queued, store, given, missed>>
    BY <1>6 DEF LoadRejected, server, socket, wsClient
  <2>. QED  BY <1>0, <2>1, RemoveOne, QuietSync
<1>7. CASE Opened
  <2>1. UNCHANGED <<rows, outbox, down, queued, store, given, missed, loads>>
    BY <1>7 DEF Opened, server, wsClient
  <2>. QED  BY <1>0, <2>1, QuietSync
<1>8. CASE Closed
  BY <1>8, ClosedSyncs
<1>9. CASE Reopen
  <2>1. UNCHANGED <<rows, outbox, down, queued, store, given, missed, loads>>
    BY <1>9 DEF Reopen, server, wsClient
  <2>. QED  BY <1>0, <2>1, QuietSync
<1>10. CASE ShowBanner
  <2>1. UNCHANGED <<rows, outbox, down, queued, store, given, missed, loads>>
    BY <1>10 DEF ShowBanner, server, wsClient
  <2>. QED  BY <1>0, <2>1, QuietSync
<1>11. CASE Receive
  BY <1>11, ReceiveSyncs
<1>12. CASE Flush
  BY <1>12, FlushSyncs
<1>13. ASSUME NEW b \in Board, Navigate(b) PROVE SyncInv'
  <2>1. /\ loads' = Append(loads, Load(b, FALSE))
        /\ UNCHANGED <<rows, outbox, down, queued, store, given, missed>>
    BY <1>13 DEF Navigate, server
  <2>2. Load(b, FALSE) \in LoadRec
    BY NoMapType DEF Load, LoadRec, Version
  <2>3. Faithful(Load(b, FALSE))
    <3>1. \A x \in Block : rows[x].ver \in Nat /\ 0 <= rows[x].ver
      BY HeldType DEF Version
    <3>2. \A x \in Block : rows[x].ver = 0 => Wanted(x) = 0
      BY DEF Wanted
    <3>3. \A x \in Block : ShownInMap(NoMap, x) = 0
      BY DEF NoMap, ShownInMap
    <3>. QED  BY <3>1, <3>2, <3>3 DEF Faithful, Load
  <2>4. loads' \in Seq(LoadRec) /\ Range(loads') = Range(loads) \cup {Load(b, FALSE)}
    BY <1>0, <2>1, <2>2, AppendNew, AppendProperties
  <2>. QED  BY <1>0, <2>1, <2>3, <2>4, QuietSync
<1>14. CASE UNCHANGED vars
  <2>1. UNCHANGED <<rows, outbox, down, queued, store, given, missed, loads>>
    BY <1>14 DEF vars
  <2>. QED  BY <1>0, <2>1, QuietSync
<1>. QED  BY <1>1, <1>2, <1>3, <1>4, <1>5, <1>6, <1>7, <1>8, <1>9, <1>10, <1>11, <1>12,
             <1>13, <1>14 DEF Next

\* The invariant of the synchronization.
LEMMA SyncInvariant == Spec => []SyncInv
BY SyncInit, SyncStep, PTL DEF Spec

\* CaughtUp: when nothing is on its way, the page shows every block of its board as the
\* server has it, but for those whose last change was lost, left out, or followed by
\* an older version (Broadcast, Closed, Receive, Flush, Merge).
THEOREM CaughtUpCorrect == Spec => []CaughtUp
<1>1. SyncInv => CaughtUp
  <2>. SUFFICES ASSUME SyncInv, outbox = <<>>, down = <<>>, queued.blocks = <<>>,
                       NEW b \in BlocksOf(page) \ missed
                PROVE  Shown(store, b) = Wanted(b)
    BY DEF CaughtUp
  <2>1. Fresh(b)
    BY DEF SyncInv, NotMissed, BlocksOf
  <2>. QED  BY <2>1, Nothing DEF Fresh
<1>. QED  BY <1>1, SyncInvariant, PTL
=============================================================================
