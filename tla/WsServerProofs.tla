---------------------------- MODULE WsServerProofs ----------------------------
(***************************************************************************)
(* For every set of sessions, users, teams and blocks: the maps of the     *)
(* websocket server agree with the sessions' own lists, a broadcast goes   *)
(* only to sessions it is meant for, and to all that stay entitled to it.  *)
(***************************************************************************)
EXTENDS WsServer, SequenceLemmas

(***************************************************************************)
(* The loop of removeListenerFromTeam.  Without is defined by recursion;   *)
(* that the recursion defines a function, and what it computes, is proved  *)
(* by looking at the least index at which it would fail.                   *)
(***************************************************************************)

\* What a round of the loop makes of the list so far.
Round(q, s, i, list) == IF q[i] # s THEN Append(list, q[i]) ELSE list

\* f is the function that the first n rounds compute.
Rounds(q, s, n, f) ==
    f = [i \in 0 .. n |-> IF i = 0 THEN <<>> ELSE Round(q, s, i, f[i - 1])]

LEMMA RoundsExist ==
    ASSUME NEW q, NEW s, NEW n \in Nat
    PROVE  \E f : Rounds(q, s, n, f)
<1>. DEFINE T == {m \in Nat : ~ \E f : Rounds(q, s, m, f)}
<1>. SUFFICES ASSUME T # {}
              PROVE  FALSE
  OBVIOUS
<1>1. PICK m \in T : \A k \in T : m <= k
  BY Least
<1>2. CASE m = 0
  <2>1. Rounds(q, s, 0, [i \in 0 .. 0 |-> <<>>])
    BY DEF Rounds
  <2>. QED  BY <1>1, <1>2, <2>1
<1>3. CASE m # 0
  <2>1. m - 1 \in Nat /\ m - 1 \notin T
    BY <1>1, <1>3
  <2>2. PICK f : Rounds(q, s, m - 1, f)
    BY <2>1
  <2>. DEFINE g == [i \in 0 .. m |-> IF i = m THEN Round(q, s, m, f[m - 1]) ELSE f[i]]
  <2>3. \A i \in 0 .. m : i # m => i \in 0 .. (m - 1) /\ (i # 0 => i - 1 \in 0 .. (m - 1))
    BY <2>1
  <2>4. \A i \in 0 .. (m - 1) : f[i] = IF i = 0 THEN <<>> ELSE Round(q, s, i, f[i - 1])
    BY <2>2 DEF Rounds
  <2>5. \A i \in 0 .. (m - 1) : g[i] = f[i] /\ i \in 0 .. m
    BY <2>1
  <2>6. m \in 0 .. m /\ m - 1 \in 0 .. (m - 1)
    BY <2>1
  <2>7. \A i \in 0 .. m : g[i] = IF i = 0 THEN <<>> ELSE Round(q, s, i, g[i - 1])
    BY <1>3, <2>3, <2>4, <2>5, <2>6
  <2>8. g = [i \in 0 .. m |-> IF i = 0 THEN <<>> ELSE Round(q, s, i, g[i - 1])]
    BY <2>7
  <2>. QED  BY <1>1, <2>8 DEF Rounds
<1>. QED  BY <1>2, <1>3

\* Removing a listener leaves every other one, once if it was there once.
LEMMA WithoutProperties ==
    ASSUME NEW S, NEW q \in Seq(S), NEW s
    PROVE  /\ Without(q, s) \in Seq(S)
           /\ Range(Without(q, s)) = Range(q) \ {s}
           /\ IsInjective(q) => IsInjective(Without(q, s))
<1>. DEFINE f == CHOOSE g : Rounds(q, s, Len(q), g)
<1>1. Len(q) \in Nat /\ DOMAIN q = 1 .. Len(q) /\ \A i \in 1 .. Len(q) : q[i] \in S
  BY LenProperties, ElementOfSeq
<1>2. Rounds(q, s, Len(q), f)
  BY <1>1, RoundsExist
<1>3. Without(q, s) = f[Len(q)]
  BY DEF Without, Rounds, Round
<1>. DEFINE P(i) == /\ f[i] \in Seq(S)
                    /\ Range(f[i]) = {q[j] : j \in 1 .. i} \ {s}
                    /\ IsInjective(q) => IsInjective(f[i])
            T == {i \in 0 .. Len(q) : ~P(i)}
<1>4. \A i \in 0 .. Len(q) : f[i] = IF i = 0 THEN <<>> ELSE Round(q, s, i, f[i - 1])
  BY <1>2 DEF Rounds
<1>. HIDE DEF f, P
<1>5. ASSUME T # {}
      PROVE  FALSE
  <2>0. T \in SUBSET Nat
    BY <1>1
  <2>. HIDE DEF T
  <2>1. PICK m \in T : \A k \in T : m <= k
    BY <1>5, <2>0, Least
  <2>. USE DEF T
  <2>2. CASE m = 0
    <3>1. f[m] = <<>>
      BY <1>1, <1>4, <2>2
    <3>2. Range(f[m]) = {} /\ IsInjective(f[m]) /\ f[m] \in Seq(S)
      BY <3>1, EmptySeq DEF Range, IsInjective
    <3>3. P(m)
      BY <2>2, <3>2 DEF P
    <3>. QED  BY <2>1, <3>3
  <2>3. CASE m # 0
    <3>1. /\ m \in 1 .. Len(q) /\ m - 1 \in 0 .. Len(q)
          /\ m - 1 \notin T
      BY <1>1, <2>1, <2>3
    <3>2. /\ f[m - 1] \in Seq(S)
          /\ Range(f[m - 1]) = {q[j] : j \in 1 .. (m - 1)} \ {s}
          /\ IsInjective(q) => IsInjective(f[m - 1])
      BY <3>1 DEF P
    <3>3. f[m] = Round(q, s, m, f[m - 1])
      BY <1>4, <2>1, <2>3
    <3>4. {q[j] : j \in 1 .. m} = {q[j] : j \in 1 .. (m - 1)} \cup {q[m]}
      BY <1>1, <3>1
    <3>5. CASE q[m] = s
      <4>1. f[m] = f[m - 1]
        BY <3>3, <3>5 DEF Round
      <4>2. P(m)
        BY <3>2, <3>4, <3>5, <4>1 DEF P
      <4>. QED  BY <2>1, <4>2
    <3>6. CASE q[m] # s
      <4>1. f[m] = Append(f[m - 1], q[m]) /\ q[m] \in S /\ f[m - 1] \in Seq(S)
        BY <1>1, <3>1, <3>2, <3>3, <3>6 DEF Round
      <4>2. /\ f[m] \in Seq(S)
            /\ Range(f[m]) = Range(f[m - 1]) \cup {q[m]}
            /\ IsInjective(f[m]) <=> IsInjective(f[m - 1]) /\ q[m] \notin Range(f[m - 1])
        BY <4>1, AppendNew, AppendProperties
      <4>3. IsInjective(q) => q[m] \notin {q[j] : j \in 1 .. (m - 1)}
        BY <1>1, <3>1 DEF IsInjective
      <4>4. P(m)
        BY <3>2, <3>4, <3>6, <4>2, <4>3 DEF P
      <4>. QED  BY <2>1, <4>4
    <3>. QED  BY <3>5, <3>6
  <2>. QED  BY <2>2, <2>3
<1>6. P(Len(q))
  BY <1>1, <1>5
<1>7. Range(q) = {q[j] : j \in 1 .. Len(q)}
  BY <1>1 DEF Range
<1>. QED  BY <1>3, <1>6, <1>7 DEF P
----------------------------------------------------------------------------
(* The sessions and the maps *)

SessionOp == {"none", "add", "subTeam", "unsubTeam", "subBlocks", "unsubBlocks",
              "remove"}

SessionType ==
    /\ phase \in [Session -> {"none", "open", "closed", "gone"}]
    /\ user \in [Session -> User \cup {NoUser}]
    /\ teams \in [Session -> SUBSET Team]
    /\ blocks \in [Session -> SUBSET Block]
    /\ job \in [Session -> [op : SessionOp, todo : SUBSET (Team \cup Block)]]
    /\ mu \in Session \cup {Free}
    /\ listeners \subseteq Session
    /\ byTeam \in [Team -> Seq(Session)]
    /\ byBlock \in [Block -> SUBSET Session]

\* ws.mu excludes: only its holder has something to do under it.
Exclusive == \A s \in Session : job[s].op # "none" => mu = s

\* What the commands checked before they took ws.mu still holds under it, and a
\* removal has exactly the session's remaining subscriptions to do.
JobFits ==
    \A s \in Session :
        /\ job[s].op = "subTeam" => job[s].todo \subseteq Team \ teams[s]
        /\ job[s].op = "unsubTeam" => job[s].todo \subseteq teams[s]
        /\ job[s].op = "subBlocks" => job[s].todo \subseteq Block \ blocks[s]
        /\ job[s].op = "unsubBlocks" => job[s].todo \subseteq blocks[s]
        /\ job[s].op = "remove" => job[s].todo = teams[s] \cup blocks[s]
        /\ phase[s] = "gone" => job[s].op = "none"

MapsInv == SessionType /\ Exclusive /\ JobFits /\ MapsAgree

\* Whose step it is: another session's job, and the phase of a session that has
\* returned, are left alone.
LEMMA LockMaps ==
    ASSUME MapsInv, NEW s \in Session, NEW op \in SessionOp \ {"none"},
           NEW todo \in SUBSET (Team \cup Block),
           phase[s] # "gone", Lock(s, op, todo),
           op = "subTeam" => todo \subseteq Team \ teams[s],
           op = "unsubTeam" => todo \subseteq teams[s],
           op = "subBlocks" => todo \subseteq Block \ blocks[s],
           op = "unsubBlocks" => todo \subseteq blocks[s],
           op = "remove" => todo = teams[s] \cup blocks[s]
    PROVE  MapsInv'
<1>1. /\ job'[s] = [op |-> op, todo |-> todo]
      /\ \A r \in Session : r # s => job'[r] = job[r]
      /\ mu' = s /\ mu = Free
      /\ UNCHANGED <<phase, user, teams, blocks, listeners, byTeam, byBlock>>
  BY DEF Lock, MapsInv, SessionType, maps
<1>2. SessionType'
  BY <1>1 DEF MapsInv, SessionType, Lock
<1>3. \A r \in Session : job[r].op = "none"
  BY <1>1, WsServerAssumption DEF MapsInv, Exclusive
<1>4. Exclusive'
  BY <1>1, <1>3 DEF Exclusive
<1>5. JobFits'
  BY <1>1 DEF MapsInv, JobFits
<1>6. MapsAgree'
  BY <1>1 DEF MapsInv, MapsAgree
<1>. QED  BY <1>2, <1>4, <1>5, <1>6 DEF MapsInv

\* A command or the end of a session.
LEMMA HandlerMaps ==
    ASSUME MapsInv, NEW s \in Session, Handler(s)
    PROVE  MapsInv'
<1>1. CASE Connect(s)
  BY <1>1, LockMaps DEF Connect, SessionOp
<1>2. CASE Authenticate(s)
  <2>1. /\ UNCHANGED <<teams, blocks, job, mu, listeners, byTeam, byBlock>>
        /\ phase' \in [Session -> {"none", "open", "closed", "gone"}]
        /\ user' \in [Session -> User \cup {NoUser}]
        /\ \A r \in Session : phase'[r] = "gone" => phase[r] = "gone"
    BY <1>2 DEF Authenticate, MapsInv, SessionType, maps
  <2>. QED  BY <2>1 DEF MapsInv, SessionType, Exclusive, JobFits, MapsAgree
<1>3. CASE SubscribeTeam(s)
  <2>1. PICK t \in Team \ teams[s] : Lock(s, "subTeam", {t})
    BY <1>3 DEF SubscribeTeam
  <2>. QED  BY <1>3, <2>1, LockMaps DEF SubscribeTeam, Reading, SessionOp
<1>4. CASE UnsubscribeTeam(s)
  <2>1. PICK t \in teams[s] : Lock(s, "unsubTeam", {t})
    BY <1>4 DEF UnsubscribeTeam
  <2>2. t \in Team
    BY DEF MapsInv, SessionType
  <2>. QED  BY <1>4, <2>1, <2>2, LockMaps DEF UnsubscribeTeam, Reading, SessionOp
<1>5. CASE SubscribeBlocks(s)
  <2>1. PICK bs \in SUBSET (Block \ blocks[s]) : Lock(s, "subBlocks", bs)
    BY <1>5 DEF SubscribeBlocks
  <2>2. bs \in SUBSET (Team \cup Block) /\ bs \subseteq Block \ blocks[s]
    OBVIOUS
  <2>. QED  BY <1>5, <2>1, <2>2, LockMaps DEF SubscribeBlocks, Reading, SessionOp
<1>6. CASE UnsubscribeBlocks(s)
  <2>1. PICK bs \in SUBSET blocks[s] : Lock(s, "unsubBlocks", bs)
    BY <1>6 DEF UnsubscribeBlocks
  <2>2. bs \in SUBSET (Team \cup Block) /\ bs \subseteq blocks[s]
    BY DEF MapsInv, SessionType
  <2>. QED  BY <1>6, <2>1, <2>2, LockMaps DEF UnsubscribeBlocks, Reading, SessionOp
<1>7. CASE ReadError(s)
  <2>1. teams[s] \cup blocks[s] \in SUBSET (Team \cup Block)
    BY DEF MapsInv, SessionType
  <2>. QED  BY <1>7, <2>1, LockMaps DEF ReadError, SessionOp
<1>8. CASE Close(s)
  <2>1. /\ UNCHANGED <<user, teams, blocks, job, mu, listeners, byTeam, byBlock>>
        /\ phase' \in [Session -> {"none", "open", "closed", "gone"}]
        /\ \A r \in Session : phase'[r] = "gone" => phase[r] = "gone"
    BY <1>8 DEF Close, MapsInv, SessionType, maps
  <2>. QED  BY <2>1 DEF MapsInv, SessionType, Exclusive, JobFits, MapsAgree
<1>. QED
  BY <1>1, <1>2, <1>3, <1>4, <1>5, <1>6, <1>7, <1>8 DEF Handler, Do

\* One round of the loop of a command or of a removal about x ends it or leaves
\* the other rounds to do.
LEMMA DoneJob ==
    ASSUME MapsInv, NEW s \in Session, NEW x \in job[s].todo, mu = s, Done(s, x)
    PROVE  /\ job' \in [Session -> [op : SessionOp, todo : SUBSET (Team \cup Block)]]
           /\ \A r \in Session : r # s => job'[r] = job[r] /\ job[r].op = "none"
           /\ mu' \in {s, Free}
           /\ \/ job'[s].op = "none" /\ job[s].op # "remove"
              \/ /\ mu' = s /\ job'[s].op = job[s].op
                 /\ job'[s].todo = job[s].todo \ {x}
<1>1. job[s] \in [op : SessionOp, todo : SUBSET (Team \cup Block)]
  BY DEF MapsInv, SessionType
<1>2. NoJob \in [op : SessionOp, todo : SUBSET (Team \cup Block)]
  BY DEF NoJob, SessionOp
<1>3. \A r \in Session : r # s => job[r].op = "none"
  BY DEF MapsInv, Exclusive
<1>4. CASE job[s].todo = {x} /\ job[s].op # "remove"
  BY <1>2, <1>3, <1>4 DEF Done, Unlock, NoJob, MapsInv, SessionType
<1>5. CASE ~(job[s].todo = {x} /\ job[s].op # "remove")
  <2>1. job'[s] = [job[s] EXCEPT !.todo = job[s].todo \ {x}] /\ mu' = mu
    BY <1>5 DEF Done, MapsInv, SessionType
  <2>2. /\ job'[s] \in [op : SessionOp, todo : SUBSET (Team \cup Block)]
        /\ job'[s].op = job[s].op /\ job'[s].todo = job[s].todo \ {x}
    BY <1>1, <2>1
  <2>3. job' = [job EXCEPT ![s] = job'[s]]
    BY <1>5, <2>1 DEF Done, MapsInv, SessionType
  <2>. QED  BY <1>3, <2>1, <2>2, <2>3 DEF MapsInv, SessionType
<1>. QED  BY <1>4, <1>5

LEMMA SectionMaps ==
    ASSUME MapsInv, NEW s \in Session, Section(s)
    PROVE  MapsInv'
<1>0. job[s].todo \subseteq Team \cup Block /\ job[s].op \in SessionOp
  BY DEF MapsInv, SessionType
<1>1. CASE AddListener(s)
  BY <1>1, WsServerAssumption
     DEF AddListener, Holds, Unlock, NoJob, MapsInv, SessionType, SessionOp, Exclusive,
         JobFits, MapsAgree
<1>2. CASE AddToTeam(s)
  <2>1. PICK t \in job[s].todo : /\ byTeam' = [byTeam EXCEPT ![t] = Append(@, s)]
                                 /\ teams' = [teams EXCEPT ![s] = @ \cup {t}]
                                 /\ Done(s, t)
    BY <1>2 DEF AddToTeam
  <2>2. /\ mu = s /\ job[s].op = "subTeam" /\ t \in Team /\ t \notin teams[s]
        /\ UNCHANGED <<phase, user, blocks, listeners, byBlock>>
    BY <1>2 DEF AddToTeam, Holds, MapsInv, JobFits
  <2>3. /\ byTeam[t] \in Seq(Session) /\ s \notin Range(byTeam[t]) /\ IsInjective(byTeam[t])
    BY <2>2 DEF MapsInv, SessionType, MapsAgree
  <2>4. /\ byTeam'[t] \in Seq(Session) /\ IsInjective(byTeam'[t])
        /\ Range(byTeam'[t]) = Range(byTeam[t]) \cup {s}
        /\ \A u \in Team : u # t => byTeam'[u] = byTeam[u]
        /\ byTeam' \in [Team -> Seq(Session)]
    BY <2>1, <2>2, <2>3, AppendNew, AppendProperties DEF MapsInv, SessionType
  <2>5. /\ teams'[s] = teams[s] \cup {t}
        /\ \A r \in Session : r # s => teams'[r] = teams[r]
        /\ teams' \in [Session -> SUBSET Team]
    BY <2>1, <2>2 DEF MapsInv, SessionType
  <2>6. MapsAgree'
    BY <2>2, <2>4, <2>5 DEF MapsInv, MapsAgree, JobFits
  <2>7. /\ job' \in [Session -> [op : SessionOp, todo : SUBSET (Team \cup Block)]]
        /\ \A r \in Session : r # s => job'[r] = job[r] /\ job[r].op = "none"
        /\ mu' \in {s, Free}
        /\ \/ job'[s].op = "none"
           \/ mu' = s /\ job'[s].op = job[s].op /\ job'[s].todo = job[s].todo \ {t}
    BY <2>1, <2>2, DoneJob
  <2>8. SessionType'
    BY <2>2, <2>4, <2>5, <2>7 DEF MapsInv, SessionType
  <2>9. Exclusive' /\ JobFits'
    BY <2>2, <2>5, <2>7 DEF MapsInv, JobFits, Exclusive
  <2>. QED  BY <2>6, <2>8, <2>9 DEF MapsInv
<1>3. CASE AddToBlock(s)
  <2>1. PICK b \in job[s].todo : /\ byBlock' = [byBlock EXCEPT ![b] = @ \cup {s}]
                                 /\ blocks' = [blocks EXCEPT ![s] = @ \cup {b}]
                                 /\ Done(s, b)
    BY <1>3 DEF AddToBlock
  <2>2. /\ mu = s /\ job[s].op = "subBlocks" /\ b \in Block
        /\ UNCHANGED <<phase, user, teams, listeners, byTeam>>
    BY <1>3 DEF AddToBlock, Holds, MapsInv, JobFits
  <2>3. /\ blocks'[s] = blocks[s] \cup {b}
        /\ \A r \in Session : r # s => blocks'[r] = blocks[r]
        /\ blocks' \in [Session -> SUBSET Block]
        /\ byBlock'[b] = byBlock[b] \cup {s}
        /\ \A c \in Block : c # b => byBlock'[c] = byBlock[c]
        /\ byBlock' \in [Block -> SUBSET Session]
    BY <2>1, <2>2 DEF MapsInv, SessionType
  <2>4. MapsAgree'
    BY <2>2, <2>3 DEF MapsInv, MapsAgree, JobFits
  <2>5. /\ job' \in [Session -> [op : SessionOp, todo : SUBSET (Team \cup Block)]]
        /\ \A r \in Session : r # s => job'[r] = job[r] /\ job[r].op = "none"
        /\ mu' \in {s, Free}
        /\ \/ job'[s].op = "none"
           \/ mu' = s /\ job'[s].op = job[s].op /\ job'[s].todo = job[s].todo \ {b}
    BY <2>1, <2>2, DoneJob
  <2>6. SessionType'
    BY <2>2, <2>3, <2>5 DEF MapsInv, SessionType
  <2>7. Exclusive' /\ JobFits'
    BY <2>2, <2>3, <2>5 DEF MapsInv, JobFits, Exclusive
  <2>. QED  BY <2>4, <2>6, <2>7 DEF MapsInv
<1>4. CASE RemoveFromTeam(s)
  <2>1. PICK t \in job[s].todo \cap Team :
            /\ byTeam' = [byTeam EXCEPT ![t] = Without(@, s)]
            /\ teams' = [teams EXCEPT ![s] = @ \ {t}]
            /\ Done(s, t)
    BY <1>4 DEF RemoveFromTeam
  <2>2. /\ mu = s /\ job[s].op \in {"unsubTeam", "remove"}
        /\ UNCHANGED <<phase, user, blocks, listeners, byBlock>>
    BY <1>4 DEF RemoveFromTeam, Holds
  <2>3. byTeam[t] \in Seq(Session) /\ IsInjective(byTeam[t])
    BY DEF MapsInv, SessionType, MapsAgree
  <2>4. byTeam'[t] = Without(byTeam[t], s)
    BY <2>1 DEF MapsInv, SessionType
  <2>5. /\ byTeam'[t] \in Seq(Session) /\ IsInjective(byTeam'[t])
        /\ Range(byTeam'[t]) = Range(byTeam[t]) \ {s}
    BY <2>3, <2>4, WithoutProperties
  <2>6. /\ \A u \in Team : u # t => byTeam'[u] = byTeam[u]
        /\ byTeam' \in [Team -> Seq(Session)]
    BY <2>1, <2>4, <2>5 DEF MapsInv, SessionType
  <2>7. /\ teams'[s] = teams[s] \ {t}
        /\ \A r \in Session : r # s => teams'[r] = teams[r]
        /\ teams' \in [Session -> SUBSET Team]
    BY <2>1 DEF MapsInv, SessionType
  <2>8. MapsAgree'
    <3>1. \A u \in Team : IsInjective(byTeam'[u])
      BY <2>5, <2>6 DEF MapsInv, MapsAgree
    <3>2. ASSUME NEW r \in Session, NEW u \in Team
          PROVE  r \in Range(byTeam'[u]) <=> u \in teams'[r]
      <4>1. r \in Range(byTeam[u]) <=> u \in teams[r]
        BY DEF MapsInv, MapsAgree
      <4>2. r \in Range(byTeam'[u]) <=> r \in Range(byTeam[u]) /\ ~(r = s /\ u = t)
        BY <2>5, <2>6
      <4>3. u \in teams'[r] <=> u \in teams[r] /\ ~(r = s /\ u = t)
        BY <2>7
      <4>. QED  BY <4>1, <4>2, <4>3
    <3>3. \A r \in Session : /\ \A b \in Block : r \in byBlock'[b] <=> b \in blocks'[r]
                             /\ phase'[r] = "gone" => /\ r \notin listeners'
                                                      /\ teams'[r] = {} /\ blocks'[r] = {}
      BY <2>2, <2>7 DEF MapsInv, MapsAgree
    <3>. QED  BY <3>1, <3>2, <3>3 DEF MapsAgree
  <2>9. /\ job' \in [Session -> [op : SessionOp, todo : SUBSET (Team \cup Block)]]
        /\ \A r \in Session : r # s => job'[r] = job[r] /\ job[r].op = "none"
        /\ mu' \in {s, Free}
        /\ \/ job'[s].op = "none"
           \/ mu' = s /\ job'[s].op = job[s].op /\ job'[s].todo = job[s].todo \ {t}
    BY <2>1, <2>2, DoneJob
  <2>10. SessionType'
    BY <2>2, <2>6, <2>7, <2>9 DEF MapsInv, SessionType
  <2>11. t \notin blocks[s]
    BY WsServerAssumption DEF MapsInv, SessionType
  <2>12. Exclusive' /\ JobFits'
    BY <2>2, <2>7, <2>9, <2>11 DEF MapsInv, JobFits, Exclusive
  <2>. QED  BY <2>8, <2>10, <2>12 DEF MapsInv
<1>5. CASE RemoveFromBlock(s)
  <2>1. PICK b \in job[s].todo : /\ byBlock' = [byBlock EXCEPT ![b] = @ \ {s}]
                                 /\ blocks' = [blocks EXCEPT ![s] = @ \ {b}]
                                 /\ Done(s, b)
    BY <1>5 DEF RemoveFromBlock
  <2>2. /\ mu = s /\ job[s].op \in {"unsubBlocks", "remove"}
        /\ job[s].todo \cap Team = {}
        /\ UNCHANGED <<phase, user, teams, listeners, byTeam>>
    BY <1>5 DEF RemoveFromBlock, Holds
  <2>3. b \in Block /\ b \notin teams[s]
    BY <1>0, <2>2, WsServerAssumption DEF MapsInv, SessionType
  <2>4. /\ blocks'[s] = blocks[s] \ {b}
        /\ \A r \in Session : r # s => blocks'[r] = blocks[r]
        /\ blocks' \in [Session -> SUBSET Block]
        /\ byBlock'[b] = byBlock[b] \ {s}
        /\ \A c \in Block : c # b => byBlock'[c] = byBlock[c]
        /\ byBlock' \in [Block -> SUBSET Session]
    BY <2>1, <2>3 DEF MapsInv, SessionType
  <2>5. MapsAgree'
    BY <2>2, <2>4 DEF MapsInv, MapsAgree
  <2>6. /\ job' \in [Session -> [op : SessionOp, todo : SUBSET (Team \cup Block)]]
        /\ \A r \in Session : r # s => job'[r] = job[r] /\ job[r].op = "none"
        /\ mu' \in {s, Free}
        /\ \/ job'[s].op = "none"
           \/ mu' = s /\ job'[s].op = job[s].op /\ job'[s].todo = job[s].todo \ {b}
    BY <2>1, <2>2, DoneJob
  <2>7. SessionType'
    BY <2>2, <2>4, <2>6 DEF MapsInv, SessionType
  <2>8. Exclusive' /\ JobFits'
    BY <2>2, <2>3, <2>4, <2>6 DEF MapsInv, JobFits, Exclusive
  <2>. QED  BY <2>5, <2>7, <2>8 DEF MapsInv
<1>6. CASE RemoveListener(s)
  <2>1. /\ job[s].op = "remove" /\ job[s].todo = {} /\ mu = s
        /\ teams[s] = {} /\ blocks[s] = {}
    BY <1>6 DEF RemoveListener, Holds, MapsInv, JobFits
  <2>2. /\ job' = [job EXCEPT ![s] = NoJob] /\ mu' = Free
        /\ phase' = [phase EXCEPT ![s] = "gone"]
        /\ listeners' = listeners \ {s}
        /\ UNCHANGED <<user, teams, blocks, byTeam, byBlock>>
    BY <1>6 DEF RemoveListener, Unlock
  <2>3. NoJob \in [op : SessionOp, todo : SUBSET (Team \cup Block)] /\ NoJob.op = "none"
    BY DEF NoJob, SessionOp
  <2>4. SessionType'
    BY <2>2, <2>3 DEF MapsInv, SessionType
  <2>5. MapsAgree'
    BY <2>1, <2>2 DEF MapsInv, MapsAgree, SessionType
  <2>6. Exclusive' /\ JobFits'
    BY <2>1, <2>2, <2>3 DEF MapsInv, JobFits, Exclusive, SessionType
  <2>. QED  BY <2>4, <2>5, <2>6 DEF MapsInv
<1>. QED
  BY <1>1, <1>2, <1>3, <1>4, <1>5, <1>6 DEF Section, Do

\* Broadcasts and the members' table touch neither sessions nor maps.
LEMMA CastLeavesMaps ==
    ASSUME BeginCast \/ GoOnCast \/ Do(Join) \/ Do(Leave) \/ Crash
    PROVE  UNCHANGED <<session, maps>>
BY DEF BeginCast, GoOnCast, Do, Crash, Throw, Join, Leave, BroadcastBoard,
       BroadcastBlockChange, BroadcastBlockDelete,
       BroadcastLeave, BroadcastCategory, Begin, ReadMembers, CollectUser, CollectBlock,
       CollectFirst, CollectDone, Write, End

LEMMA MapsStep == MapsInv /\ [Next]_vars => MapsInv'
<1>1. ASSUME MapsInv, UNCHANGED <<session, maps>>
      PROVE  MapsInv'
  BY <1>1 DEF MapsInv, SessionType, Exclusive, JobFits, MapsAgree, session, maps
<1>. QED  BY <1>1, HandlerMaps, SectionMaps, CastLeavesMaps DEF Next, vars

LEMMA MapsInit == Init => MapsInv
<1>. SUFFICES ASSUME Init PROVE MapsInv
  OBVIOUS
<1>1. <<>> \in Seq(Session) /\ Range(<<>>) = {} /\ IsInjective(<<>>)
  BY EmptySeq DEF Range, IsInjective
<1>2. SessionType
  BY <1>1 DEF Init, SessionType, NoJob, SessionOp
<1>3. Exclusive /\ JobFits
  BY DEF Init, Exclusive, JobFits, NoJob
<1>4. MapsAgree
  BY <1>1 DEF Init, MapsAgree
<1>. QED  BY <1>2, <1>3, <1>4 DEF MapsInv

LEMMA MapsInvariant == Spec => []MapsInv
BY MapsInit, MapsStep, PTL DEF Spec

\* The server's maps and the sessions' own lists always name the same subscriptions,
\* each once, and a session that has returned is in none of them.
THEOREM MapsCorrect == Spec => []MapsAgree
<1>1. MapsInv => MapsAgree
  BY DEF MapsInv
<1>. QED  BY <1>1, MapsInvariant, PTL
----------------------------------------------------------------------------
(* The broadcast *)

CastType ==
    cast \in [kind : {"board", "change", "delete", "leave", "category"},
              stage : {"members", "collect", "write"},
              ensured : SUBSET User, failed : BOOLEAN, of : Block \cup {NoBlock},
              users : SUBSET User,
              blocks : SUBSET Block, viaTeam : SUBSET Session,
              viaBlock : SUBSET Session, got : SUBSET Session]

\* The users that are still to be looked up, and those of the sessions that were
\* found, were members or ensured at some moment of the broadcast.
Meant ==
    /\ cast.users \cup cast.ensured \subseteq heard
    /\ \A s \in cast.viaTeam : user[s] \in heard \cap User

\* Nobody is left to look up when the messages are written.
LookedUp ==
    cast.stage = "write" /\ cast.kind # "category" => cast.users = {} /\ cast.blocks = {}

\* Who was entitled throughout is entitled now; once the members have been read its
\* user is still to be looked up or the session has been found; and so has a
\* subscriber, unless the block is still to be looked up.
DueFound ==
    /\ \A d \in due : Entitled(d[1], d[2])
    /\ \A s \in Session :
           <<s, "team">> \in due /\ cast.stage # "members" /\ ~cast.failed
               => user[s] \in cast.users \/ s \in cast.viaTeam
    /\ \A s \in Session, b \in Block :
           <<s, b>> \in due => b \in cast.blocks \/ s \in cast.viaBlock

CastInv ==
    /\ member \subseteq User
    /\ due \subseteq Session \X Way
    /\ cast = NoCast => due = {}
    /\ cast # NoCast => CastType /\ Meant /\ LookedUp /\ DueFound

\* A session keeps its user once it has one.
LEMMA UserKept ==
    ASSUME MapsInv, NEW s \in Session, Handler(s) \/ Section(s)
    PROVE  \A r \in Session : user[r] # NoUser => user'[r] = user[r]
BY DEF Handler, Section, Do, Connect, Authenticate, SubscribeTeam, UnsubscribeTeam,
       SubscribeBlocks, UnsubscribeBlocks, ReadError, Close, Lock, AddListener, AddToTeam,
       AddToBlock, RemoveFromTeam, RemoveFromBlock, RemoveListener, MapsInv, SessionType

\* Steps of sessions and of the members' table: the broadcast stands still, and
\* whoever stays entitled has kept user and place.
LEMMA AsideCast ==
    ASSUME CastInv, Record, cast' = cast, member' \subseteq User,
           \A r \in Session : user[r] # NoUser => user'[r] = user[r]
    PROVE  CastInv'
<1>1. CASE cast = NoCast
  BY <1>1 DEF CastInv, Record
<1>2. CASE cast # NoCast
  <2>1. heard \subseteq heard' /\ due' = {d \in due : Entitled(d[1], d[2])'}
    BY <1>2 DEF Record
  <2>2. CastType'
    BY <1>2 DEF CastInv, CastType
  <2>3. \A r \in Session : user[r] \in User => user'[r] = user[r]
    BY WsServerAssumption
  <2>4. Meant'
    BY <1>2, <2>1, <2>3 DEF CastInv, CastType, Meant
  <2>5. LookedUp'
    BY <1>2 DEF CastInv, LookedUp
  <2>6. DueFound'
    <3>1. \A d \in due' : Entitled(d[1], d[2])'
      BY <2>1
    <3>2. ASSUME NEW r \in Session, <<r, "team">> \in due', cast.stage # "members",
                 ~cast.failed
          PROVE  user'[r] \in cast.users \/ r \in cast.viaTeam
      <4>1. <<r, "team">> \in due
        BY <2>1, <3>2
      <4>2. user[r] \in cast.users \/ r \in cast.viaTeam
        BY <1>2, <3>2, <4>1 DEF CastInv, DueFound
      <4>3. user[r] \in User
        BY <1>2, <4>2 DEF CastInv, CastType, Meant
      <4>. QED  BY <2>3, <4>2, <4>3
    <3>3. \A r \in Session, b \in Block :
              <<r, b>> \in due' => b \in cast.blocks \/ r \in cast.viaBlock
      BY <1>2, <2>1 DEF CastInv, DueFound
    <3>. QED  BY <3>1, <3>2, <3>3 DEF DueFound
  <2>. QED  BY <1>2, <2>1, <2>2, <2>4, <2>5, <2>6 DEF CastInv
<1>. QED  BY <1>1, <1>2

\* A broadcast begins with nobody looked up.
LEMMA BeginCastInv ==
    ASSUME CastInv, Record, NEW kind, NEW stage, NEW ensured \in SUBSET User,
           NEW of \in Block \cup {NoBlock}, NEW bs \in SUBSET Block,
           Begin(kind, stage, ensured, of, bs),
           \/ kind \in {"board", "change", "delete", "leave"} /\ stage = "members"
           \/ kind = "category" /\ stage = "collect",
           kind = "change" => {of, Parent[of]} \subseteq bs,
           kind = "delete" => of \in bs
    PROVE  CastInv'
<1>1. /\ cast' = [kind |-> kind, stage |-> stage, ensured |-> ensured, failed |-> FALSE,
                  of |-> of, users |-> {}, blocks |-> bs, viaTeam |-> {},
                  viaBlock |-> {}, got |-> {}]
      /\ member' = member /\ cast = NoCast
  BY DEF Begin
<1>2. cast' # NoCast
  <2>1. cast'.kind # "none"
    BY <1>1
  <2>. QED  BY <2>1 DEF NoCast
<1>3. /\ due' = {d \in Session \X Way : Entitled(d[1], d[2])'}
      /\ ensured \subseteq heard'
  BY <1>1, <1>2 DEF Record
<1>4. CastType' /\ Meant' /\ LookedUp'
  BY <1>1, <1>3 DEF CastType, Meant, LookedUp
<1>5. DueFound'
  <2>1. \A d \in due' : Entitled(d[1], d[2])'
    BY <1>3
  <2>2. ASSUME NEW s \in Session, <<s, "team">> \in due', cast'.stage # "members"
        PROVE  FALSE
    <3>1. cast'.kind = "category"
      BY <1>1, <2>2
    <3>2. Entitled(s, "team")'
      BY <2>1, <2>2
    <3>. QED  BY <3>1, <3>2 DEF Entitled
  <2>3. ASSUME NEW s \in Session, NEW b \in Block, <<s, b>> \in due'
        PROVE  b \in bs
    <3>1. Entitled(s, b)' /\ b # "team"
      BY <2>1, <2>3, WsServerAssumption
    <3>2. b \in Concerned'
      BY <3>1 DEF Entitled
    <3>. QED  BY <1>1, <3>2 DEF Concerned
  <2>. QED  BY <1>1, <2>1, <2>2, <2>3 DEF DueFound
<1>. QED  BY <1>1, <1>2, <1>3, <1>4, <1>5 DEF CastInv

\* A broadcast goes on, or ends.
LEMMA GoOnCastInv ==
    ASSUME MapsInv, CastInv, GoOnCast
    PROVE  CastInv'
<1>1. /\ Record /\ UNCHANGED <<session, maps, member>>
      /\ \/ ReadMembers \/ CollectUser \/ CollectBlock \/ CollectFirst \/ CollectDone
         \/ Write \/ End
  BY DEF GoOnCast, Do, ReadMembers, CollectUser, CollectBlock, CollectFirst, CollectDone,
         Write, End
<1>2. CASE cast' = NoCast
  BY <1>1, <1>2 DEF CastInv, Record
<1>3. CASE cast' # NoCast
  <2>1. cast # NoCast /\ CastType /\ Meant /\ LookedUp /\ DueFound
    BY <1>1, <1>3 DEF ReadMembers, CollectUser, CollectBlock, CollectFirst, CollectDone,
                      Write, End, Stage, CastInv
  <2>2. /\ due' = {d \in due : Entitled(d[1], d[2])'}
        /\ heard' = heard \cup member \cup cast'.ensured
    BY <1>1, <1>3, <2>1 DEF Record
  <2>3. user' = user /\ teams' = teams /\ member' = member /\ byTeam' = byTeam
    BY <1>1 DEF session, maps
  <2>4. \A d \in due' : d \in due /\ Entitled(d[1], d[2])'
    BY <2>2
  <2>5. ASSUME CastType', Meant', LookedUp',
               \A s \in Session : <<s, "team">> \in due' /\ cast'.stage # "members" /\ ~cast'.failed
                                      => user[s] \in cast'.users \/ s \in cast'.viaTeam,
               \A s \in Session, b \in Block :
                   <<s, b>> \in due' => b \in cast'.blocks \/ s \in cast'.viaBlock
        PROVE  CastInv'
    BY <1>3, <2>2, <2>3, <2>4, <2>5 DEF CastInv, DueFound
  <2>6. \A s \in Session : <<s, "team">> \in due /\ cast.stage # "members" /\ ~cast.failed
                               => user[s] \in cast.users \/ s \in cast.viaTeam
    BY <2>1 DEF DueFound
  <2>14. \A s \in Session, b \in Block :
             <<s, b>> \in due' => b \in cast.blocks \/ s \in cast.viaBlock
    BY <2>1, <2>4 DEF DueFound
  <2>7. CASE ReadMembers
    <3>1. CASE cast' = [cast EXCEPT !.users = member \cup cast.ensured, !.stage = "collect"]
      <4>1. /\ cast'.users = member \cup cast.ensured /\ cast'.stage = "collect"
            /\ cast'.ensured = cast.ensured /\ cast'.viaTeam = cast.viaTeam
            /\ cast'.blocks = cast.blocks /\ cast'.viaBlock = cast.viaBlock
            /\ CastType'
        BY <2>1, <3>1 DEF CastType, CastInv
      <4>2. Meant' /\ LookedUp'
        BY <2>1, <2>2, <2>3, <4>1 DEF Meant, LookedUp
      <4>3. \A s \in Session : <<s, "team">> \in due' => user[s] \in cast'.users
        <5>. SUFFICES ASSUME NEW s \in Session, <<s, "team">> \in due'
                      PROVE  user[s] \in member \cup cast.ensured
          BY <4>1
        <5>1. Entitled(s, "team")'
          BY <2>4
        <5>. QED  BY <2>3, <4>1, <5>1 DEF Entitled
      <4>. QED  BY <2>5, <2>14, <4>1, <4>2, <4>3
    <3>2. CASE cast' = [cast EXCEPT !.failed = TRUE, !.stage = "collect"]
      <4>1. /\ cast'.users = cast.users /\ cast'.stage = "collect" /\ cast'.failed = TRUE
            /\ cast'.ensured = cast.ensured /\ cast'.viaTeam = cast.viaTeam
            /\ cast'.blocks = cast.blocks /\ cast'.viaBlock = cast.viaBlock
            /\ CastType'
        BY <2>1, <3>2 DEF CastType
      <4>2. Meant' /\ LookedUp'
        BY <2>1, <2>2, <2>3, <4>1 DEF Meant, LookedUp
      <4>. QED  BY <2>5, <2>14, <4>1, <4>2
    <3>. QED  BY <2>7, <3>1, <3>2 DEF ReadMembers
  <2>8. CASE CollectUser
    <3>1. PICK u \in cast.users :
              cast' = [cast EXCEPT !.users = @ \ {u}, !.viaTeam = @ \cup SessionsOf(u)]
      BY <2>8 DEF CollectUser
    <3>2. SessionsOf(u) \subseteq Session /\ \A s \in SessionsOf(u) : user[s] = u
      BY RangeOfSeq, WsServerAssumption DEF SessionsOf, MapsInv, SessionType
    <3>3. /\ cast'.users = cast.users \ {u} /\ cast'.stage = cast.stage
          /\ cast'.ensured = cast.ensured /\ cast'.failed = cast.failed
          /\ cast'.viaTeam = cast.viaTeam \cup SessionsOf(u)
          /\ cast'.kind = cast.kind /\ cast'.blocks = cast.blocks
          /\ cast'.viaBlock = cast.viaBlock
          /\ CastType'
      BY <2>1, <3>1, <3>2 DEF CastType
    <3>4. u \in User /\ u \in heard
      BY <2>1 DEF CastType, Meant
    <3>5. Meant' /\ LookedUp'
      BY <2>1, <2>2, <2>3, <3>2, <3>3, <3>4 DEF Meant, LookedUp
    <3>6. ASSUME NEW s \in Session, <<s, "team">> \in due', cast'.stage # "members",
                 ~cast'.failed
          PROVE  user[s] \in cast'.users \/ s \in cast'.viaTeam
      <4>1. user[s] \in cast.users \/ s \in cast.viaTeam
        BY <2>4, <2>6, <3>3, <3>6
      <4>2. CASE user[s] = u
        <5>1. Entitled(s, "team")'
          BY <2>4, <3>6
        <5>2. s \in Range(byTeam[BoardTeam])
          BY <2>3, <5>1, WsServerAssumption DEF Entitled, MapsInv, MapsAgree
        <5>. QED  BY <3>3, <4>2, <5>2 DEF SessionsOf
      <4>. QED  BY <3>3, <4>1, <4>2
    <3>. QED  BY <2>5, <2>14, <3>3, <3>5, <3>6
  <2>9. CASE CollectBlock
    <3>1. PICK b \in cast.blocks :
              cast' = [cast EXCEPT !.blocks = @ \ {b}, !.viaBlock = @ \cup byBlock[b]]
      BY <2>9 DEF CollectBlock
    <3>2. byBlock[b] \subseteq Session
      BY <2>1 DEF CastType, MapsInv, SessionType
    <3>3. /\ cast'.users = cast.users /\ cast'.stage = cast.stage
          /\ cast'.ensured = cast.ensured /\ cast'.failed = cast.failed
          /\ cast'.viaTeam = cast.viaTeam /\ cast'.kind = cast.kind
          /\ cast'.blocks = cast.blocks \ {b} /\ cast'.viaBlock = cast.viaBlock \cup byBlock[b]
          /\ CastType'
      BY <2>1, <3>1, <3>2 DEF CastType
    <3>4. Meant' /\ LookedUp'
      BY <2>1, <2>2, <2>3, <3>3 DEF Meant, LookedUp
    <3>5. ASSUME NEW s \in Session, NEW a \in Block, <<s, a>> \in due'
          PROVE  a \in cast'.blocks \/ s \in cast'.viaBlock
      <4>1. a \in cast.blocks \/ s \in cast.viaBlock
        BY <2>14, <3>5
      <4>2. CASE a = b
        <5>1. Entitled(s, a)' /\ a # "team"
          BY <2>4, <3>5, WsServerAssumption
        <5>2. a \in blocks[s]
          BY <1>1, <5>1 DEF Entitled, session
        <5>3. s \in byBlock[a]
          BY <5>2 DEF MapsInv, MapsAgree
        <5>. QED  BY <3>3, <4>2, <5>3
      <4>. QED  BY <3>3, <4>1, <4>2
    <3>. QED  BY <2>4, <2>5, <2>6, <3>3, <3>4, <3>5
  <2>10. CASE CollectFirst
    <3>. DEFINE all == byTeam[BoardTeam]
                own == {i \in DOMAIN all : user[all[i]] \in cast.ensured}
                one == {all[i] : i \in {j \in own : \A k \in own : j <= k}}
    <3>1. cast' = [cast EXCEPT !.viaTeam = one, !.stage = "write"] /\ cast.kind = "category"
      BY <2>10 DEF CollectFirst
    <3>2. all \in Seq(Session)
      BY WsServerAssumption DEF MapsInv, SessionType
    <3>3. one \subseteq Session /\ \A s \in one : user[s] \in cast.ensured
      BY <3>2, LenProperties, ElementOfSeq
    <3>. HIDE DEF one
    <3>4. /\ cast'.users = cast.users /\ cast'.stage = "write"
          /\ cast'.ensured = cast.ensured /\ cast'.failed = cast.failed
          /\ cast'.viaTeam = one /\ cast'.kind = "category"
          /\ cast'.blocks = cast.blocks /\ cast'.viaBlock = cast.viaBlock
          /\ CastType'
      BY <2>1, <3>1, <3>3 DEF CastType
    <3>5. cast.ensured \subseteq User
      BY <2>1 DEF CastType
    <3>6. Meant' /\ LookedUp'
      BY <2>1, <2>2, <2>3, <3>3, <3>4, <3>5 DEF Meant, LookedUp
    <3>7. \A s \in Session : <<s, "team">> \notin due'
      <4>. SUFFICES ASSUME NEW s \in Session, <<s, "team">> \in due'
                    PROVE  FALSE
        OBVIOUS
      <4>1. Entitled(s, "team")'
        BY <2>4
      <4>. QED  BY <3>4, <4>1 DEF Entitled
    <3>. QED  BY <2>5, <2>14, <3>4, <3>6, <3>7
  <2>11. CASE CollectDone
    <3>1. /\ cast' = [cast EXCEPT !.stage = "write"] /\ cast.stage = "collect"
          /\ cast.kind # "category" /\ cast.users = {} /\ cast.blocks = {}
      BY <2>11 DEF CollectDone, Stage
    <3>2. /\ cast'.users = {} /\ cast'.blocks = {} /\ cast'.stage = "write"
          /\ cast'.ensured = cast.ensured /\ cast'.failed = cast.failed
          /\ cast'.viaTeam = cast.viaTeam
          /\ cast'.viaBlock = cast.viaBlock
          /\ CastType'
      BY <2>1, <3>1 DEF CastType
    <3>3. Meant' /\ LookedUp'
      BY <2>1, <2>2, <2>3, <3>2 DEF Meant, LookedUp
    <3>. QED  BY <2>4, <2>5, <2>6, <2>14, <3>1, <3>2, <3>3
  <2>12. CASE Write
    <3>1. PICK s \in Addressees : cast' = [cast EXCEPT !.got = @ \cup {s}]
      BY <2>12 DEF Write
    <3>2. s \in Session
      BY <2>1 DEF Addressees, CastType
    <3>3. /\ cast'.users = cast.users /\ cast'.stage = cast.stage
          /\ cast'.ensured = cast.ensured /\ cast'.failed = cast.failed
          /\ cast'.viaTeam = cast.viaTeam /\ cast'.kind = cast.kind
          /\ cast'.blocks = cast.blocks /\ cast'.viaBlock = cast.viaBlock
          /\ CastType'
      BY <2>1, <3>1, <3>2 DEF CastType
    <3>4. Meant' /\ LookedUp'
      BY <2>1, <2>2, <2>3, <3>3 DEF Meant, LookedUp
    <3>. QED  BY <2>4, <2>5, <2>6, <2>14, <3>3, <3>4
  <2>13. CASE End
    BY <1>3, <2>13 DEF End
  <2>. QED  BY <1>1, <2>7, <2>8, <2>9, <2>10, <2>11, <2>12, <2>13
<1>. QED  BY <1>2, <1>3

LEMMA CastStep ==
    ASSUME MapsInv, CastInv, [Next]_vars
    PROVE  CastInv'
<1>1. ASSUME NEW s \in Session, Handler(s) \/ Section(s)
      PROVE  CastInv'
  <2>1. Record /\ cast' = cast /\ member' = member
    BY <1>1 DEF Handler, Section, Do, Connect, Authenticate, SubscribeTeam,
       UnsubscribeTeam, SubscribeBlocks, UnsubscribeBlocks, ReadError, Close, Lock,
       AddListener, AddToTeam, AddToBlock, RemoveFromTeam, RemoveFromBlock, RemoveListener
  <2>. QED  BY <1>1, <2>1, UserKept, AsideCast DEF CastInv
<1>2. CASE Do(Join) \/ Do(Leave)
  <2>1. Record /\ cast' = cast /\ user' = user /\ member' \subseteq User
    BY <1>2 DEF Do, Join, Leave, session, CastInv
  <2>. QED  BY <2>1, AsideCast
<1>3. CASE BeginCast
  <2>1. Record
    BY <1>3 DEF BeginCast, Do
  <2>2. CASE BroadcastBoard
    BY <2>1, <2>2, BeginCastInv DEF BroadcastBoard
  <2>3. CASE BroadcastBlockChange
    <3>1. PICK b \in Block : Begin("change", "members", {}, b, {b, Parent[b]})
      BY <2>3 DEF BroadcastBlockChange
    <3>2. {b, Parent[b]} \in SUBSET Block
      BY WsServerAssumption
    <3>. QED  BY <2>1, <3>1, <3>2, BeginCastInv
  <2>6. CASE BroadcastBlockDelete
    <3>1. PICK b \in Block : Begin("delete", "members", {}, b, {b})
      BY <2>6 DEF BroadcastBlockDelete
    <3>. QED  BY <2>1, <3>1, BeginCastInv
  <2>4. CASE BroadcastLeave
    <3>1. PICK u \in User : Begin("leave", "members", {u}, NoBlock, {})
      BY <2>4 DEF BroadcastLeave
    <3>. QED  BY <2>1, <3>1, BeginCastInv
  <2>5. CASE BroadcastCategory
    <3>1. PICK u \in User : Begin("category", "collect", {u}, NoBlock, {})
      BY <2>5 DEF BroadcastCategory
    <3>. QED  BY <2>1, <3>1, BeginCastInv
  <2>. QED  BY <1>3, <2>2, <2>3, <2>4, <2>5, <2>6 DEF BeginCast, Do
<1>4. CASE UNCHANGED <<session, maps, member, cast, due, heard>>
  BY <1>4 DEF CastInv, CastType, Meant, LookedUp, DueFound, Entitled, Concerned, session, maps
<1>5. CASE Crash \/ UNCHANGED vars
  BY <1>4, <1>5 DEF Crash, Throw, vars
<1>. QED  BY <1>1, <1>2, <1>3, <1>5, GoOnCastInv DEF Next

LEMMA CastInvariant == Spec => [](MapsInv /\ CastInv)
<1>1. Init => CastInv
  BY DEF Init, CastInv
<1>2. MapsInv /\ CastInv /\ [Next]_vars => CastInv'
  BY CastStep
<1>. QED  BY <1>1, <1>2, MapsInvariant, PTL DEF Spec

\* Whoever is found by the team was a member of the board at some moment of the
\* broadcast or is the user who just left, however the maps, the members and the
\* authentications change while the listeners are collected.
THEOREM MeantCorrect == Spec => []MeantForThem
<1>1. CastInv => MeantForThem
  BY DEF CastInv, Meant, MeantForThem
<1>. QED  BY <1>1, CastInvariant, PTL

\* A session that stays open and entitled in one way from the beginning of a
\* broadcast to its end gets the message: by the blocks always, by the team unless
\* the store fails to name the members.
THEOREM StayersCorrect == Spec => StayersServed
<1>1. ASSUME CastInv, [Next]_vars, cast # NoCast, cast' = NoCast, NEW d \in due,
             ~(cast.failed /\ d[2] = "team")
      PROVE  d[1] \in cast.got
  <2>1. cast.stage = "write" /\ Addressees = {}
    BY <1>1 DEF Next, vars, Handler, Section, BeginCast, GoOnCast, Do, Crash, Throw, Join,
       Leave, Connect, Authenticate, SubscribeTeam, UnsubscribeTeam, SubscribeBlocks,
       UnsubscribeBlocks, ReadError, Close, Lock, AddListener, AddToTeam, AddToBlock,
       RemoveFromTeam, RemoveFromBlock, RemoveListener, BroadcastBoard, BroadcastBlockChange,
       BroadcastBlockDelete,
       BroadcastLeave, BroadcastCategory, Begin, ReadMembers, CollectUser, CollectBlock,
       CollectFirst, CollectDone, Write, End, Stage, CastInv, CastType, NoCast
  <2>2. PICK s \in Session, way \in Way : d = <<s, way>>
    BY <1>1 DEF CastInv
  <2>3. Entitled(s, way) /\ LookedUp /\ CastType
    BY <1>1, <2>2 DEF CastInv, DueFound
  <2>4. cast.users = {} /\ cast.blocks = {}
    <3>1. cast.kind # "category"
      BY <2>3 DEF Entitled, Concerned
    <3>. QED  BY <2>1, <2>3, <3>1 DEF LookedUp
  <2>5. s \in cast.viaTeam \cup cast.viaBlock
    <3>1. CASE way = "team"
      BY <1>1, <2>1, <2>2, <2>4, <3>1 DEF CastInv, DueFound
    <3>2. CASE way \in Block
      BY <1>1, <2>2, <2>4, <3>2 DEF CastInv, DueFound
    <3>. QED  BY <3>1, <3>2 DEF Way
  <2>. QED  BY <2>1, <2>2, <2>5 DEF Addressees
<1>2. CastInv /\ [Next]_vars =>
          [cast # NoCast /\ cast' = NoCast =>
               \A d \in due : d[1] \in cast.got \/ (cast.failed /\ d[2] = "team")]_vars
  BY <1>1
<1>. QED  BY <1>2, CastInvariant, PTL DEF Spec, StayersServed
=============================================================================
