------------------------ MODULE CallbackQueueProofs ------------------------
(***************************************************************************)
(* Theorems about CallbackQueue, for every number of callbacks, workers    *)
(* and Shutdown calls and every buffer size.                               *)
(***************************************************************************)
EXTENDS CallbackQueue, SequenceLemmas, FiniteSetTheorems

(* Two facts on sequences that the channel operations rest on. *)

\* An element appended to the last of three sequences is appended to them all.
LEMMA AppendRight ==
    ASSUME NEW a \in Seq(Callback), 
           NEW b \in Seq(Callback), NEW c \in Seq(Callback), NEW e \in Callback
    PROVE  Append(a \o b \o c, e) = a \o b \o Append(c, e)
<1>1. a \o b \in Seq(Callback) /\ a \o b \o c \in Seq(Callback) /\ <<e>> \in Seq(Callback)
  OBVIOUS
<1>2. Append(a \o b \o c, e) = (a \o b \o c) \o <<e>>
  BY <1>1, AppendIsConcat
<1>3. Append(c, e) = c \o <<e>>
  BY AppendIsConcat
<1>. QED  BY <1>1, <1>2, <1>3, ConcatAssociative

\* Two such moves in a row: from the third sequence to the second, and from the
\* second to the first.
LEMMA MoveTwo ==
    ASSUME NEW a \in Seq(Callback), NEW b \in Seq(Callback),
           NEW c \in Seq(Callback), b # <<>>, c # <<>>
    PROVE  Append(a, Head(b)) \o Append(Tail(b), Head(c)) \o Tail(c) = a \o b \o c
<1>. DEFINE aa == Append(a, Head(b))
            bb == Append(Tail(b), Head(c))
<1>1. /\ Head(b) \in Callback /\ Tail(b) \in Seq(Callback)
      /\ Head(c) \in Callback /\ Tail(c) \in Seq(Callback)
      /\ aa \o Tail(b) = a \o b
  BY MoveOne
<1>2. bb \o Tail(c) = Tail(b) \o c
  BY <1>1, MoveOne
<1>3. aa \in Seq(Callback) /\ bb \in Seq(Callback)
  BY <1>1, AppendProperties
<1>. HIDE DEF aa, bb
<1>4. Tail(b) \in Seq(Callback) /\ Tail(c) \in Seq(Callback)
  BY <1>1
<1>5. (aa \o bb) \o Tail(c) = aa \o (bb \o Tail(c))
  BY <1>3, <1>4, ConcatAssociative, SMTT(40)
<1>6. (aa \o Tail(b)) \o c = aa \o (Tail(b) \o c)
  BY <1>3, <1>4, ConcatAssociative
<1>7. (aa \o bb) \o Tail(c) = (a \o b) \o c
  BY <1>1, <1>2, <1>5, <1>6, Zenon
<1>. QED  BY <1>7 DEF aa, bb

----------------------------------------------------------------------------
(* Type correctness *)

\* A receive keeps the channel, its callers and the record of starts well
\* typed, in whichever goroutine it happens.
LEMMA ReceiveType ==
    ASSUME TypeOK, NEW p \in Worker \cup Closer, Receive(p)
    PROVE  /\ caller' \in [Callback -> CallerState]
           /\ queue' \in Seq(Callback) /\ sendq' \in Seq(Callback)
           /\ running' \in [Worker \cup Closer -> Callback \cup {None}]
           /\ started' \in Seq(Callback)
<1>1. Head(queue) \in Callback /\ Tail(queue) \in Seq(Callback)
  BY HeadTailProperties DEF TypeOK, Receive
<1>2. started' \in Seq(Callback)
  BY <1>1, AppendProperties DEF TypeOK, Receive
<1>3. running' \in [Worker \cup Closer -> Callback \cup {None}]
  BY <1>1 DEF TypeOK, Receive
<1>4. CASE sendq = <<>>
  BY <1>1, <1>2, <1>3, <1>4 DEF TypeOK, Receive
<1>5. CASE sendq # <<>>
  <2>1. Head(sendq) \in Callback /\ Tail(sendq) \in Seq(Callback)
    BY <1>5, HeadTailProperties DEF TypeOK
  <2>2. Append(Tail(queue), Head(sendq)) \in Seq(Callback)
    BY <1>1, <2>1, AppendProperties
  <2>3. caller' \in [Callback -> CallerState]
    BY <1>5, <2>1 DEF TypeOK, Receive, CallerState
  <2>. QED  BY <1>2, <1>3, <1>5, <2>1, <2>2, <2>3 DEF Receive
<1>. QED  BY <1>4, <1>5

\* A goroutine is inside exec exactly while it holds a callback.
ExecHolds ==
    /\ \A w \in Worker : worker[w] = "exec" <=> running[w] # None
    /\ \A k \in Closer : closer[k] = "exec" <=> running[k] # None

\* TypeOK is inductive only together with ExecHolds: what Complete appends to
\* `finished' is a callback because a goroutine in exec holds one.
TypeInv == TypeOK /\ ExecHolds

LEMMA TypeInit == Init => TypeInv
<1>. SUFFICES ASSUME Init PROVE TypeInv
  OBVIOUS
<1>1. <<>> \in Seq(Callback)
  BY EmptySeq
<1>2. TypeOK
  BY <1>1 DEF Init, TypeOK, CallerState, WorkerState, CloserState
<1>3. ExecHolds
  BY DEF Init, ExecHolds
<1>. QED  BY <1>2, <1>3 DEF TypeInv

\* The steps of an Enqueue call.
LEMMA TypeCaller ==
    ASSUME TypeInv, NEW c \in Callback, CallerStep(c)
    PROVE  TypeInv'
<1>. USE DEF TypeInv, TypeOK, ExecHolds
<1>1. CASE CheckDone(c)
  BY <1>1 DEF CheckDone, CallerState, channelVars, poolVars, closeVars
<1>2. CASE Send(c)
  <2>1. /\ accepted' \in Seq(Callback)
        /\ Append(queue, c) \in Seq(Callback)
        /\ Append(sendq, c) \in Seq(Callback)
    BY <1>2, AppendProperties DEF Send
  <2>2. caller' \in [Callback -> CallerState]
    BY <1>2 DEF Send, CallerState
  <2>. QED  BY <1>2, <2>1, <2>2 DEF Send, poolVars, closeVars
<1>. QED  BY <1>1, <1>2 DEF CallerStep

\* The steps of a pool thread.
LEMMA TypeWorker ==
    ASSUME TypeInv, NEW w \in Worker, WorkerStep(w)
    PROVE  TypeInv'
<1>0. w \notin Closer /\ None \notin Callback
  BY CallbackQueueAssumption
<1>1. CASE Take(w)
  <2>1. Receive(w)
    BY <1>1 DEF Take
  <2>2. /\ caller' \in [Callback -> CallerState]
        /\ queue' \in Seq(Callback) /\ sendq' \in Seq(Callback)
        /\ running' \in [Worker \cup Closer -> Callback \cup {None}]
        /\ started' \in Seq(Callback)
    BY <2>1, ReceiveType DEF TypeInv
  <2>3. TypeOK'
    BY <1>1, <2>2 DEF Take, TypeInv, TypeOK, WorkerState, closeVars
  <2>4. Head(queue) \in Callback
    BY <2>1, HeadTailProperties DEF Receive, TypeInv, TypeOK
  <2>5. ExecHolds'
    BY <1>0, <1>1, <2>1, <2>4
       DEF Take, Receive, TypeInv, TypeOK, ExecHolds, closeVars
  <2>. QED  BY <2>3, <2>5 DEF TypeInv
<1>2. CASE Finish(w)
  <2>1. running[w] \in Callback
    BY <1>2 DEF Finish, TypeInv, TypeOK, ExecHolds
  <2>2. finished' \in Seq(Callback)
    BY <1>2, <2>1, AppendProperties DEF Finish, Complete, TypeInv, TypeOK
  <2>. QED
    BY <1>0, <1>2, <2>2
       DEF Finish, Complete, TypeInv, TypeOK, ExecHolds, WorkerState,
           channelVars, closeVars
<1>3. CASE SeeDone(w)
  BY <1>3 DEF SeeDone, TypeInv, TypeOK, ExecHolds, WorkerState,
              enqueueVars, channelVars, closeVars
<1>4. CASE Exit(w)
  BY <1>4 DEF Exit, TypeInv, TypeOK, ExecHolds, WorkerState,
              enqueueVars, channelVars, closeVars
<1>. QED  BY <1>1, <1>2, <1>3, <1>4 DEF WorkerStep

\* The steps of a Shutdown call, and the end of its context.
LEMMA TypeCloser ==
    ASSUME TypeInv, NEW k \in Closer, Swap(k) \/ CloserStep(k) \/ Expire(k)
    PROVE  TypeInv'
<1>0. k \notin Worker /\ None \notin Callback
  BY CallbackQueueAssumption
<1>1. CASE Drain(k)
  <2>1. Receive(k)
    BY <1>1 DEF Drain
  <2>2. /\ caller' \in [Callback -> CallerState]
        /\ queue' \in Seq(Callback) /\ sendq' \in Seq(Callback)
        /\ running' \in [Worker \cup Closer -> Callback \cup {None}]
        /\ started' \in Seq(Callback)
    BY <2>1, ReceiveType DEF TypeInv
  <2>3. TypeOK'
    BY <1>1, <2>2 DEF Drain, TypeInv, TypeOK, CloserState, poolVars
  <2>4. Head(queue) \in Callback
    BY <2>1, HeadTailProperties DEF Receive, TypeInv, TypeOK
  <2>5. ExecHolds'
    BY <1>0, <1>1, <2>1, <2>4
       DEF Drain, Receive, TypeInv, TypeOK, ExecHolds, poolVars
  <2>. QED  BY <2>3, <2>5 DEF TypeInv
<1>2. CASE FinishDrained(k)
  <2>1. running[k] \in Callback
    BY <1>2 DEF FinishDrained, TypeInv, TypeOK, ExecHolds
  <2>2. finished' \in Seq(Callback)
    BY <1>2, <2>1, AppendProperties
       DEF FinishDrained, Complete, TypeInv, TypeOK
  <2>. QED
    BY <1>0, <1>2, <2>2
       DEF FinishDrained, Complete, TypeInv, TypeOK, ExecHolds, CloserState,
           channelVars, poolVars
<1>. USE DEF TypeInv, TypeOK, ExecHolds, CloserState, enqueueVars, channelVars,
             poolVars
<1>3. CASE Swap(k)
  BY <1>3 DEF Swap
<1>4. CASE CloseDone(k)
  BY <1>4 DEF CloseDone
<1>5. CASE Reap(k)
  BY <1>5 DEF Reap
<1>6. CASE AllReaped(k)
  BY <1>6 DEF AllReaped
<1>7. CASE ReturnTrue(k)
  BY <1>7 DEF ReturnTrue
<1>8. CASE ReturnFalse(k)
  BY <1>8 DEF ReturnFalse
<1>9. CASE Expire(k)
  BY <1>9 DEF Expire
<1>. QED
  BY <1>1, <1>2, <1>3, <1>4, <1>5, <1>6, <1>7, <1>8, <1>9 DEF CloserStep

LEMMA TypeStutter ==
    ASSUME TypeInv, UNCHANGED vars
    PROVE  TypeInv'
  BY DEF TypeInv, TypeOK, ExecHolds, vars

LEMMA TypeInvariant == Spec => []TypeInv
<1>1. TypeInv /\ [Next]_vars => TypeInv'
  BY TypeCaller, TypeWorker, TypeCloser, TypeStutter DEF Next
<1>. QED  BY <1>1, TypeInit, PTL DEF Spec

\* Every reachable state is well typed.
THEOREM TypeCorrect == Spec => []TypeOK
<1>1. TypeInv => TypeOK
  BY DEF TypeInv
<1>. QED  BY <1>1, TypeInvariant, PTL

----------------------------------------------------------------------------
(* Order of execution *)

\* Sending appends to what was accepted and to the channel alike.
LEMMA OrderSend ==
    ASSUME TypeOK, ExecutedInOrder, NEW c \in Callback, Send(c),
           sendq # <<>> => Len(queue) = QueueSize
    PROVE  ExecutedInOrder'
<1>1. /\ accepted' = Append(started \o queue \o sendq, c)
      /\ started' = started
      /\ queue \in Seq(Callback) /\ sendq \in Seq(Callback)
      /\ started \in Seq(Callback)
  BY DEF Send, ExecutedInOrder, TypeOK
<1>2. CASE queue' = Append(queue, c) /\ Len(queue) < QueueSize /\ UNCHANGED sendq
  <2>1. sendq = <<>> /\ sendq' = <<>>
    BY <1>2
  <2>2. /\ started \o queue \in Seq(Callback)
        /\ Append(queue, c) \in Seq(Callback)
    BY <1>1, ConcatProperties, AppendProperties
  <2>3. started \o Append(queue, c) \in Seq(Callback)
    BY <1>1, <2>2, ConcatProperties
  <2>4. Append(started \o queue, c) = started \o Append(queue, c)
    <3>1. /\ Append(queue, c) = queue \o <<c>>
          /\ Append(started \o queue, c) = (started \o queue) \o <<c>>
      BY <1>1, <2>2, AppendIsConcat
    <3>2. <<c>> \in Seq(Callback)
      OBVIOUS
    <3>. QED  BY <1>1, <3>1, <3>2, ConcatAssociative
  <2>5. accepted' = Append(started \o queue, c)
    BY <1>1, <2>1, <2>2, ConcatEmptySeq
  <2>6. (started \o Append(queue, c)) \o <<>> = started \o Append(queue, c)
    BY <2>3, ConcatEmptySeq
  <2>7. accepted' = (started \o Append(queue, c)) \o <<>>
    BY <2>4, <2>5, <2>6
  <2>. QED  BY <1>1, <1>2, <2>1, <2>7 DEF ExecutedInOrder
<1>3. CASE sendq' = Append(sendq, c) /\ UNCHANGED queue
  <2>1. Append(started \o queue \o sendq, c) = started \o queue \o Append(sendq, c)
    BY <1>1, AppendRight, Zenon
  <2>. QED  BY <1>1, <1>3, <2>1 DEF ExecutedInOrder
<1>. QED  BY <1>2, <1>3 DEF Send

\* A receive moves the head of the buffer to the starts and the head of the
\* parked senders to the buffer; the concatenation stays what it was.
LEMMA OrderReceive ==
    ASSUME TypeOK, NEW p \in Worker \cup Closer, Receive(p)
    PROVE  started' \o queue' \o sendq' = started \o queue \o sendq
<1>1. /\ queue \in Seq(Callback) /\ sendq \in Seq(Callback)
      /\ started \in Seq(Callback) /\ queue # <<>>
      /\ started' = Append(started, Head(queue))
  BY DEF Receive, TypeOK
<1>2. CASE sendq = <<>>
  <2>1. queue' = Tail(queue) /\ sendq' = sendq
    BY <1>2 DEF Receive
  <2>2. Append(started, Head(queue)) \o Tail(queue) = started \o queue
    BY <1>1, MoveOne
  <2>. QED  BY <1>1, <2>1, <2>2
<1>3. CASE sendq # <<>>
  <2>1. queue' = Append(Tail(queue), Head(sendq)) /\ sendq' = Tail(sendq)
    BY <1>3 DEF Receive
  <2>2. Append(started, Head(queue)) \o Append(Tail(queue), Head(sendq))
            \o Tail(sendq) = started \o queue \o sendq
    BY <1>1, <1>3, MoveTwo, Zenon
  <2>. QED  BY <1>1, <2>1, <2>2, Zenon
<1>. QED  BY <1>2, <1>3

\* ExecutedInOrder rests on the type invariant and on this: senders park only
\* behind a full buffer, so none of them is overtaken by a later send.
ParkedOnlyWhenFull ==
    /\ Len(queue) <= QueueSize
    /\ sendq # <<>> => Len(queue) = QueueSize

LEMMA ParkedReceive ==
    ASSUME TypeOK, ParkedOnlyWhenFull, NEW p \in Worker \cup Closer, Receive(p)
    PROVE  ParkedOnlyWhenFull'
<1>1. Tail(queue) \in Seq(Callback) /\ Len(Tail(queue)) = Len(queue) - 1
  BY HeadTailProperties DEF Receive, TypeOK
<1>2. Len(queue) \in Nat /\ QueueSize \in Nat
  BY CallbackQueueAssumption, LenProperties DEF TypeOK
<1>3. CASE sendq = <<>>
  BY <1>1, <1>2, <1>3 DEF Receive, ParkedOnlyWhenFull
<1>4. CASE sendq # <<>>
  <2>1. Head(sendq) \in Callback
    BY <1>4, HeadTailProperties DEF TypeOK
  <2>2. Len(queue') = Len(queue)
    BY <1>1, <1>2, <1>4, <2>1, AppendProperties DEF Receive
  <2>. QED  BY <1>2, <1>4, <2>2 DEF ParkedOnlyWhenFull
<1>. QED  BY <1>3, <1>4

LEMMA ParkedSend ==
    ASSUME TypeOK, ParkedOnlyWhenFull, NEW c \in Callback, Send(c)
    PROVE  ParkedOnlyWhenFull'
<1>1. Len(queue) \in Nat /\ QueueSize \in Nat
  BY CallbackQueueAssumption, LenProperties DEF TypeOK
<1>2. Len(Append(queue, c)) = Len(queue) + 1
  BY AppendProperties DEF TypeOK
<1>. QED  BY <1>1, <1>2 DEF Send, ParkedOnlyWhenFull

OrderInv == ParkedOnlyWhenFull /\ ExecutedInOrder

LEMMA OrderStep ==
    ASSUME TypeOK, OrderInv, [Next]_vars
    PROVE  OrderInv'
<1>1. ASSUME NEW c \in Callback, Send(c)
      PROVE  OrderInv'
  BY <1>1, OrderSend, ParkedSend DEF OrderInv, ParkedOnlyWhenFull
<1>2. ASSUME NEW w \in Worker, Take(w)
      PROVE  OrderInv'
  BY <1>2, OrderReceive, ParkedReceive DEF Take, OrderInv, ExecutedInOrder
<1>3. ASSUME NEW k \in Closer, Drain(k)
      PROVE  OrderInv'
  BY <1>3, OrderReceive, ParkedReceive DEF Drain, OrderInv, ExecutedInOrder
<1>4. CASE UNCHANGED <<queue, sendq, accepted, started>>
  BY <1>4 DEF OrderInv, ExecutedInOrder, ParkedOnlyWhenFull
<1>5. ASSUME NEW c \in Callback, CheckDone(c)
      PROVE  UNCHANGED <<queue, sendq, accepted, started>>
  BY <1>5 DEF CheckDone, channelVars
<1>6. ASSUME NEW w \in Worker, Finish(w) \/ SeeDone(w) \/ Exit(w)
      PROVE  UNCHANGED <<queue, sendq, accepted, started>>
  BY <1>6 DEF Finish, SeeDone, Exit, Complete, channelVars, enqueueVars
<1>7. ASSUME NEW k \in Closer,
             \/ Swap(k) \/ CloseDone(k) \/ Reap(k) \/ AllReaped(k)
             \/ FinishDrained(k) \/ ReturnTrue(k) \/ ReturnFalse(k) \/ Expire(k)
      PROVE  UNCHANGED <<queue, sendq, accepted, started>>
  BY <1>7 DEF Swap, CloseDone, Reap, AllReaped, FinishDrained, ReturnTrue,
              ReturnFalse, Expire, Complete, channelVars, enqueueVars
<1>8. CASE UNCHANGED vars
  BY <1>4, <1>8 DEF vars
<1>. QED
  BY <1>1, <1>2, <1>3, <1>4, <1>5, <1>6, <1>7, <1>8
     DEF Next, CallerStep, WorkerStep, CloserStep

\* For every pool, buffer and schedule the callbacks run in the order in which
\* the channel accepted them, and none is dropped or repeated on the way.
THEOREM OrderCorrect == Spec => []ExecutedInOrder
<1>1. Init => OrderInv
  <2>1. <<>> \in Seq(Callback) /\ <<>> \o <<>> \o <<>> = <<>>
    BY EmptySeq, ConcatEmptySeq
  <2>. QED
    BY <2>1, CallbackQueueAssumption
       DEF Init, OrderInv, ParkedOnlyWhenFull, ExecutedInOrder
<1>2. TypeOK /\ OrderInv /\ [Next]_vars => OrderInv'
  BY OrderStep
<1>3. OrderInv => ExecutedInOrder
  BY DEF OrderInv
<1>. QED  BY <1>1, <1>2, <1>3, TypeCorrect, PTL DEF Spec

----------------------------------------------------------------------------
(* Shutdown *)

\* A Shutdown call that won the compare-and-swap, running or over.
Won(k) == closer[k] \notin {"idle", "already"}

\* At most one call wins, and it wins by raising idone.
OneWinner ==
    /\ \A k \in Closer : Won(k) => idone
    /\ \A j, k \in Closer : Won(j) /\ Won(k) => j = k

\* Only workers that left their loop are in the channel alive or counted, and
\* the winner drains the queue only after it counted all of them.
PoolLeft ==
    /\ \A w \in alive \cup reaped : worker[w] = "exited"
    /\ \A k \in Closer :
           closer[k] \in {"draining", "exec", "true"} => reaped = Worker

ShutdownInv == OneWinner /\ PoolLeft

LEMMA ShutdownWorker ==
    ASSUME TypeOK, ShutdownInv, NEW w \in Worker, WorkerStep(w)
    PROVE  ShutdownInv'
<1>1. OneWinner'
  BY DEF WorkerStep, Take, Finish, SeeDone, Exit, Complete, closeVars,
         ShutdownInv, OneWinner, Won
<1>2. \A v \in (alive \cup reaped)' : worker'[v] = "exited"
  BY DEF WorkerStep, Take, Finish, SeeDone, Exit, Complete, closeVars,
         ShutdownInv, PoolLeft, TypeOK
<1>3. UNCHANGED <<closer, reaped>>
  BY DEF WorkerStep, Take, Finish, SeeDone, Exit, closeVars
<1>. QED  BY <1>1, <1>2, <1>3 DEF ShutdownInv, PoolLeft

LEMMA ShutdownCloser ==
    ASSUME TypeOK, ShutdownInv,
           NEW k \in Closer, Swap(k) \/ CloserStep(k) \/ Expire(k)
    PROVE  ShutdownInv'
<1>. USE DEF ShutdownInv, OneWinner, Won, PoolLeft, TypeOK, poolVars
<1>1. CASE Swap(k)
  BY <1>1 DEF Swap
<1>2. CASE CloseDone(k)
  BY <1>2 DEF CloseDone
<1>3. CASE Reap(k)
  BY <1>3 DEF Reap
<1>4. CASE AllReaped(k)
  BY <1>4 DEF AllReaped
<1>5. CASE Drain(k)
  BY <1>5 DEF Drain
<1>6. CASE FinishDrained(k)
  BY <1>6 DEF FinishDrained
<1>7. CASE ReturnTrue(k)
  BY <1>7 DEF ReturnTrue
<1>8. CASE ReturnFalse(k)
  BY <1>8 DEF ReturnFalse
<1>9. CASE Expire(k)
  BY <1>9 DEF Expire
<1>. QED
  BY <1>1, <1>2, <1>3, <1>4, <1>5, <1>6, <1>7, <1>8, <1>9 DEF CloserStep

LEMMA ShutdownStep ==
    ASSUME TypeOK, ShutdownInv, [Next]_vars
    PROVE  ShutdownInv'
<1>1. ASSUME NEW c \in Callback, CallerStep(c)
      PROVE  ShutdownInv'
  BY <1>1 DEF CallerStep, CheckDone, Send, closeVars, poolVars,
              ShutdownInv, OneWinner, Won, PoolLeft
<1>2. CASE UNCHANGED vars
  BY <1>2 DEF vars, ShutdownInv, OneWinner, Won, PoolLeft
<1>. QED  BY <1>1, <1>2, ShutdownWorker, ShutdownCloser DEF Next

\* Once the winning Shutdown call returned true, no goroutine of the pool and
\* no Shutdown call runs a callback, in this and in every later state.
THEOREM QuietCorrect == Spec => []QuietAfterShutdown
<1>1. Init => ShutdownInv
  BY DEF Init, ShutdownInv, OneWinner, Won, PoolLeft
<1>2. TypeInv /\ ShutdownInv => QuietAfterShutdown
  <2>. SUFFICES ASSUME TypeInv, ShutdownInv,
                       NEW k \in Closer, closer[k] = "true",
                       NEW p \in Worker \cup Closer
                PROVE  running[p] = None
    BY DEF QuietAfterShutdown, PoolExited, Running
  <2>1. CASE p \in Worker
    <3>1. worker[p] = "exited"
      BY <2>1 DEF ShutdownInv, PoolLeft
    <3>. QED  BY <2>1, <3>1 DEF TypeInv, ExecHolds
  <2>2. CASE p \in Closer
    <3>1. closer[p] # "exec"
      BY <2>2 DEF ShutdownInv, OneWinner, Won
    <3>. QED  BY <2>2, <3>1 DEF TypeInv, ExecHolds
  <2>. QED  BY <2>1, <2>2
<1>3. TypeInv => TypeOK
  BY DEF TypeInv
<1>4. TypeOK /\ ShutdownInv /\ [Next]_vars => ShutdownInv'
  BY ShutdownStep
<1>. QED  BY <1>1, <1>2, <1>3, <1>4, TypeInvariant, PTL DEF Spec
----------------------------------------------------------------------------
(* Each callback runs once *)

\* The channel takes a callback once, from the goroutine that enqueues it.
SentOnce ==
    /\ IsInjective(accepted)
    /\ \A c \in Callback :
           caller[c] \in {"idle", "checked", "skipped"} => c \notin Range(accepted)

LEMMA SentOnceStep ==
    ASSUME TypeOK, SentOnce, [Next]_vars
    PROVE  SentOnce'
<1>1. ASSUME NEW c \in Callback, Send(c)
      PROVE  SentOnce'
  <2>1. /\ accepted' = Append(accepted, c) /\ c \notin Range(accepted)
        /\ accepted \in Seq(Callback)
    BY <1>1 DEF Send, SentOnce, TypeOK
  <2>2. IsInjective(accepted') /\ Range(accepted') = Range(accepted) \cup {c}
    BY <2>1, AppendNew DEF SentOnce
  <2>3. \A d \in Callback : d # c => caller'[d] = caller[d]
    BY <1>1 DEF Send, TypeOK
  <2>4. caller'[c] \in {"returned", "parked"}
    BY <1>1 DEF Send, TypeOK
  <2>. QED  BY <2>2, <2>3, <2>4 DEF SentOnce
<1>2. ASSUME accepted' = accepted,
             \A d \in Callback : \/ caller'[d] = caller[d]
                                 \/ caller'[d] = "returned"
                                 \/ caller[d] = "idle"
      PROVE  SentOnce'
  BY <1>2 DEF SentOnce
<1>3. ASSUME NEW c \in Callback, CheckDone(c)
      PROVE  SentOnce'
  BY <1>2, <1>3 DEF CheckDone, TypeOK
<1>4. ASSUME NEW p \in Worker \cup Closer, Receive(p), accepted' = accepted
      PROVE  SentOnce'
  BY <1>2, <1>4 DEF Receive, TypeOK
<1>5. ASSUME NEW w \in Worker, WorkerStep(w)
      PROVE  SentOnce'
  BY <1>2, <1>4, <1>5 DEF WorkerStep, Take, Finish, SeeDone, Exit, Complete, enqueueVars
<1>6. ASSUME NEW k \in Closer, Swap(k) \/ CloserStep(k) \/ Expire(k)
      PROVE  SentOnce'
  BY <1>2, <1>4, <1>6
     DEF Swap, CloserStep, CloseDone, Reap, AllReaped, Drain, FinishDrained,
         ReturnTrue, ReturnFalse, Expire, Complete, enqueueVars
<1>7. CASE UNCHANGED vars
  BY <1>2, <1>7 DEF vars
<1>. QED  BY <1>1, <1>3, <1>5, <1>6, <1>7 DEF Next, CallerStep

\* The goroutines that are running a callback.
Busy == {p \in Worker \cup Closer : running[p] # None}

\* Either workers are busy or the one Shutdown call that drains is.
LEMMA BusyBound ==
    ASSUME TypeInv, ShutdownInv
    PROVE  IsFiniteSet(Busy) /\ Cardinality(Busy) <= Cardinality(Worker)
<1>1. IsFiniteSet(Worker) /\ Cardinality(Worker) \in Nat /\ Cardinality(Worker) # 0
  BY CallbackQueueAssumption, FS_CardinalityType, FS_EmptySet
<1>2. CASE Busy \subseteq Worker
  BY <1>1, <1>2, FS_Subset
<1>3. ASSUME NEW k \in Busy, k \notin Worker
      PROVE  IsFiniteSet(Busy) /\ Cardinality(Busy) <= Cardinality(Worker)
  <2>1. k \in Closer /\ closer[k] = "exec"
    BY <1>3 DEF Busy, TypeInv, ExecHolds
  <2>2. \A w \in Worker : worker[w] = "exited"
    BY <2>1 DEF ShutdownInv, PoolLeft
  <2>3. \A p \in Busy : p \in Closer /\ closer[p] = "exec"
    BY <2>2 DEF Busy, TypeInv, ExecHolds
  <2>4. \A p \in Busy : p = k
    BY <2>1, <2>3 DEF ShutdownInv, OneWinner, Won
  <2>5. Busy = {k}
    BY <1>3, <2>4
  <2>. QED  BY <1>1, <2>5, FS_Singleton
<1>. QED  BY <1>2, <1>3

\* RunOnce is inductive once it says which goroutine runs what: no two run the
\* same callback.
RunApart ==
    \A p, q \in Worker \cup Closer :
        running[p] # None /\ running[p] = running[q] => p = q

RunInv == RunOnce /\ RunApart

\* A receive in an idle goroutine starts a callback that was never started.
LEMMA RunReceive ==
    ASSUME TypeInv, RunInv, IsFiniteSet(Busy), NEW p \in Worker \cup Closer,
           running[p] = None, Receive(p), finished' = finished,
           IsInjective(started')
    PROVE  RunInv'
<1>. DEFINE h == Head(queue)
<1>1. /\ h \in Callback /\ h # None /\ started \in Seq(Callback)
      /\ finished \in Seq(Callback)
  BY CallbackQueueAssumption, HeadTailProperties DEF Receive, TypeInv, TypeOK
<1>2. /\ running' = [running EXCEPT ![p] = h]
      /\ started' = Append(started, h)
  BY DEF Receive
<1>. HIDE DEF h
<1>3. /\ Range(started') = Range(started) \cup {h}
      /\ h \notin Range(started)
      /\ Len(started') = Len(started) + 1
  BY <1>1, <1>2, AppendNew, AppendProperties
<1>4. /\ running'[p] = h
      /\ \A q \in Worker \cup Closer : q # p => running'[q] = running[q]
  BY <1>2 DEF TypeInv, TypeOK
<1>5. Running' = Running \cup {h}
  BY <1>1, <1>4 DEF Running
<1>6. Busy' = Busy \cup {p} /\ p \notin Busy
  BY <1>1, <1>4 DEF Busy
<1>7. Cardinality(Busy') = Cardinality(Busy) + 1 /\ Cardinality(Busy) \in Nat
  BY <1>6, FS_AddElement, FS_CardinalityType
<1>8. \A q \in Worker \cup Closer : running[q] # None => running[q] \in Range(started)
  BY DEF RunInv, RunOnce, Running
<1>9. RunApart'
  BY <1>3, <1>4, <1>8 DEF RunInv, RunApart
<1>10. /\ Running' \cap Range(finished') = {}
       /\ Running' \cup Range(finished') = Range(started')
  BY <1>3, <1>5 DEF RunInv, RunOnce
<1>11. Len(started') = Len(finished') + Cardinality(Busy')
  <2>1. Len(started) = Len(finished) + Cardinality(Busy)
    BY DEF RunInv, RunOnce, Busy
  <2>. QED  BY <1>1, <1>3, <1>7, <2>1, LenProperties
<1>. QED  BY <1>9, <1>10, <1>11 DEF RunInv, RunOnce, Busy

\* The end of a callback takes it from its goroutine to the finished ones.
LEMMA RunComplete ==
    ASSUME TypeInv, RunInv, IsFiniteSet(Busy), NEW p \in Worker \cup Closer,
           running[p] # None, Complete(p)
    PROVE  RunInv'
<1>. DEFINE c == running[p]
<1>1. /\ c \in Callback /\ finished \in Seq(Callback) /\ started' = started
      /\ finished' = Append(finished, c) /\ started \in Seq(Callback)
  BY DEF Complete, TypeInv, TypeOK
<1>2. /\ running'[p] = None
      /\ \A q \in Worker \cup Closer : q # p => running'[q] = running[q]
  BY DEF Complete, TypeInv, TypeOK
<1>3. /\ Range(finished') = Range(finished) \cup {c}
      /\ Len(finished') = Len(finished) + 1
  BY <1>1, AppendNew, AppendProperties
<1>4. Running' = Running \ {c} /\ c \in Running
  BY <1>1, <1>2 DEF Running, RunInv, RunApart
<1>5. Busy' = Busy \ {p} /\ p \in Busy
  BY <1>2 DEF Busy
<1>6. Cardinality(Busy') = Cardinality(Busy) - 1 /\ Cardinality(Busy) \in Nat
  BY <1>5, FS_RemoveElement, FS_CardinalityType
<1>7. RunApart'
  BY <1>2 DEF RunInv, RunApart
<1>8. /\ Running' \cap Range(finished') = {}
      /\ Running' \cup Range(finished') = Range(started')
  BY <1>1, <1>3, <1>4 DEF RunInv, RunOnce
<1>9. Len(started') = Len(finished') + Cardinality(Busy')
  <2>1. Len(started) = Len(finished) + Cardinality(Busy)
    BY DEF RunInv, RunOnce, Busy
  <2>. QED  BY <1>1, <1>3, <1>6, <2>1, LenProperties
<1>. QED  BY <1>7, <1>8, <1>9 DEF RunInv, RunOnce, Busy

LEMMA RunStep ==
    ASSUME TypeInv, ShutdownInv, RunInv, IsInjective(started'), [Next]_vars
    PROVE  RunInv'
<1>0. IsFiniteSet(Busy)
  BY BusyBound
<1>1. CASE UNCHANGED <<running, started, finished>>
  BY <1>1 DEF RunInv, RunOnce, RunApart, Running
<1>2. ASSUME NEW c \in Callback, CallerStep(c)
      PROVE  RunInv'
  BY <1>1, <1>2 DEF CallerStep, CheckDone, Send
<1>3. ASSUME NEW w \in Worker, WorkerStep(w)
      PROVE  RunInv'
  <2>1. CASE Take(w)
    BY <1>0, <2>1, RunReceive DEF Take, TypeInv, ExecHolds
  <2>2. CASE Finish(w)
    BY <1>0, <2>2, RunComplete DEF Finish, TypeInv, ExecHolds
  <2>3. CASE SeeDone(w) \/ Exit(w)
    BY <1>1, <2>3 DEF SeeDone, Exit
  <2>. QED  BY <1>3, <2>1, <2>2, <2>3 DEF WorkerStep
<1>4. ASSUME NEW k \in Closer, Swap(k) \/ CloserStep(k) \/ Expire(k)
      PROVE  RunInv'
  <2>1. CASE Drain(k)
    BY <1>0, <2>1, RunReceive DEF Drain, TypeInv, ExecHolds
  <2>2. CASE FinishDrained(k)
    BY <1>0, <2>2, RunComplete DEF FinishDrained, TypeInv, ExecHolds
  <2>3. CASE \/ Swap(k) \/ CloseDone(k) \/ Reap(k) \/ AllReaped(k)
             \/ ReturnTrue(k) \/ ReturnFalse(k) \/ Expire(k)
    BY <1>1, <2>3 DEF Swap, CloseDone, Reap, AllReaped, ReturnTrue, ReturnFalse, Expire
  <2>. QED  BY <1>4, <2>1, <2>2, <2>3 DEF CloserStep
<1>5. CASE UNCHANGED vars
  BY <1>1, <1>5 DEF vars
<1>. QED  BY <1>2, <1>3, <1>4, <1>5 DEF Next

\* Everything that holds in every reachable state.
QueueInv == TypeInv /\ OrderInv /\ ShutdownInv /\ SentOnce /\ RunInv

LEMMA QueueInvInit == Init => QueueInv
<1>. SUFFICES ASSUME Init PROVE QueueInv
  OBVIOUS
<1>1. /\ DOMAIN accepted = {} /\ Range(accepted) = {}
      /\ Range(started) = {} /\ Range(finished) = {}
      /\ Len(started) = 0 /\ Len(finished) = 0
  BY DEF Init, Range
<1>2. SentOnce
  BY <1>1 DEF SentOnce, IsInjective
<1>3. Busy = {} /\ Running = {} /\ RunApart
  BY DEF Init, Busy, Running, RunApart
<1>4. Cardinality(Busy) = 0
  BY <1>3, FS_EmptySet
<1>5. RunInv
  BY <1>1, <1>3, <1>4 DEF RunInv, RunOnce, Busy
<1>6. OrderInv
  <2>1. <<>> \in Seq(Callback) /\ <<>> \o <<>> \o <<>> = <<>>
    BY EmptySeq, ConcatEmptySeq
  <2>. QED
    BY <2>1, CallbackQueueAssumption
       DEF Init, OrderInv, ParkedOnlyWhenFull, ExecutedInOrder
<1>7. ShutdownInv
  BY DEF Init, ShutdownInv, OneWinner, Won, PoolLeft
<1>. QED  BY <1>2, <1>5, <1>6, <1>7, TypeInit DEF QueueInv

LEMMA QueueInvStep == QueueInv /\ [Next]_vars => QueueInv'
<1>. SUFFICES ASSUME QueueInv, [Next]_vars PROVE QueueInv'
  OBVIOUS
<1>1. TypeInv'
  BY TypeCaller, TypeWorker, TypeCloser, TypeStutter DEF QueueInv, Next
<1>2. OrderInv' /\ ShutdownInv' /\ SentOnce'
  BY OrderStep, ShutdownStep, SentOnceStep DEF QueueInv, TypeInv
<1>3. IsInjective(started')
  BY <1>1, <1>2, FrontInjective
     DEF TypeInv, TypeOK, OrderInv, ExecutedInOrder, SentOnce
<1>4. RunInv'
  BY <1>3, RunStep DEF QueueInv
<1>. QED  BY <1>1, <1>2, <1>4 DEF QueueInv

LEMMA QueueInvariant == Spec => []QueueInv
BY QueueInvInit, QueueInvStep, PTL DEF Spec

\* Each callback that was taken out of the channel is running in exactly one
\* goroutine or has finished once, whoever takes it: a worker or Shutdown.
THEOREM RunOnceCorrect == Spec => []RunOnce
<1>1. QueueInv => RunOnce
  BY DEF QueueInv, RunInv
<1>. QED  BY <1>1, QueueInvariant, PTL

\* Never more callbacks are started and unfinished than the pool has threads, also
\* while Shutdown drains the queue in its own goroutine.
THEOREM OvertakingBounded == Spec => []BoundedOvertaking
<1>1. ASSUME QueueInv
      PROVE  BoundedOvertaking
  <2>1. Range(started) \ Range(finished) = Running
    BY <1>1 DEF QueueInv, RunInv, RunOnce
  <2>2. IsFiniteSet(Busy) /\ Cardinality(Busy) <= Cardinality(Worker)
    BY <1>1, BusyBound DEF QueueInv
  <2>3. [p \in Busy |-> running[p]] \in Surjection(Busy, Running)
    BY DEF Surjection, Busy, Running
  <2>4. IsFiniteSet(Running) /\ Cardinality(Running) <= Cardinality(Busy)
    BY <2>2, <2>3, FS_Surjection
  <2>5. /\ Cardinality(Running) \in Nat /\ Cardinality(Busy) \in Nat
        /\ Cardinality(Worker) \in Nat
    BY <2>2, <2>4, FS_CardinalityType, CallbackQueueAssumption
  <2>. QED  BY <2>1, <2>2, <2>4, <2>5 DEF BoundedOvertaking
<1>. QED  BY <1>1, QueueInvariant, PTL

\* When the winning Shutdown returns true, every callback that the channel ever
\* accepted has finished and every worker has exited.
THEOREM DrainedCorrect == Spec => DrainedOnReturn
<1>1. ASSUME QueueInv, [Next]_vars, NEW k \in Closer,
             closer[k] # "true", closer'[k] = "true"
      PROVE  /\ Range(finished') = Range(accepted')
             /\ \A w \in Worker : worker'[w] = "exited"
  <2>0. TypeOK
    BY <1>1 DEF QueueInv, TypeInv
  <2>1. ReturnTrue(k)
    <3>1. ASSUME NEW j \in Closer, Swap(j) \/ CloserStep(j) \/ Expire(j)
          PROVE  ReturnTrue(k)
      BY <1>1, <2>0, <3>1
         DEF Swap, CloserStep, CloseDone, Reap, AllReaped, Drain, FinishDrained,
             ReturnTrue, ReturnFalse, Expire, TypeOK
    <3>2. closer' # closer
      BY <1>1
    <3>. QED
      BY <1>1, <3>1, <3>2
         DEF Next, CallerStep, CheckDone, Send, WorkerStep, Take, Finish, SeeDone,
             Exit, closeVars, vars
  <2>2. queue = <<>> /\ closer[k] = "draining"
    BY <2>1 DEF ReturnTrue
  <2>3. sendq = <<>>
    BY <1>1, <2>2, CallbackQueueAssumption DEF QueueInv, OrderInv, ParkedOnlyWhenFull
  <2>4. accepted = started
    BY <1>1, <2>0, <2>2, <2>3, ConcatEmptySeq
       DEF QueueInv, OrderInv, ExecutedInOrder, TypeOK
  <2>5. \A w \in Worker : worker[w] = "exited"
    BY <1>1, <2>2 DEF QueueInv, ShutdownInv, PoolLeft
  <2>6. \A j \in Closer : closer[j] # "exec"
    BY <1>1, <2>2 DEF QueueInv, ShutdownInv, OneWinner, Won
  <2>7. Running = {}
    BY <1>1, <2>5, <2>6 DEF QueueInv, TypeInv, ExecHolds, Running
  <2>8. Range(finished) = Range(accepted)
    BY <1>1, <2>4, <2>7 DEF QueueInv, RunInv, RunOnce
  <2>. QED  BY <2>1, <2>5, <2>8 DEF ReturnTrue, enqueueVars, poolVars
<1>2. QueueInv /\ [Next]_vars =>
          [\A k \in Closer : closer[k] # "true" /\ closer'[k] = "true" =>
               /\ Range(finished') = Range(accepted')
               /\ \A w \in Worker : worker'[w] = "exited"]_vars
  BY <1>1
<1>. QED  BY <1>2, QueueInvariant, PTL DEF Spec, DrainedOnReturn
============================================================================
