--------------------------- MODULE CallbackQueue ---------------------------
(***************************************************************************)
(* server/utils/callbackqueue.go: the thread pool that runs the server's   *)
(* notifications and websocket broadcasts after a change was stored.       *)
(*                                                                         *)
(* Every callback is enqueued by a goroutine of its own (a request         *)
(* handler), so a callback also names its caller.  `queue' is the buffered *)
(* Go channel and `sendq' the senders parked on it: a receive from a full  *)
(* channel moves the first parked sender's element into the buffer in the  *)
(* same step.  `accepted', `started' and `finished' are history variables. *)
(***************************************************************************)
EXTENDS Integers, Sequences, FiniteSets, Functions

CONSTANTS Callback,   \* the callbacks (with the goroutine that enqueues each)
          Worker,     \* the goroutines running loop(id)
          Closer,     \* the goroutines that call Shutdown
          QueueSize,  \* capacity of the channel cn.queue
          None        \* no callback

ASSUME CallbackQueueAssumption ==
    /\ QueueSize \in Nat \ {0}
    /\ IsFiniteSet(Worker)
    /\ Worker # {}
    /\ Worker \cap Closer = {}
    /\ None \notin Callback

VARIABLES
    caller,    \* [Callback -> where its Enqueue call is]
    queue,     \* the buffer of the channel cn.queue
    sendq,     \* callbacks of the senders parked on cn.queue, in order
    idone,     \* the flag cn.idone
    done,      \* cn.done was closed
    alive,     \* the workers whose id is in the channel cn.alive
    worker,    \* [Worker -> where its loop is]
    running,   \* [Worker \cup Closer -> the callback that exec runs there]
    closer,    \* [Closer -> where its Shutdown call is]
    reaped,    \* the workers whose id Shutdown received (its `count')
    expired,   \* [Closer -> the context given to Shutdown is done]
    accepted,  \* callbacks the channel took, in order
    started,   \* callbacks taken out of the channel and run, in order
    finished   \* callbacks that returned or panicked, in order

enqueueVars == <<caller, accepted>>
channelVars == <<queue, sendq>>
poolVars    == <<alive, worker>>
closeVars   == <<idone, done, closer, reaped, expired>>
vars == <<caller, queue, sendq, idone, done, alive, worker, running, closer,
          reaped, expired, accepted, started, finished>>

CallerState == {"idle", "checked", "parked", "returned", "skipped"}
WorkerState == {"select", "exec", "leaving", "exited"}
CloserState == {"idle", "won", "waiting", "draining", "exec", "true", "false",
                "already"}

TypeOK ==
    /\ caller \in [Callback -> CallerState]
    /\ queue \in Seq(Callback) /\ sendq \in Seq(Callback)
    /\ idone \in BOOLEAN /\ done \in BOOLEAN
    /\ alive \subseteq Worker /\ reaped \subseteq Worker
    /\ worker \in [Worker -> WorkerState]
    /\ running \in [Worker \cup Closer -> Callback \cup {None}]
    /\ closer \in [Closer -> CloserState]
    /\ expired \in [Closer -> BOOLEAN]
    /\ accepted \in Seq(Callback)
    /\ started \in Seq(Callback)
    /\ finished \in Seq(Callback)

Init ==
    /\ caller = [c \in Callback |-> "idle"]
    /\ queue = <<>> /\ sendq = <<>>
    /\ idone = FALSE /\ done = FALSE
    /\ alive = {} /\ reaped = {}
    /\ worker = [w \in Worker |-> "select"]
    /\ running = [p \in Worker \cup Closer |-> None]
    /\ closer = [k \in Closer |-> "idle"]
    /\ expired = [k \in Closer |-> FALSE]
    /\ accepted = <<>> /\ started = <<>> /\ finished = <<>>

----------------------------------------------------------------------------
(* Enqueue: the check of idone and the send are two steps. *)

CheckDone(c) ==
    /\ caller[c] = "idle"
    /\ caller' = [caller EXCEPT ![c] = IF idone THEN "skipped" ELSE "checked"]
    /\ UNCHANGED <<channelVars, poolVars, closeVars, running, accepted, started,
                   finished>>

\* A sender that finds the buffer full parks behind those already waiting.
Send(c) ==
    /\ caller[c] = "checked"
    /\ accepted' = Append(accepted, c)
    /\ \/ /\ Len(queue) < QueueSize
          /\ queue' = Append(queue, c)
          /\ caller' = [caller EXCEPT ![c] = "returned"]
          /\ UNCHANGED sendq
       \/ /\ Len(queue) >= QueueSize
          /\ sendq' = Append(sendq, c)
          /\ caller' = [caller EXCEPT ![c] = "parked"]
          /\ UNCHANGED queue
    /\ UNCHANGED <<poolVars, closeVars, running, started, finished>>

----------------------------------------------------------------------------
\* Mutant: a parked sender hands its value over before the buffer is empty.
ReceiveParked(p) ==
    /\ queue # <<>>
    /\ running' = [running EXCEPT ![p] = Head(sendq \o queue)]
    /\ started' = Append(started, Head(sendq \o queue))
    /\ queue' = IF sendq = <<>> THEN Tail(queue) ELSE queue
    /\ sendq' = IF sendq = <<>> THEN <<>> ELSE Tail(sendq)
    /\ caller' = [c \in Callback |-> IF sendq # <<>> /\ c = Head(sendq)
                                     THEN "returned" ELSE caller[c]]

\* f := <-cn.queue in goroutine p, which goes on to exec(f).
Receive(p) ==
    /\ queue # <<>>
    /\ running' = [running EXCEPT ![p] = Head(queue)]
    /\ started' = Append(started, Head(queue))
    /\ IF sendq = <<>>
       THEN /\ queue' = Tail(queue)
            /\ UNCHANGED <<sendq, caller>>
       ELSE /\ queue' = Append(Tail(queue), Head(sendq))
            /\ sendq' = Tail(sendq)
            /\ caller' = [caller EXCEPT ![Head(sendq)] = "returned"]

\* exec: the callback returns, fails or panics; all three end it the same way.
Complete(p) ==
    /\ finished' = Append(finished, running[p])
    /\ running' = [running EXCEPT ![p] = None]
    /\ UNCHANGED <<channelVars, caller, accepted, started>>

----------------------------------------------------------------------------
(* loop: the select takes either ready case, so a worker may leave while     *)
(* the queue still holds callbacks.                                          *)

\* Mutant: the callback runs in a goroutine of its own.
TakeInBackground(w) ==
    /\ worker[w] = "select"
    /\ Receive(w)
    /\ UNCHANGED <<closeVars, alive, worker, accepted, finished>>

Take(w) ==
    /\ worker[w] = "select"
    /\ Receive(w)
    /\ worker' = [worker EXCEPT ![w] = "exec"]
    /\ UNCHANGED <<closeVars, alive, accepted, finished>>

\* Mutant: without the recover of exec a panic ends the goroutine.
FinishEndsThread(w) ==
    /\ worker[w] = "exec"
    /\ Complete(w)
    /\ \E next \in {"select", "exited"} :
           worker' = [worker EXCEPT ![w] = next]
    /\ UNCHANGED <<closeVars, alive>>

\* Mutant: exec is called whatever the receive returned.
FinishAnything(w) ==
    /\ Complete(w)
    /\ Len(finished) < Cardinality(Callback)
    /\ worker' = [worker EXCEPT ![w] = "select"]
    /\ UNCHANGED <<closeVars, alive>>

\* Mutant: a callback that failed is executed again.
FinishOrRetry(w) ==
    /\ worker[w] = "exec"
    /\ Len(finished) < 2 * Cardinality(Callback)
    /\ \/ /\ Complete(w)
          /\ worker' = [worker EXCEPT ![w] = "select"]
       \/ /\ finished' = Append(finished, running[w])
          /\ UNCHANGED <<channelVars, caller, accepted, started, running, worker>>
    /\ UNCHANGED <<closeVars, alive>>

Finish(w) ==
    /\ worker[w] = "exec"
    /\ Complete(w)
    /\ worker' = [worker EXCEPT ![w] = "select"]
    /\ UNCHANGED <<closeVars, alive>>

SeeDone(w) ==
    /\ worker[w] = "select"
    /\ done
    /\ worker' = [worker EXCEPT ![w] = "leaving"]
    /\ UNCHANGED <<enqueueVars, channelVars, closeVars, running, alive, started,
                   finished>>

\* Mutant: the deferred send is forgotten.
ExitSilently(w) ==
    /\ worker[w] = "leaving"
    /\ worker' = [worker EXCEPT ![w] = "exited"]
    /\ UNCHANGED <<enqueueVars, channelVars, closeVars, running, alive, started,
                   finished>>

\* The deferred cn.alive <- id: the channel has room for every worker.
Exit(w) ==
    /\ worker[w] = "leaving"
    /\ alive' = alive \cup {w}
    /\ worker' = [worker EXCEPT ![w] = "exited"]
    /\ UNCHANGED <<enqueueVars, channelVars, closeVars, running, started,
                   finished>>

----------------------------------------------------------------------------
(* Shutdown *)

\* The compare-and-swap: only the first caller goes on.
Swap(k) ==
    /\ closer[k] = "idle"
    /\ closer' = [closer EXCEPT ![k] = IF idone THEN "already" ELSE "won"]
    /\ idone' = TRUE
    /\ UNCHANGED <<enqueueVars, channelVars, poolVars, running, done, reaped,
                   expired, started, finished>>

CloseDone(k) ==
    /\ closer[k] = "won"
    /\ done' = TRUE
    /\ closer' = [closer EXCEPT ![k] = "waiting"]
    /\ UNCHANGED <<enqueueVars, channelVars, poolVars, running, idone, reaped,
                   expired, started, finished>>

Reap(k) ==
    /\ closer[k] = "waiting"
    /\ reaped # Worker
    /\ \E w \in alive :
           /\ alive' = alive \ {w}
           /\ reaped' = reaped \cup {w}
    /\ UNCHANGED <<enqueueVars, channelVars, worker, running, idone, done,
                   closer, expired, started, finished>>

\* Mutant: the wait stops one worker early.
AllButOneReaped(k) ==
    /\ closer[k] = "waiting"
    /\ Cardinality(reaped) + 1 >= Cardinality(Worker)
    /\ closer' = [closer EXCEPT ![k] = "draining"]
    /\ UNCHANGED <<enqueueVars, channelVars, poolVars, running, idone, done,
                   reaped, expired, started, finished>>

AllReaped(k) ==
    /\ closer[k] = "waiting"
    /\ reaped = Worker
    /\ closer' = [closer EXCEPT ![k] = "draining"]
    /\ UNCHANGED <<enqueueVars, channelVars, poolVars, running, idone, done,
                   reaped, expired, started, finished>>

Drain(k) ==
    /\ closer[k] = "draining"
    /\ Receive(k)
    /\ closer' = [closer EXCEPT ![k] = "exec"]
    /\ UNCHANGED <<poolVars, idone, done, reaped, expired, accepted, finished>>

FinishDrained(k) ==
    /\ closer[k] = "exec"
    /\ Complete(k)
    /\ closer' = [closer EXCEPT ![k] = "draining"]
    /\ UNCHANGED <<poolVars, idone, done, reaped, expired>>

\* Mutant: Shutdown returns as soon as the pool is gone, whatever is queued.
ReturnUndrained(k) ==
    /\ closer[k] = "draining"
    /\ closer' = [closer EXCEPT ![k] = "true"]
    /\ UNCHANGED <<enqueueVars, channelVars, poolVars, running, idone, done,
                   reaped, expired, started, finished>>

\* The default case: neither the queue nor the context is ready.
ReturnTrue(k) ==
    /\ closer[k] = "draining"
    /\ queue = <<>>
    /\ ~expired[k]
    /\ closer' = [closer EXCEPT ![k] = "true"]
    /\ UNCHANGED <<enqueueVars, channelVars, poolVars, running, idone, done,
                   reaped, expired, started, finished>>

\* <-context.Done() in either select (the first only while workers are missing).
ReturnFalse(k) ==
    /\ expired[k]
    /\ \/ closer[k] = "waiting" /\ reaped # Worker
       \/ closer[k] = "draining"
    /\ closer' = [closer EXCEPT ![k] = "false"]
    /\ UNCHANGED <<enqueueVars, channelVars, poolVars, running, idone, done,
                   reaped, expired, started, finished>>

\* The caller's context runs out (10 s in App.Shutdown) during the call.
Expire(k) ==
    /\ closer[k] \in {"won", "waiting", "draining", "exec"}
    /\ ~expired[k]
    /\ expired' = [expired EXCEPT ![k] = TRUE]
    /\ UNCHANGED <<enqueueVars, channelVars, poolVars, running, idone, done,
                   closer, reaped, started, finished>>

----------------------------------------------------------------------------
CallerStep(c) == CheckDone(c) \/ Send(c)
WorkerStep(w) == Take(w) \/ Finish(w) \/ SeeDone(w) \/ Exit(w)
CloserStep(k) ==
    \/ CloseDone(k)
    \/ Reap(k)
    \/ AllReaped(k)
    \/ Drain(k)
    \/ FinishDrained(k)
    \/ ReturnTrue(k)
    \/ ReturnFalse(k)

Next ==
    \/ \E c \in Callback : CallerStep(c)
    \/ \E w \in Worker : WorkerStep(w)
    \/ \E k \in Closer : Swap(k) \/ CloserStep(k) \/ Expire(k)

(* The Go scheduler runs every ready goroutine, and the callbacks return (the *)
(* slowest waits at most 10 s for the notifier).  Nobody has to call Enqueue  *)
(* or Shutdown, so Swap has no fairness, and Expire need not happen in time.  *)
Fairness ==
    /\ \A c \in Callback : WF_vars(Send(c))
    /\ \A w \in Worker : WF_vars(WorkerStep(w))
    /\ \A k \in Closer : WF_vars(CloserStep(k))

Spec == Init /\ [][Next]_vars /\ Fairness

----------------------------------------------------------------------------
\* The callbacks that exec is running somewhere.
Running == {running[p] : p \in Worker \cup Closer} \ {None}

\* The goroutine that won the compare-and-swap saw the whole pool exit.
PoolExited == \E k \in Closer : closer[k] = "true"

\* Callbacks run in the order in which the channel accepted them: what was
\* accepted is what was started, then what is buffered, then what is parked
\* (the comment on CallbackQueue; no refill, drain or exit may reorder, drop
\* or repeat one).
ExecutedInOrder == accepted = started \o queue \o sendq

\* Never more callbacks are unfinished than the pool has threads, also while
\* Shutdown drains the queue in its own goroutine; with one thread they finish
\* in the order in which they started ("unless poolSize == 1").
BoundedOvertaking ==
    Cardinality(Range(started) \ Range(finished)) <= Cardinality(Worker)

\* Each callback that was taken out of the channel is running in exactly one
\* goroutine or has finished, once.
RunOnce ==
    /\ Running \cap Range(finished) = {}
    /\ Running \cup Range(finished) = Range(started)
    /\ Len(started) = Len(finished) +
           Cardinality({p \in Worker \cup Closer : running[p] # None})

\* When the winning Shutdown returns true, every callback accepted so far has
\* finished and every worker has exited.
DrainedOnReturn ==
    [][\A k \in Closer : closer[k] # "true" /\ closer'[k] = "true" =>
           /\ Range(finished') = Range(accepted')
           /\ \A w \in Worker : worker'[w] = "exited"]_vars

\* After that nothing is running and nothing starts any more, so the store can
\* be closed (Server.Shutdown closes it right after).
QuietAfterShutdown == PoolExited => Running = {}

\* Until the queue is shut down, every accepted callback runs to its end and
\* every Enqueue call returns.
AcceptedFinishes ==
    \A c \in Callback :
        c \in Range(accepted) ~>
            \/ c \in Range(finished) /\ caller[c] = "returned"
            \/ idone

\* Shutdown returns true unless its context ran out.
ShutdownCompletes ==
    \A k \in Closer : closer[k] = "won" ~> closer[k] = "true" \/ expired[k]

\* "Shutdown stops accepting enqueues": once a Shutdown call returned true, the
\* channel accepts nothing more.
AcceptsNothingAfterShutdown == [][PoolExited => accepted' = accepted]_vars
============================================================================
