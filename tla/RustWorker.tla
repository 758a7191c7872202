----------------------------- MODULE RustWorker -----------------------------
(***************************************************************************)
(* The Rust Worker (rust/src/core.rs) on the in-memory queue               *)
(* (rust/src/adapters/memory.rs).  A worker is one task: Worker::run and   *)
(* the handler futures in its FuturesUnordered make progress only while    *)
(* run polls in_flight.next(), so a step of a handler is possible only at  *)
(* those places of run.  The places where await_with_signals looks at the  *)
(* two tokens, and the `?` that leaves run from there without the final    *)
(* drain, are steps of their own.                                          *)
(***************************************************************************)
EXTENDS Integers, Sequences, FiniteSets, Functions

CONSTANTS
  Workers,       \* the workers (one, or the workers of a pool)
  Messages,      \* the messages that producers send
  Callers,       \* tasks that may call Worker::stop
  MaxBatch,      \* WorkerConfig::max_batch
  Concurrency,   \* WorkerConfig::concurrency
  BufferSize     \* the capacity of the queue

\* The builders of WorkerConfig and Adapter::new replace zero.
ASSUME LimitsAssumption ==
  /\ MaxBatch \in Nat \ {0}
  /\ Concurrency \in Nat \ {0}
  /\ BufferSize \in Nat \ {0}

ASSUME MessagesAssumption == IsFiniteSet(Messages)

VARIABLES
  unsent,     \* messages that no producer has sent yet
  queue,      \* the VecDeque of the queue
  acked,      \* messages that were acked
  lost,       \* messages gone: dropped with their batch, or nacked into a full queue
  dropped,    \* messages whose handler future was dropped before it ended
  cancel,     \* the token passed to start is cancelled
  stop,       \* stop[w]: the stop token of w is cancelled
  pc,         \* pc[w]: where start of w is
  batch,      \* batch[w]: the items of the last consume not pushed yet
  fut,        \* fut[w][m]: the future for m in in_flight of w
  outcome,    \* outcome[w]: the result of start
  call        \* call[w][c]: the call of stop on w by c

msgVars == <<unsent, queue, acked, lost, dropped>>
runVars == <<pc, batch, fut, outcome>>
signalVars == <<cancel, stop, call>>
vars == <<msgVars, runVars, signalVars>>

(* in_flight of w, and whether it has reached the limit. *)
InFlight(w) == {m \in Messages : fut[w][m] # "none"}

(* A fault: the limit is passed by one. *)
FullPlusOne(w) == Cardinality(InFlight(w)) > Concurrency

Full(w) == Cardinality(InFlight(w)) >= Concurrency

Init ==
  /\ unsent = Messages
  /\ queue = <<>>
  /\ acked = {} /\ lost = {} /\ dropped = {}
  /\ cancel = FALSE
  /\ stop = [w \in Workers |-> FALSE]
  /\ pc = [w \in Workers |-> "idle"]
  /\ batch = [w \in Workers |-> <<>>]
  /\ fut = [w \in Workers |-> [m \in Messages |-> "none"]]
  /\ outcome = [w \in Workers |-> "none"]
  /\ call = [w \in Workers |-> [c \in Callers |-> "none"]]

-----------------------------------------------------------------------------
(* The environment.                                                        *)

Publish(m) ==
  /\ m \in unsent
  /\ Len(queue) < BufferSize
  /\ unsent' = unsent \ {m}
  /\ queue' = Append(queue, m)
  /\ UNCHANGED <<acked, lost, dropped, runVars, signalVars>>

Cancel ==
  /\ ~cancel
  /\ cancel' = TRUE
  /\ UNCHANGED <<stop, call, msgVars, runVars>>

(* Worker::stop: set the token, then look at the state: a worker that was  *)
(* never started is not waited for.                                        *)
StopCall(w, c) ==
  /\ call[w][c] = "none"
  /\ stop' = [stop EXCEPT ![w] = TRUE]
  /\ call' = [call EXCEPT ![w][c] = "look"]
  /\ UNCHANGED <<cancel, msgVars, runVars>>

StopLook(w, c) ==
  /\ call[w][c] = "look"
  /\ call' = [call EXCEPT ![w][c] = IF pc[w] = "idle" THEN "returned" ELSE "waiting"]
  /\ UNCHANGED <<cancel, stop, msgVars, runVars>>

StopReturn(w, c) ==
  /\ call[w][c] = "waiting"
  /\ pc[w] = "done"
  /\ call' = [call EXCEPT ![w][c] = "returned"]
  /\ UNCHANGED <<cancel, stop, msgVars, runVars>>

-----------------------------------------------------------------------------
(* Worker::start and Worker::run.                                          *)

Goto(w, label) ==
  /\ pc' = [pc EXCEPT ![w] = label]
  /\ UNCHANGED <<batch, fut, outcome, msgVars, signalVars>>

(* break out of the loop with a result: the drain follows. *)
Break(w, result) ==
  /\ pc' = [pc EXCEPT ![w] = "drain"]
  /\ outcome' = [outcome EXCEPT ![w] = result]
  /\ UNCHANGED <<batch, fut, msgVars, signalVars>>

(* run returns without its drain: in_flight and the items are dropped, and *)
(* start marks the worker as stopped.                                      *)
ReturnNow(w, result) ==
  /\ pc' = [pc EXCEPT ![w] = "done"]
  /\ outcome' = [outcome EXCEPT ![w] = result]
  /\ dropped' = dropped \cup InFlight(w)
  /\ fut' = [fut EXCEPT ![w] = [m \in Messages |-> "none"]]
  /\ lost' = lost \cup Range(batch[w])
  /\ batch' = [batch EXCEPT ![w] = <<>>]
  /\ UNCHANGED <<unsent, queue, acked, signalVars>>

(* `?` on Err(Cancelled). *)
Abort(w) == cancel /\ ReturnNow(w, "cancelled")

(* The compare_exchange of the state from Idle to Running. *)
Start(w) == pc[w] = "idle" /\ Goto(w, "top")

(* A fault: stop leaves run as a cancellation does. *)
TopStoppedReturns(w) == pc[w] = "top" /\ stop[w] /\ ReturnNow(w, "ok")

(* The top of the loop: wait for room in in_flight ... *)
TopStopped(w) == pc[w] = "top" /\ stop[w] /\ Break(w, "ok")

TopAbort(w) == pc[w] = "top" /\ Full(w) /\ ~stop[w] /\ Abort(w)

(* ... then look at the tokens ... *)
TopCancelled(w) == pc[w] = "top" /\ ~Full(w) /\ ~stop[w] /\ cancel /\ Break(w, "cancelled")

(* ... and consume. *)
TopConsume(w) == pc[w] = "top" /\ ~Full(w) /\ ~stop[w] /\ ~cancel /\ Goto(w, "consume")

ConsumeStopped(w) == pc[w] = "consume" /\ stop[w] /\ Break(w, "ok")

ConsumeAbort(w) == pc[w] = "consume" /\ ~stop[w] /\ Abort(w)

(* The adapter takes up to MaxBatch messages under its lock. *)
ConsumeReturns(w) ==
  /\ pc[w] = "consume"
  /\ LET n == IF Len(queue) < MaxBatch THEN Len(queue) ELSE MaxBatch IN
       /\ batch' = [batch EXCEPT ![w] = SubSeq(queue, 1, n)]
       /\ queue' = SubSeq(queue, n + 1, Len(queue))
  /\ pc' = [pc EXCEPT ![w] = IF queue = <<>> THEN "wait" ELSE "push"]
  /\ UNCHANGED <<fut, outcome, unsent, acked, lost, dropped, signalVars>>

(* An adapter that fails: the loop ends with its error. *)
ConsumeFails(w) == pc[w] = "consume" /\ Break(w, "adapter")

(* wait_for_next_poll and wait_for_inflight_or_poll. *)
WaitStopped(w) == pc[w] = "wait" /\ stop[w] /\ Break(w, "ok")

WaitAbort(w) == pc[w] = "wait" /\ ~stop[w] /\ Abort(w)

WaitTimer(w) == pc[w] = "wait" /\ Goto(w, "top")

(* Push the next item; a full in_flight is waited for first. *)
Push(w) ==
  /\ pc[w] = "push"
  /\ ~Full(w)
  /\ ~stop[w] /\ ~cancel
  /\ fut' = [fut EXCEPT ![w][Head(batch[w])] = "running"]
  /\ batch' = [batch EXCEPT ![w] = Tail(@)]
  /\ pc' = [pc EXCEPT ![w] = IF Len(batch[w]) = 1 THEN "top" ELSE "push"]
  /\ UNCHANGED <<outcome, msgVars, signalVars>>

PushAbort(w) == pc[w] = "push" /\ Full(w) /\ ~stop[w] /\ Abort(w)

(* A token is seen between two items: the rest of the items are dropped    *)
(* and the loop goes on at its top.                                        *)
PushBreak(w) ==
  /\ pc[w] = "push"
  /\ stop[w] \/ (cancel /\ ~Full(w))
  /\ lost' = lost \cup Range(batch[w])
  /\ batch' = [batch EXCEPT ![w] = <<>>]
  /\ pc' = [pc EXCEPT ![w] = "top"]
  /\ UNCHANGED <<fut, outcome, unsent, queue, acked, dropped, signalVars>>

(* A fault: the final drain is forgotten. *)
DrainNothing(w) == pc[w] = "drain" /\ Goto(w, "done")

(* in_flight.next() returns None: start sets Stopped and finished. *)
Drained(w) == pc[w] = "drain" /\ InFlight(w) = {} /\ Goto(w, "done")

-----------------------------------------------------------------------------
(* The handler futures: process_message.                                   *)

(* A fault: an empty consume waits for the timer alone. *)
PollingNotInWait(w) ==
  \/ pc[w] \in {"top", "push"} /\ Full(w)
  \/ pc[w] = "drain"

(* A fault: the drain waits for in_flight to be empty and does not poll it.*)
PollingNotInDrain(w) ==
  \/ pc[w] \in {"top", "push"} /\ Full(w)
  \/ pc[w] = "wait"

(* run is polling in_flight.next(). *)
Polling(w) ==
  \/ pc[w] \in {"top", "push"} /\ Full(w)
  \/ pc[w] \in {"wait", "drain"}

Handle(w, m) ==
  /\ Polling(w)
  /\ fut[w][m] = "running"
  /\ \E result \in {"succeeded", "failed"} : fut' = [fut EXCEPT ![w][m] = result]
  /\ UNCHANGED <<pc, batch, outcome, msgVars, signalVars>>

(* The future ends, next() returns it, and a wait at the end of the loop   *)
(* is over.                                                                *)
Ended(w, m) ==
  /\ fut' = [fut EXCEPT ![w][m] = "none"]
  /\ pc' = [pc EXCEPT ![w] = IF @ = "wait" THEN "top" ELSE @]
  /\ UNCHANGED <<batch, outcome, unsent, dropped, signalVars>>

Ack(w, m) ==
  /\ Polling(w)
  /\ fut[w][m] = "succeeded"
  /\ acked' = acked \cup {m}
  /\ Ended(w, m)
  /\ UNCHANGED <<queue, lost>>

(* A fault: nack requeues and the message counts as settled too. *)
NackKeeps(w, m) ==
  /\ Polling(w)
  /\ fut[w][m] = "failed"
  /\ queue' = Append(queue, m)
  /\ acked' = acked \cup {m}
  /\ Ended(w, m)
  /\ UNCHANGED lost

(* nack requeues, or loses the message when the queue is full. *)
Nack(w, m) ==
  /\ Polling(w)
  /\ fut[w][m] = "failed"
  /\ \/ Len(queue) < BufferSize /\ queue' = Append(queue, m) /\ UNCHANGED lost
     \/ Len(queue) >= BufferSize /\ lost' = lost \cup {m} /\ UNCHANGED queue
  /\ Ended(w, m)
  /\ UNCHANGED acked

-----------------------------------------------------------------------------
(* What polling the future of start does. *)
Run(w) ==
  \/ TopStopped(w) \/ TopAbort(w) \/ TopCancelled(w) \/ TopConsume(w)
  \/ ConsumeStopped(w) \/ ConsumeAbort(w) \/ ConsumeReturns(w)
  \/ WaitStopped(w) \/ WaitAbort(w) \/ WaitTimer(w)
  \/ Push(w) \/ PushAbort(w) \/ PushBreak(w)
  \/ Drained(w)

Future(w, m) == Handle(w, m) \/ Ack(w, m) \/ Nack(w, m)

Poll(w) == Run(w) \/ ConsumeFails(w) \/ \E m \in Messages : Future(w, m)

StopStep(w, c) == StopLook(w, c) \/ StopReturn(w, c)

Next ==
  \/ \E m \in Messages : Publish(m)
  \/ Cancel
  \/ \E w \in Workers : \/ Start(w) \/ Poll(w)
                        \/ \E c \in Callers : StopCall(w, c) \/ StopStep(w, c)

Spec == Init /\ [][Next]_vars

(***************************************************************************)
(* The executor polls a task that was woken, and handlers return: weak     *)
(* fairness for run and for each caller of stop.  A future is polled only  *)
(* at some places of run, but next() polls every woken future and comes    *)
(* before the timer in select_biased!, so a future that run visits again   *)
(* and again moves: strong fairness.                                       *)
(***************************************************************************)
Scheduling ==
  \A w \in Workers :
    /\ WF_vars(Run(w))
    /\ \A m \in Messages : SF_vars(Future(w, m))
    /\ \A c \in Callers : WF_vars(StopStep(w, c))

(* A handler that is retried again and again succeeds in the end. *)
HandlersRecover ==
  \A w \in Workers, m \in Messages :
    SF_vars(Handle(w, m) /\ fut'[w][m] = "succeeded")

LiveSpec == Spec /\ Scheduling /\ HandlersRecover

-----------------------------------------------------------------------------
(* Properties.                                                             *)

(* in_flight never holds more futures than the configured concurrency,     *)
(* although the limit is looked at in two places of run.                   *)
ConcurrencyBound == \A w \in Workers : Cardinality(InFlight(w)) <= Concurrency

(* Once a call of stop has returned, the worker holds no message and never *)
(* will: also when stop found the worker idle and start came later.        *)
StopIsFinal ==
  \A w \in Workers : (\E c \in Callers : call[w][c] = "returned") =>
    InFlight(w) = {} /\ batch[w] = <<>>

(* What a test of the worker and the README say of a cancellation: the     *)
(* worker waits for its in-flight work, so that no handler is dropped      *)
(* before it ends.                                                         *)
DrainsInFlight == dropped = {}

(* Every message is in exactly one place, and once in it. *)
InHands(w) == Range(batch[w]) \cup InFlight(w)

Conservation ==
  /\ IsInjective(queue)
  /\ \A w \in Workers : IsInjective(batch[w]) /\ Range(batch[w]) \cap InFlight(w) = {}
  /\ \A v, w \in Workers : v # w => InHands(v) \cap InHands(w) = {}
  /\ \A w \in Workers :
       InHands(w) \cap (unsent \cup acked \cup lost \cup dropped \cup Range(queue)) = {}
  /\ Range(queue) \cap (unsent \cup acked \cup lost \cup dropped) = {}
  /\ unsent \cap (acked \cup lost \cup dropped) = {}
  /\ acked \cap (lost \cup dropped) = {}
  /\ lost \cap dropped = {}
  /\ \A m \in Messages :
       \/ m \in unsent \cup acked \cup lost \cup dropped \cup Range(queue)
       \/ \E w \in Workers : m \in InHands(w)

(* The shape of the state. *)
TypeOK ==
  /\ unsent \subseteq Messages
  /\ queue \in Seq(Messages)
  /\ acked \subseteq Messages
  /\ lost \subseteq Messages
  /\ dropped \subseteq Messages
  /\ cancel \in BOOLEAN
  /\ stop \in [Workers -> BOOLEAN]
  /\ pc \in [Workers -> {"idle", "top", "consume", "wait", "push", "drain", "done"}]
  /\ batch \in [Workers -> Seq(Messages)]
  /\ fut \in [Workers -> [Messages -> {"none", "running", "succeeded", "failed"}]]
  /\ outcome \in [Workers -> {"none", "ok", "cancelled", "adapter"}]
  /\ call \in [Workers -> [Callers -> {"none", "look", "waiting", "returned"}]]

(* What the place of start says about the items and futures of its worker; *)
(* a call of stop that has returned has found the worker at its end, or    *)
(* not begun, and then it never gets past its first look at the token.     *)
ShapeOf(w) ==
  /\ pc[w] = "push" <=> batch[w] # <<>>
  /\ pc[w] \in {"idle", "done"} => InFlight(w) = {}
  /\ \A c \in Callers : call[w][c] # "none" => stop[w]
  /\ \A c \in Callers : call[w][c] = "returned" =>
       InFlight(w) = {} /\ pc[w] \in {"idle", "top", "drain", "done"}

Shape == \A w \in Workers : ShapeOf(w)

IndInv == TypeOK /\ Shape /\ ConcurrencyBound /\ Conservation

(* The messages that some worker has to settle, and whether one of them    *)
(* was told to end.                                                        *)
InCustody == UNION {InHands(w) : w \in Workers}

Closing == cancel \/ \E w \in Workers : stop[w]

Kept == INSTANCE Custody WITH
          Capacity <- BufferSize, queued <- Range(queue), held <- InCustody,
          lost <- lost \cup dropped, closing <- Closing

(* The workers keep Custody, as those of the other runtimes do: a message  *)
(* is lost only by a nack into a full queue or in a shutdown, and one that *)
(* is acked or lost or dropped is nowhere else again.                      *)
ImplementsCustody == Kept!Spec

(* stop() and a cancelled token end a started worker, whatever it is       *)
(* waiting for.                                                            *)
ShutdownCompletes ==
  \A w \in Workers :
    (pc[w] # "idle" /\ (cancel \/ stop[w])) ~> (pc[w] = "done")

(* A handler that was started is driven to its end and its message settled *)
(* or requeued, though it moves only where run polls it, and whatever ends *)
(* the loop: stop() or an error of the adapter.  Only a cancelled token    *)
(* excuses the worker.                                                     *)
InFlightSettles ==
  \A w \in Workers, m \in Messages :
    m \in InFlight(w) ~> (m \in acked \cup lost \cup Range(queue) \/ cancel)

(* A message in the queue of a running worker is acked in the end, though  *)
(* handlers only move while run waits for them, unless the worker ends or  *)
(* a requeue overflows.                                                    *)
EventuallySettled ==
  \A m \in Messages :
    (m \in Range(queue) /\ \A w \in Workers : pc[w] # "idle")
      ~> (m \in acked \cup lost \/ \E w \in Workers : pc[w] \in {"drain", "done"})

=============================================================================
