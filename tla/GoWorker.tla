------------------------------ MODULE GoWorker ------------------------------
(***************************************************************************)
(* The Go Worker (go/core/worker.go) on the in-memory queue                *)
(* (go/adapters/memory/adapter.go): any number of workers that share one   *)
(* queue and one context, each with its Start loop, the goroutines it      *)
(* spawns for messages, and concurrent callers of Stop.                    *)
(*                                                                         *)
(* The steps are those of the code between two points where another        *)
(* goroutine can interfere: the selects of Start, each receive of          *)
(* Consume's loop, the handler call, Ack or Nack, the release of the       *)
(* semaphore slot, wg.Done.  Publish is one step here; the lock and the    *)
(* channel under it are the subject of GoMemory.                           *)
(***************************************************************************)
EXTENDS Integers, Sequences, FiniteSets, Functions

CONSTANTS
  Workers,       \* the workers (one, or the workers of a pool)
  Messages,      \* the messages that producers send, each with its own id
  Callers,       \* goroutines that may call Worker.Stop
  MaxBatch,      \* WorkerConfig.MaxBatch
  Concurrency,   \* WorkerConfig.Concurrency
  BufferSize,    \* the capacity of the channel of the queue
  MaxExiting     \* bound: goroutines of a worker between <-sem and wg.Done

\* NewAdapter and NewWorker replace values that are not positive.
ASSUME LimitsAssumption ==
  /\ MaxBatch \in Nat \ {0}
  /\ Concurrency \in Nat \ {0}
  /\ BufferSize \in Nat \ {0}
  /\ MaxExiting \in Nat \ {0}

ASSUME MessagesAssumption == IsFiniteSet(Messages)

VARIABLES
  unsent,     \* messages that no producer has sent yet
  queue,      \* the channel of the queue
  acked,      \* messages whose receipt was acked
  lost,       \* messages that left the queue and can neither be acked nor come back
  ctx,        \* ctx.Err() of the context passed to Start
  stop,       \* stop[w]: stopCh of w is closed
  pc,         \* pc[w]: where Start of w is
  batch,      \* batch[w]: the items of the current Consume not dispatched yet
  task,       \* task[w][m]: where the goroutine of w that holds m is
  releasing,  \* releasing[w]: goroutines of w past processMessage, slot still taken
  exiting,    \* exiting[w]: goroutines of w that gave back the slot, wg.Done to come
  sem,        \* sem[w]: slots taken in the semaphore channel
  wg,         \* wg[w]: the counter of the WaitGroup
  startErr,   \* startErr[w]: the result of Start
  call        \* call[w][c]: the call of Stop on w by c

workerVars == <<pc, batch, startErr>>
taskVars == <<task, releasing, exiting, sem, wg>>
msgVars == <<unsent, queue, acked, lost>>
signalVars == <<ctx, stop, call>>
vars == <<workerVars, taskVars, msgVars, signalVars>>

CtxErr == {"none", "canceled", "deadline"}
StartErr == CtxErr \cup {"adapter"}
Task == {"none", "running", "succeeded", "failed"}
PC == {"idle", "top", "consume", "poll", "dispatch", "drain", "done"}

(* The messages that a goroutine of w holds. *)
Held(w) == {m \in Messages : task[w][m] # "none"}

(* The channel can take one more message. *)
HasRoom == Len(queue) < BufferSize

(* Some shutdown signal has been given. *)
Closing == ctx # "none" \/ \E w \in Workers : stop[w]

Init ==
  /\ unsent = Messages
  /\ queue = <<>>
  /\ acked = {}
  /\ lost = {}
  /\ ctx = "none"
  /\ stop = [w \in Workers |-> FALSE]
  /\ pc = [w \in Workers |-> "idle"]
  /\ batch = [w \in Workers |-> <<>>]
  /\ task = [w \in Workers |-> [m \in Messages |-> "none"]]
  /\ releasing = [w \in Workers |-> 0]
  /\ exiting = [w \in Workers |-> 0]
  /\ sem = [w \in Workers |-> 0]
  /\ wg = [w \in Workers |-> 0]
  /\ startErr = [w \in Workers |-> "none"]
  /\ call = [w \in Workers |-> [c \in Callers |-> "none"]]

-----------------------------------------------------------------------------
(* The environment: producers, the owner of the context, callers of Stop.  *)

(* Publish of one message; with no room it returns an error and changes    *)
(* nothing.                                                                *)
Publish(m) ==
  /\ m \in unsent
  /\ HasRoom
  /\ unsent' = unsent \ {m}
  /\ queue' = Append(queue, m)
  /\ UNCHANGED <<acked, lost, workerVars, taskVars, signalVars>>

Cancel(e) ==
  /\ ctx = "none"
  /\ e # "none"
  /\ ctx' = e
  /\ UNCHANGED <<stop, call, workerVars, taskVars, msgVars>>

(* Stop: close stopCh once, then wait on done. *)
Stop(w, c) ==
  /\ call[w][c] = "none"
  /\ stop' = [stop EXCEPT ![w] = TRUE]
  /\ call' = [call EXCEPT ![w][c] = "waiting"]
  /\ UNCHANGED <<ctx, workerVars, taskVars, msgVars>>

(* A fault: done is a single value, not a closed channel: one call gets it. *)
StopReturnFirst(w, c) ==
  /\ call[w][c] = "waiting"
  /\ pc[w] = "done"
  /\ \A d \in Callers : call[w][d] # "returned"
  /\ call' = [call EXCEPT ![w][c] = "returned"]
  /\ UNCHANGED <<ctx, stop, workerVars, taskVars, msgVars>>

(* done is closed: Stop returns startErr. *)
StopReturn(w, c) ==
  /\ call[w][c] = "waiting"
  /\ pc[w] = "done"
  /\ call' = [call EXCEPT ![w][c] = "returned"]
  /\ UNCHANGED <<ctx, stop, workerVars, taskVars, msgVars>>

-----------------------------------------------------------------------------
(* Worker.Start.                                                           *)

(* Start leaves its loop with result e: the items it has not dispatched    *)
(* are dropped, neither acked nor nacked, and the deferred function waits. *)
Leave(w, e) ==
  /\ pc' = [pc EXCEPT ![w] = "drain"]
  /\ startErr' = [startErr EXCEPT ![w] = e]
  /\ lost' = lost \cup Range(batch[w])
  /\ batch' = [batch EXCEPT ![w] = <<>>]
  /\ UNCHANGED <<unsent, queue, acked, taskVars, signalVars>>

LeaveCancelled(w) == ctx # "none" /\ Leave(w, ctx)

LeaveStopped(w) == stop[w] /\ Leave(w, "none")

Goto(w, label) ==
  /\ pc' = [pc EXCEPT ![w] = label]
  /\ UNCHANGED <<batch, startErr, taskVars, msgVars, signalVars>>

Start(w) == pc[w] = "idle" /\ Goto(w, "top")

(* The select at the top of the loop; its default case calls Consume. *)
TopCancelled(w) == pc[w] = "top" /\ LeaveCancelled(w)

TopStopped(w) == pc[w] = "top" /\ LeaveStopped(w)

TopDefault(w) ==
  /\ pc[w] = "top"
  /\ ctx = "none"
  /\ ~stop[w]
  /\ Goto(w, "consume")

(* A fault: Consume returns the message and leaves it in the channel. *)
ConsumePeeks(w) ==
  /\ pc[w] = "consume"
  /\ Len(batch[w]) < MaxBatch
  /\ queue # <<>>
  /\ batch' = [batch EXCEPT ![w] = Append(@, Head(queue))]
  /\ UNCHANGED <<queue, pc, startErr, unsent, acked, lost, taskVars, signalVars>>

(* Consume receives one message from the channel, another consumer may     *)
(* receive the next one.                                                   *)
ConsumeReceive(w) ==
  /\ pc[w] = "consume"
  /\ Len(batch[w]) < MaxBatch
  /\ queue # <<>>
  /\ batch' = [batch EXCEPT ![w] = Append(@, Head(queue))]
  /\ queue' = Tail(queue)
  /\ UNCHANGED <<pc, startErr, unsent, acked, lost, taskVars, signalVars>>

(* Consume sees the cancelled context: it returns ctx.Err() and no items,  *)
(* those it has received are gone; Start returns the error.                *)
ConsumeCancelled(w) ==
  /\ pc[w] = "consume"
  /\ Len(batch[w]) < MaxBatch
  /\ LeaveCancelled(w)

(* An adapter that fails (the in-memory one does not, the SQS one does).   *)
ConsumeFails(w) ==
  /\ pc[w] = "consume"
  /\ batch[w] = <<>>
  /\ Leave(w, IF ctx # "none" THEN ctx ELSE "adapter")

(* Consume returns: the batch is full, or nothing is ready in the select.  *)
ConsumeReturns(w) ==
  /\ pc[w] = "consume"
  /\ \/ Len(batch[w]) = MaxBatch
     \/ queue = <<>> /\ ctx = "none"
  /\ Goto(w, IF batch[w] = <<>> THEN "poll" ELSE "dispatch")

(* waitForNextPoll: the timer, the context or stopCh. *)
PollTimer(w) == pc[w] = "poll" /\ Goto(w, "top")

PollCancelled(w) == pc[w] = "poll" /\ LeaveCancelled(w)

PollStopped(w) == pc[w] = "poll" /\ LeaveStopped(w)

(* What Dispatch does once it may. *)
Spawn(w) ==
  /\ sem' = [sem EXCEPT ![w] = @ + 1]
  /\ wg' = [wg EXCEPT ![w] = @ + 1]
  /\ task' = [task EXCEPT ![w][Head(batch[w])] = "running"]
  /\ batch' = [batch EXCEPT ![w] = Tail(@)]
  /\ pc' = [pc EXCEPT ![w] = IF Len(batch[w]) = 1 THEN "top" ELSE "dispatch"]
  /\ UNCHANGED <<startErr, releasing, exiting, msgVars, signalVars>>

(* A fault: the slot is not waited for. *)
DispatchUnbounded(w) == pc[w] = "dispatch" /\ Spawn(w)

(* The select before each item: take a slot and start the goroutine ...    *)
Dispatch(w) ==
  /\ pc[w] = "dispatch"
  /\ sem[w] < Concurrency
  /\ Spawn(w)

(* ... or see one of the two signals. *)
DispatchCancelled(w) == pc[w] = "dispatch" /\ LeaveCancelled(w)

DispatchStopped(w) == pc[w] = "dispatch" /\ LeaveStopped(w)

(* A fault: done is closed without waiting for the goroutines. *)
DoneEarly(w) == pc[w] = "drain" /\ Goto(w, "done")

(* The deferred function: wg.Wait, then close(done). *)
Done(w) ==
  /\ pc[w] = "drain"
  /\ wg[w] = 0
  /\ Goto(w, "done")

Loop(w) ==
  \/ TopCancelled(w) \/ TopStopped(w) \/ TopDefault(w)
  \/ ConsumeReceive(w) \/ ConsumeCancelled(w) \/ ConsumeReturns(w)
  \/ PollTimer(w) \/ PollCancelled(w) \/ PollStopped(w)
  \/ Dispatch(w) \/ DispatchCancelled(w) \/ DispatchStopped(w)
  \/ Done(w)

-----------------------------------------------------------------------------
(* The goroutine of a message: processMessage, then its deferred calls.    *)

(* registry.Handle returns; a handler, or a missing one, decides. *)
HandleOk(w, m) ==
  /\ task[w][m] = "running"
  /\ task' = [task EXCEPT ![w][m] = "succeeded"]
  /\ UNCHANGED <<releasing, exiting, sem, wg, workerVars, msgVars, signalVars>>

HandleErr(w, m) ==
  /\ task[w][m] = "running"
  /\ task' = [task EXCEPT ![w][m] = "failed"]
  /\ UNCHANGED <<releasing, exiting, sem, wg, workerVars, msgVars, signalVars>>

(* The goroutine leaves processMessage. *)
Processed(w, m) ==
  /\ task' = [task EXCEPT ![w][m] = "none"]
  /\ releasing' = [releasing EXCEPT ![w] = @ + 1]
  /\ UNCHANGED <<exiting, sem, wg, workerVars, signalVars>>

(* A fault: the error of the handler is not looked at. *)
AckAnyway(w, m) ==
  /\ task[w][m] \in {"succeeded", "failed"}
  /\ acked' = acked \cup {m}
  /\ Processed(w, m)
  /\ UNCHANGED <<unsent, queue, lost>>

Ack(w, m) ==
  /\ task[w][m] = "succeeded"
  /\ acked' = acked \cup {m}
  /\ Processed(w, m)
  /\ UNCHANGED <<unsent, queue, lost>>

(* A fault: the goroutine ends after a Nack and keeps its slot. *)
NackKeepsSlot(w, m) ==
  /\ task[w][m] = "failed"
  /\ HasRoom
  /\ queue' = Append(queue, m)
  /\ task' = [task EXCEPT ![w][m] = "none"]
  /\ exiting' = [exiting EXCEPT ![w] = @ + 1]
  /\ UNCHANGED <<releasing, sem, wg, workerVars, signalVars, unsent, acked, lost>>

(* Nack requeues the message at the tail, or drops it when the channel is  *)
(* full.                                                                   *)
Nack(w, m) ==
  /\ task[w][m] = "failed"
  /\ HasRoom
  /\ queue' = Append(queue, m)
  /\ Processed(w, m)
  /\ UNCHANGED <<unsent, acked, lost>>

(* A fault: the requeue gives up though there is room. *)
NackGivesUp(w, m) ==
  /\ task[w][m] = "failed"
  /\ lost' = lost \cup {m}
  /\ Processed(w, m)
  /\ UNCHANGED <<unsent, acked, queue>>

NackOverflow(w, m) ==
  /\ task[w][m] = "failed"
  /\ ~HasRoom
  /\ lost' = lost \cup {m}
  /\ Processed(w, m)
  /\ UNCHANGED <<unsent, acked, queue>>

(* The deferred calls run last in, first out: the slot, then wg.Done. *)
ReleaseSlot(w) ==
  /\ releasing[w] > 0
  /\ exiting[w] < MaxExiting
  /\ releasing' = [releasing EXCEPT ![w] = @ - 1]
  /\ exiting' = [exiting EXCEPT ![w] = @ + 1]
  /\ sem' = [sem EXCEPT ![w] = @ - 1]
  /\ UNCHANGED <<task, wg, workerVars, msgVars, signalVars>>

WgDone(w) ==
  /\ exiting[w] > 0
  /\ exiting' = [exiting EXCEPT ![w] = @ - 1]
  /\ wg' = [wg EXCEPT ![w] = @ - 1]
  /\ UNCHANGED <<task, releasing, sem, workerVars, msgVars, signalVars>>

Settle(w, m) == Ack(w, m) \/ Nack(w, m) \/ NackOverflow(w, m)

Goroutine(w) ==
  \/ \E m \in Messages : HandleOk(w, m) \/ HandleErr(w, m) \/ Settle(w, m)
  \/ ReleaseSlot(w)
  \/ WgDone(w)

-----------------------------------------------------------------------------
WorkerNext(w) ==
  \/ Loop(w)
  \/ ConsumeFails(w)
  \/ Goroutine(w)
  \/ \E c \in Callers : Stop(w, c) \/ StopReturn(w, c)

Next ==
  \/ \E m \in Messages : Publish(m)
  \/ \E e \in CtxErr : Cancel(e)
  \/ \E w \in Workers : Start(w) \/ WorkerNext(w)

(* Start may have returned on every worker: then the system has stopped.   *)
Spec == Init /\ [][Next]_vars

(***************************************************************************)
(* The Go scheduler runs every runnable goroutine, timers fire and         *)
(* handlers return: weak fairness for each goroutine.  Nothing makes an    *)
(* owner call Start, cancel or Stop.                                       *)
(***************************************************************************)
Scheduling ==
  /\ \A w \in Workers :
       /\ WF_vars(Loop(w))
       /\ WF_vars(ReleaseSlot(w))
       /\ WF_vars(WgDone(w))
       /\ \A c \in Callers : WF_vars(StopReturn(w, c))
       /\ \A m \in Messages : /\ WF_vars(HandleOk(w, m) \/ HandleErr(w, m))
                              /\ WF_vars(Settle(w, m))

(* A handler that is retried again and again succeeds in the end. *)
HandlersRecover ==
  \A w \in Workers, m \in Messages : SF_vars(HandleOk(w, m))

LiveSpec == Spec /\ Scheduling /\ HandlersRecover

-----------------------------------------------------------------------------
(* Properties.                                                             *)

(* The shape of the state; a WaitGroup counter or a slot count below zero  *)
(* would be a panic or a goroutine blocked for ever in the code.           *)
TypeOK ==
  /\ unsent \subseteq Messages
  /\ queue \in Seq(Messages)
  /\ acked \subseteq Messages
  /\ lost \subseteq Messages
  /\ ctx \in CtxErr
  /\ stop \in [Workers -> BOOLEAN]
  /\ pc \in [Workers -> PC]
  /\ batch \in [Workers -> Seq(Messages)]
  /\ task \in [Workers -> [Messages -> Task]]
  /\ releasing \in [Workers -> Nat]
  /\ exiting \in [Workers -> Nat]
  /\ sem \in [Workers -> Nat]
  /\ wg \in [Workers -> Nat]
  /\ startErr \in [Workers -> StartErr]
  /\ call \in [Workers -> [Callers -> {"none", "waiting", "returned"}]]

(* At most Concurrency messages of a worker are being processed at a time: *)
(* the semaphore of Start holds over any interleaving of goroutines that   *)
(* end and items that are dispatched.                                      *)
ConcurrencyBound == \A w \in Workers : Cardinality(Held(w)) <= Concurrency

(* "Stop gracefully signals the worker to stop and waits for in-flight     *)
(* work to drain": once any Stop call has returned, no goroutine of the    *)
(* worker is left, so no handler runs and nothing is acked or nacked by it.*)
StopDrains ==
  \A w \in Workers :
    (pc[w] = "done" \/ \E c \in Callers : call[w][c] = "returned")
      => /\ Held(w) = {}
         /\ releasing[w] = 0 /\ exiting[w] = 0
         /\ batch[w] = <<>>

(* The messages that worker w has in its hands. *)
InHands(w) == Range(batch[w]) \cup Held(w)

(* Every message is in exactly one place, and once in it: not delivered to *)
(* two workers at a time, not delivered again while it is processed or     *)
(* after its ack, and never forgotten, across any requeues by Nack,        *)
(* interleaved Consume loops and shutdowns.                                *)
Conservation ==
  /\ IsInjective(queue)
  /\ \A w \in Workers : IsInjective(batch[w]) /\ Range(batch[w]) \cap Held(w) = {}
  /\ \A v, w \in Workers : v # w => InHands(v) \cap InHands(w) = {}
  /\ \A w \in Workers : InHands(w) \cap (unsent \cup acked \cup lost \cup Range(queue)) = {}
  /\ Range(queue) \cap (unsent \cup acked \cup lost) = {}
  /\ unsent \cap (acked \cup lost) = {}
  /\ acked \cap lost = {}
  /\ \A m \in Messages :
       \/ m \in unsent \cup acked \cup lost \cup Range(queue)
       \/ \E w \in Workers : m \in InHands(w)

(* The slots of the semaphore and the counter of the WaitGroup stand for   *)
(* the goroutines that Start has spawned and that have not ended.          *)
SlotsOf(w) ==
  /\ sem[w] = Cardinality(Held(w)) + releasing[w]
  /\ wg[w] = sem[w] + exiting[w]
  /\ sem[w] <= Concurrency

Slots == \A w \in Workers : SlotsOf(w)

(* What the position of Start says about its batch and its goroutines. *)
ShapeOf(w) ==
  /\ pc[w] = "dispatch" => batch[w] # <<>>
  /\ pc[w] \notin {"consume", "dispatch"} => batch[w] = <<>>
  /\ pc[w] = "done" => wg[w] = 0
  /\ \A c \in Callers : call[w][c] = "returned" => pc[w] = "done"

Shape == \A w \in Workers : ShapeOf(w)

(* The inductive invariant: the bound on handlers, the drain on Stop and   *)
(* the one place of every message hold because slots, WaitGroup, batch and *)
(* position of Start agree at every step.                                  *)
IndInv == TypeOK /\ Shape /\ Slots /\ Conservation

(* With room in the queue for every message, nothing is lost until some    *)
(* worker is shut down: the requeue of Nack never finds the channel full.  *)
LossNeedsCause ==
  lost # {} => Closing \/ BufferSize < Cardinality(Messages)

(* The workers implement the life of a message that Delivery states. *)
Holder(m) == CHOOSE w \in Workers : task[w][m] # "none"

StatusOf(m) ==
  IF m \in unsent THEN "unsent"
  ELSE IF m \in acked THEN "acked"
  ELSE IF m \in lost THEN "lost"
  ELSE IF \E w \in Workers : task[w][m] # "none" THEN task[Holder(m)][m]
  ELSE IF m \in Range(queue) THEN "queued"
  ELSE "leased"

D == INSTANCE Delivery WITH
       status <- [m \in Messages |-> StatusOf(m)], closing <- Closing

(* Every step of the workers is a step that Delivery allows one message    *)
(* (or leaves all as they are): acks only after a success, requeues only   *)
(* after a failure, abandons only leased messages and only in a shutdown.  *)
ImplementsDelivery == D!Spec

(* The messages that some worker has to settle. *)
InCustody == UNION {InHands(w) : w \in Workers}

Kept == INSTANCE Custody WITH
          Capacity <- BufferSize, queued <- Range(queue), held <- InCustody,
          closing <- Closing

(* The workers keep Custody, as those of the other runtimes do: a message  *)
(* is lost only by a requeue into a full channel or in a shutdown, and one *)
(* that is acked or lost is nowhere else again.                            *)
ImplementsCustody == Kept!Spec

(* Every Stop call on a started worker returns, whatever Start was doing   *)
(* and however many callers there are.                                     *)
StopReturns ==
  \A w \in Workers, c \in Callers :
    (pc[w] # "idle" /\ call[w][c] = "waiting") ~> (call[w][c] = "returned")

(* A message that reached the queue is acked in the end, across any number *)
(* of failures and requeues, unless a shutdown or a failing adapter ends   *)
(* the worker or a requeue overflows.                                      *)
EventuallySettled ==
  \A m \in Messages :
    (m \in Range(queue) /\ \A w \in Workers : pc[w] # "idle")
      ~> (m \in acked \/ m \in lost \/ \E w \in Workers : pc[w] \in {"drain", "done"})
=============================================================================
