------------------------------ MODULE TsWorker ------------------------------
(***************************************************************************)
(* The TypeScript Worker (typescript/src/worker.ts) on the in-memory queue *)
(* (typescript/src/adapters/memory.ts).  JavaScript runs one continuation  *)
(* at a time, from one await to the next: turn names the worker whose loop *)
(* is running, and everything else waits until it awaits.  The waits for a *)
(* slot, for the next poll and for the drain share the one waiter of       *)
(* InFlightPool, which a wait that lost a race leaves behind.              *)
(***************************************************************************)
EXTENDS Integers, Sequences, FiniteSets, Functions

CONSTANTS
  Workers,       \* the workers on the queue
  Messages,      \* the messages that producers send
  Callers,       \* callers of Worker.stop
  MaxBatch,      \* WorkerConfig.maxBatch
  Concurrency,   \* WorkerConfig.concurrency
  BufferSize,    \* the capacity of the queue
  Nobody         \* no loop is running

\* The constructors of Worker and MemoryAdapter replace what is not positive.
ASSUME LimitsAssumption ==
  /\ MaxBatch \in Nat \ {0}
  /\ Concurrency \in Nat \ {0}
  /\ BufferSize \in Nat \ {0}
  /\ Nobody \notin Workers

ASSUME MessagesAssumption == IsFiniteSet(Messages)

VARIABLES
  unsent,     \* messages that no producer has sent yet
  queue,      \* the array of the queue
  acked,      \* messages that were acked
  lost,       \* messages dropped with their batch, or nacked into a full queue
  aborted,    \* the signal passed to start is aborted
  stop,       \* stop[w]: stopController of w is aborted
  turn,       \* the worker whose loop is running
  pc,         \* pc[w]: where the loop of w is, or what it awaits
  batch,      \* batch[w]: the items of the last consume not dispatched yet
  active,     \* active[w]: messages whose promise in the InFlightPool of w is pending
  settled,    \* settled[w]: promises that have settled and are still in that pool
  waiter,     \* waiter[w]: resolveWaiter is set
  outcome,    \* outcome[w]: how start ends
  call        \* call[w][c]: the call of stop on w by c

msgVars == <<unsent, queue, acked, lost>>
loopVars == <<turn, pc, batch, outcome>>
poolVars == <<active, settled, waiter>>
signalVars == <<aborted, stop, call>>
vars == <<msgVars, loopVars, poolVars, signalVars>>

(* The promises in the set of InFlightPool.  A message that was nacked can  *)
(* be consumed and added again before its first promise has left the set.   *)
size(w) == Cardinality(active[w]) + settled[w]

(* A fault: the limit is passed by one. *)
FullPlusOne(w) == size(w) > Concurrency

Full(w) == size(w) >= Concurrency

isStopping(w) == stop[w] \/ aborted

Init ==
  /\ unsent = Messages
  /\ queue = <<>>
  /\ acked = {} /\ lost = {}
  /\ aborted = FALSE
  /\ stop = [w \in Workers |-> FALSE]
  /\ turn = Nobody
  /\ pc = [w \in Workers |-> "idle"]
  /\ batch = [w \in Workers |-> <<>>]
  /\ active = [w \in Workers |-> {}]
  /\ settled = [w \in Workers |-> 0]
  /\ waiter = [w \in Workers |-> FALSE]
  /\ outcome = [w \in Workers |-> "ok"]
  /\ call = [w \in Workers |-> [c \in Callers |-> "none"]]

-----------------------------------------------------------------------------
(* The environment.                                                        *)

Publish(m) ==
  /\ turn = Nobody
  /\ m \in unsent
  /\ Len(queue) < BufferSize
  /\ unsent' = unsent \ {m}
  /\ queue' = Append(queue, m)
  /\ UNCHANGED <<acked, lost, loopVars, poolVars, signalVars>>

Abort ==
  /\ turn = Nobody
  /\ ~aborted
  /\ aborted' = TRUE
  /\ UNCHANGED <<stop, call, msgVars, loopVars, poolVars>>

(* stop: abort the controller; a worker that is idle is not waited for. *)
StopCall(w, c) ==
  /\ turn = Nobody
  /\ call[w][c] = "none"
  /\ stop' = [stop EXCEPT ![w] = TRUE]
  /\ call' = [call EXCEPT ![w][c] = IF pc[w] = "idle" THEN "returned" ELSE "waiting"]
  /\ UNCHANGED <<aborted, msgVars, loopVars, poolVars>>

StopReturn(w, c) ==
  /\ turn = Nobody
  /\ call[w][c] = "waiting"
  /\ pc[w] = "done"
  /\ call' = [call EXCEPT ![w][c] = "returned"]
  /\ UNCHANGED <<aborted, stop, msgVars, loopVars, poolVars>>

-----------------------------------------------------------------------------
(* The loop of run, between two awaits.                                    *)

At(w, label) == turn = w /\ pc[w] = label

(* Go on at a place of the code ... *)
Goto(w, label) ==
  /\ turn' = w
  /\ pc' = [pc EXCEPT ![w] = label]

(* ... or await something. *)
Await(w, label) ==
  /\ turn' = Nobody
  /\ pc' = [pc EXCEPT ![w] = label]

(* break out of the loop. *)
Exit(w, result) ==
  /\ Goto(w, "drain")
  /\ outcome' = [outcome EXCEPT ![w] = result]
  /\ UNCHANGED <<batch, msgVars, poolVars, signalVars>>

Start(w) ==
  /\ turn = Nobody
  /\ pc[w] = "idle"
  /\ Goto(w, "top")
  /\ UNCHANGED <<batch, outcome, msgVars, poolVars, signalVars>>

(* The condition of the outer while: a stop or an abort seen here ends the *)
(* loop with no error.                                                     *)
TopStopping(w) == At(w, "top") /\ isStopping(w) /\ Exit(w, "ok")

Top(w) ==
  /\ At(w, "top")
  /\ ~isStopping(w)
  /\ Goto(w, "slot")
  /\ UNCHANGED <<batch, outcome, msgVars, poolVars, signalVars>>

(* waitForOne sets the waiter, in place of one that a race left behind;    *)
(* with no promise in the set it resolves at once.                         *)
waitForOne(w, label) ==
  /\ Await(w, label)
  /\ waiter' = [waiter EXCEPT ![w] = IF size(w) = 0 THEN @ ELSE TRUE]
  /\ UNCHANGED <<batch, outcome, active, settled, msgVars, signalVars>>

(* The wait for a slot. *)
SlotWait(w) == At(w, "slot") /\ Full(w) /\ ~isStopping(w) /\ waitForOne(w, "slotWait")

SlotStopped(w) == At(w, "slot") /\ stop[w] /\ Exit(w, "ok")

SlotAborted(w) == At(w, "slot") /\ ~stop[w] /\ aborted /\ Exit(w, "cancelled")

(* consume of the adapter takes the items before it returns its promise. *)
SlotConsume(w) ==
  /\ At(w, "slot")
  /\ ~Full(w) /\ ~isStopping(w)
  /\ LET n == IF Len(queue) < MaxBatch THEN Len(queue) ELSE MaxBatch IN
       /\ batch' = [batch EXCEPT ![w] = SubSeq(queue, 1, n)]
       /\ queue' = SubSeq(queue, n + 1, Len(queue))
  /\ Await(w, "consume")
  /\ UNCHANGED <<outcome, unsent, acked, lost, poolVars, signalVars>>

(* An adapter that fails: the loop ends with its error. *)
ConsumeFails(w) ==
  /\ turn = Nobody
  /\ pc[w] = "consume"
  /\ batch[w] = <<>>
  /\ Exit(w, "adapter")

ConsumeItems(w) ==
  /\ turn = Nobody
  /\ pc[w] = "consume"
  /\ batch[w] # <<>>
  /\ Goto(w, "item")
  /\ UNCHANGED <<batch, outcome, msgVars, poolVars, signalVars>>

(* Nothing to do: await the timer, or the timer and the waiter. *)
ConsumeEmpty(w) ==
  /\ turn = Nobody
  /\ pc[w] = "consume"
  /\ batch[w] = <<>>
  /\ \/ size(w) > 0 /\ waitForOne(w, "race")
     \/ /\ size(w) = 0
        /\ Await(w, "delay")
        /\ UNCHANGED <<batch, outcome, msgVars, poolVars, signalVars>>

(* The timer, the controller or a promise that ended; neither looks at the *)
(* signal that was passed to start.                                        *)
RaceEnds(w) ==
  /\ turn = Nobody
  /\ pc[w] = "race"
  /\ Goto(w, "top")
  /\ UNCHANGED <<batch, outcome, msgVars, poolVars, signalVars>>

DelayEnds(w) ==
  /\ turn = Nobody
  /\ pc[w] = "delay"
  /\ Goto(w, "top")
  /\ UNCHANGED <<batch, outcome, msgVars, poolVars, signalVars>>

(* The controller ends the delay and the signal is aborted too. *)
DelayAborted(w) ==
  /\ turn = Nobody
  /\ pc[w] = "delay"
  /\ stop[w] /\ aborted
  /\ Exit(w, "cancelled")

(* The items: wait for a slot, look at the signals, add the promise. *)
ItemWait(w) == At(w, "item") /\ Full(w) /\ ~isStopping(w) /\ waitForOne(w, "itemWait")

ItemBreak(w) ==
  /\ At(w, "item")
  /\ isStopping(w)
  /\ lost' = lost \cup Range(batch[w])
  /\ batch' = [batch EXCEPT ![w] = <<>>]
  /\ Goto(w, "top")
  /\ UNCHANGED <<outcome, unsent, queue, acked, poolVars, signalVars>>

ItemAdd(w) ==
  /\ At(w, "item")
  /\ ~Full(w) /\ ~isStopping(w)
  /\ active' = [active EXCEPT ![w] = @ \cup {Head(batch[w])}]
  /\ batch' = [batch EXCEPT ![w] = Tail(@)]
  /\ Goto(w, IF Len(batch[w]) = 1 THEN "top" ELSE "item")
  /\ UNCHANGED <<outcome, settled, waiter, msgVars, signalVars>>

(* A fault: drain waits once and does not look again. *)
DrainOnce(w) == At(w, "drain") /\ size(w) > 0 /\ waitForOne(w, "done")

(* drain, and the finally of start. *)
DrainWait(w) == At(w, "drain") /\ size(w) > 0 /\ waitForOne(w, "drainWait")

DrainEnds(w) ==
  /\ At(w, "drain")
  /\ size(w) = 0
  /\ Await(w, "done")
  /\ UNCHANGED <<batch, outcome, msgVars, poolVars, signalVars>>

(* The promise of waitForOne is resolved: the loop tests its condition     *)
(* again.                                                                  *)
Wakes(w) ==
  /\ turn = Nobody
  /\ ~waiter[w]
  /\ \/ pc[w] = "slotWait" /\ Goto(w, "slot")
     \/ pc[w] = "itemWait" /\ Goto(w, "item")
     \/ pc[w] = "drainWait" /\ Goto(w, "drain")
  /\ UNCHANGED <<batch, outcome, msgVars, poolVars, signalVars>>

-----------------------------------------------------------------------------
(* processMessage, and the finally that InFlightPool puts behind it.       *)

(* The handler has returned: ack or nack does its work before it returns   *)
(* its promise.                                                            *)
Settled(w, m) ==
  /\ active' = [active EXCEPT ![w] = @ \ {m}]
  /\ settled' = [settled EXCEPT ![w] = @ + 1]
  /\ UNCHANGED <<waiter, unsent, loopVars, signalVars>>

Ack(w, m) ==
  /\ turn = Nobody
  /\ m \in active[w]
  /\ acked' = acked \cup {m}
  /\ Settled(w, m)
  /\ UNCHANGED <<queue, lost>>

(* A fault: nack does not set the state of the receipt, and can be called  *)
(* again.                                                                  *)
NackAgain(w, m) ==
  /\ turn = Nobody
  /\ m \in active[w]
  /\ Len(queue) < BufferSize
  /\ queue' = Append(queue, m)
  /\ UNCHANGED <<unsent, acked, lost, loopVars, poolVars, signalVars>>

Nack(w, m) ==
  /\ turn = Nobody
  /\ m \in active[w]
  /\ \/ Len(queue) < BufferSize /\ queue' = Append(queue, m) /\ UNCHANGED lost
     \/ Len(queue) >= BufferSize /\ lost' = lost \cup {m} /\ UNCHANGED queue
  /\ Settled(w, m)
  /\ UNCHANGED acked

(* A fault: the promise leaves the set and tells nobody. *)
EndedQuietly(w) ==
  /\ turn = Nobody
  /\ settled[w] > 0
  /\ settled' = [settled EXCEPT ![w] = @ - 1]
  /\ UNCHANGED <<active, waiter, msgVars, loopVars, signalVars>>

(* A promise leaves the set and resolves the waiter, if there is one. *)
Ended(w) ==
  /\ turn = Nobody
  /\ settled[w] > 0
  /\ settled' = [settled EXCEPT ![w] = @ - 1]
  /\ waiter' = [waiter EXCEPT ![w] = FALSE]
  /\ UNCHANGED <<active, msgVars, loopVars, signalVars>>

-----------------------------------------------------------------------------
Loop(w) ==
  \/ TopStopping(w) \/ Top(w)
  \/ SlotWait(w) \/ SlotStopped(w) \/ SlotAborted(w) \/ SlotConsume(w)
  \/ ConsumeItems(w) \/ ConsumeEmpty(w)
  \/ RaceEnds(w) \/ DelayEnds(w) \/ DelayAborted(w)
  \/ ItemWait(w) \/ ItemBreak(w) \/ ItemAdd(w)
  \/ DrainWait(w) \/ DrainEnds(w)
  \/ Wakes(w)

processMessage(w, m) == Ack(w, m) \/ Nack(w, m)

Next ==
  \/ \E m \in Messages : Publish(m)
  \/ Abort
  \/ \E w \in Workers :
       \/ Start(w) \/ Loop(w) \/ ConsumeFails(w) \/ Ended(w)
       \/ \E m \in Messages : processMessage(w, m)
       \/ \E c \in Callers : StopCall(w, c) \/ StopReturn(w, c)

Spec == Init /\ [][Next]_vars

(***************************************************************************)
(* The event loop serves every promise and timer in its turn, and handlers *)
(* return.  A step is disabled while the loop of another worker runs, so   *)
(* its fairness is strong.                                                 *)
(***************************************************************************)
Scheduling ==
  \A w \in Workers :
    /\ SF_vars(Loop(w))
    /\ SF_vars(Ended(w))
    /\ \A m \in Messages : SF_vars(processMessage(w, m))
    /\ \A c \in Callers : SF_vars(StopReturn(w, c))

(* A handler that is retried again and again succeeds in the end. *)
HandlersRecover ==
  \A w \in Workers, m \in Messages :
    SF_vars(Ack(w, m))

LiveSpec == Spec /\ Scheduling /\ HandlersRecover

-----------------------------------------------------------------------------
(* Properties.                                                             *)

(* At most concurrency promises of a worker are in its InFlightPool, though *)
(* a slot is waited for in two places and the loop goes on later.           *)
ConcurrencyBound == \A w \in Workers : size(w) <= Concurrency

(* "Drain all in-flight work before returning": whatever ended the loop,   *)
(* a stop, an abort or an error, start ends with an empty InFlightPool,    *)
(* and a stop that has returned, also on an idle worker, is final.         *)
WorkerDrains ==
  \A w \in Workers :
    (pc[w] = "done" \/ \E c \in Callers : call[w][c] = "returned")
      => size(w) = 0 /\ batch[w] = <<>>

(* The one waiter is enough: a loop that awaits it never waits for a       *)
(* promise that has already left the set, although a race may have left an *)
(* older waiter behind.                                                    *)
NoLostWakeup ==
  \A w \in Workers :
    (pc[w] \in {"slotWait", "itemWait", "drainWait"} /\ waiter[w]) => size(w) > 0

(* The messages that w still has to settle. *)
InHands(w) == Range(batch[w]) \cup active[w]

(* Every message is in exactly one place, and once in it. *)
Conservation ==
  /\ IsInjective(queue)
  /\ \A w \in Workers : IsInjective(batch[w]) /\ Range(batch[w]) \cap active[w] = {}
  /\ \A v, w \in Workers : v # w => InHands(v) \cap InHands(w) = {}
  /\ \A w \in Workers : InHands(w) \cap (unsent \cup acked \cup lost \cup Range(queue)) = {}
  /\ Range(queue) \cap (unsent \cup acked \cup lost) = {}
  /\ unsent \cap (acked \cup lost) = {}
  /\ acked \cap lost = {}
  /\ \A m \in Messages :
       \/ m \in unsent \cup acked \cup lost \cup Range(queue)
       \/ \E w \in Workers : m \in InHands(w)

(* The types of the variables. *)
TypeOK ==
  /\ unsent \subseteq Messages
  /\ queue \in Seq(Messages)
  /\ acked \subseteq Messages
  /\ lost \subseteq Messages
  /\ aborted \in BOOLEAN
  /\ stop \in [Workers -> BOOLEAN]
  /\ turn \in Workers \cup {Nobody}
  /\ pc \in [Workers -> {"idle", "top", "slot", "slotWait", "consume", "race", "delay",
                         "item", "itemWait", "drain", "drainWait", "done"}]
  /\ batch \in [Workers -> Seq(Messages)]
  /\ active \in [Workers -> SUBSET Messages]
  /\ settled \in [Workers -> Nat]
  /\ waiter \in [Workers -> BOOLEAN]
  /\ outcome \in [Workers -> {"ok", "cancelled", "adapter"}]
  /\ call \in [Workers -> [Callers -> {"none", "waiting", "returned"}]]

(* What the place of the loop says about the items and the pool of its     *)
(* worker.  A call of stop that has returned has found the worker at its   *)
(* end, or not begun, and then it never gets past the first condition.     *)
ShapeOf(w) ==
  /\ pc[w] \in {"item", "itemWait"} => batch[w] # <<>>
  /\ batch[w] # <<>> => pc[w] \in {"consume", "item", "itemWait"}
  /\ pc[w] \in {"idle", "done"} => size(w) = 0
  /\ (pc[w] \in {"slotWait", "itemWait", "drainWait"} /\ waiter[w]) => size(w) > 0
  /\ \A c \in Callers : call[w][c] # "none" => stop[w]
  /\ (\E c \in Callers : call[w][c] = "returned")
       => pc[w] \in {"idle", "top", "drain", "done"} /\ size(w) = 0

Shape == \A w \in Workers : ShapeOf(w)

(* The inductive invariant. *)
IndInv == TypeOK /\ Shape /\ ConcurrencyBound /\ Conservation

(* The messages that some worker has to settle, and whether one of them    *)
(* was told to end.                                                        *)
InCustody == UNION {InHands(w) : w \in Workers}

Closing == aborted \/ \E w \in Workers : stop[w]

Kept == INSTANCE Custody WITH
          Capacity <- BufferSize, queued <- Range(queue), held <- InCustody,
          closing <- Closing

(* The workers keep Custody, as those of the other runtimes do: a message  *)
(* is lost only by a nack into a full queue or in a shutdown, and one that *)
(* is acked or lost is nowhere else again.                                 *)
ImplementsCustody == Kept!Spec

(* A started worker ends when it is stopped or its signal is aborted, also *)
(* when the abort comes while the loop waits for a slot or for the timer,  *)
(* neither of which looks at that signal.                                  *)
ShutdownCompletes ==
  \A w \in Workers : (pc[w] # "idle" /\ isStopping(w)) ~> (pc[w] = "done")

(* A message in the queue of a running worker is acked in the end, unless  *)
(* the worker ends or a requeue overflows.                                 *)
EventuallySettled ==
  \A m \in Messages :
    (m \in Range(queue) /\ \A w \in Workers : pc[w] # "idle")
      ~> (m \in acked \cup lost \/ \E w \in Workers : pc[w] \in {"drain", "drainWait", "done"})
=============================================================================
