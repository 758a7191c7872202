--------------------------- MODULE GoWorker_proofs ---------------------------
(***************************************************************************)
(* Proofs about GoWorker, for any number of workers, callers and messages  *)
(* and any positive batch size, concurrency and buffer size.               *)
(***************************************************************************)
EXTENDS GoWorker, SequenceFacts, FiniteSetTheorems

-----------------------------------------------------------------------------
(* Type correctness.                                                       *)

(* Leaving the loop with a possible result keeps the types. *)
LEMMA LeaveType ==
  ASSUME TypeOK, NEW w \in Workers, NEW e \in StartErr, Leave(w, e)
  PROVE  TypeOK'
  <1>1. Range(batch[w]) \subseteq Messages
    BY DEF TypeOK, Range
  <1>2. batch' \in [Workers -> Seq(Messages)]
    BY DEF TypeOK, Leave
  <1> QED
    BY <1>1, <1>2 DEF TypeOK, Leave, PC, taskVars, signalVars

(* So does a step that only moves Start. *)
LEMMA GotoType ==
  ASSUME TypeOK, NEW w \in Workers, NEW label \in PC, Goto(w, label)
  PROVE  TypeOK'
  BY DEF TypeOK, Goto, taskVars, msgVars, signalVars

(* A step that leaves all variables alone. *)
LEMMA StutterType == TypeOK /\ UNCHANGED vars => TypeOK'
  BY DEF TypeOK, vars, workerVars, taskVars, msgVars, signalVars

(* The environment: producers, the context, Stop. *)
LEMMA EnvironmentType ==
  ASSUME TypeOK,
         \/ \E m \in Messages : Publish(m)
         \/ \E e \in CtxErr : Cancel(e)
         \/ \E w \in Workers, c \in Callers : Stop(w, c) \/ StopReturn(w, c)
  PROVE  TypeOK'
  <1>1. ASSUME NEW m \in Messages, Publish(m) PROVE TypeOK'
    BY <1>1 DEF TypeOK, Publish, workerVars, taskVars, signalVars
  <1>2. ASSUME NEW e \in CtxErr, Cancel(e) PROVE TypeOK'
    BY <1>2 DEF TypeOK, Cancel, workerVars, taskVars, msgVars
  <1>3. ASSUME NEW w \in Workers, NEW c \in Callers, Stop(w, c) PROVE TypeOK'
    BY <1>3 DEF TypeOK, Stop, workerVars, taskVars, msgVars
  <1>4. ASSUME NEW w \in Workers, NEW c \in Callers, StopReturn(w, c) PROVE TypeOK'
    BY <1>4 DEF TypeOK, StopReturn, workerVars, taskVars, msgVars
  <1> QED
    BY <1>1, <1>2, <1>3, <1>4

(* The loop of Start. *)
LEMMA LoopType ==
  ASSUME TypeOK, Shape, NEW w \in Workers, Loop(w) \/ ConsumeFails(w) \/ Start(w)
  PROVE  TypeOK'
  <1>1. CASE LeaveCancelled(w)
    BY <1>1, LeaveType DEF LeaveCancelled, TypeOK, StartErr
  <1>2. CASE LeaveStopped(w)
    BY <1>2, LeaveType DEF LeaveStopped, StartErr, CtxErr
  <1>3. CASE ConsumeFails(w)
    <2>1. (IF ctx # "none" THEN ctx ELSE "adapter") \in StartErr
      BY DEF TypeOK, StartErr
    <2> QED
      BY <1>3, <2>1, LeaveType DEF ConsumeFails
  <1>4. CASE TopDefault(w) \/ PollTimer(w) \/ Done(w) \/ Start(w)
    BY <1>4, GotoType DEF TopDefault, PollTimer, Done, Start, PC
  <1>5. CASE ConsumeReturns(w)
    BY <1>5, GotoType DEF ConsumeReturns, PC
  <1>6. CASE ConsumeReceive(w)
    <2>1. Tail(queue) \in Seq(Messages) /\ Head(queue) \in Messages
      BY <1>6, TailFacts DEF ConsumeReceive, TypeOK
    <2>2. Append(batch[w], Head(queue)) \in Seq(Messages)
      BY <2>1 DEF TypeOK
    <2> QED
      BY <1>6, <2>1, <2>2 DEF ConsumeReceive, TypeOK, taskVars, signalVars
  <1>7. CASE Dispatch(w)
    <2>1. Head(batch[w]) \in Messages /\ Tail(batch[w]) \in Seq(Messages)
      BY <1>7, TailFacts DEF TypeOK, Shape, ShapeOf, Dispatch
    <2> QED
      BY <1>7, <2>1 DEF Dispatch, Spawn, TypeOK, Task, PC, msgVars, signalVars
  <1> QED
    BY <1>1, <1>2, <1>3, <1>4, <1>5, <1>6, <1>7
    DEF Loop, TopCancelled, TopStopped, ConsumeCancelled, PollCancelled, PollStopped,
        DispatchCancelled, DispatchStopped

(* The goroutines; a slot that is released was taken, a wg.Done was added. *)
LEMMA GoroutineType ==
  ASSUME TypeOK, Slots, NEW w \in Workers, Goroutine(w)
  PROVE  TypeOK'
  <1>1. ASSUME NEW m \in Messages, HandleOk(w, m) \/ HandleErr(w, m) PROVE TypeOK'
    <2>1. CASE HandleOk(w, m)
      BY <2>1 DEF HandleOk, TypeOK, Task, workerVars, msgVars, signalVars
    <2>2. CASE HandleErr(w, m)
      BY <2>2 DEF HandleErr, TypeOK, Task, workerVars, msgVars, signalVars
    <2> QED
      BY <1>1, <2>1, <2>2
  <1>2. ASSUME NEW m \in Messages, Settle(w, m) PROVE TypeOK'
    <2> USE DEF Processed, TypeOK, Task, workerVars, signalVars
    <2>1. CASE Ack(w, m)
      BY <2>1 DEF Ack
    <2>2. CASE Nack(w, m)
      BY <2>2 DEF Nack
    <2>3. CASE NackOverflow(w, m)
      BY <2>3 DEF NackOverflow
    <2> QED
      BY <1>2, <2>1, <2>2, <2>3 DEF Settle
  <1>3. Cardinality(Held(w)) \in Nat
    BY MessagesAssumption, FS_Subset, FS_CardinalityType DEF Held
  <1>4. CASE ReleaseSlot(w)
    <2>1. sem[w] - 1 \in Nat
      BY <1>3, <1>4 DEF ReleaseSlot, Slots, SlotsOf, TypeOK
    <2>2. releasing[w] - 1 \in Nat
      BY <1>4 DEF ReleaseSlot, TypeOK
    <2> QED
      BY <1>4, <2>1, <2>2 DEF ReleaseSlot, TypeOK, workerVars, msgVars, signalVars
  <1>5. CASE WgDone(w)
    <2>1. wg[w] - 1 \in Nat
      BY <1>5 DEF WgDone, Slots, SlotsOf, TypeOK
    <2>2. exiting[w] - 1 \in Nat
      BY <1>5 DEF WgDone, TypeOK
    <2> QED
      BY <1>5, <2>1, <2>2 DEF WgDone, TypeOK, workerVars, msgVars, signalVars
  <1> QED
    BY <1>1, <1>2, <1>4, <1>5 DEF Goroutine

(* TypeOK is preserved by every step from a state of the invariant. *)
LEMMA TypeStep == IndInv /\ [Next]_vars => TypeOK'
  <1> SUFFICES ASSUME IndInv, [Next]_vars PROVE TypeOK'
    OBVIOUS
  <1> USE DEF IndInv
  <1>1. CASE UNCHANGED vars
    BY <1>1, StutterType
  <1>2. CASE \E m \in Messages : Publish(m)
    BY <1>2, EnvironmentType
  <1>3. CASE \E e \in CtxErr : Cancel(e)
    BY <1>3, EnvironmentType
  <1>4. ASSUME NEW w \in Workers, Start(w) \/ Loop(w) \/ ConsumeFails(w) PROVE TypeOK'
    BY <1>4, LoopType
  <1>5. ASSUME NEW w \in Workers, Goroutine(w) PROVE TypeOK'
    BY <1>5, GoroutineType
  <1>6. ASSUME NEW w \in Workers, \E c \in Callers : Stop(w, c) \/ StopReturn(w, c)
        PROVE  TypeOK'
    BY <1>6, EnvironmentType
  <1> QED
    BY <1>1, <1>2, <1>3, <1>4, <1>5, <1>6 DEF Next, WorkerNext

-----------------------------------------------------------------------------
(* The position of Start, its batch and its goroutines.                    *)

(* The counters cannot be zero while a goroutine has still to give back. *)
LEMMA CountersPositive ==
  ASSUME TypeOK, Slots, NEW w \in Workers
  PROVE  /\ Cardinality(Held(w)) \in Nat
         /\ releasing[w] > 0 => sem[w] > 0
         /\ exiting[w] > 0 => wg[w] > 0
         /\ wg[w] = 0 => Held(w) = {} /\ releasing[w] = 0 /\ exiting[w] = 0
  <1>1. IsFiniteSet(Held(w)) /\ Cardinality(Held(w)) \in Nat
    BY MessagesAssumption, FS_Subset, FS_CardinalityType DEF Held
  <1>2. Cardinality(Held(w)) = 0 => Held(w) = {}
    BY <1>1, FS_EmptySet
  <1> QED
    BY <1>1, <1>2 DEF TypeOK, Slots, SlotsOf

(* Leaving the loop empties the batch. *)
LEMMA LeaveShape ==
  ASSUME TypeOK, Shape, NEW w \in Workers, NEW e, Leave(w, e), pc[w] # "done"
  PROVE  Shape'
  <1> SUFFICES ASSUME NEW v \in Workers PROVE ShapeOf(v)'
    BY DEF Shape
  <1>1. CASE v = w
    BY <1>1 DEF Leave, Shape, ShapeOf, TypeOK, taskVars, signalVars
  <1>2. CASE v # w
    <2>1. pc'[v] = pc[v] /\ batch'[v] = batch[v] /\ wg' = wg /\ call' = call
      BY <1>2 DEF Leave, TypeOK, taskVars, signalVars
    <2> QED
      BY <2>1 DEF Shape, ShapeOf
  <1> QED
    BY <1>1, <1>2

(* The loop of Start keeps Shape. *)
LEMMA LoopShape ==
  ASSUME TypeOK, Shape, NEW w \in Workers, Loop(w) \/ ConsumeFails(w) \/ Start(w)
  PROVE  Shape'
  <1>1. CASE \E e : Leave(w, e) /\ pc[w] # "done"
    BY <1>1, LeaveShape
  <1>2. CASE Start(w) \/ TopDefault(w) \/ PollTimer(w) \/ Done(w) \/ ConsumeReturns(w)
    <2>1. PICK label \in PC :
            /\ Goto(w, label)
            /\ pc[w] # "done"
            /\ label = "dispatch" => batch[w] # <<>>
            /\ label \notin {"consume", "dispatch"} => batch[w] = <<>>
            /\ label = "done" => wg[w] = 0
      BY <1>2 DEF Start, TopDefault, PollTimer, Done, ConsumeReturns, Shape, ShapeOf, PC
    <2> SUFFICES ASSUME NEW v \in Workers PROVE ShapeOf(v)'
      BY DEF Shape
    <2>2. batch' = batch /\ wg' = wg /\ call' = call
      BY <2>1 DEF Goto, taskVars, signalVars
    <2>3. pc'[v] = IF v = w THEN label ELSE pc[v]
      BY <2>1 DEF Goto, TypeOK
    <2> QED
      BY <2>1, <2>2, <2>3 DEF Shape, ShapeOf
  <1>3. CASE ConsumeReceive(w)
    BY <1>3 DEF ConsumeReceive, Shape, ShapeOf, TypeOK, taskVars, signalVars
  <1>4. CASE Dispatch(w)
    <2>1. batch[w] # <<>> /\ batch[w] \in Seq(Messages) /\ pc[w] = "dispatch"
      BY <1>4 DEF Dispatch, Shape, ShapeOf, TypeOK
    <2>2. Tail(batch[w]) = <<>> <=> Len(batch[w]) = 1
      BY <2>1, TailLength
    <2> SUFFICES ASSUME NEW v \in Workers PROVE ShapeOf(v)'
      BY DEF Shape
    <2>4. CASE v = w
      BY <1>4, <2>1, <2>2, <2>4 DEF Dispatch, Spawn, Shape, ShapeOf, TypeOK, signalVars
    <2>5. CASE v # w
      BY <1>4, <2>5 DEF Dispatch, Spawn, Shape, ShapeOf, TypeOK, signalVars
    <2> QED
      BY <2>4, <2>5
  <1> QED
    BY <1>1, <1>2, <1>3, <1>4
    DEF Loop, LeaveCancelled, LeaveStopped, TopCancelled, TopStopped, ConsumeCancelled,
        ConsumeFails, PollCancelled, PollStopped, DispatchCancelled, DispatchStopped

(* Shape is preserved by every step from a state of the invariant. *)
LEMMA ShapeStep == IndInv /\ [Next]_vars => Shape'
  <1> SUFFICES ASSUME IndInv, [Next]_vars PROVE Shape'
    OBVIOUS
  <1> USE DEF IndInv
  <1>1. CASE UNCHANGED vars
    BY <1>1 DEF Shape, ShapeOf, vars, workerVars, taskVars, signalVars
  <1>2. CASE \E m \in Messages : Publish(m)
    BY <1>2 DEF Publish, Shape, ShapeOf, workerVars, taskVars, signalVars
  <1>3. CASE \E e \in CtxErr : Cancel(e)
    BY <1>3 DEF Cancel, Shape, ShapeOf, workerVars, taskVars
  <1>4. ASSUME NEW w \in Workers, Start(w) \/ Loop(w) \/ ConsumeFails(w) PROVE Shape'
    BY <1>4, LoopShape
  <1>5. ASSUME NEW w \in Workers, NEW m \in Messages,
               HandleOk(w, m) \/ HandleErr(w, m) \/ Settle(w, m)
        PROVE  Shape'
    BY <1>5 DEF HandleOk, HandleErr, Settle, Ack, Nack, NackOverflow, Processed, Shape,
                ShapeOf, workerVars, signalVars
  <1>6. ASSUME NEW w \in Workers, ReleaseSlot(w) PROVE Shape'
    BY <1>6 DEF ReleaseSlot, Shape, ShapeOf, workerVars, signalVars
  <1>7. ASSUME NEW w \in Workers, WgDone(w) PROVE Shape'
    <2>1. wg[w] # 0 /\ wg \in [Workers -> Nat]
      BY <1>7, CountersPositive DEF WgDone, TypeOK
    <2>2. \A v \in Workers : wg[v] = 0 => wg'[v] = 0
      BY <1>7, <2>1 DEF WgDone
    <2> QED
      BY <1>7, <2>2 DEF WgDone, Shape, ShapeOf, workerVars, signalVars
  <1>8. ASSUME NEW w \in Workers, NEW c \in Callers, Stop(w, c) \/ StopReturn(w, c)
        PROVE  Shape'
    <2>1. pc' = pc /\ batch' = batch /\ wg' = wg
      BY <1>8 DEF Stop, StopReturn, workerVars, taskVars
    <2>2. \A v \in Workers, d \in Callers :
            call'[v][d] = "returned" => call[v][d] = "returned" \/ pc[v] = "done"
      <3>1. CASE Stop(w, c)
        BY <3>1 DEF Stop, TypeOK
      <3>2. CASE StopReturn(w, c)
        BY <3>2 DEF StopReturn, TypeOK
      <3> QED
        BY <1>8, <3>1, <3>2
    <2> QED
      BY <2>1, <2>2 DEF Shape, ShapeOf
  <1> QED
    BY <1>1, <1>2, <1>3, <1>4, <1>5, <1>6, <1>7, <1>8 DEF Next, WorkerNext, Goroutine

-----------------------------------------------------------------------------
(* Every message in one place.                                             *)

(* Steps that move no message: signals, the position of Start, handlers    *)
(* that return, the deferred calls of a goroutine.                         *)
LEMMA ConservationKept ==
  ASSUME Conservation, UNCHANGED <<unsent, queue, acked, lost, batch>>,
         \A w \in Workers : Held(w)' = Held(w)
  PROVE  Conservation'
  BY DEF Conservation, InHands

(* A producer sends m. *)
LEMMA PublishConserves ==
  ASSUME TypeOK, Conservation, NEW m \in Messages, Publish(m)
  PROVE  Conservation'
  <1>1. m \notin Range(queue)
    BY DEF Publish, Conservation
  <1>2. IsInjective(queue') /\ Range(queue') = Range(queue) \cup {m}
    BY <1>1, AppendFacts DEF Publish, Conservation, TypeOK
  <1>3. \A w \in Workers : InHands(w)' = InHands(w) /\ Held(w)' = Held(w)
    BY DEF Publish, InHands, Held, workerVars, taskVars
  <1>4. unsent' = unsent \ {m} /\ acked' = acked /\ lost' = lost /\ batch' = batch
    BY DEF Publish, workerVars
  <1> QED
    BY <1>2, <1>3, <1>4 DEF Conservation, Publish

(* Start drops the batch of w. *)
LEMMA LeaveConserves ==
  ASSUME TypeOK, Conservation, NEW w \in Workers, NEW e, Leave(w, e)
  PROVE  Conservation'
  <1>1. /\ lost' = lost \cup Range(batch[w])
        /\ UNCHANGED <<unsent, acked, queue>>
    BY DEF Leave
  <1>2. \A v \in Workers : Held(v)' = Held(v)
    BY DEF Leave, Held, taskVars
  <1>3. /\ IsInjective(batch'[w]) /\ Range(batch'[w]) = {}
        /\ \A v \in Workers : v # w => batch'[v] = batch[v]
    BY EmptyFacts DEF Leave, TypeOK
  <1> QED
    BY <1>1, <1>2, <1>3 DEF Conservation, InHands

(* Consume of w receives the head of the channel. *)
LEMMA ReceiveConserves ==
  ASSUME TypeOK, Conservation, NEW w \in Workers, ConsumeReceive(w)
  PROVE  Conservation'
  <1> DEFINE m == Head(queue)
  <1>1. /\ m \in Messages
        /\ Range(queue) = Range(queue') \cup {m}
        /\ IsInjective(queue')
        /\ m \notin Range(queue')
    BY TailFacts DEF ConsumeReceive, Conservation, TypeOK
  <1>2. UNCHANGED <<unsent, acked, lost>>
    BY DEF ConsumeReceive
  <1>3. \A v \in Workers : Held(v)' = Held(v)
    BY DEF ConsumeReceive, Held, taskVars
  <1>4. \A v \in Workers : v # w => batch'[v] = batch[v]
    BY DEF ConsumeReceive, TypeOK
  <1>5. batch'[w] = Append(batch[w], m) /\ batch[w] \in Seq(Messages)
    BY DEF ConsumeReceive, TypeOK
  <1>6. m \notin InHands(w)
    BY <1>1 DEF Conservation
  <1> HIDE DEF m
  <1>7. Range(batch'[w]) = Range(batch[w]) \cup {m} /\ IsInjective(batch'[w])
    BY <1>1, <1>5, <1>6, AppendFacts DEF Conservation, InHands
  <1> QED
    BY <1>1, <1>2, <1>3, <1>4, <1>6, <1>7 DEF Conservation, InHands

(* Start of w hands the head of its batch to a goroutine. *)
LEMMA DispatchConserves ==
  ASSUME TypeOK, Shape, Conservation, NEW w \in Workers, Dispatch(w)
  PROVE  /\ Conservation'
         /\ Head(batch[w]) \notin Held(w)
         /\ Held(w)' = Held(w) \cup {Head(batch[w])}
         /\ \A v \in Workers : v # w => Held(v)' = Held(v)
  <1> DEFINE m == Head(batch[w])
  <1>1. batch[w] \in Seq(Messages) /\ batch[w] # <<>>
    BY DEF Dispatch, Shape, ShapeOf, TypeOK
  <1>2. /\ m \in Messages
        /\ batch'[w] = Tail(batch[w])
        /\ Range(batch[w]) = Range(batch'[w]) \cup {m}
        /\ IsInjective(batch'[w])
        /\ m \notin Range(batch'[w])
    BY <1>1, TailFacts DEF Dispatch, Spawn, Conservation, TypeOK
  <1>3. UNCHANGED <<unsent, queue, acked, lost>>
    BY DEF Dispatch, Spawn, msgVars
  <1>4. \A v \in Workers : v # w => batch'[v] = batch[v] /\ Held(v)' = Held(v)
    BY DEF Dispatch, Spawn, Held, TypeOK
  <1>5. task'[w] = [task[w] EXCEPT ![m] = "running"] /\ task[w] \in [Messages -> Task]
    BY DEF Dispatch, Spawn, TypeOK
  <1>6. m \notin Held(w)
    BY <1>2 DEF Conservation
  <1> HIDE DEF m
  <1>7. Held(w)' = Held(w) \cup {m}
    BY <1>2, <1>5 DEF Held
  <1>8. Conservation'
    BY <1>2, <1>3, <1>4, <1>6, <1>7 DEF Conservation, InHands
  <1> QED
    BY <1>4, <1>6, <1>7, <1>8 DEF m

(* A goroutine of w leaves processMessage: m is no longer in its hands. *)
LEMMA ProcessedHeld ==
  ASSUME TypeOK, NEW w \in Workers, NEW m \in Messages, task[w][m] # "none", Processed(w, m)
  PROVE  /\ m \in Held(w)
         /\ Held(w)' = Held(w) \ {m}
         /\ \A v \in Workers : v # w => Held(v)' = Held(v)
         /\ batch' = batch
  <1>1. task'[w] = [task[w] EXCEPT ![m] = "none"] /\ task[w] \in [Messages -> Task]
    BY DEF Processed, TypeOK
  <1>2. \A v \in Workers : v # w => task'[v] = task[v]
    BY DEF Processed, TypeOK
  <1> QED
    BY <1>1, <1>2 DEF Held, Processed, workerVars

(* Ack and Nack move a message that w holds. *)
LEMMA SettleConserves ==
  ASSUME TypeOK, Conservation, NEW w \in Workers, NEW m \in Messages, Settle(w, m)
  PROVE  Conservation'
  <1>1. task[w][m] # "none" /\ Processed(w, m)
    BY DEF Settle, Ack, Nack, NackOverflow
  <1>2. /\ m \in Held(w)
        /\ Held(w)' = Held(w) \ {m}
        /\ \A v \in Workers : v # w => Held(v)' = Held(v)
        /\ batch' = batch
    BY <1>1, ProcessedHeld
  <1>3. m \notin unsent /\ m \notin acked /\ m \notin lost /\ m \notin Range(queue)
    BY <1>2 DEF Conservation, InHands
  <1>4. CASE Ack(w, m)
    <2>1. acked' = acked \cup {m} /\ UNCHANGED <<unsent, queue, lost>>
      BY <1>4 DEF Ack
    <2> QED
      BY <1>2, <1>3, <2>1 DEF Conservation, InHands
  <1>5. CASE Nack(w, m)
    <2>1. queue' = Append(queue, m) /\ UNCHANGED <<unsent, acked, lost>>
      BY <1>5 DEF Nack
    <2>2. Range(queue') = Range(queue) \cup {m} /\ IsInjective(queue')
      BY <1>3, <2>1, AppendFacts DEF Conservation, TypeOK
    <2>3. UNCHANGED <<unsent, acked, lost>>
      BY <2>1
    <2> QED
      BY <1>2, <1>3, <2>2, <2>3 DEF Conservation, InHands
  <1>6. CASE NackOverflow(w, m)
    <2>1. lost' = lost \cup {m} /\ UNCHANGED <<unsent, queue, acked>>
      BY <1>6 DEF NackOverflow
    <2> QED
      BY <1>2, <1>3, <2>1 DEF Conservation, InHands
  <1> QED
    BY <1>4, <1>5, <1>6 DEF Settle

(* A handler that returns leaves its message with the goroutine. *)
LEMMA HandleHeld ==
  ASSUME TypeOK, NEW w \in Workers, NEW m \in Messages, HandleOk(w, m) \/ HandleErr(w, m)
  PROVE  \A v \in Workers : Held(v)' = Held(v)
  <1>1. PICK t \in {"succeeded", "failed"} : task' = [task EXCEPT ![w][m] = t]
    BY DEF HandleOk, HandleErr
  <1>2. task[w][m] = "running" /\ task[w] \in [Messages -> Task]
    BY DEF HandleOk, HandleErr, TypeOK
  <1>3. task'[w] = [task[w] EXCEPT ![m] = t]
    BY <1>1 DEF TypeOK
  <1>4. Held(w)' = Held(w)
    BY <1>2, <1>3 DEF Held
  <1>5. \A v \in Workers : v # w => task'[v] = task[v]
    BY <1>1 DEF TypeOK
  <1> QED
    BY <1>4, <1>5 DEF Held

(* Conservation is preserved by every step from a state of the invariant. *)
LEMMA ConservationStep == IndInv /\ [Next]_vars => Conservation'
  <1> SUFFICES ASSUME IndInv, [Next]_vars PROVE Conservation'
    OBVIOUS
  <1> USE DEF IndInv
  <1>1. CASE \/ UNCHANGED vars
             \/ \E e \in CtxErr : Cancel(e)
             \/ \E w \in Workers, c \in Callers : Stop(w, c) \/ StopReturn(w, c)
             \/ \E w \in Workers : ReleaseSlot(w) \/ WgDone(w)
             \/ \E w \in Workers, label \in PC : Goto(w, label)
    <2>1. UNCHANGED <<unsent, queue, acked, lost, batch, task>>
      BY <1>1 DEF vars, Cancel, Stop, StopReturn, ReleaseSlot, WgDone, Goto,
                  workerVars, taskVars, msgVars
    <2>2. \A w \in Workers : Held(w)' = Held(w)
      BY <2>1 DEF Held
    <2> QED
      BY <2>1, <2>2, ConservationKept
  <1>2. CASE \E m \in Messages : Publish(m)
    BY <1>2, PublishConserves
  <1>3. ASSUME NEW w \in Workers, NEW e, Leave(w, e) PROVE Conservation'
    BY <1>3, LeaveConserves
  <1>4. ASSUME NEW w \in Workers, ConsumeReceive(w) PROVE Conservation'
    BY <1>4, ReceiveConserves
  <1>5. ASSUME NEW w \in Workers, Dispatch(w) PROVE Conservation'
    BY <1>5, DispatchConserves
  <1>6. ASSUME NEW w \in Workers, NEW m \in Messages, HandleOk(w, m) \/ HandleErr(w, m)
        PROVE  Conservation'
    <2>1. UNCHANGED <<unsent, queue, acked, lost, batch>>
      BY <1>6 DEF HandleOk, HandleErr, workerVars, msgVars
    <2> QED
      BY <1>6, <2>1, HandleHeld, ConservationKept
  <1>7. ASSUME NEW w \in Workers, NEW m \in Messages, Settle(w, m) PROVE Conservation'
    BY <1>7, SettleConserves
  <1>8. \A w \in Workers :
          Start(w) \/ TopDefault(w) \/ PollTimer(w) \/ Done(w) \/ ConsumeReturns(w)
            => \E label \in PC : Goto(w, label)
    BY DEF Start, TopDefault, PollTimer, Done, ConsumeReturns, PC
  <1>9. ASSUME NEW w \in Workers, Loop(w) \/ ConsumeFails(w) \/ Start(w)
        PROVE  Conservation'
    BY <1>1, <1>3, <1>4, <1>5, <1>8, <1>9
    DEF Loop, LeaveCancelled, LeaveStopped, TopCancelled, TopStopped, ConsumeCancelled,
        ConsumeFails, PollCancelled, PollStopped, DispatchCancelled, DispatchStopped
  <1> QED
    BY <1>1, <1>2, <1>6, <1>7, <1>9 DEF Next, WorkerNext, Goroutine

-----------------------------------------------------------------------------
(* Slots and WaitGroup.                                                    *)

(* A worker whose goroutines and counters a step leaves alone. *)
LEMMA SlotsKept ==
  ASSUME NEW v \in Workers, SlotsOf(v), Held(v)' = Held(v),
         sem'[v] = sem[v], wg'[v] = wg[v], releasing'[v] = releasing[v],
         exiting'[v] = exiting[v]
  PROVE  SlotsOf(v)'
  BY DEF SlotsOf

(* A dispatch takes a slot for a message that no goroutine of w held. *)
LEMMA DispatchSlots ==
  ASSUME IndInv, NEW w \in Workers, Dispatch(w)
  PROVE  Slots'
  <1> SUFFICES ASSUME NEW v \in Workers PROVE SlotsOf(v)'
    BY DEF Slots
  <1>1. /\ Head(batch[w]) \notin Held(w)
        /\ Held(w)' = Held(w) \cup {Head(batch[w])}
        /\ v # w => Held(v)' = Held(v)
    BY DispatchConserves DEF IndInv
  <1>2. CASE v # w
    BY <1>1, <1>2, SlotsKept DEF IndInv, Slots, TypeOK, Dispatch, Spawn
  <1>3. CASE v = w
    <2>1. IsFiniteSet(Held(w)) /\ Cardinality(Held(w)) \in Nat
      BY MessagesAssumption, FS_Subset, FS_CardinalityType DEF Held
    <2>2. Cardinality(Held(w)') = Cardinality(Held(w)) + 1
      BY <1>1, <2>1, FS_AddElement
    <2>3. sem'[w] = sem[w] + 1 /\ wg'[w] = wg[w] + 1 /\ sem[w] < Concurrency
      BY DEF IndInv, TypeOK, Dispatch, Spawn
    <2>4. UNCHANGED <<releasing, exiting>>
      BY DEF Dispatch, Spawn
    <2>5. /\ sem[w] \in Nat /\ wg[w] \in Nat /\ releasing[w] \in Nat /\ exiting[w] \in Nat
          /\ SlotsOf(w)
      BY DEF IndInv, Slots, TypeOK
    <2> QED
      BY <1>3, <2>1, <2>2, <2>3, <2>4, <2>5, LimitsAssumption DEF SlotsOf
  <1> QED
    BY <1>2, <1>3

(* A goroutine that leaves processMessage keeps its slot for now. *)
LEMMA SettleSlots ==
  ASSUME IndInv, NEW w \in Workers, NEW m \in Messages, Settle(w, m)
  PROVE  Slots'
  <1> SUFFICES ASSUME NEW v \in Workers PROVE SlotsOf(v)'
    BY DEF Slots
  <1>1. task[w][m] # "none" /\ Processed(w, m)
    BY DEF Settle, Ack, Nack, NackOverflow
  <1>2. /\ m \in Held(w)
        /\ Held(w)' = Held(w) \ {m}
        /\ v # w => Held(v)' = Held(v)
    BY <1>1, ProcessedHeld DEF IndInv
  <1>3. CASE v # w
    BY <1>1, <1>2, <1>3, SlotsKept DEF IndInv, Slots, TypeOK, Processed
  <1>4. CASE v = w
    <2>1. IsFiniteSet(Held(w)) /\ Cardinality(Held(w)) \in Nat
      BY MessagesAssumption, FS_Subset, FS_CardinalityType DEF Held
    <2>2. Cardinality(Held(w)') = Cardinality(Held(w)) - 1
      BY <1>2, <2>1, FS_RemoveElement
    <2>3. releasing'[w] = releasing[w] + 1 /\ UNCHANGED <<sem, wg, exiting>>
      BY <1>1 DEF IndInv, TypeOK, Processed
    <2>4. SlotsOf(w) /\ releasing[w] \in Nat
      BY DEF IndInv, Slots, TypeOK
    <2> QED
      BY <1>4, <2>1, <2>2, <2>3, <2>4 DEF SlotsOf
  <1> QED
    BY <1>3, <1>4

(* The deferred calls give back the slot, then the count. *)
LEMMA ReleaseSlots ==
  ASSUME IndInv, NEW w \in Workers, ReleaseSlot(w) \/ WgDone(w)
  PROVE  Slots'
  <1> SUFFICES ASSUME NEW v \in Workers PROVE SlotsOf(v)'
    BY DEF Slots
  <1>1. Held(v)' = Held(v)
    BY DEF ReleaseSlot, WgDone, Held
  <1>2. /\ SlotsOf(v) /\ Cardinality(Held(v)) \in Nat
        /\ sem[v] \in Nat /\ wg[v] \in Nat /\ releasing[v] \in Nat /\ exiting[v] \in Nat
    BY CountersPositive DEF IndInv, Slots, TypeOK
  <1>3. CASE ReleaseSlot(w)
    <2>1. /\ releasing'[v] = IF v = w THEN releasing[v] - 1 ELSE releasing[v]
          /\ exiting'[v] = IF v = w THEN exiting[v] + 1 ELSE exiting[v]
          /\ sem'[v] = IF v = w THEN sem[v] - 1 ELSE sem[v]
          /\ wg' = wg
      BY <1>3 DEF ReleaseSlot, IndInv, TypeOK
    <2> QED
      BY <1>1, <1>2, <2>1, LimitsAssumption DEF SlotsOf
  <1>4. CASE WgDone(w)
    <2>1. /\ exiting'[v] = IF v = w THEN exiting[v] - 1 ELSE exiting[v]
          /\ wg'[v] = IF v = w THEN wg[v] - 1 ELSE wg[v]
          /\ UNCHANGED <<sem, releasing>>
      BY <1>4 DEF WgDone, IndInv, TypeOK
    <2> QED
      BY <1>1, <1>2, <2>1, LimitsAssumption DEF SlotsOf
  <1> QED
    BY <1>3, <1>4

(* Slots is preserved by every step from a state of the invariant. *)
LEMMA SlotsStep == IndInv /\ [Next]_vars => Slots'
  <1> SUFFICES ASSUME IndInv, [Next]_vars PROVE Slots'
    OBVIOUS
  <1>1. ASSUME UNCHANGED <<sem, wg, releasing, exiting>>,
               \A v \in Workers : Held(v)' = Held(v)
        PROVE  Slots'
    BY <1>1, SlotsKept DEF IndInv, Slots
  <1>2. ASSUME UNCHANGED taskVars PROVE Slots'
    BY <1>1, <1>2 DEF taskVars, Held
  <1>3. ASSUME NEW w \in Workers, Loop(w) \/ ConsumeFails(w) \/ Start(w) PROVE Slots'
    <2>1. CASE Dispatch(w)
      BY <2>1, DispatchSlots
    <2>2. CASE ~Dispatch(w)
      <3>1. UNCHANGED taskVars
        BY <1>3, <2>2
        DEF Loop, Leave, Goto, LeaveCancelled, LeaveStopped, TopCancelled, TopStopped,
            TopDefault, ConsumeReceive, ConsumeReturns, ConsumeCancelled, ConsumeFails,
            PollTimer, PollCancelled, PollStopped, DispatchCancelled, DispatchStopped,
            Done, Start
      <3> QED
        BY <1>2, <3>1
    <2> QED
      BY <2>1, <2>2
  <1>4. ASSUME NEW w \in Workers, NEW m \in Messages, HandleOk(w, m) \/ HandleErr(w, m)
        PROVE  Slots'
    BY <1>1, <1>4, HandleHeld DEF HandleOk, HandleErr, IndInv
  <1>5. ASSUME NEW w \in Workers, Goroutine(w) PROVE Slots'
    BY <1>4, <1>5, SettleSlots, ReleaseSlots DEF Goroutine
  <1>6. CASE \/ UNCHANGED vars
             \/ \E m \in Messages : Publish(m)
             \/ \E e \in CtxErr : Cancel(e)
             \/ \E w \in Workers, c \in Callers : Stop(w, c) \/ StopReturn(w, c)
    BY <1>2, <1>6 DEF vars, Publish, Cancel, Stop, StopReturn
  <1> QED
    BY <1>3, <1>5, <1>6 DEF Next, WorkerNext

-----------------------------------------------------------------------------
(* The theorems.                                                           *)

(* The initial states satisfy the invariant. *)
LEMMA IndInvInit == Init => IndInv
  <1> SUFFICES ASSUME Init PROVE IndInv
    OBVIOUS
  <1>1. TypeOK
    BY DEF Init, TypeOK, CtxErr, StartErr, PC, Task
  <1>2. Shape
    BY DEF Init, Shape, ShapeOf
  <1>3. \A w \in Workers : Held(w) = {} /\ Range(batch[w]) = {} /\ IsInjective(batch[w])
    <2> SUFFICES ASSUME NEW w \in Workers
                 PROVE  Held(w) = {} /\ Range(batch[w]) = {} /\ IsInjective(batch[w])
      OBVIOUS
    <2>1. batch[w] = <<>> /\ \A m \in Messages : task[w][m] = "none"
      BY DEF Init
    <2> QED
      BY <2>1, EmptyFacts DEF Held
  <1>4. Slots
    <2>1. \A w \in Workers : Cardinality(Held(w)) = 0
      BY <1>3, FS_EmptySet
    <2>2. \A w \in Workers : sem[w] = 0 /\ wg[w] = 0 /\ releasing[w] = 0 /\ exiting[w] = 0
      BY DEF Init
    <2> QED
      BY <2>1, <2>2, LimitsAssumption DEF Slots, SlotsOf
  <1>5. Conservation
    BY <1>3, EmptyFacts DEF Init, Conservation, InHands
  <1> QED
    BY <1>1, <1>2, <1>4, <1>5 DEF IndInv

-----------------------------------------------------------------------------
(* What a step of the worker does to its goroutines.                       *)

(* The loop of Start never touches a goroutine that it has spawned: it     *)
(* adds a running one for a message that no goroutine has, or none.  It    *)
(* acks nothing, and does not come back once it is done.                   *)
LEMMA LoopEffect ==
  ASSUME IndInv, NEW w \in Workers, Loop(w) \/ ConsumeFails(w) \/ Start(w)
  PROVE  /\ acked' = acked
         /\ \A v \in Workers : pc[v] = "done" => pc'[v] = "done"
         /\ \A v \in Workers, m \in Messages :
              /\ task[v][m] # "none" => task'[v][m] = task[v][m]
              /\ task'[v][m] \in {task[v][m], "running"}
  <1>1. CASE Dispatch(w)
    <2>1. batch[w] # <<>> /\ batch[w] \in Seq(Messages) /\ pc[w] = "dispatch"
      BY <1>1 DEF Dispatch, IndInv, Shape, ShapeOf, TypeOK
    <2>2. Head(batch[w]) \in Messages /\ Head(batch[w]) \in Range(batch[w])
      BY <2>1, TailFacts
    <2>3. task[w][Head(batch[w])] = "none"
      BY <2>2 DEF IndInv, Conservation, Held
    <2> QED
      BY <1>1, <2>1, <2>2, <2>3 DEF Dispatch, Spawn, IndInv, TypeOK, msgVars
  <1>2. CASE acked' = acked /\ task' = task /\ pc[w] # "done"
             /\ \E label : pc' = [pc EXCEPT ![w] = label]
    BY <1>2 DEF IndInv, TypeOK
  <1>3. CASE ConsumeReceive(w)
    BY <1>3 DEF ConsumeReceive, taskVars
  <1> QED
    BY <1>1, <1>2, <1>3
    DEF Loop, TopCancelled, TopStopped, TopDefault, ConsumeCancelled, ConsumeReturns,
        ConsumeFails, PollTimer, PollCancelled, PollStopped, DispatchCancelled,
        DispatchStopped, Done, Start, LeaveCancelled, LeaveStopped, Leave, Goto,
        taskVars, msgVars

(* A result of Start is written once, on the way out of the loop, and is   *)
(* the error of the context, that of the adapter, or none.                 *)
LEMMA LoopResult ==
  ASSUME IndInv, NEW w \in Workers, Loop(w) \/ ConsumeFails(w) \/ Start(w)
  PROVE  /\ ctx' = ctx
         /\ \A v \in Workers :
              \/ /\ startErr'[v] = startErr[v]
                 /\ pc[v] \in {"drain", "done"} => pc'[v] \in {"drain", "done"}
              \/ /\ pc[v] \notin {"drain", "done"}
                 /\ pc'[v] = "drain"
                 /\ startErr'[v] \in {ctx, "none", "adapter"}
  <1>1. CASE \E e \in {ctx, "none", "adapter"} : Leave(w, e) /\ pc[w] \notin {"drain", "done"}
    BY <1>1 DEF Leave, IndInv, TypeOK, signalVars
  <1>2. CASE /\ ctx' = ctx /\ startErr' = startErr
             /\ \E label \in PC :
                  /\ pc' = [pc EXCEPT ![w] = label]
                  /\ pc[w] \in {"drain", "done"} => label = "done"
    BY <1>2 DEF IndInv, TypeOK
  <1>3. CASE ConsumeReceive(w)
    BY <1>3 DEF ConsumeReceive, signalVars
  <1> QED
    BY <1>1, <1>2, <1>3
    DEF Loop, TopCancelled, TopStopped, TopDefault, ConsumeCancelled, ConsumeReturns,
        ConsumeFails, PollTimer, PollCancelled, PollStopped, Dispatch, Spawn,
        DispatchCancelled, DispatchStopped, Done, Start, LeaveCancelled, LeaveStopped, Goto,
        PC, signalVars

-----------------------------------------------------------------------------
(* The theorems.                                                           *)

(* IndInv holds in every reachable state of the workers, whatever their    *)
(* number, the batch size, the concurrency and the buffer size.            *)
THEOREM Invariance == Spec => []IndInv
  <1>1. IndInv /\ [Next]_vars => IndInv'
    BY TypeStep, ShapeStep, SlotsStep, ConservationStep DEF IndInv
  <1> QED
    BY <1>1, IndInvInit, PTL DEF Spec

(* The state of the workers stays well formed: no negative WaitGroup       *)
(* counter, no slot released twice.                                        *)
THEOREM TypeCorrect == Spec => []TypeOK
  <1>1. IndInv => TypeOK
    BY DEF IndInv
  <1> QED
    BY <1>1, Invariance, PTL

(* The semaphore of Start bounds the messages that a worker processes at a *)
(* time by WorkerConfig.Concurrency.                                       *)
THEOREM HandlersBounded == Spec => []ConcurrencyBound
  <1>1. IndInv => ConcurrencyBound
    <2> SUFFICES ASSUME IndInv, NEW w \in Workers
                 PROVE  Cardinality(Held(w)) <= Concurrency
      BY DEF ConcurrencyBound
    <2>1. Cardinality(Held(w)) \in Nat
      BY CountersPositive DEF IndInv
    <2> QED
      BY <2>1, LimitsAssumption DEF IndInv, Slots, SlotsOf, TypeOK
  <1> QED
    BY <1>1, Invariance, PTL

(* When Stop has returned, the worker has no goroutine and no message. *)
THEOREM StopDrainsWorker == Spec => []StopDrains
  <1>1. IndInv => StopDrains
    <2> SUFFICES ASSUME IndInv, NEW w \in Workers,
                        pc[w] = "done" \/ \E c \in Callers : call[w][c] = "returned"
                 PROVE  /\ Held(w) = {}
                        /\ releasing[w] = 0 /\ exiting[w] = 0
                        /\ batch[w] = <<>>
      BY DEF StopDrains
    <2>1. pc[w] = "done" /\ wg[w] = 0 /\ batch[w] = <<>>
      BY DEF IndInv, Shape, ShapeOf
    <2> QED
      BY <2>1, CountersPositive DEF IndInv
  <1> QED
    BY <1>1, Invariance, PTL

(* No message is duplicated or forgotten by Consume, Ack, Nack and the     *)
(* shutdown paths of any number of workers on one queue.                   *)
THEOREM MessagesConserved == Spec => []Conservation
  <1>1. IndInv => Conservation
    BY DEF IndInv
  <1> QED
    BY <1>1, Invariance, PTL

(* A channel without repetitions that lacks a message is shorter than the  *)
(* set of all messages.                                                    *)
LEMMA ChannelShort ==
  ASSUME NEW q \in Seq(Messages), IsInjective(q), NEW m \in Messages, m \notin Range(q)
  PROVE  Len(q) < Cardinality(Messages)
  <1>1. Len(q) \in Nat /\ q \in [1 .. Len(q) -> Messages] /\ DOMAIN q = 1 .. Len(q)
    BY LenProperties
  <1>2. q \in Injection(1 .. Len(q), Messages)
    BY <1>1 DEF Injection
  <1>3. q \notin Surjection(1 .. Len(q), Messages)
    BY <1>1 DEF Surjection, Range
  <1>4. /\ Cardinality(1 .. Len(q)) <= Cardinality(Messages)
        /\ Cardinality(1 .. Len(q)) # Cardinality(Messages)
    BY <1>2, <1>3, MessagesAssumption, FS_Injection
  <1>5. Cardinality(1 .. Len(q)) = Len(q)
    BY <1>1, FS_Interval
  <1>6. Cardinality(Messages) \in Nat
    BY MessagesAssumption, FS_CardinalityType
  <1> QED
    BY <1>1, <1>4, <1>5, <1>6

(* With a buffer for every message nothing is lost before a shutdown: only *)
(* Nack into a full channel and the drop of a batch lose messages, and the *)
(* channel cannot be full while the nacked message is outside it.          *)
THEOREM NoUnexplainedLoss == Spec => []LossNeedsCause
  <1>1. Init => LossNeedsCause
    BY DEF Init, LossNeedsCause
  <1>2. IndInv /\ LossNeedsCause /\ [Next]_vars => LossNeedsCause'
    <2> SUFFICES ASSUME IndInv, LossNeedsCause, [Next]_vars PROVE LossNeedsCause'
      OBVIOUS
    <2>1. Closing => Closing'
      <3>1. CASE UNCHANGED <<ctx, stop>>
        BY <3>1 DEF Closing
      <3>2. ASSUME NEW e \in CtxErr, Cancel(e) PROVE Closing'
        BY <3>2 DEF Cancel, Closing
      <3>3. ASSUME NEW w \in Workers, NEW c \in Callers, Stop(w, c) PROVE Closing'
        BY <3>3 DEF Stop, Closing, IndInv, TypeOK
      <3> QED
        BY <3>1, <3>2, <3>3
        DEF Next, WorkerNext, Loop, Goroutine, Settle, vars, Publish, StopReturn, Leave, Goto,
            Start, LeaveCancelled, LeaveStopped, TopCancelled, TopStopped, TopDefault,
            ConsumeReceive, ConsumeReturns, ConsumeCancelled, ConsumeFails, PollTimer,
            PollCancelled, PollStopped, Dispatch, Spawn, DispatchCancelled,
            DispatchStopped, Done, HandleOk, HandleErr, Ack, Nack, NackOverflow, Processed,
            ReleaseSlot, WgDone, signalVars
    <2>2. CASE lost' = lost
      BY <2>1, <2>2 DEF LossNeedsCause
    <2>3. ASSUME NEW w \in Workers, NEW e, Leave(w, e), Closing \/ batch[w] = <<>>
          PROVE  LossNeedsCause'
      BY <2>1, <2>2, <2>3, EmptyFacts DEF Leave, LossNeedsCause
    <2>4. ASSUME NEW w \in Workers, NEW m \in Messages, NackOverflow(w, m)
          PROVE  LossNeedsCause'
      <3>1. m \in Held(w)
        BY <2>4 DEF NackOverflow, Held
      <3>2. m \notin Range(queue)
        BY <3>1 DEF IndInv, Conservation, InHands
      <3>3. Len(queue) < Cardinality(Messages)
        BY <3>2, ChannelShort DEF IndInv, Conservation, TypeOK
      <3>4. BufferSize <= Len(queue) /\ Len(queue) \in Nat
        BY <2>4, LimitsAssumption, LenProperties DEF NackOverflow, HasRoom, IndInv, TypeOK
      <3>5. Cardinality(Messages) \in Nat
        BY MessagesAssumption, FS_CardinalityType
      <3> QED
        BY <3>3, <3>4, <3>5, LimitsAssumption DEF LossNeedsCause
    <2>5. ASSUME NEW w \in Workers, Loop(w) \/ ConsumeFails(w) \/ Start(w)
          PROVE  LossNeedsCause'
      BY <2>2, <2>3, <2>5
      DEF Loop, LeaveCancelled, LeaveStopped, TopCancelled, TopStopped, TopDefault,
          ConsumeReceive, ConsumeReturns, ConsumeCancelled, ConsumeFails, PollTimer,
          PollCancelled, PollStopped, Dispatch, Spawn, DispatchCancelled, DispatchStopped,
          Done, Start, Goto, Closing, msgVars
    <2>6. ASSUME NEW w \in Workers, Goroutine(w) PROVE LossNeedsCause'
      BY <2>2, <2>4, <2>6
      DEF Goroutine, HandleOk, HandleErr, Settle, Ack, Nack, ReleaseSlot, WgDone, msgVars
    <2> QED
      BY <2>2, <2>5, <2>6
      DEF Next, WorkerNext, vars, Publish, Cancel, Stop, StopReturn, msgVars
  <1> QED
    BY <1>1, <1>2, Invariance, PTL DEF Spec

-----------------------------------------------------------------------------
(* The refinement: the mapping of GoWorker takes every step of the workers *)
(* to a step of Delivery or to a stutter.                                  *)

(* The place of a message determines its status. *)
PlaceGivesStatus(m) ==
  /\ m \in unsent => StatusOf(m) = "unsent"
  /\ m \in acked => StatusOf(m) = "acked"
  /\ m \in lost => StatusOf(m) = "lost"
  /\ m \in Range(queue) => StatusOf(m) = "queued"
  /\ \A w \in Workers : m \in Range(batch[w]) => StatusOf(m) = "leased"
  /\ \A w \in Workers : m \in Held(w) => StatusOf(m) = task[w][m]

StatusDetermined ==
  Conservation => \A m \in Messages : PlaceGivesStatus(m)

(* It does in every state in which each message has one place. *)
LEMMA StatusFacts == StatusDetermined
  <1> SUFFICES ASSUME Conservation, NEW m \in Messages PROVE PlaceGivesStatus(m)
    BY DEF StatusDetermined
  <1>1. m \in unsent => StatusOf(m) = "unsent"
    BY DEF StatusOf
  <1>2. m \in acked => StatusOf(m) = "acked"
    BY DEF StatusOf, Conservation
  <1>3. m \in lost => StatusOf(m) = "lost"
    BY DEF StatusOf, Conservation
  <1>4. m \in Range(queue) => StatusOf(m) = "queued"
    BY DEF StatusOf, Conservation, InHands, Held
  <1>5. ASSUME NEW w \in Workers, m \in Range(batch[w]) PROVE StatusOf(m) = "leased"
    <2>1. m \notin unsent /\ m \notin acked /\ m \notin lost /\ m \notin Range(queue)
      BY <1>5 DEF Conservation, InHands
    <2>2. \A v \in Workers : m \notin Held(v)
      BY <1>5 DEF Conservation, InHands
    <2> QED
      BY <2>1, <2>2 DEF StatusOf, Held
  <1>6. ASSUME NEW w \in Workers, m \in Held(w) PROVE StatusOf(m) = task[w][m]
    <2>1. m \notin unsent /\ m \notin acked /\ m \notin lost
      BY <1>6 DEF Conservation, InHands
    <2>2. \A v \in Workers : m \in Held(v) => v = w
      BY <1>6 DEF Conservation, InHands
    <2>3. Holder(m) \in Workers /\ m \in Held(Holder(m))
      BY <1>6 DEF Holder, Held
    <2>4. Holder(m) = w
      BY <2>2, <2>3
    <2> QED
      BY <1>6, <2>1, <2>4 DEF StatusOf, Held
  <1> QED
    BY <1>1, <1>2, <1>3, <1>4, <1>5, <1>6 DEF PlaceGivesStatus

(* So it does after a step. *)
LEMMA StatusFactsNext == StatusDetermined'
  BY StatusFacts, PTL

(* A message that a step leaves in its place keeps its status. *)
LEMMA StatusKept ==
  ASSUME Conservation, Conservation', NEW n \in Messages,
         n \in unsent <=> n \in unsent',
         n \in acked <=> n \in acked',
         n \in lost <=> n \in lost',
         \A w \in Workers : n \in Range(batch[w]) <=> n \in Range(batch'[w]),
         \A w \in Workers : n \in Held(w) <=> n \in Held(w)',
         \A w \in Workers : task'[w][n] = task[w][n]
  PROVE  StatusOf(n)' = StatusOf(n)
  <1>1. PlaceGivesStatus(n) /\ PlaceGivesStatus(n)'
    BY StatusFacts, StatusFactsNext DEF StatusDetermined
  <1>2. \/ n \in unsent \/ n \in acked \/ n \in lost \/ n \in Range(queue)
        \/ \E w \in Workers : n \in Range(batch[w]) \/ n \in Held(w)
    BY DEF Conservation, InHands
  <1>3. \/ n \in unsent' \/ n \in acked' \/ n \in lost' \/ n \in Range(queue')
        \/ \E w \in Workers : n \in Range(batch'[w]) \/ n \in Held(w)'
    BY DEF Conservation, InHands
  <1>4. CASE n \in unsent \/ n \in acked \/ n \in lost
    BY <1>1, <1>4 DEF PlaceGivesStatus
  <1>5. CASE \E w \in Workers : n \in Range(batch[w]) \/ n \in Held(w)
    BY <1>1, <1>5 DEF PlaceGivesStatus
  <1>6. CASE /\ ~(n \in unsent \/ n \in acked \/ n \in lost)
             /\ ~(\E w \in Workers : n \in Range(batch[w]) \/ n \in Held(w))
    <2>1. n \in Range(queue) /\ n \in Range(queue')
      BY <1>2, <1>3, <1>6
    <2> QED
      BY <1>1, <2>1 DEF PlaceGivesStatus
  <1> QED
    BY <1>4, <1>5, <1>6

(* A step that takes one message from one place to another, and gives no   *)
(* signal, is a Move of Delivery.                                          *)
LEMMA MoveMaps ==
  ASSUME NEW m \in Messages, NEW from, NEW to,
         StatusOf(m) = from, StatusOf(m)' = to,
         \A n \in Messages \ {m} : StatusOf(n)' = StatusOf(n),
         Closing' = Closing
  PROVE  D!Move(m, from, to)
  BY DEF D!Move

(* A step that moves no message and gives no signal is a stutter. *)
LEMMA StutterMaps ==
  ASSUME \A n \in Messages : StatusOf(n)' = StatusOf(n), Closing' = Closing
  PROVE  UNCHANGED D!vars
  BY DEF D!vars

(* Steps that leave the messages alone. *)
LEMMA StillMessages ==
  ASSUME Conservation, Conservation',
         UNCHANGED <<unsent, acked, lost, queue, batch, task>>
  PROVE  \A n \in Messages : StatusOf(n)' = StatusOf(n)
  BY StatusKept DEF Held

(* Publish, and the steps that only signal or move Start. *)
LEMMA PublishMaps ==
  ASSUME IndInv, IndInv', NEW m \in Messages, Publish(m)
  PROVE  D!Next
  <1>1. Range(queue') = Range(queue) \cup {m}
    BY AppendFacts DEF Publish, IndInv, TypeOK
  <1>2. UNCHANGED <<acked, lost, batch, task, ctx, stop>> /\ unsent' = unsent \ {m}
    BY DEF Publish, workerVars, taskVars, signalVars
  <1>3. m \in unsent /\ m \in Range(queue')
    BY <1>1 DEF Publish
  <1>4. StatusOf(m) = "unsent" /\ StatusOf(m)' = "queued"
    BY <1>3, StatusFacts, StatusFactsNext DEF StatusDetermined, PlaceGivesStatus, IndInv
  <1>5. \A n \in Messages \ {m} : StatusOf(n)' = StatusOf(n)
    BY <1>2, StatusKept DEF IndInv, Held
  <1>6. Closing' = Closing
    BY <1>2 DEF Closing
  <1>7. D!Publish(m)
    BY <1>4, <1>5, <1>6, MoveMaps DEF D!Publish
  <1> QED
    BY <1>7 DEF D!Next

(* The first signal closes, the others change nothing. *)
LEMMA SignalMaps ==
  ASSUME IndInv, IndInv',
         \/ \E e \in CtxErr : Cancel(e)
         \/ \E w \in Workers, c \in Callers : Stop(w, c)
  PROVE  D!Close \/ UNCHANGED D!vars
  <1>1. UNCHANGED <<unsent, acked, lost, queue, batch, task>>
    BY DEF Cancel, Stop, workerVars, taskVars, msgVars
  <1>2. \A n \in Messages : StatusOf(n)' = StatusOf(n)
    BY <1>1, StillMessages DEF IndInv
  <1>3. Closing'
    <2>1. CASE \E e \in CtxErr : Cancel(e)
      BY <2>1 DEF Cancel, Closing
    <2>2. CASE \E w \in Workers, c \in Callers : Stop(w, c)
      BY <2>2 DEF Stop, Closing, IndInv, TypeOK
    <2> QED
      BY <2>1, <2>2
  <1>4. CASE Closing
    <2>1. Closing' = Closing
      BY <1>3, <1>4 DEF Closing
    <2> QED
      BY <1>2, <2>1, StutterMaps
  <1>5. CASE ~Closing
    BY <1>2, <1>3, <1>5 DEF D!Close
  <1> QED
    BY <1>4, <1>5

(* Leaving the loop abandons what is leased to w, after a signal. *)
LEMMA LeaveMaps ==
  ASSUME IndInv, IndInv', NEW w \in Workers, NEW e, Leave(w, e),
         Closing \/ batch[w] = <<>>
  PROVE  D!Next \/ UNCHANGED D!vars
  <1> DEFINE S == Range(batch[w])
  <1>1. /\ lost' = lost \cup S
        /\ UNCHANGED <<unsent, acked, queue, task, ctx, stop>>
    BY DEF Leave, taskVars, signalVars
  <1>2. /\ Range(batch'[w]) = {}
        /\ \A v \in Workers : v # w => batch'[v] = batch[v]
    BY EmptyFacts DEF Leave, IndInv, TypeOK
  <1>3. S \subseteq Messages
    BY DEF IndInv, TypeOK, Range
  <1>4. \A n \in S : StatusOf(n) = "leased" /\ StatusOf(n)' = "lost"
    BY <1>1, <1>3, StatusFacts, StatusFactsNext DEF StatusDetermined, PlaceGivesStatus, IndInv
  <1>5. ASSUME NEW n \in Messages, n \notin S PROVE StatusOf(n)' = StatusOf(n)
    <2>1. \A v \in Workers : n \in Range(batch[v]) <=> n \in Range(batch'[v])
      BY <1>2, <1>5
    <2>2. \A v \in Workers : Held(v)' = Held(v)
      BY <1>1 DEF Held
    <2> QED
      BY <1>1, <1>5, <2>1, <2>2, StatusKept DEF IndInv
  <1>6. Closing' = Closing
    BY <1>1 DEF Closing
  <1>7. CASE S = {}
    BY <1>5, <1>6, <1>7, StutterMaps
  <1>8. CASE S # {}
    <2>1. Closing
      BY <1>8, EmptyFacts
    <2>2. D!Abandon(S)
      <3>1. \A n \in S : [m \in Messages |-> StatusOf(m)][n] = "leased"
        BY <1>3, <1>4
      <3>2. [m \in Messages |-> StatusOf(m)']
              = [m \in Messages |->
                   IF m \in S THEN "lost" ELSE [n \in Messages |-> StatusOf(n)][m]]
        BY <1>4, <1>5
      <3> QED
        BY <1>6, <1>8, <2>1, <3>1, <3>2 DEF D!Abandon
    <2> QED
      BY <1>3, <2>2 DEF D!Next
  <1> QED
    BY <1>7, <1>8

(* A receive leases the head of the channel to w. *)
LEMMA ReceiveMaps ==
  ASSUME IndInv, IndInv', NEW w \in Workers, ConsumeReceive(w)
  PROVE  D!Next
  <1>1. PICK m \in Messages : m = Head(queue) /\ m \in Range(queue)
    BY TailFacts DEF ConsumeReceive, IndInv, TypeOK
  <1>2. UNCHANGED <<unsent, acked, lost, task, ctx, stop>>
    BY DEF ConsumeReceive, taskVars, signalVars
  <1>3. batch'[w] = Append(batch[w], m) /\ batch[w] \in Seq(Messages)
    BY <1>1 DEF ConsumeReceive, IndInv, TypeOK
  <1>4. \A v \in Workers : v # w => batch'[v] = batch[v]
    BY DEF ConsumeReceive, IndInv, TypeOK
  <1>5. Range(batch'[w]) = Range(batch[w]) \cup {m}
    BY <1>1, <1>3, AppendFacts
  <1>6. StatusOf(m) = "queued" /\ StatusOf(m)' = "leased"
    BY <1>1, <1>5, StatusFacts, StatusFactsNext DEF StatusDetermined, PlaceGivesStatus, IndInv
  <1>7. ASSUME NEW n \in Messages \ {m} PROVE StatusOf(n)' = StatusOf(n)
    <2>1. \A v \in Workers : n \in Range(batch[v]) <=> n \in Range(batch'[v])
      BY <1>4, <1>5
    <2>2. \A v \in Workers : Held(v)' = Held(v)
      BY <1>2 DEF Held
    <2> QED
      BY <1>2, <2>1, <2>2, StatusKept DEF IndInv
  <1>8. Closing' = Closing
    BY <1>2 DEF Closing
  <1>9. D!Lease(m)
    BY <1>1, <1>6, <1>7, <1>8, MoveMaps DEF D!Lease
  <1> QED
    BY <1>1, <1>9 DEF D!Next

(* A dispatch begins the handler of the head of the batch. *)
LEMMA DispatchMaps ==
  ASSUME IndInv, IndInv', NEW w \in Workers, Dispatch(w)
  PROVE  D!Next
  <1>1. batch[w] \in Seq(Messages) /\ batch[w] # <<>>
    BY DEF Dispatch, IndInv, Shape, ShapeOf, TypeOK
  <1>2. PICK m \in Messages :
          /\ m = Head(batch[w])
          /\ batch'[w] = Tail(batch[w])
          /\ Range(batch[w]) = Range(batch'[w]) \cup {m}
    BY <1>1, TailFacts DEF Dispatch, Spawn, IndInv, TypeOK
  <1>3. UNCHANGED <<unsent, queue, acked, lost, ctx, stop>>
    BY DEF Dispatch, Spawn, msgVars, signalVars
  <1>4. /\ Held(w)' = Held(w) \cup {m}
        /\ \A v \in Workers : v # w => Held(v)' = Held(v)
    BY <1>2, DispatchConserves DEF IndInv
  <1>5. \A v \in Workers : v # w => batch'[v] = batch[v] /\ task'[v] = task[v]
    BY DEF Dispatch, Spawn, IndInv, TypeOK
  <1>6. task'[w] = [task[w] EXCEPT ![m] = "running"] /\ task[w] \in [Messages -> Task]
    BY <1>2 DEF Dispatch, Spawn, IndInv, TypeOK
  <1>7. StatusOf(m) = "leased" /\ StatusOf(m)' = "running"
    <2>1. m \in Range(batch[w]) /\ m \in Held(w)' /\ task'[w][m] = "running"
      BY <1>2, <1>4, <1>6
    <2> QED
      BY <1>2, <2>1, StatusFacts, StatusFactsNext DEF StatusDetermined, PlaceGivesStatus, IndInv
  <1>8. ASSUME NEW n \in Messages \ {m} PROVE StatusOf(n)' = StatusOf(n)
    <2>1. \A v \in Workers : n \in Range(batch[v]) <=> n \in Range(batch'[v])
      BY <1>2, <1>5
    <2>2. \A v \in Workers : n \in Held(v)' <=> n \in Held(v)
      BY <1>4
    <2>3. \A v \in Workers : task'[v][n] = task[v][n]
      BY <1>5, <1>6
    <2> QED
      BY <1>3, <2>1, <2>2, <2>3, StatusKept DEF IndInv
  <1>9. Closing' = Closing
    BY <1>3 DEF Closing
  <1>10. D!Begin(m)
    BY <1>2, <1>7, <1>8, <1>9, MoveMaps DEF D!Begin
  <1> QED
    BY <1>2, <1>10 DEF D!Next

(* A handler that returns finishes its message. *)
LEMMA HandleMaps ==
  ASSUME IndInv, IndInv', NEW w \in Workers, NEW m \in Messages,
         HandleOk(w, m) \/ HandleErr(w, m)
  PROVE  D!Next
  <1>1. PICK t \in {"succeeded", "failed"} : task' = [task EXCEPT ![w][m] = t]
    BY DEF HandleOk, HandleErr
  <1>2. UNCHANGED <<unsent, acked, lost, queue, batch, ctx, stop>> /\ task[w][m] = "running"
    BY DEF HandleOk, HandleErr, workerVars, msgVars, signalVars
  <1>3. /\ task'[w][m] = t
        /\ \A v \in Workers, n \in Messages : v # w \/ n # m => task'[v][n] = task[v][n]
    BY <1>1 DEF IndInv, TypeOK
  <1>4. \A v \in Workers : Held(v)' = Held(v)
    BY HandleHeld DEF IndInv
  <1>5. m \in Held(w) /\ m \in Held(w)'
    BY <1>2, <1>4 DEF Held
  <1>6. StatusOf(m) = "running" /\ StatusOf(m)' = t
    BY <1>2, <1>3, <1>5, StatusFacts, StatusFactsNext
    DEF StatusDetermined, PlaceGivesStatus, IndInv
  <1>7. \A n \in Messages \ {m} : StatusOf(n)' = StatusOf(n)
    BY <1>2, <1>3, <1>4, StatusKept DEF IndInv
  <1>8. Closing' = Closing
    BY <1>2 DEF Closing
  <1>9. D!Move(m, "running", t)
    BY <1>6, <1>7, <1>8, MoveMaps
  <1> QED
    BY <1>9 DEF D!Next, D!Finish

(* Ack, Nack and a Nack into a full channel settle a finished message. *)
LEMMA SettleMaps ==
  ASSUME IndInv, IndInv', NEW w \in Workers, NEW m \in Messages, Settle(w, m)
  PROVE  D!Next
  <1>1. task[w][m] # "none" /\ Processed(w, m)
    BY DEF Settle, Ack, Nack, NackOverflow
  <1>2. /\ m \in Held(w)
        /\ Held(w)' = Held(w) \ {m}
        /\ \A v \in Workers : v # w => Held(v)' = Held(v)
        /\ batch' = batch
    BY <1>1, ProcessedHeld DEF IndInv
  <1>3. Closing' = Closing
    BY <1>1 DEF Processed, signalVars, Closing
  <1>4. \A v \in Workers, n \in Messages \ {m} : task'[v][n] = task[v][n]
    BY <1>1 DEF Processed, IndInv, TypeOK
  <1>5. StatusOf(m) = task[w][m]
    BY <1>2, StatusFacts DEF StatusDetermined, PlaceGivesStatus, IndInv
  <1>6. ASSUME NEW n \in Messages \ {m},
               n \in acked <=> n \in acked', n \in lost <=> n \in lost', unsent' = unsent
        PROVE  StatusOf(n)' = StatusOf(n)
    BY <1>2, <1>4, <1>6, StatusKept DEF IndInv
  <1>7. CASE Ack(w, m)
    <2>1. /\ task[w][m] = "succeeded"
          /\ acked' = acked \cup {m} /\ UNCHANGED <<unsent, queue, lost>>
      BY <1>7 DEF Ack
    <2>2. StatusOf(m)' = "acked"
      BY <2>1, StatusFactsNext DEF StatusDetermined, PlaceGivesStatus, IndInv
    <2>3. D!Ack(m)
      BY <1>3, <1>5, <1>6, <2>1, <2>2, MoveMaps DEF D!Ack
    <2> QED
      BY <2>3 DEF D!Next
  <1>8. CASE Nack(w, m)
    <2>1. /\ task[w][m] = "failed"
          /\ queue' = Append(queue, m) /\ UNCHANGED <<unsent, acked, lost>>
      BY <1>8 DEF Nack
    <2>2. m \in Range(queue')
      BY <2>1, AppendFacts DEF IndInv, TypeOK
    <2>3. StatusOf(m)' = "queued"
      BY <2>2, StatusFactsNext DEF StatusDetermined, PlaceGivesStatus, IndInv
    <2>4. D!Nack(m)
      BY <1>3, <1>5, <1>6, <2>1, <2>3, MoveMaps DEF D!Nack
    <2> QED
      BY <2>4 DEF D!Next
  <1>9. CASE NackOverflow(w, m)
    <2>1. /\ task[w][m] = "failed"
          /\ lost' = lost \cup {m} /\ UNCHANGED <<unsent, queue, acked>>
      BY <1>9 DEF NackOverflow
    <2>2. StatusOf(m)' = "lost"
      BY <2>1, StatusFactsNext DEF StatusDetermined, PlaceGivesStatus, IndInv
    <2>3. D!Overflow(m)
      BY <1>3, <1>5, <1>6, <2>1, <2>2, MoveMaps DEF D!Overflow
    <2> QED
      BY <2>3 DEF D!Next
  <1> QED
    BY <1>7, <1>8, <1>9 DEF Settle

(* Every step of the workers is a step of Delivery or a stutter. *)
LEMMA StepMaps == IndInv /\ IndInv' /\ [Next]_vars => [D!Next]_(D!vars)
  <1> SUFFICES ASSUME IndInv, IndInv', [Next]_vars PROVE D!Next \/ UNCHANGED D!vars
    OBVIOUS
  <1>1. CASE \/ UNCHANGED vars
             \/ \E w \in Workers, c \in Callers : StopReturn(w, c)
             \/ \E w \in Workers : ReleaseSlot(w) \/ WgDone(w)
             \/ \E w \in Workers, label \in PC : Goto(w, label)
    <2>1. UNCHANGED <<unsent, acked, lost, queue, batch, task, ctx, stop>>
      BY <1>1 DEF vars, StopReturn, ReleaseSlot, WgDone, Goto, workerVars, taskVars,
                  msgVars, signalVars
    <2>2. Closing' = Closing
      BY <2>1 DEF Closing
    <2> QED
      BY <2>1, <2>2, StillMessages, StutterMaps DEF IndInv
  <1>2. CASE \E m \in Messages : Publish(m)
    BY <1>2, PublishMaps
  <1>3. CASE \/ \E e \in CtxErr : Cancel(e)
             \/ \E w \in Workers, c \in Callers : Stop(w, c)
    BY <1>3, SignalMaps DEF D!Next
  <1>4. ASSUME NEW w \in Workers, LeaveCancelled(w) \/ LeaveStopped(w) \/ ConsumeFails(w)
        PROVE  D!Next \/ UNCHANGED D!vars
    BY <1>4, LeaveMaps DEF LeaveCancelled, LeaveStopped, ConsumeFails, Closing
  <1>5. \A w \in Workers :
          Start(w) \/ TopDefault(w) \/ PollTimer(w) \/ Done(w) \/ ConsumeReturns(w)
            => \E label \in PC : Goto(w, label)
    BY DEF Start, TopDefault, PollTimer, Done, ConsumeReturns, PC
  <1>6. ASSUME NEW w \in Workers, Loop(w) \/ ConsumeFails(w) \/ Start(w)
        PROVE  D!Next \/ UNCHANGED D!vars
    BY <1>1, <1>4, <1>5, <1>6, ReceiveMaps, DispatchMaps
    DEF Loop, TopCancelled, TopStopped, ConsumeCancelled, PollCancelled, PollStopped,
        DispatchCancelled, DispatchStopped
  <1>7. ASSUME NEW w \in Workers, Goroutine(w) PROVE D!Next \/ UNCHANGED D!vars
    BY <1>1, <1>7, HandleMaps, SettleMaps DEF Goroutine
  <1> QED
    BY <1>1, <1>2, <1>3, <1>6, <1>7 DEF Next, WorkerNext

(* The initial states map to the initial state of Delivery. *)
LEMMA InitMaps == Init => D!Init
  <1> SUFFICES ASSUME Init PROVE D!Init
    OBVIOUS
  <1>1. \A m \in Messages : StatusOf(m) = "unsent"
    BY DEF Init, StatusOf
  <1>2. Closing = FALSE
    BY DEF Init, Closing
  <1> QED
    BY <1>1, <1>2 DEF D!Init

(* The Go workers implement Delivery, for every number of workers and      *)
(* messages: a message is acked only after its handler succeeded, requeued *)
(* only after it failed, handled by one goroutine at a time, and abandoned *)
(* only by a worker that was told to shut down before its handler began.   *)
THEOREM Refinement == Spec => ImplementsDelivery
  <1> QED
    BY Invariance, InitMaps, StepMaps, PTL DEF Spec, D!Spec, ImplementsDelivery

-----------------------------------------------------------------------------
(* The second refinement: the workers keep Custody.                        *)

(* The set of the messages in the channel has room when the channel has.   *)
LEMMA RoomMaps ==
  ASSUME TypeOK, Conservation
  PROVE  HasRoom <=> Kept!HasRoom
  <1>1. Kept!Cardinality(Range(queue)) = Cardinality(Range(queue))
    BY DEF Kept!Cardinality, Cardinality
  <1>2. Cardinality(Range(queue)) = Len(queue)
    BY RangeCardinality DEF TypeOK, Conservation
  <1> QED
    BY <1>1, <1>2 DEF HasRoom, Kept!HasRoom

(* A step that changes the hands of no worker leaves custody as it is. *)
LEMMA CustodyKept ==
  ASSUME \A v \in Workers : InHands(v)' = InHands(v)
  PROVE  InCustody' = InCustody
  BY DEF InCustody

(* A worker that takes messages adds them to what is in custody. *)
LEMMA CustodyGrows ==
  ASSUME NEW w \in Workers, NEW S, InHands(w)' = InHands(w) \cup S,
         \A v \in Workers : v # w => InHands(v)' = InHands(v)
  PROVE  InCustody' = InCustody \cup S
  BY DEF InCustody

(* A worker that gives messages away takes them out of custody, for no     *)
(* other worker has them.                                                  *)
LEMMA CustodyShrinks ==
  ASSUME Conservation, NEW w \in Workers, NEW S \in SUBSET InHands(w),
         InHands(w)' = InHands(w) \ S,
         \A v \in Workers : v # w => InHands(v)' = InHands(v)
  PROVE  InCustody' = InCustody \ S /\ S \subseteq InCustody
  <1>1. \A v \in Workers : v # w => InHands(v) \cap S = {}
    BY DEF Conservation
  <1> QED
    BY <1>1 DEF InCustody

(* Steps that move no message and give no signal. *)
LEMMA CustodyStutters ==
  ASSUME UNCHANGED <<unsent, queue, acked, lost, ctx, stop>>, InCustody' = InCustody
  PROVE  UNCHANGED Kept!vars
  <1>1. Closing' = Closing
    BY DEF Closing
  <1> QED
    BY <1>1 DEF Kept!vars

(* Publish takes room in the queue. *)
LEMMA PublishInCustody ==
  ASSUME IndInv, NEW m \in Messages, Publish(m)
  PROVE  Kept!Publish(m)
  <1>1. Range(queue') = Range(queue) \cup {m}
    BY AppendFacts DEF Publish, IndInv, TypeOK
  <1>2. /\ m \in unsent /\ HasRoom /\ unsent' = unsent \ {m}
        /\ UNCHANGED <<acked, lost, batch, task, ctx, stop>>
    BY DEF Publish, workerVars, taskVars, signalVars
  <1>3. InCustody' = InCustody /\ Closing' = Closing
    BY <1>2 DEF InCustody, InHands, Held, Closing
  <1>4. Kept!HasRoom
    BY <1>2, RoomMaps DEF IndInv
  <1> QED
    BY <1>1, <1>2, <1>3, <1>4 DEF Kept!Publish

(* A signal closes. *)
LEMMA SignalInCustody ==
  ASSUME IndInv,
         \/ \E e \in CtxErr : Cancel(e)
         \/ \E w \in Workers, c \in Callers : Stop(w, c)
  PROVE  Kept!Close
  <1>1. UNCHANGED <<unsent, acked, lost, queue, batch, task>>
    BY DEF Cancel, Stop, workerVars, taskVars, msgVars
  <1>2. Closing' = TRUE
    <2>1. CASE \E e \in CtxErr : Cancel(e)
      BY <2>1 DEF Cancel, Closing
    <2>2. CASE \E w \in Workers, c \in Callers : Stop(w, c)
      BY <2>2 DEF Stop, Closing, IndInv, TypeOK
    <2> QED
      BY <2>1, <2>2
  <1>3. InCustody' = InCustody
    BY <1>1 DEF InCustody, InHands, Held
  <1> QED
    BY <1>1, <1>2, <1>3 DEF Kept!Close

(* Leaving the loop abandons the batch of w, after a signal. *)
LEMMA LeaveInCustody ==
  ASSUME IndInv, NEW w \in Workers, NEW e, Leave(w, e), Closing \/ batch[w] = <<>>
  PROVE  Kept!Next \/ UNCHANGED Kept!vars
  <1> DEFINE S == Range(batch[w])
  <1>1. /\ lost' = lost \cup S
        /\ UNCHANGED <<unsent, acked, queue, task, ctx, stop>>
    BY DEF Leave, taskVars, signalVars
  <1>2. /\ Range(batch'[w]) = {}
        /\ \A v \in Workers : v # w => batch'[v] = batch[v]
    BY EmptyFacts DEF Leave, IndInv, TypeOK
  <1>3. \A v \in Workers : Held(v)' = Held(v)
    BY <1>1 DEF Held
  <1>4. S \cap Held(w) = {} /\ S \subseteq InHands(w) /\ S \subseteq Messages
    BY DEF IndInv, Conservation, TypeOK, InHands, Range
  <1> HIDE DEF S
  <1>5. InHands(w)' = InHands(w) \ S
    BY <1>2, <1>3, <1>4 DEF InHands, S
  <1>6. \A v \in Workers : v # w => InHands(v)' = InHands(v)
    BY <1>2, <1>3 DEF InHands
  <1>7. InCustody' = InCustody \ S /\ S \subseteq InCustody
    BY <1>4, <1>5, <1>6, CustodyShrinks DEF IndInv
  <1>8. Closing' = Closing
    BY <1>1 DEF Closing
  <1>9. CASE Closing
    <2>1. Kept!Abandon(S)
      BY <1>1, <1>7, <1>8, <1>9 DEF Kept!Abandon, Kept!Lose
    <2> QED
      BY <1>4, <2>1 DEF Kept!Next
  <1>10. CASE batch[w] = <<>>
    <2>1. S = {}
      BY <1>10, EmptyFacts DEF S
    <2>2. lost' = lost /\ InCustody' = InCustody
      BY <1>1, <1>7, <2>1
    <2> QED
      BY <1>1, <2>2, CustodyStutters
  <1> QED
    BY <1>9, <1>10

(* A receive takes the head of the channel. *)
LEMMA ReceiveInCustody ==
  ASSUME IndInv, NEW w \in Workers, ConsumeReceive(w)
  PROVE  Kept!Next
  <1>1. PICK m \in Messages :
          /\ m = Head(queue)
          /\ Range(queue) = Range(queue') \cup {m} /\ m \notin Range(queue')
    BY TailFacts DEF ConsumeReceive, IndInv, TypeOK, Conservation
  <1>2. UNCHANGED <<unsent, acked, lost, task, ctx, stop>>
    BY DEF ConsumeReceive, taskVars, signalVars
  <1>3. batch'[w] = Append(batch[w], m) /\ batch[w] \in Seq(Messages)
    BY <1>1 DEF ConsumeReceive, IndInv, TypeOK
  <1>4. \A v \in Workers : v # w => InHands(v)' = InHands(v)
    BY <1>2 DEF ConsumeReceive, IndInv, TypeOK, InHands, Held
  <1>5. Range(batch'[w]) = Range(batch[w]) \cup {m}
    BY <1>1, <1>3, AppendFacts
  <1>6. InHands(w)' = InHands(w) \cup {m}
    BY <1>2, <1>5 DEF InHands, Held
  <1>7. InCustody' = InCustody \cup {m} /\ Closing' = Closing
    BY <1>2, <1>4, <1>6, CustodyGrows DEF Closing
  <1>8. Range(queue') = Range(queue) \ {m} /\ {m} \subseteq Range(queue)
    BY <1>1
  <1>9. Kept!Take({m})
    BY <1>2, <1>7, <1>8 DEF Kept!Take
  <1> QED
    BY <1>1, <1>9 DEF Kept!Next

(* A dispatch moves a message within the hands of w. *)
LEMMA DispatchInCustody ==
  ASSUME IndInv, NEW w \in Workers, Dispatch(w)
  PROVE  UNCHANGED Kept!vars
  <1>1. batch[w] \in Seq(Messages) /\ batch[w] # <<>>
    BY DEF Dispatch, IndInv, Shape, ShapeOf, TypeOK
  <1>2. Range(batch[w]) = Range(batch'[w]) \cup {Head(batch[w])}
    BY <1>1, TailFacts DEF Dispatch, Spawn, IndInv, TypeOK
  <1>3. UNCHANGED <<unsent, queue, acked, lost, ctx, stop>>
    BY DEF Dispatch, Spawn, msgVars, signalVars
  <1>4. /\ Held(w)' = Held(w) \cup {Head(batch[w])}
        /\ \A v \in Workers : v # w => Held(v)' = Held(v)
    BY DispatchConserves DEF IndInv
  <1>5. \A v \in Workers : v # w => batch'[v] = batch[v]
    BY DEF Dispatch, Spawn, IndInv, TypeOK
  <1>6. \A v \in Workers : InHands(v)' = InHands(v)
    BY <1>2, <1>4, <1>5 DEF InHands
  <1> QED
    BY <1>3, <1>6, CustodyKept, CustodyStutters

(* Ack settles, Nack gives back, and loses only when the channel is full.  *)
LEMMA SettleInCustody ==
  ASSUME IndInv, NEW w \in Workers, NEW m \in Messages, Settle(w, m)
  PROVE  Kept!Settle(m) \/ Kept!GiveBack(m) \/ Kept!Overflow(m)
  <1>1. task[w][m] # "none" /\ Processed(w, m)
    BY DEF Settle, Ack, Nack, NackOverflow
  <1>2. /\ m \in Held(w)
        /\ Held(w)' = Held(w) \ {m}
        /\ \A v \in Workers : v # w => Held(v)' = Held(v)
        /\ batch' = batch
    BY <1>1, ProcessedHeld DEF IndInv
  <1>3. m \in InHands(w) /\ InHands(w)' = InHands(w) \ {m}
    BY <1>2 DEF InHands, IndInv, Conservation
  <1>4. \A v \in Workers : v # w => InHands(v)' = InHands(v)
    BY <1>2 DEF InHands
  <1>5. InCustody' = InCustody \ {m} /\ {m} \subseteq InCustody
    <2>1. {m} \in SUBSET InHands(w)
      BY <1>3
    <2> QED
      BY <1>3, <1>4, <2>1, CustodyShrinks DEF IndInv
  <1>6. Closing' = Closing
    BY <1>1 DEF Processed, signalVars, Closing
  <1>7. HasRoom <=> Kept!HasRoom
    BY RoomMaps DEF IndInv
  <1>8. CASE Ack(w, m)
    BY <1>5, <1>6, <1>8 DEF Ack, Kept!Settle
  <1>9. CASE Nack(w, m)
    <2>1. queue' = Append(queue, m) /\ HasRoom /\ UNCHANGED <<unsent, acked, lost>>
      BY <1>9 DEF Nack
    <2>2. Range(queue') = Range(queue) \cup {m}
      BY <2>1, AppendFacts DEF IndInv, TypeOK
    <2> QED
      BY <1>5, <1>6, <1>7, <2>1, <2>2 DEF Kept!GiveBack
  <1>10. CASE NackOverflow(w, m)
    BY <1>5, <1>6, <1>7, <1>10 DEF NackOverflow, Kept!Overflow, Kept!Lose
  <1> QED
    BY <1>8, <1>9, <1>10 DEF Settle

(* Every step of the workers is a step of Custody or a stutter. *)
LEMMA StepInCustody == IndInv /\ [Next]_vars => [Kept!Next]_(Kept!vars)
  <1> SUFFICES ASSUME IndInv, [Next]_vars PROVE Kept!Next \/ UNCHANGED Kept!vars
    OBVIOUS
  <1>1. CASE \/ UNCHANGED vars
             \/ \E w \in Workers, c \in Callers : StopReturn(w, c)
             \/ \E w \in Workers : ReleaseSlot(w) \/ WgDone(w)
             \/ \E w \in Workers, label \in PC : Goto(w, label)
    <2>1. UNCHANGED <<unsent, acked, lost, queue, batch, task, ctx, stop>>
      BY <1>1 DEF vars, StopReturn, ReleaseSlot, WgDone, Goto, workerVars, taskVars,
                  msgVars, signalVars
    <2>2. InCustody' = InCustody
      BY <2>1 DEF InCustody, InHands, Held
    <2> QED
      BY <2>1, <2>2, CustodyStutters
  <1>2. CASE \E m \in Messages : Publish(m)
    BY <1>2, PublishInCustody DEF Kept!Next
  <1>3. CASE \/ \E e \in CtxErr : Cancel(e)
             \/ \E w \in Workers, c \in Callers : Stop(w, c)
    BY <1>3, SignalInCustody DEF Kept!Next
  <1>4. ASSUME NEW w \in Workers, LeaveCancelled(w) \/ LeaveStopped(w) \/ ConsumeFails(w)
        PROVE  Kept!Next \/ UNCHANGED Kept!vars
    BY <1>4, LeaveInCustody DEF LeaveCancelled, LeaveStopped, ConsumeFails, Closing
  <1>5. \A w \in Workers :
          Start(w) \/ TopDefault(w) \/ PollTimer(w) \/ Done(w) \/ ConsumeReturns(w)
            => \E label \in PC : Goto(w, label)
    BY DEF Start, TopDefault, PollTimer, Done, ConsumeReturns, PC
  <1>6. ASSUME NEW w \in Workers, Loop(w) \/ ConsumeFails(w) \/ Start(w)
        PROVE  Kept!Next \/ UNCHANGED Kept!vars
    BY <1>1, <1>4, <1>5, <1>6, ReceiveInCustody, DispatchInCustody
    DEF Loop, TopCancelled, TopStopped, ConsumeCancelled, PollCancelled, PollStopped,
        DispatchCancelled, DispatchStopped
  <1>7. ASSUME NEW w \in Workers, NEW m \in Messages, HandleOk(w, m) \/ HandleErr(w, m)
        PROVE  UNCHANGED Kept!vars
    <2>1. UNCHANGED <<unsent, acked, lost, queue, batch, ctx, stop>>
      BY <1>7 DEF HandleOk, HandleErr, workerVars, msgVars, signalVars
    <2>2. \A v \in Workers : InHands(v)' = InHands(v)
      BY <1>7, <2>1, HandleHeld DEF IndInv, InHands
    <2> QED
      BY <2>1, <2>2, CustodyKept, CustodyStutters
  <1>8. ASSUME NEW w \in Workers, Goroutine(w) PROVE Kept!Next \/ UNCHANGED Kept!vars
    BY <1>1, <1>7, <1>8, SettleInCustody DEF Goroutine, Kept!Next
  <1> QED
    BY <1>1, <1>2, <1>3, <1>6, <1>8 DEF Next, WorkerNext

(* At the start every message is with its producer. *)
LEMMA InitInCustody == Init => Kept!Init
  <1> SUFFICES ASSUME Init PROVE Kept!Init
    OBVIOUS
  <1>1. \A w \in Workers : InHands(w) = {}
    BY EmptyFacts DEF Init, InHands, Held
  <1>2. InCustody = {} /\ Closing = FALSE
    BY <1>1 DEF InCustody, Init, Closing
  <1> QED
    BY <1>2, EmptyFacts DEF Init, Kept!Init

(* The Go workers keep Custody: whatever the interleaving of consumes,     *)
(* handlers, requeues and shutdowns, a message that a worker has taken     *)
(* from the channel is acked, given back to a channel with room, lost to   *)
(* a full channel, or abandoned after a signal, once and by that worker.   *)
THEOREM KeepsCustody == Spec => ImplementsCustody
  <1> QED
    BY Invariance, InitInCustody, StepInCustody, PTL DEF Spec, Kept!Spec, ImplementsCustody
=============================================================================
