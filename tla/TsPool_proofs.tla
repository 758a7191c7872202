---------------------------- MODULE TsPool_proofs ----------------------------
(***************************************************************************)
(* Proofs about TsWorker and TsPool, for any number of workers, callers of *)
(* stop and messages, and any positive batch size, concurrency and buffer  *)
(* size.                                                                   *)
(***************************************************************************)
EXTENDS TsPool, SequenceFacts, FiniteSetTheorems

-----------------------------------------------------------------------------
(* The size of the pool.                                                   *)

(* The pool of a worker is finite, and empty when its size is 0. *)
LEMMA SizeFacts ==
  ASSUME TypeOK, NEW w \in Workers
  PROVE  /\ IsFiniteSet(active[w]) /\ active[w] \subseteq Messages
         /\ Cardinality(active[w]) \in Nat /\ settled[w] \in Nat
         /\ size(w) \in Nat
         /\ size(w) = 0 <=> active[w] = {} /\ settled[w] = 0
  <1>1. active[w] \subseteq Messages /\ settled[w] \in Nat
    BY DEF TypeOK
  <1>2. IsFiniteSet(active[w]) /\ Cardinality(active[w]) \in Nat
    BY <1>1, MessagesAssumption, FS_Subset, FS_CardinalityType
  <1>3. Cardinality(active[w]) = 0 <=> active[w] = {}
    BY <1>2, FS_EmptySet
  <1> QED
    BY <1>1, <1>2, <1>3 DEF size

(* A step that leaves the promises of a worker alone keeps its size. *)
LEMMA SizeKept ==
  ASSUME NEW w \in Workers, active'[w] = active[w], settled'[w] = settled[w]
  PROVE  size(w)' = size(w)
  BY DEF size

-----------------------------------------------------------------------------
(* The steps of the loop by what they do.                                  *)

(* The loop goes to another place and touches neither items nor promises;  *)
(* it may set the waiter.                                                  *)
Move(w, label) ==
  /\ pc' = [pc EXCEPT ![w] = label]
  /\ label \in {"top", "slot", "slotWait", "race", "delay", "item", "itemWait", "drain",
                "drainWait", "done"}
  /\ turn' \in {w, Nobody}
  /\ outcome' \in [Workers -> {"ok", "cancelled", "adapter"}]
  /\ waiter' \in [Workers -> BOOLEAN]
  /\ \A v \in Workers : v # w => waiter'[v] = waiter[v]
  /\ label \in {"item", "itemWait"} <=> batch[w] # <<>>
  /\ label = "done" => size(w) = 0
  /\ label \in {"slotWait", "itemWait", "drainWait"} => size(w) > 0
  /\ (stop[w] /\ pc[w] \in {"idle", "top", "drain", "done"} /\ size(w) = 0)
       => label \in {"top", "drain", "done"}
  /\ UNCHANGED <<batch, active, settled, msgVars, signalVars>>

(* Every step of the loop is one of these, a consume, the end of the items *)
(* or the add of one.                                                      *)
LEMMA LoopSteps ==
  ASSUME TypeOK, NEW w \in Workers, ShapeOf(w), Start(w) \/ Loop(w) \/ ConsumeFails(w)
  PROVE  (\E label : Move(w, label)) \/ SlotConsume(w) \/ ItemBreak(w) \/ ItemAdd(w)
  <1>0. /\ batch[w] # <<>> => pc[w] \in {"consume", "item", "itemWait"}
        /\ pc[w] \in {"item", "itemWait"} => batch[w] # <<>>
        /\ waiter \in [Workers -> BOOLEAN]
        /\ outcome \in [Workers -> {"ok", "cancelled", "adapter"}]
    BY DEF ShapeOf, TypeOK
  <1>1. Full(w) => size(w) > 0
    BY SizeFacts, LimitsAssumption DEF Full
  <1>2. ASSUME NEW result \in {"ok", "cancelled", "adapter"}, Exit(w, result), batch[w] = <<>>
        PROVE  Move(w, "drain")
    BY <1>0, <1>2 DEF Exit, Goto, Move, poolVars
  <1>3. ASSUME NEW label \in {"slotWait", "itemWait", "drainWait", "race"},
               waitForOne(w, label), size(w) > 0, label = "itemWait" <=> batch[w] # <<>>
        PROVE  Move(w, label)
    <2>1. size(w) # 0
      BY <1>3, SizeFacts
    <2>2. waiter' = [waiter EXCEPT ![w] = TRUE]
      BY <1>3, <2>1 DEF waitForOne
    <2>3. waiter' \in [Workers -> BOOLEAN] /\ \A v \in Workers : v # w => waiter'[v] = waiter[v]
      BY <1>0, <2>2
    <2>4. Await(w, label) /\ UNCHANGED <<batch, outcome, active, settled, msgVars, signalVars>>
      BY <1>3 DEF waitForOne
    <2> QED
      BY <1>0, <1>3, <2>1, <2>3, <2>4 DEF Await, Move
  <1>4. TopStopping(w) \/ SlotStopped(w) \/ SlotAborted(w) \/ ConsumeFails(w) \/ DelayAborted(w)
          => Move(w, "drain")
    BY <1>0, <1>2
    DEF TopStopping, SlotStopped, SlotAborted, ConsumeFails, DelayAborted, At
  <1>5. SlotWait(w) => Move(w, "slotWait")
    BY <1>0, <1>1, <1>3 DEF SlotWait, At
  <1>6. ItemWait(w) => Move(w, "itemWait")
    BY <1>0, <1>1, <1>3 DEF ItemWait, At
  <1>7. DrainWait(w) => Move(w, "drainWait")
    BY <1>0, <1>3 DEF DrainWait, At
  <1>8. ConsumeEmpty(w) => Move(w, "race") \/ Move(w, "delay")
    <2>1. ASSUME ConsumeEmpty(w), size(w) > 0, waitForOne(w, "race") PROVE Move(w, "race")
      BY <1>0, <1>3, <2>1 DEF ConsumeEmpty
    <2>2. ASSUME ConsumeEmpty(w), Await(w, "delay"),
                 UNCHANGED <<batch, outcome, msgVars, poolVars, signalVars>>
          PROVE  Move(w, "delay")
      BY <1>0, <2>2 DEF ConsumeEmpty, Await, Move, poolVars
    <2> QED
      BY <2>1, <2>2 DEF ConsumeEmpty
  <1>9. ASSUME NEW label \in {"top", "slot", "item", "drain"}, Goto(w, label),
               UNCHANGED <<batch, outcome, msgVars, poolVars, signalVars>>,
               label = "item" <=> batch[w] # <<>>,
               stop[w] /\ pc[w] \in {"idle", "top", "drain", "done"} => label = "top"
        PROVE  Move(w, label)
    BY <1>0, <1>9 DEF Goto, Move, poolVars
  <1>10. Start(w) \/ RaceEnds(w) \/ DelayEnds(w) => Move(w, "top")
    BY <1>0, <1>9 DEF Start, RaceEnds, DelayEnds
  <1>11. Top(w) => Move(w, "slot")
    BY <1>0, <1>9 DEF Top, At, isStopping
  <1>12. ConsumeItems(w) => Move(w, "item")
    BY <1>0, <1>9 DEF ConsumeItems
  <1>13. Wakes(w) => Move(w, "slot") \/ Move(w, "item") \/ Move(w, "drain")
    BY <1>0, <1>9 DEF Wakes
  <1>14. DrainEnds(w) => Move(w, "done")
    BY <1>0 DEF DrainEnds, At, Await, Move, poolVars
  <1> QED
    BY <1>4, <1>5, <1>6, <1>7, <1>8, <1>10, <1>11, <1>12, <1>13, <1>14 DEF Loop

(* The steps of Next, sorted. *)
LEMMA NextSteps ==
  ASSUME TypeOK, Shape, Next
  PROVE  \/ \E m \in Messages : Publish(m)
         \/ Abort
         \/ \E w \in Workers :
              \/ (\E label : Move(w, label)) \/ SlotConsume(w) \/ ItemBreak(w) \/ ItemAdd(w)
              \/ Ended(w)
              \/ \E m \in Messages : Ack(w, m) \/ Nack(w, m)
              \/ \E c \in Callers : StopCall(w, c) \/ StopReturn(w, c)
  BY LoopSteps DEF Next, processMessage, Shape

-----------------------------------------------------------------------------
(* What the other steps do to the items and the pool.                      *)

(* The cut that consume makes in the queue. *)
LEMMA ConsumeFacts ==
  ASSUME TypeOK, NEW w \in Workers, SlotConsume(w)
  PROVE  /\ queue' \in Seq(Messages) /\ batch'[w] \in Seq(Messages)
         /\ batch' = [batch EXCEPT ![w] = batch'[w]]
         /\ Range(queue) = Range(batch'[w]) \cup Range(queue')
         /\ IsInjective(queue) => /\ IsInjective(queue') /\ IsInjective(batch'[w])
                                  /\ Range(batch'[w]) \cap Range(queue') = {}
  <1> DEFINE n == IF Len(queue) < MaxBatch THEN Len(queue) ELSE MaxBatch
  <1>1. queue \in Seq(Messages) /\ Len(queue) \in Nat /\ MaxBatch \in Nat \ {0}
    BY LimitsAssumption DEF TypeOK
  <1>2. n \in 0 .. Len(queue)
    BY <1>1
  <1>3. /\ batch'[w] = SubSeq(queue, 1, n)
        /\ batch' = [batch EXCEPT ![w] = batch'[w]]
        /\ queue' = SubSeq(queue, n + 1, Len(queue))
    BY DEF SlotConsume, TypeOK
  <1> HIDE DEF n
  <1> QED
    BY <1>1, <1>2, <1>3, CutFacts

(* add moves the head of the items to the pool. *)
LEMMA AddFacts ==
  ASSUME IndInv, NEW w \in Workers, ItemAdd(w)
  PROVE  /\ Head(batch[w]) \in Messages
         /\ Head(batch[w]) \notin active[w]
         /\ active' = [active EXCEPT ![w] = active[w] \cup {Head(batch[w])}]
         /\ size(w)' = size(w) + 1
         /\ batch'[w] \in Seq(Messages)
         /\ batch' = [batch EXCEPT ![w] = batch'[w]]
         /\ Range(batch[w]) = Range(batch'[w]) \cup {Head(batch[w])}
         /\ IsInjective(batch'[w]) /\ Head(batch[w]) \notin Range(batch'[w])
         /\ batch'[w] = <<>> <=> Len(batch[w]) = 1
  <1> DEFINE m == Head(batch[w])
  <1>0. TypeOK /\ ShapeOf(w) /\ Conservation
    BY DEF IndInv, Shape
  <1>1. /\ batch[w] \in Seq(Messages) /\ batch[w] # <<>> /\ batch'[w] = Tail(batch[w])
        /\ batch' = [batch EXCEPT ![w] = batch'[w]]
        /\ active' = [active EXCEPT ![w] = active[w] \cup {m}]
        /\ settled' = settled
    BY <1>0 DEF ItemAdd, At, ShapeOf, TypeOK
  <1>2. /\ m \in Messages
        /\ batch'[w] \in Seq(Messages)
        /\ Range(batch[w]) = Range(batch'[w]) \cup {m}
        /\ IsInjective(batch'[w]) /\ m \notin Range(batch'[w])
        /\ batch'[w] = <<>> <=> Len(batch[w]) = 1
    BY <1>0, <1>1, TailFacts, TailLength DEF Conservation
  <1>3. m \notin active[w]
    BY <1>0, <1>2 DEF Conservation
  <1> HIDE DEF m
  <1>4. Cardinality(active[w] \cup {m}) = Cardinality(active[w]) + 1
    BY <1>0, <1>3, SizeFacts, FS_AddElement
  <1>5. active'[w] = active[w] \cup {m}
    BY <1>0, <1>1 DEF TypeOK
  <1>6. Cardinality(active[w]) \in Nat /\ settled[w] \in Nat /\ settled'[w] = settled[w]
    BY <1>0, <1>1, SizeFacts
  <1>7. size(w)' = size(w) + 1
    BY <1>4, <1>5, <1>6 DEF size
  <1> QED
    BY <1>1, <1>2, <1>3, <1>7 DEF m

(* A promise that settles stays in the pool. *)
LEMMA SettleFacts ==
  ASSUME TypeOK, NEW w \in Workers, NEW m \in Messages, Ack(w, m) \/ Nack(w, m)
  PROVE  /\ m \in active[w]
         /\ active' = [active EXCEPT ![w] = active[w] \ {m}]
         /\ settled' \in [Workers -> Nat]
         /\ \A v \in Workers : size(v)' = size(v)
         /\ UNCHANGED <<waiter, unsent, loopVars, signalVars>>
  <1>1. /\ m \in active[w]
        /\ active' = [active EXCEPT ![w] = active[w] \ {m}]
        /\ settled' = [settled EXCEPT ![w] = settled[w] + 1]
        /\ UNCHANGED <<waiter, unsent, loopVars, signalVars>>
    BY DEF Ack, Nack, Settled
  <1>2. settled' \in [Workers -> Nat]
    BY <1>1, SizeFacts DEF TypeOK
  <1>3. Cardinality(active[w] \ {m}) = Cardinality(active[w]) - 1
    BY <1>1, SizeFacts, FS_RemoveElement
  <1>4. active'[w] = active[w] \ {m} /\ settled'[w] = settled[w] + 1
    BY <1>1 DEF TypeOK
  <1>5. size(w)' = size(w)
    BY <1>3, <1>4, SizeFacts DEF size
  <1>6. ASSUME NEW v \in Workers, v # w PROVE size(v)' = size(v)
    BY <1>1, <1>6, SizeKept DEF TypeOK
  <1> QED
    BY <1>1, <1>2, <1>5, <1>6

(* A promise that leaves the pool. *)
LEMMA EndedFacts ==
  ASSUME TypeOK, NEW w \in Workers, Ended(w)
  PROVE  /\ settled' \in [Workers -> Nat]
         /\ size(w)' = size(w) - 1 /\ size(w) > 0
         /\ waiter' \in [Workers -> BOOLEAN] /\ ~waiter'[w]
         /\ \A v \in Workers : v # w => size(v)' = size(v) /\ waiter'[v] = waiter[v]
         /\ UNCHANGED <<active, msgVars, loopVars, signalVars>>
  <1>1. /\ settled[w] \in Nat /\ settled[w] > 0
        /\ settled' = [settled EXCEPT ![w] = settled[w] - 1]
        /\ waiter' = [waiter EXCEPT ![w] = FALSE]
        /\ UNCHANGED <<active, msgVars, loopVars, signalVars>>
    BY SizeFacts DEF Ended
  <1>2. settled' \in [Workers -> Nat]
    BY <1>1 DEF TypeOK
  <1>3. settled'[w] = settled[w] - 1 /\ active'[w] = active[w]
    BY <1>1 DEF TypeOK
  <1>4. size(w)' = size(w) - 1 /\ size(w) > 0
    BY <1>1, <1>3, SizeFacts DEF size
  <1>5. ASSUME NEW v \in Workers, v # w PROVE size(v)' = size(v) /\ waiter'[v] = waiter[v]
    BY <1>1, <1>5, SizeKept DEF TypeOK
  <1>6. waiter' \in [Workers -> BOOLEAN] /\ ~waiter'[w]
    BY <1>1 DEF TypeOK
  <1> QED
    BY <1>1, <1>2, <1>4, <1>5, <1>6

-----------------------------------------------------------------------------
(* Types.                                                                  *)

(* TypeOK is preserved by every step from a state of the invariant. *)
LEMMA TypeStep == IndInv /\ [Next]_vars => TypeOK'
  <1> SUFFICES ASSUME IndInv, [Next]_vars PROVE TypeOK'
    OBVIOUS
  <1>0. TypeOK /\ Shape
    BY DEF IndInv
  <1>1. CASE UNCHANGED vars
    BY <1>0, <1>1 DEF TypeOK, vars, msgVars, loopVars, poolVars, signalVars
  <1>2. ASSUME NEW m \in Messages, Publish(m) PROVE TypeOK'
    BY <1>0, <1>2 DEF TypeOK, Publish, loopVars, poolVars, signalVars
  <1>3. CASE Abort
    BY <1>0, <1>3 DEF TypeOK, Abort, msgVars, loopVars, poolVars
  <1>4. ASSUME NEW w \in Workers, NEW label, Move(w, label) PROVE TypeOK'
    BY <1>0, <1>4 DEF TypeOK, Move, msgVars, signalVars
  <1>5. ASSUME NEW w \in Workers, SlotConsume(w) PROVE TypeOK'
    <2>1. queue' \in Seq(Messages) /\ batch' \in [Workers -> Seq(Messages)]
      BY <1>0, <1>5, ConsumeFacts DEF TypeOK
    <2>2. /\ pc' = [pc EXCEPT ![w] = "consume"] /\ turn' = Nobody
          /\ UNCHANGED <<outcome, unsent, acked, lost, poolVars, signalVars>>
      BY <1>5 DEF SlotConsume, Await
    <2> QED
      BY <1>0, <2>1, <2>2 DEF TypeOK, poolVars, signalVars
  <1>6. ASSUME NEW w \in Workers, ItemBreak(w) PROVE TypeOK'
    <2>1. Range(batch[w]) \subseteq Messages
      BY <1>0, RangeEmpty DEF TypeOK
    <2>2. batch' \in [Workers -> Seq(Messages)]
      BY <1>0, <1>6 DEF TypeOK, ItemBreak
    <2> QED
      BY <1>0, <1>6, <2>1, <2>2 DEF TypeOK, ItemBreak, Goto, poolVars, signalVars
  <1>7. ASSUME NEW w \in Workers, ItemAdd(w) PROVE TypeOK'
    <2>1. batch' \in [Workers -> Seq(Messages)]
      BY <1>0, <1>7, AddFacts DEF TypeOK
    <2>2. active' \in [Workers -> SUBSET Messages]
      <3>1. /\ active \in [Workers -> SUBSET Messages]
            /\ active[w] \cup {Head(batch[w])} \in SUBSET Messages
        BY <1>0, <1>7, AddFacts DEF TypeOK
      <3>2. active' = [active EXCEPT ![w] = active[w] \cup {Head(batch[w])}]
        BY <1>7, AddFacts
      <3> QED
        BY <3>1, <3>2
    <2>3. /\ turn' = w
          /\ pc' = [pc EXCEPT ![w] = IF Len(batch[w]) = 1 THEN "top" ELSE "item"]
          /\ UNCHANGED <<outcome, settled, waiter, msgVars, signalVars>>
      BY <1>7 DEF ItemAdd, Goto
    <2> QED
      BY <1>0, <2>1, <2>2, <2>3 DEF TypeOK, msgVars, signalVars
  <1>8. ASSUME NEW w \in Workers, Ended(w) PROVE TypeOK'
    BY <1>0, <1>8, EndedFacts DEF TypeOK, msgVars, loopVars, signalVars
  <1>9. ASSUME NEW w \in Workers, NEW m \in Messages, Ack(w, m) \/ Nack(w, m) PROVE TypeOK'
    <2>1. queue \in Seq(Messages) /\ Append(queue, m) \in Seq(Messages)
      BY <1>0 DEF TypeOK
    <2>2. queue' \in Seq(Messages) /\ lost' \subseteq Messages /\ acked' \subseteq Messages
      BY <1>0, <1>9, <2>1 DEF TypeOK, Ack, Nack
    <2>3. active' \in [Workers -> SUBSET Messages]
      <3>1. /\ active \in [Workers -> SUBSET Messages]
            /\ active[w] \ {m} \in SUBSET Messages
        BY <1>0 DEF TypeOK
      <3>2. active' = [active EXCEPT ![w] = active[w] \ {m}]
        BY <1>0, <1>9, SettleFacts
      <3> QED
        BY <3>1, <3>2
    <2> QED
      BY <1>0, <1>9, <2>2, <2>3, SettleFacts DEF TypeOK, loopVars, signalVars
  <1>10. ASSUME NEW w \in Workers, NEW c \in Callers, StopCall(w, c) \/ StopReturn(w, c)
         PROVE  TypeOK'
    <2>1. CASE StopCall(w, c)
      BY <1>0, <2>1 DEF TypeOK, StopCall, msgVars, loopVars, poolVars
    <2>2. CASE StopReturn(w, c)
      BY <1>0, <2>2 DEF TypeOK, StopReturn, msgVars, loopVars, poolVars
    <2> QED
      BY <1>10, <2>1, <2>2
  <1> QED
    BY <1>0, <1>1, <1>2, <1>3, <1>4, <1>5, <1>6, <1>7, <1>8, <1>9, <1>10, NextSteps

-----------------------------------------------------------------------------
(* The place of the loop, its items and its pool.                          *)

(* A worker that a step leaves alone keeps its shape. *)
LEMMA ShapeKept ==
  ASSUME NEW v \in Workers, ShapeOf(v), size(v)' = size(v), batch'[v] = batch[v],
         pc'[v] = pc[v], waiter'[v] = waiter[v], stop'[v] = stop[v], call'[v] = call[v]
  PROVE  ShapeOf(v)'
  BY DEF ShapeOf

(* Shape is preserved by every step from a state of the invariant. *)
LEMMA ShapeStep == IndInv /\ [Next]_vars => Shape'
  <1> SUFFICES ASSUME IndInv, [Next]_vars, NEW v \in Workers PROVE ShapeOf(v)'
    BY DEF Shape
  <1>0. TypeOK /\ Shape /\ ShapeOf(v)
    BY DEF IndInv, Shape
  <1>1. CASE UNCHANGED <<pc, batch, active, settled, waiter, stop, call>>
    BY <1>0, <1>1, ShapeKept, SizeKept
  <1>2. ASSUME NEW w \in Workers, NEW label, Move(w, label) PROVE ShapeOf(v)'
    <2>1. UNCHANGED <<batch, active, settled, stop, call>> /\ size(v)' = size(v)
      BY <1>2, SizeKept DEF Move, signalVars
    <2>2. pc'[v] = IF v = w THEN label ELSE pc[v]
      BY <1>0, <1>2 DEF Move, TypeOK
    <2>3. CASE v # w
      BY <1>0, <1>2, <2>1, <2>2, <2>3, ShapeKept DEF Move
    <2>4. CASE v = w
      BY <1>0, <1>2, <2>1, <2>2, <2>4 DEF ShapeOf, Move
    <2> QED
      BY <2>3, <2>4
  <1>3. ASSUME NEW w \in Workers, SlotConsume(w) PROVE ShapeOf(v)'
    <2>1. /\ UNCHANGED <<active, settled, waiter, stop, call>> /\ size(v)' = size(v)
          /\ pc[w] = "slot" /\ ~stop[w]
      BY <1>3, SizeKept DEF SlotConsume, At, isStopping, poolVars, signalVars
    <2>2. pc'[v] = IF v = w THEN "consume" ELSE pc[v]
      BY <1>0, <1>3 DEF SlotConsume, Await, TypeOK
    <2>3. v # w => batch'[v] = batch[v]
      BY <1>0, <1>3, ConsumeFacts DEF TypeOK
    <2> QED
      BY <1>0, <2>1, <2>2, <2>3 DEF ShapeOf
  <1>4. ASSUME NEW w \in Workers, ItemBreak(w) PROVE ShapeOf(v)'
    <2>1. /\ UNCHANGED <<active, settled, waiter, stop, call>> /\ size(v)' = size(v)
          /\ pc[w] = "item"
      BY <1>4, SizeKept DEF ItemBreak, At, poolVars, signalVars
    <2>2. /\ pc'[v] = IF v = w THEN "top" ELSE pc[v]
          /\ batch'[v] = IF v = w THEN <<>> ELSE batch[v]
      BY <1>0, <1>4 DEF ItemBreak, Goto, TypeOK
    <2> QED
      BY <1>0, <2>1, <2>2 DEF ShapeOf
  <1>5. ASSUME NEW w \in Workers, ItemAdd(w) PROVE ShapeOf(v)'
    <2>1. UNCHANGED <<settled, waiter, stop, call>> /\ ~stop[w] /\ pc[w] = "item"
      BY <1>5 DEF ItemAdd, At, isStopping, signalVars
    <2>2. pc'[v] = IF v = w THEN IF Len(batch[w]) = 1 THEN "top" ELSE "item" ELSE pc[v]
      BY <1>0, <1>5 DEF ItemAdd, Goto, TypeOK
    <2>3. CASE v # w
      <3>1. batch'[v] = batch[v] /\ active'[v] = active[v]
        BY <1>0, <1>5, <2>3, AddFacts DEF TypeOK
      <3> QED
        BY <1>0, <2>1, <2>2, <2>3, <3>1, ShapeKept, SizeKept
    <2>4. CASE v = w
      <3>1. batch'[w] = <<>> <=> Len(batch[w]) = 1
        BY <1>5, AddFacts
      <3> QED
        BY <1>0, <2>1, <2>2, <2>4, <3>1 DEF ShapeOf
    <2> QED
      BY <2>3, <2>4
  <1>6. ASSUME NEW w \in Workers, NEW m \in Messages, Ack(w, m) \/ Nack(w, m)
        PROVE  ShapeOf(v)'
    BY <1>0, <1>6, SettleFacts, ShapeKept DEF loopVars, signalVars
  <1>7. ASSUME NEW w \in Workers, Ended(w) PROVE ShapeOf(v)'
    <2>1. UNCHANGED <<pc, batch, stop, call>>
      BY <1>0, <1>7, EndedFacts DEF loopVars, signalVars
    <2>2. CASE v # w
      BY <1>0, <1>7, <2>1, <2>2, EndedFacts, ShapeKept
    <2>3. CASE v = w
      <3>1. size(w) \in Nat /\ size(w) > 0 /\ ~waiter'[w]
        BY <1>0, <1>7, EndedFacts, SizeFacts
      <3>2. size(w) # 0
        BY <3>1
      <3> QED
        BY <1>0, <2>1, <2>3, <3>1, <3>2 DEF ShapeOf
    <2> QED
      BY <2>2, <2>3
  <1>8. ASSUME NEW w \in Workers, NEW c \in Callers, StopCall(w, c) \/ StopReturn(w, c)
        PROVE  ShapeOf(v)'
    <2>1. UNCHANGED <<pc, batch, active, settled, waiter>> /\ size(v)' = size(v)
      BY <1>8, SizeKept DEF StopCall, StopReturn, loopVars, poolVars
    <2>2. \A d \in Callers : call'[v][d] # "none" => stop'[v]
      BY <1>0, <1>8 DEF StopCall, StopReturn, ShapeOf, TypeOK
    <2>3. ASSUME NEW d \in Callers, call'[v][d] = "returned"
          PROVE  call[v][d] = "returned" \/ pc[v] \in {"idle", "done"}
      <3>1. CASE StopCall(w, c)
        BY <1>0, <2>3, <3>1 DEF StopCall, TypeOK
      <3>2. CASE StopReturn(w, c)
        BY <1>0, <2>3, <3>2 DEF StopReturn, TypeOK
      <3> QED
        BY <1>8, <3>1, <3>2
    <2> QED
      BY <1>0, <2>1, <2>2, <2>3 DEF ShapeOf
  <1> QED
    BY <1>0, <1>1, <1>2, <1>3, <1>4, <1>5, <1>6, <1>7, <1>8, NextSteps
    DEF vars, loopVars, poolVars, signalVars, Publish, Abort

-----------------------------------------------------------------------------
(* The limit on the pool.                                                  *)

(* add is called only below the limit, and nothing else makes a pool grow. *)
LEMMA BoundStep == IndInv /\ [Next]_vars => ConcurrencyBound'
  <1> SUFFICES ASSUME IndInv, [Next]_vars, NEW v \in Workers
               PROVE  (size(v) <= Concurrency)'
    BY DEF ConcurrencyBound
  <1>0. TypeOK /\ Shape /\ size(v) <= Concurrency
    BY DEF IndInv, ConcurrencyBound
  <1>1. size(v) \in Nat /\ Concurrency \in Nat
    BY <1>0, SizeFacts, LimitsAssumption
  <1>2. CASE size(v)' = size(v)
    BY <1>0, <1>2
  <1>3. CASE ItemAdd(v)
    <2>1. size(v) < Concurrency
      BY <1>1, <1>3 DEF ItemAdd, Full
    <2>2. size(v)' = size(v) + 1
      BY <1>3, AddFacts
    <2> QED
      BY <1>1, <2>1, <2>2
  <1>4. CASE Ended(v)
    <2>1. size(v)' = size(v) - 1
      BY <1>0, <1>4, EndedFacts
    <2> QED
      BY <1>0, <1>1, <2>1
  <1>5. ASSUME NEW w \in Workers, w # v, ItemAdd(w) PROVE size(v)' = size(v)
    <2>1. active'[v] = active[v] /\ settled' = settled
      BY <1>0, <1>5, AddFacts DEF TypeOK, ItemAdd
    <2> QED
      BY <2>1, SizeKept
  <1>6. ASSUME NEW w \in Workers, w # v, Ended(w) PROVE size(v)' = size(v)
    BY <1>0, <1>6, EndedFacts
  <1>7. ASSUME NEW w \in Workers, NEW m \in Messages, Ack(w, m) \/ Nack(w, m)
        PROVE  size(v)' = size(v)
    BY <1>0, <1>7, SettleFacts
  <1>8. CASE UNCHANGED <<active, settled>>
    BY <1>2, <1>8, SizeKept
  <1> QED
    BY <1>0, <1>2, <1>3, <1>4, <1>5, <1>6, <1>7, <1>8, NextSteps
    DEF vars, poolVars, Publish, Abort, Move, SlotConsume, ItemBreak, StopCall, StopReturn

-----------------------------------------------------------------------------
(* Every message is in one place.                                          *)

(* A step that moves no message. *)
LEMMA ConservationKept ==
  ASSUME Conservation, UNCHANGED <<msgVars, batch, active>>
  PROVE  Conservation'
  BY DEF Conservation, InHands, msgVars

(* Publish adds a message that was nowhere else to the queue. *)
LEMMA PublishConserves ==
  ASSUME TypeOK, Conservation, NEW m \in Messages, Publish(m)
  PROVE  Conservation'
  <1>1. m \notin Range(queue)
    BY DEF Publish, Conservation
  <1>2. IsInjective(queue') /\ Range(queue') = Range(queue) \cup {m}
    BY <1>1, AppendFacts DEF Publish, Conservation, TypeOK
  <1>3. /\ unsent' = unsent \ {m} /\ m \in unsent
        /\ UNCHANGED <<acked, lost, batch, active>>
    BY DEF Publish, loopVars, poolVars
  <1> QED
    BY <1>2, <1>3 DEF Conservation, InHands

(* A consume moves the front of the queue to the items of w. *)
LEMMA ConsumeConserves ==
  ASSUME TypeOK, Shape, Conservation, NEW w \in Workers, SlotConsume(w)
  PROVE  Conservation'
  <1>1. batch[w] = <<>> /\ Range(batch[w]) = {}
    BY EmptyFacts DEF Shape, ShapeOf, SlotConsume, At
  <1>2. /\ Range(queue) = Range(batch'[w]) \cup Range(queue')
        /\ IsInjective(queue') /\ IsInjective(batch'[w])
        /\ Range(batch'[w]) \cap Range(queue') = {}
    BY ConsumeFacts DEF Conservation
  <1>3. \A v \in Workers : v # w => batch'[v] = batch[v]
    BY ConsumeFacts DEF TypeOK
  <1>4. UNCHANGED <<unsent, acked, lost, active>>
    BY DEF SlotConsume, poolVars
  <1>5. InHands(w)' = Range(batch'[w]) \cup InHands(w)
    BY <1>1, <1>4 DEF InHands
  <1>6. \A v \in Workers : v # w => InHands(v)' = InHands(v)
    BY <1>3, <1>4 DEF InHands
  <1>7. \A v \in Workers : Range(queue) \cap InHands(v) = {} /\ active[v] \subseteq InHands(v)
    BY DEF Conservation, InHands
  <1>8. \A v \in Workers : IsInjective(batch'[v]) /\ Range(batch'[v]) \cap active'[v] = {}
    BY <1>2, <1>3, <1>4, <1>7 DEF Conservation
  <1>9. \A u, v \in Workers : u # v => InHands(u)' \cap InHands(v)' = {}
    BY <1>2, <1>5, <1>6, <1>7 DEF Conservation
  <1>10. \A v \in Workers :
           InHands(v)' \cap (unsent \cup acked \cup lost \cup Range(queue')) = {}
    BY <1>2, <1>5, <1>6 DEF Conservation
  <1>11. ASSUME NEW m \in Messages
         PROVE  \/ m \in unsent \cup acked \cup lost \cup Range(queue')
                \/ \E v \in Workers : m \in InHands(v)'
    BY <1>2, <1>5, <1>6 DEF Conservation
  <1> QED
    BY <1>2, <1>4, <1>8, <1>9, <1>10, <1>11 DEF Conservation

(* The end of the items loses the rest of them. *)
LEMMA BreakConserves ==
  ASSUME TypeOK, Conservation, NEW w \in Workers, ItemBreak(w)
  PROVE  Conservation'
  <1>1. /\ lost' = lost \cup Range(batch[w])
        /\ UNCHANGED <<unsent, acked, queue, active>>
    BY DEF ItemBreak, poolVars
  <1>2. /\ IsInjective(batch'[w]) /\ Range(batch'[w]) = {}
        /\ \A v \in Workers : v # w => batch'[v] = batch[v]
    BY EmptyFacts DEF ItemBreak, TypeOK
  <1> QED
    BY <1>1, <1>2 DEF Conservation, InHands

(* add moves the head of the items of w to its pool. *)
LEMMA AddConserves ==
  ASSUME IndInv, NEW w \in Workers, ItemAdd(w)
  PROVE  Conservation'
  <1> DEFINE m == Head(batch[w])
  <1>1. /\ m \notin active[w]
        /\ Range(batch[w]) = Range(batch'[w]) \cup {m}
        /\ IsInjective(batch'[w]) /\ m \notin Range(batch'[w])
    BY AddFacts
  <1>2. /\ active'[w] = active[w] \cup {m}
        /\ \A v \in Workers : v # w => active'[v] = active[v] /\ batch'[v] = batch[v]
    BY AddFacts DEF IndInv, TypeOK
  <1>3. UNCHANGED <<unsent, queue, acked, lost>>
    BY DEF ItemAdd, msgVars
  <1>4. Conservation
    BY DEF IndInv
  <1> HIDE DEF m
  <1>5. \A v \in Workers : InHands(v)' = InHands(v)
    BY <1>1, <1>2 DEF InHands
  <1>6. \A v \in Workers : IsInjective(batch'[v]) /\ Range(batch'[v]) \cap active'[v] = {}
    BY <1>1, <1>2, <1>4 DEF Conservation
  <1> QED
    BY <1>3, <1>4, <1>5, <1>6 DEF Conservation

(* Ack and nack take a message out of the hands of w. *)
LEMMA SettleConserves ==
  ASSUME TypeOK, Conservation, NEW w \in Workers, NEW m \in Messages, Ack(w, m) \/ Nack(w, m)
  PROVE  Conservation'
  <1>1. m \in active[w] /\ UNCHANGED <<batch, unsent>>
    BY SettleFacts DEF loopVars
  <1>2. /\ active'[w] = active[w] \ {m}
        /\ \A v \in Workers : v # w => active'[v] = active[v]
    BY SettleFacts DEF TypeOK
  <1>3. /\ m \notin unsent /\ m \notin acked /\ m \notin lost
        /\ m \notin Range(queue)
    BY <1>1 DEF Conservation, InHands
  <1>4. CASE acked' = acked \cup {m} /\ UNCHANGED <<queue, lost>>
    BY <1>1, <1>2, <1>3, <1>4 DEF Conservation, InHands
  <1>5. CASE queue' = Append(queue, m) /\ UNCHANGED <<acked, lost>>
    <2>1. Range(queue') = Range(queue) \cup {m} /\ IsInjective(queue')
      BY <1>3, <1>5, AppendFacts DEF Conservation, TypeOK
    <2>2. UNCHANGED <<acked, lost>>
      BY <1>5
    <2> QED
      BY <1>1, <1>2, <1>3, <2>1, <2>2 DEF Conservation, InHands
  <1>6. CASE lost' = lost \cup {m} /\ UNCHANGED <<acked, queue>>
    BY <1>1, <1>2, <1>3, <1>6 DEF Conservation, InHands
  <1> QED
    BY <1>4, <1>5, <1>6 DEF Ack, Nack

(* Conservation is preserved by every step from a state of the invariant. *)
LEMMA ConservationStep == IndInv /\ [Next]_vars => Conservation'
  <1> SUFFICES ASSUME IndInv, [Next]_vars PROVE Conservation'
    OBVIOUS
  <1>0. TypeOK /\ Shape /\ Conservation
    BY DEF IndInv
  <1>1. CASE UNCHANGED <<msgVars, batch, active>>
    BY <1>0, <1>1, ConservationKept
  <1>2. ASSUME NEW w \in Workers, Ended(w) PROVE Conservation'
    BY <1>1, <1>2 DEF Ended, loopVars
  <1> QED
    BY <1>0, <1>1, <1>2, NextSteps, PublishConserves, ConsumeConserves, BreakConserves,
       AddConserves, SettleConserves
    DEF vars, loopVars, poolVars, Abort, Move, StopCall, StopReturn

-----------------------------------------------------------------------------
(* The theorems.                                                           *)

(* The initial state satisfies the invariant. *)
LEMMA IndInvInit == Init => IndInv
  <1> SUFFICES ASSUME Init PROVE IndInv
    OBVIOUS
  <1>1. TypeOK
    <2>1. /\ aborted \in BOOLEAN /\ stop \in [Workers -> BOOLEAN]
          /\ waiter \in [Workers -> BOOLEAN]
      BY DEF Init
    <2>2. batch \in [Workers -> Seq(Messages)] /\ queue \in Seq(Messages)
      BY DEF Init
    <2>3. settled \in [Workers -> Nat] /\ active \in [Workers -> SUBSET Messages]
      BY DEF Init
    <2> QED
      BY <2>1, <2>2, <2>3 DEF Init, TypeOK
  <1>2. ASSUME NEW w \in Workers
        PROVE  /\ size(w) = 0 /\ active[w] = {}
               /\ batch[w] = <<>> /\ Range(batch[w]) = {} /\ IsInjective(batch[w])
    <2>1. batch[w] = <<>> /\ active[w] = {} /\ settled[w] = 0
      BY DEF Init
    <2> QED
      BY <1>1, <2>1, EmptyFacts, SizeFacts
  <1>3. Shape
    BY <1>2 DEF Init, Shape, ShapeOf
  <1>4. ConcurrencyBound
    BY <1>2, LimitsAssumption DEF ConcurrencyBound
  <1>5. Conservation
    BY <1>2, EmptyFacts DEF Init, Conservation, InHands
  <1> QED
    BY <1>1, <1>3, <1>4, <1>5 DEF IndInv

(* IndInv holds in every reachable state of the TypeScript workers. *)
THEOREM Invariance == Spec => []IndInv
  <1>1. IndInv /\ [Next]_vars => IndInv'
    BY TypeStep, ShapeStep, BoundStep, ConservationStep DEF IndInv
  <1> QED
    BY <1>1, IndInvInit, PTL DEF Spec

(* A worker never has more promises in its InFlightPool than concurrency,  *)
(* although both waits for a slot go on in a later turn.                   *)
THEOREM PromisesBounded == Spec => []ConcurrencyBound
  <1>1. IndInv => ConcurrencyBound
    BY DEF IndInv
  <1> QED
    BY <1>1, Invariance, PTL

(* start ends with an empty pool whatever ended its loop, and a stop that  *)
(* has returned leaves nothing to do, also if start is called afterwards.  *)
THEOREM EndIsDrained == Spec => []WorkerDrains
  <1>1. IndInv => WorkerDrains
    BY DEF IndInv, Shape, ShapeOf, WorkerDrains
  <1> QED
    BY <1>1, Invariance, PTL

(* A loop whose waiter is still set has a promise that will resolve it. *)
THEOREM WaiterHasPromise == Spec => []NoLostWakeup
  <1>1. IndInv => NoLostWakeup
    BY DEF IndInv, Shape, ShapeOf, NoLostWakeup
  <1> QED
    BY <1>1, Invariance, PTL

(* No message is duplicated or forgotten by consume, ack, nack or a batch  *)
(* that is given up.                                                       *)
THEOREM MessagesConserved == Spec => []Conservation
  <1>1. IndInv => Conservation
    BY DEF IndInv
  <1> QED
    BY <1>1, Invariance, PTL

-----------------------------------------------------------------------------
(* The refinement: the workers keep Custody.                               *)

(* The set of the messages in the queue has room when the queue has. *)
LEMMA RoomMaps ==
  ASSUME TypeOK, Conservation
  PROVE  Len(queue) < BufferSize <=> Kept!HasRoom
  <1>1. Kept!Cardinality(Range(queue)) = Cardinality(Range(queue))
    BY DEF Kept!Cardinality, Cardinality
  <1>2. Cardinality(Range(queue)) = Len(queue)
    BY RangeCardinality DEF TypeOK, Conservation
  <1> QED
    BY <1>1, <1>2 DEF Kept!HasRoom

(* A step that changes the hands of no worker leaves custody as it is. *)
LEMMA CustodyKept ==
  ASSUME \A v \in Workers : InHands(v)' = InHands(v)
  PROVE  InCustody' = InCustody
  BY DEF InCustody

(* A worker that takes messages adds them to what is in custody. *)
LEMMA CustodyGrows ==
  ASSUME NEW w \in Workers, NEW S, InHands(w)' = InHands(w) \cup S,
         \A v \in Workers : v # w => InHands(v)' = InHands(v)
  PROVE  InCustody' = InCustody \cup S
  BY DEF InCustody

(* A worker that gives messages away takes them out of custody, for no     *)
(* other worker has them.                                                  *)
LEMMA CustodyShrinks ==
  ASSUME Conservation, NEW w \in Workers, NEW S \in SUBSET InHands(w),
         InHands(w)' = InHands(w) \ S,
         \A v \in Workers : v # w => InHands(v)' = InHands(v)
  PROVE  InCustody' = InCustody \ S /\ S \subseteq InCustody
  <1>1. \A v \in Workers : v # w => InHands(v) \cap S = {}
    BY DEF Conservation
  <1> QED
    BY <1>1 DEF InCustody

(* Steps that move no message and give no signal. *)
LEMMA CustodyStutters ==
  ASSUME UNCHANGED <<msgVars, aborted, stop>>, \A v \in Workers : InHands(v)' = InHands(v)
  PROVE  UNCHANGED Kept!vars
  <1>1. Closing' = Closing /\ InCustody' = InCustody
    BY CustodyKept DEF Closing
  <1> QED
    BY <1>1 DEF Kept!vars, msgVars

(* publish takes room in the queue. *)
LEMMA PublishInCustody ==
  ASSUME IndInv, NEW m \in Messages, Publish(m)
  PROVE  Kept!Publish(m)
  <1>1. Range(queue') = Range(queue) \cup {m}
    BY AppendFacts DEF Publish, IndInv, TypeOK
  <1>2. /\ m \in unsent /\ Len(queue) < BufferSize /\ unsent' = unsent \ {m}
        /\ UNCHANGED <<acked, lost, batch, active, aborted, stop>>
    BY DEF Publish, loopVars, poolVars, signalVars
  <1>3. InCustody' = InCustody /\ Closing' = Closing
    BY <1>2 DEF InCustody, InHands, Closing
  <1>4. Kept!HasRoom
    BY <1>2, RoomMaps DEF IndInv
  <1> QED
    BY <1>1, <1>2, <1>3, <1>4 DEF Kept!Publish

(* A signal closes, and leaves every message where it is. *)
LEMMA SignalInCustody ==
  ASSUME UNCHANGED <<msgVars, batch, active>>, Closing => Closing'
  PROVE  Kept!Close \/ UNCHANGED Kept!vars
  <1>1. InCustody' = InCustody
    BY DEF InCustody, InHands
  <1>2. CASE Closing'
    <2>1. Closing' = TRUE
      BY <1>2 DEF Closing
    <2> QED
      BY <1>1, <2>1 DEF Kept!Close, msgVars
  <1>3. CASE ~Closing'
    <2>1. Closing' = Closing
      BY <1>3 DEF Closing
    <2> QED
      BY <1>1, <2>1 DEF Kept!vars, msgVars
  <1> QED
    BY <1>2, <1>3

(* The end of the items abandons the rest of them. *)
LEMMA BreakInCustody ==
  ASSUME IndInv, NEW w \in Workers, ItemBreak(w)
  PROVE  Kept!Next
  <1> DEFINE S == Range(batch[w])
  <1>1. /\ lost' = lost \cup S /\ Closing
        /\ UNCHANGED <<unsent, acked, queue, active, aborted, stop>>
    BY DEF ItemBreak, isStopping, poolVars, signalVars, Closing
  <1>2. Range(batch'[w]) = {} /\ \A v \in Workers : v # w => batch'[v] = batch[v]
    BY EmptyFacts DEF ItemBreak, IndInv, TypeOK
  <1>3. /\ S \in SUBSET InHands(w) /\ InHands(w)' = InHands(w) \ S
        /\ \A v \in Workers : v # w => InHands(v)' = InHands(v)
    BY <1>1, <1>2 DEF InHands, IndInv, Conservation
  <1>4. S \in SUBSET Messages
    BY RangeEmpty DEF IndInv, TypeOK
  <1> HIDE DEF S
  <1>5. InCustody' = InCustody \ S /\ S \subseteq InCustody /\ Closing' = Closing
    BY <1>1, <1>3, CustodyShrinks DEF IndInv, Closing
  <1>6. Kept!Abandon(S)
    BY <1>1, <1>5 DEF Kept!Abandon, Kept!Lose
  <1> QED
    BY <1>4, <1>6 DEF Kept!Next

(* consume takes the front of the queue. *)
LEMMA ConsumeInCustody ==
  ASSUME IndInv, NEW w \in Workers, SlotConsume(w)
  PROVE  Kept!Next
  <1> DEFINE S == Range(batch'[w])
  <1>1. Range(queue) = S \cup Range(queue') /\ S \cap Range(queue') = {}
    BY ConsumeFacts DEF IndInv, Conservation
  <1>2. Range(batch[w]) = {}
    BY EmptyFacts DEF IndInv, Shape, ShapeOf, SlotConsume, At
  <1>3. \A v \in Workers : v # w => batch'[v] = batch[v]
    BY ConsumeFacts DEF IndInv, TypeOK
  <1>4. UNCHANGED <<unsent, acked, lost, active, aborted, stop>>
    BY DEF SlotConsume, poolVars, signalVars
  <1>5. /\ InHands(w)' = InHands(w) \cup S
        /\ \A v \in Workers : v # w => InHands(v)' = InHands(v)
    BY <1>2, <1>3, <1>4 DEF InHands
  <1> HIDE DEF S
  <1>6. InCustody' = InCustody \cup S /\ Closing' = Closing
    BY <1>4, <1>5, CustodyGrows DEF Closing
  <1>7. S \in SUBSET Messages
    BY <1>1, RangeEmpty DEF IndInv, TypeOK
  <1>8. S \subseteq Range(queue) /\ Range(queue') = Range(queue) \ S
    BY <1>1
  <1>9. Kept!Take(S)
    BY <1>4, <1>6, <1>8 DEF Kept!Take
  <1> QED
    BY <1>7, <1>9 DEF Kept!Next

(* ack settles, nack gives back, and loses only when the queue is full. *)
LEMMA SettleInCustody ==
  ASSUME IndInv, NEW w \in Workers, NEW m \in Messages, Ack(w, m) \/ Nack(w, m)
  PROVE  Kept!Settle(m) \/ Kept!GiveBack(m) \/ Kept!Overflow(m)
  <1>1. m \in active[w] /\ UNCHANGED <<batch, unsent, aborted, stop>>
    BY SettleFacts DEF IndInv, loopVars, signalVars
  <1>2. active'[w] = active[w] \ {m} /\ \A v \in Workers : v # w => active'[v] = active[v]
    BY SettleFacts DEF IndInv, TypeOK
  <1>3. /\ {m} \in SUBSET InHands(w) /\ InHands(w)' = InHands(w) \ {m}
        /\ \A v \in Workers : v # w => InHands(v)' = InHands(v)
    BY <1>1, <1>2 DEF InHands, IndInv, Conservation
  <1>4. InCustody' = InCustody \ {m} /\ {m} \subseteq InCustody /\ Closing' = Closing
    BY <1>1, <1>3, CustodyShrinks DEF IndInv, Closing
  <1>5. Len(queue) < BufferSize <=> Kept!HasRoom
    BY RoomMaps DEF IndInv
  <1>6. CASE acked' = acked \cup {m} /\ UNCHANGED <<queue, lost>>
    BY <1>1, <1>4, <1>6 DEF Kept!Settle
  <1>7. CASE Len(queue) < BufferSize /\ queue' = Append(queue, m) /\ UNCHANGED <<acked, lost>>
    <2>1. Range(queue') = Range(queue) \cup {m}
      BY <1>7, AppendFacts DEF IndInv, TypeOK
    <2> QED
      BY <1>1, <1>4, <1>5, <1>7, <2>1 DEF Kept!GiveBack
  <1>8. CASE Len(queue) >= BufferSize /\ lost' = lost \cup {m} /\ UNCHANGED <<acked, queue>>
    <2>1. ~Kept!HasRoom
      BY <1>5, <1>8, LimitsAssumption DEF IndInv, TypeOK
    <2> QED
      BY <1>1, <1>4, <1>8, <2>1 DEF Kept!Overflow, Kept!Lose
  <1> QED
    BY <1>6, <1>7, <1>8 DEF Ack, Nack

(* Every step of the workers is a step of Custody or a stutter. *)
LEMMA StepInCustody == IndInv /\ [Next]_vars => [Kept!Next]_(Kept!vars)
  <1> SUFFICES ASSUME IndInv, [Next]_vars PROVE Kept!Next \/ UNCHANGED Kept!vars
    OBVIOUS
  <1>0. TypeOK /\ Shape
    BY DEF IndInv
  <1>1. CASE UNCHANGED <<msgVars, batch, active, aborted, stop>>
    BY <1>1, CustodyStutters DEF InHands
  <1>2. ASSUME NEW w \in Workers, ItemAdd(w) PROVE UNCHANGED Kept!vars
    <2>1. UNCHANGED <<msgVars, aborted, stop>>
      BY <1>2 DEF ItemAdd, signalVars
    <2>2. /\ Range(batch[w]) = Range(batch'[w]) \cup {Head(batch[w])}
          /\ active'[w] = active[w] \cup {Head(batch[w])}
          /\ \A v \in Workers : v # w => active'[v] = active[v] /\ batch'[v] = batch[v]
      BY <1>0, <1>2, AddFacts DEF TypeOK
    <2>3. \A v \in Workers : InHands(v)' = InHands(v)
      BY <2>2 DEF InHands
    <2> QED
      BY <2>1, <2>3, CustodyStutters
  <1>3. ASSUME NEW m \in Messages, Publish(m) PROVE Kept!Next
    BY <1>3, PublishInCustody DEF Kept!Next
  <1>4. ASSUME Abort \/ \E w \in Workers, c \in Callers : StopCall(w, c)
        PROVE  Kept!Next \/ UNCHANGED Kept!vars
    <2>1. UNCHANGED <<msgVars, batch, active>>
      BY <1>4 DEF Abort, StopCall, loopVars, poolVars
    <2>2. Closing'
      BY <1>0, <1>4 DEF Abort, StopCall, Closing, TypeOK
    <2> QED
      BY <2>1, <2>2, SignalInCustody DEF Kept!Next
  <1>5. ASSUME NEW w \in Workers, NEW m \in Messages, Ack(w, m) \/ Nack(w, m)
        PROVE  Kept!Next
    BY <1>5, SettleInCustody DEF Kept!Next
  <1> QED
    BY <1>0, <1>1, <1>2, <1>3, <1>4, <1>5, NextSteps, ConsumeInCustody, BreakInCustody
    DEF vars, loopVars, poolVars, signalVars, Move, Ended, StopReturn

(* At the start every message is with its producer. *)
LEMMA InitInCustody == Init => Kept!Init
  <1> SUFFICES ASSUME Init PROVE Kept!Init
    OBVIOUS
  <1>1. \A w \in Workers : InHands(w) = {}
    BY EmptyFacts DEF Init, InHands
  <1>2. InCustody = {} /\ Closing = FALSE
    BY <1>1 DEF InCustody, Init, Closing
  <1> QED
    BY <1>2, EmptyFacts DEF Init, Kept!Init

(* The TypeScript workers keep Custody: an item that consume has taken is  *)
(* acked, given back to a queue with room, lost to a full one, or dropped  *)
(* with its batch after a stop or an abort, and by one worker only.        *)
THEOREM KeepsCustody == Spec => ImplementsCustody
  <1> QED
    BY Invariance, InitInCustody, StepInCustody, PTL DEF Spec, Kept!Spec, ImplementsCustody

-----------------------------------------------------------------------------
(* The pool.                                                               *)

(* The pool aborts the combined signal, or all controllers at once. *)
Signals ==
  /\ aborted' \in BOOLEAN
  /\ aborted => aborted'
  /\ stop' = stop \/ stop' = [w \in Workers |-> TRUE]
  /\ UNCHANGED <<call, msgVars, loopVars, poolVars>>

(* A step that starts or runs one worker, or publishes. *)
WorkerStep ==
  \/ \E m \in Messages : Publish(m)
  \/ \E w \in Workers :
       \/ Loop(w) \/ ConsumeFails(w) \/ Ended(w)
       \/ \E m \in Messages : processMessage(w, m)

(* Every step of the pool is a step of its workers or of the signals. *)
LEMMA PoolSteps ==
  ASSUME TypeOK, [PoolNext]_pvars
  PROVE  \/ Signals \/ UNCHANGED vars
         \/ \E w \in Workers : Launch(w)
         \/ WorkerStep /\ UNCHANGED wpoolVars
  <1>1. AbortSignal \/ AllSettled \/ (\E c \in PoolCallers : PoolStop(c)) => Signals
    <2>1. aborted \in BOOLEAN
      BY DEF TypeOK
    <2>2. ASSUME AbortSignal \/ AllSettled \/ \E c \in PoolCallers : PoolStop(c)
          PROVE  aborted' \in BOOLEAN /\ (aborted => aborted')
      BY <2>1, <2>2, Zenon DEF AbortSignal, AllSettled, PoolStop
    <2> QED
      BY <2>2 DEF AbortSignal, AllSettled, PoolStop, Signals
  <1>2. PoolStart \/ (\E c \in PoolCallers : PoolStopStep(c)) => UNCHANGED vars
    BY DEF PoolStart, PoolStopStep, PoolStopWorkers, PoolStopLook, PoolStopReturn, PoolStopGoes
  <1>3. ASSUME NEW w \in Workers,
               \/ PoolLoop(w) \/ PoolEnded(w)
               \/ Quiet /\ ConsumeFails(w) /\ UNCHANGED wpoolVars
               \/ \E m \in Messages : PoolMessage(w, m)
        PROVE  WorkerStep /\ UNCHANGED wpoolVars
    BY <1>3 DEF PoolLoop, PoolEnded, PoolMessage, WorkerStep
  <1>4. ASSUME NEW m \in Messages, Quiet /\ Publish(m) /\ UNCHANGED wpoolVars
        PROVE  WorkerStep /\ UNCHANGED wpoolVars
    BY <1>4 DEF WorkerStep
  <1>5. UNCHANGED pvars => UNCHANGED vars
    BY DEF pvars
  <1> QED
    BY <1>1, <1>2, <1>3, <1>4, <1>5 DEF PoolNext

(* Aborting signals keeps the invariant of the workers. *)
LEMMA SignalsStep ==
  ASSUME IndInv, Signals
  PROVE  IndInv'
  <1>1. UNCHANGED <<call, unsent, queue, acked, lost, turn, pc, batch, outcome,
                    active, settled, waiter>>
    BY DEF Signals, msgVars, loopVars, poolVars
  <1>2. \A w \in Workers : size(w)' = size(w) /\ InHands(w)' = InHands(w)
    BY <1>1 DEF size, InHands
  <1>3. stop' \in [Workers -> BOOLEAN] /\ \A w \in Workers : stop[w] => stop'[w]
    BY DEF Signals, IndInv, TypeOK
  <1>4. aborted' \in BOOLEAN
    BY DEF Signals
  <1>5. TypeOK'
    BY <1>1, <1>3, <1>4 DEF IndInv, TypeOK
  <1>6. Shape'
    BY <1>1, <1>2, <1>3 DEF IndInv, Shape, ShapeOf
  <1>7. ConcurrencyBound'
    BY <1>2 DEF IndInv, ConcurrencyBound
  <1>8. Conservation'
    BY <1>1, <1>2 DEF IndInv, Conservation
  <1> QED
    BY <1>5, <1>6, <1>7, <1>8 DEF IndInv

(* The pool keeps the invariant of its workers. *)
LEMMA PoolKeepsInv ==
  ASSUME IndInv, [PoolNext]_pvars
  PROVE  IndInv'
  <1>1. WorkerStep \/ (\E w \in Workers : Launch(w)) => Next
    BY DEF WorkerStep, Launch, Next
  <1>2. [Next]_vars => IndInv'
    BY TypeStep, ShapeStep, BoundStep, ConservationStep DEF IndInv
  <1> QED
    BY <1>1, <1>2, PoolSteps, SignalsStep DEF IndInv

(* The loop of a worker runs only between start and its end. *)
LEMMA LoopIsStarted ==
  ASSUME TypeOK, NEW w \in Workers, Loop(w) \/ ConsumeFails(w)
  PROVE  /\ pc[w] \notin {"idle", "done"}
         /\ \A v \in Workers : v # w => pc'[v] = pc[v]
         /\ stop' = stop
  <1> USE DEF signalVars
  <1>1. CASE TopStopping(w) \/ SlotStopped(w) \/ SlotAborted(w) \/ DelayAborted(w)
               \/ ConsumeFails(w)
    BY <1>1 DEF TopStopping, SlotStopped, SlotAborted, DelayAborted, ConsumeFails, Exit, At,
                Goto, TypeOK
  <1>2. CASE SlotWait(w) \/ ItemWait(w) \/ DrainWait(w) \/ ConsumeEmpty(w)
    BY <1>2 DEF SlotWait, ItemWait, DrainWait, ConsumeEmpty, waitForOne, At, Await, TypeOK
  <1>3. CASE Top(w) \/ ConsumeItems(w) \/ RaceEnds(w) \/ DelayEnds(w) \/ DrainEnds(w) \/ Wakes(w)
    BY <1>3 DEF Top, ConsumeItems, RaceEnds, DelayEnds, DrainEnds, Wakes, At, Goto, Await,
                TypeOK
  <1>4. CASE SlotConsume(w) \/ ItemBreak(w) \/ ItemAdd(w)
    BY <1>4 DEF SlotConsume, ItemBreak, ItemAdd, At, Goto, Await, TypeOK
  <1> QED
    BY <1>1, <1>2, <1>3, <1>4 DEF Loop

(* A worker that can only end cannot but end, and one that is idle or at   *)
(* its end stays there until start is called.                              *)
LEMMA FinishedKept ==
  ASSUME IndInv, NEW v \in Workers, WorkerStep
  PROVE  /\ pc[v] \in {"idle", "done"} => pc'[v] = pc[v]
         /\ stop' = stop
         /\ Finished(v) => Finished(v)'
  <1>0. TypeOK /\ Shape /\ \A w \in Workers : ShapeOf(w)
    BY DEF IndInv, Shape
  <1>1. ASSUME NEW m \in Messages, Publish(m)
        PROVE  UNCHANGED <<pc, stop, active, settled>>
    BY <1>1 DEF Publish, loopVars, poolVars, signalVars
  <1>2. ASSUME NEW w \in Workers, Ended(w)
        PROVE  UNCHANGED <<pc, stop>> /\ (Finished(v) => Finished(v)')
    <2>1. UNCHANGED <<pc, stop>> /\ size(w) > 0 /\ (v # w => size(v)' = size(v))
      BY <1>0, <1>2, EndedFacts DEF loopVars, signalVars
    <2>2. v = w => size(v) # 0
      BY <2>1
    <2> QED
      BY <2>1, <2>2 DEF Finished
  <1>3. ASSUME NEW w \in Workers, NEW m \in Messages, processMessage(w, m)
        PROVE  UNCHANGED <<pc, stop>> /\ (Finished(v) => Finished(v)')
    <2>1. UNCHANGED <<pc, stop>> /\ size(v)' = size(v)
      BY <1>0, <1>3, SettleFacts DEF processMessage, loopVars, signalVars
    <2> QED
      BY <2>1 DEF Finished
  <1>4. ASSUME NEW w \in Workers, Loop(w) \/ ConsumeFails(w)
        PROVE  /\ pc[v] \in {"idle", "done"} => pc'[v] = pc[v]
               /\ stop' = stop
               /\ Finished(v) => Finished(v)'
    <2>1. /\ pc[w] \notin {"idle", "done"} /\ stop' = stop
          /\ \A u \in Workers : u # w => pc'[u] = pc[u]
      BY <1>0, <1>4, LoopIsStarted
    <2>2. CASE \E label : Move(w, label)
      <3>1. PICK label : Move(w, label)
        BY <2>2
      <3>2. UNCHANGED <<active, settled>> /\ size(v)' = size(v)
        BY <3>1, SizeKept DEF Move
      <3>3. pc'[w] = label
        BY <1>0, <3>1 DEF Move, TypeOK
      <3>4. Finished(w) => label \in {"top", "drain", "done"}
        BY <3>1 DEF Move, Finished
      <3> QED
        BY <2>1, <3>2, <3>3, <3>4 DEF Finished
    <2>3. CASE SlotConsume(w) \/ ItemBreak(w) \/ ItemAdd(w)
      <3>1. pc[w] \in {"slot", "item"}
        BY <2>3 DEF SlotConsume, ItemBreak, ItemAdd, At
      <3>2. v # w => active'[v] = active[v] /\ settled'[v] = settled[v]
        BY <1>0, <2>3 DEF SlotConsume, ItemBreak, ItemAdd, poolVars, TypeOK
      <3>3. v # w => size(v)' = size(v)
        BY <3>2, SizeKept
      <3> QED
        BY <2>1, <3>1, <3>3 DEF Finished
    <2> QED
      BY <1>0, <1>4, <2>2, <2>3, LoopSteps
  <1>5. UNCHANGED <<pc, stop, active, settled>> => (Finished(v) => Finished(v)')
    BY DEF Finished, size
  <1> QED
    BY <1>1, <1>2, <1>3, <1>4, <1>5 DEF WorkerStep

(* The steps of the pool preserve PoolShape. *)
LEMMA PoolShapeStep ==
  ASSUME IndInv, PoolShape, [PoolNext]_pvars
  PROVE  PoolShape'
  <1>0. TypeOK /\ \A w \in Workers : ShapeOf(w)
    BY DEF IndInv, Shape
  <1>1. CASE WorkerStep /\ UNCHANGED wpoolVars
    <2>1. \A w \in Workers : /\ pc[w] \in {"idle", "done"} => pc'[w] = pc[w]
                             /\ stop' = stop
                             /\ Finished(w) => Finished(w)'
      BY <1>1, FinishedKept
    <2>2. UNCHANGED <<ppc, poolCall>>
      BY <1>1 DEF wpoolVars
    <2> QED
      BY <2>1, <2>2 DEF PoolShape
  <1>2. ASSUME NEW w \in Workers, Launch(w) PROVE PoolShape'
    <2>1. /\ ppc = "launching" /\ ppc' \in {"running", "launching"} /\ poolCall' = poolCall
          /\ pc[w] = "idle" /\ pc' = [pc EXCEPT ![w] = "top"]
          /\ UNCHANGED <<stop, active, settled>>
      BY <1>2 DEF Launch, Start, Goto, signalVars, poolVars
    <2>2. \A v \in Workers : Finished(v) => Finished(v)'
      BY <1>0, <2>1 DEF Finished, size, TypeOK
    <2> QED
      BY <2>1, <2>2 DEF PoolShape
  <1>3. CASE UNCHANGED <<vars, ppc, poolCall>>
    BY <1>3 DEF PoolShape, Finished, size, vars, loopVars, poolVars, signalVars
  <1>4. ASSUME UNCHANGED <<pc, active, settled>>, \A w \in Workers : stop[w] => stop'[w]
        PROVE  \A w \in Workers : Finished(w) => Finished(w)'
    BY <1>4 DEF Finished, size
  <1>5. CASE AbortSignal
    <2>1. UNCHANGED <<pc, stop, active, settled, ppc, poolCall>>
      BY <1>5 DEF AbortSignal, loopVars, poolVars
    <2> QED
      BY <1>4, <2>1 DEF PoolShape
  <1>6. CASE AllSettled
    <2>1. /\ UNCHANGED <<pc, active, settled, poolCall>> /\ ppc' = "returned"
          /\ \A w \in Workers : pc[w] = "done"
          /\ stop' = stop \/ stop' = [w \in Workers |-> TRUE]
      BY <1>6 DEF AllSettled, loopVars, poolVars
    <2>2. \A w \in Workers : stop[w] => stop'[w]
      BY <2>1
    <2> QED
      BY <1>4, <2>1, <2>2 DEF PoolShape
  <1>7. CASE PoolStart
    <2>1. /\ UNCHANGED <<pc, stop, active, settled, poolCall>> /\ ppc' = "launching"
      BY <1>7 DEF PoolStart, vars, loopVars, poolVars, signalVars
    <2> QED
      BY <1>4, <2>1 DEF PoolShape
  <1>8. ASSUME NEW c \in PoolCallers, PoolStop(c) PROVE PoolShape'
    <2>1. /\ UNCHANGED <<pc, active, settled, ppc>> /\ stop' = [w \in Workers |-> TRUE]
          /\ poolCall' = [poolCall EXCEPT ![c] = IF ppc = "idle" THEN "look" ELSE "workers"]
      BY <1>8 DEF PoolStop, loopVars, poolVars
    <2>2. \A w \in Workers : stop'[w] /\ (Finished(w) => Finished(w)')
      BY <1>4, <2>1
    <2>3. ppc = "idle" => \A w \in Workers : Finished(w)'
      BY <1>0, <2>1, <2>2 DEF PoolShape, ShapeOf, Finished, size
    <2> QED
      BY <2>1, <2>2, <2>3 DEF PoolShape
  <1>9. ASSUME NEW c \in PoolCallers, PoolStopStep(c) PROVE PoolShape'
    <2>1. UNCHANGED <<pc, stop, active, settled, ppc>>
      BY <1>9 DEF PoolStopStep, PoolStopWorkers, PoolStopLook, PoolStopReturn, PoolStopGoes,
                  vars, loopVars, poolVars, signalVars
    <2>2. /\ \E s \in {"look", "waiting", "returned"} : poolCall' = [poolCall EXCEPT ![c] = s]
          /\ \/ poolCall[c] \in {"look", "waiting"}
             \/ poolCall[c] = "workers" /\ \A w \in Workers : pc[w] = "done"
      BY <1>9 DEF PoolStopStep, PoolStopWorkers, PoolStopLook, PoolStopReturn, PoolStopGoes
    <2>3. \A w \in Workers : Finished(w)
      BY <1>0, <2>2 DEF PoolShape, ShapeOf, Finished
    <2>4. \A w \in Workers : Finished(w)'
      BY <1>4, <2>1, <2>3
    <2>5. \A w \in Workers : stop'[w]
      BY <2>4 DEF Finished
    <2> QED
      BY <2>1, <2>2, <2>4, <2>5 DEF PoolShape
  <1>10. CASE UNCHANGED pvars
    BY <1>3, <1>10 DEF pvars, wpoolVars
  <1>11. ASSUME NEW w \in Workers,
                \/ PoolLoop(w) \/ PoolEnded(w)
                \/ Quiet /\ ConsumeFails(w) /\ UNCHANGED wpoolVars
                \/ \E m \in Messages : PoolMessage(w, m)
         PROVE  PoolShape'
    BY <1>1, <1>11 DEF PoolLoop, PoolEnded, PoolMessage, WorkerStep
  <1>12. ASSUME NEW m \in Messages, Quiet /\ Publish(m) /\ UNCHANGED wpoolVars
         PROVE  PoolShape'
    BY <1>1, <1>12 DEF WorkerStep
  <1> QED
    BY <1>2, <1>5, <1>6, <1>7, <1>8, <1>9, <1>10, <1>11, <1>12 DEF PoolNext

(* The invariant of the workers holds in a pool, whose stop and whose      *)
(* signal reach all workers in one turn of the event loop.                 *)
THEOREM PoolInvariance == PoolSpec => [](IndInv /\ PoolShape)
  <1>1. PoolInit => IndInv /\ PoolShape
    BY IndInvInit DEF PoolInit, Init, PoolShape
  <1>2. IndInv /\ PoolShape /\ [PoolNext]_pvars => (IndInv /\ PoolShape)'
    BY PoolKeepsInv, PoolShapeStep
  <1> QED
    BY <1>1, <1>2, PTL DEF PoolSpec

(* In a pool, too, no promise is above the limit, no loop waits for a      *)
(* promise that has left, and no message is duplicated or forgotten.       *)
THEOREM PoolWorkersAreSafe ==
  PoolSpec => [](ConcurrencyBound /\ NoLostWakeup /\ Conservation)
  <1>1. IndInv => ConcurrencyBound /\ NoLostWakeup /\ Conservation
    BY DEF IndInv, Shape, ShapeOf, NoLostWakeup
  <1> QED
    BY <1>1, PoolInvariance, PTL

(* A pool that has ended, or whose stop has returned, has no message in    *)
(* hand and gets none, also when it is started after the stop.             *)
THEOREM PoolStopIsDrained == PoolSpec => []PoolStopIsFinal
  <1>1. IndInv /\ PoolShape => PoolStopIsFinal
    BY DEF IndInv, Shape, ShapeOf, PoolShape, Finished, PoolStopIsFinal
  <1> QED
    BY <1>1, PoolInvariance, PTL

(* Every step of the pool, too, is a step of Custody or a stutter: the     *)
(* pool only adds signals, and never takes one back.                       *)
LEMMA PoolStepInCustody == IndInv /\ [PoolNext]_pvars => [Kept!Next]_(Kept!vars)
  <1> SUFFICES ASSUME IndInv, [PoolNext]_pvars PROVE [Kept!Next]_(Kept!vars)
    OBVIOUS
  <1>1. CASE Signals
    <2>1. UNCHANGED <<msgVars, batch, active>>
      BY <1>1 DEF Signals, loopVars, poolVars
    <2>2. Closing => Closing'
      BY <1>1 DEF Signals, Closing, IndInv, TypeOK
    <2> QED
      BY <2>1, <2>2, SignalInCustody DEF Kept!Next
  <1>2. WorkerStep \/ (\E w \in Workers : Launch(w)) => Next
    BY DEF WorkerStep, Launch, Next
  <1> QED
    BY <1>1, <1>2, PoolSteps, StepInCustody DEF IndInv

(* A pool of TypeScript workers keeps Custody, although it reaches its     *)
(* workers by a combined signal and ends them all when one of them fails.  *)
THEOREM PoolKeepsCustody == PoolSpec => ImplementsCustody
  <1>1. PoolInit => Kept!Init
    BY InitInCustody DEF PoolInit
  <1> QED
    BY <1>1, PoolInvariance, PoolStepInCustody, PTL DEF PoolSpec, Kept!Spec, ImplementsCustody
=============================================================================
