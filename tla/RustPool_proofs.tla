--------------------------- MODULE RustPool_proofs ---------------------------
(***************************************************************************)
(* Proofs about RustWorker and RustPool, for any number of workers,        *)
(* callers of stop and messages, and any positive batch size, concurrency  *)
(* and buffer size.                                                        *)
(***************************************************************************)
EXTENDS RustPool, SequenceFacts, FiniteSetTheorems

-----------------------------------------------------------------------------
(* The steps of run by what they do.                                       *)

(* run goes to another place and touches neither items nor futures. *)
Move(w, label) ==
  /\ pc' = [pc EXCEPT ![w] = label]
  /\ label \in {"top", "consume", "drain", "done"}
  /\ pc[w] \notin {"push", "done"}
  /\ label = "done" => InFlight(w) = {}
  /\ stop[w] => label # "consume"
  /\ outcome' \in [Workers -> {"none", "ok", "cancelled", "adapter"}]
  /\ UNCHANGED <<batch, fut, msgVars, signalVars>>

(* run returns at once on a cancelled token that it has not been told to   *)
(* stop before.                                                            *)
Aborts(w) ==
  /\ cancel /\ ~stop[w]
  /\ pc[w] \notin {"idle", "done"}
  /\ ReturnNow(w, "cancelled")

(* Every step of start is one of these, a consume, a push, or the end of   *)
(* the pushes.                                                             *)
LEMMA RunSteps ==
  ASSUME TypeOK, NEW w \in Workers, Run(w) \/ ConsumeFails(w) \/ Start(w)
  PROVE  \/ \E label : Move(w, label)
         \/ Aborts(w)
         \/ ConsumeReturns(w) \/ Push(w) \/ PushBreak(w)
  <1>1. ASSUME NEW result \in {"ok", "cancelled", "adapter"}, Break(w, result),
               pc[w] \notin {"push", "done"}
        PROVE  Move(w, "drain")
    BY <1>1 DEF Break, Move, TypeOK
  <1>2. ASSUME NEW label, Goto(w, label), label \in {"top", "consume", "done"},
               pc[w] \notin {"push", "done"},
               label = "done" => InFlight(w) = {}, stop[w] => label # "consume"
        PROVE  Move(w, label)
    BY <1>2 DEF Goto, Move, TypeOK
  <1>3. TopStopped(w) \/ TopCancelled(w) \/ ConsumeStopped(w) \/ ConsumeFails(w)
          \/ WaitStopped(w) => Move(w, "drain")
    BY <1>1 DEF TopStopped, TopCancelled, ConsumeStopped, ConsumeFails, WaitStopped
  <1>4. Start(w) \/ WaitTimer(w) => Move(w, "top")
    BY <1>2 DEF Start, WaitTimer
  <1>5. TopConsume(w) => Move(w, "consume")
    BY <1>2 DEF TopConsume
  <1>6. Drained(w) => Move(w, "done")
    BY <1>2 DEF Drained
  <1>7. TopAbort(w) \/ ConsumeAbort(w) \/ WaitAbort(w) \/ PushAbort(w) => Aborts(w)
    BY DEF TopAbort, ConsumeAbort, WaitAbort, PushAbort, Abort, Aborts
  <1> QED
    BY <1>3, <1>4, <1>5, <1>6, <1>7 DEF Run

(* The cut that consume makes in the queue. *)
LEMMA ConsumeFacts ==
  ASSUME TypeOK, NEW w \in Workers, ConsumeReturns(w)
  PROVE  /\ queue' \in Seq(Messages) /\ batch'[w] \in Seq(Messages)
         /\ batch' = [batch EXCEPT ![w] = batch'[w]]
         /\ Range(queue) = Range(batch'[w]) \cup Range(queue')
         /\ batch'[w] = <<>> <=> queue = <<>>
         /\ IsInjective(queue) => /\ IsInjective(queue') /\ IsInjective(batch'[w])
                                  /\ Range(batch'[w]) \cap Range(queue') = {}
  <1> DEFINE n == IF Len(queue) < MaxBatch THEN Len(queue) ELSE MaxBatch
  <1>1. queue \in Seq(Messages) /\ Len(queue) \in Nat /\ MaxBatch \in Nat \ {0}
    BY LimitsAssumption DEF TypeOK
  <1>2. n \in 0 .. Len(queue) /\ (n = 0 <=> Len(queue) = 0)
    BY <1>1
  <1>3. /\ batch'[w] = SubSeq(queue, 1, n)
        /\ batch' = [batch EXCEPT ![w] = batch'[w]]
        /\ queue' = SubSeq(queue, n + 1, Len(queue))
    BY DEF ConsumeReturns, TypeOK
  <1> HIDE DEF n
  <1>4. /\ queue' \in Seq(Messages) /\ batch'[w] \in Seq(Messages) /\ Len(batch'[w]) = n
        /\ Range(queue) = Range(batch'[w]) \cup Range(queue')
        /\ IsInjective(queue) => /\ IsInjective(queue') /\ IsInjective(batch'[w])
                                 /\ Range(batch'[w]) \cap Range(queue') = {}
    BY <1>1, <1>2, <1>3, CutFacts
  <1>5. batch'[w] = <<>> <=> queue = <<>>
    BY <1>1, <1>2, <1>4, EmptySeq
  <1> QED
    BY <1>3, <1>4, <1>5

(* Push moves the head of the items to in_flight. *)
LEMMA PushFacts ==
  ASSUME IndInv, NEW w \in Workers, Push(w)
  PROVE  /\ Head(batch[w]) \in Messages
         /\ Head(batch[w]) \notin InFlight(w)
         /\ InFlight(w)' = InFlight(w) \cup {Head(batch[w])}
         /\ \A v \in Workers : v # w => InFlight(v)' = InFlight(v) /\ batch'[v] = batch[v]
         /\ batch'[w] \in Seq(Messages)
         /\ Range(batch[w]) = Range(batch'[w]) \cup {Head(batch[w])}
         /\ IsInjective(batch'[w]) /\ Head(batch[w]) \notin Range(batch'[w])
         /\ batch'[w] = <<>> <=> Len(batch[w]) = 1
  <1> DEFINE m == Head(batch[w])
  <1>1. batch[w] \in Seq(Messages) /\ batch[w] # <<>> /\ batch'[w] = Tail(batch[w])
    BY DEF Push, IndInv, Shape, ShapeOf, TypeOK
  <1>2. /\ m \in Messages
        /\ batch'[w] \in Seq(Messages)
        /\ Range(batch[w]) = Range(batch'[w]) \cup {m}
        /\ IsInjective(batch'[w]) /\ m \notin Range(batch'[w])
        /\ batch'[w] = <<>> <=> Len(batch[w]) = 1
    BY <1>1, TailFacts, TailLength DEF IndInv, Conservation
  <1>3. m \notin InFlight(w)
    BY <1>2 DEF IndInv, Conservation
  <1>4. \A v \in Workers : v # w => batch'[v] = batch[v] /\ fut'[v] = fut[v]
    BY DEF Push, IndInv, TypeOK
  <1>5. fut'[w] = [fut[w] EXCEPT ![m] = "running"] /\ DOMAIN fut[w] = Messages
    BY DEF Push, IndInv, TypeOK
  <1> HIDE DEF m
  <1>6. InFlight(w)' = InFlight(w) \cup {m}
    BY <1>2, <1>5 DEF InFlight
  <1>7. \A v \in Workers : v # w => InFlight(v)' = InFlight(v)
    BY <1>4 DEF InFlight
  <1> QED
    BY <1>2, <1>3, <1>4, <1>6, <1>7 DEF m

(* An abort empties the hands of its worker. *)
LEMMA AbortFacts ==
  ASSUME TypeOK, NEW w \in Workers, Aborts(w)
  PROVE  /\ InFlight(w)' = {} /\ batch'[w] = <<>>
         /\ \A v \in Workers : v # w => InFlight(v)' = InFlight(v) /\ batch'[v] = batch[v]
  <1>1. fut'[w] = [m \in Messages |-> "none"] /\ batch'[w] = <<>>
    BY DEF Aborts, ReturnNow, TypeOK
  <1>2. \A v \in Workers : v # w => fut'[v] = fut[v] /\ batch'[v] = batch[v]
    BY DEF Aborts, ReturnNow, TypeOK
  <1> QED
    BY <1>1, <1>2 DEF InFlight

(* The end of a future takes its message out of in_flight. *)
LEMMA EndedFacts ==
  ASSUME TypeOK, NEW w \in Workers, NEW m \in Messages, Ack(w, m) \/ Nack(w, m)
  PROVE  /\ m \in InFlight(w)
         /\ InFlight(w)' = InFlight(w) \ {m}
         /\ \A v \in Workers : v # w => InFlight(v)' = InFlight(v) /\ pc'[v] = pc[v]
         /\ pc'[w] = IF pc[w] = "wait" THEN "top" ELSE pc[w]
         /\ UNCHANGED <<batch, outcome, unsent, dropped, signalVars>>
  <1>1. fut[w][m] # "none" /\ Ended(w, m)
    BY DEF Ack, Nack
  <1>2. fut'[w] = [fut[w] EXCEPT ![m] = "none"] /\ DOMAIN fut[w] = Messages
    BY <1>1 DEF Ended, TypeOK
  <1>3. \A v \in Workers : v # w => fut'[v] = fut[v] /\ pc'[v] = pc[v]
    BY <1>1 DEF Ended, TypeOK
  <1>4. pc'[w] = IF pc[w] = "wait" THEN "top" ELSE pc[w]
    BY <1>1 DEF Ended, TypeOK
  <1> QED
    BY <1>1, <1>2, <1>3, <1>4 DEF Ended, InFlight

(* A handler that returns leaves its message in in_flight. *)
LEMMA HandleFacts ==
  ASSUME TypeOK, NEW w \in Workers, NEW m \in Messages, Handle(w, m)
  PROVE  /\ \A v \in Workers : InFlight(v)' = InFlight(v)
         /\ fut' \in [Workers -> [Messages -> {"none", "running", "succeeded", "failed"}]]
  <1>1. PICK t \in {"succeeded", "failed"} : fut' = [fut EXCEPT ![w][m] = t]
    BY DEF Handle
  <1>2. fut[w][m] = "running" /\ DOMAIN fut[w] = Messages
    BY DEF Handle, TypeOK
  <1>3. fut'[w] = [fut[w] EXCEPT ![m] = t] /\ \A v \in Workers : v # w => fut'[v] = fut[v]
    BY <1>1 DEF TypeOK
  <1> QED
    BY <1>1, <1>2, <1>3 DEF InFlight, TypeOK

(* The steps of Next, sorted. *)
LEMMA NextSteps ==
  ASSUME TypeOK, Next
  PROVE  \/ \E m \in Messages : Publish(m)
         \/ Cancel
         \/ \E w \in Workers :
              \/ (\E label : Move(w, label)) \/ Aborts(w)
              \/ ConsumeReturns(w) \/ Push(w) \/ PushBreak(w)
              \/ \E m \in Messages : Handle(w, m) \/ Ack(w, m) \/ Nack(w, m)
              \/ \E c \in Callers : StopCall(w, c) \/ StopLook(w, c) \/ StopReturn(w, c)
  BY RunSteps DEF Next, Poll, Future, StopStep

-----------------------------------------------------------------------------
(* Types.                                                                  *)

(* TypeOK is preserved by every step from a state of the invariant. *)
LEMMA TypeStep == IndInv /\ [Next]_vars => TypeOK'
  <1> SUFFICES ASSUME IndInv, [Next]_vars PROVE TypeOK'
    OBVIOUS
  <1>0. TypeOK
    BY DEF IndInv
  <1>1. CASE UNCHANGED vars
    BY <1>0, <1>1 DEF TypeOK, vars, msgVars, runVars, signalVars
  <1>2. ASSUME NEW m \in Messages, Publish(m) PROVE TypeOK'
    BY <1>0, <1>2 DEF TypeOK, Publish, runVars, signalVars
  <1>3. CASE Cancel
    BY <1>0, <1>3 DEF TypeOK, Cancel, msgVars, runVars
  <1>4. ASSUME NEW w \in Workers, NEW label, Move(w, label) PROVE TypeOK'
    BY <1>0, <1>4 DEF TypeOK, Move, msgVars, signalVars
  <1>5. ASSUME NEW w \in Workers, Aborts(w) PROVE TypeOK'
    <2>1. Range(batch[w]) \subseteq Messages /\ InFlight(w) \subseteq Messages
      BY <1>0, RangeEmpty DEF TypeOK, InFlight
    <2>2. batch' \in [Workers -> Seq(Messages)]
      BY <1>0, <1>5 DEF TypeOK, Aborts, ReturnNow
    <2> QED
      BY <1>0, <1>5, <2>1, <2>2 DEF TypeOK, Aborts, ReturnNow, signalVars
  <1>6. ASSUME NEW w \in Workers, ConsumeReturns(w) PROVE TypeOK'
    <2>1. queue' \in Seq(Messages) /\ batch' \in [Workers -> Seq(Messages)]
      BY <1>0, <1>6, ConsumeFacts DEF TypeOK
    <2>2. /\ pc' = [pc EXCEPT ![w] = IF queue = <<>> THEN "wait" ELSE "push"]
          /\ UNCHANGED <<fut, outcome, unsent, acked, lost, dropped, signalVars>>
      BY <1>6 DEF ConsumeReturns
    <2> QED
      BY <1>0, <2>1, <2>2 DEF TypeOK, signalVars
  <1>7. ASSUME NEW w \in Workers, Push(w) PROVE TypeOK'
    <2>1. Head(batch[w]) \in Messages /\ batch'[w] \in Seq(Messages)
      BY <1>7, PushFacts
    <2>2. batch' \in [Workers -> Seq(Messages)]
      BY <1>0, <1>7, <2>1 DEF TypeOK, Push
    <2> QED
      BY <1>0, <1>7, <2>1, <2>2 DEF TypeOK, Push, msgVars, signalVars
  <1>8. ASSUME NEW w \in Workers, PushBreak(w) PROVE TypeOK'
    <2>1. Range(batch[w]) \subseteq Messages
      BY <1>0, RangeEmpty DEF TypeOK
    <2>2. batch' \in [Workers -> Seq(Messages)]
      BY <1>0, <1>8 DEF TypeOK, PushBreak
    <2> QED
      BY <1>0, <1>8, <2>1, <2>2 DEF TypeOK, PushBreak, signalVars
  <1>9. ASSUME NEW w \in Workers, NEW m \in Messages, Handle(w, m) PROVE TypeOK'
    BY <1>0, <1>9, HandleFacts DEF TypeOK, Handle, msgVars, signalVars
  <1>10. ASSUME NEW w \in Workers, NEW m \in Messages, Ack(w, m) PROVE TypeOK'
    BY <1>0, <1>10 DEF TypeOK, Ack, Ended, signalVars
  <1>11. ASSUME NEW w \in Workers, NEW m \in Messages, Nack(w, m) PROVE TypeOK'
    <2>1. queue \in Seq(Messages) /\ Append(queue, m) \in Seq(Messages)
      BY <1>0 DEF TypeOK
    <2>2. queue' \in Seq(Messages) /\ lost' \subseteq Messages
      BY <1>0, <1>11, <2>1 DEF TypeOK, Nack
    <2> QED
      BY <1>0, <1>11, <2>2 DEF TypeOK, Nack, Ended, signalVars
  <1>12. ASSUME NEW w \in Workers, NEW c \in Callers,
                StopCall(w, c) \/ StopLook(w, c) \/ StopReturn(w, c)
         PROVE  TypeOK'
    <2>1. CASE StopCall(w, c)
      BY <1>0, <2>1 DEF TypeOK, StopCall, msgVars, runVars
    <2>2. CASE StopLook(w, c)
      BY <1>0, <2>2 DEF TypeOK, StopLook, msgVars, runVars
    <2>3. CASE StopReturn(w, c)
      BY <1>0, <2>3 DEF TypeOK, StopReturn, msgVars, runVars
    <2> QED
      BY <1>12, <2>1, <2>2, <2>3
  <1> QED
    BY <1>0, <1>1, <1>2, <1>3, <1>4, <1>5, <1>6, <1>7, <1>8, <1>9, <1>10, <1>11, <1>12,
       NextSteps

-----------------------------------------------------------------------------
(* The place of start, its items and its futures.                          *)

(* A worker that a step leaves alone keeps its shape. *)
LEMMA ShapeKept ==
  ASSUME NEW v \in Workers, ShapeOf(v), InFlight(v)' = InFlight(v),
         batch'[v] = batch[v], pc'[v] = pc[v], stop'[v] = stop[v], call'[v] = call[v]
  PROVE  ShapeOf(v)'
  BY DEF ShapeOf

(* Shape is preserved by every step from a state of the invariant. *)
LEMMA ShapeStep == IndInv /\ [Next]_vars => Shape'
  <1> SUFFICES ASSUME IndInv, [Next]_vars, NEW v \in Workers PROVE ShapeOf(v)'
    BY DEF Shape
  <1>0. TypeOK /\ ShapeOf(v)
    BY DEF IndInv, Shape
  <1>1. CASE UNCHANGED <<pc, batch, fut, stop, call>>
    BY <1>0, <1>1 DEF ShapeOf, InFlight
  <1>2. ASSUME NEW w \in Workers, NEW label, Move(w, label) PROVE ShapeOf(v)'
    <2>1. UNCHANGED <<batch, fut, stop, call>> /\ InFlight(v)' = InFlight(v)
      BY <1>2 DEF Move, InFlight, signalVars
    <2>2. pc'[v] = IF v = w THEN label ELSE pc[v]
      BY <1>0, <1>2 DEF Move, TypeOK
    <2> QED
      BY <1>0, <1>2, <2>1, <2>2 DEF ShapeOf, Move
  <1>3. ASSUME NEW w \in Workers, Aborts(w) PROVE ShapeOf(v)'
    <2>1. ~stop[w] /\ stop' = stop /\ call' = call
      BY <1>3 DEF Aborts, ReturnNow, signalVars
    <2>2. pc'[v] = IF v = w THEN "done" ELSE pc[v]
      BY <1>0, <1>3 DEF Aborts, ReturnNow, TypeOK
    <2> QED
      BY <1>0, <1>3, <2>1, <2>2, AbortFacts DEF ShapeOf
  <1>4. ASSUME NEW w \in Workers, ConsumeReturns(w) PROVE ShapeOf(v)'
    <2>1. stop' = stop /\ call' = call /\ InFlight(v)' = InFlight(v) /\ pc[w] = "consume"
      BY <1>4 DEF ConsumeReturns, InFlight, signalVars
    <2>2. CASE v = w
      <3>1. batch'[w] = <<>> <=> queue = <<>>
        BY <1>0, <1>4, ConsumeFacts
      <3>2. pc'[w] = IF queue = <<>> THEN "wait" ELSE "push"
        BY <1>0, <1>4 DEF ConsumeReturns, TypeOK
      <3> QED
        BY <1>0, <2>1, <2>2, <3>1, <3>2 DEF ShapeOf
    <2>3. CASE v # w
      <3>1. pc'[v] = pc[v] /\ batch'[v] = batch[v]
        BY <1>0, <1>4, <2>3 DEF ConsumeReturns, TypeOK
      <3> QED
        BY <1>0, <2>1, <3>1, ShapeKept
    <2> QED
      BY <2>2, <2>3
  <1>5. ASSUME NEW w \in Workers, Push(w) PROVE ShapeOf(v)'
    <2>1. stop' = stop /\ call' = call /\ ~stop[w]
      BY <1>5 DEF Push, signalVars
    <2>2. CASE v = w
      <3>1. pc'[w] = IF Len(batch[w]) = 1 THEN "top" ELSE "push"
        BY <1>0, <1>5 DEF Push, TypeOK
      <3> QED
        BY <1>0, <1>5, <2>1, <2>2, <3>1, PushFacts DEF ShapeOf
    <2>3. CASE v # w
      <3>1. pc'[v] = pc[v]
        BY <1>0, <1>5, <2>3 DEF Push, TypeOK
      <3> QED
        BY <1>0, <1>5, <2>1, <2>3, <3>1, PushFacts, ShapeKept
    <2> QED
      BY <2>2, <2>3
  <1>6. ASSUME NEW w \in Workers, PushBreak(w) PROVE ShapeOf(v)'
    <2>1. UNCHANGED <<fut, stop, call>> /\ InFlight(v)' = InFlight(v) /\ pc[w] = "push"
      BY <1>6 DEF PushBreak, InFlight, signalVars
    <2>2. /\ pc'[v] = IF v = w THEN "top" ELSE pc[v]
          /\ batch'[v] = IF v = w THEN <<>> ELSE batch[v]
      BY <1>0, <1>6 DEF PushBreak, TypeOK
    <2> QED
      BY <1>0, <2>1, <2>2 DEF ShapeOf
  <1>7. ASSUME NEW w \in Workers, NEW m \in Messages, Handle(w, m) PROVE ShapeOf(v)'
    BY <1>0, <1>7, HandleFacts DEF ShapeOf, Handle, signalVars
  <1>8. ASSUME NEW w \in Workers, NEW m \in Messages, Ack(w, m) \/ Nack(w, m)
        PROVE  ShapeOf(v)'
    BY <1>0, <1>8, EndedFacts DEF ShapeOf, signalVars
  <1>9. ASSUME NEW w \in Workers, NEW c \in Callers,
               StopCall(w, c) \/ StopLook(w, c) \/ StopReturn(w, c)
        PROVE  ShapeOf(v)'
    <2>1. UNCHANGED <<pc, batch, fut>> /\ InFlight(v)' = InFlight(v)
      BY <1>9 DEF StopCall, StopLook, StopReturn, InFlight, runVars
    <2>2. \A d \in Callers : call'[v][d] # "none" => stop'[v]
      BY <1>0, <1>9 DEF StopCall, StopLook, StopReturn, ShapeOf, TypeOK
    <2>3. ASSUME NEW d \in Callers, call'[v][d] = "returned"
          PROVE  call[v][d] = "returned" \/ pc[v] \in {"idle", "done"}
      <3>1. CASE StopCall(w, c)
        BY <1>0, <2>3, <3>1 DEF StopCall, TypeOK
      <3>2. CASE StopLook(w, c)
        BY <1>0, <2>3, <3>2 DEF StopLook, TypeOK
      <3>3. CASE StopReturn(w, c)
        BY <1>0, <2>3, <3>3 DEF StopReturn, TypeOK
      <3> QED
        BY <1>9, <3>1, <3>2, <3>3
    <2> QED
      BY <1>0, <2>1, <2>2, <2>3 DEF ShapeOf
  <1> QED
    BY <1>0, <1>1, <1>2, <1>3, <1>4, <1>5, <1>6, <1>7, <1>8, <1>9, NextSteps
    DEF vars, runVars, signalVars, Publish, Cancel

-----------------------------------------------------------------------------
(* The limit on in_flight, and the futures that are dropped.               *)

(* in_flight is finite, and Push adds to it only below the limit. *)
LEMMA BoundStep == IndInv /\ [Next]_vars => ConcurrencyBound'
  <1> SUFFICES ASSUME IndInv, [Next]_vars, NEW v \in Workers
               PROVE  (Cardinality(InFlight(v)) <= Concurrency)'
    BY DEF ConcurrencyBound
  <1>0. TypeOK /\ Cardinality(InFlight(v)) <= Concurrency
    BY DEF IndInv, ConcurrencyBound
  <1>1. /\ IsFiniteSet(InFlight(v)) /\ Cardinality(InFlight(v)) \in Nat
        /\ Concurrency \in Nat \ {0}
    BY MessagesAssumption, LimitsAssumption, FS_Subset, FS_CardinalityType DEF InFlight
  <1>2. CASE InFlight(v)' = InFlight(v)
    BY <1>0, <1>2
  <1>3. CASE Push(v)
    <2>1. Cardinality(InFlight(v)) < Concurrency
      BY <1>1, <1>3 DEF Push, Full
    <2>2. Cardinality(InFlight(v) \cup {Head(batch[v])}) = Cardinality(InFlight(v)) + 1
      BY <1>1, <1>3, PushFacts, FS_AddElement
    <2>3. InFlight(v)' = InFlight(v) \cup {Head(batch[v])}
      BY <1>3, PushFacts
    <2> QED
      BY <1>1, <2>1, <2>2, <2>3
  <1>4. CASE Aborts(v)
    <2>1. InFlight(v)' = {}
      BY <1>0, <1>4, AbortFacts
    <2> QED
      BY <1>1, <2>1, FS_EmptySet
  <1>5. ASSUME NEW m \in Messages, Ack(v, m) \/ Nack(v, m)
        PROVE  (Cardinality(InFlight(v)) <= Concurrency)'
    <2>1. InFlight(v)' = InFlight(v) \ {m}
      BY <1>0, <1>5, EndedFacts
    <2>2. Cardinality(InFlight(v) \ {m}) \in Nat
            /\ Cardinality(InFlight(v) \ {m}) <= Cardinality(InFlight(v))
      BY <1>1, FS_Subset, FS_CardinalityType
    <2> QED
      BY <1>0, <1>1, <2>1, <2>2
  <1>6. ASSUME NEW w \in Workers, w # v, Push(w) \/ Aborts(w) PROVE InFlight(v)' = InFlight(v)
    BY <1>0, <1>6, PushFacts, AbortFacts
  <1>7. ASSUME NEW w \in Workers, NEW m \in Messages, w # v, Ack(w, m) \/ Nack(w, m)
        PROVE  InFlight(v)' = InFlight(v)
    BY <1>0, <1>7, EndedFacts
  <1>8. ASSUME NEW w \in Workers, NEW m \in Messages, Handle(w, m)
        PROVE  InFlight(v)' = InFlight(v)
    BY <1>0, <1>8, HandleFacts
  <1>9. CASE UNCHANGED fut
    BY <1>2, <1>9 DEF InFlight
  <1> QED
    BY <1>0, <1>2, <1>3, <1>4, <1>5, <1>6, <1>7, <1>8, <1>9, NextSteps
    DEF vars, runVars, Publish, Cancel, Move, ConsumeReturns, PushBreak, StopCall, StopLook,
        StopReturn

-----------------------------------------------------------------------------
(* Every message is in one place.                                          *)

(* A step that moves no message. *)
LEMMA ConservationKept ==
  ASSUME Conservation, UNCHANGED <<msgVars, batch>>,
         \A w \in Workers : InFlight(w)' = InFlight(w)
  PROVE  Conservation'
  BY DEF Conservation, InHands, msgVars

(* Publish adds a message that was nowhere else to the queue. *)
LEMMA PublishConserves ==
  ASSUME TypeOK, Conservation, NEW m \in Messages, Publish(m)
  PROVE  Conservation'
  <1>1. m \notin Range(queue)
    BY DEF Publish, Conservation
  <1>2. IsInjective(queue') /\ Range(queue') = Range(queue) \cup {m}
    BY <1>1, AppendFacts DEF Publish, Conservation, TypeOK
  <1>3. \A w \in Workers : InFlight(w)' = InFlight(w)
    BY DEF Publish, InFlight, runVars
  <1>4. unsent' = unsent \ {m} /\ m \in unsent /\ UNCHANGED <<acked, lost, dropped, batch>>
    BY DEF Publish, runVars
  <1> QED
    BY <1>2, <1>3, <1>4 DEF Conservation, InHands

(* An abort drops the futures of w and loses its items. *)
LEMMA AbortConserves ==
  ASSUME TypeOK, Conservation, NEW w \in Workers, Aborts(w)
  PROVE  Conservation'
  <1>1. /\ lost' = lost \cup Range(batch[w])
        /\ dropped' = dropped \cup InFlight(w)
        /\ UNCHANGED <<unsent, acked, queue>>
    BY DEF Aborts, ReturnNow
  <1>2. IsInjective(batch'[w]) /\ Range(batch'[w]) = {}
    BY AbortFacts, EmptyFacts
  <1>3. /\ InFlight(w)' = {}
        /\ \A v \in Workers : v # w => InFlight(v)' = InFlight(v) /\ batch'[v] = batch[v]
    BY AbortFacts
  <1> QED
    BY <1>1, <1>2, <1>3 DEF Conservation, InHands

(* A consume moves the front of the queue to the items of w. *)
LEMMA ConsumeConserves ==
  ASSUME TypeOK, Shape, Conservation, NEW w \in Workers, ConsumeReturns(w)
  PROVE  Conservation'
  <1>1. batch[w] = <<>> /\ Range(batch[w]) = {}
    BY EmptyFacts DEF Shape, ShapeOf, ConsumeReturns
  <1>2. /\ Range(queue) = Range(batch'[w]) \cup Range(queue')
        /\ IsInjective(queue') /\ IsInjective(batch'[w])
        /\ Range(batch'[w]) \cap Range(queue') = {}
    BY ConsumeFacts DEF Conservation
  <1>3. \A v \in Workers : v # w => batch'[v] = batch[v]
    BY DEF ConsumeReturns, TypeOK
  <1>4. \A v \in Workers : InFlight(v)' = InFlight(v)
    BY DEF ConsumeReturns, InFlight
  <1>5. UNCHANGED <<unsent, acked, lost, dropped>>
    BY DEF ConsumeReturns
  <1>6. InHands(w)' = Range(batch'[w]) \cup InHands(w)
    BY <1>1, <1>4 DEF InHands
  <1>7. \A v \in Workers : v # w => InHands(v)' = InHands(v)
    BY <1>3, <1>4 DEF InHands
  <1>8. \A v \in Workers : Range(queue) \cap InHands(v) = {} /\ InFlight(v) \subseteq InHands(v)
    BY DEF Conservation, InHands
  <1>9. \A v \in Workers : IsInjective(batch'[v]) /\ Range(batch'[v]) \cap InFlight(v)' = {}
    BY <1>2, <1>3, <1>4, <1>8 DEF Conservation
  <1>10. \A u, v \in Workers : u # v => InHands(u)' \cap InHands(v)' = {}
    BY <1>2, <1>6, <1>7, <1>8 DEF Conservation
  <1>11. \A v \in Workers :
           InHands(v)' \cap (unsent \cup acked \cup lost \cup dropped \cup Range(queue')) = {}
    BY <1>2, <1>6, <1>7 DEF Conservation
  <1>12. ASSUME NEW m \in Messages
         PROVE  \/ m \in unsent \cup acked \cup lost \cup dropped \cup Range(queue')
                \/ \E v \in Workers : m \in InHands(v)'
    BY <1>2, <1>6, <1>7 DEF Conservation
  <1> QED
    BY <1>2, <1>5, <1>9, <1>10, <1>11, <1>12 DEF Conservation

(* Push moves the head of the items of w to its futures. *)
LEMMA PushConserves ==
  ASSUME IndInv, NEW w \in Workers, Push(w)
  PROVE  Conservation'
  <1> DEFINE m == Head(batch[w])
  <1>1. /\ m \notin InFlight(w)
        /\ InFlight(w)' = InFlight(w) \cup {m}
        /\ \A v \in Workers : v # w => InFlight(v)' = InFlight(v) /\ batch'[v] = batch[v]
        /\ Range(batch[w]) = Range(batch'[w]) \cup {m}
        /\ IsInjective(batch'[w]) /\ m \notin Range(batch'[w])
    BY PushFacts
  <1>2. UNCHANGED <<unsent, queue, acked, lost, dropped>>
    BY DEF Push, msgVars
  <1>3. Conservation
    BY DEF IndInv
  <1> HIDE DEF m
  <1>4. \A v \in Workers : InHands(v)' = InHands(v)
    BY <1>1 DEF InHands
  <1>5. \A v \in Workers : IsInjective(batch'[v]) /\ Range(batch'[v]) \cap InFlight(v)' = {}
    BY <1>1, <1>3 DEF Conservation
  <1> QED
    BY <1>2, <1>3, <1>4, <1>5 DEF Conservation

(* The end of the pushes loses the rest of the items. *)
LEMMA PushBreakConserves ==
  ASSUME TypeOK, Conservation, NEW w \in Workers, PushBreak(w)
  PROVE  Conservation'
  <1>1. /\ lost' = lost \cup Range(batch[w])
        /\ UNCHANGED <<unsent, acked, dropped, queue>>
    BY DEF PushBreak
  <1>2. \A v \in Workers : InFlight(v)' = InFlight(v)
    BY DEF PushBreak, InFlight
  <1>3. /\ IsInjective(batch'[w]) /\ Range(batch'[w]) = {}
        /\ \A v \in Workers : v # w => batch'[v] = batch[v]
    BY EmptyFacts DEF PushBreak, TypeOK
  <1> QED
    BY <1>1, <1>2, <1>3 DEF Conservation, InHands

(* Ack and nack move a message out of in_flight. *)
LEMMA EndConserves ==
  ASSUME TypeOK, Conservation, NEW w \in Workers, NEW m \in Messages, Ack(w, m) \/ Nack(w, m)
  PROVE  Conservation'
  <1>1. /\ m \in InFlight(w)
        /\ InFlight(w)' = InFlight(w) \ {m}
        /\ \A v \in Workers : v # w => InFlight(v)' = InFlight(v)
        /\ UNCHANGED <<batch, unsent, dropped>>
    BY EndedFacts
  <1>2. /\ m \notin unsent /\ m \notin acked /\ m \notin lost /\ m \notin dropped
        /\ m \notin Range(queue)
    BY <1>1 DEF Conservation, InHands
  <1>3. CASE acked' = acked \cup {m} /\ UNCHANGED <<queue, lost>>
    BY <1>1, <1>2, <1>3 DEF Conservation, InHands
  <1>4. CASE queue' = Append(queue, m) /\ UNCHANGED <<acked, lost>>
    <2>1. Range(queue') = Range(queue) \cup {m} /\ IsInjective(queue')
      BY <1>2, <1>4, AppendFacts DEF Conservation, TypeOK
    <2>2. UNCHANGED <<acked, lost>>
      BY <1>4
    <2> QED
      BY <1>1, <1>2, <2>1, <2>2 DEF Conservation, InHands
  <1>5. CASE lost' = lost \cup {m} /\ UNCHANGED <<acked, queue>>
    BY <1>1, <1>2, <1>5 DEF Conservation, InHands
  <1> QED
    BY <1>3, <1>4, <1>5 DEF Ack, Nack

(* Conservation is preserved by every step from a state of the invariant. *)
LEMMA ConservationStep == IndInv /\ [Next]_vars => Conservation'
  <1> SUFFICES ASSUME IndInv, [Next]_vars PROVE Conservation'
    OBVIOUS
  <1>0. TypeOK /\ Shape /\ Conservation
    BY DEF IndInv
  <1>1. CASE UNCHANGED <<msgVars, batch, fut>>
    BY <1>0, <1>1, ConservationKept DEF InFlight
  <1>2. ASSUME NEW w \in Workers, NEW m \in Messages, Handle(w, m) PROVE Conservation'
    BY <1>0, <1>2, ConservationKept, HandleFacts DEF Handle
  <1> QED
    BY <1>0, <1>1, <1>2, NextSteps, PublishConserves, AbortConserves, ConsumeConserves,
       PushConserves, PushBreakConserves, EndConserves
    DEF vars, runVars, Cancel, Move, StopCall, StopLook, StopReturn

-----------------------------------------------------------------------------
(* The theorems.                                                           *)

(* The initial state satisfies the invariant. *)
LEMMA IndInvInit == Init => IndInv
  <1> SUFFICES ASSUME Init PROVE IndInv
    OBVIOUS
  <1>1. TypeOK
    <2>1. cancel \in BOOLEAN /\ stop \in [Workers -> BOOLEAN]
      BY DEF Init
    <2>2. batch \in [Workers -> Seq(Messages)] /\ queue \in Seq(Messages)
      BY DEF Init
    <2> QED
      BY <2>1, <2>2 DEF Init, TypeOK
  <1>2. \A w \in Workers : InFlight(w) = {} /\ Range(batch[w]) = {} /\ IsInjective(batch[w])
    <2> SUFFICES ASSUME NEW w \in Workers
                 PROVE  InFlight(w) = {} /\ Range(batch[w]) = {} /\ IsInjective(batch[w])
      OBVIOUS
    <2>1. batch[w] = <<>> /\ \A m \in Messages : fut[w][m] = "none"
      BY DEF Init
    <2> QED
      BY <2>1, EmptyFacts DEF InFlight
  <1>3. Shape
    BY <1>2 DEF Init, Shape, ShapeOf
  <1>4. ConcurrencyBound
    BY <1>2, LimitsAssumption, FS_EmptySet DEF ConcurrencyBound
  <1>5. Conservation
    BY <1>2, EmptyFacts DEF Init, Conservation, InHands
  <1> QED
    BY <1>1, <1>3, <1>4, <1>5 DEF IndInv

(* IndInv holds in every reachable state of the Rust workers. *)
THEOREM Invariance == Spec => []IndInv
  <1>1. IndInv /\ [Next]_vars => IndInv'
    BY TypeStep, ShapeStep, BoundStep, ConservationStep DEF IndInv
  <1> QED
    BY <1>1, IndInvInit, PTL DEF Spec

(* run never has more handler futures than the configured concurrency. *)
THEOREM FuturesBounded == Spec => []ConcurrencyBound
  <1>1. IndInv => ConcurrencyBound
    BY DEF IndInv
  <1> QED
    BY <1>1, Invariance, PTL

(* When a call of stop has returned, the worker has no message and will    *)
(* have none, also if start is called only afterwards.                     *)
THEOREM ReturnedStopIsFinal == Spec => []StopIsFinal
  <1>1. IndInv => StopIsFinal
    BY DEF IndInv, Shape, ShapeOf, StopIsFinal
  <1> QED
    BY <1>1, Invariance, PTL

(* No message is duplicated or forgotten by consume, ack, nack, a dropped  *)
(* batch or a dropped future.                                              *)
THEOREM MessagesConserved == Spec => []Conservation
  <1>1. IndInv => Conservation
    BY DEF IndInv
  <1> QED
    BY <1>1, Invariance, PTL

-----------------------------------------------------------------------------
(* The refinement: the workers keep Custody.                               *)

(* The set of the messages in the queue has room when the queue has. *)
LEMMA RoomMaps ==
  ASSUME TypeOK, Conservation
  PROVE  Len(queue) < BufferSize <=> Kept!HasRoom
  <1>1. Kept!Cardinality(Range(queue)) = Cardinality(Range(queue))
    BY DEF Kept!Cardinality, Cardinality
  <1>2. Cardinality(Range(queue)) = Len(queue)
    BY RangeCardinality DEF TypeOK, Conservation
  <1> QED
    BY <1>1, <1>2 DEF Kept!HasRoom

(* A step that changes the hands of no worker leaves custody as it is. *)
LEMMA CustodyKept ==
  ASSUME \A v \in Workers : InHands(v)' = InHands(v)
  PROVE  InCustody' = InCustody
  BY DEF InCustody

(* A worker that takes messages adds them to what is in custody. *)
LEMMA CustodyGrows ==
  ASSUME NEW w \in Workers, NEW S, InHands(w)' = InHands(w) \cup S,
         \A v \in Workers : v # w => InHands(v)' = InHands(v)
  PROVE  InCustody' = InCustody \cup S
  BY DEF InCustody

(* A worker that gives messages away takes them out of custody, for no     *)
(* other worker has them.                                                  *)
LEMMA CustodyShrinks ==
  ASSUME Conservation, NEW w \in Workers, NEW S \in SUBSET InHands(w),
         InHands(w)' = InHands(w) \ S,
         \A v \in Workers : v # w => InHands(v)' = InHands(v)
  PROVE  InCustody' = InCustody \ S /\ S \subseteq InCustody
  <1>1. \A v \in Workers : v # w => InHands(v) \cap S = {}
    BY DEF Conservation
  <1> QED
    BY <1>1 DEF InCustody

(* Steps that move no message and give no signal. *)
LEMMA CustodyStutters ==
  ASSUME UNCHANGED <<msgVars, cancel, stop>>, \A v \in Workers : InHands(v)' = InHands(v)
  PROVE  UNCHANGED Kept!vars
  <1>1. Closing' = Closing /\ InCustody' = InCustody
    BY CustodyKept DEF Closing
  <1> QED
    BY <1>1 DEF Kept!vars, msgVars

(* publish takes room in the queue. *)
LEMMA PublishInCustody ==
  ASSUME IndInv, NEW m \in Messages, Publish(m)
  PROVE  Kept!Publish(m)
  <1>1. Range(queue') = Range(queue) \cup {m}
    BY AppendFacts DEF Publish, IndInv, TypeOK
  <1>2. /\ m \in unsent /\ Len(queue) < BufferSize /\ unsent' = unsent \ {m}
        /\ UNCHANGED <<acked, lost, dropped, batch, fut, cancel, stop>>
    BY DEF Publish, runVars, signalVars
  <1>3. InCustody' = InCustody /\ Closing' = Closing
    BY <1>2 DEF InCustody, InHands, InFlight, Closing
  <1>4. Kept!HasRoom
    BY <1>2, RoomMaps DEF IndInv
  <1> QED
    BY <1>1, <1>2, <1>3, <1>4 DEF Kept!Publish

(* A token that is cancelled closes. *)
LEMMA SignalInCustody ==
  ASSUME IndInv, Cancel \/ \E w \in Workers, c \in Callers : StopCall(w, c)
  PROVE  Kept!Close
  <1>1. UNCHANGED <<unsent, acked, lost, dropped, queue, batch, fut>>
    BY DEF Cancel, StopCall, msgVars, runVars
  <1>2. Closing' = TRUE
    BY DEF Cancel, StopCall, Closing, IndInv, TypeOK
  <1>3. InCustody' = InCustody
    BY <1>1 DEF InCustody, InHands, InFlight
  <1> QED
    BY <1>1, <1>2, <1>3 DEF Kept!Close

(* A worker whose hands lose S in a shutdown abandons S. *)
LEMMA AbandonInCustody ==
  ASSUME IndInv, NEW w \in Workers, NEW S \in SUBSET InHands(w), Closing,
         InHands(w)' = InHands(w) \ S,
         \A v \in Workers : v # w => InHands(v)' = InHands(v),
         lost' \cup dropped' = lost \cup dropped \cup S,
         UNCHANGED <<unsent, queue, acked, cancel, stop>>
  PROVE  Kept!Next
  <1>1. InCustody' = InCustody \ S /\ S \subseteq InCustody
    BY CustodyShrinks DEF IndInv
  <1>2. Closing' = Closing
    BY DEF Closing
  <1>3. S \in SUBSET Messages
    BY RangeEmpty DEF InHands, InFlight, IndInv, TypeOK
  <1>4. Kept!Abandon(S)
    BY <1>1, <1>2 DEF Kept!Abandon, Kept!Lose
  <1> QED
    BY <1>3, <1>4 DEF Kept!Next

(* An abort abandons the items and the futures of w. *)
LEMMA AbortInCustody ==
  ASSUME IndInv, NEW w \in Workers, Aborts(w)
  PROVE  Kept!Next
  <1>1. /\ InFlight(w)' = {} /\ Range(batch'[w]) = {}
        /\ \A v \in Workers : v # w => InFlight(v)' = InFlight(v) /\ batch'[v] = batch[v]
    BY AbortFacts, EmptyFacts DEF IndInv
  <1>2. /\ lost' = lost \cup Range(batch[w]) /\ dropped' = dropped \cup InFlight(w)
        /\ UNCHANGED <<unsent, queue, acked, cancel, stop>> /\ Closing
    BY DEF Aborts, ReturnNow, signalVars, Closing
  <1>3. /\ InHands(w)' = InHands(w) \ InHands(w)
        /\ \A v \in Workers : v # w => InHands(v)' = InHands(v)
        /\ lost' \cup dropped' = lost \cup dropped \cup InHands(w)
    BY <1>1, <1>2 DEF InHands
  <1> QED
    BY <1>2, <1>3, AbandonInCustody

(* The end of the pushes abandons the rest of the items. *)
LEMMA PushBreakInCustody ==
  ASSUME IndInv, NEW w \in Workers, PushBreak(w)
  PROVE  Kept!Next
  <1>1. /\ lost' = lost \cup Range(batch[w]) /\ Closing
        /\ UNCHANGED <<unsent, acked, dropped, queue, cancel, stop>>
    BY DEF PushBreak, signalVars, Closing
  <1>2. \A v \in Workers : InFlight(v)' = InFlight(v)
    BY DEF PushBreak, InFlight
  <1>3. Range(batch'[w]) = {} /\ \A v \in Workers : v # w => batch'[v] = batch[v]
    BY EmptyFacts DEF PushBreak, IndInv, TypeOK
  <1>4. /\ Range(batch[w]) \in SUBSET InHands(w)
        /\ InHands(w)' = InHands(w) \ Range(batch[w])
        /\ \A v \in Workers : v # w => InHands(v)' = InHands(v)
    BY <1>2, <1>3 DEF InHands, IndInv, Conservation
  <1>5. lost' \cup dropped' = lost \cup dropped \cup Range(batch[w])
    BY <1>1
  <1> QED
    BY <1>1, <1>4, <1>5, AbandonInCustody

(* consume takes the front of the queue. *)
LEMMA ConsumeInCustody ==
  ASSUME IndInv, NEW w \in Workers, ConsumeReturns(w)
  PROVE  Kept!Next
  <1> DEFINE S == Range(batch'[w])
  <1>1. Range(queue) = S \cup Range(queue') /\ S \cap Range(queue') = {}
    BY ConsumeFacts DEF IndInv, Conservation
  <1>2. Range(batch[w]) = {}
    BY EmptyFacts DEF IndInv, Shape, ShapeOf, ConsumeReturns
  <1>3. \A v \in Workers : v # w => batch'[v] = batch[v]
    BY DEF ConsumeReturns, IndInv, TypeOK
  <1>4. UNCHANGED <<unsent, acked, lost, dropped, fut, cancel, stop>>
    BY DEF ConsumeReturns, signalVars
  <1>5. /\ InHands(w)' = InHands(w) \cup S
        /\ \A v \in Workers : v # w => InHands(v)' = InHands(v)
    BY <1>2, <1>3, <1>4 DEF InHands, InFlight
  <1> HIDE DEF S
  <1>6. InCustody' = InCustody \cup S /\ Closing' = Closing
    BY <1>4, <1>5, CustodyGrows DEF Closing
  <1>7. S \in SUBSET Messages
    BY <1>1, RangeEmpty DEF IndInv, TypeOK
  <1>8. S \subseteq Range(queue) /\ Range(queue') = Range(queue) \ S
    BY <1>1
  <1>9. Kept!Take(S)
    BY <1>4, <1>6, <1>8 DEF Kept!Take
  <1> QED
    BY <1>7, <1>9 DEF Kept!Next

(* ack settles, nack gives back, and loses only when the queue is full. *)
LEMMA EndInCustody ==
  ASSUME IndInv, NEW w \in Workers, NEW m \in Messages, Ack(w, m) \/ Nack(w, m)
  PROVE  Kept!Settle(m) \/ Kept!GiveBack(m) \/ Kept!Overflow(m)
  <1>1. /\ m \in InFlight(w)
        /\ InFlight(w)' = InFlight(w) \ {m}
        /\ \A v \in Workers : v # w => InFlight(v)' = InFlight(v)
        /\ UNCHANGED <<batch, unsent, dropped, cancel, stop>>
    BY EndedFacts DEF IndInv, signalVars
  <1>2. /\ {m} \in SUBSET InHands(w) /\ InHands(w)' = InHands(w) \ {m}
        /\ \A v \in Workers : v # w => InHands(v)' = InHands(v)
    BY <1>1 DEF InHands, IndInv, Conservation
  <1>3. InCustody' = InCustody \ {m} /\ {m} \subseteq InCustody /\ Closing' = Closing
    BY <1>1, <1>2, CustodyShrinks DEF IndInv, Closing
  <1>4. Len(queue) < BufferSize <=> Kept!HasRoom
    BY RoomMaps DEF IndInv
  <1>5. CASE acked' = acked \cup {m} /\ UNCHANGED <<queue, lost>>
    BY <1>1, <1>3, <1>5 DEF Kept!Settle
  <1>6. CASE Len(queue) < BufferSize /\ queue' = Append(queue, m) /\ UNCHANGED <<acked, lost>>
    <2>1. Range(queue') = Range(queue) \cup {m}
      BY <1>6, AppendFacts DEF IndInv, TypeOK
    <2> QED
      BY <1>1, <1>3, <1>4, <1>6, <2>1 DEF Kept!GiveBack
  <1>7. CASE Len(queue) >= BufferSize /\ lost' = lost \cup {m} /\ UNCHANGED <<acked, queue>>
    <2>1. ~Kept!HasRoom
      BY <1>4, <1>7, LimitsAssumption DEF IndInv, TypeOK
    <2>2. lost' \cup dropped' = (lost \cup dropped) \cup {m}
      BY <1>1, <1>7
    <2> QED
      BY <1>1, <1>3, <1>7, <2>1, <2>2 DEF Kept!Overflow, Kept!Lose
  <1> QED
    BY <1>5, <1>6, <1>7 DEF Ack, Nack

(* Every step of the workers is a step of Custody or a stutter. *)
LEMMA StepInCustody == IndInv /\ [Next]_vars => [Kept!Next]_(Kept!vars)
  <1> SUFFICES ASSUME IndInv, [Next]_vars PROVE Kept!Next \/ UNCHANGED Kept!vars
    OBVIOUS
  <1>0. TypeOK
    BY DEF IndInv
  <1>1. CASE UNCHANGED <<msgVars, batch, fut, cancel, stop>>
    BY <1>1, CustodyStutters DEF InHands, InFlight
  <1>2. ASSUME NEW w \in Workers, NEW m \in Messages, Handle(w, m)
        PROVE  UNCHANGED Kept!vars
    <2>1. UNCHANGED <<msgVars, batch, cancel, stop>>
      BY <1>2 DEF Handle, signalVars
    <2> QED
      BY <1>0, <1>2, <2>1, HandleFacts, CustodyStutters DEF InHands
  <1>3. ASSUME NEW w \in Workers, Push(w) PROVE UNCHANGED Kept!vars
    <2>1. UNCHANGED <<msgVars, cancel, stop>>
      BY <1>3 DEF Push, signalVars
    <2>2. \A v \in Workers : InHands(v)' = InHands(v)
      BY <1>3, PushFacts DEF InHands
    <2> QED
      BY <2>1, <2>2, CustodyStutters
  <1>4. ASSUME NEW m \in Messages, Publish(m) PROVE Kept!Next
    BY <1>4, PublishInCustody DEF Kept!Next
  <1>5. ASSUME Cancel \/ \E w \in Workers, c \in Callers : StopCall(w, c) PROVE Kept!Next
    BY <1>5, SignalInCustody DEF Kept!Next
  <1>6. ASSUME NEW w \in Workers, NEW m \in Messages, Ack(w, m) \/ Nack(w, m)
        PROVE  Kept!Next
    BY <1>6, EndInCustody DEF Kept!Next
  <1> QED
    BY <1>0, <1>1, <1>2, <1>3, <1>4, <1>5, <1>6, NextSteps, AbortInCustody,
       PushBreakInCustody, ConsumeInCustody
    DEF vars, runVars, signalVars, Move, StopLook, StopReturn

(* At the start every message is with its producer. *)
LEMMA InitInCustody == Init => Kept!Init
  <1> SUFFICES ASSUME Init PROVE Kept!Init
    OBVIOUS
  <1>1. \A w \in Workers : InHands(w) = {}
    BY EmptyFacts DEF Init, InHands, InFlight
  <1>2. InCustody = {} /\ Closing = FALSE
    BY <1>1 DEF InCustody, Init, Closing
  <1> QED
    BY <1>2, EmptyFacts DEF Init, Kept!Init

(* The Rust workers keep Custody: run gives up messages that it holds, by  *)
(* dropping items or handler futures, only once a token is cancelled, and  *)
(* whatever else it takes from the queue it acks, gives back to a queue    *)
(* with room, or loses to a full one.                                      *)
THEOREM KeepsCustody == Spec => ImplementsCustody
  <1> QED
    BY Invariance, InitInCustody, StepInCustody, PTL DEF Spec, Kept!Spec, ImplementsCustody

-----------------------------------------------------------------------------
(* The pool.                                                               *)

(* Every step of the pool is a step of its workers, or none, if the task   *)
(* of the pool and the callers of WorkerPool::stop are among the callers   *)
(* of Worker::stop.                                                        *)
LEMMA StepOfWorkers ==
  ASSUME PoolCallers \cup {Pool} \subseteq Callers, [PoolNext]_pvars
  PROVE  [Next]_vars
  <1>1. ASSUME NEW c \in Callers, StopAll(c) PROVE Next
    BY <1>1 DEF StopAll, Next
  <1>2. CASE PoolEnvironment
    BY <1>2 DEF PoolEnvironment, Next
  <1>3. CASE PoolStart
    BY <1>3 DEF PoolStart, GotoPool
  <1>4. CASE PoolTask
    <2>1. \/ UNCHANGED vars
          \/ StopAll(Pool)
      BY <1>4 DEF PoolTask, SelectStop, SelectCancelled, SelectNext, RoundEnds, StoppingEnds,
                  DrainEnds, SelectError, SelectOk, DrainJoins, Branch, GotoPool
    <2> QED
      BY <1>1, <2>1
  <1>5. ASSUME NEW w \in Workers, PoolPolls(w) PROVE Next
    BY <1>5 DEF PoolPolls, Poll, Next
  <1>6. ASSUME NEW c \in PoolCallers, PoolStop(c) \/ PoolCaller(c) PROVE [Next]_vars
    BY <1>1, <1>6 DEF PoolStop, PoolCaller, PoolStopLook, PoolStopReturn
  <1>7. CASE UNCHANGED pvars
    BY <1>7 DEF pvars
  <1> QED
    BY <1>2, <1>3, <1>4, <1>5, <1>6, <1>7 DEF PoolNext

(* The pool runs its workers as any owner may, so what is proved of the    *)
(* workers holds in a pool.                                                *)
THEOREM PoolRunsWorkers ==
  ASSUME PoolCallers \cup {Pool} \subseteq Callers
  PROVE  PoolSpec => Spec
  <1>1. PoolInit => Init
    BY DEF PoolInit
  <1>2. [PoolNext]_pvars => [Next]_vars
    BY StepOfWorkers
  <1> QED
    BY <1>1, <1>2, PTL DEF PoolSpec, Spec

(* A worker that has ended stays so, and so does a call of stop. *)
LEMMA EndsAreFinal ==
  ASSUME TypeOK, [Next]_vars, NEW w \in Workers
  PROVE  /\ pc[w] = "done" => pc'[w] = "done"
         /\ \A c \in Callers : call[w][c] = "returned" => call'[w][c] = "returned"
  <1> USE DEF msgVars, runVars, signalVars
  <1>1. ASSUME NEW m \in Messages, Publish(m) PROVE UNCHANGED <<pc, call>>
    BY <1>1 DEF Publish
  <1>2. CASE Cancel
    BY <1>2 DEF Cancel
  <1>3. ASSUME NEW v \in Workers, Run(v) \/ ConsumeFails(v) \/ Start(v)
        PROVE  call' = call /\ (pc[w] = "done" => pc'[w] = "done")
    <2>1. CASE \E label : Move(v, label)
      BY <2>1 DEF Move, TypeOK
    <2>2. CASE Aborts(v)
      BY <2>2 DEF Aborts, ReturnNow, TypeOK
    <2>3. CASE ConsumeReturns(v) \/ Push(v) \/ PushBreak(v)
      BY <2>3 DEF ConsumeReturns, Push, PushBreak, TypeOK
    <2> QED
      BY <1>3, <2>1, <2>2, <2>3, RunSteps
  <1>4. ASSUME NEW v \in Workers, NEW m \in Messages, Future(v, m)
        PROVE  call' = call /\ (pc[w] = "done" => pc'[w] = "done")
    BY <1>4 DEF Future, Handle, Ack, Nack, Ended, TypeOK
  <1>5. ASSUME NEW v \in Workers, NEW d \in Callers, StopCall(v, d) \/ StopStep(v, d)
        PROVE  /\ pc' = pc
               /\ \A c \in Callers : call[w][c] = "returned" => call'[w][c] = "returned"
    <2>1. pc' = pc /\ call[v][d] # "returned"
      BY <1>5 DEF StopCall, StopStep, StopLook, StopReturn
    <2>2. PICK s : call' = [call EXCEPT ![v][d] = s]
      BY <1>5 DEF StopCall, StopStep, StopLook, StopReturn
    <2>3. call \in [Workers -> [Callers -> {"none", "look", "waiting", "returned"}]]
      BY DEF TypeOK
    <2>4. \A c \in Callers : c # d \/ w # v => call'[w][c] = call[w][c]
      BY <2>2, <2>3
    <2> QED
      BY <2>1, <2>4
  <1>6. CASE UNCHANGED vars
    BY <1>6 DEF vars
  <1> QED
    BY <1>1, <1>2, <1>3, <1>4, <1>5, <1>6 DEF Next, Poll

(* The steps of the pool preserve PoolShape. *)
LEMMA PoolShapeStep ==
  ASSUME PoolCallers \cup {Pool} \subseteq Callers, TypeOK, PoolShape, [PoolNext]_pvars
  PROVE  PoolShape'
  <1>1. [Next]_vars
    BY StepOfWorkers
  <1>2. /\ \A w \in Workers : pc[w] = "done" => pc'[w] = "done"
        /\ \A w \in Workers, c \in Callers : call[w][c] = "returned" => call'[w][c] = "returned"
    BY <1>1, EndsAreFinal
  <1>3. \A c \in PoolCallers : StopAllReturned(c) => StopAllReturned(c)'
    BY <1>2 DEF StopAllReturned
  <1>4. {w \in Workers : pc[w] = "done"} \subseteq {w \in Workers : pc'[w] = "done"}
    BY <1>2
  <1>5. CASE UNCHANGED poolVars
    BY <1>3, <1>4, <1>5 DEF poolVars, PoolShape
  <1>6. CASE PoolStart \/ PoolTask
    <2>1. CASE PoolStart \/ SelectStop \/ SelectCancelled \/ SelectNext \/ RoundEnds
                 \/ StoppingEnds \/ DrainEnds
      <3>1. /\ UNCHANGED <<joined, poolCall>>
            /\ ppc' = "returned" => joined = Workers
        BY <2>1 DEF PoolStart, SelectStop, SelectCancelled, SelectNext, RoundEnds,
                    StoppingEnds, DrainEnds, Branch, GotoPool
      <3> QED
        BY <1>3, <1>4, <3>1 DEF PoolShape
    <2>2. ASSUME NEW w \in Workers, SelectError(w) \/ SelectOk(w) \/ DrainJoins(w)
          PROVE  PoolShape'
      <3>1. /\ pc[w] = "done" /\ joined' = joined \cup {w} /\ poolCall' = poolCall
            /\ ppc' # "returned"
        BY <2>2 DEF SelectError, SelectOk, DrainJoins, Branch
      <3> QED
        BY <1>3, <1>4, <3>1 DEF PoolShape
    <2>3. CASE StopAll(Pool)
      BY <1>5, <2>3 DEF StopAll
    <2> QED
      BY <1>6, <2>1, <2>2, <2>3 DEF PoolTask
  <1>7. ASSUME NEW c \in PoolCallers, PoolStop(c) \/ PoolStopLook(c) \/ PoolStopReturn(c)
        PROVE  PoolShape'
    <2>1. /\ UNCHANGED <<ppc, joined>>
          /\ \/ poolCall' = [poolCall EXCEPT ![c] = "stopping"]
             \/ /\ poolCall' = [poolCall EXCEPT ![c] = "waiting"]
                /\ StopAllReturned(c)
             \/ /\ poolCall' = [poolCall EXCEPT ![c] = "returned"]
                /\ StopAllReturned(c)
      BY <1>7 DEF PoolStop, PoolStopLook, PoolStopReturn, PoolShape
    <2> QED
      BY <1>3, <1>4, <2>1 DEF PoolShape
  <1>8. CASE PoolEnvironment
    BY <1>5, <1>8 DEF PoolEnvironment
  <1>9. ASSUME NEW w \in Workers, PoolPolls(w) PROVE PoolShape'
    BY <1>5, <1>9 DEF PoolPolls
  <1>10. ASSUME NEW c \in PoolCallers, StopAll(c) PROVE PoolShape'
    BY <1>5, <1>10 DEF StopAll
  <1>11. CASE UNCHANGED pvars
    BY <1>5, <1>11 DEF pvars
  <1> QED
    BY <1>6, <1>7, <1>8, <1>9, <1>10, <1>11 DEF PoolNext, PoolCaller

(* A pool that has ended, or whose stop has returned, has no message in    *)
(* hand and gets none, although stop_all stops one worker after the other  *)
(* while the others go on.                                                 *)
THEOREM PoolStopIsDrained ==
  ASSUME PoolCallers \cup {Pool} \subseteq Callers
  PROVE  PoolSpec => []PoolStopIsFinal
  <1>1. PoolInit => PoolShape
    BY DEF PoolInit, PoolShape
  <1>2. IndInv /\ PoolShape /\ [PoolNext]_pvars => PoolShape'
    BY PoolShapeStep DEF IndInv
  <1>3. IndInv /\ PoolShape => PoolStopIsFinal
    BY DEF IndInv, Shape, ShapeOf, PoolShape, StopAllReturned, PoolStopIsFinal
  <1> QED
    BY <1>1, <1>2, <1>3, PoolRunsWorkers, Invariance, PTL DEF PoolSpec

(* A pool of Rust workers keeps Custody, however stop_all, the drain of    *)
(* the pool and the tasks of its workers interleave.                       *)
THEOREM PoolKeepsCustody ==
  ASSUME PoolCallers \cup {Pool} \subseteq Callers
  PROVE  PoolSpec => ImplementsCustody
  BY PoolRunsWorkers, KeepsCustody, PTL
=============================================================================
