---------------------------- MODULE GoSqs_proofs ----------------------------
(***************************************************************************)
(* Proofs about GoSqs, for any number of workers, bodies and receipt       *)
(* handles, any parcel and any positive limits of SQS.                     *)
(***************************************************************************)
EXTENDS GoSqs, SequenceFacts, FiniteSetTheorems

-----------------------------------------------------------------------------
(* Chunks.                                                                 *)

(* Min of two numbers. *)
LEMMA MinFacts ==
  ASSUME NEW x \in Nat, NEW y \in Nat
  PROVE  /\ Min({x, y}) \in Nat
         /\ Min({x, y}) <= x /\ Min({x, y}) <= y
         /\ Min({x, y}) = x \/ Min({x, y}) = y
  BY DEF Min

(* What the chunk of a Publish that goes on is: the messages up to a new   *)
(* value of sent, at most SendLimit of them.                               *)
LEMMA ChunkFacts ==
  ASSUME Published
  PROVE  \E n \in sent .. Len(Parcel) :
           /\ n <= sent + SendLimit
           /\ Chunk = {Parcel[i] : i \in sent + 1 .. n}
           /\ sent + Cardinality(Chunk) = n
  <1> DEFINE n == Min({sent + SendLimit, Len(Parcel)})
             I == sent + 1 .. n
             f == [i \in I |-> Parcel[i]]
  <1>1. /\ Parcel \in Seq(Bodies) /\ Len(Parcel) \in Nat /\ DOMAIN Parcel = 1 .. Len(Parcel)
        /\ SendLimit \in Nat \ {0} /\ sent \in Nat /\ sent <= Len(Parcel)
        /\ \A i, j \in DOMAIN Parcel : Parcel[i] = Parcel[j] => i = j
    BY SqsAssumption DEF Published, IsInjective
  <1>2. n \in Nat /\ n <= Len(Parcel) /\ n <= sent + SendLimit /\ n >= sent
    BY <1>1, MinFacts
  <1>3. Chunk = {Parcel[i] : i \in I}
    BY DEF Chunk
  <1> HIDE DEF n
  <1>4. \A i \in I : i \in DOMAIN Parcel
    BY <1>1, <1>2
  <1>5. f \in Bijection(I, Chunk)
    <2>1. f \in [I -> Chunk]
      BY <1>3
    <2>2. \A i, j \in I : f[i] = f[j] => i = j
      BY <1>1, <1>4
    <2>3. \A c \in Chunk : \E i \in I : f[i] = c
      BY <1>3
    <2> QED
      BY <2>1, <2>2, <2>3 DEF Bijection, Injection, Surjection, IsInjective
  <1>6. IsFiniteSet(I) /\ Cardinality(I) = n - sent
    <2>1. sent + 1 \in Int /\ n \in Int
      BY <1>1, <1>2
    <2>2. IsFiniteSet(I) /\ Cardinality(I) = IF sent + 1 > n THEN 0 ELSE n - (sent + 1) + 1
      BY <2>1, FS_Interval
    <2> QED
      BY <1>1, <1>2, <2>2
  <1>7. Cardinality(Chunk) = n - sent
    BY <1>5, <1>6, FS_Bijection DEF ExistsBijection
  <1>8. n \in sent .. Len(Parcel) /\ sent + Cardinality(Chunk) = n
    BY <1>1, <1>2, <1>7
  <1> QED
    BY <1>2, <1>3, <1>8

(* While Publish goes on, SQS has nothing of its next chunk. *)
LEMMA ChunkIsNew ==
  ASSUME Published, pub = "sending", NEW b \in Chunk
  PROVE  b \in Bodies /\ store[b] = "absent"
  <1>1. PICK n \in sent .. Len(Parcel) : Chunk = {Parcel[i] : i \in sent + 1 .. n}
    BY ChunkFacts
  <1>2. /\ Parcel \in Seq(Bodies) /\ Len(Parcel) \in Nat /\ DOMAIN Parcel = 1 .. Len(Parcel)
        /\ sent \in Nat
    BY SqsAssumption DEF Published
  <1>3. PICK i \in sent + 1 .. n : b = Parcel[i]
    BY <1>1
  <1>4. i \in DOMAIN Parcel /\ i > sent + 0
    BY <1>1, <1>2, <1>3
  <1> QED
    BY <1>2, <1>3, <1>4 DEF Published

-----------------------------------------------------------------------------
(* Receipts.                                                               *)

(* A receipt in use, by its worker and handle. *)
LEMMA ReceiptFacts ==
  ASSUME NEW b \in Bodies, NEW w \in Workers, NEW h \in Handles
  PROVE  /\ <<w, h>> \in Receipts(b) <=> <<b, h>> \in InHands(w)
         /\ Succeeded(b, <<w, h>>) <=> task[w][<<b, h>>] = "succeeded"
         /\ <<b, h>> \in Messages
  BY SqsAssumption DEF Receipts, Succeeded

(* A receipt that a goroutine has is in use. *)
LEMMA HeldReceipt ==
  ASSUME NEW b \in Bodies, NEW w \in Workers, NEW h \in Handles, task[w][<<b, h>>] # "none"
  PROVE  <<w, h>> \in Receipts(b) /\ <<b, h>> \in Held(w)
  BY ReceiptFacts DEF InHands, Held

(* A step that takes no receipt of b into use, and changes neither its     *)
(* lease nor what handlers did with it, keeps its ledger.                  *)
LEMMA LedgerKept ==
  ASSUME NEW b \in Bodies, LedgerOf(b),
         Receipts(b)' \subseteq Receipts(b),
         \A u \in Receipts(b)' : Succeeded(b, u)' <=> Succeeded(b, u),
         b \in expired' <=> b \in expired,
         handled'[b] = handled[b],
         store'[b] = store[b] \/ store'[b] = "leased"
  PROVE  LedgerOf(b)'
  BY DEF LedgerOf

(* The same when a worker has nothing to do with b. *)
LEMMA LedgerSame ==
  ASSUME NEW b \in Bodies, LedgerOf(b), UNCHANGED <<batch, task>>,
         b \in expired' <=> b \in expired,
         handled'[b] = handled[b],
         store'[b] = store[b] \/ store'[b] = "leased"
  PROVE  LedgerOf(b)'
  <1>1. Receipts(b)' = Receipts(b)
    BY DEF Receipts, InHands, Held
  <1>2. \A u \in Receipts(b)' : Succeeded(b, u)' <=> Succeeded(b, u)
    BY DEF Succeeded
  <1> QED
    BY <1>1, <1>2, LedgerKept

-----------------------------------------------------------------------------
(* The steps, sorted by what they do to the receipts.                      *)

(* A step of the loop or of a goroutine that touches no receipt. *)
Quiet ==
  /\ UNCHANGED <<batch, task, sqsVars, pubVars>>
  /\ \E w \in Workers, label \in PC \ {"dispatch"} :
       pc[w] # "dispatch" /\ pc' = [pc EXCEPT ![w] = label]

(* A goroutine ends, with the receipt of b. *)
Drops(w, b, h) ==
  /\ task[w][<<b, h>>] \in {"succeeded", "failed"}
  /\ task' = [task EXCEPT ![w][<<b, h>>] = "none"]
  /\ store'[b] = "deleted" => store[b] = "deleted" \/ task[w][<<b, h>>] = "succeeded"
  /\ store'[b] = "visible" => store[b] = "visible" \/ task[w][<<b, h>>] = "failed"
  /\ store'[b] \in {store[b], "deleted", "visible"}
  /\ \A c \in Bodies : c # b => store'[c] = store[c]
  /\ store' \in [Bodies -> {"absent", "visible", "leased", "deleted"}]
  /\ store'[b] # store[b] => store'[b] = "deleted" \/ store[b] = "leased"
  /\ UNCHANGED <<pc, batch, expired, handled, pubVars>>

(* Consume fails: the leases stay taken. *)
ReceiveDrops(w, S) ==
  /\ pc[w] = "consume"
  /\ \A b \in S : store[b] = "visible"
  /\ store' = Leased(S)
  /\ pc' = [pc EXCEPT ![w] = "drain"]
  /\ batch' = [batch EXCEPT ![w] = <<>>]
  /\ UNCHANGED <<task, expired, handled, pubVars>>

(* The steps of SqsNext, sorted. *)
LEMMA SqsSteps ==
  ASSUME SqsTypeOK, SqsNext
  PROVE  \/ PublishBatch \/ PublishBatchFails
         \/ \E b \in Bodies : Expire(b)
         \/ Crash
         \/ Quiet
         \/ UNCHANGED <<pc, batch, task, sqsVars, pubVars>>
         \/ \E w \in Workers :
              \/ WorkerAlone(Dispatch(w))
              \/ \E S \in SUBSET Bodies : Receive(w, S) \/ ReceiveDrops(w, S)
              \/ \E b \in Bodies, h \in Handles :
                   \/ SqsHandleOk(w, b, h) \/ WorkerAlone(HandleErr(w, <<b, h>>))
                   \/ Drops(w, b, h)
  <1>1. ASSUME NEW w \in Workers, NEW label \in PC \ {"dispatch"}, Goto(w, label),
               pc[w] # "dispatch", UNCHANGED <<sqsVars, pubVars>>
        PROVE  Quiet
    BY <1>1 DEF Goto, taskVars, Quiet
  <1>2. ASSUME NEW w \in Workers, WorkerAlone(Start(w)) \/ ReceiveNothing(w) PROVE Quiet
    BY <1>1, <1>2 DEF WorkerAlone, Start, ReceiveNothing, PC
  <1>3. ASSUME NEW w \in Workers, WorkerAlone(TopDefault(w) \/ PollTimer(w) \/ Done(w))
        PROVE  Quiet
    BY <1>1, <1>3 DEF WorkerAlone, TopDefault, PollTimer, Done, PC
  <1>4. ASSUME NEW w \in Workers, WorkerAlone(ReleaseSlot(w)) \/ WorkerAlone(WgDone(w))
        PROVE  UNCHANGED <<pc, batch, task, sqsVars, pubVars>>
    BY <1>4 DEF WorkerAlone, ReleaseSlot, WgDone, workerVars
  <1>5. ASSUME NEW w \in Workers, NEW S \in SUBSET Bodies,
               ReceiveGarbled(w, S) \/ ReceiveFails(w, S)
        PROVE  ReceiveDrops(w, S)
    BY <1>5 DEF ReceiveGarbled, ReceiveFails, ReceiveDrops, Answer, Leave, taskVars
  <1>6. ASSUME NEW w \in Workers, NEW b \in Bodies, NEW h \in Handles,
               \/ AckApplied(w, b, h) \/ AckFails(w, b, h)
               \/ NackApplied(w, b, h) \/ NackFails(w, b, h)
        PROVE  Drops(w, b, h)
    <2>1. CASE AckApplied(w, b, h)
      BY <2>1 DEF AckApplied, Processed, workerVars, Drops, SqsTypeOK
    <2>2. CASE AckFails(w, b, h)
      BY <2>2 DEF AckFails, Processed, workerVars, sqsVars, Drops, SqsTypeOK
    <2>3. CASE NackApplied(w, b, h)
      BY <2>3 DEF NackApplied, Processed, workerVars, Drops, SqsTypeOK
    <2>4. CASE NackFails(w, b, h)
      BY <2>4 DEF NackFails, Processed, workerVars, sqsVars, Drops, SqsTypeOK
    <2> QED
      BY <1>6, <2>1, <2>2, <2>3, <2>4
  <1>7. ASSUME NEW w \in Workers, WorkerLoop(w) PROVE Quiet \/ WorkerAlone(Dispatch(w))
    BY <1>3, <1>7 DEF WorkerLoop, WorkerAlone
  <1> QED
    BY <1>2, <1>4, <1>5, <1>6, <1>7 DEF SqsNext

(* Dispatch gives the first item to a goroutine. *)
LEMMA DispatchFacts ==
  ASSUME SqsTypeOK, NEW w \in Workers, ItemsOf(w), WorkerAlone(Dispatch(w))
  PROVE  /\ Head(batch[w]) \in Messages /\ Head(batch[w]) \in Range(batch[w])
         /\ task[w][Head(batch[w])] = "none"
         /\ task' = [task EXCEPT ![w][Head(batch[w])] = "running"]
         /\ task' \in [Workers -> [Messages -> Task]]
         /\ batch' = [batch EXCEPT ![w] = batch'[w]] /\ batch'[w] \in Seq(Messages)
         /\ Range(batch[w]) = Range(batch'[w]) \cup {Head(batch[w])}
         /\ IsInjective(batch'[w]) /\ Head(batch[w]) \notin Range(batch'[w])
         /\ pc' = [pc EXCEPT ![w] = IF batch'[w] = <<>> THEN "top" ELSE "dispatch"]
         /\ UNCHANGED <<sqsVars, pubVars>>
  <1>1. /\ batch[w] \in Seq(Messages) /\ batch[w] # <<>> /\ batch'[w] = Tail(batch[w])
        /\ batch' = [batch EXCEPT ![w] = batch'[w]]
        /\ task' = [task EXCEPT ![w][Head(batch[w])] = "running"]
        /\ pc' = [pc EXCEPT ![w] = IF Len(batch[w]) = 1 THEN "top" ELSE "dispatch"]
        /\ UNCHANGED <<sqsVars, pubVars>>
    BY DEF WorkerAlone, Dispatch, Spawn, ItemsOf, SqsTypeOK
  <1>2. /\ Head(batch[w]) \in Messages /\ batch'[w] \in Seq(Messages)
        /\ Range(batch[w]) = Range(batch'[w]) \cup {Head(batch[w])}
        /\ IsInjective(batch'[w]) /\ Head(batch[w]) \notin Range(batch'[w])
        /\ batch'[w] = <<>> <=> Len(batch[w]) = 1
    BY <1>1, TailFacts, TailLength DEF ItemsOf
  <1>3. task[w][Head(batch[w])] = "none"
    BY <1>2 DEF ItemsOf, Held
  <1>4. task' \in [Workers -> [Messages -> Task]]
    BY <1>1, <1>2 DEF SqsTypeOK, Task
  <1> QED
    BY <1>1, <1>2, <1>3, <1>4

(* An answer becomes a batch of new receipts, one for each of its bodies. *)
LEMMA ReceiveFacts ==
  ASSUME SqsTypeOK, NEW w \in Workers, NEW S \in SUBSET Bodies, Receive(w, S)
  PROVE  /\ batch'[w] \in Seq(Messages) /\ batch' = [batch EXCEPT ![w] = batch'[w]]
         /\ batch'[w] # <<>> /\ IsInjective(batch'[w])
         /\ \A r \in Range(batch'[w]) : \E b \in S : r = Item(b)
         /\ \A b \in S : /\ store[b] = "visible"
                         /\ Item(b) = <<b, Item(b)[2]>> /\ Item(b)[2] \in Handles
                         /\ \A v \in Workers : Item(b) \notin InHands(v)
  <1>1. PICK s \in SetToSeqs(S) : batch' = [batch EXCEPT ![w] = [i \in DOMAIN s |-> Item(s[i])]]
    BY DEF Receive
  <1> DEFINE q == [i \in DOMAIN s |-> Item(s[i])]
  <1>2. batch'[w] = q /\ batch' = [batch EXCEPT ![w] = batch'[w]]
    BY <1>1 DEF SqsTypeOK
  <1>3. ASSUME NEW b \in S
        PROVE  /\ store[b] = "visible" /\ Item(b) \in Messages
               /\ Item(b) = <<b, Item(b)[2]>> /\ Item(b)[2] \in Handles
               /\ \A v \in Workers : Item(b) \notin InHands(v)
    <2>1. store[b] = "visible" /\ FreeHandles(b) # {}
      BY DEF Receive, Answer
    <2> DEFINE h == CHOOSE h \in FreeHandles(b) : TRUE
    <2>2. h \in FreeHandles(b)
      BY <2>1
    <2>3. Item(b) = <<b, h>>
      BY DEF Item
    <2> HIDE DEF h
    <2>4. h \in Handles /\ \A v \in Workers : <<b, h>> \notin InHands(v)
      BY <2>2 DEF FreeHandles, InHands
    <2> QED
      BY <2>1, <2>3, <2>4, SqsAssumption
  <1>4. IsFiniteSet(Bodies) /\ IsFiniteSet(S) /\ Cardinality(S) \in Nat \ {0}
    <2>1. Parcel \in Seq(Bodies) /\ Bodies = Range(Parcel)
      BY SqsAssumption
    <2>2. IsFiniteSet(1 .. Len(Parcel))
      BY <2>1, FS_Interval
    <2>3. Parcel \in Surjection(1 .. Len(Parcel), Bodies)
      BY <2>1 DEF Surjection, Range
    <2>4. IsFiniteSet(Bodies)
      BY <2>2, <2>3, FS_Surjection
    <2>5. S # {}
      BY DEF Receive
    <2> QED
      BY <2>4, <2>5, FS_Subset, FS_EmptySet, FS_CardinalityType
  <1>5. /\ DOMAIN s = 1 .. Cardinality(S) /\ \A i \in DOMAIN s : s[i] \in S
        /\ \A i, j \in DOMAIN s : i # j => s[i] # s[j]
    BY DEF SetToSeqs
  <1>6. \A i \in DOMAIN s : q[i] = Item(s[i]) /\ q[i] \in Messages
    BY <1>3, <1>5
  <1>7. q \in Seq(Messages) /\ Len(q) = Cardinality(S)
    BY <1>4, <1>5, <1>6
  <1>8. q # <<>>
    BY <1>4, <1>7
  <1>9. IsInjective(q)
    <2> SUFFICES ASSUME NEW i \in DOMAIN s, NEW j \in DOMAIN s, q[i] = q[j] PROVE i = j
      BY DEF IsInjective
    <2>1. Item(s[i]) = Item(s[j])
      BY <1>6
    <2>2. s[i] = s[j]
      BY <1>3, <1>5, <2>1
    <2> QED
      BY <1>5, <2>2
  <1>10. \A r \in Range(q) : \E b \in S : r = Item(b)
    BY <1>5 DEF Range
  <1> QED
    BY <1>2, <1>3, <1>7, <1>8, <1>9, <1>10

-----------------------------------------------------------------------------
(* Types.                                                                  *)

(* A set of bodies that SQS takes or leases. *)
LEMMA StoreType ==
  ASSUME SqsTypeOK, NEW S
  PROVE  /\ Stored(S) \in [Bodies -> {"absent", "visible", "leased", "deleted"}]
         /\ Leased(S) \in [Bodies -> {"absent", "visible", "leased", "deleted"}]
  BY DEF SqsTypeOK, Stored, Leased

(* SqsTypeOK is preserved by every step from a state of the invariant. *)
LEMMA TypeStep == SqsInv /\ [SqsNext]_qvars => SqsTypeOK'
  <1> SUFFICES ASSUME SqsInv, [SqsNext]_qvars PROVE SqsTypeOK'
    OBVIOUS
  <1>0. SqsTypeOK /\ \A w \in Workers : ItemsOf(w)
    BY DEF SqsInv
  <1>1. CASE UNCHANGED <<pc, batch, task, sqsVars>>
    BY <1>0, <1>1 DEF SqsTypeOK, sqsVars
  <1>2. CASE PublishBatch \/ PublishBatchFails
    BY <1>0, <1>2, StoreType
    DEF SqsTypeOK, PublishBatch, PublishBatchFails, vars, workerVars, taskVars
  <1>3. ASSUME NEW b \in Bodies, Expire(b) PROVE SqsTypeOK'
    BY <1>0, <1>3 DEF SqsTypeOK, Expire, vars, workerVars, taskVars
  <1>4. CASE Crash
    <2>1. batch' \in [Workers -> Seq(Messages)]
      BY <1>4 DEF Crash
    <2>2. task' \in [Workers -> [Messages -> Task]] /\ pc' \in [Workers -> PC]
      BY <1>4 DEF Crash, Task, PC
    <2> QED
      BY <1>0, <1>4, <2>1, <2>2 DEF SqsTypeOK, Crash, sqsVars
  <1>5. CASE Quiet
    BY <1>0, <1>5 DEF SqsTypeOK, Quiet, sqsVars
  <1>6. ASSUME NEW w \in Workers, WorkerAlone(Dispatch(w)) PROVE SqsTypeOK'
    <2>1. batch' \in [Workers -> Seq(Messages)]
      <3>1. batch' = [batch EXCEPT ![w] = batch'[w]] /\ batch'[w] \in Seq(Messages)
        BY <1>0, <1>6, DispatchFacts
      <3> QED
        BY <1>0, <3>1 DEF SqsTypeOK
    <2>2. pc' \in [Workers -> PC]
      BY <1>0, <1>6, DispatchFacts DEF SqsTypeOK, PC
    <2> QED
      BY <1>0, <1>6, <2>1, <2>2, DispatchFacts DEF SqsTypeOK, sqsVars
  <1>7. ASSUME NEW w \in Workers, NEW S \in SUBSET Bodies, Receive(w, S) PROVE SqsTypeOK'
    <2>1. batch' \in [Workers -> Seq(Messages)]
      BY <1>0, <1>7, ReceiveFacts DEF SqsTypeOK
    <2>2. pc' \in [Workers -> PC]
      BY <1>0, <1>7 DEF SqsTypeOK, Receive, PC
    <2>3. store' = Leased(S) /\ UNCHANGED <<task, expired, handled>>
      BY <1>7 DEF Receive, taskVars
    <2> QED
      BY <1>0, <2>1, <2>2, <2>3, StoreType DEF SqsTypeOK
  <1>8. ASSUME NEW w \in Workers, NEW S \in SUBSET Bodies, ReceiveDrops(w, S) PROVE SqsTypeOK'
    <2>1. batch' \in [Workers -> Seq(Messages)]
      BY <1>0, <1>8 DEF SqsTypeOK, ReceiveDrops
    <2>2. pc' \in [Workers -> PC]
      BY <1>0, <1>8 DEF SqsTypeOK, ReceiveDrops, PC
    <2> QED
      BY <1>0, <1>8, <2>1, <2>2, StoreType DEF SqsTypeOK, ReceiveDrops
  <1>9. ASSUME NEW w \in Workers, NEW b \in Bodies, NEW h \in Handles, SqsHandleOk(w, b, h)
        PROVE  SqsTypeOK'
    <2>1. handled[b] \in 0 .. 2 /\ Min({2, handled[b] + 1}) \in 0 .. 2
      <3>1. handled[b] \in 0 .. 2
        BY <1>0 DEF SqsTypeOK
      <3>2. handled[b] + 1 \in Nat /\ 2 \in Nat
        BY <3>1
      <3>3. Min({2, handled[b] + 1}) \in Nat /\ Min({2, handled[b] + 1}) <= 2
        BY <3>2, MinFacts
      <3> QED
        BY <3>1, <3>3
    <2>2. handled' \in [Bodies -> 0 .. 2]
      BY <1>0, <1>9, <2>1 DEF SqsTypeOK, SqsHandleOk
    <2>3. task' \in [Workers -> [Messages -> Task]]
      BY <1>0, <1>9 DEF SqsTypeOK, SqsHandleOk, HandleOk, Task
    <2> QED
      BY <1>0, <1>9, <2>2, <2>3 DEF SqsTypeOK, SqsHandleOk, HandleOk, workerVars
  <1>10. ASSUME NEW w \in Workers, NEW b \in Bodies, NEW h \in Handles,
                WorkerAlone(HandleErr(w, <<b, h>>))
         PROVE  SqsTypeOK'
    <2>1. task' \in [Workers -> [Messages -> Task]]
      BY <1>0, <1>10 DEF SqsTypeOK, WorkerAlone, HandleErr, Task
    <2> QED
      BY <1>0, <1>10, <2>1 DEF SqsTypeOK, WorkerAlone, HandleErr, workerVars, sqsVars
  <1>11. ASSUME NEW w \in Workers, NEW b \in Bodies, NEW h \in Handles, Drops(w, b, h)
         PROVE  SqsTypeOK'
    <2>1. task' \in [Workers -> [Messages -> Task]]
      BY <1>0, <1>11 DEF SqsTypeOK, Drops, Task
    <2> QED
      BY <1>0, <1>11, <2>1 DEF SqsTypeOK, Drops
  <1> QED
    BY <1>0, <1>1, <1>2, <1>3, <1>4, <1>5, <1>6, <1>7, <1>8, <1>9, <1>10, <1>11, SqsSteps
    DEF qvars, vars, workerVars, taskVars

-----------------------------------------------------------------------------
(* The items of a worker.                                                  *)

(* A step that keeps the place and the items of a worker, and gives its    *)
(* goroutines no new receipt.                                              *)
LEMMA ItemsKept ==
  ASSUME NEW v \in Workers, ItemsOf(v), pc'[v] = pc[v], batch'[v] = batch[v],
         Held(v)' \subseteq Held(v)
  PROVE  ItemsOf(v)'
  BY DEF ItemsOf

(* ItemsOf is preserved by every step from a state of the invariant. *)
LEMMA ItemsStep == SqsInv /\ [SqsNext]_qvars => \A v \in Workers : ItemsOf(v)'
  <1> SUFFICES ASSUME SqsInv, [SqsNext]_qvars, NEW v \in Workers PROVE ItemsOf(v)'
    OBVIOUS
  <1>0. SqsTypeOK /\ (\A w \in Workers : ItemsOf(w)) /\ ItemsOf(v)
    BY DEF SqsInv
  <1>1. CASE UNCHANGED <<pc, batch, task>>
    BY <1>0, <1>1, ItemsKept DEF Held
  <1>2. CASE Crash
    <2>1. batch'[v] = <<>> /\ pc'[v] = "idle"
      BY <1>2 DEF Crash
    <2> QED
      BY <2>1, EmptyFacts DEF ItemsOf
  <1>3. CASE Quiet
    <2>1. UNCHANGED <<batch, task>>
      BY <1>3 DEF Quiet
    <2>2. pc'[v] = "dispatch" <=> pc[v] = "dispatch"
      BY <1>0, <1>3 DEF Quiet, SqsTypeOK
    <2> QED
      BY <1>0, <2>1, <2>2 DEF ItemsOf, Held
  <1>4. ASSUME NEW w \in Workers, WorkerAlone(Dispatch(w)) PROVE ItemsOf(v)'
    <2>1. CASE v # w
      <3>1. pc'[v] = pc[v] /\ batch'[v] = batch[v] /\ task'[v] = task[v]
        BY <1>0, <1>4, <2>1, DispatchFacts DEF SqsTypeOK
      <3> QED
        BY <1>0, <3>1, ItemsKept DEF Held
    <2>2. CASE v = w
      <3>1. pc'[w] = IF batch'[w] = <<>> THEN "top" ELSE "dispatch"
        BY <1>0, <1>4, DispatchFacts DEF SqsTypeOK
      <3>2. task'[w] = [task[w] EXCEPT ![Head(batch[w])] = "running"]
        <4>1. task' = [task EXCEPT ![w][Head(batch[w])] = "running"]
          BY <1>0, <1>4, DispatchFacts
        <4> QED
          BY <1>0, <4>1 DEF SqsTypeOK
      <3>3. Held(w)' \subseteq Held(w) \cup {Head(batch[w])}
        BY <1>0, <3>2 DEF Held, SqsTypeOK
      <3>4. /\ Range(batch'[w]) \subseteq Range(batch[w])
            /\ IsInjective(batch'[w]) /\ Head(batch[w]) \notin Range(batch'[w])
        BY <1>0, <1>4, DispatchFacts
      <3>5. Range(batch'[w]) \cap Held(w)' = {}
        BY <1>0, <3>3, <3>4 DEF ItemsOf
      <3> QED
        BY <2>2, <3>1, <3>4, <3>5 DEF ItemsOf
    <2> QED
      BY <2>1, <2>2
  <1>5. ASSUME NEW w \in Workers, NEW S \in SUBSET Bodies, Receive(w, S) PROVE ItemsOf(v)'
    <2>1. task' = task /\ pc' = [pc EXCEPT ![w] = "dispatch"]
      BY <1>5 DEF Receive, taskVars
    <2>2. CASE v # w
      <3>1. batch' = [batch EXCEPT ![w] = batch'[w]]
        BY <1>0, <1>5, ReceiveFacts
      <3>2. pc'[v] = pc[v] /\ batch'[v] = batch[v]
        BY <1>0, <2>1, <2>2, <3>1 DEF SqsTypeOK
      <3> QED
        BY <1>0, <2>1, <3>2, ItemsKept DEF Held
    <2>3. CASE v = w
      <3>1. pc'[w] = "dispatch" /\ batch'[w] # <<>> /\ IsInjective(batch'[w])
        BY <1>0, <1>5, <2>1, ReceiveFacts DEF SqsTypeOK
      <3>2. Range(batch'[w]) \cap InHands(w) = {}
        BY <1>0, <1>5, ReceiveFacts
      <3>3. Held(w)' = Held(w) /\ Held(w) \subseteq InHands(w)
        BY <2>1 DEF Held, InHands
      <3> QED
        BY <2>3, <3>1, <3>2, <3>3 DEF ItemsOf
    <2> QED
      BY <2>2, <2>3
  <1>6. ASSUME NEW w \in Workers, NEW S \in SUBSET Bodies, ReceiveDrops(w, S) PROVE ItemsOf(v)'
    <2>1. /\ task' = task
          /\ pc'[v] = IF v = w THEN "drain" ELSE pc[v]
          /\ batch'[v] = IF v = w THEN <<>> ELSE batch[v]
      BY <1>0, <1>6 DEF ReceiveDrops, SqsTypeOK
    <2> QED
      BY <1>0, <2>1, EmptyFacts DEF ItemsOf, Held
  <1>7. ASSUME NEW w \in Workers, NEW r \in Messages, NEW t, task[w][r] # "none",
               task' = [task EXCEPT ![w][r] = t], UNCHANGED <<pc, batch>>
        PROVE  ItemsOf(v)'
    <2>1. task'[v] = IF v = w THEN [task[w] EXCEPT ![r] = t] ELSE task[v]
      BY <1>0, <1>7 DEF SqsTypeOK
    <2>2. Held(v)' \subseteq Held(v)
      BY <1>0, <1>7, <2>1 DEF Held, SqsTypeOK
    <2> QED
      BY <1>0, <1>7, <2>2, ItemsKept
  <1>8. ASSUME NEW w \in Workers, NEW b \in Bodies, NEW h \in Handles,
               \/ SqsHandleOk(w, b, h) \/ WorkerAlone(HandleErr(w, <<b, h>>))
               \/ Drops(w, b, h)
        PROVE  ItemsOf(v)'
    <2>1. <<b, h>> \in Messages
      BY SqsAssumption
    <2> QED
      BY <1>7, <1>8, <2>1 DEF SqsHandleOk, HandleOk, WorkerAlone, HandleErr, Drops, workerVars
  <1> QED
    BY <1>0, <1>1, <1>2, <1>3, <1>4, <1>5, <1>6, <1>8, SqsSteps
    DEF qvars, vars, workerVars, taskVars, PublishBatch, PublishBatchFails, Expire

-----------------------------------------------------------------------------
(* The chunks of Publish.                                                  *)

(* A step of SQS or of a worker takes no body of the parcel out of the     *)
(* store, nor puts one in.                                                 *)
LEMMA PublishedKept ==
  ASSUME Published, UNCHANGED pubVars,
         \A b \in Bodies : store'[b] = "absent" <=> store[b] = "absent"
  PROVE  Published'
  <1>1. \A i \in DOMAIN Parcel : Parcel[i] \in Bodies
    BY SqsAssumption
  <1> QED
    BY <1>1 DEF Published, pubVars

(* Published is preserved by every step from a state of the invariant. *)
LEMMA PublishedStep == SqsInv /\ [SqsNext]_qvars => Published'
  <1> SUFFICES ASSUME SqsInv, [SqsNext]_qvars PROVE Published'
    OBVIOUS
  <1>0. SqsTypeOK /\ Published
    BY DEF SqsInv
  <1>1. /\ \A i \in DOMAIN Parcel : Parcel[i] \in Bodies /\ i \in Nat
        /\ DOMAIN Parcel = 1 .. Len(Parcel) /\ Len(Parcel) \in Nat
        /\ SendLimit \in Nat \ {0} /\ sent \in Nat /\ sent <= Len(Parcel)
        /\ \A i, j \in DOMAIN Parcel : Parcel[i] = Parcel[j] => i = j
    BY <1>0, SqsAssumption DEF Published, IsInjective
  <1>2. PICK n \in sent .. Len(Parcel) :
           /\ n <= sent + SendLimit
           /\ Chunk = {Parcel[i] : i \in sent + 1 .. n}
           /\ sent + Cardinality(Chunk) = n
    BY <1>0, ChunkFacts
  <1>3. \A i \in DOMAIN Parcel : Parcel[i] \in Chunk <=> sent < i /\ i <= n
    BY <1>1, <1>2
  <1>4. CASE PublishBatch
    <2>1. pub = "sending" /\ sent' = n /\ (pub' = "ok" => n = Len(Parcel))
      BY <1>2, <1>4 DEF PublishBatch
    <2>2. \A i \in DOMAIN Parcel :
            store'[Parcel[i]] = IF Parcel[i] \in Chunk THEN "visible" ELSE store[Parcel[i]]
      BY <1>1, <1>4 DEF PublishBatch, Stored
    <2>3. ASSUME NEW i \in DOMAIN Parcel, i <= n PROVE store'[Parcel[i]] # "absent"
      <3>1. CASE i <= sent
        BY <1>0, <2>2, <3>1 DEF Published
      <3>2. CASE ~(i <= sent)
        BY <1>1, <1>3, <2>2, <2>3, <3>2
      <3> QED
        BY <3>1, <3>2
    <2>4. ASSUME NEW i \in DOMAIN Parcel, i > n PROVE store'[Parcel[i]] = "absent"
      <3>1. Parcel[i] \notin Chunk /\ i > sent + 0
        BY <1>1, <1>2, <1>3, <2>4
      <3> QED
        BY <1>0, <2>1, <2>2, <3>1 DEF Published
    <2>5. n \in 0 .. Len(Parcel)
      BY <1>1, <1>2
    <2>6. \A i \in DOMAIN Parcel : \A k \in {0, SendLimit} : i > n + k => i > n
      BY <1>1, <1>2
    <2> QED
      BY <2>1, <2>3, <2>4, <2>5, <2>6 DEF Published
  <1>5. CASE PublishBatchFails
    <2>1. pub = "sending" /\ pub' = "error" /\ sent' = sent
      BY <1>5 DEF PublishBatchFails
    <2>2. PICK S \in SUBSET Chunk : store' = Stored(S)
      BY <1>5 DEF PublishBatchFails
    <2>3. \A i \in DOMAIN Parcel :
            store'[Parcel[i]] = IF Parcel[i] \in S THEN "visible" ELSE store[Parcel[i]]
      BY <1>1, <2>2 DEF Stored
    <2>4. ASSUME NEW i \in DOMAIN Parcel, i <= sent PROVE store'[Parcel[i]] # "absent"
      BY <1>0, <2>3, <2>4 DEF Published
    <2>5. ASSUME NEW i \in DOMAIN Parcel, i > sent + SendLimit
          PROVE  store'[Parcel[i]] = "absent"
      <3>1. Parcel[i] \notin S /\ i > sent + 0
        BY <1>1, <1>2, <1>3, <2>2, <2>5
      <3> QED
        BY <1>0, <2>1, <2>3, <3>1 DEF Published
    <2> QED
      BY <1>0, <2>1, <2>4, <2>5 DEF Published
  <1>6. CASE UNCHANGED <<store, pubVars>>
    BY <1>0, <1>6, PublishedKept
  <1>7. ASSUME NEW b \in Bodies, Expire(b) PROVE Published'
    BY <1>0, <1>7, PublishedKept DEF Expire, SqsTypeOK
  <1>8. ASSUME NEW w \in Workers, NEW S \in SUBSET Bodies, Receive(w, S) \/ ReceiveDrops(w, S)
        PROVE  Published'
    <2>1. UNCHANGED pubVars /\ store' = Leased(S) /\ \A b \in S : store[b] = "visible"
      BY <1>8 DEF Receive, ReceiveDrops, Answer
    <2> QED
      BY <1>0, <2>1, PublishedKept DEF Leased
  <1>9. ASSUME NEW w \in Workers, NEW b \in Bodies, NEW h \in Handles, Drops(w, b, h)
        PROVE  Published'
    <2>1. /\ task[w][<<b, h>>] # "none" /\ UNCHANGED pubVars
          /\ \A c \in Bodies : c # b => store'[c] = store[c]
          /\ store'[b] \in {store[b], "deleted", "visible"}
          /\ store'[b] # store[b] => store'[b] = "deleted" \/ store[b] = "leased"
      BY <1>9 DEF Drops
    <2>2. store[b] # "absent"
      <3>1. Receipts(b) # {}
        BY <2>1, HeldReceipt
      <3> QED
        BY <3>1 DEF SqsInv, LedgerOf
    <2> QED
      BY <1>0, <2>1, <2>2, PublishedKept
  <1> QED
    BY <1>0, <1>4, <1>5, <1>6, <1>7, <1>8, <1>9, SqsSteps
    DEF qvars, vars, sqsVars, Crash, Quiet, WorkerAlone, SqsHandleOk

-----------------------------------------------------------------------------
(* The ledger of a body.                                                   *)

(* SQS takes a new body, of which nobody has a receipt. *)
LEMMA LedgerPublish ==
  ASSUME SqsInv, NEW b \in Bodies, PublishBatch \/ PublishBatchFails
  PROVE  LedgerOf(b)'
  <1>1. PICK S \in SUBSET Chunk : store' = Stored(S)
    BY DEF PublishBatch, PublishBatchFails
  <1>2. UNCHANGED <<batch, task, expired, handled>> /\ pub = "sending"
    BY DEF PublishBatch, PublishBatchFails, vars, workerVars, taskVars
  <1>3. LedgerOf(b) /\ Published
    BY DEF SqsInv
  <1>4. store'[b] = IF b \in S THEN "visible" ELSE store[b]
    BY <1>1 DEF Stored
  <1>5. CASE b \notin S
    BY <1>2, <1>3, <1>4, <1>5, LedgerSame
  <1>6. CASE b \in S
    <2>1. store[b] = "absent" /\ store'[b] = "visible"
      BY <1>1, <1>2, <1>3, <1>4, <1>6, ChunkIsNew
    <2>2. Receipts(b)' = Receipts(b)
      BY <1>2 DEF Receipts, InHands, Held
    <2> QED
      BY <1>2, <1>3, <2>1, <2>2 DEF LedgerOf
  <1> QED
    BY <1>5, <1>6

(* A lease runs out. *)
LEMMA LedgerExpire ==
  ASSUME SqsInv, NEW b \in Bodies, NEW c \in Bodies, Expire(c)
  PROVE  LedgerOf(b)'
  <1>1. UNCHANGED <<batch, task, handled>> /\ expired' = expired \cup {c} /\ store[c] = "leased"
    BY DEF Expire, vars, workerVars, taskVars
  <1>2. LedgerOf(b) /\ store'[b] = IF b = c THEN "visible" ELSE store[b]
    BY DEF SqsInv, SqsTypeOK, Expire
  <1>3. CASE b # c
    BY <1>1, <1>2, <1>3, LedgerSame
  <1>4. CASE b = c
    <2>1. Receipts(b)' = Receipts(b) /\ \A u : Succeeded(b, u)' <=> Succeeded(b, u)
      BY <1>1 DEF Receipts, InHands, Held, Succeeded
    <2>2. store'[b] = "visible" /\ b \in expired'
      BY <1>1, <1>2, <1>4
    <2> QED
      BY <1>1, <1>2, <2>1, <2>2 DEF LedgerOf
  <1> QED
    BY <1>3, <1>4

(* A crash ends the use of every receipt. *)
LEMMA LedgerCrash ==
  ASSUME SqsInv, NEW b \in Bodies, Crash
  PROVE  LedgerOf(b)'
  <1>1. ASSUME NEW w \in Workers PROVE InHands(w)' = {}
    <2>1. batch'[w] = <<>> /\ \A r \in Messages : task'[w][r] = "none"
      BY DEF Crash
    <2> QED
      BY <2>1, EmptyFacts DEF InHands, Held
  <1>2. Receipts(b)' = {}
    BY <1>1 DEF Receipts
  <1>3. UNCHANGED <<store, expired, handled>> /\ LedgerOf(b)
    BY DEF Crash, sqsVars, SqsInv
  <1> QED
    BY <1>2, <1>3, LedgerKept

(* Dispatch gives a receipt from the items to a goroutine. *)
LEMMA LedgerDispatch ==
  ASSUME SqsInv, NEW b \in Bodies, NEW w \in Workers, WorkerAlone(Dispatch(w))
  PROVE  LedgerOf(b)'
  <1> DEFINE r == Head(batch[w])
  <1>0. SqsTypeOK /\ ItemsOf(w) /\ LedgerOf(b)
    BY DEF SqsInv
  <1>1. /\ r \in Messages /\ task[w][r] = "none"
        /\ task' = [task EXCEPT ![w][r] = "running"]
        /\ Range(batch[w]) = Range(batch'[w]) \cup {r}
        /\ UNCHANGED <<store, expired, handled>>
    BY <1>0, DispatchFacts DEF sqsVars
  <1>2. batch' = [batch EXCEPT ![w] = batch'[w]]
    BY <1>0, DispatchFacts
  <1> HIDE DEF r
  <1>3. task'[w] = [task[w] EXCEPT ![r] = "running"] /\ DOMAIN task[w] = Messages
    BY <1>0, <1>1 DEF SqsTypeOK
  <1>4. \A v \in Workers : v # w => task'[v] = task[v] /\ batch'[v] = batch[v]
    BY <1>0, <1>1, <1>2 DEF SqsTypeOK
  <1>5. InHands(w)' = InHands(w)
    BY <1>1, <1>3 DEF InHands, Held
  <1>6. \A v \in Workers : InHands(v)' = InHands(v)
    BY <1>4, <1>5 DEF InHands, Held
  <1>7. Receipts(b)' = Receipts(b)
    BY <1>6 DEF Receipts
  <1>8. ASSUME NEW u \in Receipts(b)' PROVE Succeeded(b, u)' <=> Succeeded(b, u)
    <2>1. PICK v \in Workers, h \in Handles : u = <<v, h>>
      BY <1>7 DEF Receipts
    <2>2. <<b, h>> \in Messages
      BY ReceiptFacts
    <2>3. task'[v][<<b, h>>] = "succeeded" <=> task[v][<<b, h>>] = "succeeded"
      BY <1>1, <1>3, <1>4, <2>2
    <2> QED
      BY <2>1, <2>3 DEF Succeeded
  <1> QED
    BY <1>0, <1>1, <1>7, <1>8, LedgerKept

(* A body of an answer gets its one receipt. *)
LEMMA LedgerReceive ==
  ASSUME SqsInv, NEW b \in Bodies, NEW w \in Workers, NEW S \in SUBSET Bodies, Receive(w, S)
  PROVE  LedgerOf(b)'
  <1>0. SqsTypeOK /\ ItemsOf(w) /\ LedgerOf(b)
    BY DEF SqsInv
  <1>1. store' = Leased(S) /\ UNCHANGED <<task, expired, handled>>
    BY DEF Receive, taskVars
  <1>2. store'[b] = IF b \in S THEN "leased" ELSE store[b]
    BY <1>1 DEF Leased
  <1>3. /\ batch' = [batch EXCEPT ![w] = batch'[w]]
        /\ \A r \in Range(batch'[w]) : \E c \in S : r = Item(c)
        /\ \A c \in S : /\ store[c] = "visible"
                        /\ Item(c) = <<c, Item(c)[2]>> /\ Item(c)[2] \in Handles
                        /\ \A v \in Workers : Item(c) \notin InHands(v)
    BY <1>0, ReceiveFacts
  <1>4. \A v \in Workers : v # w => InHands(v)' = InHands(v)
    BY <1>0, <1>1, <1>3 DEF SqsTypeOK, InHands, Held
  <1>5. InHands(w)' \subseteq InHands(w) \cup Range(batch'[w])
    BY <1>1 DEF InHands, Held
  <1>6. \A u : Succeeded(b, u)' <=> Succeeded(b, u)
    BY <1>1 DEF Succeeded
  <1>7. CASE b \notin S
    <2>1. ASSUME NEW h \in Handles, <<b, h>> \in InHands(w)' PROVE <<b, h>> \in InHands(w)
      BY <1>3, <1>5, <1>7, <2>1
    <2>2. Receipts(b)' \subseteq Receipts(b)
      BY <1>4, <2>1 DEF Receipts
    <2> QED
      BY <1>0, <1>1, <1>2, <1>6, <1>7, <2>2, LedgerKept
  <1>8. CASE b \in S
    <2>1. ASSUME NEW h \in Handles, <<b, h>> \in InHands(w)', <<b, h>> \notin InHands(w)
          PROVE  <<b, h>> = Item(b)
      BY <1>3, <1>5, <2>1
    <2>2. Receipts(b)' \subseteq Receipts(b) \cup {<<w, Item(b)[2]>>}
      <3> SUFFICES ASSUME NEW u \in Receipts(b)', u \notin Receipts(b)
                   PROVE  u = <<w, Item(b)[2]>>
        OBVIOUS
      <3>1. PICK v \in Workers, h \in Handles : u = <<v, h>> /\ <<b, h>> \in InHands(v)'
        BY DEF Receipts
      <3>2. <<b, h>> \notin InHands(v)
        BY <3>1 DEF Receipts
      <3>3. v = w
        BY <1>4, <3>1, <3>2
      <3>4. h = Item(b)[2]
        BY <2>1, <3>1, <3>2, <3>3
      <3> QED
        BY <3>1, <3>3, <3>4
    <2>3. store[b] = "visible" /\ store'[b] = "leased"
      BY <1>2, <1>3, <1>8
    <2>4. ~Succeeded(b, <<w, Item(b)[2]>>)
      <3>1. Item(b) = <<b, Item(b)[2]>> /\ Item(b)[2] \in Handles /\ Item(b) \notin InHands(w)
        BY <1>3, <1>8
      <3>2. task[w][Item(b)] = "none"
        BY <3>1, SqsAssumption DEF InHands, Held
      <3> QED
        BY <3>1, <3>2 DEF Succeeded
    <2>5. b \notin expired => Receipts(b) = {} /\ handled[b] = 0
      BY <1>0, <2>3 DEF LedgerOf
    <2>6. \A u \in Receipts(b)' : Succeeded(b, u)' => handled'[b] > 0
      BY <1>0, <1>1, <1>6, <2>2, <2>4 DEF LedgerOf
    <2>7. b \notin expired => \A u, v \in Receipts(b)' : u = v
      BY <2>2, <2>5
    <2> QED
      BY <1>1, <2>3, <2>5, <2>6, <2>7 DEF LedgerOf
  <1> QED
    BY <1>7, <1>8

(* A failed consume gives up its items, and takes leases of visible bodies. *)
LEMMA LedgerReceiveDrops ==
  ASSUME SqsInv, NEW b \in Bodies, NEW w \in Workers, NEW S \in SUBSET Bodies,
         ReceiveDrops(w, S)
  PROVE  LedgerOf(b)'
  <1>0. SqsTypeOK /\ ItemsOf(w) /\ LedgerOf(b)
    BY DEF SqsInv
  <1>1. /\ store' = Leased(S) /\ UNCHANGED <<task, expired, handled>>
        /\ batch[w] = <<>> /\ batch' = [batch EXCEPT ![w] = <<>>]
    BY <1>0 DEF ReceiveDrops, ItemsOf
  <1>2. batch' = batch
    BY <1>0, <1>1 DEF SqsTypeOK
  <1>3. store'[b] = store[b] \/ store'[b] = "leased"
    BY <1>1 DEF Leased
  <1> QED
    BY <1>0, <1>1, <1>2, <1>3, LedgerSame

(* What a change of one goroutine does to the receipts. *)
LEMMA TaskFacts ==
  ASSUME SqsTypeOK, NEW w \in Workers, NEW b \in Bodies, NEW h \in Handles, NEW t \in Task,
         task[w][<<b, h>>] # "none", task' = [task EXCEPT ![w][<<b, h>>] = t], batch' = batch
  PROVE  /\ <<w, h>> \in Receipts(b)
         /\ Succeeded(b, <<w, h>>)' <=> t = "succeeded"
         /\ \A c \in Bodies :
              /\ Receipts(c)' \subseteq Receipts(c)
              /\ \A u \in Receipts(c) : <<c, u>> # <<b, <<w, h>>>>
                                           => (Succeeded(c, u)' <=> Succeeded(c, u))
  <1>1. <<w, h>> \in Receipts(b) /\ <<b, h>> \in Messages
    BY HeldReceipt, ReceiptFacts
  <1>2. task'[w] = [task[w] EXCEPT ![<<b, h>>] = t] /\ DOMAIN task[w] = Messages
    BY DEF SqsTypeOK
  <1>3. \A v \in Workers : v # w => task'[v] = task[v]
    BY DEF SqsTypeOK
  <1>4. \A v \in Workers : InHands(v)' \subseteq InHands(v)
    BY <1>1, <1>2, <1>3 DEF InHands, Held
  <1>5. Succeeded(b, <<w, h>>)' <=> t = "succeeded"
    BY <1>1, <1>2 DEF Succeeded
  <1>6. ASSUME NEW c \in Bodies PROVE Receipts(c)' \subseteq Receipts(c)
    BY <1>4 DEF Receipts
  <1>7. ASSUME NEW c \in Bodies, NEW u \in Receipts(c), <<c, u>> # <<b, <<w, h>>>>
        PROVE  Succeeded(c, u)' <=> Succeeded(c, u)
    <2>1. PICK v \in Workers, g \in Handles : u = <<v, g>>
      BY DEF Receipts
    <2>2. <<c, g>> \in Messages
      BY ReceiptFacts
    <2>3. task'[v][<<c, g>>] = task[v][<<c, g>>]
      BY <1>2, <1>3, <1>7, <2>1, <2>2
    <2> QED
      BY <2>1, <2>3 DEF Succeeded
  <1> QED
    BY <1>1, <1>5, <1>6, <1>7

(* A handler ends well. *)
LEMMA LedgerHandleOk ==
  ASSUME SqsInv, NEW b \in Bodies, NEW w \in Workers, NEW c \in Bodies, NEW h \in Handles,
         SqsHandleOk(w, c, h)
  PROVE  LedgerOf(b)'
  <1>0. SqsTypeOK /\ LedgerOf(b)
    BY DEF SqsInv
  <1>1. /\ task[w][<<c, h>>] = "running" /\ task' = [task EXCEPT ![w][<<c, h>>] = "succeeded"]
        /\ handled' = [handled EXCEPT ![c] = Min({2, handled[c] + 1})]
        /\ UNCHANGED <<batch, store, expired>>
    BY DEF SqsHandleOk, HandleOk, workerVars
  <1>2. /\ <<w, h>> \in Receipts(c) /\ Succeeded(c, <<w, h>>)'
        /\ Receipts(b)' \subseteq Receipts(b)
        /\ \A u \in Receipts(b) : <<b, u>> # <<c, <<w, h>>>>
                                     => (Succeeded(b, u)' <=> Succeeded(b, u))
    BY <1>0, <1>1, TaskFacts DEF Task
  <1>3. CASE b # c
    <2>1. handled'[b] = handled[b]
      BY <1>0, <1>1, <1>3 DEF SqsTypeOK
    <2>2. \A u \in Receipts(b)' : Succeeded(b, u)' <=> Succeeded(b, u)
      BY <1>2, <1>3
    <2> QED
      BY <1>0, <1>1, <1>2, <2>1, <2>2, LedgerKept
  <1>4. CASE b = c
    <2>1. ~Succeeded(b, <<w, h>>)
      BY <1>1, <1>4 DEF Succeeded
    <2>2. handled[b] \in 0 .. 2 /\ handled'[b] = Min({2, handled[b] + 1})
      BY <1>0, <1>1, <1>4 DEF SqsTypeOK
    <2>3. /\ handled'[b] \in Nat /\ handled'[b] <= 2 /\ handled'[b] <= handled[b] + 1
          /\ handled'[b] = 2 \/ handled'[b] = handled[b] + 1
      <3>1. handled[b] + 1 \in Nat /\ 2 \in Nat
        BY <2>2
      <3> QED
        BY <2>2, <3>1, MinFacts
    <2>4. handled'[b] > 0
      BY <2>2, <2>3
    <2>5. ASSUME b \notin expired PROVE handled'[b] = 1
      <3>1. handled[b] < 2 /\ handled[b] # 1
        BY <1>0, <1>2, <1>4, <2>1, <2>5 DEF LedgerOf
      <3> QED
        BY <2>2, <2>3, <3>1
    <2>6. ASSUME b \notin expired
          PROVE  /\ store[b] \notin {"absent", "visible"}
                 /\ \A u \in Receipts(b)' : u = <<w, h>>
      BY <1>0, <1>2, <1>4, <2>6 DEF LedgerOf
    <2>7. /\ store'[b] = "absent" => b \notin expired'
          /\ UNCHANGED <<store, expired>>
      BY <1>0, <1>1 DEF LedgerOf
    <2>8. b \notin expired' =>
            /\ handled'[b] < 2
            /\ store'[b] \notin {"absent", "visible"}
            /\ \A u, v \in Receipts(b)' : u = v
            /\ \A u \in Receipts(b)' : Succeeded(b, u)'
      BY <1>2, <1>4, <2>5, <2>6, <2>7
    <2> QED
      BY <2>4, <2>7, <2>8 DEF LedgerOf
  <1> QED
    BY <1>3, <1>4

(* A handler fails. *)
LEMMA LedgerHandleErr ==
  ASSUME SqsInv, NEW b \in Bodies, NEW w \in Workers, NEW c \in Bodies, NEW h \in Handles,
         WorkerAlone(HandleErr(w, <<c, h>>))
  PROVE  LedgerOf(b)'
  <1>0. SqsTypeOK /\ LedgerOf(b)
    BY DEF SqsInv
  <1>1. /\ task[w][<<c, h>>] = "running" /\ task' = [task EXCEPT ![w][<<c, h>>] = "failed"]
        /\ UNCHANGED <<batch, store, expired, handled>>
    BY DEF WorkerAlone, HandleErr, workerVars, sqsVars
  <1>2. /\ ~Succeeded(c, <<w, h>>)' /\ ~Succeeded(c, <<w, h>>)
        /\ Receipts(b)' \subseteq Receipts(b)
        /\ \A u \in Receipts(b) : <<b, u>> # <<c, <<w, h>>>>
                                     => (Succeeded(b, u)' <=> Succeeded(b, u))
    <2>1. ~Succeeded(c, <<w, h>>)
      BY <1>1 DEF Succeeded
    <2>2. /\ <<w, h>> \in Receipts(c)
          /\ Succeeded(c, <<w, h>>)' <=> "failed" = "succeeded"
          /\ \A d \in Bodies :
               /\ Receipts(d)' \subseteq Receipts(d)
               /\ \A u \in Receipts(d) : <<d, u>> # <<c, <<w, h>>>>
                                            => (Succeeded(d, u)' <=> Succeeded(d, u))
      BY <1>0, <1>1, TaskFacts DEF Task
    <2> QED
      BY <2>1, <2>2
  <1>3. \A u \in Receipts(b)' : Succeeded(b, u)' <=> Succeeded(b, u)
    BY <1>2
  <1> QED
    BY <1>0, <1>1, <1>2, <1>3, LedgerKept

(* A goroutine ends with its receipt: the body is deleted, given back or   *)
(* left to its lease.                                                      *)
LEMMA LedgerDrops ==
  ASSUME SqsInv, NEW b \in Bodies, NEW w \in Workers, NEW c \in Bodies, NEW h \in Handles,
         Drops(w, c, h)
  PROVE  LedgerOf(b)'
  <1>0. SqsTypeOK /\ LedgerOf(b) /\ \A v \in Workers : ItemsOf(v)
    BY DEF SqsInv
  <1>1. /\ task[w][<<c, h>>] # "none" /\ task' = [task EXCEPT ![w][<<c, h>>] = "none"]
        /\ UNCHANGED <<batch, expired, handled>>
    BY DEF Drops
  <1>2. /\ <<w, h>> \in Receipts(c)
        /\ Receipts(b)' \subseteq Receipts(b)
        /\ \A u \in Receipts(b) : <<b, u>> # <<c, <<w, h>>>>
                                     => (Succeeded(b, u)' <=> Succeeded(b, u))
    <2>1. /\ <<w, h>> \in Receipts(c)
          /\ \A d \in Bodies :
               /\ Receipts(d)' \subseteq Receipts(d)
               /\ \A u \in Receipts(d) : <<d, u>> # <<c, <<w, h>>>>
                                            => (Succeeded(d, u)' <=> Succeeded(d, u))
      <3>1. SqsTypeOK /\ batch' = batch /\ task' = [task EXCEPT ![w][<<c, h>>] = "none"]
        BY <1>0, <1>1
      <3>2. CASE task[w][<<c, h>>] = "succeeded"
        BY <3>1, <3>2, TaskFacts DEF Task
      <3>3. CASE task[w][<<c, h>>] = "failed"
        BY <3>1, <3>3, TaskFacts DEF Task
      <3> QED
        BY <3>2, <3>3 DEF Drops
    <2> QED
      BY <2>1
  <1>3. <<w, h>> \notin Receipts(c)'
    <2>1. <<c, h>> \in Held(w) /\ <<c, h>> \in Messages
      BY <1>1, HeldReceipt, ReceiptFacts
    <2>2. <<c, h>> \notin Range(batch[w])
      BY <1>0, <2>1 DEF ItemsOf
    <2>3. task'[w][<<c, h>>] = "none"
      BY <1>0, <1>1, <2>1 DEF SqsTypeOK
    <2>4. <<c, h>> \notin InHands(w)'
      BY <1>1, <2>2, <2>3 DEF InHands, Held
    <2> QED
      BY <2>4 DEF Receipts
  <1>4. \A u \in Receipts(b)' : Succeeded(b, u)' <=> Succeeded(b, u)
    BY <1>2, <1>3
  <1>5. CASE store'[b] = store[b]
    BY <1>0, <1>1, <1>2, <1>4, <1>5, LedgerKept
  <1>6. CASE store'[b] # store[b]
    <2>1. b = c /\ store'[b] \in {"deleted", "visible"}
      BY <1>6 DEF Drops
    <2>2. CASE store'[b] = "deleted"
      <3>1. Succeeded(b, <<w, h>>)
        BY <1>6, <2>1, <2>2 DEF Drops, Succeeded
      <3>2. handled[b] > 0
        BY <1>0, <1>2, <2>1, <3>1 DEF LedgerOf
      <3> QED
        BY <1>0, <1>1, <1>2, <1>4, <2>2, <3>2 DEF LedgerOf
    <2>3. CASE store'[b] = "visible"
      <3>1. ~Succeeded(b, <<w, h>>)
        BY <1>6, <2>1, <2>3 DEF Drops, Succeeded
      <3>2. ASSUME b \notin expired PROVE Receipts(b)' = {} /\ handled[b] = 0
        <4>1. \A u \in Receipts(b) : u = <<w, h>>
          BY <1>0, <1>2, <2>1, <3>2 DEF LedgerOf
        <4>2. handled[b] < 2 /\ handled[b] # 1
          BY <1>0, <1>2, <2>1, <3>1, <3>2 DEF LedgerOf
        <4>3. handled[b] \in 0 .. 2
          BY <1>0 DEF SqsTypeOK
        <4> QED
          BY <1>2, <1>3, <2>1, <4>1, <4>2, <4>3
      <3> QED
        BY <1>0, <1>1, <1>2, <1>4, <2>3, <3>2 DEF LedgerOf
    <2> QED
      BY <2>1, <2>2, <2>3
  <1> QED
    BY <1>5, <1>6

(* The ledgers are preserved by every step from a state of the invariant. *)
LEMMA LedgerStep == SqsInv /\ [SqsNext]_qvars => \A b \in Bodies : LedgerOf(b)'
  <1> SUFFICES ASSUME SqsInv, [SqsNext]_qvars, NEW b \in Bodies PROVE LedgerOf(b)'
    OBVIOUS
  <1>0. SqsTypeOK /\ LedgerOf(b)
    BY DEF SqsInv
  <1>1. CASE UNCHANGED <<batch, task, sqsVars>>
    BY <1>0, <1>1, LedgerSame DEF sqsVars
  <1> QED
    BY <1>0, <1>1, SqsSteps, LedgerPublish, LedgerExpire, LedgerCrash, LedgerDispatch,
       LedgerReceive, LedgerReceiveDrops, LedgerHandleOk, LedgerHandleErr, LedgerDrops
    DEF qvars, vars, workerVars, taskVars, Quiet

-----------------------------------------------------------------------------
(* The theorems.                                                           *)

(* The initial state satisfies the invariant. *)
LEMMA SqsInvInit == SqsInit => SqsInv
  <1> SUFFICES ASSUME SqsInit PROVE SqsInv
    OBVIOUS
  <1>1. Init
    BY DEF SqsInit
  <1>2. SqsTypeOK
    <2>1. batch \in [Workers -> Seq(Messages)] /\ pc \in [Workers -> PC]
      BY <1>1 DEF Init, PC
    <2>2. task \in [Workers -> [Messages -> Task]]
      BY <1>1 DEF Init, Task
    <2>3. handled \in [Bodies -> 0 .. 2] /\ expired \subseteq Bodies
      BY DEF SqsInit
    <2>4. store \in [Bodies -> {"absent", "visible", "leased", "deleted"}]
      BY DEF SqsInit
    <2> QED
      BY <2>1, <2>2, <2>3, <2>4 DEF SqsTypeOK
  <1>3. ASSUME NEW w \in Workers PROVE ItemsOf(w) /\ InHands(w) = {}
    <2>1. batch[w] = <<>> /\ pc[w] = "idle" /\ \A r \in Messages : task[w][r] = "none"
      BY <1>1 DEF Init
    <2> QED
      BY <2>1, EmptyFacts DEF ItemsOf, Held, InHands
  <1>4. Published
    <2>1. /\ \A i \in DOMAIN Parcel : Parcel[i] \in Bodies /\ i \in Nat \ {0}
          /\ Len(Parcel) \in Nat
      BY SqsAssumption
    <2>2. \A i \in DOMAIN Parcel : store[Parcel[i]] = "absent" /\ ~(i <= 0)
      BY <2>1 DEF SqsInit
    <2> QED
      BY <2>1, <2>2 DEF SqsInit, Published
  <1>5. ASSUME NEW b \in Bodies PROVE LedgerOf(b)
    <2>1. Receipts(b) = {}
      BY <1>3 DEF Receipts
    <2> QED
      BY <2>1 DEF SqsInit, LedgerOf
  <1> QED
    BY <1>2, <1>3, <1>4, <1>5 DEF SqsInv

(* SqsInv holds in every reachable state of the workers on SQS. *)
THEOREM SqsInvariance == SqsSpec => []SqsInv
  <1>1. SqsInv /\ [SqsNext]_qvars => SqsInv'
    BY TypeStep, ItemsStep, PublishedStep, LedgerStep DEF SqsInv
  <1> QED
    BY <1>1, SqsInvInit, PTL DEF SqsSpec

(* A message is deleted only if a handler ended well on it, whatever fails *)
(* and whenever the workers are killed.                                    *)
THEOREM DeletionNeedsSuccess == SqsSpec => []DeletedWasHandled
  <1>1. SqsInv => DeletedWasHandled
    BY DEF SqsInv, LedgerOf, DeletedWasHandled
  <1> QED
    BY <1>1, SqsInvariance, PTL

(* Publish returns no error only when SQS has every message, and sends     *)
(* nothing after a chunk that failed, for any length of the parcel.        *)
THEOREM PublishKeepsContract == SqsSpec => []PublishContract
  <1>1. SqsInv => PublishContract
    <2> SUFFICES ASSUME SqsInv PROVE PublishContract
      OBVIOUS
    <2>1. /\ Published
          /\ DOMAIN Parcel = 1 .. Len(Parcel) /\ Len(Parcel) \in Nat
          /\ SendLimit \in Nat \ {0} /\ sent \in Nat
      BY SqsAssumption DEF SqsInv, Published
    <2>2. ASSUME pub = "ok", NEW b \in Range(Parcel) PROVE store[b] # "absent"
      <3>1. PICK i \in DOMAIN Parcel : b = Parcel[i]
        BY DEF Range
      <3>2. i <= sent
        BY <2>1, <2>2 DEF Published
      <3> QED
        BY <2>1, <3>1, <3>2 DEF Published
    <2>3. ASSUME NEW i \in DOMAIN Parcel, i > sent + SendLimit PROVE store[Parcel[i]] = "absent"
      <3>1. i > sent + 0
        BY <2>1, <2>3
      <3> QED
        BY <2>1, <2>3, <3>1 DEF Published
    <2> QED
      BY <2>2, <2>3 DEF PublishContract
  <1> QED
    BY <1>1, SqsInvariance, PTL

(* Two receipts of one message are in use only after a lease has run out. *)
THEOREM OneReceiptPerLease == SqsSpec => []OverlapNeedsExpiry
  <1>1. SqsInv => OverlapNeedsExpiry
    <2> SUFFICES ASSUME SqsInv, NEW v \in Workers, NEW w \in Workers, NEW b \in Bodies,
                        NEW g \in Handles, NEW h \in Handles, <<v, g>> # <<w, h>>,
                        <<b, g>> \in InHands(v), <<b, h>> \in InHands(w)
                 PROVE  b \in expired
      BY DEF OverlapNeedsExpiry
    <2>1. <<v, g>> \in Receipts(b) /\ <<w, h>> \in Receipts(b)
      BY ReceiptFacts
    <2> QED
      BY <2>1 DEF SqsInv, LedgerOf
  <1> QED
    BY <1>1, SqsInvariance, PTL

(* A handler ends well a second time only after a lease has run out, also  *)
(* when the deletion failed.                                               *)
THEOREM RepeatNeedsExpiry == SqsSpec => []AgainNeedsExpiry
  <1>1. SqsInv => AgainNeedsExpiry
    <2> SUFFICES ASSUME SqsInv, NEW b \in Bodies, handled[b] > 1, b \notin expired PROVE FALSE
      BY DEF AgainNeedsExpiry
    <2>1. handled[b] \in 0 .. 2 /\ handled[b] < 2
      BY DEF SqsInv, SqsTypeOK, LedgerOf
    <2> QED
      BY <2>1
  <1> QED
    BY <1>1, SqsInvariance, PTL

-----------------------------------------------------------------------------
(* GoSqs implements AtLeastOnce.                                           *)

(* Requests that move a set of messages. *)
LEMMA BulkMaps ==
  ASSUME SqsInv,
         \/ PublishBatch \/ PublishBatchFails
         \/ \E w \in Workers, S \in SUBSET Bodies : Receive(w, S) \/ ReceiveDrops(w, S)
  PROVE  Once!Next
  <1>1. CASE PublishBatch \/ PublishBatchFails
    <2>1. PICK S \in SUBSET Chunk : store' = Stored(S)
      BY <1>1 DEF PublishBatch, PublishBatchFails
    <2>2. pub = "sending" /\ UNCHANGED <<expired, handled>> /\ Published
      BY <1>1 DEF PublishBatch, PublishBatchFails, SqsInv
    <2>3. \A b \in S : b \in Bodies /\ store[b] = "absent"
      BY <2>2, ChunkIsNew
    <2>4. Once!Arrive(S)
      BY <2>1, <2>2, <2>3 DEF Once!Arrive, Once!Becomes, Stored
    <2> QED
      BY <2>3, <2>4 DEF Once!Next
  <1>2. ASSUME NEW w \in Workers, NEW S \in SUBSET Bodies, Receive(w, S) \/ ReceiveDrops(w, S)
        PROVE  Once!Next
    <2>1. /\ \A b \in S : store[b] = "visible"
          /\ store' = Leased(S) /\ UNCHANGED <<expired, handled>>
      BY <1>2 DEF Receive, ReceiveDrops, Answer
    <2>2. Once!Lease(S)
      BY <2>1 DEF Once!Lease, Once!Becomes, Leased
    <2> QED
      BY <2>2 DEF Once!Next
  <1> QED
    BY <1>1, <1>2

(* A handler ends well: before any expiry it has the only receipt, and no  *)
(* success came before.                                                    *)
LEMMA SuccessMaps ==
  ASSUME SqsInv, NEW w \in Workers, NEW b \in Bodies, NEW h \in Handles, SqsHandleOk(w, b, h)
  PROVE  Once!Succeed(b)
  <1>0. SqsTypeOK /\ LedgerOf(b) /\ handled[b] \in 0 .. 2
    BY DEF SqsInv, SqsTypeOK
  <1>1. /\ task[w][<<b, h>>] = "running"
        /\ handled' = [handled EXCEPT ![b] = Min({2, handled[b] + 1})]
        /\ UNCHANGED <<store, expired>>
    BY DEF SqsHandleOk, HandleOk
  <1>2. <<w, h>> \in Receipts(b) /\ ~Succeeded(b, <<w, h>>)
    BY <1>1, HeldReceipt DEF Succeeded
  <1>3. ASSUME b \notin expired PROVE handled[b] = 0 /\ store[b] = "leased"
    <2>1. handled[b] = 0
      BY <1>0, <1>2, <1>3 DEF LedgerOf
    <2>2. store[b] \notin {"absent", "visible", "deleted"}
      BY <1>0, <1>2, <1>3, <2>1 DEF LedgerOf
    <2> QED
      BY <1>0, <2>1, <2>2 DEF SqsTypeOK
  <1>4. store[b] # "absent"
    BY <1>0, <1>3 DEF LedgerOf
  <1>5. Min({2, handled[b] + 1}) = IF handled[b] = 0 THEN 1 ELSE 2
    <2>1. handled[b] + 1 \in Nat /\ 2 \in Nat
      BY <1>0
    <2> QED
      BY <1>0, <2>1, MinFacts
  <1> QED
    BY <1>1, <1>3, <1>4, <1>5 DEF Once!Succeed

(* A goroutine ends with its receipt: SQS removes the message after a      *)
(* success, takes it back after a failure, or leaves it to its lease.      *)
LEMMA EndMaps ==
  ASSUME SqsInv, NEW w \in Workers, NEW b \in Bodies, NEW h \in Handles, Drops(w, b, h)
  PROVE  Once!Next \/ UNCHANGED Once!vars
  <1>0. SqsTypeOK /\ LedgerOf(b) /\ handled[b] \in 0 .. 2
    BY DEF SqsInv, SqsTypeOK
  <1>1. <<w, h>> \in Receipts(b) /\ UNCHANGED <<expired, handled>>
    BY HeldReceipt DEF Drops
  <1>2. store' = [c \in Bodies |-> IF c \in {b} THEN store'[b] ELSE store[c]]
    BY <1>0 DEF Drops, SqsTypeOK
  <1>3. CASE store'[b] = store[b]
    BY <1>0, <1>1, <1>2, <1>3 DEF Once!vars, SqsTypeOK
  <1>4. CASE store'[b] = "deleted" /\ store[b] # "deleted"
    <2>1. Succeeded(b, <<w, h>>)
      BY <1>4 DEF Drops, Succeeded
    <2>2. handled[b] > 0
      BY <1>0, <1>1, <2>1 DEF LedgerOf
    <2>3. Once!Remove(b)
      BY <1>1, <1>2, <1>4, <2>2 DEF Once!Remove, Once!Becomes
    <2> QED
      BY <2>3 DEF Once!Next
  <1>5. CASE store'[b] = "visible" /\ store[b] # "visible"
    <2>1. ~Succeeded(b, <<w, h>>) /\ store[b] = "leased"
      BY <1>5 DEF Drops, Succeeded
    <2>2. ASSUME b \notin expired PROVE handled[b] = 0
      BY <1>0, <1>1, <2>1, <2>2 DEF LedgerOf
    <2>3. Once!GiveBack(b)
      BY <1>1, <1>2, <1>5, <2>1, <2>2 DEF Once!GiveBack, Once!Becomes
    <2> QED
      BY <2>3 DEF Once!Next
  <1> QED
    BY <1>3, <1>4, <1>5 DEF Drops

(* Every step of the workers on SQS is a step of AtLeastOnce or a stutter. *)
LEMMA SqsStepMaps == SqsInv /\ [SqsNext]_qvars => [Once!Next]_Once!vars
  <1> SUFFICES ASSUME SqsInv, [SqsNext]_qvars PROVE Once!Next \/ UNCHANGED Once!vars
    OBVIOUS
  <1>0. SqsTypeOK
    BY DEF SqsInv
  <1>1. CASE UNCHANGED sqsVars
    BY <1>1 DEF sqsVars, Once!vars
  <1>2. ASSUME NEW b \in Bodies, Expire(b) PROVE Once!Next
    <2>1. Once!RunOut(b)
      BY <1>0, <1>2 DEF Expire, Once!RunOut, Once!Becomes, SqsTypeOK
    <2> QED
      BY <2>1 DEF Once!Next
  <1>3. ASSUME NEW w \in Workers, NEW b \in Bodies, NEW h \in Handles, SqsHandleOk(w, b, h)
        PROVE  Once!Next
    BY <1>3, SuccessMaps DEF Once!Next
  <1>4. CASE Crash \/ Quiet
    BY <1>1, <1>4 DEF Crash, Quiet
  <1>5. ASSUME NEW w \in Workers, NEW b \in Bodies, NEW h \in Handles,
               WorkerAlone(HandleErr(w, <<b, h>>))
        PROVE  UNCHANGED sqsVars
    BY <1>5 DEF WorkerAlone
  <1>6. ASSUME NEW w \in Workers, WorkerAlone(Dispatch(w)) PROVE UNCHANGED sqsVars
    BY <1>6 DEF WorkerAlone
  <1>7. CASE SqsNext
    BY <1>0, <1>1, <1>2, <1>3, <1>4, <1>5, <1>6, <1>7, SqsSteps, BulkMaps, EndMaps
  <1> QED
    BY <1>1, <1>7 DEF qvars

(* The worker, the adapter and SQS process every message at least once, in *)
(* the sense of AtLeastOnce, through failed requests, stale handles,       *)
(* expired leases and crashes.                                             *)
THEOREM ProcessesAtLeastOnce == SqsSpec => ImplementsAtLeastOnce
  <1>1. SqsInit => Once!Init
    BY DEF SqsInit, Once!Init
  <1> QED
    BY <1>1, SqsInvariance, SqsStepMaps, PTL DEF SqsSpec, Once!Spec, ImplementsAtLeastOnce
=============================================================================
