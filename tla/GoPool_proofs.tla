---------------------------- MODULE GoPool_proofs ----------------------------
(***************************************************************************)
(* Proofs about GoPool, for any finite set of workers, any messages and    *)
(* callers, and any batch size, concurrency and buffer size.               *)
(*                                                                         *)
(* The pool steers its workers only by starting them and by cancelling     *)
(* poolCtx once, so its steps are steps of GoWorker; the rest is a chain   *)
(* of stages, each entered when the one before it is over: the workers,    *)
(* their runners, doneCh, Start of the pool, Stop of the pool.             *)
(***************************************************************************)
EXTENDS GoPool, GoWorker_proofs

(* poolCancel and the propagation from the parent are a Cancel of poolCtx, *)
(* or change nothing.                                                      *)
LEMMA PoolCancelIsCancel ==
  ASSUME IndInv, PoolCancel
  PROVE  Cancel("canceled") \/ UNCHANGED vars
  BY DEF PoolCancel, Cancel, IndInv, TypeOK, vars, signalVars

(* A step of the pool is a step of its workers, or leaves them alone. *)
LEMMA PoolStepIsWorkerStep == PoolInv /\ [PoolNext]_pvars => [Next]_vars
  <1> SUFFICES ASSUME PoolInv, [PoolNext]_pvars PROVE [Next]_vars
    OBVIOUS
  <1>1. CASE UNCHANGED pvars
    BY <1>1 DEF pvars
  <1>2. CASE InWorkers
    BY <1>2 DEF InWorkers, Next, WorkerNext
  <1>3. CASE PropagateCancel
    <2>1. Cancel(parent) /\ parent \in CtxErr
      BY <1>3 DEF PropagateCancel, Cancel, PoolInv, PoolTypeOK
    <2> QED
      BY <2>1 DEF Next
  <1>4. CASE PoolStart
    <2>1. ctx = "none" /\ parent \in CtxErr
      BY <1>4 DEF PoolStart, PoolInv, ErrorsCaused, PoolTypeOK
    <2>2. CASE parent = "none"
      BY <1>4, <2>1, <2>2 DEF PoolStart, vars, signalVars
    <2>3. CASE parent # "none"
      BY <1>4, <2>1, <2>3 DEF PoolStart, Cancel, Next
    <2> QED
      BY <2>2, <2>3
  <1>5. CASE PoolCancel
    BY <1>5, PoolCancelIsCancel DEF PoolInv, Next, CtxErr
  <1>6. ASSUME NEW w \in Workers, RunnerStarts(w) PROVE [Next]_vars
    BY <1>6 DEF RunnerStarts, Next
  <1> QED
    BY <1>1, <1>2, <1>3, <1>4, <1>5, <1>6
    DEF PoolNext, CancelParent, Runner, RunnerReturns, RunnerCancels, Listener, CloseDoneCh,
        PoolMain, SelectCtx, SelectErr, SelectDone, AwaitDone, Return, PoolStop,
        PoolStopReturn

(* So the invariant of the workers is one of the pool. *)
LEMMA PoolWorkersKept == PoolInv /\ [PoolNext]_pvars => IndInv'
  BY PoolStepIsWorkerStep, TypeStep, ShapeStep, SlotsStep, ConservationStep
  DEF IndInv, PoolInv

(* A worker that is done stays done, a result of Start stays as it is, and *)
(* a new one is the error of poolCtx, that of the adapter, or none.        *)
LEMMA PoolWorkersEffect ==
  ASSUME PoolInv, [PoolNext]_pvars, NEW w \in Workers
  PROVE  /\ pc[w] = "done" => pc'[w] = "done"
         /\ \/ /\ startErr'[w] = startErr[w]
               /\ pc[w] \in {"drain", "done"} => pc'[w] \in {"drain", "done"}
            \/ /\ pc[w] \notin {"drain", "done"}
               /\ pc'[w] = "drain"
               /\ startErr'[w] \in {ctx, "none", "adapter"}
  <1>1. CASE UNCHANGED workerVars
    BY <1>1 DEF workerVars
  <1>2. ASSUME NEW v \in Workers, Loop(v) \/ ConsumeFails(v) \/ Start(v)
        PROVE  /\ pc[w] = "done" => pc'[w] = "done"
               /\ \/ /\ startErr'[w] = startErr[w]
                     /\ pc[w] \in {"drain", "done"} => pc'[w] \in {"drain", "done"}
                  \/ /\ pc[w] \notin {"drain", "done"}
                     /\ pc'[w] = "drain"
                     /\ startErr'[w] \in {ctx, "none", "adapter"}
    BY <1>2, LoopEffect, LoopResult DEF PoolInv
  <1>3. CASE InWorkers
    BY <1>1, <1>2, <1>3
    DEF InWorkers, Publish, Goroutine, HandleOk, HandleErr, Settle, Ack, Nack, NackOverflow,
        Processed, ReleaseSlot, WgDone
  <1>4. CASE UNCHANGED vars \/ PoolCancel
    BY <1>1, <1>4 DEF vars, PoolCancel
  <1> QED
    BY <1>1, <1>2, <1>3, <1>4
    DEF PoolNext, pvars, CancelParent, PropagateCancel, PoolStart, Runner, RunnerStarts,
        RunnerReturns, RunnerCancels, Listener, CloseDoneCh, PoolMain, SelectCtx, SelectErr,
        SelectDone, AwaitDone, Return, PoolStop, PoolStopReturn

-----------------------------------------------------------------------------
(* Every step of the pool keeps its types. *)
LEMMA PoolTypeStep ==
  ASSUME PoolInv, [PoolNext]_pvars
  PROVE  PoolTypeOK'
  <1> USE DEF PoolInv, PoolTypeOK
  <1>1. CASE UNCHANGED poolVars
    BY <1>1 DEF poolVars
  <1>2. ASSUME NEW e \in CtxErr, CancelParent(e) PROVE PoolTypeOK'
    BY <1>2 DEF CancelParent
  <1>3. CASE PoolStart
    BY <1>3 DEF PoolStart
  <1>4. ASSUME NEW w \in Workers, Runner(w) PROVE PoolTypeOK'
    <2>1. startErr[w] \in StartErr
      BY DEF IndInv, TypeOK
    <2>2. CASE RunnerStarts(w)
      BY <2>2 DEF RunnerStarts
    <2>3. CASE RunnerReturns(w)
      BY <2>1, <2>3 DEF RunnerReturns
    <2>4. CASE RunnerCancels(w)
      BY <2>4 DEF RunnerCancels
    <2> QED
      BY <1>4, <2>2, <2>3, <2>4 DEF Runner
  <1>5. CASE Listener \/ CloseDoneCh
    BY <1>5 DEF Listener, CloseDoneCh
  <1>6. CASE PoolMain
    <2>1. CASE SelectCtx
      BY <2>1 DEF SelectCtx, StartErr
    <2>2. CASE SelectErr
      BY <2>2, HeadTailProperties DEF SelectErr
    <2>3. CASE SelectDone \/ AwaitDone
      BY <2>3 DEF SelectDone, AwaitDone, Return
    <2> QED
      BY <1>6, <2>1, <2>2, <2>3 DEF PoolMain
  <1>7. ASSUME NEW c \in PoolCallers, PoolStop(c) \/ PoolStopReturn(c) PROVE PoolTypeOK'
    BY <1>7 DEF PoolStop, PoolStopReturn
  <1> QED
    BY <1>1, <1>2, <1>3, <1>4, <1>5, <1>6, <1>7
    DEF PoolNext, pvars, InWorkers, PropagateCancel, poolVars

(* The runners that have returned are finitely many; one more counts one   *)
(* more.                                                                   *)
LEMMA EndedFacts ==
  /\ Ended \subseteq Workers /\ IsFiniteSet(Ended) /\ Cardinality(Ended) \in Nat
  /\ Cardinality(Ended) <= Cardinality(Workers)
  /\ Cardinality(Workers) \in Nat
  /\ \A w \in Workers \ Ended : Cardinality(Ended \cup {w}) = Cardinality(Ended) + 1
  /\ \A w \in Workers \ Ended : Cardinality(Ended) < Cardinality(Workers)
  <1>1. IsFiniteSet(Ended) /\ Ended \subseteq Workers
    BY PoolAssumption, FS_Subset DEF Ended
  <1>2. /\ Cardinality(Ended) <= Cardinality(Workers)
        /\ Cardinality(Ended) \in Nat /\ Cardinality(Workers) \in Nat
    BY <1>1, PoolAssumption, FS_Subset, FS_CardinalityType
  <1>3. \A w \in Workers \ Ended : Cardinality(Ended \cup {w}) = Cardinality(Ended) + 1
    BY <1>1, FS_AddElement
  <1>4. ASSUME NEW w \in Workers \ Ended PROVE Cardinality(Ended) < Cardinality(Workers)
    <2>1. Ended # Workers
      OBVIOUS
    <2> QED
      BY <1>1, <1>2, <2>1, PoolAssumption, FS_Subset
  <1> QED
    BY <1>1, <1>2, <1>3, <1>4

(* The stages of the shutdown: no stage is entered before the one it waits *)
(* for, and none is left again.                                            *)
LEMMA StagesStep ==
  ASSUME PoolInv, [PoolNext]_pvars
  PROVE  Stages'
  <1> USE DEF PoolInv
  <1>1. \A w \in Workers : pc[w] = "done" => pc'[w] = "done"
    BY PoolWorkersEffect
  <1>2. CASE UNCHANGED <<runner, listener, doneCh, ppc, poolCall, errCh>>
    BY <1>1, <1>2 DEF Stages, Ended
  <1>3. CASE PoolStart
    <2>1. Ended = {} /\ Ended' = {}
      BY <1>3 DEF PoolStart, Stages, Ended
    <2> QED
      BY <1>3, <2>1 DEF PoolStart, Stages
  <1>4. ASSUME NEW w \in Workers, RunnerStarts(w) \/ RunnerCancels(w) PROVE Stages'
    <2>1. /\ runner[w] # "exited" /\ runner'[w] # "idle"
          /\ \A v \in Workers \ {w} : runner'[v] = runner[v]
          /\ UNCHANGED <<doneCh, ppc, poolCall, errCh>>
      BY <1>4 DEF RunnerStarts, RunnerCancels, PoolTypeOK
    <2>2. Ended' = Ended
      BY <1>4, <2>1 DEF RunnerStarts, RunnerCancels, PoolTypeOK, Ended
    <2>3. ppc # "idle"
      BY <1>4 DEF RunnerStarts, RunnerCancels, Stages
    <2> QED
      BY <1>1, <2>1, <2>2, <2>3 DEF Stages, Ended
  <1>5. ASSUME NEW w \in Workers, RunnerReturns(w) PROVE Stages'
    <2>1. runner[w] = "running" /\ pc[w] = "done" /\ UNCHANGED <<doneCh, ppc, poolCall>>
      BY <1>5 DEF RunnerReturns
    <2>2. Ended' = Ended \cup {w} /\ w \notin Ended
      BY <1>5 DEF RunnerReturns, PoolTypeOK, Ended
    <2>3. errCh \in Seq(StartErr) /\ startErr[w] \in StartErr
      BY DEF PoolTypeOK, IndInv, TypeOK
    <2>4. Len(errCh') <= Len(errCh) + 1 /\ Len(errCh) \in Nat /\ Len(errCh') \in Nat
      BY <1>5, <2>3 DEF RunnerReturns
    <2>5. Len(errCh') <= Cardinality(Ended')
      BY <2>2, <2>4, EndedFacts DEF Stages
    <2>6. ~doneCh /\ ppc # "idle"
      BY <2>1 DEF Stages
    <2> QED
      BY <1>1, <2>1, <2>2, <2>5, <2>6, EndedFacts DEF Stages
  <1>6. CASE CloseDoneCh
    BY <1>1, <1>6 DEF CloseDoneCh, Stages, Ended
  <1>7. CASE PoolMain
    <2>1. UNCHANGED <<runner, doneCh, poolCall>> /\ Ended' = Ended /\ ppc # "idle"
      BY <1>7 DEF PoolMain, SelectCtx, SelectErr, SelectDone, AwaitDone, Return, Ended
    <2>2. Len(errCh') <= Len(errCh) /\ Len(errCh) \in Nat /\ Len(errCh') \in Nat
      BY <1>7, HeadTailProperties, EmptySeq
      DEF PoolMain, SelectCtx, SelectErr, SelectDone, AwaitDone, Return, PoolTypeOK
    <2>3. /\ ppc # "returned" /\ ppc' # "idle"
          /\ ppc' = "returned" => doneCh
      BY <1>7 DEF PoolMain, SelectCtx, SelectErr, SelectDone, AwaitDone, Return
    <2> QED
      BY <1>1, <2>1, <2>2, <2>3, EndedFacts DEF Stages
  <1>8. ASSUME NEW c \in PoolCallers, PoolStop(c) \/ PoolStopReturn(c) PROVE Stages'
    <2>1. UNCHANGED <<runner, listener, doneCh, ppc, errCh, pc>> /\ Ended' = Ended
      BY <1>8 DEF PoolStop, PoolStopReturn, Ended, vars, workerVars
    <2>2. \A d \in PoolCallers : poolCall'[d] = "returned" => ppc = "returned"
      BY <1>8 DEF PoolStop, PoolStopReturn, PoolTypeOK, Stages
    <2> QED
      BY <2>1, <2>2 DEF Stages
  <1>9. CASE Listener
    BY <1>1, <1>9 DEF Listener, Stages, Ended
  <1> QED
    BY <1>2, <1>3, <1>4, <1>5, <1>6, <1>7, <1>8, <1>9
    DEF PoolNext, pvars, poolVars, InWorkers, CancelParent, PropagateCancel, Runner

(* The parent context ends once. *)
LEMMA ParentStays == [PoolNext]_pvars /\ parent # "none" => parent' = parent
  BY DEF PoolNext, pvars, poolVars, InWorkers, CancelParent, PropagateCancel, PoolStart,
         Runner, RunnerStarts, RunnerReturns, RunnerCancels, Listener, CloseDoneCh,
         PoolMain, SelectCtx, SelectErr, SelectDone, AwaitDone, Return, PoolStop,
         PoolStopReturn

(* A cause of an error stays one. *)
LEMMA CauseStays == PoolInv /\ [PoolNext]_pvars /\ PoolCause => PoolCause'
  <1> SUFFICES ASSUME PoolInv, [PoolNext]_pvars, PoolCause PROVE PoolCause'
    OBVIOUS
  <1>1. parent # "none" => parent' # "none"
    BY ParentStays
  <1>2. \A w \in Workers : startErr[w] = "adapter" => startErr'[w] = "adapter"
    BY PoolWorkersEffect DEF PoolInv, ErrorsCaused
  <1> QED
    BY <1>1, <1>2 DEF PoolCause

(* Errors have causes: a deadline comes from the parent context, and an    *)
(* error in errCh from a worker that failed or saw that deadline.          *)
LEMMA ErrorsCausedStep ==
  ASSUME PoolInv, [PoolNext]_pvars
  PROVE  ErrorsCaused'
  <1> USE DEF PoolInv
  <1>1. parent # "none" => parent' # "none"
    BY ParentStays
  <1>2. /\ ctx' \in {ctx, "canceled", parent}
        /\ ppc' = "idle" => ppc = "idle" /\ ctx' = ctx
    <2>1. ASSUME NEW w \in Workers, Loop(w) \/ ConsumeFails(w) \/ Start(w) PROVE ctx' = ctx
      BY <2>1, LoopResult
    <2>2. CASE InWorkers
      BY <2>1, <2>2
      DEF InWorkers, poolVars, Publish, Goroutine, HandleOk, HandleErr, Settle, Ack, Nack,
          NackOverflow, Processed, ReleaseSlot, WgDone, signalVars
    <2>3. ASSUME NEW w \in Workers, Runner(w) PROVE ctx' \in {ctx, "canceled"} /\ ppc' # "idle"
      BY <2>1, <2>3
      DEF Runner, RunnerStarts, RunnerReturns, RunnerCancels, PoolCancel, Stages, vars,
          signalVars
    <2>4. CASE Listener
      BY <2>4 DEF Listener, PoolCancel, Stages, vars, signalVars
    <2>5. CASE PoolMain
      BY <2>5 DEF PoolMain, SelectCtx, SelectErr, SelectDone, AwaitDone, Return, PoolCancel,
                  vars, signalVars
    <2> QED
      BY <2>2, <2>3, <2>4, <2>5
      DEF PoolNext, pvars, vars, signalVars, poolVars, CancelParent, PropagateCancel,
          PoolStart, CloseDoneCh, PoolStop, PoolStopReturn
  <1>3. ctx' = "deadline" => parent' # "none"
    BY <1>1, <1>2 DEF ErrorsCaused
  <1>4. ASSUME NEW w \in Workers
        PROVE  /\ startErr'[w] # "none" => pc'[w] \in {"drain", "done"}
               /\ startErr'[w] = "deadline" => parent' # "none"
    BY <1>1, PoolWorkersEffect DEF ErrorsCaused
  <1>5. errCh' # <<>> => errCh # <<>> \/ PoolCause
    <2>1. ASSUME NEW w \in Workers, Failed(w) PROVE PoolCause
      BY <2>1 DEF Failed, PoolCause, ErrorsCaused, IndInv, TypeOK, StartErr, CtxErr
    <2>2. ASSUME NEW w \in Workers, RunnerReturns(w) PROVE errCh' # errCh => PoolCause
      BY <2>1, <2>2 DEF RunnerReturns
    <2> QED
      BY <2>2
      DEF PoolNext, pvars, poolVars, InWorkers, CancelParent, PropagateCancel, PoolStart,
          Runner, RunnerStarts, RunnerCancels, Listener, CloseDoneCh, PoolMain, SelectCtx,
          SelectErr, SelectDone, AwaitDone, Return, PoolStop, PoolStopReturn
  <1>6. poolErr' # "none" => poolErr # "none" \/ errCh # <<>> \/ parent # "none"
    BY DEF PoolNext, pvars, poolVars, InWorkers, CancelParent, PropagateCancel, PoolStart,
           Runner, RunnerStarts, RunnerReturns, RunnerCancels, Listener, CloseDoneCh, PoolMain,
           SelectCtx, SelectErr, SelectDone, AwaitDone, Return, PoolStop, PoolStopReturn
  <1>7. (errCh' # <<>> \/ poolErr' # "none") => PoolCause'
    BY <1>5, <1>6, CauseStays DEF ErrorsCaused, PoolCause
  <1> QED
    BY <1>2, <1>3, <1>4, <1>7 DEF ErrorsCaused

-----------------------------------------------------------------------------
(* The initial state satisfies the invariant of the pool. *)
LEMMA PoolInvInit == PoolInit => PoolInv
  <1> SUFFICES ASSUME PoolInit PROVE PoolInv
    OBVIOUS
  <1>1. IndInv
    BY IndInvInit DEF PoolInit
  <1>2. PoolTypeOK
    <2>1. doneCh \in BOOLEAN
      BY DEF PoolInit
    <2> QED
      BY <2>1 DEF PoolInit, PoolTypeOK, CtxErr, StartErr
  <1>3. Ended = {} /\ Len(errCh) = 0
    BY DEF PoolInit, Ended
  <1>4. Stages
    BY <1>3, EndedFacts DEF PoolInit, Stages
  <1>5. ErrorsCaused
    BY DEF PoolInit, Init, ErrorsCaused
  <1> QED
    BY <1>1, <1>2, <1>4, <1>5 DEF PoolInv

(* PoolInv holds in every reachable state of the pool. *)
THEOREM PoolInvariance == PoolSpec => []PoolInv
  <1>1. PoolInv /\ [PoolNext]_pvars => PoolInv'
    BY PoolWorkersKept, PoolTypeStep, StagesStep, ErrorsCausedStep DEF PoolInv
  <1> QED
    BY <1>1, PoolInvInit, PTL DEF PoolSpec

(* A pool implements GoWorker: whatever is proved of the workers on their  *)
(* own, with callers of Stop and a context of their own, holds under the   *)
(* pool too.                                                               *)
THEOREM PoolRunsWorkers == PoolSpec => Spec
  <1>1. PoolInit => Init
    BY DEF PoolInit
  <1> QED
    BY <1>1, PoolStepIsWorkerStep, PoolInvariance, PTL DEF PoolSpec, Spec

(* When Start or Stop of the pool has returned, by whatever branch of the  *)
(* final select, all its workers have drained.                             *)
THEOREM PoolStopIsDrained == PoolSpec => []PoolDrains
  <1>1. PoolInv => PoolDrains
    <2> SUFFICES ASSUME PoolInv, NEW w \in Workers,
                        ppc = "returned" \/ \E c \in PoolCallers : poolCall[c] = "returned"
                 PROVE  pc[w] = "done" /\ Held(w) = {} /\ wg[w] = 0
      BY DEF PoolDrains
    <2>1. runner[w] = "exited"
      BY DEF PoolInv, Stages
    <2>2. pc[w] = "done" /\ wg[w] = 0
      BY <2>1 DEF PoolInv, Stages, Ended, IndInv, Shape, ShapeOf
    <2> QED
      BY <2>2, CountersPositive DEF PoolInv, IndInv
  <1> QED
    BY <1>1, PoolInvariance, PTL

(* The pool returns an error only for a reason: stopping a healthy pool,   *)
(* whose workers all end with context.Canceled, returns none.              *)
THEOREM StopIsClean == PoolSpec => []CleanStop
  <1>1. PoolInv => CleanStop
    BY DEF PoolInv, ErrorsCaused, PoolCause, CleanStop
  <1> QED
    BY <1>1, PoolInvariance, PTL

(* No send to errCh takes its default case: errCh has room for the error   *)
(* of every runner that has not returned.                                  *)
THEOREM ErrorSendHasRoom == PoolSpec => []ErrChHasRoom
  <1>1. PoolInv => ErrChHasRoom
    <2> SUFFICES ASSUME PoolInv, NEW w \in Workers, runner[w] = "running"
                 PROVE  Len(errCh) < Cardinality(Workers)
      BY DEF ErrChHasRoom
    <2>1. w \in Workers \ Ended
      BY DEF Ended
    <2>2. Len(errCh) \in Nat /\ Len(errCh) <= Cardinality(Ended)
      BY DEF PoolInv, PoolTypeOK, Stages
    <2> QED
      BY <2>1, <2>2, EndedFacts
  <1> QED
    BY <1>1, PoolInvariance, PTL

(* The workers of a pool neither duplicate nor forget a message. *)
THEOREM PoolConserves == PoolSpec => []Conservation
  BY PoolRunsWorkers, MessagesConserved, PTL

(* With room in the queue for every message, a pool loses none before it   *)
(* is cancelled.                                                           *)
THEOREM PoolLossNeedsCause == PoolSpec => []LossNeedsCause
  BY PoolRunsWorkers, NoUnexplainedLoss, PTL

(* A pool of workers gives every message the life that Delivery allows:    *)
(* whatever WorkerPool.Start and Stop do around the workers, no message is *)
(* acked before its handler succeeded or dropped before a shutdown.        *)
THEOREM PoolDelivers == PoolSpec => ImplementsDelivery
  BY PoolRunsWorkers, Refinement, PTL

(* The pool keeps Custody: whatever one worker's error or Stop does to the *)
(* others, a message is lost only to a full channel or in a shutdown.      *)
THEOREM PoolKeepsCustody == PoolSpec => ImplementsCustody
  BY PoolRunsWorkers, KeepsCustody, PTL
=============================================================================
