------------------------------- MODULE GoPool -------------------------------
(***************************************************************************)
(* The Go WorkerPool (go/core/worker.go): Start runs every worker in a     *)
(* goroutine of its own under a derived context, collects the first error, *)
(* and returns when the parent context ends, a worker fails or all are     *)
(* done; Stop asks it to end and waits.  The workers and their queue are   *)
(* those of GoWorker; the variable ctx is the derived context poolCtx.     *)
(***************************************************************************)
EXTENDS GoWorker

CONSTANT PoolCallers   \* goroutines that may call WorkerPool.Stop

\* The workers of a pool are a slice.
ASSUME PoolAssumption == IsFiniteSet(Workers)

VARIABLES
  parent,     \* Err() of the context passed to WorkerPool.Start
  ppc,        \* where WorkerPool.Start is
  runner,     \* runner[w]: where the goroutine that runs w.Start is
  listener,   \* the goroutine that waits for stopCh or poolCtx
  poolStop,   \* stopCh of the pool is closed
  errCh,      \* the buffered channel of errors, one place per worker
  doneCh,     \* doneCh is closed: the WaitGroup of the runners reached zero
  poolErr,    \* the result of WorkerPool.Start
  poolCall    \* poolCall[c]: the call of WorkerPool.Stop by c

poolVars == <<parent, ppc, runner, listener, poolStop, errCh, doneCh, poolErr, poolCall>>
pvars == <<vars, poolVars>>

PoolInit ==
  /\ Init
  /\ parent = "none"
  /\ ppc = "idle"
  /\ runner = [w \in Workers |-> "idle"]
  /\ listener = "idle"
  /\ poolStop = FALSE
  /\ errCh = <<>>
  /\ doneCh = FALSE
  /\ poolErr = "none"
  /\ poolCall = [c \in PoolCallers |-> "none"]

(* context: cancelling the parent cancels poolCtx, a moment later. *)
CancelParent(e) ==
  /\ parent = "none"
  /\ e # "none"
  /\ parent' = e
  /\ UNCHANGED <<vars, ppc, runner, listener, poolStop, errCh, doneCh, poolErr, poolCall>>

PropagateCancel ==
  /\ ppc # "idle"
  /\ parent # "none"
  /\ ctx = "none"
  /\ ctx' = parent
  /\ UNCHANGED <<stop, call, workerVars, taskVars, msgVars, poolVars>>

(* poolCancel: the first cancellation counts. *)
PoolCancel ==
  /\ ctx' = IF ctx = "none" THEN "canceled" ELSE ctx
  /\ UNCHANGED <<stop, call, workerVars, taskVars, msgVars>>

(* Start derives the context and launches the goroutines. *)
PoolStart ==
  /\ ppc = "idle"
  /\ ppc' = "select"
  /\ ctx' = parent
  /\ listener' = "waiting"
  /\ runner' = [w \in Workers |-> "launched"]
  /\ UNCHANGED <<stop, call, workerVars, taskVars, msgVars,
                 parent, poolStop, errCh, doneCh, poolErr, poolCall>>

(* A runner calls w.Start ... *)
RunnerStarts(w) ==
  /\ runner[w] = "launched"
  /\ Start(w)
  /\ runner' = [runner EXCEPT ![w] = "running"]
  /\ UNCHANGED <<parent, ppc, listener, poolStop, errCh, doneCh, poolErr, poolCall>>

(* A fault: a cancelled worker counts as a failed one. *)
FailedIfAny(w) == startErr[w] # "none"

(* The error of w is worth reporting. *)
Failed(w) == startErr[w] \notin {"none", "canceled"}

(* A fault: errCh has no buffer, so a send needs Start in its select. *)
RunnerReturnsUnbuffered(w) ==
  /\ runner[w] = "running"
  /\ pc[w] = "done"
  /\ Failed(w) => ppc = "select" /\ errCh = <<>>
  /\ runner' = [runner EXCEPT ![w] = IF Failed(w) THEN "cancelling" ELSE "exited"]
  /\ errCh' = IF Failed(w) THEN Append(errCh, startErr[w]) ELSE errCh
  /\ UNCHANGED <<vars, parent, ppc, listener, poolStop, doneCh, poolErr, poolCall>>

(* ... and returns from it: an error other than context.Canceled goes to   *)
(* errCh, which has a place for each worker, ...                           *)
RunnerReturns(w) ==
  /\ runner[w] = "running"
  /\ pc[w] = "done"
  /\ runner' = [runner EXCEPT ![w] = IF Failed(w) THEN "cancelling" ELSE "exited"]
  /\ errCh' = IF Failed(w) /\ Len(errCh) < Cardinality(Workers)
                THEN Append(errCh, startErr[w]) ELSE errCh
  /\ UNCHANGED <<vars, parent, ppc, listener, poolStop, doneCh, poolErr, poolCall>>

(* A fault: a failed worker leaves the others running. *)
RunnerGivesUp(w) ==
  /\ runner[w] = "cancelling"
  /\ runner' = [runner EXCEPT ![w] = "exited"]
  /\ UNCHANGED <<vars, parent, ppc, listener, poolStop, errCh, doneCh, poolErr, poolCall>>

(* ... and cancels the others. *)
RunnerCancels(w) ==
  /\ runner[w] = "cancelling"
  /\ PoolCancel
  /\ runner' = [runner EXCEPT ![w] = "exited"]
  /\ UNCHANGED <<parent, ppc, listener, poolStop, errCh, doneCh, poolErr, poolCall>>

(* A fault: the listener has gone when Stop is called. *)
ListenerDeaf ==
  /\ listener = "waiting"
  /\ ctx # "none"
  /\ listener' = "exited"
  /\ UNCHANGED <<vars, parent, ppc, runner, poolStop, errCh, doneCh, poolErr, poolCall>>

(* The listener: stopCh cancels the workers; with poolCtx it just ends. *)
Listener ==
  /\ listener = "waiting"
  /\ \/ poolStop /\ PoolCancel
     \/ ctx # "none" /\ UNCHANGED vars
  /\ listener' = "exited"
  /\ UNCHANGED <<parent, ppc, runner, poolStop, errCh, doneCh, poolErr, poolCall>>

CloseDoneCh ==
  /\ ppc # "idle"
  /\ ~doneCh
  /\ \A w \in Workers : runner[w] = "exited"
  /\ doneCh' = TRUE
  /\ UNCHANGED <<vars, parent, ppc, runner, listener, poolStop, errCh, poolErr, poolCall>>

(* The final select of Start: any of the cases that are ready. *)
SelectCtx ==
  /\ ppc = "select"
  /\ parent # "none"
  /\ PoolCancel
  /\ ppc' = "await"
  /\ poolErr' = parent
  /\ UNCHANGED <<parent, runner, listener, poolStop, errCh, doneCh, poolCall>>

SelectErr ==
  /\ ppc = "select"
  /\ errCh # <<>>
  /\ ppc' = "await"
  /\ poolErr' = Head(errCh)
  /\ errCh' = Tail(errCh)
  /\ UNCHANGED <<vars, parent, runner, listener, poolStop, doneCh, poolCall>>

(* Start returns, having waited on doneCh; poolCancel and close(done) are  *)
(* deferred.                                                               *)
Return ==
  /\ PoolCancel
  /\ ppc' = "returned"
  /\ UNCHANGED <<parent, runner, listener, poolStop, errCh, doneCh, poolErr, poolCall>>

(* A fault: a branch that returns without waiting for the workers. *)
AwaitNothing == ppc = "await" /\ Return

SelectDone == ppc = "select" /\ doneCh /\ Return

AwaitDone == ppc = "await" /\ doneCh /\ Return

PoolStop(c) ==
  /\ poolCall[c] = "none"
  /\ poolStop' = TRUE
  /\ poolCall' = [poolCall EXCEPT ![c] = "waiting"]
  /\ UNCHANGED <<vars, parent, ppc, runner, listener, errCh, doneCh, poolErr>>

PoolStopReturn(c) ==
  /\ poolCall[c] = "waiting"
  /\ ppc = "returned"
  /\ poolCall' = [poolCall EXCEPT ![c] = "returned"]
  /\ UNCHANGED <<vars, parent, ppc, runner, listener, poolStop, errCh, doneCh, poolErr>>

PoolMain == SelectCtx \/ SelectErr \/ SelectDone \/ AwaitDone

Runner(w) == RunnerStarts(w) \/ RunnerReturns(w) \/ RunnerCancels(w)

(* The steps of the workers and of the producers leave the pool alone. *)
InWorkers ==
  /\ \/ \E m \in Messages : Publish(m)
     \/ \E w \in Workers : Loop(w) \/ ConsumeFails(w) \/ Goroutine(w)
  /\ UNCHANGED poolVars

PoolNext ==
  \/ InWorkers
  \/ \E e \in CtxErr : CancelParent(e)
  \/ PropagateCancel
  \/ PoolStart
  \/ \E w \in Workers : Runner(w)
  \/ Listener
  \/ CloseDoneCh
  \/ PoolMain
  \/ \E c \in PoolCallers : PoolStop(c) \/ PoolStopReturn(c)

PoolSpec == PoolInit /\ [][PoolNext]_pvars

(* Every goroutine of the pool and of its workers is scheduled, and        *)
(* handlers return.                                                        *)
PoolScheduling ==
  /\ WF_pvars(PropagateCancel)
  /\ WF_pvars(Listener)
  /\ WF_pvars(CloseDoneCh)
  /\ WF_pvars(PoolMain)
  /\ \A c \in PoolCallers : WF_pvars(PoolStopReturn(c))
  /\ \A w \in Workers :
       /\ WF_pvars(Runner(w))
       /\ WF_pvars(Loop(w) /\ UNCHANGED poolVars)
       /\ WF_pvars(ReleaseSlot(w) /\ UNCHANGED poolVars)
       /\ WF_pvars(WgDone(w) /\ UNCHANGED poolVars)
       /\ \A m \in Messages :
            /\ WF_pvars((HandleOk(w, m) \/ HandleErr(w, m)) /\ UNCHANGED poolVars)
            /\ WF_pvars(Settle(w, m) /\ UNCHANGED poolVars)

PoolLiveSpec == PoolSpec /\ PoolScheduling

-----------------------------------------------------------------------------
(* Properties.                                                             *)

(* "Stop stops all workers in the pool gracefully and blocks until Start   *)
(* returns": when Start has returned by any of its three branches, every   *)
(* worker has drained, and no goroutine can touch the queue again.         *)
PoolDrains ==
  (ppc = "returned" \/ \E c \in PoolCallers : poolCall[c] = "returned") =>
    \A w \in Workers : pc[w] = "done" /\ Held(w) = {} /\ wg[w] = 0

(* Stopping a healthy pool is not an error: when no worker failed and the  *)
(* parent context is alive, Start returns nil although every worker ended  *)
(* with context.Canceled.                                                  *)
CleanStop ==
  (ppc = "returned" /\ parent = "none" /\ \A w \in Workers : startErr[w] # "adapter")
    => poolErr = "none"

(* The errors in errCh never outnumber the runners that have returned: the *)
(* send of an error that finds errCh full, and drops it, never happens.    *)
ErrChHasRoom ==
  \A w \in Workers : runner[w] = "running" => Len(errCh) < Cardinality(Workers)

(* The shape of the state of the pool. *)
PoolTypeOK ==
  /\ parent \in CtxErr
  /\ ppc \in {"idle", "select", "await", "returned"}
  /\ runner \in [Workers -> {"idle", "launched", "running", "cancelling", "exited"}]
  /\ errCh \in Seq(StartErr)
  /\ doneCh \in BOOLEAN
  /\ poolErr \in StartErr
  /\ poolCall \in [PoolCallers -> {"none", "waiting", "returned"}]

(* The runners whose worker has returned from Start. *)
Ended == {w \in Workers : runner[w] \in {"cancelling", "exited"}}

(* What each stage of the shutdown knows about the stages before it. *)
Stages ==
  /\ ppc = "idle" =>
       ~doneCh /\ listener = "idle" /\ \A w \in Workers : runner[w] = "idle"
  /\ \A w \in Ended : pc[w] = "done"
  /\ doneCh => \A w \in Workers : runner[w] = "exited"
  /\ ppc = "returned" => doneCh
  /\ \A c \in PoolCallers : poolCall[c] = "returned" => ppc = "returned"
  /\ Len(errCh) <= Cardinality(Ended)

(* A worker failed, or the parent context ended. *)
PoolCause == parent # "none" \/ \E w \in Workers : startErr[w] = "adapter"

(* Where errors come from: poolCtx has no deadline of its own, a result of *)
(* Start is final, and what reaches errCh or the caller has a cause.       *)
ErrorsCaused ==
  /\ ppc = "idle" => ctx = "none"
  /\ ctx = "deadline" => parent # "none"
  /\ \A w \in Workers :
       /\ startErr[w] # "none" => pc[w] \in {"drain", "done"}
       /\ startErr[w] = "deadline" => parent # "none"
  /\ errCh # <<>> => PoolCause
  /\ poolErr # "none" => PoolCause

PoolInv == IndInv /\ PoolTypeOK /\ Stages /\ ErrorsCaused

(* "If any worker encounters an error, all workers are stopped             *)
(* gracefully": a worker that fails brings Start to its end.               *)
ErrorStopsPool ==
  (\E w \in Workers : startErr[w] = "adapter") ~> (ppc = "returned")

(* Stop on a started pool returns, also when it is called by several       *)
(* goroutines or while a worker fails.                                     *)
PoolStopReturns ==
  \A c \in PoolCallers :
    (poolCall[c] = "waiting" /\ ppc # "idle") ~> (poolCall[c] = "returned")

(* A started pool whose parent context ends returns. *)
PoolCancelReturns == (parent # "none" /\ ppc # "idle") ~> (ppc = "returned")

(* What TestWorkerPoolErrorPropagation expects of Start: an error of a     *)
(* worker is the result of the pool.                                       *)
PoolReportsError ==
  (ppc = "returned" /\ \E w \in Workers : startErr[w] = "adapter")
    => poolErr # "none"
=============================================================================
