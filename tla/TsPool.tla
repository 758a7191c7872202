------------------------------- MODULE TsPool -------------------------------
(***************************************************************************)
(* The TypeScript WorkerPool (typescript/src/worker.ts): start launches    *)
(* every worker under one combined signal, the variable aborted of         *)
(* TsWorker, and waits until all of them have settled.  Nobody outside can *)
(* call stop on a single worker, so Callers is empty here.  Workers are    *)
(* numbers, in the order in which start launches them.                     *)
(***************************************************************************)
EXTENDS TsWorker

CONSTANT PoolCallers   \* callers of WorkerPool.stop

VARIABLES
  signal,     \* the signal passed to WorkerPool.start is aborted
  ppc,        \* where WorkerPool.start is
  poolStop,   \* stopController of the pool is aborted
  poolResult, \* how WorkerPool.start ends
  poolCall    \* poolCall[c]: the call of WorkerPool.stop by c

wpoolVars == <<signal, ppc, poolStop, poolResult, poolCall>>
pvars == <<vars, wpoolVars>>

PoolInit ==
  /\ Init
  /\ signal = FALSE
  /\ ppc = "idle"
  /\ poolStop = FALSE
  /\ poolResult = "none"
  /\ poolCall = [c \in PoolCallers |-> "none"]

(* No continuation is running. *)
Quiet == turn = Nobody /\ ppc # "launching"

(* A listener for "abort" is there only while start runs: a controller     *)
(* that was aborted before start does not reach the combined signal.       *)
Listening == ppc = "running"

AbortSignal ==
  /\ Quiet
  /\ ~signal
  /\ signal' = TRUE
  /\ aborted' = (aborted \/ Listening)
  /\ UNCHANGED <<stop, call, msgVars, loopVars, poolVars, ppc, poolStop, poolResult, poolCall>>

PoolStart ==
  /\ Quiet
  /\ ppc = "idle"
  /\ ppc' = "launching"
  /\ UNCHANGED <<vars, signal, poolStop, poolResult, poolCall>>

(* map calls start of one worker after the other, each up to its first     *)
(* await.                                                                  *)
Launch(w) ==
  /\ ppc = "launching"
  /\ \A v \in Workers : v < w => pc[v] # "idle"
  /\ Start(w)
  /\ ppc' = IF \A v \in Workers \ {w} : pc[v] # "idle" THEN "running" ELSE ppc
  /\ UNCHANGED <<signal, poolStop, poolResult, poolCall>>

(* allSettled: every worker has ended.  The first error in the order of    *)
(* the workers is thrown, after a stopAll that finds all of them stopped.  *)
FailedWorkers == {w \in Workers : outcome[w] # "ok"}

FirstError ==
  outcome[CHOOSE w \in FailedWorkers : \A v \in FailedWorkers : w <= v]

AllSettled ==
  /\ Quiet
  /\ ppc = "running"
  /\ \A w \in Workers : pc[w] = "done"
  /\ ppc' = "returned"
  /\ \/ /\ FailedWorkers = {}
        /\ poolResult' = "ok"
        /\ UNCHANGED stop
     \/ /\ FailedWorkers # {}
        /\ poolResult' = FirstError
        /\ stop' = [w \in Workers |-> TRUE]
  /\ UNCHANGED <<aborted, call, msgVars, loopVars, poolVars, signal, poolStop, poolCall>>

(* stop: abort the controller, whose listener aborts the combined signal,  *)
(* and call stop on every worker; idle workers are not waited for.         *)
PoolStop(c) ==
  /\ Quiet
  /\ poolCall[c] = "none"
  /\ poolStop' = TRUE
  /\ aborted' = (aborted \/ Listening)
  /\ stop' = [w \in Workers |-> TRUE]
  /\ poolCall' = [poolCall EXCEPT ![c] = IF ppc = "idle" THEN "look" ELSE "workers"]
  /\ UNCHANGED <<call, msgVars, loopVars, poolVars, signal, ppc, poolResult>>

(* The call by c goes on. *)
PoolStopGoes(c, label) ==
  /\ Quiet
  /\ poolCall' = [poolCall EXCEPT ![c] = label]
  /\ UNCHANGED <<vars, signal, ppc, poolStop, poolResult>>

PoolStopWorkers(c) ==
  /\ poolCall[c] = "workers"
  /\ \A w \in Workers : pc[w] = "done"
  /\ PoolStopGoes(c, "look")

PoolStopLook(c) ==
  /\ poolCall[c] = "look"
  /\ PoolStopGoes(c, IF ppc = "idle" THEN "returned" ELSE "waiting")

PoolStopReturn(c) ==
  /\ poolCall[c] = "waiting"
  /\ ppc = "returned"
  /\ PoolStopGoes(c, "returned")

PoolStopStep(c) == PoolStopWorkers(c) \/ PoolStopLook(c) \/ PoolStopReturn(c)

(* The steps of a worker and of the producers. *)
PoolLoop(w) == (turn = w \/ Quiet) /\ Loop(w) /\ UNCHANGED wpoolVars

PoolMessage(w, m) == Quiet /\ processMessage(w, m) /\ UNCHANGED wpoolVars

PoolEnded(w) == Quiet /\ Ended(w) /\ UNCHANGED wpoolVars

PoolNext ==
  \/ AbortSignal \/ PoolStart \/ AllSettled
  \/ \E w \in Workers :
       \/ Launch(w) \/ PoolLoop(w) \/ PoolEnded(w)
       \/ Quiet /\ ConsumeFails(w) /\ UNCHANGED wpoolVars
       \/ \E m \in Messages : PoolMessage(w, m)
  \/ \E m \in Messages : Quiet /\ Publish(m) /\ UNCHANGED wpoolVars
  \/ \E c \in PoolCallers : PoolStop(c) \/ PoolStopStep(c)

PoolSpec == PoolInit /\ [][PoolNext]_pvars

(* As in TsWorker: the event loop serves everybody in turn. *)
PoolScheduling ==
  /\ SF_pvars(AllSettled)
  /\ \A c \in PoolCallers : SF_pvars(PoolStopStep(c))
  /\ \A w \in Workers :
       /\ WF_pvars(Launch(w))
       /\ SF_pvars(PoolLoop(w))
       /\ SF_pvars(PoolEnded(w))
       /\ \A m \in Messages : SF_pvars(PoolMessage(w, m))

PoolLiveSpec == PoolSpec /\ PoolScheduling

-----------------------------------------------------------------------------
(* Properties.                                                             *)

(* The comment in start: "If any worker failed, stop all and propagate     *)
(* first error".  A worker whose adapter failed brings the pool to its     *)
(* end.                                                                    *)
FailureStopsAll ==
  (\E w \in Workers : pc[w] = "done" /\ outcome[w] = "adapter") ~> (ppc = "returned")

(* Once WorkerPool.start or a call of WorkerPool.stop has returned, every  *)
(* pool of promises is empty and stays so, also when stop came first and   *)
(* start is called afterwards.                                             *)
PoolStopIsFinal ==
  (ppc = "returned" \/ \E c \in PoolCallers : poolCall[c] = "returned") =>
    \A w \in Workers : size(w) = 0 /\ batch[w] = <<>>

(* A worker whose loop can only end. *)
Finished(w) == stop[w] /\ pc[w] \in {"idle", "top", "drain", "done"} /\ size(w) = 0

(* What the places of start and stop say about the workers. *)
PoolShape ==
  /\ poolCall \in [PoolCallers -> {"none", "workers", "look", "waiting", "returned"}]
  /\ ppc = "idle" => \A w \in Workers : pc[w] = "idle"
  /\ ppc = "returned" => \A w \in Workers : pc[w] = "done"
  /\ \A c \in PoolCallers :
       /\ poolCall[c] # "none" => \A w \in Workers : stop[w]
       /\ poolCall[c] \in {"look", "waiting", "returned"} => \A w \in Workers : Finished(w)
=============================================================================
