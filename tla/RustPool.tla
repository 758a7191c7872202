------------------------------ MODULE RustPool ------------------------------
(***************************************************************************)
(* The Rust WorkerPool (rust/src/core.rs).  start is one task: the workers *)
(* are futures in its FuturesUnordered and move only while start polls     *)
(* tasks.next(), in its select and in its final drain, not while a branch  *)
(* of the select awaits stop_all.  stop_all calls Worker::stop on one      *)
(* worker after the other; the calls are those of RustWorker, made by the  *)
(* pool's own task or by a caller of WorkerPool::stop.                     *)
(***************************************************************************)
EXTENDS RustWorker

(* The workers are numbered in the order in which stop_all goes over them, *)
(* and Callers is PoolCallers with Pool.                                   *)
CONSTANTS
  Pool,          \* the task of WorkerPool::start, as a caller of Worker::stop
  PoolCallers    \* other tasks, which may call WorkerPool::stop

VARIABLES
  ppc,        \* where WorkerPool::start is
  wanted,     \* stop_requested is cancelled
  joined,     \* workers whose result tasks.next() has returned
  poolResult, \* the outcome of WorkerPool::start
  poolCall    \* poolCall[c]: the call of WorkerPool::stop by c

poolVars == <<ppc, wanted, joined, poolResult, poolCall>>
pvars == <<vars, poolVars>>

PoolInit ==
  /\ Init
  /\ ppc = "idle"
  /\ wanted = FALSE
  /\ joined = {}
  /\ poolResult = "none"
  /\ poolCall = [c \in PoolCallers |-> "none"]

(* start is polling tasks.next(). *)
Polled == ppc \in {"polling", "drain"}

-----------------------------------------------------------------------------
(* stop_all, by c: the worker whose turn it is has no call by c that       *)
(* returned, all before it have.                                           *)
Turn(w, c) ==
  /\ call[w][c] # "returned"
  /\ \A v \in Workers : v < w => call[v][c] = "returned"

StopAll(c) ==
  /\ \E w \in Workers : Turn(w, c) /\ (StopCall(w, c) \/ StopStep(w, c))
  /\ UNCHANGED poolVars

StopAllReturned(c) == \A w \in Workers : call[w][c] = "returned"

-----------------------------------------------------------------------------
(* WorkerPool::start.                                                      *)

GotoPool(label) ==
  /\ ppc' = label
  /\ UNCHANGED <<wanted, joined, poolResult, poolCall, vars>>

PoolStart == ppc = "idle" /\ GotoPool("select")

(* A branch of the select that stops the workers. *)
Branch(result) ==
  /\ ppc' = "stopping"
  /\ poolResult' = result
  /\ UNCHANGED <<wanted, poolCall, vars>>

(* select_biased! polls stop first, then cancelled, ... *)
SelectStop == ppc = "select" /\ wanted /\ Branch("ok") /\ UNCHANGED joined

SelectCancelled ==
  /\ ppc = "select"
  /\ ~wanted
  /\ cancel
  /\ Branch("cancelled")
  /\ UNCHANGED joined

(* ... then tasks.next(); a token that is set meanwhile is seen in the     *)
(* next round.                                                             *)
SelectNext == ppc = "select" /\ ~wanted /\ ~cancel /\ GotoPool("polling")

RoundEnds == ppc = "polling" /\ GotoPool("select")

(* tasks.next() returns an error of w ... *)
SelectError(w) ==
  /\ ppc = "polling"
  /\ pc[w] = "done" /\ w \notin joined
  /\ outcome[w] # "ok"
  /\ joined' = joined \cup {w}
  /\ Branch(outcome[w])

(* ... or that w ended well; the last one ends the loop. *)
SelectOk(w) ==
  /\ ppc = "polling"
  /\ pc[w] = "done" /\ w \notin joined
  /\ outcome[w] = "ok"
  /\ joined' = joined \cup {w}
  /\ \/ joined' # Workers /\ ppc' = "select" /\ UNCHANGED poolResult
     \/ joined' = Workers /\ ppc' = "drain" /\ poolResult' = "ok"
  /\ UNCHANGED <<wanted, poolCall, vars>>

StoppingEnds == ppc = "stopping" /\ StopAllReturned(Pool) /\ GotoPool("drain")

DrainJoins(w) ==
  /\ ppc = "drain"
  /\ pc[w] = "done" /\ w \notin joined
  /\ joined' = joined \cup {w}
  /\ UNCHANGED <<ppc, wanted, poolResult, poolCall, vars>>

(* tasks.next() returns None. *)
DrainEnds == ppc = "drain" /\ joined = Workers /\ GotoPool("returned")

PoolTask ==
  \/ SelectStop \/ SelectCancelled \/ SelectNext \/ RoundEnds \/ StoppingEnds \/ DrainEnds
  \/ \E w \in Workers : SelectError(w) \/ SelectOk(w) \/ DrainJoins(w)
  \/ ppc = "stopping" /\ StopAll(Pool)

(* The steps that a worker takes because the task of the pool polls it. *)
PoolPolls(w) ==
  /\ Polled
  /\ Start(w) \/ Run(w) \/ ConsumeFails(w) \/ \E m \in Messages : Future(w, m)
  /\ UNCHANGED poolVars

-----------------------------------------------------------------------------
(* WorkerPool::stop.                                                       *)

PoolStop(c) ==
  /\ poolCall[c] = "none"
  /\ wanted' = TRUE
  /\ poolCall' = [poolCall EXCEPT ![c] = "stopping"]
  /\ UNCHANGED <<ppc, joined, poolResult, vars>>

PoolStopLook(c) ==
  /\ poolCall[c] = "stopping"
  /\ StopAllReturned(c)
  /\ poolCall' = [poolCall EXCEPT ![c] = IF ppc = "idle" THEN "returned" ELSE "waiting"]
  /\ UNCHANGED <<ppc, wanted, joined, poolResult, vars>>

PoolStopReturn(c) ==
  /\ poolCall[c] = "waiting"
  /\ ppc = "returned"
  /\ poolCall' = [poolCall EXCEPT ![c] = "returned"]
  /\ UNCHANGED <<ppc, wanted, joined, poolResult, vars>>

PoolCaller(c) ==
  \/ poolCall[c] = "stopping" /\ StopAll(c)
  \/ PoolStopLook(c) \/ PoolStopReturn(c)

-----------------------------------------------------------------------------
PoolEnvironment ==
  /\ Cancel \/ \E m \in Messages : Publish(m)
  /\ UNCHANGED poolVars

PoolNext ==
  \/ PoolEnvironment
  \/ PoolStart
  \/ PoolTask
  \/ \E w \in Workers : PoolPolls(w)
  \/ \E c \in PoolCallers : PoolStop(c) \/ PoolCaller(c)

PoolSpec == PoolInit /\ [][PoolNext]_pvars

(* The executor polls the task of the pool and the callers of stop: weak   *)
(* fairness.  A round of the select polls every task that was woken, so a  *)
(* worker moves, and a result is taken, if there is round after round:     *)
(* strong fairness.                                                        *)
PoolScheduling ==
  /\ WF_pvars(PoolTask)
  /\ \A c \in PoolCallers : WF_pvars(PoolCaller(c))
  /\ \A w \in Workers :
       /\ SF_pvars(Polled /\ (Start(w) \/ Run(w)) /\ UNCHANGED poolVars)
       /\ SF_pvars(SelectError(w) \/ SelectOk(w))
       /\ \A m \in Messages : SF_pvars(Polled /\ Future(w, m) /\ UNCHANGED poolVars)

PoolLiveSpec == PoolSpec /\ PoolScheduling

-----------------------------------------------------------------------------
(* Properties.                                                             *)

(* README: "Each worker independently polls, processes messages            *)
(* concurrently [...], and drains in-flight work on shutdown".  A handler  *)
(* that runs when the pool is told to stop comes to its end.               *)
DrainsOnShutdown ==
  \A w \in Workers : (wanted /\ InFlight(w) # {}) ~> (InFlight(w) = {})

(* Once WorkerPool::start or a call of WorkerPool::stop has returned, no   *)
(* worker of the pool holds a message, and none ever will.                 *)
PoolStopIsFinal ==
  (ppc = "returned" \/ \E c \in PoolCallers : poolCall[c] = "returned") =>
    \A w \in Workers : InFlight(w) = {} /\ batch[w] = <<>>

(* What the places of start and stop say about the workers. *)
PoolShape ==
  /\ poolCall \in [PoolCallers -> {"none", "stopping", "waiting", "returned"}]
  /\ joined \subseteq {w \in Workers : pc[w] = "done"}
  /\ ppc = "returned" => joined = Workers
  /\ \A c \in PoolCallers : poolCall[c] \in {"waiting", "returned"} => StopAllReturned(c)
=============================================================================
