--------------------------- MODULE GoServer_proofs ---------------------------
(***************************************************************************)
(* Proofs about GoServer, for any messages, methods and handlers, any      *)
(* payloads and signatures, and any batch size, concurrency and buffer.    *)
(*                                                                         *)
(* Every step of the application is a step of GoWorker or leaves the       *)
(* worker alone, so the invariant of the worker is inherited; what is      *)
(* added here relates the worker to the registry, to the main goroutine    *)
(* and to the work of the service methods.                                 *)
(***************************************************************************)
EXTENDS GoServer, GoWorker_proofs

-----------------------------------------------------------------------------
(* The server runs the worker.                                             *)

(* A step of the application is a step of the worker of GoWorker, or none. *)
LEMMA ServerStepIsWorkerStep == [ServerNext]_svars => [Next]_vars
  <1> SUFFICES ASSUME [ServerNext]_svars PROVE [Next]_vars
    OBVIOUS
  <1>0. Server \in Workers
    BY ServerAssumption
  <1>1. CASE UNCHANGED svars
    BY <1>1 DEF svars
  <1>2. CASE Alive(ServerStart \/ WorkerStart \/ Main \/ Signal \/ HttpFails)
    <2>1. CASE MainStop
      BY <2>1 DEF MainStop, ServerStop, Next, CtxErr
    <2>2. CASE WorkerStart
      BY <1>0, <2>2 DEF WorkerStart, Next
    <2> QED
      BY <1>2, <2>1, <2>2
      DEF Alive, ServerStart, Main, Signal, HttpFails, SelectSignal, SelectQueueErr,
          SelectTimer, SelectServerErr, MainAwait, MainExit
  <1>3. CASE ServerLoop \/ Internal(ConsumeFails(Server))
             \/ Internal(ReleaseSlot(Server) \/ WgDone(Server))
    BY <1>0, <1>3 DEF ServerLoop, Internal, Alive, Next, WorkerNext, Goroutine
  <1>4. ASSUME NEW m \in Messages,
               \/ Alive(ClientPublishes(m) \/ Handle(m))
               \/ ServeMethod(m)
               \/ Internal(Settle(Server, m))
        PROVE  [Next]_vars
    BY <1>0, <1>4
    DEF Alive, Internal, ClientPublishes, Handle, ServeMethod, ServeOk, ServeError, Refuse,
        Next, WorkerNext, Goroutine
  <1>5. ASSUME NEW h \in Handlers, Alive(RegisterMethod(h) \/ RegisterReturn(h))
        PROVE  [Next]_vars
    BY <1>5 DEF Alive, RegisterMethod, RegisterReturn
  <1> QED
    BY <1>1, <1>2, <1>3, <1>4, <1>5 DEF ServerNext

(* The application implements GoWorker with one worker: whatever is proved *)
(* of Spec holds of the server too.                                        *)
THEOREM ServerRunsWorker == ServerSpec => Spec
  <1>1. ServerInit => Init
    BY DEF ServerInit
  <1> QED
    BY <1>1, ServerStepIsWorkerStep, PTL DEF ServerSpec, Spec

(* So the invariant of the worker is one of the server. *)
LEMMA WorkerInvKept == IndInv /\ [ServerNext]_svars => IndInv'
  BY ServerStepIsWorkerStep, TypeStep, ShapeStep, SlotsStep, ConservationStep DEF IndInv

(* The steps of the server by what they touch: the registry, a goroutine   *)
(* of the worker together with the registry, the worker alone, or none.    *)
LEMMA ServerSteps ==
  ASSUME ServerNext
  PROVE  \/ UNCHANGED <<vars, regVars, served>>
         \/ \E h \in Handlers : RegisterMethod(h) \/ RegisterReturn(h)
         \/ \E m \in Messages : Handle(m)
         \/ \E m \in Messages : ServeOk(m) \/ ServeError(m) \/ Refuse(m)
         \/ /\ UNCHANGED <<regVars, served>>
            /\ \/ Loop(Server) \/ ConsumeFails(Server) \/ Start(Server)
               \/ ReleaseSlot(Server) \/ WgDone(Server)
               \/ Cancel("canceled")
               \/ \E m \in Messages : Publish(m) \/ Settle(Server, m)
  BY DEF ServerNext, Alive, Internal, ServerLoop, ServeMethod, ServerStart, WorkerStart, Main,
         Signal, HttpFails, ClientPublishes, SelectSignal, SelectQueueErr, SelectTimer,
         SelectServerErr, MainStop, ServerStop, MainAwait, MainExit, MainGoto

-----------------------------------------------------------------------------
(* The registry.                                                           *)

(* Only Register, HandleEnter and HandleExit change the registry; the map  *)
(* changes with no reader inside, and a reader sees the map as it is.      *)
LEMMA RegistryStep ==
  ASSUME RegTypeOK, NoStaleHandler, [ServerNext]_svars
  PROVE  RegTypeOK' /\ NoStaleHandler'
  <1>0. Requests = Messages
    BY ServerAssumption
  <1>1. CASE UNCHANGED regVars
    BY <1>1 DEF regVars, RegTypeOK, NoStaleHandler
  <1>2. ASSUME NEW h \in Handlers, RegisterMethod(h) \/ RegisterReturn(h)
        PROVE  RegTypeOK' /\ NoStaleHandler'
    <2>1. RegTypeOK'
      BY <1>2, RegistryAssumption
      DEF RegisterMethod, RegisterReturn, RegisterCall, Register, RegTypeOK
    <2>2. NoStaleHandler'
      BY <1>2 DEF RegisterMethod, RegisterReturn, RegisterCall, Register, NoStaleHandler
    <2> QED
      BY <2>1, <2>2
  <1>3. ASSUME NEW m \in Messages, Handle(m)
        PROVE  RegTypeOK' /\ NoStaleHandler'
    BY <1>0, <1>3, RegistryAssumption DEF Handle, HandleEnter, RegTypeOK, NoStaleHandler
  <1>4. ASSUME NEW m \in Messages, HandleExit(m)
        PROVE  RegTypeOK' /\ NoStaleHandler'
    BY <1>0, <1>4 DEF HandleExit, RegTypeOK, NoStaleHandler
  <1> QED
    BY <1>1, <1>2, <1>3, <1>4, ServerSteps
    DEF svars, ServeOk, ServeError, Refuse

(* A message whose handler runs is one that a goroutine of the worker has  *)
(* between dispatch and the return of Handle.                              *)
LEMMA ReadersHeldStep ==
  ASSUME IndInv, RegTypeOK, ReadersHeld, [ServerNext]_svars
  PROVE  ReadersHeld'
  <1>0. Server \in Workers /\ Requests = Messages
    BY ServerAssumption
  <1>1. CASE UNCHANGED <<task, readers>>
    BY <1>1 DEF ReadersHeld
  <1>2. ASSUME NEW m \in Messages, Handle(m) PROVE ReadersHeld'
    BY <1>2 DEF Handle, HandleEnter, ReadersHeld, vars, taskVars
  <1>3. ASSUME NEW m \in Messages, ServeOk(m) \/ ServeError(m) \/ Refuse(m)
        PROVE  ReadersHeld'
    <2>1. readers' = readers \ {m}
      BY <1>3 DEF ServeOk, ServeError, Refuse, HandleExit
    <2>2. \A n \in Messages \ {m} : task'[Server][n] = task[Server][n]
      BY <1>0, <1>3 DEF ServeOk, ServeError, Refuse, HandleOk, HandleErr, IndInv, TypeOK
    <2> QED
      BY <1>0, <2>1, <2>2 DEF ReadersHeld, RegTypeOK
  <1>4. CASE UNCHANGED regVars /\ (Loop(Server) \/ ConsumeFails(Server) \/ Start(Server))
    BY <1>0, <1>4, LoopEffect DEF ReadersHeld, RegTypeOK, regVars
  <1>5. ASSUME NEW m \in Messages, UNCHANGED regVars, Settle(Server, m) PROVE ReadersHeld'
    <2>1. task[Server][m] # "running"
      BY <1>5 DEF Settle, Ack, Nack, NackOverflow
    <2>2. \A n \in Messages \ {m} : task'[Server][n] = task[Server][n]
      BY <1>0, <1>5 DEF Settle, Ack, Nack, NackOverflow, Processed, IndInv, TypeOK
    <2> QED
      BY <1>0, <1>5, <2>1, <2>2 DEF ReadersHeld, RegTypeOK, regVars
  <1> QED
    BY <1>1, <1>2, <1>3, <1>4, <1>5, ServerSteps
    DEF svars, vars, regVars, taskVars, RegisterMethod, RegisterReturn, RegisterCall, Register,
        ReleaseSlot, WgDone, Cancel, Publish

-----------------------------------------------------------------------------
(* The main goroutine and the service methods.                             *)

(* Main passes its wait only when the worker is done, and a worker that is *)
(* done stays so.                                                          *)
LEMMA MainWaitedStep ==
  ASSUME IndInv, MainWaited, [ServerNext]_svars
  PROVE  MainWaited'
  <1>0. Server \in Workers
    BY ServerAssumption
  <1>1. pc[Server] = "done" => pc'[Server] = "done"
    BY <1>0, LoopEffect, ServerSteps
    DEF svars, vars, workerVars, RegisterMethod, RegisterReturn, Handle, ServeOk, ServeError,
        Refuse, HandleOk, HandleErr, ReleaseSlot, WgDone, Cancel, Publish, Settle, Ack, Nack,
        NackOverflow, Processed
  <1>2. app' \in {"shutdown", "exit"} => app = app' \/ app = "shutdown" \/ pc[Server] = "done"
    BY DEF svars, appVars, ServerNext, Alive, Internal, ServerLoop, ServeMethod, ServerStart,
           WorkerStart, Main, Signal, HttpFails, ClientPublishes, SelectSignal, SelectQueueErr,
           SelectTimer, SelectServerErr, MainStop, MainAwait, MainExit, MainGoto, Handle,
           ServeOk, ServeError, Refuse, RegisterMethod, RegisterReturn
  <1> QED
    BY <1>1, <1>2 DEF MainWaited

(* The tally of methods that ended well follows the worker: it is raised   *)
(* with the success of a message, which the worker then acks.              *)
LEMMA TallyStep ==
  ASSUME IndInv, served \in [Messages -> Nat], Tally, [ServerNext]_svars
  PROVE  served' \in [Messages -> Nat] /\ Tally'
  <1>0. Server \in Workers
    BY ServerAssumption
  <1>1. CASE UNCHANGED <<acked, task, served>>
    BY <1>1 DEF Tally
  <1>2. ASSUME NEW m \in Messages, ServeOk(m)
        PROVE  served' \in [Messages -> Nat] /\ Tally'
    <2>1. task[Server][m] = "running" /\ m \notin acked
      BY <1>0, <1>2 DEF ServeOk, HandleOk, IndInv, Conservation, InHands, Held
    <2>2. acked' = acked
      BY <1>2 DEF ServeOk, HandleOk, msgVars
    <2>3. /\ task'[Server][m] = "succeeded"
          /\ \A n \in Messages \ {m} : task'[Server][n] = task[Server][n]
      BY <1>0, <1>2 DEF ServeOk, HandleOk, IndInv, TypeOK
    <2>4. served' = [served EXCEPT ![m] = @ + 1]
      BY <1>2 DEF ServeOk
    <2> QED
      BY <2>1, <2>2, <2>3, <2>4 DEF Tally
  <1>3. ASSUME NEW m \in Messages, ServeError(m) \/ Refuse(m)
        PROVE  served' \in [Messages -> Nat] /\ Tally'
    <2>1. acked' = acked /\ served' = served
      BY <1>3 DEF ServeError, Refuse, HandleErr, msgVars
    <2>2. \A n \in Messages : task'[Server][n] = "succeeded" <=> task[Server][n] = "succeeded"
      BY <1>0, <1>3 DEF ServeError, Refuse, HandleErr, IndInv, TypeOK
    <2> QED
      BY <2>1, <2>2 DEF Tally
  <1>4. CASE served' = served /\ (Loop(Server) \/ ConsumeFails(Server) \/ Start(Server))
    <2>1. \A n \in Messages : task'[Server][n] = "succeeded" <=> task[Server][n] = "succeeded"
      BY <1>0, <1>4, LoopEffect DEF IndInv, TypeOK, Task
    <2> QED
      BY <1>0, <1>4, <2>1, LoopEffect DEF Tally
  <1>5. ASSUME NEW m \in Messages, served' = served, Settle(Server, m)
        PROVE  served' \in [Messages -> Nat] /\ Tally'
    <2>1. /\ task'[Server][m] = "none"
          /\ \A n \in Messages \ {m} : task'[Server][n] = task[Server][n]
      BY <1>0, <1>5 DEF Settle, Ack, Nack, NackOverflow, Processed, IndInv, TypeOK
    <2>2. CASE Ack(Server, m)
      BY <1>5, <2>1, <2>2 DEF Ack, Tally
    <2>3. CASE Nack(Server, m) \/ NackOverflow(Server, m)
      BY <1>5, <2>1, <2>3 DEF Nack, NackOverflow, Tally
    <2> QED
      BY <1>5, <2>2, <2>3 DEF Settle
  <1> QED
    BY <1>1, <1>2, <1>3, <1>4, <1>5, ServerSteps
    DEF svars, vars, taskVars, msgVars, RegisterMethod, RegisterReturn, Handle, ReleaseSlot,
        WgDone, Cancel, Publish

-----------------------------------------------------------------------------
(* The initial state satisfies the invariant of the server. *)
LEMMA ServerInvInit == ServerInit => ServerInv
  <1> SUFFICES ASSUME ServerInit PROVE ServerInv
    OBVIOUS
  <1>0. Server \in Workers /\ Requests = Messages
    BY ServerAssumption
  <1>1. IndInv
    BY IndInvInit DEF ServerInit
  <1>2. RegTypeOK /\ NoStaleHandler /\ ReadersHeld
    BY DEF ServerInit, RegInit, RegTypeOK, NoStaleHandler, ReadersHeld
  <1>3. MainWaited
    BY DEF ServerInit, MainWaited
  <1>4. served \in [Messages -> Nat] /\ Tally
    BY <1>0 DEF ServerInit, Init, Tally
  <1> QED
    BY <1>1, <1>2, <1>3, <1>4 DEF ServerInv

(* ServerInv holds in every reachable state of the application, for any    *)
(* registrations, payloads, signals and failures.                          *)
THEOREM ServerInvariance == ServerSpec => []ServerInv
  <1>1. ServerInv /\ [ServerNext]_svars => ServerInv'
    BY WorkerInvKept, RegistryStep, ReadersHeldStep, MainWaitedStep, TallyStep DEF ServerInv
  <1> QED
    BY <1>1, ServerInvInit, PTL DEF ServerSpec

(* Register is a barrier for the calls of the handler that it replaces:    *)
(* the read lock that Handle keeps over the call makes it one.             *)
THEOREM RegisterIsBarrier == ServerSpec => []NoStaleHandler
  <1>1. ServerInv => NoStaleHandler
    BY DEF ServerInv
  <1> QED
    BY <1>1, ServerInvariance, PTL

(* The process never exits on a service method that is still running or on *)
(* a message between its method and its ack.                               *)
THEOREM ExitIsDrained == ServerSpec => []ExitDrains
  <1>1. ServerInv => ExitDrains
    <2> SUFFICES ASSUME ServerInv, app = "exit"
                 PROVE  Held(Server) = {} /\ readers = {} /\ wg[Server] = 0
      BY DEF ExitDrains
    <2>0. Server \in Workers /\ Requests = Messages
      BY ServerAssumption
    <2>1. pc[Server] = "done" /\ wg[Server] = 0
      BY <2>0 DEF ServerInv, MainWaited, IndInv, Shape, ShapeOf
    <2>2. Held(Server) = {}
      BY <2>0, <2>1, CountersPositive DEF ServerInv, IndInv
    <2>3. readers \subseteq Held(Server)
      BY <2>0 DEF ServerInv, RegTypeOK, ReadersHeld, Held
    <2> QED
      BY <2>1, <2>2, <2>3
  <1> QED
    BY <1>1, ServerInvariance, PTL

(* A message is acked only after its service method ended well on it, and  *)
(* the method never ends well twice on one message.                        *)
THEOREM AckedWasServedOnce == ServerSpec => []ServedOnce
  <1>1. ServerInv => ServedOnce
    BY DEF ServerInv, Tally, ServedOnce
  <1> QED
    BY <1>1, ServerInvariance, PTL

(* The server keeps the promises of Delivery to its clients: the wrapped   *)
(* service methods, the registry's lock and the shutdown of the process    *)
(* only ever take a message through the steps that Delivery allows.        *)
THEOREM ServerDelivers == ServerSpec => ImplementsDelivery
  BY ServerRunsWorker, Refinement, PTL

(* The server keeps Custody: the registry, the wrapped methods and the     *)
(* signals of the process lose no message outside a shutdown except to a   *)
(* full channel.                                                           *)
THEOREM ServerKeepsCustody == ServerSpec => ImplementsCustody
  BY ServerRunsWorker, KeepsCustody, PTL
=============================================================================
