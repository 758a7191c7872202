------------------------------ MODULE GoServer ------------------------------
(***************************************************************************)
(* The grpcq Server (go/grpcq/server.go) as an application runs it         *)
(* (runAsyncServer and runDemo in go/examples/userservice/main.go): the    *)
(* HTTP publish endpoint that feeds the in-memory queue, the server with   *)
(* its worker and registry, the wrapped handlers, and the main goroutine   *)
(* that waits for a signal or an error and shuts everything down.          *)
(*                                                                         *)
(* It composes GoWorker (one worker) and GoRegistry: the step in which a   *)
(* handler returns is one in both.                                         *)
(***************************************************************************)
EXTENDS GoWorker, GoRegistry

CONSTANTS
  Decodes,      \* Decodes[m]: the payload of m unmarshals into the request
  Signature,    \* Signature[h]: what reflection sees of the method behind h
  Server        \* the worker of the server

ASSUME ServerAssumption == Workers = {Server} /\ Requests = Messages

VARIABLES
  cancelSet,    \* Server.Start has set s.ctx and s.cancel
  sig,          \* a signal is in sigCh
  http,         \* the HTTP server: "up", "failed" (queueErrCh) or "down"
  app,          \* where the main goroutine is
  served        \* served[m]: how often the service method ended well on m

appVars == <<cancelSet, sig, http, app>>
svars == <<vars, regVars, appVars, served>>

ServerInit ==
  /\ Init
  /\ RegInit
  /\ cancelSet = FALSE
  /\ sig = FALSE
  /\ http = "up"
  /\ app = "select"
  /\ served = [m \in Messages |-> 0]

-----------------------------------------------------------------------------
(* The wrapped handlers.                                                   *)

(* invokeUnaryMethod calls a function of a context and a request that      *)
(* returns an error, alone or after a response; anything else it refuses.  *)
Callable(h) ==
  LET s == Signature[h] IN
    /\ s.kind = "func"
    /\ s.ins = 2 /\ s.takesContext /\ s.takesRequest
    /\ s.outs \in {1, 2}
    /\ s.lastIsError

(* The wrapped handler gets as far as the call of the service method: the  *)
(* lookup found a handler, the payload unmarshals, the method can be called.*)
Invocable(m) == running[m] # NoHandler /\ Decodes[m] /\ Callable(running[m])

(* registry.Handle begins for the message of a goroutine of the worker. *)
Handle(m) ==
  /\ task[Server][m] = "running"
  /\ HandleEnter(m)
  /\ UNCHANGED <<vars, appVars, served>>

(* The service method has done its work: CreateUser has stored the user. *)
ServeOk(m) ==
  /\ Invocable(m)
  /\ HandleExit(m)
  /\ HandleOk(Server, m)
  /\ served' = [served EXCEPT ![m] = @ + 1]
  /\ UNCHANGED appVars

(* The service method returns an error: a request it does not accept. *)
ServeError(m) ==
  /\ Invocable(m)
  /\ HandleExit(m)
  /\ HandleErr(Server, m)
  /\ UNCHANGED <<appVars, served>>

(* A fault: what cannot be called is passed over without an error. *)
RefuseQuietly(m) ==
  /\ ~Invocable(m)
  /\ HandleExit(m)
  /\ HandleOk(Server, m)
  /\ UNCHANGED <<appVars, served>>

(* Handle returns an error before any service method is called. *)
Refuse(m) ==
  /\ ~Invocable(m)
  /\ HandleExit(m)
  /\ HandleErr(Server, m)
  /\ UNCHANGED <<appVars, served>>

-----------------------------------------------------------------------------
(* Server.Start and Server.Stop.                                           *)

(* The goroutine of Start makes the context; the worker starts after it. *)
ServerStart ==
  /\ ~cancelSet
  /\ cancelSet' = TRUE
  /\ UNCHANGED <<vars, regVars, sig, http, app, served>>

WorkerStart ==
  /\ cancelSet
  /\ Start(Server)
  /\ UNCHANGED <<regVars, appVars, served>>

(* A fault: Stop takes a worker that does not poll yet for none. *)
StopUnlessPolling ==
  \/ (pc[Server] = "idle" \/ ctx # "none") /\ UNCHANGED vars
  \/ pc[Server] # "idle" /\ Cancel("canceled")

(* Stop cancels the context and returns; before Start it is an error.      *)
ServerStop ==
  \/ ~cancelSet /\ UNCHANGED vars
  \/ cancelSet /\ ctx # "none" /\ UNCHANGED vars
  \/ cancelSet /\ Cancel("canceled")

-----------------------------------------------------------------------------
(* The main goroutine.                                                     *)

MainGoto(from, to) ==
  /\ app = from
  /\ app' = to
  /\ UNCHANGED <<cancelSet, sig, http, regVars, served>>

(* The select: a signal, an error of the HTTP server, the end of the       *)
(* server; runDemo also has a timer, which may fire at any time.           *)
SelectSignal == sig /\ MainGoto("select", "stop") /\ UNCHANGED vars

SelectQueueErr == http = "failed" /\ MainGoto("select", "stop") /\ UNCHANGED vars

SelectTimer == MainGoto("select", "stop") /\ UNCHANGED vars

SelectServerErr ==
  /\ pc[Server] = "done"
  /\ MainGoto("select", "shutdown")
  /\ UNCHANGED vars

MainStop == MainGoto("stop", "await") /\ ServerStop

(* A fault: the result of Start is not waited for. *)
MainHurries == MainGoto("await", "shutdown") /\ UNCHANGED vars

(* serverErr = <-serverErrCh *)
MainAwait ==
  /\ pc[Server] = "done"
  /\ MainGoto("await", "shutdown")
  /\ UNCHANGED vars

(* Requests that are on their way are answered, then none is accepted. *)
shutdownHTTPServer == http' = IF http = "up" THEN "down" ELSE http

(* The HTTP server is shut down and main returns: the process is gone. *)
MainExit ==
  /\ app = "shutdown"
  /\ app' = "exit"
  /\ shutdownHTTPServer
  /\ UNCHANGED <<cancelSet, sig, vars, regVars, served>>

Main ==
  \/ SelectSignal \/ SelectQueueErr \/ SelectTimer \/ SelectServerErr
  \/ MainStop \/ MainAwait \/ MainExit

-----------------------------------------------------------------------------
(* The environment: clients, the operator, the network, registrations.     *)

ClientPublishes(m) ==
  /\ http = "up"
  /\ Publish(m)
  /\ UNCHANGED <<regVars, appVars, served>>

Signal ==
  /\ ~sig
  /\ sig' = TRUE
  /\ UNCHANGED <<cancelSet, http, app, vars, regVars, served>>

HttpFails ==
  /\ http = "up"
  /\ http' = "failed"
  /\ UNCHANGED <<cancelSet, sig, app, vars, regVars, served>>

RegisterMethod(h) == RegisterCall(h) /\ UNCHANGED <<vars, appVars, served>>

RegisterReturn(h) == Register(h) /\ UNCHANGED <<vars, appVars, served>>

-----------------------------------------------------------------------------
(* The process runs until main returns. *)
Alive(A) == app # "exit" /\ A

Internal(A) == Alive(A /\ UNCHANGED <<regVars, appVars, served>>)

ServerLoop == Internal(Loop(Server))

ServeMethod(m) == Alive(ServeOk(m) \/ ServeError(m) \/ Refuse(m))

ServerNext ==
  \/ Alive(ServerStart \/ WorkerStart \/ Main \/ Signal \/ HttpFails)
  \/ ServerLoop
  \/ Internal(ConsumeFails(Server))
  \/ Internal(ReleaseSlot(Server) \/ WgDone(Server))
  \/ \E m \in Messages :
       \/ Alive(ClientPublishes(m) \/ Handle(m))
       \/ ServeMethod(m)
       \/ Internal(Settle(Server, m))
  \/ \E h \in Handlers : Alive(RegisterMethod(h) \/ RegisterReturn(h))

ServerSpec == ServerInit /\ [][ServerNext]_svars

(***************************************************************************)
(* The scheduler runs every goroutine that can run and methods return;     *)
(* sync.RWMutex grants a lock to each goroutine that waits for it.         *)
(***************************************************************************)
ServerFairness ==
  /\ WF_svars(Alive(ServerStart))
  /\ WF_svars(Alive(WorkerStart))
  /\ WF_svars(ServerLoop)
  /\ WF_svars(Internal(ReleaseSlot(Server)))
  /\ WF_svars(Internal(WgDone(Server)))
  /\ WF_svars(Alive(SelectSignal \/ MainStop \/ MainAwait \/ MainExit))
  /\ \A m \in Messages : /\ WF_svars(Alive(Handle(m)))
                         /\ WF_svars(ServeMethod(m))
                         /\ WF_svars(Internal(Settle(Server, m)))
  /\ \A h \in Handlers : WF_svars(Alive(RegisterReturn(h)))

LiveServerSpec == ServerSpec /\ ServerFairness

-----------------------------------------------------------------------------
(* Properties.                                                             *)

(* "return from Start() when all in-flight messages complete": however     *)
(* main came to its end, by a signal, an error of the HTTP server or of    *)
(* the queue, no service method is cut off by the exit of the process and  *)
(* no message is left between its method and its ack.                      *)
ExitDrains ==
  app = "exit" => Held(Server) = {} /\ readers = {} /\ wg[Server] = 0

(* A message is acked only if its service method ran on it and ended well, *)
(* once: no way through lookup, unmarshalling and reflection, and no       *)
(* registration meanwhile, acks a message that was not served.             *)
ServedOnce ==
  \A m \in Messages :
    /\ served[m] <= 1
    /\ m \in acked => served[m] = 1

(* What the two theorems on these need: a handler runs only for a message  *)
(* that a goroutine of the worker has in registry.Handle, main is past its *)
(* wait only when the worker is done, and the methods that ended well are  *)
(* those of the messages that are acked or about to be.                    *)
ReadersHeld == \A m \in readers : task[Server][m] = "running"

MainWaited == app \in {"shutdown", "exit"} => pc[Server] = "done"

Tally ==
  \A m \in Messages :
    served[m] = IF m \in acked \/ task[Server][m] = "succeeded" THEN 1 ELSE 0

ServerInv ==
  /\ IndInv
  /\ RegTypeOK
  /\ NoStaleHandler
  /\ ReadersHeld
  /\ MainWaited
  /\ served \in [Messages -> Nat] /\ Tally

(* A signal to a server that has started ends the process, whatever its    *)
(* methods, retries, requeues and registrations are doing.                 *)
SignalExits == (app = "select" /\ sig /\ cancelSet) ~> (app = "exit")

(* Register returns although handlers come and go without a pause: the     *)
(* readers that are inside leave, and none gets in before the writer.      *)
RegisterReturns ==
  \A h \in Handlers : (pending = h) ~> (h \in registered \/ app = "exit")
=============================================================================
