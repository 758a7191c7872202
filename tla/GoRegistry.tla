----------------------------- MODULE GoRegistry -----------------------------
(***************************************************************************)
(* The Go Registry (go/core/registry.go): a map from methods (a topic and  *)
(* an action) to handlers under a sync.RWMutex.  Handle keeps the read     *)
(* lock while the handler runs; Register takes the write lock.             *)
(*                                                                         *)
(* A Lock that waits keeps later RLocks out (sync.RWMutex), so the waiting *)
(* Register is part of the state of the lock.  IsRegistered, Topics and    *)
(* Actions read under the read lock and change nothing.                    *)
(***************************************************************************)
CONSTANTS
  Requests,     \* the messages that are handled
  Methods,      \* the topic/action pairs
  MethodOf,     \* MethodOf[m]: the topic and the action of m
  Handlers,     \* the handlers; each is registered by one call of Register
  Target,       \* Target[h]: the method that h is registered for
  NoHandler     \* no handler, and no waiting Register

ASSUME RegistryAssumption ==
  /\ MethodOf \in [Requests -> Methods]
  /\ Target \in [Handlers -> Methods]
  /\ NoHandler \notin Handlers

VARIABLES
  handlers,     \* handlers[k]: the handler registered for method k
  readers,      \* messages whose Handle holds the read lock
  running,      \* running[m]: the handler that Handle found for m
  pending,      \* the handler whose Register waits for the readers to leave
  registered    \* handlers whose Register has returned

regVars == <<handlers, readers, running, pending, registered>>

RegInit ==
  /\ handlers = [k \in Methods |-> NoHandler]
  /\ readers = {}
  /\ running = [m \in Requests |-> NoHandler]
  /\ pending = NoHandler
  /\ registered = {}

(* Register calls Lock; one Register waits at a time, others queue behind. *)
RegisterCall(h) ==
  /\ h \notin registered
  /\ pending = NoHandler
  /\ pending' = h
  /\ UNCHANGED <<handlers, readers, running, registered>>

(* A fault: the map is changed while readers are inside. *)
RegisterUnlocked(h) ==
  /\ pending = h
  /\ handlers' = [handlers EXCEPT ![Target[h]] = h]
  /\ pending' = NoHandler
  /\ registered' = registered \cup {h}
  /\ UNCHANGED <<readers, running>>

(* The readers have left: the handler goes into the map, Register returns. *)
Register(h) ==
  /\ pending = h
  /\ readers = {}
  /\ handlers' = [handlers EXCEPT ![Target[h]] = h]
  /\ pending' = NoHandler
  /\ registered' = registered \cup {h}
  /\ UNCHANGED <<readers, running>>

(* A fault: a read lock that overtakes a waiting writer. *)
HandleBarges(m) ==
  /\ m \notin readers
  /\ readers' = readers \cup {m}
  /\ running' = [running EXCEPT ![m] = handlers[MethodOf[m]]]
  /\ UNCHANGED <<handlers, pending, registered>>

(* Handle takes the read lock and looks the handler up. *)
HandleEnter(m) ==
  /\ m \notin readers
  /\ pending = NoHandler
  /\ readers' = readers \cup {m}
  /\ running' = [running EXCEPT ![m] = handlers[MethodOf[m]]]
  /\ UNCHANGED <<handlers, pending, registered>>

(* The handler, or the failed lookup, is over: Handle unlocks and returns. *)
HandleExit(m) ==
  /\ m \in readers
  /\ readers' = readers \ {m}
  /\ running' = [running EXCEPT ![m] = NoHandler]
  /\ UNCHANGED <<handlers, pending, registered>>

-----------------------------------------------------------------------------
(* Properties.                                                             *)

(* The shape of the registry and of its lock. *)
RegTypeOK ==
  /\ handlers \in [Methods -> Handlers \cup {NoHandler}]
  /\ readers \subseteq Requests
  /\ running \in [Requests -> Handlers \cup {NoHandler}]
  /\ pending \in Handlers \cup {NoHandler}
  /\ registered \subseteq Handlers

(* Register is a barrier: whenever a handler runs, it is the one that is   *)
(* registered, so after Register has returned no call of the handler that  *)
(* it replaced is still going on, however many messages are in flight.     *)
NoStaleHandler == \A m \in readers : running[m] = handlers[MethodOf[m]]
=============================================================================
