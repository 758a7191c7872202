------------------------------ MODULE Custody ------------------------------
(***************************************************************************)
(* The contract that the workers of all three runtimes keep on an          *)
(* in-memory queue: who has a message, seen from outside.  It is coarser   *)
(* than Delivery in that it does not tell a message that waits for its     *)
(* handler from one that is being handled (a Rust worker that is cancelled *)
(* abandons both), and finer in that it knows the capacity of the queue: a *)
(* message is lost only if it is given back to a full queue, or abandoned  *)
(* in a shutdown.  It abstracts QueueAdapter and Receipt of                *)
(* go/core/types.go and their counterparts in rust/src/core.rs and         *)
(* typescript/src/types.ts.                                                *)
(***************************************************************************)
EXTENDS Naturals, FiniteSets

CONSTANTS
  Messages,
  Capacity    \* of the queue

VARIABLES
  unsent,     \* not published yet
  queued,     \* in the queue
  held,       \* with a worker that has to settle them
  acked,      \* done with
  lost,       \* gone without an ack
  closing     \* some worker was told to stop, or cancelled

vars == <<unsent, queued, held, acked, lost, closing>>

Init ==
  /\ unsent = Messages
  /\ queued = {} /\ held = {} /\ acked = {} /\ lost = {}
  /\ closing = FALSE

HasRoom == Cardinality(queued) < Capacity

Publish(m) ==
  /\ m \in unsent /\ HasRoom
  /\ unsent' = unsent \ {m}
  /\ queued' = queued \cup {m}
  /\ UNCHANGED <<held, acked, lost, closing>>

Take(S) ==
  /\ S \subseteq queued
  /\ queued' = queued \ S
  /\ held' = held \cup S
  /\ UNCHANGED <<unsent, acked, lost, closing>>

Settle(m) ==
  /\ m \in held
  /\ held' = held \ {m}
  /\ acked' = acked \cup {m}
  /\ UNCHANGED <<unsent, queued, lost, closing>>

GiveBack(m) ==
  /\ m \in held /\ HasRoom
  /\ held' = held \ {m}
  /\ queued' = queued \cup {m}
  /\ UNCHANGED <<unsent, acked, lost, closing>>

Lose(S) ==
  /\ S \subseteq held
  /\ held' = held \ S
  /\ lost' = lost \cup S
  /\ UNCHANGED <<unsent, queued, acked, closing>>

(* Given back to a full queue. *)
Overflow(m) == ~HasRoom /\ Lose({m})

(* Dropped by a worker that shuts down. *)
Abandon(S) == closing /\ Lose(S)

Close == closing' = TRUE /\ UNCHANGED <<unsent, queued, held, acked, lost>>

Next ==
  \/ \E m \in Messages : Publish(m) \/ Settle(m) \/ GiveBack(m) \/ Overflow(m)
  \/ \E S \in SUBSET Messages : Take(S) \/ Abandon(S)
  \/ Close

Spec == Init /\ [][Next]_vars
=============================================================================
