---------------------------- MODULE AtLeastOnce ----------------------------
(***************************************************************************)
(* What a worker on SQS promises about a message, whatever requests fail,  *)
(* handles go stale and processes die: at-least-once processing.  A        *)
(* message is removed only once a handler has ended well on it, removal is *)
(* final, and as long as no lease of it has run out it is handled with     *)
(* success at most once, under its lease, and not given back after that.   *)
(* It abstracts Ack and Nack of the Receipt in go/core/types.go and the    *)
(* processMessage that calls them; GoSqs is shown to implement it.         *)
(***************************************************************************)
EXTENDS Naturals

CONSTANT Bodies

VARIABLES
  store,     \* store[b]: "absent", "visible", "leased" or "deleted"
  expired,   \* the messages of which a lease has run out
  handled    \* handled[b]: successes of a handler on b: 0, 1, or 2 for more

vars == <<store, expired, handled>>

Init ==
  /\ store = [b \in Bodies |-> "absent"]
  /\ expired = {}
  /\ handled = [b \in Bodies |-> 0]

Becomes(S, label) == store' = [b \in Bodies |-> IF b \in S THEN label ELSE store[b]]

(* Some messages of a request arrive in the queue. *)
Arrive(S) ==
  /\ \A b \in S : store[b] = "absent"
  /\ Becomes(S, "visible")
  /\ UNCHANGED <<expired, handled>>

(* They are leased, together, to one receiver. *)
Lease(S) ==
  /\ \A b \in S : store[b] = "visible"
  /\ Becomes(S, "leased")
  /\ UNCHANGED <<expired, handled>>

(* A handler ends well.  Before any lease of b has run out it is the first *)
(* one, under the lease.                                                   *)
Succeed(b) ==
  /\ store[b] # "absent"
  /\ b \notin expired => store[b] = "leased" /\ handled[b] = 0
  /\ handled' = [handled EXCEPT ![b] = IF @ = 0 THEN 1 ELSE 2]
  /\ UNCHANGED <<store, expired>>

Remove(b) ==
  /\ handled[b] > 0
  /\ Becomes({b}, "deleted")
  /\ UNCHANGED <<expired, handled>>

(* A receiver gives b back: not after a success, unless its lease is no    *)
(* longer the only one there was.                                          *)
GiveBack(b) ==
  /\ store[b] = "leased"
  /\ b \notin expired => handled[b] = 0
  /\ Becomes({b}, "visible")
  /\ UNCHANGED <<expired, handled>>

RunOut(b) ==
  /\ store[b] = "leased"
  /\ Becomes({b}, "visible")
  /\ expired' = expired \cup {b}
  /\ UNCHANGED handled

Next ==
  \/ \E S \in SUBSET Bodies : Arrive(S) \/ Lease(S)
  \/ \E b \in Bodies : Succeed(b) \/ Remove(b) \/ GiveBack(b) \/ RunOut(b)

Spec == Init /\ [][Next]_vars
=============================================================================
