------------------------------ MODULE Delivery ------------------------------
(***************************************************************************)
(* What every runtime of the repository promises about a message, seen     *)
(* from the outside: the life of a message between Producer.Send and the   *)
(* final ack, whatever worker holds it.  It abstracts                      *)
(*   - go/core/types.go, the QueueAdapter and Receipt interfaces           *)
(*     (Consume leases messages, Ack settles one, Nack requeues one), and  *)
(*   - the Start loop and processMessage of the workers.                   *)
(* The workers are shown to implement this specification: see the          *)
(* refinement mappings in GoWorker.                                        *)
(***************************************************************************)
CONSTANT Messages

VARIABLES
  status,    \* status[m]: where m is in its life
  closing    \* TRUE once some worker has been told to stop or was cancelled

vars == <<status, closing>>

(***************************************************************************)
(* unsent     not published yet                                            *)
(* queued     in the queue, up for delivery                                *)
(* leased     returned by Consume, its handler not started                 *)
(* running    its handler is executing                                     *)
(* succeeded  its handler returned no error, not acked yet                 *)
(* failed     its handler returned an error, not nacked yet                *)
(* acked      settled, never delivered again                               *)
(* lost       gone without an ack                                          *)
(***************************************************************************)
Status == {"unsent", "queued", "leased", "running", "succeeded", "failed",
           "acked", "lost"}

Init == /\ status = [m \in Messages |-> "unsent"]
        /\ closing = FALSE

Move(m, from, to) ==
  /\ status[m] = from
  /\ status' = [status EXCEPT ![m] = to]
  /\ UNCHANGED closing

(* Publish of the adapter. *)
Publish(m) == Move(m, "unsent", "queued")

(* Consume hands the message to exactly one worker. *)
Lease(m) == Move(m, "queued", "leased")

(* The worker starts the handler of a message it has leased. *)
Begin(m) == Move(m, "leased", "running")

(* The handler returns. *)
Finish(m) == \/ Move(m, "running", "succeeded")
             \/ Move(m, "running", "failed")

(* Ack follows a success, Nack a failure; a Nack that finds no room in the *)
(* queue loses the message.                                                *)
Ack(m) == Move(m, "succeeded", "acked")
Nack(m) == Move(m, "failed", "queued")
Overflow(m) == Move(m, "failed", "lost")

(* Leased messages may be abandoned, but only by a worker that shuts down. *)
Abandon(S) ==
  /\ closing
  /\ S # {}
  /\ \A m \in S : status[m] = "leased"
  /\ status' = [m \in Messages |-> IF m \in S THEN "lost" ELSE status[m]]
  /\ UNCHANGED closing

Close == /\ ~closing
         /\ closing' = TRUE
         /\ UNCHANGED status

Next ==
  \/ \E m \in Messages : \/ Publish(m) \/ Lease(m) \/ Begin(m) \/ Finish(m)
                         \/ Ack(m) \/ Nack(m) \/ Overflow(m)
  \/ \E S \in SUBSET Messages : Abandon(S)
  \/ Close

Spec == Init /\ [][Next]_vars
=============================================================================
