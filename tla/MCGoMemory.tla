----------------------------- MODULE MCGoMemory -----------------------------
(* Small instances of GoMemory for TLC. *)
EXTENDS GoMemory, TLC

CONSTANTS p1, p2, m1, m2, m3

(* One call that publishes one message and one that publishes two. *)
MCPayload == (p1 :> <<m1>>) @@ (p2 :> <<m2, m3>>)
=============================================================================
