------------------------------ MODULE MCGoPool ------------------------------
(* Small instances of GoPool for TLC. *)
EXTENDS GoPool
=============================================================================
