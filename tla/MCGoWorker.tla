----------------------------- MODULE MCGoWorker -----------------------------
(* A small instance of GoWorker for TLC; the liveness properties rule out  *)
(* a symmetry set.                                                         *)
EXTENDS GoWorker
=============================================================================
