----------------------------- MODULE MCTsWorker -----------------------------
(* Small instances of TsWorker for TLC. *)
EXTENDS TsWorker
=============================================================================
