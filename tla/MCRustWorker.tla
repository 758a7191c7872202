---------------------------- MODULE MCRustWorker ----------------------------
(* A small instance of RustWorker for TLC. *)
EXTENDS RustWorker
=============================================================================
