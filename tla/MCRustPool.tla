----------------------------- MODULE MCRustPool -----------------------------
(* Small instances of RustPool for TLC.  The workers are numbered in the   *)
(* order in which stop_all goes over them.                                 *)
EXTENDS RustPool
=============================================================================
