------------------------------ MODULE MCTsPool ------------------------------
(* Small instances of TsPool for TLC; the workers are numbered in the order *)
(* in which start launches them.                                            *)
EXTENDS TsPool
=============================================================================
