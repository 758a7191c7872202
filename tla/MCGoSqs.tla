------------------------------ MODULE MCGoSqs ------------------------------
(* A small instance of GoSqs for TLC. *)
EXTENDS GoSqs, TLC

CONSTANTS b1, b2

MCMessages == Bodies \X Handles

MCParcel == <<b1, b2>>

(* An older raw message whose text happens to be base64 of something else, *)
(* and a body that is no message at all.                                   *)
MCForeign == {[base64 |-> TRUE, inner |-> FALSE, raw |-> TRUE],
              [base64 |-> FALSE, inner |-> FALSE, raw |-> FALSE]}
=============================================================================
