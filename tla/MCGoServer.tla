----------------------------- MODULE MCGoServer -----------------------------
(* A small instance of GoServer for TLC. *)
EXTENDS GoServer, TLC

CONSTANTS m1, m2, h1, h2, create

(* Both messages ask for one method; the payload of the second is garbled. *)
MCMethodOf == (m1 :> create) @@ (m2 :> create)
MCDecodes == (m1 :> TRUE) @@ (m2 :> FALSE)

(* The first handler wraps a function that returns no error, the second a  *)
(* unary method; both are for the one method.                              *)
MCTarget == (h1 :> create) @@ (h2 :> create)
MCSignature ==
  LET unary == [kind |-> "func", ins |-> 2, takesContext |-> TRUE,
                takesRequest |-> TRUE, outs |-> 2, lastIsError |-> TRUE]
  IN  (h1 :> [unary EXCEPT !.outs = 1, !.lastIsError = FALSE]) @@ (h2 :> unary)
=============================================================================
