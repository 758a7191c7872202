----------------------------- MODULE MCGoPublish -----------------------------
(* A small instance of GoPublish for TLC. *)
EXTENDS GoPublish

CONSTANTS p1, p2, m1, m2, m3

(* One call that publishes one message and one that publishes two. *)
MCPayload == (p1 :> <<m1>>) @@ (p2 :> <<m2, m3>>)

Service1 == <<"pkg", "Users">>
Users == {<<Service1, <<"Create">>>>}

(* The first call goes through a gRPC stub over HTTP, to a good queue, to  *)
(* one with an escape in its name, to one that is a dot segment, or with a *)
(* path that is no method; or through a Client on the adapter itself, with *)
(* the queue given by two options.                                         *)
Stub == [via |-> "conn", remote |-> TRUE, queue |-> <<"a">>, options |-> <<>>,
         path |-> <<"/">> \o Service1 \o <<"/", "Create">>, methods |-> Users,
         tooLarge |-> FALSE]

(* The second is a batch over HTTP, good, too large or with an action that *)
(* is blank.                                                               *)
Batch == [via |-> "batch", remote |-> TRUE, queue |-> <<"a">>,
          options |-> <<>>, path |-> <<>>,
          methods |-> Users \cup {<<Service1, <<"Get">>>>}, tooLarge |-> FALSE]

MCRequests ==
     (p1 :> {Stub, [Stub EXCEPT !.queue = <<"a", "%", "41">>], [Stub EXCEPT !.queue = <<".">>],
             [Stub EXCEPT !.path = Service1],
             [Stub EXCEPT !.via = "client", !.remote = FALSE, !.options = <<<<"b">>, <<"a">>>>]})
  @@ (p2 :> {Batch, [Batch EXCEPT !.tooLarge = TRUE],
             [Batch EXCEPT !.methods = Users \cup {<<Service1, <<" ">>>>}]})
=============================================================================
