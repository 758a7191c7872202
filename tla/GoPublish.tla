------------------------------ MODULE GoPublish ------------------------------
(***************************************************************************)
(* The way of a message into the Go in-memory queue: a call of             *)
(* Client.Invoke (go/grpcq/client.go), AsyncClientConn.Invoke              *)
(* (go/grpc/client.go) or Producer.SendBatch, the checks of the Producer   *)
(* (go/core/producer.go), and the adapter: the Adapter itself, or the      *)
(* RemoteAdapter that posts to the handler of NewPublishHandler            *)
(* (go/adapters/memory/http_adapter.go) over a network that loses and      *)
(* delays requests and answers.                                            *)
(*                                                                         *)
(* The calls are the Publishers of GoMemory.  A retry is a call of its     *)
(* own: Send gives every message a new id.  A name is a sequence of        *)
(* tokens, so that escapes are visible: "%" and the two digits after it    *)
(* are tokens.                                                             *)
(***************************************************************************)
EXTENDS GoMemory, SequencesExt

CONSTANTS
  Requests      \* Requests[p]: what the caller of p may ask for

VARIABLES
  request,      \* request[p]: what it has asked for
  client,       \* client[p]: the call, as its caller sees it
  wire          \* wire[p]: the HTTP request of p

netVars == <<request, client, wire>>
pvars == <<vars, netVars>>

PublishInit ==
  /\ Init
  /\ request \in {r \in [Publishers -> UNION {Requests[p] : p \in Publishers}] :
                    \A p \in Publishers : r[p] \in Requests[p]}
  /\ client = [p \in Publishers |-> "idle"]
  /\ wire = [p \in Publishers |-> "none"]

-----------------------------------------------------------------------------
(* Clients and Producer.                                                   *)

(* A fault: any character may be in a queue name. *)
validateQueueNameNot(name) == name # <<>>

(* Letters, digits and "." are tokens that a queue name may have; space,   *)
(* "/" and "%" are not.                                                    *)
validateQueueName(name) ==
  name # <<>> /\ \A i \in DOMAIN name : name[i] \notin {" ", "/", "%"}

Trimmed(name) == name # <<>> /\ name[1] # " " /\ Last(name) # " "

validateTopicAction(topic, action) == Trimmed(topic) /\ Trimmed(action)

(* parseMethodName: the path without its first slash, split at the last    *)
(* one.                                                                    *)
Slashes(path) == {i \in DOMAIN path : path[i] = "/"}

ParseFails(path) == path = <<>> \/ path[1] # "/" \/ Slashes(Tail(path)) = {}

Service(path) == SubSeq(path, 2, Max(Slashes(path)) - 1)

Method(path) == SubSeq(path, Max(Slashes(path)) + 1, Len(path))

(* The path by which a generated stub calls a method.  A method is an      *)
(* identifier: it has no slash.                                            *)
FullMethod(service, method) == <<"/">> \o service \o <<"/">> \o method

(* The methods of a request are those that its caller means; a call        *)
(* through a gRPC connection means one, and names it by its path, unless   *)
(* the path does not parse.                                                *)
ASSUME RequestsAssumption ==
  \A p \in Publishers : \A r \in Requests[p] :
    /\ r.queue \in Seq(STRING) /\ r.options \in Seq(Seq(STRING))
    /\ r.via = "conn" /\ ~ParseFails(r.path) =>
         \E a \in r.methods :
           /\ r.methods = {a} /\ a \in Seq(STRING) \X Seq(STRING \ {"/"})
           /\ r.path = FullMethod(a[1], a[2])

(* The topics and actions of the messages: the arguments of the stub, or   *)
(* the path of a gRPC method.                                              *)
Addresses(r) ==
  IF r.via = "conn" THEN {<<Service(r.path), Method(r.path)>>} ELSE r.methods

(* The queue of the call.  Only Client.Invoke has an option for it, and    *)
(* the last one given counts.                                              *)
QueueOf(r) ==
  IF r.via = "client" /\ r.options # <<>> THEN Last(r.options) ELSE r.queue

(* Everything that Invoke, Send and SendBatch test before they publish. *)
Accepted(r) ==
  /\ r.via = "conn" => ~ParseFails(r.path)
  /\ validateQueueName(QueueOf(r))
  /\ \A a \in Addresses(r) : validateTopicAction(a[1], a[2])
  /\ ~r.tooLarge

-----------------------------------------------------------------------------
(* The URL.                                                                *)

Escapes == ("%" :> "25") @@ ("/" :> "2F") @@ (" " :> "20") @@ ("A" :> "41")

(* url.PathEscape *)
PathEscape(name) ==
  FlattenSeq([i \in DOMAIN name |->
    IF name[i] \in {"%", "/", " "} THEN <<"%", Escapes[name[i]]>> ELSE <<name[i]>>])

(* url.PathUnescape, and what net/http does to the path of a request: each *)
(* "%" and the token after it become a character.                          *)
Unescape(name) ==
  LET starts == {i \in DOMAIN name : name[i] = "%"}
      char(i) == CHOOSE c \in DOMAIN Escapes : Escapes[c] = name[i + 1]
      out(i) == IF i \in starts THEN <<char(i)>>
                ELSE IF i - 1 \in starts THEN <<>> ELSE <<name[i]>>
  IN  FlattenSeq([i \in DOMAIN name |-> out(i)])

UnescapeFails(name) ==
  \E i \in DOMAIN name :
    name[i] = "%" /\ (i = Len(name) \/ name[i + 1] \notin Range(Escapes))

(* The path as the handler sees it.  The ServeMux redirects a path with a  *)
(* dot segment, and the redirected request is no publish request.          *)
PathOf(r) == Unescape(PathEscape(QueueOf(r)))

Redirected(r) == PathOf(r) \in {<<".">>, <<".", ".">>}

(* The handler unescapes the path once more. *)
HandlerRefuses(r) == Redirected(r) \/ UnescapeFails(PathOf(r))

(* The queue in which the messages of the call end up. *)
Destination(r) ==
  IF r.remote THEN Unescape(PathOf(r)) ELSE QueueOf(r)

-----------------------------------------------------------------------------
(* The calls.                                                              *)

SetClient(p, c) == client' = [client EXCEPT ![p] = c]

SetWire(p, x) == wire' = [wire EXCEPT ![p] = x]

CallRefused(p) ==
  /\ client[p] = "idle"
  /\ ~Accepted(request[p])
  /\ SetClient(p, "error")
  /\ UNCHANGED <<vars, request, wire>>

CallLocal(p) ==
  /\ client[p] = "idle"
  /\ Accepted(request[p]) /\ ~request[p].remote
  /\ SetClient(p, "waiting")
  /\ PublishCall(p)
  /\ UNCHANGED <<request, wire>>

LocalReturns(p) ==
  /\ client[p] = "waiting"
  /\ ~request[p].remote
  /\ pub[p] \in {"ok", "error"}
  /\ SetClient(p, pub[p])
  /\ UNCHANGED <<vars, request, wire>>

(* RemoteAdapter.Publish posts the request and waits. *)
CallRemote(p) ==
  /\ client[p] = "idle"
  /\ Accepted(request[p]) /\ request[p].remote
  /\ SetClient(p, "waiting")
  /\ SetWire(p, "sent")
  /\ UNCHANGED <<vars, request>>

(* The request reaches the handler, at once or long after the client has   *)
(* given up; only then is its context done.                                *)
Arrive(p) ==
  /\ wire[p] = "sent"
  /\ \/ HandlerRefuses(request[p]) /\ SetWire(p, "refused") /\ UNCHANGED vars
     \/ /\ ~HandlerRefuses(request[p])
        /\ SetWire(p, "served")
        /\ PublishCall(p)
        /\ pub'[p] = "error" => client[p] # "waiting"
  /\ UNCHANGED <<request, client>>

RequestLost(p) ==
  /\ wire[p] = "sent"
  /\ SetWire(p, "lost")
  /\ UNCHANGED <<vars, request, client>>

(* The status that the handler answers with. *)
Status(p) ==
  CASE wire[p] = "refused" -> "error"
    [] wire[p] = "served" /\ pub[p] \in {"ok", "error"} -> pub[p]
    [] OTHER -> "none"

Answer(p) ==
  /\ client[p] = "waiting" /\ request[p].remote
  /\ Status(p) # "none"
  /\ SetClient(p, Status(p))
  /\ UNCHANGED <<vars, request, wire>>

(* client.Do fails: the timeout, a cancelled context, a lost connection.   *)
GiveUp(p) ==
  /\ client[p] = "waiting" /\ request[p].remote
  /\ SetClient(p, "unknown")
  /\ UNCHANGED <<vars, request, wire>>

Caller(p) ==
  CallRefused(p) \/ CallLocal(p) \/ LocalReturns(p) \/ CallRemote(p) \/ Answer(p) \/ GiveUp(p)

AdapterNext ==
  /\ \/ \E p \in Publishers : PublishEnter(p) \/ PublishSend(p)
     \/ \E c \in Consumers :
          \/ ConsumeCall(c) \/ ConsumeEnter(c) \/ ConsumeReceive(c)
          \/ ConsumeCancelled(c) \/ ConsumeReturn(c) \/ CancelConsumer(c)
     \/ \E m \in Messages : Ack(m) \/ Nack(m)
     \/ \E k \in Clearers :
          ClearCall(k) \/ ClearEnter(k) \/ ClearTest(k) \/ ClearReceive(k) \/ ClearSwap(k)
  /\ UNCHANGED netVars

PublishNext ==
  \/ AdapterNext
  \/ \E p \in Publishers : Caller(p) \/ Arrive(p) \/ RequestLost(p)

PublishSpec == PublishInit /\ [][PublishNext]_pvars

(* The goroutine that holds a.mu goes on.  When it has to wait for the     *)
(* channel it is first in the channel's queue of waiters, so that it moves *)
(* when the channel has room, or a message, again and again: strong        *)
(* fairness.  Nothing makes a consumer call Consume, or settle a message.  *)
LivePublishSpec == PublishSpec /\ SF_pvars(HolderStep /\ UNCHANGED netVars)

-----------------------------------------------------------------------------
(* Properties.                                                             *)

(* What a caller may conclude: success means that the queue took all       *)
(* messages of the call, an error that it took none and will take none,    *)
(* whatever consumers, nacks and Clear do meanwhile and however late the   *)
(* request arrives.  A call given up without an answer leaves it open, but *)
(* once the adapter is done with it, it took all or none.                  *)
AnswerIsTrue ==
  \A p \in Publishers :
    /\ client[p] = "ok" => left[p] = <<>>
    /\ client[p] = "error" => /\ left[p] = Payload[p]
                              /\ pub[p] \in {"idle", "error"} /\ wire[p] # "sent"
    /\ client[p] = "unknown" /\ pub[p] # "send" => left[p] \in {Payload[p], <<>>}

(* What the call of a client says about the request on the wire and the    *)
(* call of Publish behind it: a request is answered and served at most     *)
(* once.                                                                   *)
ClientShape ==
  /\ client \in [Publishers -> {"idle", "waiting", "ok", "error", "unknown"}]
  /\ wire \in [Publishers -> {"none", "sent", "lost", "refused", "served"}]
  /\ \A p \in Publishers :
       /\ client[p] = "idle" => wire[p] = "none" /\ pub[p] = "idle"
       /\ client[p] = "ok" => pub[p] = "ok"
       /\ client[p] = "error" => pub[p] \in {"idle", "error"} /\ wire[p] # "sent"
       /\ ~request[p].remote => wire[p] = "none"
       /\ wire[p] \in {"sent", "lost", "refused"} => pub[p] = "idle"

(* Only a request that passed all tests is on its way or in the adapter. *)
Admitted ==
  \A p \in Publishers :
    /\ request[p] \in Requests[p]
    /\ pub[p] # "idle" \/ wire[p] # "none" => Accepted(request[p])

(* Messages reach the queue, and carry the topic and action, that the      *)
(* caller asked for: escaping the name into the URL and unescaping it      *)
(* twice, and taking the path of a gRPC method apart, change nothing.      *)
Routed ==
  \A p \in Publishers :
    pub[p] # "idle" =>
      /\ Destination(request[p]) = QueueOf(request[p])
      /\ Addresses(request[p]) = request[p].methods
=============================================================================
