------------------------------- MODULE GoSqs -------------------------------
(***************************************************************************)
(* The Go Worker on the SQS adapter (go/adapters/sqs/adapter.go).          *)
(*                                                                         *)
(* The loop, the goroutines and the slots are those of GoWorker, whose     *)
(* Messages are here the receipts: a body of SQS with one of its receipt   *)
(* handles.  SQS keeps the bodies: a received one is leased, hidden until  *)
(* its visibility timeout, and comes back unless it is deleted.  Requests  *)
(* to SQS may fail, or take effect though their answer is lost; under a    *)
(* cancelled context they do the same, so the end of a worker by a failed  *)
(* request or a crash stands for its cancellation too.  The queue, unsent  *)
(* and acked of GoWorker, which are the in-memory queue, do not change.    *)
(***************************************************************************)
EXTENDS GoWorker, SequencesExt

CONSTANTS
  Bodies,        \* the messages that are followed, in SQS
  Foreign,       \* the kinds of other bodies that may be in the queue
  Parcel,        \* the messages of one call of Publish, in order
  SendLimit,     \* entries of a SendMessageBatch (10 in the code)
  ReceiveLimit,  \* messages of a ReceiveMessage (10 in the code)
  Handles        \* bound: receipts of one body that are in use at a time

ASSUME SqsAssumption ==
  /\ Messages = Bodies \X Handles
  /\ Parcel \in Seq(Bodies) /\ Bodies = Range(Parcel) /\ IsInjective(Parcel)
  /\ SendLimit \in Nat \ {0} /\ ReceiveLimit \in Nat \ {0}

VARIABLES
  store,     \* store[b]: what SQS has of b
  expired,   \* bodies whose lease has run out at least once
  handled,   \* handled[b]: how often a handler ended well on b, up to 2
  sent,      \* how many messages of Parcel are in chunks that went well
  pub        \* the call of Publish: "sending", "ok" or "error"

sqsVars == <<store, expired, handled>>
pubVars == <<sent, pub>>
qvars == <<vars, sqsVars, pubVars>>

SqsInit ==
  /\ Init
  /\ store = [b \in Bodies |-> "absent"]
  /\ expired = {}
  /\ handled = [b \in Bodies |-> 0]
  /\ sent = 0
  /\ pub = "sending"

-----------------------------------------------------------------------------
(* Publish.                                                                *)

(* The messages of the next chunk, messages[i:end]. *)
Chunk == {Parcel[i] : i \in sent + 1 .. Min({sent + SendLimit, Len(Parcel)})}

Stored(S) == [b \in Bodies |-> IF b \in S THEN "visible" ELSE store[b]]

(* A fault: the list of failed entries is not looked at. *)
PublishGoesOn ==
  /\ pub = "sending"
  /\ \E S \in SUBSET Chunk : store' = Stored(S)
  /\ sent' = sent + Cardinality(Chunk)
  /\ pub' = IF sent' = Len(Parcel) THEN "ok" ELSE "sending"
  /\ UNCHANGED <<vars, expired, handled>>

(* All entries of the chunk are in; after the last chunk Publish returns. *)
PublishBatch ==
  /\ pub = "sending"
  /\ store' = Stored(Chunk)
  /\ sent' = sent + Cardinality(Chunk)
  /\ pub' = IF sent' = Len(Parcel) THEN "ok" ELSE "sending"
  /\ UNCHANGED <<vars, expired, handled>>

(* SendMessageBatch fails, or some of its entries do, or its answer is     *)
(* lost: Publish returns the error, and the chunks after it are not sent.  *)
PublishBatchFails ==
  /\ pub = "sending"
  /\ \E S \in SUBSET Chunk : store' = Stored(S)
  /\ pub' = "error"
  /\ UNCHANGED <<vars, expired, handled, sent>>

-----------------------------------------------------------------------------
(* Consume.                                                                *)

(* encodeMessageBody: base64 around a marshalled message. *)
Encoded == [base64 |-> TRUE, inner |-> TRUE, raw |-> FALSE]

(* decodeMessageBody: base64 around a message, or else the raw message.    *)
Decodes(body) == (body.base64 /\ body.inner) \/ body.raw

(* A handle that no goroutine and no batch has. *)
FreeHandles(b) ==
  {h \in Handles : \A w \in Workers : <<b, h>> \notin Range(batch[w]) \cup Held(w)}

(* SQS may answer with the bodies of S. *)
Answer(S) ==
  /\ Cardinality(S) <= Min({MaxBatch, ReceiveLimit})
  /\ \A b \in S : store[b] = "visible" /\ FreeHandles(b) # {}

Leased(S) == [b \in Bodies |-> IF b \in S THEN "leased" ELSE store[b]]

(* The item of b: a receipt with a new handle. *)
Item(b) == <<b, CHOOSE h \in FreeHandles(b) : TRUE>>

(* Every body of the answer decodes: the batch has an item for each. *)
Receive(w, S) ==
  /\ pc[w] = "consume"
  /\ S # {} /\ Answer(S)
  /\ Decodes(Encoded)
  /\ store' = Leased(S)
  /\ \E s \in SetToSeqs(S) :
       batch' = [batch EXCEPT ![w] = [i \in DOMAIN s |-> Item(s[i])]]
  /\ pc' = [pc EXCEPT ![w] = "dispatch"]
  /\ UNCHANGED <<startErr, taskVars, msgVars, signalVars, expired, handled, pubVars>>

(* With the bodies of S comes one of another producer that does not        *)
(* decode: Consume fails, and the leases stay taken.                       *)
ReceiveGarbled(w, S) ==
  /\ pc[w] = "consume"
  /\ Answer(S) /\ Cardinality(S) < Min({MaxBatch, ReceiveLimit})
  /\ \E body \in Foreign : ~Decodes(body)
  /\ store' = Leased(S)
  /\ Leave(w, "adapter")
  /\ UNCHANGED <<expired, handled, pubVars>>

(* ReceiveMessage fails, or its answer with leases taken is lost. *)
ReceiveFails(w, S) ==
  /\ pc[w] = "consume"
  /\ Answer(S)
  /\ store' = Leased(S)
  /\ Leave(w, "adapter")
  /\ UNCHANGED <<expired, handled, pubVars>>

(* An empty answer: SQS may give one also while bodies are visible. *)
ReceiveNothing(w) ==
  /\ pc[w] = "consume"
  /\ Goto(w, "poll")
  /\ UNCHANGED <<sqsVars, pubVars>>

-----------------------------------------------------------------------------
(* Receipts.  SQS may or may not honour a handle that is not the latest.   *)

(* A fault: the error of the handler is not looked at. *)
AckUnhandled(w, b, h) ==
  /\ task[w][<<b, h>>] \in {"succeeded", "failed"}
  /\ store' = [store EXCEPT ![b] = "deleted"]
  /\ Processed(w, <<b, h>>)
  /\ UNCHANGED <<msgVars, expired, handled, pubVars>>

AckApplied(w, b, h) ==
  /\ task[w][<<b, h>>] = "succeeded"
  /\ store' = [store EXCEPT ![b] = "deleted"]
  /\ Processed(w, <<b, h>>)
  /\ UNCHANGED <<msgVars, expired, handled, pubVars>>

(* A fault: a message that could not be deleted is made visible. *)
AckFailsOver(w, b, h) ==
  /\ task[w][<<b, h>>] = "succeeded"
  /\ store' = [store EXCEPT ![b] = IF @ = "leased" THEN "visible" ELSE @]
  /\ Processed(w, <<b, h>>)
  /\ UNCHANGED <<msgVars, expired, handled, pubVars>>

(* The deletion is not done; the error is logged. *)
AckFails(w, b, h) ==
  /\ task[w][<<b, h>>] = "succeeded"
  /\ Processed(w, <<b, h>>)
  /\ UNCHANGED <<msgVars, sqsVars, pubVars>>

(* A fault: the message is given back while its handler still runs. *)
NackEarly(w, b, h) ==
  /\ task[w][<<b, h>>] = "running"
  /\ store[b] = "leased"
  /\ store' = [store EXCEPT ![b] = "visible"]
  /\ UNCHANGED <<vars, expired, handled, pubVars>>

(* The visibility timeout becomes 0: also of a body leased to another.     *)
NackApplied(w, b, h) ==
  /\ task[w][<<b, h>>] = "failed"
  /\ store' = [store EXCEPT ![b] = IF @ = "leased" THEN "visible" ELSE @]
  /\ Processed(w, <<b, h>>)
  /\ UNCHANGED <<msgVars, expired, handled, pubVars>>

(* A fault: the goroutine ends and keeps its slot. *)
NackFailsForGood(w, b, h) ==
  /\ task[w][<<b, h>>] = "failed"
  /\ task' = [task EXCEPT ![w][<<b, h>>] = "none"]
  /\ UNCHANGED <<releasing, exiting, sem, wg, workerVars, msgVars, signalVars, sqsVars, pubVars>>

NackFails(w, b, h) ==
  /\ task[w][<<b, h>>] = "failed"
  /\ Processed(w, <<b, h>>)
  /\ UNCHANGED <<msgVars, sqsVars, pubVars>>

-----------------------------------------------------------------------------
(* SQS by itself, the handlers, and the end of the process of a worker.    *)

Expire(b) ==
  /\ store[b] = "leased"
  /\ store' = [store EXCEPT ![b] = "visible"]
  /\ expired' = expired \cup {b}
  /\ UNCHANGED <<vars, handled, pubVars>>

SqsHandleOk(w, b, h) ==
  /\ HandleOk(w, <<b, h>>)
  /\ handled' = [handled EXCEPT ![b] = Min({2, @ + 1})]
  /\ UNCHANGED <<store, expired, pubVars>>

(* The process of the workers is killed, and a new one may be started: the *)
(* batches, goroutines and slots are those of Init.                        *)
Crash ==
  /\ \E w \in Workers : pc[w] # "idle"
  /\ pc' = [w \in Workers |-> "idle"]
  /\ batch' = [w \in Workers |-> <<>>]
  /\ startErr' = [w \in Workers |-> "none"]
  /\ task' = [w \in Workers |-> [r \in Messages |-> "none"]]
  /\ releasing' = [w \in Workers |-> 0]
  /\ exiting' = [w \in Workers |-> 0]
  /\ sem' = [w \in Workers |-> 0]
  /\ wg' = [w \in Workers |-> 0]
  /\ lost' = {}
  /\ UNCHANGED <<unsent, queue, acked, signalVars, sqsVars, pubVars>>

-----------------------------------------------------------------------------
WorkerAlone(A) == A /\ UNCHANGED <<sqsVars, pubVars>>

(* The loop of GoWorker around Consume. *)
WorkerLoop(w) ==
  WorkerAlone(TopDefault(w) \/ PollTimer(w) \/ Dispatch(w) \/ Done(w))

SqsNext ==
  \/ PublishBatch \/ PublishBatchFails
  \/ \E b \in Bodies : Expire(b)
  \/ Crash
  \/ \E w \in Workers :
       \/ WorkerAlone(Start(w)) \/ WorkerLoop(w) \/ ReceiveNothing(w)
       \/ WorkerAlone(ReleaseSlot(w)) \/ WorkerAlone(WgDone(w))
       \/ \E S \in SUBSET Bodies :
            Receive(w, S) \/ ReceiveGarbled(w, S) \/ ReceiveFails(w, S)
       \/ \E b \in Bodies, h \in Handles :
            \/ SqsHandleOk(w, b, h) \/ WorkerAlone(HandleErr(w, <<b, h>>))
            \/ AckApplied(w, b, h) \/ AckFails(w, b, h)
            \/ NackApplied(w, b, h) \/ NackFails(w, b, h)

SqsSpec == SqsInit /\ [][SqsNext]_qvars

(***************************************************************************)
(* Goroutines run and leases run out.  SQS gives a visible message to a    *)
(* consumer that keeps asking, a handler that is retried succeeds in the   *)
(* end, and a deletion that is tried again and again is done in the end.   *)
(***************************************************************************)
SqsFairness ==
  /\ \A b \in Bodies : WF_qvars(Expire(b))
  /\ \A w \in Workers :
       /\ WF_qvars(WorkerLoop(w) \/ ReceiveNothing(w))
       /\ WF_qvars(WorkerAlone(ReleaseSlot(w)))
       /\ WF_qvars(WorkerAlone(WgDone(w)))
       /\ \A b \in Bodies :
            /\ SF_qvars(\E S \in SUBSET Bodies : b \in S /\ Receive(w, S))
            /\ SF_qvars(\E h \in Handles : SqsHandleOk(w, b, h))
            /\ SF_qvars(\E h \in Handles : AckApplied(w, b, h))
            /\ WF_qvars(\E h \in Handles : NackApplied(w, b, h) \/ NackFails(w, b, h))

LiveSqsSpec == SqsSpec /\ SqsFairness

-----------------------------------------------------------------------------
(* Properties.                                                             *)

(* Nothing is lost: a message is deleted from SQS only if a handler ended  *)
(* well on it, across failed requests, stale handles, batches that do not  *)
(* decode, cancellation and crashes at any point.                          *)
DeletedWasHandled ==
  \A b \in Bodies : store[b] = "deleted" => handled[b] > 0

(* The contract of QueueAdapter.Publish, "All messages must be published   *)
(* successfully or an error is returned", over the chunks of the SQS       *)
(* adapter: success means that SQS took every message, and no message of   *)
(* a chunk after a failed one was sent.                                    *)
PublishContract ==
  /\ pub = "ok" => \A b \in Range(Parcel) : store[b] # "absent"
  /\ \A i \in DOMAIN Parcel :
       i > sent + SendLimit => store[Parcel[i]] = "absent"

(* A worker has a message in its hands twice, and two workers have it at   *)
(* a time, only after a lease of it has run out: batches, requeues and     *)
(* waits for a slot never do it.                                           *)
OverlapNeedsExpiry ==
  \A v, w \in Workers, b \in Bodies, g, h \in Handles :
    (<<v, g>> # <<w, h>> /\ <<b, g>> \in InHands(v) /\ <<b, h>> \in InHands(w))
      => b \in expired

(* A message that was handled with success is handled again only after a   *)
(* lease of it has run out, even when its deletion failed.                 *)
AgainNeedsExpiry ==
  \A b \in Bodies : handled[b] > 1 => b \in expired

Once == INSTANCE AtLeastOnce

(* The worker, the adapter and SQS together process at least once: every   *)
(* step is one that AtLeastOnce allows, so that a removal is final and     *)
(* follows a success, and until a lease has run out the first success is   *)
(* the only one and nothing is given back after it.                        *)
ImplementsAtLeastOnce == Once!Spec

(* The types of the variables that the receipts depend on. *)
SqsTypeOK ==
  /\ pc \in [Workers -> PC]
  /\ batch \in [Workers -> Seq(Messages)]
  /\ task \in [Workers -> [Messages -> Task]]
  /\ store \in [Bodies -> {"absent", "visible", "leased", "deleted"}]
  /\ expired \subseteq Bodies
  /\ handled \in [Bodies -> 0 .. 2]

(* A worker has items exactly while it dispatches them, each once, and no  *)
(* goroutine has one of them yet.                                          *)
ItemsOf(w) ==
  /\ pc[w] = "dispatch" <=> batch[w] # <<>>
  /\ IsInjective(batch[w])
  /\ Range(batch[w]) \cap Held(w) = {}

(* SQS took the chunks before sent, and nothing after them while Publish   *)
(* goes on; after an error it may have taken some of the next chunk.       *)
Published ==
  /\ sent \in 0 .. Len(Parcel)
  /\ pub = "ok" => sent = Len(Parcel)
  /\ \A i \in DOMAIN Parcel :
       /\ i <= sent => store[Parcel[i]] # "absent"
       /\ i > sent + (IF pub = "sending" THEN 0 ELSE SendLimit) => store[Parcel[i]] = "absent"

(* The receipts of b that are in use, each with the worker that has it. *)
Receipts(b) == {u \in Workers \X Handles : <<b, u[2]>> \in InHands(u[1])}

Succeeded(b, u) == task[u[1]][<<b, u[2]>>] = "succeeded"

(* While no lease of b has run out, at most one receipt of it is in use,   *)
(* none when SQS may give b out, and only to delete it once it is handled. *)
LedgerOf(b) ==
  /\ store[b] = "absent" => b \notin expired
  /\ store[b] = "deleted" => handled[b] > 0
  /\ \A u \in Receipts(b) : Succeeded(b, u) => handled[b] > 0
  /\ b \notin expired =>
       /\ handled[b] < 2
       /\ store[b] \in {"absent", "visible"} => Receipts(b) = {} /\ handled[b] = 0
       /\ \A u, v \in Receipts(b) : u = v
       /\ handled[b] = 1 => \A u \in Receipts(b) : Succeeded(b, u)

(* The inductive invariant. *)
SqsInv ==
  /\ SqsTypeOK
  /\ \A w \in Workers : ItemsOf(w)
  /\ Published
  /\ \A b \in Bodies : LedgerOf(b)

(* A message that SQS took is handled and deleted in the end, across any   *)
(* failures, if a worker is left that neither ends nor is killed.          *)
EventuallyRemoved ==
  \A b \in Bodies :
    (store[b] # "absent")
      ~> (store[b] = "deleted" \/ \A w \in Workers : pc[w] \in {"idle", "drain", "done"})
=============================================================================
