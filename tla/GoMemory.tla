------------------------------ MODULE GoMemory ------------------------------
(***************************************************************************)
(* The Go in-memory adapter (go/adapters/memory/adapter.go) at the level   *)
(* of its mutex and its channel: concurrent calls of Publish, Consume and  *)
(* Clear on one queue, and Ack and Nack on the receipts that Consume       *)
(* returned.  Consume and the requeue of Nack use the channel without the  *)
(* mutex, and Clear replaces the channel, so each channel is a generation  *)
(* of its own.                                                             *)
(***************************************************************************)
EXTENDS Integers, Sequences, FiniteSets, Functions

CONSTANTS
  Publishers,    \* goroutines that call Publish, once each
  Payload,       \* Payload[p]: the messages that p publishes in its call
  Consumers,     \* goroutines that call Consume, again and again
  Clearers,      \* goroutines that call Clear, once each
  MaxBatch,      \* the maxBatch argument of Consume
  BufferSize,    \* the capacity of a channel
  NoOne          \* the mutex is free

Messages == UNION {Range(Payload[p]) : p \in Publishers}

ASSUME PayloadAssumption ==
  /\ \A p \in Publishers :
       /\ Payload[p] \in Seq(Range(Payload[p])) /\ Payload[p] # <<>>
       /\ IsInjective(Payload[p])
  /\ \A p, q \in Publishers : p # q => Range(Payload[p]) \cap Range(Payload[q]) = {}

ASSUME LimitsAssumption == MaxBatch \in Nat \ {0} /\ BufferSize \in Nat \ {0}

ASSUME ClearersAssumption == IsFiniteSet(Clearers)

(* The channels that can exist: the first one and one per Clear. *)
Generations == 1 .. Cardinality(Clearers) + 1

VARIABLES
  mu,        \* the holder of a.mu
  current,   \* the generation of the channel in a.queues, 0 if there is none
  chan,      \* chan[g]: the channel of generation g
  pub,       \* pub[p]: where the call of Publish is
  left,      \* left[p]: the messages p has still to send
  con,       \* con[c]: where the call of Consume is
  cancelled, \* cancelled[c]: the context of the consumer is done
  ref,       \* ref[c]: the channel that the call of Consume uses
  items,     \* items[c]: the items it has received
  receipt,   \* receipt[m]: who has the last receipt made for m
  flags,     \* flags[m]: which of acked and nacked that receipt has set
  origin,    \* origin[m]: the channel captured by that receipt
  clear,     \* clear[k]: where the call of Clear is
  gone       \* messages removed by Clear, or lost

callVars == <<pub, left>>
conVars == <<con, cancelled, ref, items>>
receiptVars == <<receipt, flags, origin>>
vars == <<mu, current, chan, callVars, conVars, receiptVars, clear, gone>>

Init ==
  /\ mu = NoOne
  /\ current = 0
  /\ chan = [g \in Generations |-> <<>>]
  /\ pub = [p \in Publishers |-> "idle"]
  /\ left = [p \in Publishers |-> Payload[p]]
  /\ con = [c \in Consumers |-> "idle"]
  /\ cancelled = [c \in Consumers |-> FALSE]
  /\ ref = [c \in Consumers |-> 0]
  /\ items = [c \in Consumers |-> <<>>]
  /\ receipt = [m \in Messages |-> "none"]
  /\ flags = [m \in Messages |-> {}]
  /\ origin = [m \in Messages |-> 0]
  /\ clear = [k \in Clearers |-> "idle"]
  /\ gone = {}

(* a.queues[queueName], made on first use. *)
Lookup == IF current = 0 THEN 1 ELSE current

Room(g) == BufferSize - Len(chan[g])

-----------------------------------------------------------------------------
(* Publish.                                                                *)

(* A context that is already done, or a wait for a.mu. *)
PublishCall(p) ==
  /\ pub[p] = "idle"
  /\ \E next \in {"error", "lock"} : pub' = [pub EXCEPT ![p] = next]
  /\ UNCHANGED <<mu, current, chan, left, conVars, receiptVars, clear, gone>>

(* The capacity check. *)
Enough(p) == Len(Payload[p]) <= Room(Lookup)

(* A fault: the error of a full queue leaves Publish with the mutex held. *)
PublishEnterKeeps(p) ==
  /\ pub[p] = "lock"
  /\ mu = NoOne
  /\ current' = Lookup
  /\ pub' = [pub EXCEPT ![p] = IF Enough(p) THEN "send" ELSE "error"]
  /\ mu' = p
  /\ UNCHANGED <<chan, left, conVars, receiptVars, clear, gone>>

PublishEnter(p) ==
  /\ pub[p] = "lock"
  /\ mu = NoOne
  /\ current' = Lookup
  /\ \/ ~Enough(p) /\ pub' = [pub EXCEPT ![p] = "error"] /\ UNCHANGED mu
     \/ Enough(p) /\ pub' = [pub EXCEPT ![p] = "send"] /\ mu' = p
  /\ UNCHANGED <<chan, left, conVars, receiptVars, clear, gone>>

(* The next message goes into the channel; the last one ends the call.     *)
Send(p) ==
  /\ Room(current) > 0
  /\ chan' = [chan EXCEPT ![current] = Append(@, Head(left[p]))]
  /\ left' = [left EXCEPT ![p] = Tail(@)]
  /\ \/ Len(left[p]) > 1 /\ UNCHANGED <<pub, mu>>
     \/ Len(left[p]) = 1 /\ pub' = [pub EXCEPT ![p] = "ok"] /\ mu' = NoOne

(* A fault: a send that finds the channel full ends the call with an error.*)
PublishSendOrFail(p) ==
  /\ pub[p] = "send"
  /\ \/ Send(p)
     \/ /\ Room(current) <= 0
        /\ pub' = [pub EXCEPT ![p] = "error"]
        /\ mu' = NoOne
        /\ UNCHANGED <<chan, left>>
  /\ UNCHANGED <<current, conVars, receiptVars, clear, gone>>

(* Each send blocks while the channel is full; the mutex is held until the *)
(* last one.                                                               *)
PublishSend(p) ==
  /\ pub[p] = "send"
  /\ Send(p)
  /\ UNCHANGED <<current, conVars, receiptVars, clear, gone>>

-----------------------------------------------------------------------------
(* Consume.                                                                *)

ConsumeCall(c) ==
  /\ con[c] = "idle"
  /\ con' = [con EXCEPT ![c] = "lock"]
  /\ UNCHANGED <<mu, current, chan, callVars, cancelled, ref, items, receiptVars, clear, gone>>

(* The mutex is held only to find the channel. *)
ConsumeEnter(c) ==
  /\ con[c] = "lock"
  /\ mu = NoOne
  /\ current' = Lookup
  /\ ref' = [ref EXCEPT ![c] = Lookup]
  /\ con' = [con EXCEPT ![c] = "receive"]
  /\ UNCHANGED <<mu, chan, callVars, cancelled, items, receiptVars, clear, gone>>

(* The loop over 0 .. maxBatch - 1 is not over. *)
WantsMore(c) == Len(items[c]) < MaxBatch

(* A receive makes the receipt, which captures the channel. *)
ConsumeReceive(c) ==
  /\ con[c] = "receive"
  /\ WantsMore(c)
  /\ chan[ref[c]] # <<>>
  /\ LET m == Head(chan[ref[c]]) IN
       /\ items' = [items EXCEPT ![c] = Append(@, m)]
       /\ receipt' = [receipt EXCEPT ![m] = "made"]
       /\ flags' = [flags EXCEPT ![m] = {}]
       /\ origin' = [origin EXCEPT ![m] = ref[c]]
  /\ chan' = [chan EXCEPT ![ref[c]] = Tail(@)]
  /\ UNCHANGED <<mu, current, callVars, con, cancelled, ref, clear, gone>>

(* The context is done: an error and no items; the received ones are lost. *)
ConsumeCancelled(c) ==
  /\ con[c] = "receive"
  /\ WantsMore(c)
  /\ cancelled[c]
  /\ con' = [con EXCEPT ![c] = "idle"]
  /\ items' = [items EXCEPT ![c] = <<>>]
  /\ gone' = gone \cup Range(items[c])
  /\ UNCHANGED <<mu, current, chan, callVars, cancelled, ref, receiptVars, clear>>

(* The batch is full, or the channel is empty: the caller gets the items   *)
(* and may use their receipts.                                             *)
ConsumeReturn(c) ==
  /\ con[c] = "receive"
  /\ \/ ~WantsMore(c)
     \/ chan[ref[c]] = <<>> /\ ~cancelled[c]
  /\ con' = [con EXCEPT ![c] = "idle"]
  /\ items' = [items EXCEPT ![c] = <<>>]
  /\ receipt' = [m \in Messages |-> IF m \in Range(items[c]) THEN "open" ELSE receipt[m]]
  /\ UNCHANGED <<mu, current, chan, callVars, cancelled, ref, flags, origin, clear, gone>>

CancelConsumer(c) ==
  /\ ~cancelled[c]
  /\ cancelled' = [cancelled EXCEPT ![c] = TRUE]
  /\ UNCHANGED <<mu, current, chan, callVars, con, ref, items, receiptVars, clear, gone>>

-----------------------------------------------------------------------------
(* Receipts; r.mu makes each call one step.  A call on a receipt that is   *)
(* already acked or nacked returns an error and changes nothing.           *)

(* The caller has the receipt, and neither flag is set. *)
Settleable(m) == receipt[m] = "open" /\ flags[m] = {}

Ack(m) ==
  /\ Settleable(m)
  /\ flags' = [flags EXCEPT ![m] = {"acked"}]
  /\ UNCHANGED <<mu, current, chan, callVars, conVars, receipt, origin, clear, gone>>

(* A fault: the requeue finds the channel in a.queues again. *)
RequeueToCurrent(m) == current

(* The channel that the requeue function captured. *)
RequeueTo(m) == origin[m]

(* A fault: Nack does not look at acked. *)
CanNackAcked(m) == receipt[m] = "open" /\ "nacked" \notin flags[m]

CanNack(m) == Settleable(m)

(* The requeue does not take a.mu and does not block: with a full channel  *)
(* the message is lost.                                                    *)
Nack(m) ==
  /\ CanNack(m)
  /\ flags' = [flags EXCEPT ![m] = @ \cup {"nacked"}]
  /\ LET g == RequeueTo(m) IN
       \/ /\ Room(g) > 0
          /\ chan' = [chan EXCEPT ![g] = Append(@, m)]
          /\ UNCHANGED gone
       \/ /\ Room(g) <= 0
          /\ gone' = gone \cup {m}
          /\ UNCHANGED chan
  /\ UNCHANGED <<mu, current, callVars, conVars, receipt, origin, clear>>

-----------------------------------------------------------------------------
(* Clear.                                                                  *)

ClearCall(k) ==
  /\ clear[k] = "idle"
  /\ clear' = [clear EXCEPT ![k] = "lock"]
  /\ UNCHANGED <<mu, current, chan, callVars, conVars, receiptVars, gone>>

(* With no queue yet there is nothing to clear. *)
ClearEnter(k) ==
  /\ clear[k] = "lock"
  /\ mu = NoOne
  /\ \/ current = 0 /\ clear' = [clear EXCEPT ![k] = "done"] /\ UNCHANGED mu
     \/ current # 0 /\ clear' = [clear EXCEPT ![k] = "test"] /\ mu' = k
  /\ UNCHANGED <<current, chan, callVars, conVars, receiptVars, gone>>

(* len(queue) > 0, and then a receive that blocks if a consumer was first. *)
ClearTest(k) ==
  /\ clear[k] = "test"
  /\ chan[current] # <<>>
  /\ clear' = [clear EXCEPT ![k] = "receive"]
  /\ UNCHANGED <<mu, current, chan, callVars, conVars, receiptVars, gone>>

ClearReceive(k) ==
  /\ clear[k] = "receive"
  /\ chan[current] # <<>>
  /\ gone' = gone \cup {Head(chan[current])}
  /\ chan' = [chan EXCEPT ![current] = Tail(@)]
  /\ clear' = [clear EXCEPT ![k] = "test"]
  /\ UNCHANGED <<mu, current, callVars, conVars, receiptVars>>

ClearSwap(k) ==
  /\ clear[k] = "test"
  /\ chan[current] = <<>>
  /\ current' = current + 1
  /\ clear' = [clear EXCEPT ![k] = "done"]
  /\ mu' = NoOne
  /\ UNCHANGED <<chan, callVars, conVars, receiptVars, gone>>

-----------------------------------------------------------------------------
Next ==
  \/ \E p \in Publishers : PublishCall(p) \/ PublishEnter(p) \/ PublishSend(p)
  \/ \E c \in Consumers :
       \/ ConsumeCall(c) \/ ConsumeEnter(c) \/ ConsumeReceive(c)
       \/ ConsumeCancelled(c) \/ ConsumeReturn(c) \/ CancelConsumer(c)
  \/ \E m \in Messages : Ack(m) \/ Nack(m)
  \/ \E k \in Clearers :
       ClearCall(k) \/ ClearEnter(k) \/ ClearTest(k) \/ ClearReceive(k) \/ ClearSwap(k)

Spec == Init /\ [][Next]_vars

(* What the goroutine that holds the mutex does under it. *)
HolderStep ==
  \/ \E p \in Publishers : PublishSend(p)
  \/ \E k \in Clearers : ClearTest(k) \/ ClearReceive(k) \/ ClearSwap(k)

-----------------------------------------------------------------------------
(* Properties.                                                             *)

(* The places of m in the sequences of f. *)
Spots(tag, f, m) ==
  UNION {{<<tag, d, i>> : i \in {j \in DOMAIN f[d] : f[d][j] = m}} : d \in DOMAIN f}

(* Where a message is.  The open receipt is the right to settle it: an     *)
(* acked message is in no channel, a message is never delivered while a    *)
(* receipt for it is open, and none disappears.                            *)
Places(m) ==
  Spots("left", left, m) \cup Spots("chan", chan, m) \cup Spots("items", items, m)
    \cup {<<"open">> : x \in {m} \cap {n \in Messages : Settleable(n)}}
    \cup {<<"acked">> : x \in {m} \cap {n \in Messages : "acked" \in flags[n]}}
    \cup {<<"gone">> : x \in {m} \cap gone}

Conservation == \A m \in Messages : Cardinality(Places(m)) = 1

(* Clear is final: a message that was in flight when Clear replaced the    *)
(* channel never turns up in the new one, since its Nack goes to the       *)
(* channel it came from.                                                   *)
ClearIsFinal ==
  \A g \in Generations : \A i \in DOMAIN chan[g] :
    origin[chan[g][i]] \in {0, g}

(* The types of the variables. *)
TypeOK ==
  /\ mu \in Publishers \cup Clearers \cup {NoOne}
  /\ current \in Generations \cup {0}
  /\ chan \in [Generations -> Seq(Messages)]
  /\ pub \in [Publishers -> {"idle", "lock", "send", "ok", "error"}]
  /\ left \in [Publishers -> Seq(Messages)]
  /\ con \in [Consumers -> {"idle", "lock", "receive"}]
  /\ cancelled \in [Consumers -> BOOLEAN]
  /\ ref \in [Consumers -> Generations \cup {0}]
  /\ items \in [Consumers -> Seq(Messages)]
  /\ receipt \in [Messages -> {"none", "made", "open"}]
  /\ flags \in [Messages -> SUBSET {"acked", "nacked"}]
  /\ origin \in [Messages -> Generations \cup {0}]
  /\ clear \in [Clearers -> {"idle", "lock", "test", "receive", "done"}]
  /\ gone \subseteq Messages

(* What the place of a Publish says about the messages it has still to     *)
(* send, and the place of every call about the channel it uses.  There is  *)
(* a channel for every Clear that has not been made yet.                   *)
CallShape ==
  /\ \A p \in Publishers :
       /\ pub[p] \in {"idle", "lock", "error"} => left[p] = Payload[p]
       /\ pub[p] = "send" => left[p] # <<>> /\ current # 0
       /\ pub[p] = "ok" => left[p] = <<>>
  /\ \A c \in Consumers : con[c] = "receive" => ref[c] # 0
  /\ \A k \in Clearers : clear[k] \in {"test", "receive"} => current # 0
  /\ current <= Cardinality({k \in Clearers : clear[k] = "done"}) + 1

(* The messages in the sequences of f. *)
Contents(f) == UNION {Range(f[d]) : d \in DOMAIN f}

(* No message is twice in the sequences of f. *)
Distinct(f) ==
  /\ \A d \in DOMAIN f : IsInjective(f[d])
  /\ \A d, e \in DOMAIN f : d # e => Range(f[d]) \cap Range(f[e]) = {}

(* Six sets that have every message once. *)
Apart(L, C, I, O, A, G) ==
  /\ L \cap (C \cup I \cup O \cup A \cup G) = {}
  /\ C \cap (I \cup O \cup A \cup G) = {}
  /\ I \cap (O \cup A \cup G) = {}
  /\ O \cap (A \cup G) = {}
  /\ A \cap G = {}
  /\ Messages \subseteq L \cup C \cup I \cup O \cup A \cup G

Open == {m \in Messages : Settleable(m)}
Acked == {m \in Messages : "acked" \in flags[m]}

OncePlaced ==
  /\ Distinct(left) /\ Distinct(chan) /\ Distinct(items)
  /\ Apart(Contents(left), Contents(chan), Contents(items), Open, Acked, gone)

(* A receipt is untouched until Consume returns it, and from a channel     *)
(* from then on; a message that was not sent yet has none.                 *)
ReceiptShape ==
  /\ \A m \in Contents(left) : origin[m] = 0
  /\ \A m \in Contents(items) : receipt[m] = "made" /\ flags[m] = {} /\ origin[m] # 0
  /\ \A m \in Open : origin[m] # 0

(* The inductive invariant. *)
MemoryInv == TypeOK /\ CallShape /\ OncePlaced /\ ReceiptShape /\ ClearIsFinal

(* What the comment in Publish says of its sends: "the capacity check      *)
(* above guarantees enough room while we hold the lock, so these sends     *)
(* will never block".                                                      *)
PublishNeverBlocks ==
  \A p \in Publishers : pub[p] = "send" => Room(current) > 0

(* The two places where the holder of the mutex waits for the channel: a   *)
(* send after a Nack has taken the room, and a receive of Clear after a    *)
(* Consume has taken the message.                                          *)
Blocked ==
  \/ \E p \in Publishers : pub[p] = "send" /\ Room(current) <= 0
  \/ \E k \in Clearers : clear[k] = "receive" /\ chan[current] = <<>>

(* Whoever holds the mutex gives it back, although Nack and Consume use    *)
(* the channel under its feet and Clear has to empty it, unless the holder *)
(* is from some time on blocked for ever in one of these two places.  All  *)
(* calls of Publish, Consume and Clear on the adapter depend on it.        *)
MutexReleased == mu # NoOne ~> (mu = NoOne \/ []Blocked)
=============================================================================
