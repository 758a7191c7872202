--------------------------- MODULE GoPublish_proofs ---------------------------
(***************************************************************************)
(* Proofs about the Go in-memory adapter (GoMemory) and the calls that     *)
(* publish into it (GoPublish), for any number of publishers, consumers    *)
(* and clearers, any payloads without repetitions and any capacity.        *)
(*                                                                         *)
(* The invariant has every message in exactly one place.  The sequences    *)
(* left, chan and items are families; the first lemmas say what receiving  *)
(* from, sending to and emptying one sequence of a family do to the set of *)
(* messages in it, and the rest of the proof is about sets.                *)
(***************************************************************************)
EXTENDS GoPublish, SequenceFacts, FiniteSetTheorems

(* h is the family f after the sequence of d has become q. *)
Changes(D, f, h, d, q) ==
  /\ f \in [D -> Seq(Messages)] /\ h \in [D -> Seq(Messages)]
  /\ d \in D /\ h[d] = q
  /\ \A e \in D \ {d} : h[e] = f[e]

(* A message of a family is in one of its sequences. *)
LEMMA ContentsOf ==
  ASSUME NEW D, NEW S, NEW f \in [D -> Seq(S)]
  PROVE  /\ DOMAIN f = D
         /\ \A m : m \in Contents(f) <=> \E d \in D : m \in Range(f[d])
         /\ Contents(f) \subseteq S
  <1>1. DOMAIN f = D
    OBVIOUS
  <1>2. \A m : m \in Contents(f) <=> \E d \in D : m \in Range(f[d])
    BY <1>1 DEF Contents
  <1>3. \A d \in D : Range(f[d]) \subseteq S
    BY RangeEmpty
  <1> QED
    BY <1>1, <1>2, <1>3

(* What a family without repetitions contains after one of its sequences   *)
(* has changed to one without repetitions and without elements of others.  *)
LEMMA FamilyChange ==
  ASSUME NEW D, NEW f, NEW h, NEW d, NEW q, Changes(D, f, h, d, q), Distinct(f),
         IsInjective(q), Range(q) \cap Contents(f) \subseteq Range(f[d])
  PROVE  /\ Range(f[d]) \subseteq Contents(f)
         /\ Contents(h) = (Contents(f) \ Range(f[d])) \cup Range(q)
         /\ Distinct(h)
  <1>1. f \in [D -> Seq(Messages)] /\ h \in [D -> Seq(Messages)] /\ d \in D
    BY DEF Changes
  <1>2. DOMAIN f = D /\ DOMAIN h = D
    BY <1>1
  <1>3. h[d] = q /\ \A e \in D \ {d} : h[e] = f[e]
    BY DEF Changes
  <1>4. /\ \A x : x \in Contents(f) <=> \E e \in D : x \in Range(f[e])
        /\ \A x : x \in Contents(h) <=> \E e \in D : x \in Range(h[e])
    BY <1>2 DEF Contents
  <1>5. /\ \A e \in D : IsInjective(f[e])
        /\ \A e, g \in D : e # g => Range(f[e]) \cap Range(f[g]) = {}
    BY <1>2 DEF Distinct
  <1>6. Range(f[d]) \subseteq Contents(f)
    BY <1>1, <1>4
  <1>7. \A e \in D \ {d} : /\ Range(h[e]) = Range(f[e])
                           /\ Range(f[e]) \cap Range(f[d]) = {}
                           /\ Range(f[e]) \cap Range(q) = {}
    <2>1. ASSUME NEW e \in D \ {d}
          PROVE  /\ Range(h[e]) = Range(f[e])
                 /\ Range(f[e]) \cap Range(f[d]) = {}
                 /\ Range(f[e]) \cap Range(q) = {}
      <3>1. h[e] = f[e] /\ e # d /\ e \in D
        BY <1>3
      <3>2. Range(f[e]) \cap Range(f[d]) = {}
        BY <1>1, <1>5, <3>1
      <3>3. Range(f[e]) \subseteq Contents(f)
        BY <1>4, <3>1
      <3> QED
        BY <3>1, <3>2, <3>3
    <2> QED
      BY <2>1
  <1>8. Range(h[d]) = Range(q)
    BY <1>3
  <1>9. Contents(h) = (Contents(f) \ Range(f[d])) \cup Range(q)
    <2>1. ASSUME NEW x \in Contents(h) PROVE x \in (Contents(f) \ Range(f[d])) \cup Range(q)
      <3>1. PICK e \in D : x \in Range(h[e])
        BY <1>4, <2>1
      <3>2. CASE e = d
        BY <1>8, <3>1, <3>2
      <3>3. CASE e # d
        BY <1>4, <1>7, <3>1, <3>3
      <3> QED
        BY <3>2, <3>3
    <2>2. ASSUME NEW x \in Contents(f), x \notin Range(f[d]) PROVE x \in Contents(h)
      <3>1. PICK e \in D : x \in Range(f[e])
        BY <1>4, <2>2
      <3> QED
        BY <1>4, <1>7, <2>2, <3>1
    <2>3. \A x \in Range(q) : x \in Contents(h)
      BY <1>1, <1>4, <1>8
    <2> QED
      BY <2>1, <2>2, <2>3
  <1>10. Distinct(h)
    <2>1. \A e \in D : IsInjective(h[e])
      BY <1>3, <1>5
    <2>2. ASSUME NEW e \in D, NEW g \in D, e # g PROVE Range(h[e]) \cap Range(h[g]) = {}
      <3>1. CASE e = d
        BY <1>7, <1>8, <2>2, <3>1
      <3>2. CASE g = d
        BY <1>7, <1>8, <2>2, <3>2
      <3>3. CASE e # d /\ g # d
        BY <1>5, <1>7, <2>2, <3>3
      <3> QED
        BY <3>1, <3>2, <3>3
    <2> QED
      BY <1>2, <2>1, <2>2 DEF Distinct
  <1> QED
    BY <1>6, <1>9, <1>10

(* h is the family f after m was received from the sequence of d. *)
Received(D, f, h, d, m) ==
  f[d] # <<>> /\ m = Head(f[d]) /\ Changes(D, f, h, d, Tail(f[d]))

(* A receive takes one message out of a family. *)
LEMMA FamilyTail ==
  ASSUME NEW D, NEW f, NEW h, NEW d, NEW m, Received(D, f, h, d, m), Distinct(f)
  PROVE  /\ m \in Messages
         /\ m \in Contents(f)
         /\ Contents(h) = Contents(f) \ {m}
         /\ Distinct(h)
  <1>0. f[d] # <<>> /\ m = Head(f[d]) /\ Changes(D, f, h, d, Tail(f[d]))
    BY DEF Received
  <1>1. f[d] \in Seq(Messages) /\ d \in DOMAIN f
    BY <1>0 DEF Changes
  <1>2. IsInjective(f[d])
    BY <1>1 DEF Distinct
  <1>3. /\ m \in Messages
        /\ Range(f[d]) = Range(Tail(f[d])) \cup {m}
        /\ IsInjective(Tail(f[d])) /\ m \notin Range(Tail(f[d]))
    BY <1>0, <1>1, <1>2, TailFacts
  <1>4. /\ Range(f[d]) \subseteq Contents(f)
        /\ Contents(h) = (Contents(f) \ Range(f[d])) \cup Range(Tail(f[d]))
        /\ Distinct(h)
    <2>1. Range(Tail(f[d])) \cap Contents(f) \subseteq Range(f[d])
      BY <1>3
    <2> QED
      BY <1>0, <1>3, <2>1, FamilyChange
  <1> QED
    BY <1>3, <1>4

(* A send puts a message into a family. *)
LEMMA FamilyAppend ==
  ASSUME NEW D, NEW f, NEW h, NEW d, NEW m \in Messages,
         Changes(D, f, h, d, Append(f[d], m)), m \notin Contents(f), Distinct(f)
  PROVE  Contents(h) = Contents(f) \cup {m} /\ Distinct(h)
  <1>1. f[d] \in Seq(Messages) /\ d \in DOMAIN f
    BY DEF Changes
  <1>2. IsInjective(f[d]) /\ Range(f[d]) \subseteq Contents(f)
    BY <1>1 DEF Distinct, Contents
  <1>3. /\ Range(Append(f[d], m)) = Range(f[d]) \cup {m}
        /\ IsInjective(Append(f[d], m))
    BY <1>1, <1>2, AppendFacts
  <1>4. Contents(h) = (Contents(f) \ Range(f[d])) \cup Range(Append(f[d], m)) /\ Distinct(h)
    <2>1. Range(Append(f[d], m)) \cap Contents(f) \subseteq Range(f[d])
      BY <1>3
    <2> QED
      BY <1>3, <2>1, FamilyChange
  <1> QED
    BY <1>2, <1>3, <1>4

(* Emptying a sequence takes its messages out of a family. *)
LEMMA FamilyEmpty ==
  ASSUME NEW D, NEW f, NEW h, NEW d, Changes(D, f, h, d, <<>>), Distinct(f)
  PROVE  /\ Range(f[d]) \subseteq Contents(f)
         /\ Contents(h) = Contents(f) \ Range(f[d])
         /\ Distinct(h)
  <1>1. IsInjective(<<>>) /\ Range(<<>>) = {}
    BY EmptyFacts
  <1>2. Range(<<>>) \cap Contents(f) \subseteq Range(f[d])
    BY <1>1
  <1>3. /\ Range(f[d]) \subseteq Contents(f)
        /\ Contents(h) = (Contents(f) \ Range(f[d])) \cup Range(<<>>)
        /\ Distinct(h)
    BY <1>1, <1>2, FamilyChange
  <1> QED
    BY <1>1, <1>3

-----------------------------------------------------------------------------
(* Payloads and channels.                                                  *)

(* A payload is a sequence of messages, and the channels are numbered from *)
(* one.                                                                    *)
LEMMA ConstantFacts ==
  /\ \A p \in Publishers : Payload[p] \in Seq(Messages) /\ Payload[p] # <<>>
  /\ Cardinality(Clearers) \in Nat
  /\ 1 \in Generations /\ 0 \notin Generations /\ Generations \subseteq Nat
  <1>1. ASSUME NEW p \in Publishers
        PROVE  Payload[p] \in Seq(Messages) /\ Payload[p] # <<>>
    <2>1. Payload[p] \in Seq(Range(Payload[p])) /\ Payload[p] # <<>>
      BY PayloadAssumption
    <2>2. Range(Payload[p]) \subseteq Messages
      BY DEF Messages
    <2>3. DOMAIN Payload[p] = 1 .. Len(Payload[p]) /\ Len(Payload[p]) \in Nat
      BY <2>1
    <2>4. \A i \in 1 .. Len(Payload[p]) : Payload[p][i] \in Messages
      BY <2>2, <2>3 DEF Range
    <2> QED
      BY <2>1, <2>3, <2>4, IsASeq
  <1>2. Cardinality(Clearers) \in Nat
    BY ClearersAssumption, FS_CardinalityType
  <1>3. 1 \in Generations /\ 0 \notin Generations /\ Generations \subseteq Nat
    BY <1>2 DEF Generations
  <1> QED
    BY <1>1, <1>2, <1>3

(* A Clear that ends with a new channel is counted, so there is a          *)
(* generation for that channel.                                            *)
LEMMA DoneCount ==
  ASSUME TypeOK, NEW k \in Clearers, clear[k] # "done",
         clear' = [clear EXCEPT ![k] = "done"]
  PROVE  LET n == Cardinality({j \in Clearers : clear[j] = "done"})
         IN  /\ n \in Nat
             /\ Cardinality({j \in Clearers : clear'[j] = "done"}) = n + 1
             /\ n + 1 <= Cardinality(Clearers)
  <1> DEFINE D == {j \in Clearers : clear[j] = "done"}
             E == {j \in Clearers : clear'[j] = "done"}
  <1>1. clear' \in [Clearers -> {"idle", "lock", "test", "receive", "done"}]
    BY DEF TypeOK
  <1>2. k \notin D /\ E = D \cup {k} /\ D \subseteq Clearers /\ E \subseteq Clearers
    BY <1>1 DEF TypeOK
  <1> HIDE DEF D, E
  <1>3. IsFiniteSet(D) /\ Cardinality(D) \in Nat
    BY <1>2, ClearersAssumption, FS_Subset, FS_CardinalityType
  <1>4. Cardinality(E) = Cardinality(D) + 1
    BY <1>2, <1>3, FS_AddElement
  <1>5. Cardinality(E) <= Cardinality(Clearers)
    BY <1>2, ClearersAssumption, FS_Subset
  <1> QED
    BY <1>3, <1>4, <1>5 DEF D, E

(* Other steps of Clear do not count as done Clears. *)
LEMMA SameDone ==
  ASSUME TypeOK, NEW k \in Clearers, clear[k] # "done",
         NEW s \in {"idle", "lock", "test", "receive"},
         clear' = [clear EXCEPT ![k] = s]
  PROVE  {j \in Clearers : clear'[j] = "done"} = {j \in Clearers : clear[j] = "done"}
  BY DEF TypeOK

-----------------------------------------------------------------------------
(* The types of the variables.                                             *)

(* Where each call stands, and its context, stay in their sets; the        *)
(* current channel is one of those that can exist.                         *)
LEMMA ControlStep ==
  ASSUME TypeOK, CallShape, Next
  PROVE  /\ mu' \in Publishers \cup Clearers \cup {NoOne}
         /\ current' \in Generations \cup {0}
         /\ pub' \in [Publishers -> {"idle", "lock", "send", "ok", "error"}]
         /\ con' \in [Consumers -> {"idle", "lock", "receive"}]
         /\ cancelled' \in [Consumers -> BOOLEAN]
         /\ ref' \in [Consumers -> Generations \cup {0}]
         /\ clear' \in [Clearers -> {"idle", "lock", "test", "receive", "done"}]
  <1> USE DEF callVars, conVars, receiptVars
  <1>0. Lookup \in Generations
    BY ConstantFacts DEF Lookup, TypeOK
  <1>1. ASSUME NEW p \in Publishers, PublishCall(p) \/ PublishEnter(p) \/ PublishSend(p)
        PROVE  /\ pub' \in [Publishers -> {"idle", "lock", "send", "ok", "error"}]
               /\ mu' \in Publishers \cup Clearers \cup {NoOne}
               /\ current' \in Generations \cup {0}
               /\ UNCHANGED <<con, cancelled, ref, clear>>
    <2>1. CASE PublishCall(p)
      BY <2>1 DEF PublishCall, TypeOK
    <2>2. CASE PublishEnter(p)
      BY <1>0, <2>2 DEF PublishEnter, TypeOK
    <2>3. CASE PublishSend(p)
      BY <2>3 DEF PublishSend, Send, TypeOK
    <2> QED
      BY <1>1, <2>1, <2>2, <2>3
  <1>2. ASSUME NEW c \in Consumers,
               \/ ConsumeCall(c) \/ ConsumeEnter(c) \/ ConsumeReceive(c)
               \/ ConsumeCancelled(c) \/ ConsumeReturn(c) \/ CancelConsumer(c)
        PROVE  /\ con' \in [Consumers -> {"idle", "lock", "receive"}]
               /\ cancelled' \in [Consumers -> BOOLEAN]
               /\ ref' \in [Consumers -> Generations \cup {0}]
               /\ current' \in Generations \cup {0}
               /\ UNCHANGED <<mu, pub, clear>>
    <2>1. CASE ConsumeCall(c)
      BY <2>1 DEF ConsumeCall, TypeOK
    <2>2. CASE ConsumeEnter(c)
      BY <1>0, <2>2 DEF ConsumeEnter, TypeOK
    <2>3. CASE ConsumeReceive(c)
      BY <2>3 DEF ConsumeReceive, TypeOK
    <2>4. CASE ConsumeCancelled(c)
      BY <2>4 DEF ConsumeCancelled, TypeOK
    <2>5. CASE ConsumeReturn(c)
      BY <2>5 DEF ConsumeReturn, TypeOK
    <2>6. CASE CancelConsumer(c)
      BY <2>6 DEF CancelConsumer, TypeOK
    <2> QED
      BY <1>2, <2>1, <2>2, <2>3, <2>4, <2>5, <2>6
  <1>3. ASSUME NEW m \in Messages, Ack(m) \/ Nack(m)
        PROVE  UNCHANGED <<mu, current, pub, con, cancelled, ref, clear>>
    BY <1>3 DEF Ack, Nack
  <1>4. ASSUME NEW k \in Clearers,
               ClearCall(k) \/ ClearEnter(k) \/ ClearTest(k) \/ ClearReceive(k) \/ ClearSwap(k)
        PROVE  /\ clear' \in [Clearers -> {"idle", "lock", "test", "receive", "done"}]
               /\ mu' \in Publishers \cup Clearers \cup {NoOne}
               /\ current' \in Generations \cup {0}
               /\ UNCHANGED <<pub, con, cancelled, ref>>
    <2>1. CASE ClearCall(k)
      BY <2>1 DEF ClearCall, TypeOK
    <2>2. CASE ClearEnter(k)
      BY <2>2 DEF ClearEnter, TypeOK
    <2>3. CASE ClearTest(k)
      BY <2>3 DEF ClearTest, TypeOK
    <2>4. CASE ClearReceive(k)
      BY <2>4 DEF ClearReceive, TypeOK
    <2>5. CASE ClearSwap(k)
      <3>1. clear' = [clear EXCEPT ![k] = "done"] /\ clear[k] # "done"
        BY <2>5 DEF ClearSwap
      <3>2. current' \in Generations
        <4> DEFINE n == Cardinality({j \in Clearers : clear[j] = "done"})
        <4>1. n \in Nat /\ n + 1 <= Cardinality(Clearers)
          BY <3>1, DoneCount
        <4>2. current <= n + 1 /\ current' = current + 1 /\ current \in Nat
          BY <2>5, ConstantFacts DEF ClearSwap, CallShape, TypeOK
        <4> HIDE DEF n
        <4> QED
          BY <4>1, <4>2, ConstantFacts DEF Generations
      <3> QED
        BY <2>5, <3>1, <3>2 DEF ClearSwap, TypeOK
    <2> QED
      BY <1>4, <2>1, <2>2, <2>3, <2>4, <2>5
  <1> QED
    BY <1>1, <1>2, <1>3, <1>4 DEF Next, TypeOK

-----------------------------------------------------------------------------
(* Where the calls stand.                                                  *)

LEMMA CallShapeStep ==
  ASSUME TypeOK, CallShape, Next
  PROVE  CallShape'
  <1> USE DEF callVars, conVars, receiptVars
  <1> DEFINE Done == {k \in Clearers : clear[k] = "done"}
  <1>0. Cardinality(Done) \in Nat
    <2>1. Done \subseteq Clearers
      OBVIOUS
    <2> QED
      BY <2>1, ClearersAssumption, FS_Subset, FS_CardinalityType
  <1>a. Lookup \in Generations /\ Lookup \in Nat \ {0} /\ (current # 0 => Lookup = current)
        /\ (current <= Cardinality(Done) + 1 => Lookup <= Cardinality(Done) + 1)
    BY <1>0, ConstantFacts DEF Lookup, TypeOK
  <1>1. ASSUME NEW p \in Publishers, PublishCall(p) PROVE CallShape'
    BY <1>1 DEF PublishCall, TypeOK, CallShape
  <1>2. ASSUME NEW p \in Publishers, PublishEnter(p) PROVE CallShape'
    <2>1. /\ pub[p] = "lock" /\ current' = Lookup
          /\ UNCHANGED <<left, con, ref, clear>>
          /\ \E s \in {"error", "send"} : pub' = [pub EXCEPT ![p] = s]
      BY <1>2 DEF PublishEnter
    <2>2. left[p] = Payload[p] /\ left[p] # <<>>
      BY <2>1, ConstantFacts DEF CallShape
    <2> QED
      BY <1>a, <2>1, <2>2 DEF TypeOK, CallShape
  <1>3. ASSUME NEW p \in Publishers, PublishSend(p) PROVE CallShape'
    <2>1. /\ pub[p] = "send" /\ left' = [left EXCEPT ![p] = Tail(left[p])]
          /\ UNCHANGED <<current, con, ref, clear>>
      BY <1>3 DEF PublishSend, Send
    <2>2. left[p] \in Seq(Messages) /\ left[p] # <<>>
      BY <2>1 DEF TypeOK, CallShape
    <2>3. Tail(left[p]) = <<>> <=> Len(left[p]) = 1
      BY <2>2, TailLength
    <2>4. \/ pub' = pub /\ Tail(left[p]) # <<>>
          \/ pub' = [pub EXCEPT ![p] = "ok"] /\ Tail(left[p]) = <<>>
      BY <1>3, <2>3 DEF PublishSend, Send
    <2> QED
      BY <2>1, <2>4 DEF TypeOK, CallShape
  <1>4. ASSUME NEW c \in Consumers, ConsumeEnter(c) PROVE CallShape'
    BY <1>4, <1>a DEF ConsumeEnter, TypeOK, CallShape
  <1>5. ASSUME NEW c \in Consumers,
               \/ ConsumeCall(c) \/ ConsumeReceive(c)
               \/ ConsumeCancelled(c) \/ ConsumeReturn(c) \/ CancelConsumer(c)
        PROVE  CallShape'
    <2>1. /\ UNCHANGED <<current, pub, left, ref, clear>>
          /\ con' = con \/ con' = [con EXCEPT ![c] = "lock"] \/ con' = [con EXCEPT ![c] = "idle"]
      BY <1>5 DEF ConsumeCall, ConsumeReceive, ConsumeCancelled, ConsumeReturn, CancelConsumer
    <2> QED
      BY <2>1 DEF TypeOK, CallShape
  <1>6. ASSUME NEW m \in Messages, Ack(m) \/ Nack(m) PROVE CallShape'
    BY <1>6 DEF Ack, Nack, CallShape
  <1>7. ASSUME NEW k \in Clearers, ClearCall(k) \/ ClearTest(k) \/ ClearReceive(k)
        PROVE  CallShape'
    <2>1. /\ UNCHANGED <<current, pub, left, con, ref>> /\ clear[k] # "done"
          /\ \E s \in {"idle", "lock", "test", "receive"} :
               clear' = [clear EXCEPT ![k] = s] /\ (s # "lock" => current # 0)
      BY <1>7 DEF ClearCall, ClearTest, ClearReceive, CallShape
    <2>2. {j \in Clearers : clear'[j] = "done"} = Done
      BY <2>1, SameDone
    <2> QED
      BY <2>1, <2>2 DEF TypeOK, CallShape
  <1>8. ASSUME NEW k \in Clearers, ClearEnter(k) PROVE CallShape'
    <2>0. clear[k] # "done" /\ UNCHANGED <<current, pub, left, con, ref>>
      BY <1>8 DEF ClearEnter
    <2>1. CASE current = 0 /\ clear' = [clear EXCEPT ![k] = "done"]
      <3>1. Cardinality({j \in Clearers : clear'[j] = "done"}) = Cardinality(Done) + 1
        BY <2>0, <2>1, DoneCount
      <3> QED
        BY <1>0, <2>0, <2>1, <3>1 DEF TypeOK, CallShape
    <2>2. CASE current # 0 /\ clear' = [clear EXCEPT ![k] = "test"]
      <3>1. {j \in Clearers : clear'[j] = "done"} = Done
        BY <2>0, <2>2, SameDone
      <3> QED
        BY <2>0, <2>2, <3>1 DEF TypeOK, CallShape
    <2> QED
      BY <1>8, <2>1, <2>2 DEF ClearEnter
  <1>9. ASSUME NEW k \in Clearers, ClearSwap(k) PROVE CallShape'
    <2>1. /\ clear[k] # "done" /\ clear' = [clear EXCEPT ![k] = "done"]
          /\ current' = current + 1 /\ UNCHANGED <<pub, left, con, ref>>
      BY <1>9 DEF ClearSwap
    <2>2. Cardinality({j \in Clearers : clear'[j] = "done"}) = Cardinality(Done) + 1
      BY <2>1, DoneCount
    <2>3. current \in Nat
      BY ConstantFacts DEF TypeOK
    <2> HIDE DEF Done
    <2>4. current' <= Cardinality({j \in Clearers : clear'[j] = "done"}) + 1 /\ current' # 0
      BY <1>0, <2>1, <2>2, <2>3 DEF CallShape, Done
    <2> QED
      BY <2>1, <2>4 DEF TypeOK, CallShape
  <1> QED
    BY <1>1, <1>2, <1>3, <1>4, <1>5, <1>6, <1>7, <1>8, <1>9 DEF Next

-----------------------------------------------------------------------------
(* The place of every message.                                             *)

(* The types of the variables that hold messages and receipts. *)
HoldersOK ==
  /\ chan \in [Generations -> Seq(Messages)]
  /\ left \in [Publishers -> Seq(Messages)]
  /\ items \in [Consumers -> Seq(Messages)]
  /\ receipt \in [Messages -> {"none", "made", "open"}]
  /\ flags \in [Messages -> SUBSET {"acked", "nacked"}]
  /\ origin \in [Messages -> Generations \cup {0}]
  /\ gone \subseteq Messages

Placed == HoldersOK /\ OncePlaced /\ ReceiptShape /\ ClearIsFinal

LEMMA PlacedOf == ASSUME MemoryInv PROVE Placed
  BY DEF MemoryInv, TypeOK, Placed, HoldersOK

(* Clear is final, said of the elements of the channels. *)
LEMMA FinalElements ==
  ClearIsFinal <=> \A g \in Generations : \A x \in Range(chan[g]) : origin[x] \in {0, g}
  BY DEF ClearIsFinal, Range

LEMMA FinalElementsNext ==
  ClearIsFinal' <=> \A g \in Generations : \A x \in Range(chan'[g]) : origin'[x] \in {0, g}
  BY DEF ClearIsFinal, Range

(* Steps of calls that move no message. *)
LEMMA StillPlaced ==
  ASSUME Placed, UNCHANGED <<chan, left, items, receiptVars, gone>>
  PROVE  Placed'
  <1>1. UNCHANGED <<chan, left, items, receipt, flags, origin, gone>>
    BY DEF receiptVars
  <1>2. Open' = Open /\ Acked' = Acked
    BY <1>1 DEF Open, Acked, Settleable
  <1>3. HoldersOK'
    BY <1>1 DEF Placed, HoldersOK
  <1>4. OncePlaced'
    BY <1>1, <1>2 DEF Placed, OncePlaced
  <1>5. ReceiptShape'
    BY <1>1, <1>2 DEF Placed, ReceiptShape
  <1>6. ClearIsFinal'
    BY <1>1 DEF Placed, ClearIsFinal
  <1> QED
    BY <1>3, <1>4, <1>5, <1>6 DEF Placed

(* Publish puts the next message of its payload into the channel. *)
LEMMA SendPlaced ==
  ASSUME TypeOK, CallShape, Placed, NEW p \in Publishers, PublishSend(p)
  PROVE  Placed'
  <1> DEFINE m == Head(left[p])
  <1>1. /\ pub[p] = "send"
        /\ chan' = [chan EXCEPT ![current] = Append(chan[current], m)]
        /\ left' = [left EXCEPT ![p] = Tail(left[p])]
        /\ UNCHANGED <<items, receipt, flags, origin, gone>>
    BY DEF PublishSend, Send, conVars, receiptVars
  <1>2. left[p] # <<>> /\ current \in Generations
    BY <1>1 DEF CallShape, TypeOK
  <1>3. Open' = Open /\ Acked' = Acked
    BY <1>1 DEF Open, Acked, Settleable
  <1>4. /\ Distinct(left) /\ Distinct(chan) /\ Distinct(items)
        /\ Apart(Contents(left), Contents(chan), Contents(items), Open, Acked, gone)
        /\ left \in [Publishers -> Seq(Messages)] /\ chan \in [Generations -> Seq(Messages)]
    BY DEF Placed, OncePlaced, HoldersOK
  <1>a. /\ left' \in [Publishers -> Seq(Messages)] /\ left'[p] = Tail(left[p])
        /\ \A q \in Publishers \ {p} : left'[q] = left[q]
    <2>1. left[p] \in Seq(Messages)
      BY <1>4
    <2>2. Tail(left[p]) \in Seq(Messages)
      BY <1>2, <2>1, TailFacts
    <2> QED
      BY <1>1, <1>4, <2>2
  <1>e. Received(Publishers, left, left', p, m)
    BY <1>a, <1>2, <1>4 DEF Changes, Received
  <1> HIDE DEF m
  <1>5. /\ m \in Messages /\ m \in Contents(left)
        /\ Contents(left') = Contents(left) \ {m}
        /\ Distinct(left')
    BY <1>4, <1>e, FamilyTail
  <1>6. m \notin Contents(chan)
    BY <1>4, <1>5 DEF Apart
  <1>b. /\ chan' \in [Generations -> Seq(Messages)]
        /\ chan'[current] = Append(chan[current], m)
        /\ \A g \in Generations \ {current} : chan'[g] = chan[g]
    <2>1. Append(chan[current], m) \in Seq(Messages)
      BY <1>2, <1>4, <1>5
    <2> QED
      BY <1>1, <1>2, <1>4, <2>1
  <1>7. /\ Contents(chan') = Contents(chan) \cup {m}
        /\ Distinct(chan')
    <2>1. Changes(Generations, chan, chan', current, Append(chan[current], m))
      BY <1>b, <1>2, <1>4 DEF Changes
    <2> QED
      BY <1>4, <1>5, <1>6, <2>1, FamilyAppend
  <1>c. UNCHANGED <<items, receipt, flags, origin, gone>>
    BY <1>1
  <1>8. Range(Append(chan[current], m)) = Range(chan[current]) \cup {m}
    <2>1. chan[current] \in Seq(Messages)
      BY <1>2, <1>4
    <2> QED
      BY <1>5, <2>1, AppendFacts
  <1>9. origin[m] = 0
    BY <1>5 DEF Placed, ReceiptShape
  <1>10. HoldersOK'
    BY <1>a, <1>b, <1>c DEF Placed, HoldersOK
  <1>11. OncePlaced'
    <2>0. Apart(Contents(left) \ {m}, Contents(chan) \cup {m}, Contents(items), Open, Acked, gone)
      BY <1>4, <1>5 DEF Apart
    <2>1. Apart(Contents(left'), Contents(chan'), Contents(items'), Open', Acked', gone')
      BY <1>c, <1>3, <1>5, <1>7, <2>0
    <2> QED
      BY <1>c, <1>4, <1>5, <1>7, <2>1 DEF OncePlaced
  <1>12. ReceiptShape'
    BY <1>c, <1>3, <1>5 DEF Placed, ReceiptShape
  <1>13. ClearIsFinal'
    <2>1. \A g \in Generations : \A x \in Range(chan'[g]) : x \in Range(chan[g]) \/ x = m
      BY <1>b, <1>8
    <2> QED
      BY <1>c, <1>9, <2>1, FinalElements, FinalElementsNext DEF Placed
  <1> QED
    BY <1>10, <1>11, <1>12, <1>13 DEF Placed

(* Consume receives a message and makes its receipt. *)
LEMMA ReceivePlaced ==
  ASSUME TypeOK, CallShape, Placed, NEW c \in Consumers, ConsumeReceive(c)
  PROVE  Placed'
  <1> DEFINE g == ref[c]
             m == Head(chan[g])
  <1>1. /\ con[c] = "receive" /\ chan[g] # <<>>
        /\ items' = [items EXCEPT ![c] = Append(items[c], m)]
        /\ receipt' = [receipt EXCEPT ![m] = "made"]
        /\ flags' = [flags EXCEPT ![m] = {}]
        /\ origin' = [origin EXCEPT ![m] = g]
        /\ chan' = [chan EXCEPT ![g] = Tail(chan[g])]
        /\ UNCHANGED <<left, gone>>
    BY DEF ConsumeReceive, callVars
  <1>2. g \in Generations /\ g # 0
    BY <1>1 DEF CallShape, TypeOK
  <1>3. /\ Distinct(left) /\ Distinct(chan) /\ Distinct(items)
        /\ Apart(Contents(left), Contents(chan), Contents(items), Open, Acked, gone)
        /\ items \in [Consumers -> Seq(Messages)] /\ chan \in [Generations -> Seq(Messages)]
        /\ receipt \in [Messages -> {"none", "made", "open"}]
        /\ flags \in [Messages -> SUBSET {"acked", "nacked"}]
        /\ origin \in [Messages -> Generations \cup {0}]
    BY DEF Placed, OncePlaced, HoldersOK
  <1> HIDE DEF g
  <1>a. /\ chan' \in [Generations -> Seq(Messages)] /\ chan'[g] = Tail(chan[g])
        /\ \A h \in Generations \ {g} : chan'[h] = chan[h]
    <2>1. chan[g] \in Seq(Messages)
      BY <1>2, <1>3
    <2>2. Tail(chan[g]) \in Seq(Messages)
      BY <1>1, <2>1, TailFacts
    <2> QED
      BY <1>1, <1>2, <1>3, <2>2
  <1>b. chan[g] # <<>>
    BY <1>1
  <1>4. /\ m \in Messages /\ m \in Contents(chan)
        /\ Contents(chan') = Contents(chan) \ {m}
        /\ Distinct(chan')
    <2>1. Received(Generations, chan, chan', g, m)
      BY <1>a, <1>b, <1>2, <1>3 DEF Changes, Received
    <2> HIDE DEF m
    <2> QED
      BY <1>3, <2>1, FamilyTail
  <1>5. /\ m \notin Contents(items) /\ m \notin Open /\ m \notin Acked
        /\ m \notin Contents(left)
    BY <1>3, <1>4 DEF Apart
  <1> HIDE DEF m
  <1>c. /\ items' \in [Consumers -> Seq(Messages)]
        /\ items'[c] = Append(items[c], m)
        /\ \A e \in Consumers \ {c} : items'[e] = items[e]
    <2>1. Append(items[c], m) \in Seq(Messages)
      BY <1>3, <1>4
    <2> QED
      BY <1>1, <1>3, <2>1
  <1>6. /\ Contents(items') = Contents(items) \cup {m}
        /\ Distinct(items')
    <2>1. Changes(Consumers, items, items', c, Append(items[c], m))
      BY <1>c, <1>3 DEF Changes
    <2> QED
      BY <1>3, <1>4, <1>5, <2>1, FamilyAppend
  <1>d. UNCHANGED <<left, gone>>
    BY <1>1
  <1>7. /\ receipt' \in [Messages -> {"none", "made", "open"}]
        /\ flags' \in [Messages -> SUBSET {"acked", "nacked"}]
        /\ origin' \in [Messages -> Generations \cup {0}]
    BY <1>1, <1>2, <1>3, <1>4
  <1>8. /\ receipt'[m] = "made" /\ flags'[m] = {} /\ origin'[m] = g
        /\ \A x \in Messages \ {m} :
             receipt'[x] = receipt[x] /\ flags'[x] = flags[x] /\ origin'[x] = origin[x]
    BY <1>1, <1>3, <1>4
  <1>9. Open' = Open /\ Acked' = Acked
    BY <1>5, <1>8 DEF Open, Acked, Settleable
  <1>10. HoldersOK'
    BY <1>a, <1>c, <1>d, <1>7 DEF Placed, HoldersOK
  <1>11. OncePlaced'
    <2>0. Apart(Contents(left), Contents(chan) \ {m}, Contents(items) \cup {m}, Open, Acked, gone)
      BY <1>3, <1>4 DEF Apart
    <2>1. Apart(Contents(left'), Contents(chan'), Contents(items'), Open', Acked', gone')
      BY <1>d, <1>4, <1>6, <1>9, <2>0
    <2> QED
      BY <1>d, <1>3, <1>4, <1>6, <2>1 DEF OncePlaced
  <1>12. ReceiptShape'
    <2>1. Contents(left) \subseteq Messages /\ Contents(items) \subseteq Messages
      BY <1>3, ContentsOf DEF Placed, HoldersOK
    <2>2. \A x \in Contents(left') : origin'[x] = 0
      BY <1>d, <1>5, <1>8, <2>1 DEF Placed, ReceiptShape
    <2>3. \A x \in Contents(items') : receipt'[x] = "made" /\ flags'[x] = {} /\ origin'[x] # 0
      BY <1>2, <1>6, <1>8, <2>1 DEF Placed, ReceiptShape
    <2>4. \A x \in Open : x \in Messages \ {m}
      BY <1>5 DEF Open
    <2>5. \A x \in Open' : origin'[x] # 0
      BY <1>8, <1>9, <2>4 DEF Placed, ReceiptShape
    <2> QED
      BY <2>2, <2>3, <2>5 DEF ReceiptShape
  <1>13. ClearIsFinal'
    <2>1. ASSUME NEW h \in Generations, NEW x \in Range(chan'[h])
          PROVE  x \in Messages \ {m} /\ x \in Range(chan[h])
      <3>1. x \in Contents(chan') /\ Contents(chan') \subseteq Messages
        BY <1>a, ContentsOf
      <3>2. chan[g] \in Seq(Messages) /\ Range(Tail(chan[g])) \subseteq Range(chan[g])
        BY <1>b, <1>2, <1>3, TailFacts
      <3>3. CASE h = g
        BY <1>a, <1>4, <3>1, <3>2, <3>3
      <3>4. CASE h # g
        BY <1>a, <1>4, <3>1, <3>4
      <3> QED
        BY <3>3, <3>4
    <2> QED
      BY <1>8, <2>1, FinalElements, FinalElementsNext DEF Placed
  <1> QED
    BY <1>10, <1>11, <1>12, <1>13 DEF Placed

(* A cancelled Consume loses what it has received. *)
LEMMA CancelledPlaced ==
  ASSUME Placed, NEW c \in Consumers, ConsumeCancelled(c)
  PROVE  Placed'
  <1> DEFINE R == Range(items[c])
  <1>1. /\ items' = [items EXCEPT ![c] = <<>>]
        /\ gone' = gone \cup R
        /\ UNCHANGED <<left, chan, receipt, flags, origin>>
    BY DEF ConsumeCancelled, callVars, receiptVars
  <1>2. /\ Distinct(left) /\ Distinct(chan) /\ Distinct(items)
        /\ Apart(Contents(left), Contents(chan), Contents(items), Open, Acked, gone)
        /\ items \in [Consumers -> Seq(Messages)]
    BY DEF Placed, OncePlaced, HoldersOK
  <1>3. Open' = Open /\ Acked' = Acked
    BY <1>1 DEF Open, Acked, Settleable
  <1>a. /\ items' \in [Consumers -> Seq(Messages)] /\ items'[c] = <<>>
        /\ \A e \in Consumers \ {c} : items'[e] = items[e]
    <2>1. <<>> \in Seq(Messages)
      OBVIOUS
    <2> QED
      BY <1>1, <1>2, <2>1
  <1>b. UNCHANGED <<left, chan, receipt, flags, origin>>
    BY <1>1
  <1>4. /\ R \subseteq Contents(items)
        /\ Contents(items') = Contents(items) \ R
        /\ Distinct(items')
    <2>1. Changes(Consumers, items, items', c, <<>>)
      BY <1>a, <1>2 DEF Changes
    <2> QED
      BY <1>2, <2>1, FamilyEmpty
  <1>5. Contents(items) \subseteq Messages
    BY <1>2, ContentsOf
  <1>c. gone' = gone \cup R
    BY <1>1
  <1> HIDE DEF R
  <1>6. HoldersOK'
    BY <1>a, <1>b, <1>c, <1>4, <1>5 DEF Placed, HoldersOK
  <1>7. OncePlaced'
    <2>0. Apart(Contents(left), Contents(chan), Contents(items) \ R, Open, Acked, gone \cup R)
      BY <1>2, <1>4 DEF Apart
    <2>1. Apart(Contents(left'), Contents(chan'), Contents(items'), Open', Acked', gone')
      BY <1>b, <1>c, <1>3, <1>4, <2>0
    <2> QED
      BY <1>b, <1>2, <1>4, <2>1 DEF OncePlaced
  <1>8. ReceiptShape'
    BY <1>b, <1>3, <1>4 DEF Placed, ReceiptShape
  <1>9. ClearIsFinal'
    BY <1>1 DEF Placed, ClearIsFinal
  <1> QED
    BY <1>6, <1>7, <1>8, <1>9 DEF Placed

(* Consume returns: its receipts are open. *)
LEMMA ReturnPlaced ==
  ASSUME Placed, NEW c \in Consumers, ConsumeReturn(c)
  PROVE  Placed'
  <1> DEFINE R == Range(items[c])
  <1>1. /\ items' = [items EXCEPT ![c] = <<>>]
        /\ receipt' = [m \in Messages |-> IF m \in R THEN "open" ELSE receipt[m]]
        /\ UNCHANGED <<left, chan, flags, origin, gone>>
    BY DEF ConsumeReturn, callVars
  <1>2. /\ Distinct(left) /\ Distinct(chan) /\ Distinct(items)
        /\ Apart(Contents(left), Contents(chan), Contents(items), Open, Acked, gone)
        /\ items \in [Consumers -> Seq(Messages)]
        /\ receipt \in [Messages -> {"none", "made", "open"}]
    BY DEF Placed, OncePlaced, HoldersOK
  <1>a. /\ items' \in [Consumers -> Seq(Messages)] /\ items'[c] = <<>>
        /\ \A e \in Consumers \ {c} : items'[e] = items[e]
    <2>1. <<>> \in Seq(Messages)
      OBVIOUS
    <2> QED
      BY <1>1, <1>2, <2>1
  <1>b. UNCHANGED <<left, chan, flags, origin, gone>>
    BY <1>1
  <1>3. /\ R \subseteq Contents(items)
        /\ Contents(items') = Contents(items) \ R
        /\ Distinct(items')
    <2>1. Changes(Consumers, items, items', c, <<>>)
      BY <1>a, <1>2 DEF Changes
    <2> QED
      BY <1>2, <2>1, FamilyEmpty
  <1>4. Contents(items) \subseteq Messages
    BY <1>2, ContentsOf
  <1>5. \A m \in R : receipt[m] = "made" /\ flags[m] = {} /\ origin[m] # 0
    BY <1>3 DEF Placed, ReceiptShape
  <1> HIDE DEF R
  <1>6. Open' = Open \cup R /\ Acked' = Acked
    BY <1>1, <1>3, <1>4, <1>5 DEF Open, Acked, Settleable
  <1>7. HoldersOK'
    <2>1. receipt' \in [Messages -> {"none", "made", "open"}]
      BY <1>1, <1>2
    <2> QED
      BY <1>a, <1>b, <2>1 DEF Placed, HoldersOK
  <1>8. OncePlaced'
    <2>0. Apart(Contents(left), Contents(chan), Contents(items) \ R, Open \cup R, Acked, gone)
      BY <1>2, <1>3 DEF Apart
    <2>1. Apart(Contents(left'), Contents(chan'), Contents(items'), Open', Acked', gone')
      BY <1>b, <1>3, <1>6, <2>0
    <2> QED
      BY <1>b, <1>2, <1>3, <2>1 DEF OncePlaced
  <1>9. ReceiptShape'
    <2>1. \A m \in Contents(items') : receipt'[m] = receipt[m]
      BY <1>1, <1>3, <1>4
    <2> QED
      BY <1>b, <1>3, <1>5, <1>6, <2>1 DEF Placed, ReceiptShape
  <1>10. ClearIsFinal'
    BY <1>1 DEF Placed, ClearIsFinal
  <1> QED
    BY <1>7, <1>8, <1>9, <1>10 DEF Placed

(* Ack settles an open receipt. *)
LEMMA AckPlaced ==
  ASSUME Placed, NEW m \in Messages, Ack(m)
  PROVE  Placed'
  <1>1. /\ receipt[m] = "open" /\ flags[m] = {}
        /\ flags' = [flags EXCEPT ![m] = {"acked"}]
        /\ UNCHANGED <<left, chan, items, receipt, origin, gone>>
    BY DEF Ack, Settleable, callVars, conVars
  <1>2. /\ Apart(Contents(left), Contents(chan), Contents(items), Open, Acked, gone)
        /\ flags \in [Messages -> SUBSET {"acked", "nacked"}]
    BY DEF Placed, OncePlaced, HoldersOK
  <1>3. /\ flags' \in [Messages -> SUBSET {"acked", "nacked"}]
        /\ flags'[m] = {"acked"} /\ \A x \in Messages \ {m} : flags'[x] = flags[x]
    BY <1>1, <1>2
  <1>4. m \in Open /\ Open' = Open \ {m} /\ Acked' = Acked \cup {m}
    BY <1>1, <1>3 DEF Open, Acked, Settleable
  <1>5. HoldersOK'
    BY <1>1, <1>3 DEF Placed, HoldersOK
  <1>6. OncePlaced'
    <2>0. Apart(Contents(left), Contents(chan), Contents(items), Open \ {m}, Acked \cup {m}, gone)
      BY <1>2, <1>4 DEF Apart
    <2>1. Apart(Contents(left'), Contents(chan'), Contents(items'), Open', Acked', gone')
      BY <1>1, <1>4, <2>0
    <2> QED
      BY <1>1, <2>1 DEF Placed, OncePlaced
  <1>7. ReceiptShape'
    <2>0. Contents(items) \subseteq Messages
      <3>1. items \in [Consumers -> Seq(Messages)]
        BY DEF Placed, HoldersOK
      <3> QED
        BY <3>1, ContentsOf
    <2>1. \A x \in Contents(items) : x \in Messages \ {m}
      BY <1>2, <1>4, <2>0 DEF Apart
    <2> QED
      BY <1>1, <1>3, <1>4, <2>1 DEF Placed, ReceiptShape
  <1>8. ClearIsFinal'
    BY <1>1 DEF Placed, ClearIsFinal
  <1> QED
    BY <1>5, <1>6, <1>7, <1>8 DEF Placed

(* Nack puts the message back into the channel it came from, or loses it. *)
LEMMA NackPlaced ==
  ASSUME Placed, NEW m \in Messages, Nack(m)
  PROVE  Placed'
  <1> DEFINE g == origin[m]
  <1>1. /\ receipt[m] = "open" /\ flags[m] = {}
        /\ flags' = [flags EXCEPT ![m] = flags[m] \cup {"nacked"}]
        /\ UNCHANGED <<left, items, receipt, origin>>
        /\ \/ chan' = [chan EXCEPT ![g] = Append(chan[g], m)] /\ gone' = gone
           \/ gone' = gone \cup {m} /\ chan' = chan
    BY DEF Nack, CanNack, RequeueTo, Settleable, callVars, conVars
  <1>a. UNCHANGED <<left, items, receipt, origin>>
    BY <1>1
  <1>2. /\ Distinct(left) /\ Distinct(chan) /\ Distinct(items)
        /\ Apart(Contents(left), Contents(chan), Contents(items), Open, Acked, gone)
        /\ flags \in [Messages -> SUBSET {"acked", "nacked"}]
        /\ chan \in [Generations -> Seq(Messages)]
        /\ origin \in [Messages -> Generations \cup {0}]
    BY DEF Placed, OncePlaced, HoldersOK
  <1>3. /\ flags' \in [Messages -> SUBSET {"acked", "nacked"}]
        /\ flags'[m] = {"nacked"} /\ \A x \in Messages \ {m} : flags'[x] = flags[x]
    BY <1>1, <1>2
  <1>4. m \in Open /\ Open' = Open \ {m} /\ Acked' = Acked
    BY <1>1, <1>3 DEF Open, Acked, Settleable
  <1>5. g \in Generations
    BY <1>2, <1>4 DEF Placed, ReceiptShape
  <1>6. ReceiptShape'
    <2>0. Contents(items) \subseteq Messages
      <3>1. items \in [Consumers -> Seq(Messages)]
        BY DEF Placed, HoldersOK
      <3> QED
        BY <3>1, ContentsOf
    <2>1. \A x \in Contents(items) : x \in Messages \ {m}
      BY <1>2, <1>4, <2>0 DEF Apart
    <2> QED
      BY <1>a, <1>3, <1>4, <2>1 DEF Placed, ReceiptShape
  <1>7. CASE chan' = [chan EXCEPT ![g] = Append(chan[g], m)] /\ gone' = gone
    <2> HIDE DEF g
    <2>1. m \notin Contents(chan)
      BY <1>2, <1>4 DEF Apart
    <2>a. /\ chan' \in [Generations -> Seq(Messages)] /\ chan'[g] = Append(chan[g], m)
          /\ \A h \in Generations \ {g} : chan'[h] = chan[h]
      <3>1. Append(chan[g], m) \in Seq(Messages)
        BY <1>2, <1>5
      <3> QED
        BY <1>2, <1>5, <1>7, <3>1
    <2>b. gone' = gone
      BY <1>7
    <2>2. Contents(chan') = Contents(chan) \cup {m} /\ Distinct(chan')
      <3>1. Changes(Generations, chan, chan', g, Append(chan[g], m))
        BY <1>2, <1>5, <2>a DEF Changes
      <3> QED
        BY <1>2, <2>1, <3>1, FamilyAppend
    <2>3. HoldersOK'
      BY <1>a, <1>3, <2>a, <2>b DEF Placed, HoldersOK
    <2>4. OncePlaced'
      <3>0. Apart(Contents(left), Contents(chan) \cup {m}, Contents(items), Open \ {m}, Acked, gone)
        BY <1>2, <1>4 DEF Apart
      <3>1. Apart(Contents(left'), Contents(chan'), Contents(items'), Open', Acked', gone')
        BY <1>a, <1>4, <2>2, <2>b, <3>0
      <3> QED
        BY <1>a, <1>2, <2>2, <3>1 DEF OncePlaced
    <2>5. ClearIsFinal'
      <3>1. Range(Append(chan[g], m)) = Range(chan[g]) \cup {m}
        <4>1. chan[g] \in Seq(Messages)
          BY <1>2, <1>5
        <4> QED
          BY <4>1, AppendFacts
      <3>2. ASSUME NEW h \in Generations, NEW x \in Range(chan'[h])
            PROVE  x \in Range(chan[h]) \/ (x = m /\ h = g)
        <4>1. CASE h = g
          BY <2>a, <3>1, <3>2, <4>1
        <4>2. CASE h # g
          BY <2>a, <3>2, <4>2
        <4> QED
          BY <4>1, <4>2
      <3>3. origin'[m] = g
        BY <1>a DEF g
      <3> QED
        BY <1>a, <3>2, <3>3, FinalElements, FinalElementsNext DEF Placed
    <2> QED
      BY <1>6, <2>3, <2>4, <2>5 DEF Placed
  <1>8. CASE gone' = gone \cup {m} /\ chan' = chan
    <2>1. HoldersOK'
      BY <1>1, <1>3, <1>8 DEF Placed, HoldersOK
    <2>2. OncePlaced'
      <3>1. Apart(Contents(left'), Contents(chan'), Contents(items'), Open', Acked', gone')
        BY <1>a, <1>2, <1>4, <1>8 DEF Apart
      <3> QED
        BY <1>1, <1>2, <1>8, <3>1 DEF OncePlaced
    <2>3. ClearIsFinal'
      BY <1>1, <1>8 DEF Placed, ClearIsFinal
    <2> QED
      BY <1>6, <2>1, <2>2, <2>3 DEF Placed
  <1> QED
    BY <1>1, <1>7, <1>8

(* Clear takes a message out of the channel and drops it. *)
LEMMA ClearReceivePlaced ==
  ASSUME TypeOK, CallShape, Placed, NEW k \in Clearers, ClearReceive(k)
  PROVE  Placed'
  <1> DEFINE m == Head(chan[current])
  <1>1. /\ clear[k] = "receive" /\ chan[current] # <<>>
        /\ gone' = gone \cup {m}
        /\ chan' = [chan EXCEPT ![current] = Tail(chan[current])]
        /\ UNCHANGED <<left, items, receipt, flags, origin>>
    BY DEF ClearReceive, callVars, conVars, receiptVars
  <1>2. current \in Generations
    BY <1>1 DEF CallShape, TypeOK
  <1>3. /\ Distinct(left) /\ Distinct(chan) /\ Distinct(items)
        /\ Apart(Contents(left), Contents(chan), Contents(items), Open, Acked, gone)
        /\ chan \in [Generations -> Seq(Messages)]
    BY DEF Placed, OncePlaced, HoldersOK
  <1>a. /\ chan' \in [Generations -> Seq(Messages)] /\ chan'[current] = Tail(chan[current])
        /\ \A h \in Generations \ {current} : chan'[h] = chan[h]
    <2>1. chan[current] \in Seq(Messages)
      BY <1>2, <1>3
    <2>2. Tail(chan[current]) \in Seq(Messages)
      BY <1>1, <2>1, TailFacts
    <2> QED
      BY <1>1, <1>2, <1>3, <2>2
  <1>b. /\ chan[current] # <<>> /\ gone' = gone \cup {m}
        /\ UNCHANGED <<left, items, receipt, flags, origin>>
    BY <1>1
  <1>4. /\ m \in Messages /\ m \in Contents(chan)
        /\ Contents(chan') = Contents(chan) \ {m}
        /\ Distinct(chan')
    <2>1. Received(Generations, chan, chan', current, m)
      BY <1>a, <1>b, <1>2, <1>3 DEF Changes, Received
    <2> HIDE DEF m
    <2> QED
      BY <1>3, <2>1, FamilyTail
  <1> HIDE DEF m
  <1>5. Open' = Open /\ Acked' = Acked
    BY <1>1 DEF Open, Acked, Settleable
  <1>6. HoldersOK'
    BY <1>a, <1>b, <1>4 DEF Placed, HoldersOK
  <1>7. OncePlaced'
    <2>0. Apart(Contents(left), Contents(chan) \ {m}, Contents(items), Open, Acked, gone \cup {m})
      BY <1>3, <1>4 DEF Apart
    <2>1. Apart(Contents(left'), Contents(chan'), Contents(items'), Open', Acked', gone')
      BY <1>b, <1>4, <1>5, <2>0
    <2> QED
      BY <1>b, <1>3, <1>4, <2>1 DEF OncePlaced
  <1>8. ReceiptShape'
    BY <1>b, <1>5 DEF Placed, ReceiptShape
  <1>9. ClearIsFinal'
    <2>1. chan[current] \in Seq(Messages)
      BY <1>2, <1>3
    <2>2. Range(Tail(chan[current])) \subseteq Range(chan[current])
      BY <1>1, <2>1, TailFacts
    <2>3. \A g \in Generations : Range(chan'[g]) \subseteq Range(chan[g])
      BY <1>a, <2>2
    <2> QED
      BY <1>b, <2>3, FinalElements, FinalElementsNext DEF Placed
  <1> QED
    BY <1>6, <1>7, <1>8, <1>9 DEF Placed

-----------------------------------------------------------------------------
(* The invariant of the adapter.                                           *)

LEMMA InitInv == ASSUME Init PROVE MemoryInv
  <1> USE DEF Init
  <1>1. TypeOK
    <2>1. <<>> \in Seq(Messages)
      OBVIOUS
    <2>2. left \in [Publishers -> Seq(Messages)]
      BY ConstantFacts
    <2>3. /\ receipt \in [Messages -> {"none", "made", "open"}]
          /\ flags \in [Messages -> SUBSET {"acked", "nacked"}]
          /\ origin \in [Messages -> Generations \cup {0}]
      OBVIOUS
    <2>4. cancelled \in [Consumers -> BOOLEAN]
      OBVIOUS
    <2> QED
      BY <2>1, <2>2, <2>3, <2>4 DEF TypeOK
  <1>2. CallShape
    <2>1. {k \in Clearers : clear[k] = "done"} = {}
      OBVIOUS
    <2>a. Cardinality({}) = 0
      BY FS_EmptySet
    <2>b. current = 0
      OBVIOUS
    <2>2. current <= Cardinality({k \in Clearers : clear[k] = "done"}) + 1
      BY ONLY <2>1, <2>a, <2>b
    <2> QED
      BY <2>2 DEF CallShape
  <1>3. OncePlaced
    <2>1. Contents(left) = Messages
      BY DEF Contents, Messages
    <2>2. Contents(chan) = {} /\ Contents(items) = {}
      BY EmptyFacts DEF Contents
    <2>3. Open = {} /\ Acked = {}
      BY DEF Open, Acked, Settleable
    <2>4. Distinct(left)
      BY PayloadAssumption DEF Distinct
    <2>5. Distinct(chan) /\ Distinct(items)
      BY EmptyFacts DEF Distinct
    <2>6. Apart(Contents(left), Contents(chan), Contents(items), Open, Acked, gone)
      BY <2>1, <2>2, <2>3 DEF Apart
    <2> QED
      BY <2>4, <2>5, <2>6 DEF OncePlaced
  <1>4. ReceiptShape
    <2>1. Contents(left) = Messages
      BY DEF Contents, Messages
    <2>2. Contents(items) = {}
      BY EmptyFacts DEF Contents
    <2>3. Open = {}
      BY DEF Open, Settleable
    <2> QED
      BY <2>1, <2>2, <2>3 DEF ReceiptShape
  <1>5. ClearIsFinal
    BY DEF ClearIsFinal
  <1> QED
    BY <1>1, <1>2, <1>3, <1>4, <1>5 DEF MemoryInv

LEMMA StepInv == ASSUME MemoryInv, [Next]_vars PROVE MemoryInv'
  <1> USE DEF callVars, conVars, receiptVars
  <1>0. TypeOK /\ CallShape /\ Placed
    BY PlacedOf DEF MemoryInv
  <1>1. CASE Next
    <2>1. CallShape'
      BY <1>0, <1>1, CallShapeStep
    <2>2. Placed'
      <3>1. ASSUME NEW p \in Publishers, PublishCall(p) \/ PublishEnter(p) PROVE Placed'
        BY <1>0, <3>1, StillPlaced DEF PublishCall, PublishEnter
      <3>2. ASSUME NEW p \in Publishers, PublishSend(p) PROVE Placed'
        BY <1>0, <3>2, SendPlaced
      <3>3. ASSUME NEW c \in Consumers, ConsumeCall(c) \/ ConsumeEnter(c) \/ CancelConsumer(c)
            PROVE  Placed'
        BY <1>0, <3>3, StillPlaced DEF ConsumeCall, ConsumeEnter, CancelConsumer
      <3>4. ASSUME NEW c \in Consumers, ConsumeReceive(c) PROVE Placed'
        BY <1>0, <3>4, ReceivePlaced
      <3>5. ASSUME NEW c \in Consumers, ConsumeCancelled(c) PROVE Placed'
        BY <1>0, <3>5, CancelledPlaced
      <3>6. ASSUME NEW c \in Consumers, ConsumeReturn(c) PROVE Placed'
        BY <1>0, <3>6, ReturnPlaced
      <3>7. ASSUME NEW m \in Messages, Ack(m) PROVE Placed'
        BY <1>0, <3>7, AckPlaced
      <3>8. ASSUME NEW m \in Messages, Nack(m) PROVE Placed'
        BY <1>0, <3>8, NackPlaced
      <3>9. ASSUME NEW k \in Clearers,
                   ClearCall(k) \/ ClearEnter(k) \/ ClearTest(k) \/ ClearSwap(k)
            PROVE  Placed'
        BY <1>0, <3>9, StillPlaced DEF ClearCall, ClearEnter, ClearTest, ClearSwap
      <3>10. ASSUME NEW k \in Clearers, ClearReceive(k) PROVE Placed'
        BY <1>0, <3>10, ClearReceivePlaced
      <3> QED
        BY <1>1, <3>1, <3>2, <3>3, <3>4, <3>5, <3>6, <3>7, <3>8, <3>9, <3>10 DEF Next
    <2>3. TypeOK'
      BY <1>0, <1>1, <2>2, ControlStep DEF TypeOK, Placed, HoldersOK
    <2> QED
      BY <2>1, <2>2, <2>3 DEF MemoryInv, Placed
  <1>2. CASE UNCHANGED vars
    <2>1. Placed'
      BY <1>0, <1>2, StillPlaced DEF vars
    <2>2. TypeOK' /\ CallShape'
      BY <1>0, <1>2 DEF vars, TypeOK, CallShape
    <2> QED
      BY <2>1, <2>2 DEF MemoryInv, Placed
  <1> QED
    BY <1>1, <1>2

(* The inductive invariant of the in-memory adapter holds in every         *)
(* reachable state: every message is in one place, with the receipt that   *)
(* its place asks for.                                                     *)
THEOREM MemoryInvariance == Spec => []MemoryInv
  <1>1. Init => MemoryInv
    BY InitInv
  <1>2. MemoryInv /\ [Next]_vars => MemoryInv'
    BY StepInv
  <1> QED
    BY <1>1, <1>2, PTL DEF Spec

(* Clear is final: a message in flight when Clear replaced the channel     *)
(* never turns up in the new channel.                                      *)
THEOREM ClearedStaysCleared == Spec => []ClearIsFinal
  <1>1. MemoryInv => ClearIsFinal
    BY DEF MemoryInv
  <1> QED
    BY <1>1, MemoryInvariance, PTL

(* A family without repetitions has one place for each of its messages. *)
LEMMA SpotsFacts ==
  ASSUME NEW tag, NEW f, NEW m, Distinct(f)
  PROVE  /\ m \notin Contents(f) => Spots(tag, f, m) = {}
         /\ m \in Contents(f) => \E x : Spots(tag, f, m) = {x}
  <1>1. \A x : x \in Spots(tag, f, m) <=>
                 \E d \in DOMAIN f : \E i \in DOMAIN f[d] : f[d][i] = m /\ x = <<tag, d, i>>
    BY DEF Spots
  <1>2. \A d \in DOMAIN f : \A i \in DOMAIN f[d] : f[d][i] = m => m \in Range(f[d])
    BY DEF Range
  <1>3. ASSUME m \notin Contents(f) PROVE Spots(tag, f, m) = {}
    BY <1>1, <1>2, <1>3 DEF Contents
  <1>4. ASSUME m \in Contents(f) PROVE \E x : Spots(tag, f, m) = {x}
    <2>1. PICK d \in DOMAIN f : m \in Range(f[d])
      BY <1>4 DEF Contents
    <2>2. PICK i \in DOMAIN f[d] : f[d][i] = m
      BY <2>1 DEF Range
    <2>3. ASSUME NEW e \in DOMAIN f, NEW j \in DOMAIN f[e], f[e][j] = m
          PROVE  e = d /\ j = i
      <3>1. m \in Range(f[e])
        BY <1>2, <2>3
      <3>2. e = d
        BY <2>1, <3>1 DEF Distinct
      <3>3. IsInjective(f[d])
        BY DEF Distinct
      <3> QED
        BY <2>2, <2>3, <3>2, <3>3 DEF IsInjective
    <2>4. Spots(tag, f, m) = {<<tag, d, i>>}
      BY <1>1, <2>2, <2>3
    <2> QED
      BY <2>4
  <1> QED
    BY <1>3, <1>4

LEMMA InvConserves == ASSUME MemoryInv PROVE Conservation
  <1> SUFFICES ASSUME NEW m \in Messages PROVE Cardinality(Places(m)) = 1
    BY DEF Conservation
  <1> DEFINE L == Spots("left", left, m)
             C == Spots("chan", chan, m)
             I == Spots("items", items, m)
             O == {<<"open">> : x \in {m} \cap {n \in Messages : Settleable(n)}}
             A == {<<"acked">> : x \in {m} \cap {n \in Messages : "acked" \in flags[n]}}
             G == {<<"gone">> : x \in {m} \cap gone}
  <1>1. /\ Distinct(left) /\ Distinct(chan) /\ Distinct(items)
        /\ Apart(Contents(left), Contents(chan), Contents(items), Open, Acked, gone)
    BY DEF MemoryInv, OncePlaced
  <1>2. /\ m \notin Contents(left) => L = {}
        /\ m \in Contents(left) => \E x : L = {x}
    BY <1>1, SpotsFacts
  <1>3. /\ m \notin Contents(chan) => C = {}
        /\ m \in Contents(chan) => \E x : C = {x}
    BY <1>1, SpotsFacts
  <1>4. /\ m \notin Contents(items) => I = {}
        /\ m \in Contents(items) => \E x : I = {x}
    BY <1>1, SpotsFacts
  <1>5. /\ m \notin Open => O = {}
        /\ m \in Open => O = {<<"open">>}
    BY DEF Open
  <1>6. /\ m \notin Acked => A = {}
        /\ m \in Acked => A = {<<"acked">>}
    BY DEF Acked
  <1>7. /\ m \notin gone => G = {}
        /\ m \in gone => G = {<<"gone">>}
    OBVIOUS
  <1>8. Places(m) = L \cup C \cup I \cup O \cup A \cup G
    BY DEF Places
  <1> HIDE DEF L, C, I, O, A, G
  <1>9. \E x : Places(m) = {x}
    <2>1. CASE m \in Contents(left)
      <3>1. C = {} /\ I = {} /\ O = {} /\ A = {} /\ G = {}
        BY <1>1, <1>3, <1>4, <1>5, <1>6, <1>7, <2>1 DEF Apart
      <3> QED
        BY <1>2, <1>8, <2>1, <3>1
    <2>2. CASE m \in Contents(chan)
      <3>1. L = {} /\ I = {} /\ O = {} /\ A = {} /\ G = {}
        BY <1>1, <1>2, <1>4, <1>5, <1>6, <1>7, <2>2 DEF Apart
      <3> QED
        BY <1>3, <1>8, <2>2, <3>1
    <2>3. CASE m \in Contents(items)
      <3>1. L = {} /\ C = {} /\ O = {} /\ A = {} /\ G = {}
        BY <1>1, <1>2, <1>3, <1>5, <1>6, <1>7, <2>3 DEF Apart
      <3> QED
        BY <1>4, <1>8, <2>3, <3>1
    <2>4. CASE m \in Open
      <3>1. L = {} /\ C = {} /\ I = {} /\ A = {} /\ G = {}
        BY <1>1, <1>2, <1>3, <1>4, <1>6, <1>7, <2>4 DEF Apart
      <3> QED
        BY <1>5, <1>8, <2>4, <3>1
    <2>5. CASE m \in Acked
      <3>1. L = {} /\ C = {} /\ I = {} /\ O = {} /\ G = {}
        BY <1>1, <1>2, <1>3, <1>4, <1>5, <1>7, <2>5 DEF Apart
      <3> QED
        BY <1>6, <1>8, <2>5, <3>1
    <2>6. CASE m \in gone
      <3>1. L = {} /\ C = {} /\ I = {} /\ O = {} /\ A = {}
        BY <1>1, <1>2, <1>3, <1>4, <1>5, <1>6, <2>6 DEF Apart
      <3> QED
        BY <1>7, <1>8, <2>6, <3>1
    <2> QED
      BY <1>1, <2>1, <2>2, <2>3, <2>4, <2>5, <2>6 DEF Apart
  <1> QED
    BY <1>9, FS_Singleton

(* No message is lost or doubled: whatever publishers, consumers, receipts *)
(* and Clear do, each message is at one place at a time.                   *)
THEOREM NothingLostOrDoubled == Spec => []Conservation
  <1>1. MemoryInv => Conservation
    BY InvConserves
  <1> QED
    BY <1>1, MemoryInvariance, PTL

-----------------------------------------------------------------------------
(* The calls that publish.                                                 *)

(* Every step of the clients and of the network is a step of the adapter,  *)
(* or none.                                                                *)
LEMMA StepOfAdapter ==
  ASSUME [PublishNext]_pvars
  PROVE  [Next]_vars
  <1>1. CASE AdapterNext
    BY <1>1 DEF AdapterNext, Next
  <1>2. ASSUME NEW p \in Publishers, Caller(p) \/ Arrive(p) \/ RequestLost(p)
        PROVE  PublishCall(p) \/ UNCHANGED vars
    BY <1>2 DEF Caller, CallRefused, CallLocal, LocalReturns, CallRemote, Answer, GiveUp,
                Arrive, RequestLost
  <1>3. CASE UNCHANGED pvars
    BY <1>3 DEF pvars
  <1> QED
    BY <1>1, <1>2, <1>3 DEF PublishNext, Next

(* The clients, the producer and the HTTP adapter use the in-memory        *)
(* adapter as any caller may, so what is proved of the adapter holds       *)
(* behind them.                                                            *)
THEOREM PublishRunsAdapter == PublishSpec => Spec
  <1>1. PublishInit => Init
    BY DEF PublishInit
  <1>2. [PublishNext]_pvars => [Next]_vars
    BY StepOfAdapter
  <1> QED
    BY <1>1, <1>2, PTL DEF PublishSpec, Spec

(* How a step of the adapter itself changes the calls of Publish. *)
LEMMA AdapterCalls ==
  ASSUME TypeOK, AdapterNext
  PROVE  /\ UNCHANGED <<request, client, wire>>
         /\ \/ pub' = pub
            \/ \E p \in Publishers :
                 /\ pub[p] \in {"lock", "send"}
                 /\ \E s \in {"send", "ok", "error"} : pub' = [pub EXCEPT ![p] = s]
  <1>1. ASSUME NEW p \in Publishers, PublishEnter(p) \/ PublishSend(p)
        PROVE  \/ pub' = pub
               \/ /\ pub[p] \in {"lock", "send"}
                  /\ \E s \in {"send", "ok", "error"} : pub' = [pub EXCEPT ![p] = s]
    BY <1>1 DEF PublishEnter, PublishSend, Send
  <1>2. ASSUME NEW c \in Consumers,
               \/ ConsumeCall(c) \/ ConsumeEnter(c) \/ ConsumeReceive(c)
               \/ ConsumeCancelled(c) \/ ConsumeReturn(c) \/ CancelConsumer(c)
        PROVE  pub' = pub
    BY <1>2 DEF ConsumeCall, ConsumeEnter, ConsumeReceive, ConsumeCancelled, ConsumeReturn,
                CancelConsumer, callVars
  <1>3. ASSUME NEW m \in Messages, Ack(m) \/ Nack(m) PROVE pub' = pub
    BY <1>3 DEF Ack, Nack, callVars
  <1>4. ASSUME NEW k \in Clearers,
               ClearCall(k) \/ ClearEnter(k) \/ ClearTest(k) \/ ClearReceive(k) \/ ClearSwap(k)
        PROVE  pub' = pub
    BY <1>4 DEF ClearCall, ClearEnter, ClearTest, ClearReceive, ClearSwap, callVars
  <1>5. UNCHANGED <<request, client, wire>>
    BY DEF AdapterNext, netVars
  <1> QED
    BY <1>1, <1>2, <1>3, <1>4, <1>5 DEF AdapterNext

LEMMA ClientInit == ASSUME PublishInit PROVE ClientShape
  BY DEF PublishInit, Init, ClientShape

LEMMA ClientStep ==
  ASSUME TypeOK, ClientShape, [PublishNext]_pvars
  PROVE  ClientShape'
  <1>0. pub \in [Publishers -> {"idle", "lock", "send", "ok", "error"}]
    BY DEF TypeOK
  <1>1. CASE AdapterNext
    <2>1. UNCHANGED <<request, client, wire>>
      BY <1>1, AdapterCalls
    <2>2. CASE pub' = pub
      BY <2>1, <2>2 DEF ClientShape
    <2>3. CASE \E p \in Publishers :
                 /\ pub[p] \in {"lock", "send"}
                 /\ \E s \in {"send", "ok", "error"} : pub' = [pub EXCEPT ![p] = s]
      BY <1>0, <2>1, <2>3 DEF ClientShape
    <2> QED
      BY <1>1, <2>2, <2>3, AdapterCalls
  <1>2. ASSUME NEW p \in Publishers, Caller(p) PROVE ClientShape'
    <2>1. CASE CallRefused(p)
      BY <1>0, <2>1 DEF CallRefused, SetClient, ClientShape, vars, callVars
    <2>2. CASE CallLocal(p)
      BY <1>0, <2>2 DEF CallLocal, SetClient, PublishCall, ClientShape
    <2>3. CASE LocalReturns(p)
      BY <1>0, <2>3 DEF LocalReturns, SetClient, ClientShape, vars, callVars
    <2>4. CASE CallRemote(p)
      BY <1>0, <2>4 DEF CallRemote, SetClient, SetWire, ClientShape, vars, callVars
    <2>5. CASE Answer(p)
      <3>1. \/ wire[p] = "refused" /\ Status(p) = "error"
            \/ wire[p] = "served" /\ pub[p] \in {"ok", "error"} /\ Status(p) = pub[p]
        BY <2>5 DEF Answer, Status
      <3>2. /\ client' = [client EXCEPT ![p] = Status(p)]
            /\ UNCHANGED <<pub, request, wire>>
        BY <2>5 DEF Answer, SetClient, vars, callVars
      <3> QED
        BY <1>0, <3>1, <3>2 DEF ClientShape
    <2>6. CASE GiveUp(p)
      BY <1>0, <2>6 DEF GiveUp, SetClient, ClientShape, vars, callVars
    <2> QED
      BY <1>2, <2>1, <2>2, <2>3, <2>4, <2>5, <2>6 DEF Caller
  <1>3. ASSUME NEW p \in Publishers, Arrive(p) PROVE ClientShape'
    BY <1>0, <1>3 DEF Arrive, SetWire, PublishCall, ClientShape, vars, callVars
  <1>4. ASSUME NEW p \in Publishers, RequestLost(p) PROVE ClientShape'
    BY <1>0, <1>4 DEF RequestLost, SetWire, ClientShape, vars, callVars
  <1>5. CASE UNCHANGED pvars
    BY <1>5 DEF pvars, vars, callVars, netVars, ClientShape
  <1> QED
    BY <1>1, <1>2, <1>3, <1>4, <1>5 DEF PublishNext

(* What a caller is told is true: after a success the queue took all       *)
(* messages of the call, after an error it took none and never will, and   *)
(* a call that was given up is all or nothing once the adapter is done     *)
(* with it, however late its request arrives.                              *)
THEOREM AnswersAreTrue == PublishSpec => []AnswerIsTrue
  <1>1. PublishInit => ClientShape
    BY ClientInit
  <1>2. MemoryInv /\ ClientShape /\ [PublishNext]_pvars => ClientShape'
    BY ClientStep DEF MemoryInv
  <1>3. MemoryInv /\ ClientShape => AnswerIsTrue
    <2> SUFFICES ASSUME MemoryInv, ClientShape, NEW p \in Publishers
                 PROVE  /\ client[p] = "ok" => left[p] = <<>>
                        /\ client[p] = "error" => /\ left[p] = Payload[p]
                                                  /\ pub[p] \in {"idle", "error"}
                                                  /\ wire[p] # "sent"
                        /\ client[p] = "unknown" /\ pub[p] # "send"
                             => left[p] \in {Payload[p], <<>>}
      BY DEF AnswerIsTrue
    <2>1. /\ pub[p] \in {"idle", "lock", "error"} => left[p] = Payload[p]
          /\ pub[p] = "ok" => left[p] = <<>>
          /\ pub[p] \in {"idle", "lock", "send", "ok", "error"}
      BY DEF MemoryInv, TypeOK, CallShape
    <2> QED
      BY <2>1 DEF ClientShape
  <1> QED
    BY <1>1, <1>2, <1>3, MemoryInvariance, PublishRunsAdapter, PTL DEF PublishSpec

-----------------------------------------------------------------------------
(* Where the messages of a call go.                                        *)

(* Induction over a recursive function goes by the least index at which it *)
(* is not what it should be.                                               *)
LEMMA LeastNumber ==
  ASSUME NEW T \in SUBSET Nat, T # {}
  PROVE  \E n \in T : \A k \in T : n <= k
  <1>1. PICK n \in T : \A k \in T : <<k, n>> \notin OpToRel(<, Nat)
    BY WFMin, NatLessThanWellFounded
  <1>2. ASSUME NEW k \in T PROVE n <= k
    <2>1. <<k, n>> \in Nat \X Nat /\ <<k, n>>[1] = k /\ <<k, n>>[2] = n
      OBVIOUS
    <2>2. ~(k < n)
      BY <1>1, <2>1, Zenon DEF OpToRel
    <2> QED
      BY <2>1, <2>2
  <1> QED
    BY <1>2

(* The pieces of a name, put together again.  FlattenSeq is a recursive    *)
(* function: upTo is a solution of its equation, so that the function      *)
(* there is satisfies it, and every solution ends with the whole name.     *)
LEMMA FlattenSingles ==
  ASSUME NEW S, NEW s \in Seq(S), s # <<>>
  PROVE  FlattenSeq([i \in DOMAIN s |-> <<s[i]>>]) = s
  <1> DEFINE ss == [i \in DOMAIN s |-> <<s[i]>>]
             n == Len(s)
             upTo == [i \in 1..n |-> SubSeq(s, 1, i)]
             Solves(f) == f = [i \in 1..Len(ss) |-> IF i = 1 THEN ss[i] ELSE f[i - 1] \o ss[i]]
  <1>1. n \in Nat \ {0} /\ DOMAIN s = 1..n /\ \A i \in 1..n : s[i] \in S
    OBVIOUS
  <1>2. Len(ss) = n /\ ss \in Seq(Seq(S)) /\ \A i \in 1..n : ss[i] = <<s[i]>>
    BY <1>1
  <1>3. SubSeq(s, 1, 1) = <<s[1]>> /\ SubSeq(s, 1, n) = s
    <2>1. SubSeq(s, 1, n) = s
      BY SubSeqFull
    <2>2. SubSeq(s, 1, 1) \in Seq(S) /\ Len(SubSeq(s, 1, 1)) = 1 /\ SubSeq(s, 1, 1)[1] = s[1]
      BY <1>1
    <2>3. SubSeq(s, 1, 1) = <<s[1]>>
      <3> DEFINE one == SubSeq(s, 1, 1)
                 single == <<s[1]>>
      <3>1. one \in Seq(S) /\ single \in Seq(S) /\ Len(one) = Len(single)
        BY <1>1, <2>2
      <3>2. \A i \in 1..Len(one) : one[i] = single[i]
        BY <1>1, <2>2
      <3> HIDE DEF one, single
      <3>3. one = single
        BY <3>1, <3>2, SeqEqual
      <3> QED
        BY <3>3 DEF one, single
    <2> QED
      BY <2>1, <2>3
  <1>4. ASSUME NEW i \in 2..n PROVE SubSeq(s, 1, i - 1) \o <<s[i]>> = SubSeq(s, 1, i)
    BY <1>1
  <1> HIDE DEF n, ss
  <1>5. Solves(upTo)
    <2>1. ASSUME NEW i \in 1..n
          PROVE  upTo[i] = IF i = 1 THEN ss[i] ELSE upTo[i - 1] \o ss[i]
      <3>1. CASE i = 1
        BY <1>1, <1>2, <1>3, <3>1
      <3>2. CASE i # 1
        <4>1. i \in 2..n /\ i - 1 \in 1..n
          BY <1>1, <3>2
        <4>2. upTo[i] = SubSeq(s, 1, i) /\ upTo[i - 1] = SubSeq(s, 1, i - 1)
          BY <4>1
        <4> QED
          BY <1>2, <1>4, <3>2, <4>1, <4>2
      <3> QED
        BY <3>1, <3>2
    <2> QED
      BY <1>1, <1>2, <2>1
  <1>6. ASSUME NEW f, Solves(f) PROVE f[n] = s
    <2> DEFINE bad == {i \in 1..n : f[i] # SubSeq(s, 1, i)}
    <2>0. \A i \in 1..n : f[i] = IF i = 1 THEN ss[i] ELSE f[i - 1] \o ss[i]
      BY <1>2, <1>6
    <2>1. ASSUME bad # {} PROVE FALSE
      <3>1. PICK i \in bad : \A k \in bad : i <= k
        <4>1. bad \in SUBSET Nat
          BY <1>1
        <4> HIDE DEF bad
        <4> QED
          BY <2>1, <4>1, LeastNumber
      <3>2. i # 1
        BY <1>1, <1>2, <1>3, <2>0
      <3>3. i - 1 \in 1..n /\ i \in 2..n /\ i - 1 \notin bad
        BY <1>1, <3>1, <3>2
      <3>4. f[i - 1] = SubSeq(s, 1, i - 1)
        BY <3>3
      <3>5. f[i] = SubSeq(s, 1, i)
        BY <1>2, <1>4, <2>0, <3>2, <3>3, <3>4
      <3> QED
        BY <3>5
    <2>2. n \in 1..n /\ n \notin bad
      BY <1>1, <2>1
    <2>3. f[n] = SubSeq(s, 1, n)
      BY <2>2
    <2> QED
      BY <1>3, <2>3
  <1> HIDE DEF upTo
  <1>7. Solves(CHOOSE f : Solves(f))
    BY <1>5, Zenon
  <1>8. FlattenSeq(ss) = (CHOOSE f : Solves(f))[n]
    BY <1>1, <1>2 DEF FlattenSeq
  <1>9. FlattenSeq(ss) = s
    BY <1>6, <1>7, <1>8
  <1> QED
    BY <1>9 DEF ss

(* A name without special characters is the same in a URL. *)
LEMMA PlainNames ==
  ASSUME NEW name \in Seq(STRING), validateQueueName(name)
  PROVE  PathEscape(name) = name /\ Unescape(name) = name /\ ~UnescapeFails(name)
  <1>1. name # <<>> /\ \A i \in DOMAIN name : name[i] \notin {" ", "/", "%"}
    BY DEF validateQueueName
  <1> DEFINE singles == [i \in DOMAIN name |-> <<name[i]>>]
  <1>2. FlattenSeq(singles) = name
    BY <1>1, FlattenSingles
  <1>3. PathEscape(name) = FlattenSeq(singles)
    <2>1. [i \in DOMAIN name |-> IF name[i] \in {"%", "/", " "} THEN <<"%", Escapes[name[i]]>>
                                 ELSE <<name[i]>>] = singles
      BY <1>1
    <2> QED
      BY <2>1, Zenon DEF PathEscape
  <1>4. Unescape(name) = FlattenSeq(singles)
    <2> DEFINE starts == {i \in DOMAIN name : name[i] = "%"}
               char(i) == CHOOSE c \in DOMAIN Escapes : Escapes[c] = name[i + 1]
               out(i) == IF i \in starts THEN <<char(i)>>
                         ELSE IF i - 1 \in starts THEN <<>> ELSE <<name[i]>>
    <2>1. starts = {}
      BY <1>1
    <2> HIDE DEF starts, char
    <2>2. [i \in DOMAIN name |-> out(i)] = singles
      BY <2>1
    <2>3. Unescape(name) = FlattenSeq([i \in DOMAIN name |-> out(i)])
      BY Zenon DEF Unescape, starts, char
    <2> HIDE DEF out, singles
    <2> QED
      BY <2>2, <2>3, Zenon
  <1>5. ~UnescapeFails(name)
    BY <1>1 DEF UnescapeFails
  <1> QED
    BY <1>2, <1>3, <1>4, <1>5

(* parseMethodName takes the path of a stub apart again. *)
LEMMA ParsesBack ==
  ASSUME NEW S, "/" \in S, NEW t \in Seq(S), NEW a \in Seq(S \ {"/"}),
         NEW path, path = FullMethod(t, a)
  PROVE  Service(path) = t /\ Method(path) = a
  <1> DEFINE k == Len(t) + 2
  <1>1. a \in Seq(S) /\ \A i \in 1..Len(a) : a[i] # "/"
    OBVIOUS
  <1> DEFINE front == <<"/">> \o t
             stem == front \o <<"/">>
  <1>2. <<"/">> \in Seq(S) /\ Len(<<"/">>) = 1 /\ <<"/">>[1] = "/"
    OBVIOUS
  <1>3. /\ front \in Seq(S) /\ Len(front) = Len(t) + 1
        /\ \A i \in 1..Len(t) : front[i + 1] = t[i]
    BY <1>2, ConcatProperties
  <1> HIDE DEF front
  <1>4. /\ stem \in Seq(S) /\ Len(stem) = k /\ stem[k] = "/"
        /\ \A i \in 1..Len(t) : stem[i + 1] = t[i]
    BY <1>2, <1>3, ConcatProperties
  <1> HIDE DEF stem
  <1>5. path = stem \o a
    BY DEF FullMethod, stem, front
  <1>6. /\ path \in Seq(S) /\ Len(path) = k + Len(a) /\ path[k] = "/"
        /\ \A i \in 1..Len(t) : path[i + 1] = t[i]
        /\ \A i \in 1..Len(a) : path[k + i] = a[i]
    <2>1. /\ path \in Seq(S) /\ Len(path) = k + Len(a)
          /\ \A i \in 1..(k + Len(a)) : path[i] = IF i <= k THEN stem[i] ELSE a[i - k]
      <3>1. /\ stem \o a \in Seq(S) /\ Len(stem \o a) = Len(stem) + Len(a)
            /\ \A i \in 1..(Len(stem) + Len(a)) :
                 (stem \o a)[i] = IF i <= Len(stem) THEN stem[i] ELSE a[i - Len(stem)]
        BY <1>1, <1>4, ConcatProperties, Zenon
      <3> QED
        BY <1>4, <1>5, <3>1
    <2>2. path[k] = "/" /\ \A i \in 1..Len(t) : path[i + 1] = t[i]
      BY <1>4, <2>1
    <2>3. ASSUME NEW i \in 1..Len(a) PROVE path[k + i] = a[i]
      <3>1. k + i \in 1..(k + Len(a)) /\ ~(k + i <= k) /\ (k + i) - k = i
        BY <1>1
      <3> HIDE DEF k
      <3> QED
        BY <2>1, <3>1
    <2> QED
      BY <2>1, <2>2, <2>3
  <1>7. k \in Slashes(path)
    BY <1>6 DEF Slashes
  <1>8. ASSUME NEW i \in Slashes(path) PROVE i \in Nat /\ k >= i
    <2>1. i \in 1..Len(path) /\ path[i] = "/"
      BY <1>6 DEF Slashes
    <2>2. ASSUME i > k PROVE FALSE
      <3>1. i - k \in 1..Len(a) /\ path[k + (i - k)] = path[i]
        BY <1>6, <2>1, <2>2
      <3> QED
        BY <1>1, <1>6, <2>1, <3>1
    <2> QED
      BY <2>1, <2>2
  <1>9. Max(Slashes(path)) = k
    <2>1. k \in Nat
      OBVIOUS
    <2> HIDE DEF k
    <2>2. \A x \in Slashes(path) : (\A y \in Slashes(path) : x >= y) <=> x = k
      BY <1>7, <1>8, <2>1
    <2> QED
      BY <1>7, <2>2 DEF Max
  <1>10. Service(path) = t
    <2> DEFINE found == SubSeq(path, 2, k - 1)
    <2>1. \A i \in 2..(k - 1) : path[i] \in S
      BY <1>6
    <2>2. found \in Seq(S) /\ Len(found) = Len(t) /\ \A i \in 1..Len(t) : found[i] = path[i + 1]
      BY <1>6, <2>1, SubSeqProperties
    <2> HIDE DEF found
    <2>3. found = t
      BY <1>6, <2>2, SeqEqual
    <2> QED
      BY <1>9, <2>3 DEF Service, found
  <1>11. Method(path) = a
    <2> DEFINE found == SubSeq(path, k + 1, Len(path))
    <2>1. \A i \in (k + 1)..Len(path) : path[i] \in S
      BY <1>6
    <2>2. found \in Seq(S) /\ Len(found) = Len(a) /\ \A i \in 1..Len(a) : found[i] = path[k + i]
      BY <1>1, <1>6, <2>1, SubSeqProperties
    <2> HIDE DEF found
    <2>3. found = a
      BY <1>1, <1>6, <2>2, SeqEqual
    <2> QED
      BY <1>9, <2>3 DEF Method, found
  <1> QED
    BY <1>10, <1>11

(* Where the messages of an accepted request go is what its caller asked   *)
(* for.                                                                    *)
LEMMA AcceptedIsRouted ==
  ASSUME NEW p \in Publishers, NEW r \in Requests[p], Accepted(r)
  PROVE  Destination(r) = QueueOf(r) /\ Addresses(r) = r.methods
  <1>1. QueueOf(r) \in Seq(STRING) /\ validateQueueName(QueueOf(r))
    <2>1. r.queue \in Seq(STRING) /\ r.options \in Seq(Seq(STRING))
      BY RequestsAssumption
    <2>2. r.options # <<>> => Last(r.options) \in Seq(STRING)
      BY <2>1 DEF Last
    <2> QED
      BY <2>1, <2>2 DEF QueueOf, Accepted
  <1>2. Destination(r) = QueueOf(r)
    BY <1>1, PlainNames DEF Destination, PathOf
  <1>3. CASE r.via = "conn"
    <2>1. ~ParseFails(r.path)
      BY <1>3 DEF Accepted
    <2>2. PICK a \in r.methods : /\ r.methods = {a}
                                 /\ a \in Seq(STRING) \X Seq(STRING \ {"/"})
                                 /\ r.path = FullMethod(a[1], a[2])
      BY <1>3, <2>1, RequestsAssumption
    <2> DEFINE S == STRING \cup {"/"}
    <2>3. "/" \in S /\ a[1] \in Seq(S) /\ a[2] \in Seq(S \ {"/"})
      BY <2>2
    <2> HIDE DEF S
    <2>4. Service(r.path) = a[1] /\ Method(r.path) = a[2]
      BY <2>2, <2>3, ParsesBack
    <2> QED
      BY <1>2, <1>3, <2>2, <2>4 DEF Addresses
  <1>4. CASE r.via # "conn"
    BY <1>2, <1>4 DEF Addresses
  <1> QED
    BY <1>3, <1>4

LEMMA AdmittedInit == ASSUME PublishInit PROVE Admitted
  BY DEF PublishInit, Init, Admitted

LEMMA AdmittedStep ==
  ASSUME TypeOK, ClientShape, Admitted, [PublishNext]_pvars
  PROVE  Admitted'
  <1>0. /\ pub \in [Publishers -> {"idle", "lock", "send", "ok", "error"}]
        /\ wire \in [Publishers -> {"none", "sent", "lost", "refused", "served"}]
    BY DEF TypeOK, ClientShape
  <1>1. request' = request
    BY DEF PublishNext, AdapterNext, Caller, CallRefused, CallLocal, LocalReturns, CallRemote,
           Answer, GiveUp, Arrive, RequestLost, pvars, netVars
  <1>2. ASSUME NEW q \in Publishers, pub'[q] # "idle" \/ wire'[q] # "none"
        PROVE  pub[q] # "idle" \/ wire[q] # "none" \/ Accepted(request[q])
    <2>1. CASE AdapterNext
      BY <1>0, <1>2, <2>1, AdapterCalls
    <2>2. ASSUME NEW p \in Publishers, CallLocal(p) \/ CallRemote(p)
          PROVE  pub[q] # "idle" \/ wire[q] # "none" \/ Accepted(request[q])
      <3>1. Accepted(request[p])
        BY <2>2 DEF CallLocal, CallRemote
      <3>2. ASSUME q # p PROVE pub'[q] = pub[q] /\ wire'[q] = wire[q]
        BY <1>0, <2>2, <3>2 DEF CallLocal, CallRemote, PublishCall, SetWire, vars, callVars
      <3> QED
        BY <1>2, <3>1, <3>2
    <2>3. ASSUME NEW p \in Publishers,
                 CallRefused(p) \/ LocalReturns(p) \/ Answer(p) \/ GiveUp(p)
          PROVE  UNCHANGED <<pub, wire>>
      BY <2>3 DEF CallRefused, LocalReturns, Answer, GiveUp, vars, callVars
    <2>4. ASSUME NEW p \in Publishers, Arrive(p) \/ RequestLost(p)
          PROVE  pub[q] # "idle" \/ wire[q] # "none"
      <3>1. wire[p] = "sent"
        BY <2>4 DEF Arrive, RequestLost
      <3>2. ASSUME q # p PROVE pub'[q] = pub[q] /\ wire'[q] = wire[q]
        BY <1>0, <2>4, <3>2 DEF Arrive, RequestLost, PublishCall, SetWire, vars, callVars
      <3> QED
        BY <1>2, <3>1, <3>2
    <2>5. CASE UNCHANGED pvars
      BY <1>2, <2>5 DEF pvars, vars, callVars, netVars
    <2> QED
      BY <1>2, <2>1, <2>2, <2>3, <2>4, <2>5 DEF PublishNext, Caller
  <1>3. ASSUME NEW q \in Publishers
        PROVE  /\ request'[q] \in Requests[q]
               /\ pub'[q] # "idle" \/ wire'[q] # "none" => Accepted(request[q])
    BY <1>1, <1>2 DEF Admitted
  <1>4. \A q \in Publishers : Accepted(request[q])' <=> Accepted(request[q])
    BY <1>1 DEF Accepted, Addresses, QueueOf
  <1> QED
    BY <1>1, <1>3, <1>4 DEF Admitted

(* A message that the adapter takes goes to the queue, with the topic and  *)
(* action, that the caller asked for, although the name is escaped once    *)
(* and unescaped twice on its way: whatever would change under that has    *)
(* been refused.                                                           *)
THEOREM MessagesAreRouted == PublishSpec => []Routed
  <1>1. PublishInit => ClientShape /\ Admitted
    BY ClientInit, AdmittedInit
  <1>2. MemoryInv /\ ClientShape /\ Admitted /\ [PublishNext]_pvars => ClientShape' /\ Admitted'
    BY ClientStep, AdmittedStep DEF MemoryInv
  <1>3. Admitted => Routed
    BY AcceptedIsRouted DEF Admitted, Routed
  <1> QED
    BY <1>1, <1>2, <1>3, MemoryInvariance, PublishRunsAdapter, PTL DEF PublishSpec
=============================================================================
