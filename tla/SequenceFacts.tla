---------------------------- MODULE SequenceFacts ----------------------------
(***************************************************************************)
(* Facts about the finite sequences that the models use as channels and    *)
(* batches: what appending, taking the head off and cutting do to the set  *)
(* of elements and to the absence of repetitions.                          *)
(***************************************************************************)
EXTENDS Integers, Sequences, FiniteSets, Functions, SequenceTheorems, FiniteSetTheorems,
        TLAPS

(* Appending adds one element, and keeps a sequence without repetitions    *)
(* free of them when the element is new.                                   *)
LEMMA AppendFacts ==
  ASSUME NEW S, NEW q \in Seq(S), NEW e \in S
  PROVE  /\ Append(q, e) \in Seq(S)
         /\ Range(Append(q, e)) = Range(q) \cup {e}
         /\ IsInjective(q) /\ e \notin Range(q) => IsInjective(Append(q, e))
  <1>1. Append(q, e) \in Seq(S)
    OBVIOUS
  <1>2. /\ Len(Append(q, e)) = Len(q) + 1
        /\ DOMAIN Append(q, e) = 1 .. Len(q) + 1
        /\ DOMAIN q = 1 .. Len(q)
        /\ Len(q) \in Nat
        /\ \A i \in 1 .. Len(q) : Append(q, e)[i] = q[i]
        /\ Append(q, e)[Len(q) + 1] = e
    OBVIOUS
  <1>3. Range(Append(q, e)) = Range(q) \cup {e}
    BY <1>2 DEF Range
  <1>4. IsInjective(q) /\ e \notin Range(q) => IsInjective(Append(q, e))
    BY <1>2 DEF Range, IsInjective
  <1> QED
    BY <1>1, <1>3, <1>4

(* Taking the head off removes that element only, and keeps a sequence     *)
(* free of repetitions.                                                    *)
LEMMA TailFacts ==
  ASSUME NEW S, NEW q \in Seq(S), q # <<>>
  PROVE  /\ Tail(q) \in Seq(S)
         /\ Head(q) \in S
         /\ Range(q) = Range(Tail(q)) \cup {Head(q)}
         /\ IsInjective(q) => IsInjective(Tail(q)) /\ Head(q) \notin Range(Tail(q))
  <1>1. Tail(q) \in Seq(S) /\ Head(q) \in S
    OBVIOUS
  <1>2. /\ Len(q) \in Nat /\ Len(q) >= 1
        /\ DOMAIN q = 1 .. Len(q)
        /\ DOMAIN Tail(q) = 1 .. Len(q) - 1
        /\ \A i \in 1 .. Len(q) - 1 : Tail(q)[i] = q[i + 1]
        /\ Head(q) = q[1]
    OBVIOUS
  <1>3. Range(q) = Range(Tail(q)) \cup {Head(q)}
    <2>1. ASSUME NEW i \in DOMAIN q
          PROVE  q[i] \in Range(Tail(q)) \cup {Head(q)}
      <3>1. CASE i = 1
        BY <3>1, <1>2
      <3>2. CASE i # 1
        <4>1. i - 1 \in DOMAIN Tail(q) /\ Tail(q)[i - 1] = q[i]
          BY <3>2, <1>2
        <4> QED
          BY <4>1 DEF Range
      <3> QED
        BY <3>1, <3>2
    <2>2. \A i \in DOMAIN Tail(q) : Tail(q)[i] \in Range(q)
      BY <1>2 DEF Range
    <2>3. Head(q) \in Range(q)
      BY <1>2 DEF Range
    <2> QED
      BY <2>1, <2>2, <2>3 DEF Range
  <1>4. IsInjective(q) => IsInjective(Tail(q)) /\ Head(q) \notin Range(Tail(q))
    BY <1>2 DEF Range, IsInjective
  <1> QED
    BY <1>1, <1>3, <1>4

(* Taking the head off leaves nothing exactly when it was alone. *)
LEMMA TailLength ==
  ASSUME NEW S, NEW q \in Seq(S), q # <<>>
  PROVE  Tail(q) = <<>> <=> Len(q) = 1
  <1>1. Len(q) \in Nat \ {0}
    BY EmptySeq
  <1>2. Tail(q) \in Seq(S) /\ Len(Tail(q)) = Len(q) - 1
    BY HeadTailProperties
  <1>3. Len(Tail(q)) = 0 <=> Tail(q) = <<>>
    BY <1>2, EmptySeq
  <1> QED
    BY <1>1, <1>2, <1>3

(* The empty sequence has no elements. *)
LEMMA EmptyFacts == Range(<<>>) = {} /\ IsInjective(<<>>)
  BY DEF Range, IsInjective

(* Cutting a sequence in two loses nothing, and puts no element without    *)
(* repetitions on both sides.                                              *)
LEMMA CutFacts ==
  ASSUME NEW S, NEW q \in Seq(S), NEW n \in 0 .. Len(q)
  PROVE  LET a == SubSeq(q, 1, n)
             b == SubSeq(q, n + 1, Len(q))
         IN  /\ a \in Seq(S) /\ b \in Seq(S)
             /\ Len(a) = n /\ Len(b) = Len(q) - n
             /\ Range(q) = Range(a) \cup Range(b)
             /\ IsInjective(q) => /\ IsInjective(a) /\ IsInjective(b)
                                  /\ Range(a) \cap Range(b) = {}
  <1> DEFINE a == SubSeq(q, 1, n)
             b == SubSeq(q, n + 1, Len(q))
  <1> HIDE DEF a, b
  <1>1. /\ Len(q) \in Nat /\ n \in Nat /\ n <= Len(q)
        /\ DOMAIN q = 1 .. Len(q)
        /\ \A i \in 1 .. Len(q) : q[i] \in S
    OBVIOUS
  <1>2. /\ a \in Seq(S) /\ Len(a) = n /\ DOMAIN a = 1 .. n
        /\ \A i \in 1 .. n : a[i] = q[i]
    BY <1>1, SubSeqProperties DEF a
  <1>3. /\ b \in Seq(S) /\ Len(b) = Len(q) - n /\ DOMAIN b = 1 .. Len(q) - n
        /\ \A i \in 1 .. Len(q) - n : b[i] = q[n + i] /\ n + i \in DOMAIN q
    <2>1. n + 1 \in Int /\ Len(q) \in Int /\ \A i \in n + 1 .. Len(q) : q[i] \in S
      BY <1>1
    <2>2. /\ b \in Seq(S)
          /\ Len(b) = IF n + 1 <= Len(q) THEN Len(q) - (n + 1) + 1 ELSE 0
          /\ \A i \in 1 .. Len(q) - (n + 1) + 1 : b[i] = q[(n + 1) + i - 1]
      BY <2>1, SubSeqProperties DEF b
    <2>0. \A k, l \in Nat : l <= k => (IF l + 1 <= k THEN k - (l + 1) + 1 ELSE 0) = k - l
      OBVIOUS
    <2>3. Len(b) = Len(q) - n
      BY <1>1, <2>0, <2>2, Zenon
    <2>4. DOMAIN b = 1 .. Len(b)
      BY <2>2
    <2>5. ASSUME NEW i \in 1 .. Len(q) - n PROVE b[i] = q[n + i] /\ n + i \in DOMAIN q
      <3>1. /\ i \in 1 .. Len(q) - (n + 1) + 1 /\ (n + 1) + i - 1 = n + i
            /\ n + i \in DOMAIN q
        BY <1>1
      <3>2. b[i] = q[(n + 1) + i - 1]
        BY <2>2, <3>1, Zenon
      <3> QED
        BY <3>1, <3>2, Zenon
    <2> QED
      BY <2>2, <2>3, <2>4, <2>5
  <1>4. Range(q) = Range(a) \cup Range(b)
    <2>1. ASSUME NEW i \in DOMAIN q PROVE q[i] \in Range(a) \cup Range(b)
      <3>1. CASE i <= n
        BY <1>1, <1>2, <3>1 DEF Range
      <3>2. CASE i > n
        <4>1. i - n \in DOMAIN b /\ b[i - n] = q[i]
          BY <1>1, <1>3, <3>2
        <4> QED
          BY <4>1 DEF Range
      <3> QED
        BY <1>1, <3>1, <3>2
    <2>2. \A i \in DOMAIN a : a[i] \in Range(q)
      BY <1>1, <1>2 DEF Range
    <2>3. \A i \in DOMAIN b : b[i] \in Range(q)
      BY <1>1, <1>3 DEF Range
    <2> QED
      BY <2>1, <2>2, <2>3 DEF Range
  <1>5. ASSUME IsInjective(q)
        PROVE  IsInjective(a) /\ IsInjective(b) /\ Range(a) \cap Range(b) = {}
    <2>1. \A i, j \in DOMAIN q : q[i] = q[j] => i = j
      BY <1>5 DEF IsInjective
    <2>2. IsInjective(a)
      BY <1>1, <1>2, <2>1 DEF IsInjective
    <2>3. ASSUME NEW i \in DOMAIN b, NEW j \in DOMAIN b, b[i] = b[j] PROVE i = j
      <3>1. n + i = n + j
        BY <1>3, <2>1, <2>3
      <3> QED
        BY <1>1, <1>3, <3>1
    <2>4. ASSUME NEW i \in DOMAIN a, NEW j \in DOMAIN b PROVE a[i] # b[j]
      <3>1. i # n + j /\ i \in DOMAIN q
        BY <1>1, <1>2, <1>3
      <3> QED
        BY <1>2, <1>3, <2>1, <3>1
    <2>5. IsInjective(b)
      BY <2>3 DEF IsInjective
    <2> QED
      BY <2>2, <2>4, <2>5 DEF Range
  <1> QED
    BY <1>2, <1>3, <1>4, <1>5 DEF a, b

(* A sequence without elements is empty. *)
LEMMA RangeEmpty ==
  ASSUME NEW S, NEW q \in Seq(S)
  PROVE  Range(q) \subseteq S /\ (Range(q) = {} <=> q = <<>>)
  <1>1. DOMAIN q = 1 .. Len(q) /\ Len(q) \in Nat /\ (q = <<>> <=> Len(q) = 0)
    BY EmptySeq
  <1>2. Len(q) # 0 => q[1] \in Range(q)
    BY <1>1 DEF Range
  <1>3. \A i \in DOMAIN q : q[i] \in S
    OBVIOUS
  <1>4. Range(q) \subseteq S
    BY <1>3 DEF Range
  <1> QED
    BY <1>1, <1>2, <1>4, EmptyFacts

(* A sequence without repetitions has as many elements as places. *)
LEMMA RangeCardinality ==
  ASSUME NEW S, NEW q \in Seq(S), IsInjective(q)
  PROVE  IsFiniteSet(Range(q)) /\ Cardinality(Range(q)) = Len(q)
  <1>1. Len(q) \in Nat /\ DOMAIN q = 1 .. Len(q) /\ q = [i \in 1 .. Len(q) |-> q[i]]
    BY LenProperties
  <1>2. q \in Bijection(1 .. Len(q), Range(q))
    <2>1. q \in [1 .. Len(q) -> Range(q)]
      BY <1>1 DEF Range
    <2>2. \A i, j \in 1 .. Len(q) : q[i] = q[j] => i = j
      BY <1>1 DEF IsInjective
    <2>3. \A e \in Range(q) : \E i \in 1 .. Len(q) : q[i] = e
      BY <1>1 DEF Range
    <2> QED
      BY <2>1, <2>2, <2>3 DEF Bijection, Injection, Surjection, IsInjective
  <1>3. IsFiniteSet(1 .. Len(q)) /\ Cardinality(1 .. Len(q)) = Len(q)
    <2>0. 1 \in Int /\ Len(q) \in Int
      BY <1>1
    <2>1. IsFiniteSet(1 .. Len(q))
      BY <2>0, FS_Interval, Zenon
    <2>2. Cardinality(1 .. Len(q)) = IF 1 > Len(q) THEN 0 ELSE Len(q) - 1 + 1
      BY <1>1, FS_Interval
    <2> QED
      BY <1>1, <2>1, <2>2
  <1>4. ExistsBijection(1 .. Len(q), Range(q))
    BY <1>2 DEF ExistsBijection
  <1> QED
    BY <1>3, <1>4, FS_Bijection
=============================================================================
