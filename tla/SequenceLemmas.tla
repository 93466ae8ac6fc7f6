--------------------------- MODULE SequenceLemmas ---------------------------
(***************************************************************************)
(* Facts about natural numbers and sequences that the proofs of several    *)
(* modules share.  The least element of a set of naturals takes the place  *)
(* of induction: a property that fails somewhere fails first at a least    *)
(* number.                                                                 *)
(***************************************************************************)
EXTENDS Integers, Sequences, SequencesExt, SequenceTheorems, WellFoundedInduction, TLAPS

\* A non-empty set of natural numbers has a least element.
LEMMA LeastNatural ==
  ASSUME NEW T \in SUBSET Nat, T # {}
  PROVE  \E x \in T : \A y \in T : x <= y
<1> DEFINE R == {ss \in Nat \X Nat : ss[1] < ss[2]}
<1>1. IsWellFoundedOn(R, Nat)
  BY NatLessThanWellFounded DEF OpToRel
<1> HIDE DEF R
<1>2. PICK x \in T : \A y \in T : ~ (<<y, x>> \in R)
  BY <1>1, WFMin
<1>3. ASSUME NEW y \in T PROVE x <= y
  <2>1. <<y, x>> \notin R
    BY <1>2
  <2>2. ~(y < x)
    BY <2>1 DEF R
  <2> QED BY <2>2
<1> QED BY <1>3

\* Min finds it.
LEMMA MinIsLeast ==
  ASSUME NEW T \in SUBSET Nat, T # {}
  PROVE  Min(T) \in T /\ \A y \in T : Min(T) <= y
BY LeastNatural DEF Min
-----------------------------------------------------------------------------
(* FlattenSeq: what its recursive function computes                        *)

Joins(ss, g, n) == g = [i \in 1 .. n |-> IF i = 1 THEN ss[i] ELSE g[i - 1] \o ss[i]]

\* Flat(ss)[i]: the first i sequences in one.
Flat(ss) == CHOOSE g : Joins(ss, g, Len(ss))

LEMMA FlatExists ==
  ASSUME NEW ss, NEW n \in Nat
  PROVE  \E g : Joins(ss, g, n)
<1> DEFINE T == {k \in Nat : ~ \E g : Joins(ss, g, k)}
<1> SUFFICES ASSUME T # {} PROVE FALSE
  OBVIOUS
<1>1. PICK k \in T : \A l \in T : k <= l
  BY LeastNatural
<1>2. k \in Nat /\ ~ \E g : Joins(ss, g, k)
  OBVIOUS
<1>3. CASE k = 0
  <2> DEFINE g == [i \in 1 .. 0 |-> ss[i]]
  <2>1. g = [i \in 1 .. 0 |-> IF i = 1 THEN ss[i] ELSE g[i - 1] \o ss[i]]
    OBVIOUS
  <2> QED BY <1>2, <1>3, <2>1 DEF Joins
<1>4. CASE k # 0
  <2>1. k - 1 \in Nat /\ ~(k <= k - 1)
    BY <1>2, <1>4
  <2>2. k - 1 \notin T
    BY <1>1, <2>1
  <2> HIDE DEF T
  <2>3. PICK f : Joins(ss, f, k - 1)
    BY <2>1, <2>2 DEF T
  <2> DEFINE e(i) == IF i = 1 THEN ss[i] ELSE f[i - 1] \o ss[i]
             g == [i \in 1 .. k |-> e(i)]
  <2>4. \A i \in 1 .. k - 1 : f[i] = e(i)
    BY <2>3 DEF Joins
  <2>5. ASSUME NEW i \in 1 .. k PROVE e(i) = IF i = 1 THEN ss[i] ELSE g[i - 1] \o ss[i]
    <3>1. CASE i # 1
      <4>1. i - 1 \in 1 .. k - 1 /\ i - 1 \in 1 .. k
        BY <1>2, <3>1
      <4>2. g[i - 1] = f[i - 1]
        BY <2>4, <4>1
      <4> QED BY <3>1, <4>2
    <3> QED BY <3>1
  <2> HIDE DEF e
  <2>6. g = [i \in 1 .. k |-> IF i = 1 THEN ss[i] ELSE g[i - 1] \o ss[i]]
    BY <2>5
  <2> QED BY <1>2, <2>6 DEF Joins
<1> QED BY <1>3, <1>4

\* The equations of the recursive definition hold, and FlattenSeq is the last value.
LEMMA FlatIs ==
  ASSUME NEW ss, Len(ss) \in Nat
  PROVE  /\ \A i \in 1 .. Len(ss) :
              Flat(ss)[i] = IF i = 1 THEN ss[i] ELSE Flat(ss)[i - 1] \o ss[i]
         /\ FlattenSeq(ss) = IF Len(ss) = 0 THEN ss ELSE Flat(ss)[Len(ss)]
<1> DEFINE n == Len(ss)
           g == Flat(ss)
<1>1. Joins(ss, g, n)
  BY FlatExists DEF Flat
<1>2. g = [i \in 1 .. n |-> IF i = 1 THEN ss[i] ELSE g[i - 1] \o ss[i]]
  BY <1>1 DEF Joins
<1>3. FlattenSeq(ss) = IF Len(ss) = 0 THEN ss ELSE Flat(ss)[Len(ss)]
  BY DEF FlattenSeq, Flat, Joins
<1> HIDE DEF g, n
<1>4. \A i \in 1 .. n : g[i] = IF i = 1 THEN ss[i] ELSE g[i - 1] \o ss[i]
  BY <1>2
<1> QED BY <1>3, <1>4 DEF g, n

\* Sequences over S in one are a sequence over S.
LEMMA FlatType ==
  ASSUME NEW S, NEW ss \in Seq(Seq(S))
  PROVE  /\ \A i \in 1 .. Len(ss) : Flat(ss)[i] \in Seq(S)
         /\ FlattenSeq(ss) \in Seq(S)
<1> DEFINE n == Len(ss)
           T == {i \in Nat : i \in 1 .. n /\ Flat(ss)[i] \notin Seq(S)}
<1>1. n \in Nat /\ \A i \in 1 .. n : ss[i] \in Seq(S)
  OBVIOUS
<1>2. \A i \in 1 .. n : Flat(ss)[i] = IF i = 1 THEN ss[i] ELSE Flat(ss)[i - 1] \o ss[i]
  BY <1>1, FlatIs
<1>3. ASSUME T # {} PROVE FALSE
  <2>1. PICK k \in T : \A l \in T : k <= l
    BY <1>3, LeastNatural
  <2>2. k \in 1 .. n /\ Flat(ss)[k] \notin Seq(S)
    OBVIOUS
  <2>3. CASE k = 1
    BY <1>1, <1>2, <2>2, <2>3
  <2>4. CASE k # 1
    <3>1. k - 1 \in 1 .. n /\ k - 1 \in Nat /\ ~(k <= k - 1)
      BY <1>1, <2>2, <2>4
    <3>2. Flat(ss)[k - 1] \in Seq(S)
      BY <2>1, <3>1
    <3>3. Flat(ss)[k] = Flat(ss)[k - 1] \o ss[k] /\ ss[k] \in Seq(S)
      BY <1>1, <1>2, <2>2, <2>4
    <3> QED BY <2>2, <3>2, <3>3
  <2> QED BY <2>3, <2>4
<1>4. ASSUME NEW i \in 1 .. n PROVE Flat(ss)[i] \in Seq(S)
  <2>1. i \in Nat
    BY <1>1
  <2>2. i \notin T
    BY <1>3
  <2> QED BY <2>1, <2>2
<1>5. FlattenSeq(ss) \in Seq(S)
  <2>1. FlattenSeq(ss) = IF n = 0 THEN ss ELSE Flat(ss)[n]
    BY <1>1, FlatIs
  <2>2. CASE n = 0
    <3>1. ss = << >>
      BY <2>2
    <3> QED BY <2>1, <2>2, <3>1
  <2>3. CASE n # 0
    <3>1. n \in 1 .. n
      BY <1>1, <2>3
    <3> QED BY <1>4, <2>1, <2>3, <3>1
  <2> QED BY <2>2, <2>3
<1> QED BY <1>4, <1>5

\* If all but one are empty, that one is what comes out.
LEMMA FlatOne ==
  ASSUME NEW S, NEW ss \in Seq(Seq(S)), NEW k \in 1 .. Len(ss),
         \A i \in 1 .. Len(ss) : i # k => ss[i] = << >>
  PROVE  FlattenSeq(ss) = ss[k]
<1> DEFINE n == Len(ss)
           value(i) == IF i < k THEN << >> ELSE ss[k]
           T == {i \in Nat : i \in 1 .. n /\ Flat(ss)[i] # value(i)}
<1>1. n \in Nat /\ k \in 1 .. n /\ ss[k] \in Seq(S)
  OBVIOUS
<1>2. \A i \in 1 .. n : Flat(ss)[i] = IF i = 1 THEN ss[i] ELSE Flat(ss)[i - 1] \o ss[i]
  BY <1>1, FlatIs
<1>3. ss[k] \o << >> = ss[k] /\ << >> \o ss[k] = ss[k] /\ << >> \o << >> = << >>
  BY <1>1
<1>4. ASSUME T # {} PROVE FALSE
  <2>1. PICK i \in T : \A l \in T : i <= l
    BY <1>4, LeastNatural
  <2>2. i \in 1 .. n /\ Flat(ss)[i] # value(i)
    OBVIOUS
  <2>3. CASE i = 1
    BY <1>1, <1>2, <2>2, <2>3
  <2>4. CASE i # 1
    <3>1. i - 1 \in 1 .. n /\ i - 1 \in Nat /\ ~(i <= i - 1)
      BY <1>1, <2>2, <2>4
    <3>2. Flat(ss)[i - 1] = value(i - 1)
      BY <2>1, <3>1
    <3>3. Flat(ss)[i] = value(i - 1) \o ss[i]
      BY <1>2, <2>2, <2>4, <3>2
    <3>4. CASE i = k
      <4>1. value(i - 1) = << >> /\ value(i) = ss[k]
        BY <1>1, <3>4
      <4>2. Flat(ss)[i] = << >> \o ss[k]
        BY <3>3, <3>4, <4>1
      <4> QED BY <1>3, <2>2, <4>1, <4>2
    <3>5. CASE i < k
      BY <1>1, <1>3, <2>2, <3>1, <3>3, <3>5
    <3>6. CASE i > k
      <4>1. value(i - 1) = ss[k] /\ value(i) = ss[k] /\ ss[i] = << >>
        BY <1>1, <2>2, <3>6
      <4>2. Flat(ss)[i] = ss[k] \o << >>
        BY <3>3, <4>1
      <4> QED BY <1>3, <2>2, <4>1, <4>2
    <3> QED BY <1>1, <2>2, <3>4, <3>5, <3>6
  <2> QED BY <2>3, <2>4
<1>5. Flat(ss)[n] = ss[k] /\ n # 0
  <2>1. n \in 1 .. n /\ n \notin T /\ ~(n < k)
    BY <1>1, <1>4
  <2> QED BY <1>1, <2>1
<1> QED BY <1>1, <1>5, FlatIs
-----------------------------------------------------------------------------
(* Functions that are sequences                                            *)

\* A function on 1 .. n is a sequence over its range, of length n.
LEMMA IsSequence ==
  ASSUME NEW f, NEW n \in Nat, f = [i \in 1 .. n |-> f[i]]
  PROVE  f \in Seq(Range(f)) /\ Len(f) = n /\ DOMAIN f = 1 .. n
<1>1. DOMAIN f = 1 .. n
  OBVIOUS
<1>2. \A i \in 1 .. n : f[i] \in Range(f)
  BY <1>1 DEF Range
<1>3. f \in [1 .. n -> Range(f)]
  BY <1>2
<1> QED BY <1>1, <1>3

\* Sequences of sequences have a set of elements.
LEMMA IsNested ==
  ASSUME NEW f, NEW n \in Nat, f = [i \in 1 .. n |-> f[i]],
         NEW S, \A i \in 1 .. n : f[i] \in Seq(Range(f[i])) /\ Range(f[i]) \subseteq S
  PROVE  f \in Seq(Seq(S)) /\ Len(f) = n
<1>1. \A i \in 1 .. n : f[i] \in Seq(S)
  BY SeqMonotonic
<1>2. f \in [1 .. n -> Seq(S)]
  BY <1>1
<1> QED BY <1>2

\* What is in a concatenation was in one of the two.
LEMMA ConcatHas ==
  ASSUME NEW a, a \in Seq(Range(a)), NEW b, b \in Seq(Range(b))
  PROVE  /\ a \o b \in Seq(Range(a \o b))
         /\ \A i \in DOMAIN (a \o b) : \/ \E j \in DOMAIN a : (a \o b)[i] = a[j]
                                       \/ \E j \in DOMAIN b : (a \o b)[i] = b[j]
<1> DEFINE S == Range(a) \cup Range(b)
           c == a \o b
<1>1. a \in Seq(S) /\ b \in Seq(S)
  BY SeqMonotonic
<1> HIDE DEF S
<1>2. /\ c \in Seq(S) /\ Len(c) = Len(a) + Len(b)
      /\ \A i \in 1 .. Len(a) + Len(b) : c[i] = IF i <= Len(a) THEN a[i] ELSE b[i - Len(a)]
  BY <1>1, ConcatProperties
<1>3. Len(a) \in Nat /\ Len(b) \in Nat /\ DOMAIN a = 1 .. Len(a) /\ DOMAIN b = 1 .. Len(b)
      /\ DOMAIN c = 1 .. Len(c) /\ c = [i \in 1 .. Len(c) |-> c[i]] /\ Len(c) \in Nat
  <2>1. Len(c) \in Nat /\ c \in [1 .. Len(c) -> S]
    BY <1>2, LenProperties
  <2>2. c = [i \in 1 .. Len(c) |-> c[i]] /\ DOMAIN c = 1 .. Len(c)
    BY <2>1
  <2> QED BY <1>1, <2>1, <2>2, LenProperties
<1> HIDE DEF c
<1>4. c \in Seq(Range(c))
  BY <1>3, IsSequence
<1>5. ASSUME NEW i \in DOMAIN c
      PROVE  (\E j \in DOMAIN a : c[i] = a[j]) \/ (\E j \in DOMAIN b : c[i] = b[j])
  <2>1. CASE i <= Len(a)
    BY <1>2, <1>3, <2>1
  <2>2. CASE ~(i <= Len(a))
    <3>1. i - Len(a) \in DOMAIN b /\ c[i] = b[i - Len(a)]
      BY <1>2, <1>3, <2>2
    <3> QED BY <3>1
  <2> QED BY <2>1, <2>2
<1> QED BY <1>4, <1>5 DEF c
=============================================================================
