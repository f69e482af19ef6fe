---------------------------- MODULE FlattenLemmas ----------------------------
(***************************************************************************)
(* Lemmas about FlattenSeq, for the proofs about WAL segments and parts.   *)
(* They need induction over the natural numbers, which is used in the form *)
(* that every set of numbers has a least one.                              *)
(***************************************************************************)
EXTENDS Integers, SequencesExt, SequenceTheorems, WellFoundedInduction, TLAPS

\* A set of numbers has a least one.
LEMMA LeastNumber ==
  ASSUME NEW T \in SUBSET Nat, T # {}
  PROVE  \E n \in T : \A m \in T : n <= m
  <1> DEFINE R == OpToRel(<, Nat)
  <1>1. IsWellFoundedOn(R, Nat)
    BY NatLessThanWellFounded, Zenon
  <1>2. \A m, n \in Nat : m < n => <<m, n>> \in R
    BY DEF OpToRel
  <1> HIDE DEF R
  <1>3. PICK n \in T : \A m \in T : <<m, n>> \notin R
    BY <1>1, WFMin
  <1>4. \A m \in T : ~(m < n)
    BY <1>2, <1>3
  <1> QED  BY <1>4

\* Induction: a set that holds 0 and with each number the next holds them all.
LEMMA NumbersOf ==
  ASSUME NEW T \in SUBSET Nat, 0 \in T, \A n \in Nat : n \in T => n + 1 \in T
  PROVE  T = Nat
  <1> SUFFICES ASSUME Nat \ T # {} PROVE FALSE
    OBVIOUS
  <1>1. PICK n \in Nat \ T : \A m \in Nat \ T : n <= m
    BY LeastNumber
  <1>2. n # 0 /\ n - 1 \in Nat /\ n = (n - 1) + 1
    BY <1>1
  <1>3. n - 1 \in T
    BY <1>1, <1>2
  <1> QED  BY <1>1, <1>2, <1>3

-----------------------------------------------------------------------------
(* What FlattenSeq computes.                                               *)

\* f adds the sequences up one after the other.
AddsUp(f, ss) ==
  /\ f[0] = <<>>
  /\ \A i \in 1 .. Len(ss) : f[i] = f[i - 1] \o ss[i]

LEMMA AddsUpTyped ==
  ASSUME NEW S, NEW ss \in Seq(Seq(S)), NEW f, AddsUp(f, ss)
  PROVE  \A i \in 0 .. Len(ss) : f[i] \in Seq(S)
  <1> DEFINE T == {i \in Nat : i <= Len(ss) => f[i] \in Seq(S)}
  <1>0. Len(ss) \in Nat /\ <<>> \in Seq(S)
    OBVIOUS
  <1>1. 0 \in T
    <2>1. f[0] \in Seq(S)
      BY <1>0 DEF AddsUp
    <2> QED  BY <2>1
  <1>2. ASSUME NEW i \in Nat, i \in T PROVE i + 1 \in T
    <2> SUFFICES ASSUME i + 1 <= Len(ss) PROVE f[i + 1] \in Seq(S)
      BY <1>0
    <2>1. i + 1 \in 1 .. Len(ss) /\ (i + 1) - 1 = i /\ i <= Len(ss)
      BY <1>0
    <2>2. f[i + 1] = f[i] \o ss[i + 1]
      BY <2>1 DEF AddsUp
    <2>3. f[i] \in Seq(S) /\ ss[i + 1] \in Seq(S)
      BY <1>2, <2>1
    <2>4. \A s, t \in Seq(S) : s \o t \in Seq(S)
      OBVIOUS
    <2> QED  BY <2>2, <2>3, <2>4
  <1> HIDE DEF T
  <1>3. T = Nat
    BY <1>1, <1>2, NumbersOf DEF T
  <1> QED  BY <1>0, <1>3 DEF T

\* Two ways of adding them up agree.
LEMMA AddsUpOnce ==
  ASSUME NEW S, NEW ss \in Seq(Seq(S)), NEW f, NEW g, AddsUp(f, ss), AddsUp(g, ss)
  PROVE  \A i \in 0 .. Len(ss) : f[i] = g[i]
  <1> DEFINE T == {i \in Nat : i <= Len(ss) => f[i] = g[i]}
  <1>0. Len(ss) \in Nat
    OBVIOUS
  <1>1. 0 \in T
    BY DEF AddsUp
  <1>2. ASSUME NEW i \in Nat, i \in T PROVE i + 1 \in T
    <2> SUFFICES ASSUME i + 1 <= Len(ss) PROVE f[i + 1] = g[i + 1]
      BY <1>0
    <2>1. i + 1 \in 1 .. Len(ss) /\ (i + 1) - 1 = i /\ i <= Len(ss)
      BY <1>0
    <2>2. f[i + 1] = f[i] \o ss[i + 1] /\ g[i + 1] = g[i] \o ss[i + 1]
      BY <2>1 DEF AddsUp
    <2>3. f[i] = g[i]
      BY <1>2, <2>1
    <2> QED  BY <2>2, <2>3
  <1> HIDE DEF T
  <1>3. T = Nat
    BY <1>1, <1>2, NumbersOf DEF T
  <1> QED  BY <1>0, <1>3 DEF T

\* They can be added up.
LEMMA AddsUpExists ==
  ASSUME NEW S, NEW ss \in Seq(Seq(S))
  PROVE  \E f : AddsUp(f, ss)
  <1> DEFINE Sums(n) == {f \in [0 .. n -> Seq(S)] :
                           /\ f[0] = <<>>
                           /\ \A i \in 1 .. n : f[i] = f[i - 1] \o ss[i]}
             T == {n \in Nat : n <= Len(ss) => Sums(n) # {}}
  <1> HIDE DEF Sums
  <1>0. Len(ss) \in Nat /\ <<>> \in Seq(S)
    OBVIOUS
  <1>1. 0 \in T
    <2> DEFINE z == [i \in 0 .. 0 |-> <<>>]
    <2>1. z \in [0 .. 0 -> Seq(S)] /\ z[0] = <<>>
      BY <1>0
    <2>2. z \in Sums(0)
      <3> HIDE DEF z
      <3> QED  BY <2>1 DEF Sums
    <2> QED  BY <2>2
  <1>2. ASSUME NEW n \in Nat, n \in T PROVE n + 1 \in T
    <2> SUFFICES ASSUME n + 1 <= Len(ss) PROVE Sums(n + 1) # {}
      BY <1>0
    <2>1. n + 1 \in 1 .. Len(ss) /\ n <= Len(ss)
      BY <1>0
    <2>2. PICK f \in [0 .. n -> Seq(S)] : f[0] = <<>> /\ \A i \in 1 .. n : f[i] = f[i - 1] \o ss[i]
      <3>1. PICK f : f \in Sums(n)
        BY <1>2, <2>1
      <3> QED  BY <3>1 DEF Sums
    <2> DEFINE g == [i \in 0 .. n + 1 |-> IF i = n + 1 THEN f[n] \o ss[n + 1] ELSE f[i]]
    <2>3. f[n] \o ss[n + 1] \in Seq(S)
      <3>1. f[n] \in Seq(S) /\ ss[n + 1] \in Seq(S)
        BY <2>1, <2>2
      <3>2. \A s, t \in Seq(S) : s \o t \in Seq(S)
        OBVIOUS
      <3> QED  BY <3>1, <3>2
    <2>4. g \in [0 .. n + 1 -> Seq(S)]
      BY <2>2, <2>3
    <2>5. g[0] = <<>>
      BY <2>2
    <2>6. ASSUME NEW i \in 1 .. n + 1 PROVE g[i] = g[i - 1] \o ss[i]
      <3>1. i - 1 \in 0 .. n + 1 /\ i - 1 # n + 1 /\ i \in 0 .. n + 1
        OBVIOUS
      <3>2. g[i - 1] = f[i - 1]
        BY <3>1
      <3>3. CASE i = n + 1
        <4>1. i - 1 = n /\ g[i] = f[n] \o ss[n + 1]
          BY <3>1, <3>3
        <4> HIDE DEF g
        <4> QED  BY <3>2, <3>3, <4>1
      <3>4. CASE i # n + 1
        <4>1. i \in 1 .. n /\ g[i] = f[i]
          BY <3>1, <3>4
        <4> HIDE DEF g
        <4> QED  BY <2>2, <3>2, <4>1
      <3> QED  BY <3>3, <3>4
    <2>7. g \in Sums(n + 1)
      <3> HIDE DEF g
      <3> QED  BY <2>4, <2>5, <2>6 DEF Sums
    <2> QED  BY <2>7
  <1>3. T = Nat
    <2> HIDE DEF T
    <2>1. T \in SUBSET Nat
      BY DEF T
    <2> QED  BY <1>1, <1>2, <2>1, NumbersOf
  <1>4. Len(ss) \in T
    BY <1>0, <1>3
  <1>5. PICK f : f \in Sums(Len(ss))
    BY <1>0, <1>4
  <1> QED  BY <1>5 DEF AddsUp, Sums

\* FlattenSeq is the last sum.
LEMMA FlattenAddsUp ==
  ASSUME NEW S, NEW ss \in Seq(Seq(S)), NEW f, AddsUp(f, ss)
  PROVE  FlattenSeq(ss) = f[Len(ss)]
  <1> DEFINE n == Len(ss)
             h == [i \in 1 .. n |-> f[i]]
             c == CHOOSE g : g = [i \in 1 .. n |-> IF i = 1 THEN ss[i] ELSE g[i - 1] \o ss[i]]
  <1>0. n \in Nat /\ \A s \in Seq(S) : <<>> \o s = s
    OBVIOUS
  <1>1. CASE n = 0
    <2>1. ss = <<>>
      BY <1>1
    <2> QED  BY <1>1, <2>1 DEF FlattenSeq, AddsUp
  <1>2. CASE n # 0
    <2>1. h = [i \in 1 .. n |-> IF i = 1 THEN ss[i] ELSE h[i - 1] \o ss[i]]
      <3>1. ASSUME NEW i \in 1 .. n PROVE f[i] = IF i = 1 THEN ss[i] ELSE h[i - 1] \o ss[i]
        <4>1. f[i] = f[i - 1] \o ss[i]
          BY DEF AddsUp
        <4>2. CASE i = 1
          <5>1. f[i - 1] = <<>> /\ ss[i] \in Seq(S)
            BY <4>2 DEF AddsUp
          <5> QED  BY <1>0, <4>1, <4>2, <5>1
        <4>3. CASE i # 1
          <5>1. i - 1 \in 1 .. n
            BY <1>0, <4>3
          <5> QED  BY <4>1, <4>3, <5>1
        <4> QED  BY <4>2, <4>3
      <3> DEFINE k == [i \in 1 .. n |-> IF i = 1 THEN ss[i] ELSE h[i - 1] \o ss[i]]
      <3>2. \A i \in 1 .. n : h[i] = k[i]
        BY <3>1
      <3> QED  BY <3>2
    <2> HIDE DEF h
    <2>2. c = [i \in 1 .. n |-> IF i = 1 THEN ss[i] ELSE c[i - 1] \o ss[i]]
      BY <2>1, Zenon
    <2>3. FlattenSeq(ss) = c[n]
      BY <1>2, Zenon DEF FlattenSeq
    <2> DEFINE e == [i \in 0 .. n |-> IF i = 0 THEN <<>> ELSE c[i]]
    <2>4. AddsUp(e, ss)
      <3> HIDE DEF c
      <3>1. ASSUME NEW i \in 1 .. n PROVE e[i] = e[i - 1] \o ss[i]
        <4>1. c[i] = IF i = 1 THEN ss[i] ELSE c[i - 1] \o ss[i]
          BY <2>2
        <4>2. CASE i = 1
          <5>1. e[i - 1] = <<>> /\ ss[i] \in Seq(S) /\ e[i] = c[i]
            BY <1>0, <4>2
          <5> HIDE DEF e
          <5> QED  BY <1>0, <4>1, <4>2, <5>1
        <4>3. CASE i # 1
          <5>1. i - 1 \in 1 .. n /\ e[i - 1] = c[i - 1] /\ e[i] = c[i]
            BY <1>0, <4>3
          <5> HIDE DEF e
          <5> QED  BY <4>1, <4>3, <5>1
        <4> QED  BY <4>2, <4>3
      <3>2. e[0] = <<>>
        BY <1>0
      <3> HIDE DEF e
      <3> QED  BY <3>1, <3>2 DEF AddsUp
    <2>5. e[n] = c[n]
      BY <1>0, <1>2
    <2> HIDE DEF e, c
    <2>6. e[n] = f[n]
      BY <1>0, <2>4, AddsUpOnce
    <2> QED  BY <2>3, <2>5, <2>6
  <1> QED  BY <1>1, <1>2

-----------------------------------------------------------------------------
(* What follows for the segments of a log.                                 *)

LEMMA FlattenTyped ==
  ASSUME NEW S, NEW ss \in Seq(Seq(S))
  PROVE  FlattenSeq(ss) \in Seq(S)
  <1>1. PICK f : AddsUp(f, ss)
    BY AddsUpExists
  <1>2. Len(ss) \in Nat /\ Len(ss) \in 0 .. Len(ss)
    OBVIOUS
  <1> QED  BY <1>1, <1>2, AddsUpTyped, FlattenAddsUp

LEMMA FlattenNothing == FlattenSeq(<<>>) = <<>>
  BY DEF FlattenSeq

\* A sequence has a last element.
LEMMA LastApart ==
  ASSUME NEW S, NEW s \in Seq(S), Len(s) # 0
  PROVE  /\ SubSeq(s, 1, Len(s) - 1) \in Seq(S) /\ s[Len(s)] \in S
         /\ Len(SubSeq(s, 1, Len(s) - 1)) = Len(s) - 1
         /\ s = Append(SubSeq(s, 1, Len(s) - 1), s[Len(s)])
  <1> DEFINE n == Len(s)
             t == SubSeq(s, 1, n - 1)
  <1>1. n \in Nat \ {0} /\ \A i \in 1 .. n : s[i] \in S
    OBVIOUS
  <1>2. t \in Seq(S) /\ Len(t) = n - 1 /\ \A i \in 1 .. n - 1 : t[i] = s[i]
    <2>1. n - 1 \in Int /\ 1 \in Int /\ \A i \in 1 .. n - 1 : s[i] \in S
      BY <1>1
    <2>2. /\ t \in Seq(S) /\ Len(t) = IF 1 <= n - 1 THEN (n - 1) - 1 + 1 ELSE 0
          /\ \A i \in 1 .. (n - 1) - 1 + 1 : t[i] = s[1 + i - 1]
      BY <2>1, SubSeqProperties
    <2>3. \A k \in Nat \ {0} :
            /\ (IF 1 <= k - 1 THEN (k - 1) - 1 + 1 ELSE 0) = k - 1
            /\ (k - 1) - 1 + 1 = k - 1
            /\ \A i \in 1 .. k - 1 : 1 + i - 1 = i
      OBVIOUS
    <2> HIDE DEF t, n
    <2>4. /\ (IF 1 <= n - 1 THEN (n - 1) - 1 + 1 ELSE 0) = n - 1
          /\ (n - 1) - 1 + 1 = n - 1
          /\ \A i \in 1 .. n - 1 : 1 + i - 1 = i
      BY <1>1, <2>3
    <2> QED  BY <2>2, <2>4
  <1> HIDE DEF t
  <1>3. /\ Append(t, s[n]) \in Seq(S) /\ Len(Append(t, s[n])) = n
        /\ \A i \in 1 .. n : Append(t, s[n])[i] = s[i]
    BY <1>1, <1>2
  <1>4. Append(t, s[n]) = s
    BY <1>3, SeqEqual
  <1> QED  BY <1>1, <1>2, <1>4 DEF t

\* One sequence more is put at the end.
LEMMA FlattenAppend ==
  ASSUME NEW S, NEW ss \in Seq(Seq(S)), NEW s \in Seq(S)
  PROVE  FlattenSeq(Append(ss, s)) = FlattenSeq(ss) \o s
  <1> DEFINE tt == Append(ss, s)
             n == Len(ss)
  <1>1. /\ tt \in Seq(Seq(S)) /\ Len(tt) = n + 1 /\ n \in Nat
        /\ \A i \in 1 .. n : tt[i] = ss[i]
        /\ tt[n + 1] = s
    OBVIOUS
  <1> HIDE DEF tt
  <1>2. PICK f : AddsUp(f, tt)
    BY <1>1, AddsUpExists
  <1>3. AddsUp(f, ss)
    <2>1. \A i \in 1 .. n : i \in 1 .. n + 1
      BY <1>1
    <2> QED  BY <1>1, <1>2, <2>1 DEF AddsUp
  <1>4. FlattenSeq(tt) = f[n + 1] /\ FlattenSeq(ss) = f[n]
    BY <1>1, <1>2, <1>3, FlattenAddsUp
  <1>5. f[n + 1] = f[n] \o s
    <2>1. n + 1 \in 1 .. n + 1 /\ (n + 1) - 1 = n
      BY <1>1
    <2> QED  BY <1>1, <1>2, <2>1 DEF AddsUp
  <1> QED  BY <1>4, <1>5 DEF tt

LEMMA FlattenConcat ==
  ASSUME NEW S, NEW ss \in Seq(Seq(S)), NEW tt \in Seq(Seq(S))
  PROVE  FlattenSeq(ss \o tt) = FlattenSeq(ss) \o FlattenSeq(tt)
  <1> DEFINE Splits(uu) == FlattenSeq(ss \o uu) = FlattenSeq(ss) \o FlattenSeq(uu)
             T == {n \in Nat : \A uu \in Seq(Seq(S)) : Len(uu) = n => Splits(uu)}
  <1> HIDE DEF Splits
  <1>1. 0 \in T
    <2> SUFFICES ASSUME NEW uu \in Seq(Seq(S)), Len(uu) = 0 PROVE Splits(uu)
      OBVIOUS
    <2>1. uu = <<>> /\ ss \o uu = ss
      BY ConcatEmptySeq
    <2>2. FlattenSeq(ss) \o <<>> = FlattenSeq(ss)
      BY FlattenTyped, ConcatEmptySeq
    <2> QED  BY <2>1, <2>2, FlattenNothing DEF Splits
  <1>2. ASSUME NEW n \in Nat, n \in T PROVE n + 1 \in T
    <2> SUFFICES ASSUME NEW uu \in Seq(Seq(S)), Len(uu) = n + 1 PROVE Splits(uu)
      OBVIOUS
    <2> DEFINE vv == SubSeq(uu, 1, n)
               u == uu[n + 1]
    <2>1. /\ vv \in Seq(Seq(S)) /\ Len(vv) = n /\ u \in Seq(S)
          /\ uu = Append(vv, u)
      <3>1. n + 1 # 0 /\ (n + 1) - 1 = n
        OBVIOUS
      <3> QED  BY <3>1, LastApart
    <2> HIDE DEF vv, u
    <2>2. Splits(vv)
      BY <1>2, <2>1
    <2>3. ss \o uu = Append(ss \o vv, u) /\ ss \o vv \in Seq(Seq(S))
      BY <2>1
    <2>4. FlattenSeq(ss \o uu) = FlattenSeq(ss \o vv) \o u
      BY <2>1, <2>3, FlattenAppend
    <2>5. FlattenSeq(uu) = FlattenSeq(vv) \o u
      BY <2>1, FlattenAppend
    <2>6. (FlattenSeq(ss) \o FlattenSeq(vv)) \o u = FlattenSeq(ss) \o (FlattenSeq(vv) \o u)
      <3> DEFINE a == FlattenSeq(ss)
                 c == FlattenSeq(vv)
      <3>1. a \in Seq(S) /\ c \in Seq(S) /\ u \in Seq(S)
        BY <2>1, FlattenTyped
      <3> HIDE DEF a, c
      <3>2. (a \o c) \o u = a \o (c \o u)
        BY <3>1, ConcatAssociative
      <3> QED  BY <3>2 DEF a, c
    <2> QED  BY <2>2, <2>4, <2>5, <2>6 DEF Splits
  <1> HIDE DEF T
  <1>3. T = Nat
    <2>1. T \in SUBSET Nat
      BY DEF T
    <2> QED  BY <1>1, <1>2, <2>1, NumbersOf
  <1>4. Len(tt) \in T
    BY <1>3
  <1> QED  BY <1>4 DEF T, Splits

\* A function on 1 .. n is a sequence.
LEMMA FunctionIsSeq ==
  ASSUME NEW S, NEW n \in Nat, NEW f \in [1 .. n -> S]
  PROVE  f \in Seq(S) /\ Len(f) = n
  <1>1. f \in UNION {[1 .. m -> S] : m \in Nat}
    OBVIOUS
  <1>2. f \in Seq(S)
    BY <1>1, SeqDef
  <1>3. DOMAIN f = 1 .. Len(f) /\ DOMAIN f = 1 .. n /\ Len(f) \in Nat
    BY <1>2, LenProperties
  <1>4. \A m, k \in Nat : 1 .. m = 1 .. k => m = k
    <2> SUFFICES ASSUME NEW m \in Nat, NEW k \in Nat, 1 .. m = 1 .. k, m # k PROVE FALSE
      OBVIOUS
    <2>1. CASE m < k
      BY <2>1, k \in 1 .. k, k \notin 1 .. m
    <2>2. CASE k < m
      BY <2>2, m \in 1 .. m, m \notin 1 .. k
    <2> QED  BY <2>1, <2>2
  <1> QED  BY <1>2, <1>3, <1>4

\* One more sequence, of those that a function gives.
LEMMA FlattenNext ==
  ASSUME NEW S, NEW n \in Nat, NEW f \in [1 .. n + 1 -> Seq(S)], NEW g \in [1 .. n -> Seq(S)],
         \A i \in 1 .. n : f[i] = g[i]
  PROVE  /\ FlattenSeq(f) = FlattenSeq(g) \o f[n + 1]
         /\ FlattenSeq(g) \in Seq(S) /\ f[n + 1] \in Seq(S)
  <1>1. f \in Seq(Seq(S)) /\ Len(f) = n + 1 /\ g \in Seq(Seq(S)) /\ Len(g) = n
    BY FunctionIsSeq
  <1>2. f[n + 1] \in Seq(S)
    OBVIOUS
  <1>3. /\ Append(g, f[n + 1]) \in Seq(Seq(S)) /\ Len(Append(g, f[n + 1])) = n + 1
        /\ \A i \in 1 .. n + 1 : Append(g, f[n + 1])[i] = f[i]
    BY <1>1, <1>2
  <1>4. Append(g, f[n + 1]) = f
    BY <1>1, <1>3, SeqEqual
  <1> QED  BY <1>1, <1>2, <1>4, FlattenAppend, FlattenTyped
=============================================================================
