------------------------ MODULE ParquetConvert_proofs ------------------------
(***************************************************************************)
(* Theorems about ParquetConvert.  What a run has read is a prefix of the  *)
(* WAL, and what it has written of it and holds in its buffers is, bucket  *)
(* by bucket, what it has sorted; so each part of each run is a piece of   *)
(* the bucket's rows that begins at its number of row groups.              *)
(***************************************************************************)
EXTENDS ParquetConvert, FlattenLemmas, FiniteSetTheorems, TLAPS

Row == [id : Nat, bucket : Buckets]
Part == [rows : Seq(Row), whole : BOOLEAN]

-----------------------------------------------------------------------------
(* Sequences and their prefixes.                                           *)

LEMMA SplitAt ==
  ASSUME NEW S, NEW s \in Seq(S), NEW i \in 0 .. Len(s)
  PROVE  /\ SubSeq(s, 1, i) \in Seq(S) /\ Len(SubSeq(s, 1, i)) = i
         /\ SubSeq(s, i + 1, Len(s)) \in Seq(S)
         /\ SubSeq(s, 1, i) \o SubSeq(s, i + 1, Len(s)) = s
  <1> DEFINE n == Len(s)
  <1>1. n \in Nat /\ i \in Int /\ \A k \in 1 .. n : s[k] \in S
    OBVIOUS
  <1>2. SubSeq(s, 1, i) \in Seq(S) /\ Len(SubSeq(s, 1, i)) = i
    <2>1. \A k \in 1 .. i : s[k] \in S
      BY <1>1
    <2>2. Len(SubSeq(s, 1, i)) = IF 1 <= i THEN i - 1 + 1 ELSE 0
      BY <1>1, <2>1, SubSeqProperties
    <2>3. (IF 1 <= i THEN i - 1 + 1 ELSE 0) = i
      BY <1>1
    <2> QED  BY <1>1, <2>1, <2>2, <2>3, SubSeqProperties
  <1>3. SubSeq(s, i + 1, n) \in Seq(S)
    <2>1. i + 1 \in Int /\ n \in Int /\ \A k \in i + 1 .. n : s[k] \in S
      BY <1>1
    <2> HIDE DEF n
    <2> QED  BY <2>1, SubSeqProperties
  <1>4. SubSeq(s, 1, i) \o SubSeq(s, i + 1, n) = SubSeq(s, 1, n)
    <2>1. 1 \in 1 .. Len(s) + 1 /\ i \in 1 - 1 .. Len(s) /\ n \in i .. Len(s)
      BY <1>1
    <2> QED  BY <2>1, ConcatAdjacentSubSeq
  <1> QED  BY <1>2, <1>3, <1>4, SubSeqFull

LEMMA FirstOfConcat ==
  ASSUME NEW S, NEW s \in Seq(S), NEW t \in Seq(S), NEW n \in 0 .. Len(s)
  PROVE  SubSeq(s \o t, 1, n) = SubSeq(s, 1, n)
  <1>1. CASE n = 0
    BY <1>1, SubSeqEmpty
  <1>2. CASE n # 0
    <2>1. 1 \in 1 .. Len(s) /\ n \in 1 .. Len(s)
      BY <1>2
    <2> QED  BY <2>1, SubSeqOfConcat1
  <1> QED  BY <1>1, <1>2

LEMMA FirstAll ==
  ASSUME NEW S, NEW s \in Seq(S), NEW t \in Seq(S)
  PROVE  SubSeq(s \o t, 1, Len(s)) = s
  <1>1. Len(s) \in 0 .. Len(s)
    OBVIOUS
  <1> QED  BY <1>1, FirstOfConcat, SubSeqFull

LEMMA ConcatPrefix ==
  ASSUME NEW S, NEW s \in Seq(S), NEW t \in Seq(S)
  PROVE  IsPrefix(s, s \o t)
  <1>1. Len(s) <= Len(s \o t)
    OBVIOUS
  <1> QED  BY <1>1, FirstAll, SubSeqFull DEF IsPrefix

\* A sequence that another one continues, element by element.
LEMMA PointwisePrefix ==
  ASSUME NEW S, NEW s \in Seq(S), NEW t \in Seq(S),
         Len(s) <= Len(t), \A i \in 1 .. Len(s) : s[i] = t[i]
  PROVE  /\ IsPrefix(s, t)
         /\ Len(s) = Len(t) => s = t
  <1>1. Len(s) \in 0 .. Len(t) /\ Len(s) \in Nat
    OBVIOUS
  <1>2. SubSeq(t, 1, Len(s)) \in Seq(S) /\ Len(SubSeq(t, 1, Len(s))) = Len(s)
    BY <1>1, SplitAt
  <1>3. ASSUME NEW i \in 1 .. Len(s) PROVE SubSeq(t, 1, Len(s))[i] = s[i]
    <2>1. \A k \in 1 .. Len(s) : t[k] \in S
      OBVIOUS
    <2>2. \A k \in 1 .. Len(s) - 1 + 1 : SubSeq(t, 1, Len(s))[k] = t[1 + k - 1]
      BY <1>1, <2>1, SubSeqProperties
    <2>3. i \in 1 .. Len(s) - 1 + 1 /\ 1 + i - 1 = i
      BY <1>1
    <2> QED  BY <2>2, <2>3
  <1>4. SubSeq(t, 1, Len(s)) = s
    BY <1>2, <1>3, SeqEqual
  <1> QED  BY <1>4, SubSeqFull, SeqEqual DEF IsPrefix

LEMMA FlattenSplit ==
  ASSUME NEW S, NEW ss \in Seq(Seq(S)), NEW i \in 0 .. Len(ss)
  PROVE  /\ FlattenSeq(SubSeq(ss, 1, i)) \in Seq(S)
         /\ \E t \in Seq(S) : FlattenSeq(ss) = FlattenSeq(SubSeq(ss, 1, i)) \o t
  <1> DEFINE a == SubSeq(ss, 1, i)
             c == SubSeq(ss, i + 1, Len(ss))
  <1>1. a \in Seq(Seq(S)) /\ c \in Seq(Seq(S)) /\ a \o c = ss
    BY SplitAt
  <1> HIDE DEF a, c
  <1>2. FlattenSeq(ss) = FlattenSeq(a) \o FlattenSeq(c)
    BY <1>1, FlattenConcat
  <1>3. FlattenSeq(a) \in Seq(S) /\ FlattenSeq(c) \in Seq(S)
    BY <1>1, FlattenTyped
  <1> QED  BY <1>2, <1>3 DEF a

LEMMA FlattenOneMore ==
  ASSUME NEW S, NEW ss \in Seq(Seq(S)), NEW i \in 1 .. Len(ss)
  PROVE  FlattenSeq(SubSeq(ss, 1, i)) = FlattenSeq(SubSeq(ss, 1, i - 1)) \o ss[i]
  <1>1. 1 \in 1 .. Len(ss) /\ i \in 1 .. Len(ss) /\ i - 1 \in 0 .. Len(ss) /\ ss[i] \in Seq(S)
    OBVIOUS
  <1>2. SubSeq(ss, 1, i) = SubSeq(ss, 1, i - 1) \o <<ss[i]>>
    BY <1>1, SubSeqRecursiveSecond
  <1>3. SubSeq(ss, 1, i - 1) \in Seq(Seq(S))
    BY <1>1, SplitAt
  <1>4. SubSeq(ss, 1, i) = Append(SubSeq(ss, 1, i - 1), ss[i])
    BY <1>1, <1>2, <1>3, AppendIsConcat
  <1> QED  BY <1>1, <1>3, <1>4, FlattenAppend

LEMMA FlattenEmpties ==
  ASSUME NEW S, NEW n \in Nat
  PROVE  /\ [i \in 1 .. n |-> <<>>] \in Seq(Seq(S)) /\ Len([i \in 1 .. n |-> <<>>]) = n
         /\ FlattenSeq([i \in 1 .. n |-> <<>>]) = <<>>
  <1> DEFINE E(k) == [i \in 1 .. k |-> <<>>]
             T == {k \in Nat : FlattenSeq(E(k)) = <<>>}
  <1>0. <<>> \in Seq(S)
    OBVIOUS
  <1>1. ASSUME NEW k \in Nat
        PROVE  /\ E(k) \in Seq(Seq(S)) /\ Len(E(k)) = k
               /\ \A i \in 1 .. k : E(k)[i] = <<>>
    <2>1. E(k) \in [1 .. k -> Seq(S)] /\ \A i \in 1 .. k : E(k)[i] = <<>>
      BY <1>0
    <2> HIDE DEF E
    <2> QED  BY <2>1, FunctionIsSeq
  <1>2. 0 \in T
    <2>1. E(0) = <<>>
      OBVIOUS
    <2> HIDE DEF E
    <2> QED  BY <2>1, FlattenNothing
  <1>3. ASSUME NEW k \in Nat, k \in T PROVE k + 1 \in T
    <2> DEFINE v == E(k)
    <2> HIDE DEF E
    <2>1. v \in Seq(Seq(S)) /\ Len(v) = k /\ \A i \in 1 .. k : v[i] = <<>>
      BY <1>1
    <2>2. FlattenSeq(v) = <<>>
      BY <1>3
    <2> HIDE DEF v
    <2>3. /\ Append(v, <<>>) \in Seq(Seq(S)) /\ Len(Append(v, <<>>)) = k + 1
          /\ \A i \in 1 .. k + 1 : Append(v, <<>>)[i] = <<>>
      BY <1>0, <2>1
    <2>4. E(k + 1) \in Seq(Seq(S)) /\ Len(E(k + 1)) = k + 1 /\ \A i \in 1 .. k + 1 : E(k + 1)[i] = <<>>
      BY <1>1
    <2>5. E(k + 1) = Append(v, <<>>)
      BY <2>3, <2>4, SeqEqual
    <2>6. FlattenSeq(Append(v, <<>>)) = <<>> \o <<>>
      BY <1>0, <2>1, <2>2, FlattenAppend
    <2>7. <<>> \o <<>> = <<>>
      BY <1>0, ConcatEmptySeq
    <2>8. FlattenSeq(E(k + 1)) = <<>>
      BY <2>5, <2>6, <2>7
    <2> QED  BY <2>8
  <1> HIDE DEF E, T
  <1>4. T = Nat
    <2>1. T \in SUBSET Nat
      BY DEF T
    <2> QED  BY <1>2, <1>3, <2>1, NumbersOf
  <1> QED  BY <1>1, <1>4 DEF E, T

\* Sequences that a function gives, empty from some number on.
Pads(g, m, f, n) == n <= m /\ \A i \in 1 .. m : g[i] = IF i <= n THEN f[i] ELSE <<>>

LEMMA FlattenPadded ==
  ASSUME NEW n \in Nat, NEW m \in Nat,
         NEW f \in [1 .. n -> Seq(Row)], NEW g \in [1 .. m -> Seq(Row)], Pads(g, m, f, n)
  PROVE  FlattenSeq(g) = FlattenSeq(f)
  <1>0. n <= m /\ \A i \in 1 .. m : g[i] = IF i <= n THEN f[i] ELSE <<>>
    BY DEF Pads
  <1> DEFINE d == m - n
             h == [i \in 1 .. d |-> <<>>]
  <1>1. d \in Nat /\ n + d = m /\ \A i \in 1 .. d : h[i] = <<>>
    BY <1>0
  <1>2. f \in Seq(Seq(Row)) /\ Len(f) = n
    BY FunctionIsSeq
  <1>3. g \in Seq(Seq(Row)) /\ Len(g) = m
    BY FunctionIsSeq
  <1> HIDE DEF d
  <1>4. h \in Seq(Seq(Row)) /\ Len(h) = d /\ FlattenSeq(h) = <<>>
    BY <1>1, FlattenEmpties
  <1> HIDE DEF h
  <1>5. f \o h \in Seq(Seq(Row)) /\ Len(f \o h) = m
    BY <1>1, <1>2, <1>4, ConcatProperties
  <1>6. ASSUME NEW i \in 1 .. m PROVE g[i] = (f \o h)[i]
    <2>1. (f \o h)[i] = IF i <= n THEN f[i] ELSE h[i - n]
      <3>1. Len(f) = n /\ n \in Nat /\ Len(h) = d /\ n + d = m
        BY <1>1, <1>2, <1>4
      <3>2. \A j \in 1 .. Len(f) + Len(h) : (f \o h)[j] = IF j <= Len(f) THEN f[j] ELSE h[j - Len(f)]
        BY <1>2, <1>4, ConcatProperties
      <3> QED  BY <3>1, <3>2
    <2>2. CASE i <= n
      BY <1>0, <2>1, <2>2
    <2>3. CASE ~(i <= n)
      <3>1. i - n \in 1 .. d
        BY <1>0, <1>1, <2>3
      <3> QED  BY <1>0, <1>1, <2>1, <2>3, <3>1
    <2> QED  BY <2>2, <2>3
  <1>7. g = f \o h
    BY <1>3, <1>5, <1>6, SeqEqual
  <1>8. FlattenSeq(f \o h) = FlattenSeq(f) \o FlattenSeq(h)
    BY <1>2, <1>4, FlattenConcat
  <1>9. FlattenSeq(f) \in Seq(Row)
    BY <1>2, FlattenTyped
  <1> QED  BY <1>4, <1>7, <1>8, <1>9, ConcatEmptySeq

-----------------------------------------------------------------------------
(* The rows of a bucket.                                                   *)

LEMMA OfBucketTyped ==
  ASSUME NEW rows \in Seq(Row), NEW b \in Buckets
  PROVE  /\ OfBucket(rows, b) \in Seq(Row)
         /\ [k \in DOMAIN rows |-> IF rows[k].bucket = b THEN <<rows[k]>> ELSE <<>>] \in Seq(Seq(Row))
  <1> DEFINE f == [k \in DOMAIN rows |-> IF rows[k].bucket = b THEN <<rows[k]>> ELSE <<>>]
  <1>1. DOMAIN rows = 1 .. Len(rows) /\ Len(rows) \in Nat /\ \A k \in 1 .. Len(rows) : rows[k] \in Row
    OBVIOUS
  <1>2. f \in [1 .. Len(rows) -> Seq(Row)]
    <2>1. \A r \in Row : <<r>> \in Seq(Row) /\ <<>> \in Seq(Row)
      OBVIOUS
    <2> QED  BY <1>1, <2>1
  <1> HIDE DEF f
  <1>3. f \in Seq(Seq(Row))
    BY <1>1, <1>2, FunctionIsSeq
  <1> QED  BY <1>3, FlattenTyped DEF OfBucket, f

LEMMA OfBucketNothing == \A b : OfBucket(<<>>, b) = <<>>
  <1> SUFFICES ASSUME NEW b PROVE OfBucket(<<>>, b) = <<>>
    OBVIOUS
  <1>1. [k \in DOMAIN <<>> |-> IF <<>>[k].bucket = b THEN << <<>>[k] >> ELSE <<>>] = <<>>
    OBVIOUS
  <1> QED  BY <1>1, FlattenNothing DEF OfBucket

LEMMA OfBucketConcat ==
  ASSUME NEW s \in Seq(Row), NEW t \in Seq(Row), NEW b \in Buckets
  PROVE  OfBucket(s \o t, b) = OfBucket(s, b) \o OfBucket(t, b)
  <1> DEFINE Pick(rows) == [k \in DOMAIN rows |-> IF rows[k].bucket = b THEN <<rows[k]>> ELSE <<>>]
  <1>1. \A rows \in Seq(Row) : /\ Pick(rows) \in Seq(Seq(Row)) /\ Len(Pick(rows)) = Len(rows)
                               /\ \A k \in 1 .. Len(rows) :
                                    Pick(rows)[k] = IF rows[k].bucket = b THEN <<rows[k]>> ELSE <<>>
    <2> SUFFICES ASSUME NEW rows \in Seq(Row)
                 PROVE  /\ Pick(rows) \in Seq(Seq(Row)) /\ Len(Pick(rows)) = Len(rows)
                        /\ \A k \in 1 .. Len(rows) :
                             Pick(rows)[k] = IF rows[k].bucket = b THEN <<rows[k]>> ELSE <<>>
      OBVIOUS
    <2>1. DOMAIN rows = 1 .. Len(rows) /\ Len(rows) \in Nat
      OBVIOUS
    <2>2. Pick(rows) \in Seq(Seq(Row))
      BY OfBucketTyped
    <2>3. Pick(rows) \in [1 .. Len(rows) -> Seq(Row)]
      <3>1. DOMAIN Pick(rows) = 1 .. Len(rows)
        BY <2>1
      <3> HIDE DEF Pick
      <3> QED  BY <2>2, <3>1, LenProperties
    <2>4. Len(Pick(rows)) = Len(rows)
      <3> HIDE DEF Pick
      <3> QED  BY <2>1, <2>3, FunctionIsSeq
    <2> QED  BY <2>1, <2>2, <2>4
  <1> HIDE DEF Pick
  <1>2. s \o t \in Seq(Row) /\ Len(s \o t) = Len(s) + Len(t) /\ Len(s) \in Nat /\ Len(t) \in Nat
    OBVIOUS
  <1>3. Pick(s) \o Pick(t) \in Seq(Seq(Row)) /\ Len(Pick(s) \o Pick(t)) = Len(s) + Len(t)
    <2> DEFINE p == Pick(s)
               q == Pick(t)
    <2>1. p \in Seq(Seq(Row)) /\ Len(p) = Len(s) /\ q \in Seq(Seq(Row)) /\ Len(q) = Len(t)
      BY <1>1
    <2> HIDE DEF p, q
    <2>2. p \o q \in Seq(Seq(Row)) /\ Len(p \o q) = Len(p) + Len(q)
      BY <2>1, ConcatProperties
    <2> QED  BY <2>1, <2>2 DEF p, q
  <1>4. ASSUME NEW k \in 1 .. Len(s) + Len(t) PROVE Pick(s \o t)[k] = (Pick(s) \o Pick(t))[k]
    <2>1. /\ (s \o t)[k] = IF k <= Len(s) THEN s[k] ELSE t[k - Len(s)]
          /\ (Pick(s) \o Pick(t))[k] = IF k <= Len(s) THEN Pick(s)[k] ELSE Pick(t)[k - Len(s)]
      BY <1>1, <1>2, ConcatProperties
    <2>2. Pick(s \o t)[k] = IF (s \o t)[k].bucket = b THEN <<(s \o t)[k]>> ELSE <<>>
      BY <1>1, <1>2
    <2>3. CASE k <= Len(s)
      <3>1. k \in 1 .. Len(s)
        BY <1>2, <2>3
      <3> QED  BY <1>1, <2>1, <2>2, <2>3, <3>1
    <2>4. CASE ~(k <= Len(s))
      <3>1. k - Len(s) \in 1 .. Len(t)
        BY <1>2, <2>4
      <3> QED  BY <1>1, <2>1, <2>2, <2>4, <3>1
    <2> QED  BY <2>3, <2>4
  <1>5. Pick(s \o t) = Pick(s) \o Pick(t)
    BY <1>1, <1>2, <1>3, <1>4, SeqEqual
  <1>6. FlattenSeq(Pick(s) \o Pick(t)) = FlattenSeq(Pick(s)) \o FlattenSeq(Pick(t))
    BY <1>1, FlattenConcat
  <1>7. /\ OfBucket(s \o t, b) = FlattenSeq(Pick(s \o t))
        /\ OfBucket(s, b) = FlattenSeq(Pick(s)) /\ OfBucket(t, b) = FlattenSeq(Pick(t))
    BY DEF OfBucket, Pick
  <1> QED  BY <1>5, <1>6, <1>7

LEMMA OfBucketOne ==
  ASSUME NEW r \in Row, NEW b \in Buckets
  PROVE  OfBucket(<<r>>, b) = IF r.bucket = b THEN <<r>> ELSE <<>>
  <1> DEFINE p == IF r.bucket = b THEN <<r>> ELSE <<>>
  <1>1. [k \in DOMAIN <<r>> |-> IF <<r>>[k].bucket = b THEN << <<r>>[k] >> ELSE <<>>] = Append(<<>>, p)
    <2>1. DOMAIN <<r>> = 1 .. 1 /\ <<r>>[1] = r
      OBVIOUS
    <2> DEFINE f == [k \in DOMAIN <<r>> |-> IF <<r>>[k].bucket = b THEN << <<r>>[k] >> ELSE <<>>]
    <2>2. f \in [1 .. 1 -> Seq(Row)] /\ f[1] = p
      BY <2>1
    <2> HIDE DEF f
    <2>3. f \in Seq(Seq(Row)) /\ Len(f) = 1
      BY <2>2, FunctionIsSeq
    <2>4. p \in Seq(Row) /\ <<>> \in Seq(Seq(Row))
      OBVIOUS
    <2> HIDE DEF p
    <2>5. /\ Append(<<>>, p) \in Seq(Seq(Row)) /\ Len(Append(<<>>, p)) = 1
          /\ Append(<<>>, p)[1] = p
      BY <2>4
    <2>6. \A i \in 1 .. 1 : i = 1
      OBVIOUS
    <2>7. f = Append(<<>>, p)
      BY <2>2, <2>3, <2>5, <2>6, SeqEqual
    <2> QED  BY <2>7 DEF f
  <1>2. p \in Seq(Row) /\ <<>> \in Seq(Seq(Row)) /\ <<>> \o p = p
    OBVIOUS
  <1> HIDE DEF p
  <1>3. FlattenSeq(Append(<<>>, p)) = p
    BY <1>2, FlattenAppend, FlattenNothing
  <1> QED  BY <1>1, <1>3 DEF OfBucket, p

LEMMA OfBucketAppend ==
  ASSUME NEW rows \in Seq(Row), NEW r \in Row, NEW b \in Buckets
  PROVE  OfBucket(Append(rows, r), b) =
           IF r.bucket = b THEN Append(OfBucket(rows, b), r) ELSE OfBucket(rows, b)
  <1>1. Append(rows, r) = rows \o <<r>> /\ <<r>> \in Seq(Row)
    OBVIOUS
  <1>2. OfBucket(Append(rows, r), b) = OfBucket(rows, b) \o OfBucket(<<r>>, b)
    BY <1>1, OfBucketConcat
  <1>3. OfBucket(rows, b) \in Seq(Row)
    BY OfBucketTyped
  <1> DEFINE p == OfBucket(rows, b)
  <1>4. OfBucket(<<r>>, b) = IF r.bucket = b THEN <<r>> ELSE <<>>
    BY OfBucketOne
  <1> HIDE DEF p
  <1>5. p \in Seq(Row) /\ Append(p, r) = p \o <<r>> /\ p \o <<>> = p
    BY <1>3 DEF p
  <1> QED  BY <1>2, <1>4, <1>5 DEF p

-----------------------------------------------------------------------------
(* Row groups, parts and how many rows there are.                          *)

\* The first row of row group k comes after this many.
At(k) == k * RowGroupRows

LEMMA Groups ==
  /\ \A k \in Nat : At(k) \in Nat /\ At(k + 1) = At(k) + RowGroupRows /\ k <= At(k)
  /\ \A k, l \in Nat : At(k) < At(l) => k < l
  <1>1. RowGroupRows \in Nat \ {0}
    BY ConvertAssumption
  <1>2. \A k, g \in Nat : k * g \in Nat /\ (k + 1) * g = k * g + g /\ k * (g + 1) = k * g + k
    OBVIOUS
  <1>3. ASSUME NEW k \in Nat
        PROVE  At(k) \in Nat /\ At(k + 1) = At(k) + RowGroupRows /\ k <= At(k)
    <2>1. PICK g \in Nat : RowGroupRows = g + 1
      <3>1. RowGroupRows - 1 \in Nat /\ RowGroupRows = (RowGroupRows - 1) + 1
        BY <1>1
      <3> QED  BY <3>1
    <2>2. k * RowGroupRows = k * g + k /\ k * g \in Nat
      BY <1>2, <2>1
    <2>3. (k + 1) * RowGroupRows = k * RowGroupRows + RowGroupRows /\ k * RowGroupRows \in Nat
      BY <1>1, <1>2
    <2>4. \A x \in Nat : k <= x + k
      OBVIOUS
    <2> QED  BY <2>2, <2>3, <2>4 DEF At
  <1>4. ASSUME NEW k \in Nat, NEW l \in Nat, At(k) < At(l)
        PROVE  k < l
    <2> SUFFICES ASSUME ~(k < l) PROVE FALSE
      OBVIOUS
    <2>1. PICK d \in Nat : k = l + d
      <3>1. k - l \in Nat /\ k = l + (k - l)
        OBVIOUS
      <3> QED  BY <3>1
    <2>2. \A x, y, g \in Nat : (x + y) * g = x * g + y * g /\ x * g \in Nat /\ y * g \in Nat
      OBVIOUS
    <2>3. At(k) = At(l) + d * RowGroupRows /\ At(l) \in Nat /\ d * RowGroupRows \in Nat
      BY <1>1, <2>1, <2>2 DEF At
    <2>4. \A x, y \in Nat : ~(x + y < x)
      OBVIOUS
    <2> QED  BY <1>4, <2>3, <2>4
  <1> QED  BY <1>3, <1>4

\* A part with number k of a bucket whose rows are u: a piece of u from its k-th row
\* group on, or nothing yet.
Piece(p, k, u) ==
  /\ At(k) < Len(u)
  /\ p.whole => p.rows # <<>>
  /\ Len(p.rows) <= RowGroupRows /\ At(k) + Len(p.rows) <= Len(u)
  /\ \A j \in 1 .. Len(p.rows) : p.rows[j] = u[At(k) + j]

LEMMA PieceGrows ==
  ASSUME NEW p \in Part, NEW k \in Nat, NEW u \in Seq(Row), NEW x \in Seq(Row), Piece(p, k, u)
  PROVE  Piece(p, k, u \o x)
  <1>1. /\ At(k) \in Nat /\ Len(p.rows) \in Nat /\ Len(u) \in Nat /\ Len(x) \in Nat
        /\ Len(u \o x) = Len(u) + Len(x)
    <2>1. p.rows \in Seq(Row)
      BY DEF Part
    <2>2. Len(p.rows) \in Nat
      BY <2>1
    <2>3. Len(u) \in Nat /\ Len(x) \in Nat /\ Len(u \o x) = Len(u) + Len(x)
      OBVIOUS
    <2> QED  BY <2>2, <2>3, Groups
  <1>2. ASSUME NEW j \in 1 .. Len(p.rows) PROVE p.rows[j] = (u \o x)[At(k) + j]
    <2>1. At(k) + j \in 1 .. Len(u)
      BY <1>1 DEF Piece
    <2>2. (u \o x)[At(k) + j] = u[At(k) + j]
      BY <2>1
    <2> QED  BY <2>2 DEF Piece
  <1>3. At(k) < Len(u \o x) /\ At(k) + Len(p.rows) <= Len(u \o x)
    BY <1>1 DEF Piece
  <1> QED  BY <1>2, <1>3 DEF Piece

LEMMA PlacesAre ==
  ASSUME NEW s, NEW t, \A b \in Buckets : Len(s[b]) = Len(t[b])
  PROVE  Places(s) = Places(t)
  BY DEF Places

\* Rows at the end of one of the sequences are that many more.
LEMMA MorePlaces ==
  ASSUME NEW s, NEW t, NEW b \in Buckets, NEW n \in Nat, Len(s[b]) \in Nat,
         Len(t[b]) = Len(s[b]) + n, \A c \in Buckets \ {b} : t[c] = s[c],
         IsFiniteSet(Places(s))
  PROVE  IsFiniteSet(Places(t)) /\ NumberOfRows(t) = NumberOfRows(s) + n
  <1> DEFINE l == Len(s[b])
             new == {b} \X (l + 1 .. l + n)
             f == [i \in l + 1 .. l + n |-> <<b, i>>]
  <1>1. IsFiniteSet(l + 1 .. l + n) /\ Cardinality(l + 1 .. l + n) = n
    <2>1. l + 1 \in Int /\ l + n \in Int
          /\ (IF l + 1 > l + n THEN 0 ELSE (l + n) - (l + 1) + 1) = n
      OBVIOUS
    <2> HIDE DEF l
    <2> QED  BY <2>1, FS_Interval
  <1>2. f \in Bijection(l + 1 .. l + n, new)
    <2>1. f \in [l + 1 .. l + n -> new]
      OBVIOUS
    <2>2. \A i, j \in l + 1 .. l + n : f[i] = f[j] => i = j
      OBVIOUS
    <2>3. \A x \in new : \E i \in l + 1 .. l + n : f[i] = x
      OBVIOUS
    <2> HIDE DEF f, new
    <2> QED  BY <2>1, <2>2, <2>3 DEF Bijection, Injection, Surjection, IsInjective
  <1>3. IsFiniteSet(new) /\ Cardinality(new) = n
    <2> HIDE DEF f, new
    <2> QED  BY <1>1, <1>2, FS_Bijection DEF ExistsBijection
  <1>4. Places(t) = Places(s) \cup new
    <2>1. \A c \in Buckets \ {b} : Len(t[c]) = Len(s[c])
      OBVIOUS
    <2>2. 1 .. l + n = (1 .. l) \cup (l + 1 .. l + n)
      OBVIOUS
    <2>3. {b} \X (1 .. Len(t[b])) = ({b} \X (1 .. Len(s[b]))) \cup new
      BY <2>2
    <2> DEFINE P(c) == {c} \X (1 .. Len(s[c]))
               Q(c) == {c} \X (1 .. Len(t[c]))
    <2>4. Q(b) = P(b) \cup new /\ \A c \in Buckets \ {b} : Q(c) = P(c)
      BY <2>1, <2>3
    <2>5. Places(s) = UNION {P(c) : c \in Buckets} /\ Places(t) = UNION {Q(c) : c \in Buckets}
      BY DEF Places
    <2> HIDE DEF P, Q, new
    <2> QED  BY <2>4, <2>5
  <1>5. Places(s) \cap new = {}
    <2> SUFFICES ASSUME NEW x \in Places(s), x \in new PROVE FALSE
      OBVIOUS
    <2>1. PICK c \in Buckets : x \in {c} \X (1 .. Len(s[c]))
      BY DEF Places
    <2>2. x[1] = b /\ x[2] \in l + 1 .. l + n /\ x[1] = c /\ x[2] \in 1 .. Len(s[c])
      BY <2>1
    <2> QED  BY <2>2
  <1> HIDE DEF new
  <1>6. /\ IsFiniteSet(Places(s) \cup new)
        /\ Cardinality(Places(s) \cup new) =
             Cardinality(Places(s)) + Cardinality(new) - Cardinality({})
    BY <1>3, <1>5, FS_Union
  <1>7. Cardinality({}) = 0 /\ Cardinality(Places(s)) \in Nat
    BY FS_EmptySet, FS_CardinalityType
  <1> QED  BY <1>3, <1>4, <1>6, <1>7 DEF NumberOfRows

-----------------------------------------------------------------------------
(* The WAL and its growth.                                                 *)

RowsBy == [b \in Buckets |-> BucketRows(b)]

WalInv ==
  /\ wal \in Seq(Seq(Row)) /\ fragment \in BOOLEAN
  /\ fragment => wal # <<>> /\ Len(WalRows) < MaxRows
  /\ Len(WalRows) <= MaxRows
  /\ owed \in Nat /\ owed <= Len(WalRows)
  /\ IsFiniteSet(Places(RowsBy)) /\ NumberOfRows(RowsBy) = Len(WalRows)

LEMMA WalRowsTyped ==
  ASSUME wal \in Seq(Seq(Row))
  PROVE  /\ WalRows \in Seq(Row) /\ Len(WalRows) \in Nat
         /\ \A b \in Buckets : BucketRows(b) \in Seq(Row) /\ Len(BucketRows(b)) \in Nat
         /\ \A b \in Buckets : RowsBy[b] = BucketRows(b)
  <1>1. WalRows \in Seq(Row)
    BY FlattenTyped DEF WalRows
  <1>2. \A b \in Buckets : BucketRows(b) \in Seq(Row)
    BY <1>1, OfBucketTyped DEF BucketRows
  <1> QED  BY <1>1, <1>2 DEF RowsBy

\* A new segment holds nothing yet.
LEMMA NewSegmentAdds ==
  ASSUME WalInv, NewSegment
  PROVE  /\ wal' \in Seq(Seq(Row)) /\ Len(wal') = Len(wal) + 1
         /\ WalRows' = WalRows
         /\ \A i \in 0 .. Len(wal) : SubSeq(wal', 1, i) = SubSeq(wal, 1, i)
  <1>1. wal \in Seq(Seq(Row)) /\ wal' = Append(wal, <<>>) /\ <<>> \in Seq(Row)
    BY DEF WalInv, NewSegment
  <1>2. wal' \in Seq(Seq(Row)) /\ Len(wal') = Len(wal) + 1
    BY <1>1
  <1>3. FlattenSeq(Append(wal, <<>>)) = FlattenSeq(wal) \o <<>> /\ FlattenSeq(wal) \in Seq(Row)
    BY <1>1, FlattenAppend, FlattenTyped
  <1>4. WalRows' = WalRows
    BY <1>1, <1>3, ConcatEmptySeq DEF WalRows
  <1>5. wal' = wal \o << <<>> >> /\ << <<>> >> \in Seq(Seq(Row))
    BY <1>1
  <1>6. \A i \in 0 .. Len(wal) : SubSeq(wal', 1, i) = SubSeq(wal, 1, i)
    BY <1>1, <1>5, FirstOfConcat
  <1> QED  BY <1>2, <1>4, <1>6

\* A row ends in the newest segment.
LEMMA EndRowAdds ==
  ASSUME WalInv, EndRow
  PROVE  \E r \in Row :
           /\ wal' \in Seq(Seq(Row)) /\ Len(wal') = Len(wal)
           /\ WalRows' = Append(WalRows, r)
           /\ \A i \in 0 .. Len(wal) - 1 : SubSeq(wal', 1, i) = SubSeq(wal, 1, i)
           /\ SubSeq(wal', 1, Len(wal)) = wal'
  <1> DEFINE n == Len(wal)
             front == SubSeq(wal, 1, n - 1)
  <1>1. wal \in Seq(Seq(Row)) /\ wal # <<>>
    BY DEF WalInv, EndRow
  <1>2. n \in Nat \ {0} /\ n - 1 \in 0 .. n /\ n \in 1 .. n /\ wal[n] \in Seq(Row)
    BY <1>1
  <1>3. PICK b \in Buckets : wal' = [wal EXCEPT ![n] = Append(@, [id |-> Len(WalRows) + 1, bucket |-> b])]
    BY DEF EndRow
  <1> DEFINE r == [id |-> Len(WalRows) + 1, bucket |-> b]
  <1>4. r \in Row
    <2>1. Len(WalRows) + 1 \in Nat
      BY <1>1, WalRowsTyped
    <2> QED  BY <2>1 DEF Row
  <1> HIDE DEF r
  <1>5. wal' = [wal EXCEPT ![n] = Append(wal[n], r)]
    BY <1>3 DEF r
  <1>6. Append(wal[n], r) \in Seq(Row)
    BY <1>2, <1>4
  <1>7. /\ wal' \in Seq(Seq(Row)) /\ Len(wal') = n
        /\ \A j \in 1 .. n : wal'[j] = IF j = n THEN Append(wal[n], r) ELSE wal[j]
    BY <1>1, <1>2, <1>5, <1>6, ExceptSeq
  <1>8. front \in Seq(Seq(Row)) /\ Len(front) = n - 1 /\ wal = Append(front, wal[n])
    BY <1>1, <1>2, LastApart
  <1> HIDE DEF front
  <1>9. \A j \in 1 .. n - 1 : wal[j] = front[j]
    <2> DEFINE l == wal[n]
    <2>1. l \in Seq(Row) /\ wal = Append(front, l)
      BY <1>2, <1>8
    <2> HIDE DEF l
    <2>2. \A j \in 1 .. Len(front) : Append(front, l)[j] = front[j]
      BY <1>8, <2>1, AppendProperties
    <2> QED  BY <1>8, <2>1, <2>2
  <1>10. wal' = Append(front, Append(wal[n], r))
    <2> DEFINE last == Append(wal[n], r)
    <2>1. last \in Seq(Row)
      BY <1>6
    <2> HIDE DEF last
    <2>2. /\ Append(front, last) \in Seq(Seq(Row)) /\ Len(Append(front, last)) = n
          /\ \A j \in 1 .. n : Append(front, last)[j] = IF j = n THEN last ELSE front[j]
      BY <1>2, <1>8, <2>1
    <2>3. \A j \in 1 .. n : wal'[j] = Append(front, last)[j]
      <3> SUFFICES ASSUME NEW j \in 1 .. n PROVE wal'[j] = Append(front, last)[j]
        OBVIOUS
      <3>1. j # n => j \in 1 .. n - 1
        BY <1>2
      <3> QED  BY <1>7, <1>9, <2>2, <3>1 DEF last
    <2> QED  BY <1>7, <2>2, <2>3, SeqEqual DEF last
  <1>11. WalRows' = Append(WalRows, r)
    <2> DEFINE a == FlattenSeq(front)
               l == wal[n]
    <2>1. a \in Seq(Row) /\ l \in Seq(Row)
      BY <1>2, <1>8, FlattenTyped
    <2>2. FlattenSeq(wal) = a \o l
      BY <1>2, <1>8, FlattenAppend
    <2>3. FlattenSeq(wal') = a \o Append(l, r)
      BY <1>6, <1>8, <1>10, FlattenAppend
    <2> HIDE DEF a, l
    <2>4. a \o Append(l, r) = Append(a \o l, r)
      <3>1. Append(l, r) = l \o <<r>> /\ <<r>> \in Seq(Row) /\ a \o l \in Seq(Row)
        BY <1>4, <2>1
      <3>2. Append(a \o l, r) = (a \o l) \o <<r>>
        BY <1>4, <3>1, AppendIsConcat
      <3> QED  BY <2>1, <3>1, <3>2, ConcatAssociative
    <2> QED  BY <2>2, <2>3, <2>4 DEF WalRows
  <1>12. ASSUME NEW i \in 0 .. n - 1 PROVE SubSeq(wal', 1, i) = SubSeq(wal, 1, i)
    <2> DEFINE p == <<Append(wal[n], r)>>
               q == <<wal[n]>>
    <2>1. i \in 0 .. Len(front) /\ p \in Seq(Seq(Row)) /\ q \in Seq(Seq(Row))
      BY <1>2, <1>6, <1>8
    <2>2. wal' = front \o p /\ wal = front \o q
      BY <1>2, <1>6, <1>8, <1>10, AppendIsConcat
    <2> HIDE DEF p, q
    <2>3. SubSeq(front \o p, 1, i) = SubSeq(front, 1, i) /\ SubSeq(front \o q, 1, i) = SubSeq(front, 1, i)
      BY <1>8, <2>1, FirstOfConcat
    <2> QED  BY <2>2, <2>3
  <1>13. SubSeq(wal', 1, n) = wal'
    BY <1>7, SubSeqFull
  <1> QED  BY <1>4, <1>7, <1>11, <1>12, <1>13

\* However the WAL grows, its rows and those of its first segments only become more.
LEMMA WalGrows ==
  ASSUME WalInv, WriteWal
  PROVE  /\ wal' \in Seq(Seq(Row)) /\ Len(wal) <= Len(wal')
         /\ \A i \in 0 .. Len(wal) - 1 : SubSeq(wal', 1, i) = SubSeq(wal, 1, i)
         /\ Len(FlattenSeq(SubSeq(wal, 1, Len(wal)))) <= Len(FlattenSeq(SubSeq(wal', 1, Len(wal))))
         /\ \E t \in Seq(Row) : WalRows' = WalRows \o t
  <1>1. wal \in Seq(Seq(Row)) /\ Len(wal) \in Nat /\ SubSeq(wal, 1, Len(wal)) = wal
    BY SubSeqFull DEF WalInv
  <1>2. WalRows \in Seq(Row) /\ Len(WalRows) \in Nat
    BY <1>1, WalRowsTyped
  <1>3. CASE NewSegment
    <2>1. /\ wal' \in Seq(Seq(Row)) /\ Len(wal') = Len(wal) + 1 /\ WalRows' = WalRows
          /\ \A i \in 0 .. Len(wal) : SubSeq(wal', 1, i) = SubSeq(wal, 1, i)
      BY <1>3, NewSegmentAdds
    <2>2. \A i \in 0 .. Len(wal) - 1 : i \in 0 .. Len(wal)
      BY <1>1
    <2>3. SubSeq(wal', 1, Len(wal)) = SubSeq(wal, 1, Len(wal))
      BY <1>1, <2>1
    <2>4. <<>> \in Seq(Row) /\ WalRows \o <<>> = WalRows
      BY <1>2, ConcatEmptySeq
    <2>5. Len(wal) <= Len(wal')
      BY <1>1, <2>1
    <2>6. Len(FlattenSeq(SubSeq(wal, 1, Len(wal)))) <= Len(FlattenSeq(SubSeq(wal', 1, Len(wal))))
      <3>1. FlattenSeq(SubSeq(wal', 1, Len(wal))) = WalRows /\ FlattenSeq(SubSeq(wal, 1, Len(wal))) = WalRows
        BY <1>1, <2>3 DEF WalRows
      <3> QED  BY <1>2, <3>1
    <2>7. \A i \in 0 .. Len(wal) - 1 : SubSeq(wal', 1, i) = SubSeq(wal, 1, i)
      BY <2>1, <2>2
    <2>8. \E t \in Seq(Row) : WalRows' = WalRows \o t
      BY <2>1, <2>4
    <2> QED  BY <2>1, <2>5, <2>6, <2>7, <2>8
  <1>4. CASE BeginRow
    <2>1. wal' = wal /\ WalRows' = WalRows
      BY <1>4 DEF BeginRow, WalRows
    <2>2. <<>> \in Seq(Row) /\ WalRows \o <<>> = WalRows
      BY <1>2, ConcatEmptySeq
    <2>3. Len(FlattenSeq(SubSeq(wal, 1, Len(wal)))) <= Len(FlattenSeq(SubSeq(wal', 1, Len(wal))))
      BY <1>1, <1>2, <2>1 DEF WalRows
    <2>4. \E t \in Seq(Row) : WalRows' = WalRows \o t
      BY <2>1, <2>2
    <2>5. Len(wal) <= Len(wal')
      BY <1>1, <2>1
    <2> QED  BY <1>1, <2>1, <2>3, <2>4, <2>5
  <1>5. CASE EndRow
    <2>1. PICK r \in Row : /\ wal' \in Seq(Seq(Row)) /\ Len(wal') = Len(wal)
                           /\ WalRows' = Append(WalRows, r)
                           /\ \A i \in 0 .. Len(wal) - 1 : SubSeq(wal', 1, i) = SubSeq(wal, 1, i)
                           /\ SubSeq(wal', 1, Len(wal)) = wal'
      BY <1>5, EndRowAdds
    <2>2. Append(WalRows, r) = WalRows \o <<r>> /\ <<r>> \in Seq(Row)
      BY <1>2
    <2>3. FlattenSeq(wal) = WalRows /\ FlattenSeq(wal') = WalRows'
      BY DEF WalRows
    <2>4. Len(WalRows) <= Len(WalRows')
      BY <1>2, <2>1
    <2>5. Len(FlattenSeq(SubSeq(wal, 1, Len(wal)))) <= Len(FlattenSeq(SubSeq(wal', 1, Len(wal))))
      BY <1>1, <2>1, <2>3, <2>4
    <2>6. \E t \in Seq(Row) : WalRows' = WalRows \o t
      BY <2>1, <2>2
    <2>7. Len(wal) <= Len(wal')
      BY <1>1, <2>1
    <2> QED  BY <2>1, <2>5, <2>6, <2>7
  <1> QED  BY <1>3, <1>4, <1>5 DEF WriteWal

\* So the rows of every bucket only become more.
LEMMA BucketsGrow ==
  ASSUME WalInv, NEW t \in Seq(Row), WalRows' = WalRows \o t
  PROVE  \A b \in Buckets : BucketRows(b)' = BucketRows(b) \o OfBucket(t, b)
  BY OfBucketConcat, WalRowsTyped DEF WalInv, BucketRows

LEMMA WalInitial == Init => WalInv
  <1> SUFFICES ASSUME Init PROVE WalInv
    OBVIOUS
  <1>1. wal = <<>> /\ fragment = FALSE /\ owed = 0
    BY DEF Init
  <1>2. WalRows = <<>> /\ Len(WalRows) = 0
    BY <1>1, FlattenNothing DEF WalRows
  <1>3. Places(RowsBy) = {}
    <2>1. \A b \in Buckets : RowsBy[b] = <<>>
      BY <1>2, OfBucketNothing DEF RowsBy, BucketRows
    <2>2. \A b \in Buckets : {b} \X (1 .. Len(RowsBy[b])) = {}
      BY <2>1
    <2> QED  BY <2>2 DEF Places
  <1>4. MaxRows \in Nat
    BY ConvertAssumption
  <1>5. IsFiniteSet(Places(RowsBy)) /\ NumberOfRows(RowsBy) = 0
    BY <1>3, FS_EmptySet DEF NumberOfRows
  <1>6. wal \in Seq(Seq(Row))
    BY <1>1
  <1>7. Len(WalRows) <= MaxRows /\ owed \in Nat /\ owed <= Len(WalRows)
    BY <1>1, <1>2, <1>4
  <1> QED  BY <1>1, <1>2, <1>5, <1>6, <1>7 DEF WalInv

LEMMA WalKeeps ==
  ASSUME WalInv, Next
  PROVE  WalInv'
  <1>0. WalRows \in Seq(Row) /\ Len(WalRows) \in Nat /\ MaxRows \in Nat
    BY WalRowsTyped, ConvertAssumption DEF WalInv
  <1>1. CASE NewSegment
    <2>1. wal' \in Seq(Seq(Row)) /\ WalRows' = WalRows
      BY <1>1, NewSegmentAdds
    <2>2. RowsBy' = RowsBy
      BY <2>1 DEF RowsBy, BucketRows
    <2>3. fragment' = FALSE /\ owed' = owed
      BY <1>1 DEF NewSegment, WalInv
    <2>4. IsFiniteSet(Places(RowsBy))' /\ (NumberOfRows(RowsBy))' = NumberOfRows(RowsBy)
      BY <2>2 DEF WalInv, Places, NumberOfRows
    <2> QED  BY <2>1, <2>3, <2>4 DEF WalInv
  <1>2. CASE BeginRow
    <2>1. /\ wal' = wal /\ WalRows' = WalRows /\ owed' = owed /\ fragment' = TRUE
          /\ wal # <<>> /\ Len(WalRows) < MaxRows
      BY <1>2 DEF BeginRow, WalRows, HasRoom
    <2>2. RowsBy' = RowsBy
      BY <2>1 DEF RowsBy, BucketRows
    <2>4. IsFiniteSet(Places(RowsBy))' /\ (NumberOfRows(RowsBy))' = NumberOfRows(RowsBy)
      BY <2>2 DEF WalInv, Places, NumberOfRows
    <2> QED  BY <2>1, <2>4 DEF WalInv
  <1>3. CASE EndRow
    <2>1. PICK r \in Row : wal' \in Seq(Seq(Row)) /\ WalRows' = Append(WalRows, r)
      BY <1>3, EndRowAdds
    <2>2. /\ fragment' = FALSE /\ owed' = owed /\ owed \in Nat /\ owed <= Len(WalRows)
          /\ Len(WalRows) < MaxRows
      BY <1>3 DEF EndRow, WalInv
    <2>3. Len(WalRows') = Len(WalRows) + 1
      BY <1>0, <2>1
    <2>4. \A c \in Buckets : BucketRows(c)' = IF r.bucket = c THEN Append(BucketRows(c), r) ELSE BucketRows(c)
      BY <1>0, <2>1, OfBucketAppend DEF BucketRows
    <2> DEFINE s == RowsBy
               t == RowsBy'
               b == r.bucket
    <2>5. /\ b \in Buckets /\ \A c \in Buckets \ {b} : t[c] = s[c]
          /\ t[b] = Append(s[b], r) /\ s[b] \in Seq(Row)
      <3>1. b \in Buckets
        BY <2>1 DEF Row
      <3>2. \A c \in Buckets : s[c] = BucketRows(c) /\ t[c] = BucketRows(c)'
        BY DEF RowsBy
      <3>3. BucketRows(b) \in Seq(Row)
        BY <3>1, WalRowsTyped DEF WalInv
      <3> QED  BY <2>4, <3>1, <3>2, <3>3
    <2>6. IsFiniteSet(Places(s)) /\ NumberOfRows(s) = Len(WalRows)
      BY DEF WalInv
    <2> HIDE DEF s, t, b
    <2>7. Len(s[b]) \in Nat /\ Len(t[b]) = Len(s[b]) + 1
      BY <2>5
    <2>8. IsFiniteSet(Places(t)) /\ NumberOfRows(t) = NumberOfRows(s) + 1
      <3> DEFINE n == 1
      <3>1. /\ b \in Buckets /\ n \in Nat /\ \A c \in Buckets \ {b} : t[c] = s[c]
            /\ Len(t[b]) = Len(s[b]) + n
        BY <2>5, <2>7
      <3> HIDE DEF n
      <3>2. IsFiniteSet(Places(t)) /\ NumberOfRows(t) = NumberOfRows(s) + n
        BY <2>6, <2>7, <3>1, MorePlaces
      <3> QED  BY <3>2 DEF n
    <2>9. IsFiniteSet(Places(RowsBy))' /\ (NumberOfRows(RowsBy))' = Len(WalRows')
      BY <2>3, <2>6, <2>8 DEF t, Places, NumberOfRows
    <2>10. Len(WalRows') <= MaxRows /\ owed <= Len(WalRows')
      BY <1>0, <2>2, <2>3
    <2> QED  BY <2>1, <2>2, <2>9, <2>10 DEF WalInv
  <1>4. CASE Start
    <2>1. wal' = wal /\ fragment' = fragment /\ owed' = Len(WalRows)
      BY <1>4 DEF Start, walVars
    <2>2. WalRows' = WalRows /\ RowsBy' = RowsBy
      BY <2>1 DEF RowsBy, BucketRows, WalRows
    <2>3. IsFiniteSet(Places(RowsBy))' /\ (NumberOfRows(RowsBy))' = NumberOfRows(RowsBy)
      BY <2>2 DEF WalInv, Places, NumberOfRows
    <2> QED  BY <1>0, <2>1, <2>2, <2>3 DEF WalInv
  <1>5. CASE Convert \/ WriteFails \/ Kill
    <2>1. wal' = wal /\ fragment' = fragment /\ owed' = owed
      BY <1>5 DEF Convert, WriteFails, Kill, ReadFile, RefuseFile, SortRow, WriteRest, Finish,
                  OpenPart, ClosePart, walVars
    <2>2. WalRows' = WalRows /\ RowsBy' = RowsBy
      BY <2>1 DEF RowsBy, BucketRows, WalRows
    <2>3. IsFiniteSet(Places(RowsBy))' /\ (NumberOfRows(RowsBy))' = NumberOfRows(RowsBy)
      BY <2>2 DEF WalInv, Places, NumberOfRows
    <2> QED  BY <2>1, <2>2, <2>3 DEF WalInv
  <1> QED  BY <1>1, <1>2, <1>3, <1>4, <1>5 DEF Next, WriteWal

-----------------------------------------------------------------------------
(* The invariant.                                                          *)

During == {"read", "write", "open", "done"}
Writing == {"write", "open"}
AllRead == data = <<>> /\ file > listed
Written(b) == FlattenSeq([k \in 1 .. part[b] |-> out[b][k - 1].rows])
WrittenBy == [b \in Buckets |-> Written(b)]

LocalInv ==
  /\ cpc \in Running \cup Ended
  /\ listed \in Nat /\ file \in Nat \ {0} /\ data \in Seq(Row)
  /\ buffers \in [Buckets -> Seq(Row)] /\ part \in [Buckets -> Nat]
  /\ target \in Buckets /\ total \in Nat

\* Whatever run wrote them, parts are pieces of the rows of their bucket.
PartsInv ==
  /\ DOMAIN out = Buckets
  /\ \A b \in Buckets :
       /\ DOMAIN out[b] \subseteq Nat
       /\ \A k \in DOMAIN out[b] : out[b][k] \in Part /\ Piece(out[b][k], k, BucketRows(b))

\* A run has sorted the rows "done" and has the rows of "data" to sort; "rest" is
\* what it has not read.
ReadSoFar(done, rest) ==
  /\ WalRows = (done \o data) \o rest
  /\ \A b \in Buckets : Written(b) \o buffers[b] = OfBucket(done, b)
  /\ file > 1 => Len(FlattenSeq(SubSeq(wal, 1, file - 2))) <= Len(done \o data)
  /\ file <= listed => done \o data = FlattenSeq(SubSeq(wal, 1, file - 1))
  /\ file > listed => owed <= Len(done \o data)

ReadInv ==
  /\ listed <= Len(wal) /\ file <= listed + 1
  /\ owed <= Len(FlattenSeq(SubSeq(wal, 1, listed)))
  /\ \E done, rest \in Seq(Row) : ReadSoFar(done, rest)

\* The parts a run has written are whole and, but for the last, full; those of
\* earlier runs that it will still write over are of rows it will read.
Owed(b) == Len(OfBucket(SubSeq(WalRows, 1, owed), b))

BucketInv(b) ==
  /\ \A k \in 0 .. part[b] - 1 : k \in DOMAIN out[b] /\ out[b][k].whole
  /\ Len(buffers[b]) <= RowGroupRows
  /\ Len(buffers[b]) = RowGroupRows => cpc \in Writing /\ b = target
  /\ Len(Written(b)) <= At(part[b])
  /\ Len(Written(b)) = At(part[b]) \/ (buffers[b] = <<>> /\ AllRead)
  /\ \A k \in DOMAIN out[b] :
       k < part[b] \/ At(k) < Owed(b) \/ (cpc = "open" /\ b = target /\ k = part[b])

StageInv ==
  /\ cpc \in Writing => buffers[target] # <<>> /\ (Len(buffers[target]) = RowGroupRows \/ AllRead)
  /\ cpc = "done" => AllRead /\ \A b \in Buckets : buffers[b] = <<>>

CountInv == IsFiniteSet(Places(WrittenBy)) /\ NumberOfRows(WrittenBy) = total

RunInv ==
  cpc \in During => ReadInv /\ (\A b \in Buckets : BucketInv(b)) /\ StageInv /\ CountInv

ConvertInv == WalInv /\ LocalInv /\ PartsInv /\ RunInv

-----------------------------------------------------------------------------
(* What is in the parts.                                                   *)

LEMMA WrittenTyped ==
  ASSUME PartsInv, LocalInv, NEW b \in Buckets, \A k \in 0 .. part[b] - 1 : k \in DOMAIN out[b]
  PROVE  /\ [k \in 1 .. part[b] |-> out[b][k - 1].rows] \in [1 .. part[b] -> Seq(Row)]
         /\ Written(b) \in Seq(Row) /\ part[b] \in Nat
  <1> DEFINE f == [k \in 1 .. part[b] |-> out[b][k - 1].rows]
  <1>1. part[b] \in Nat
    BY DEF LocalInv
  <1>2. ASSUME NEW k \in 1 .. part[b] PROVE out[b][k - 1].rows \in Seq(Row)
    <2>1. k - 1 \in 0 .. part[b] - 1
      BY <1>1
    <2> QED  BY <2>1 DEF PartsInv, Part
  <1>3. f \in [1 .. part[b] -> Seq(Row)]
    BY <1>2
  <1> HIDE DEF f
  <1>4. FlattenSeq(f) \in Seq(Row)
    BY <1>1, <1>3, FunctionIsSeq, FlattenTyped
  <1> QED  BY <1>1, <1>3, <1>4 DEF f, Written

\* A part is opened or closed.
LEMMA PutPartFacts ==
  ASSUME PartsInv, LocalInv, NEW p, PutPart(p)
  PROVE  /\ DOMAIN out' = Buckets
         /\ \A b \in Buckets \ {target} : out'[b] = out[b]
         /\ DOMAIN out'[target] = DOMAIN out[target] \cup {part[target]}
         /\ out'[target][part[target]] = p
         /\ \A k \in DOMAIN out[target] \ {part[target]} : out'[target][k] = out[target][k]
  <1>1. DOMAIN out = Buckets /\ target \in Buckets
    BY DEF PartsInv, LocalInv
  <1> DEFINE g == [k \in DOMAIN out[target] \cup {part[target]} |->
                     IF k = part[target] THEN p ELSE out[target][k]]
  <1>2. out' = [out EXCEPT ![target] = g]
    BY DEF PutPart
  <1>3. /\ DOMAIN g = DOMAIN out[target] \cup {part[target]} /\ g[part[target]] = p
        /\ \A k \in DOMAIN out[target] \ {part[target]} : g[k] = out[target][k]
    OBVIOUS
  <1> HIDE DEF g
  <1>4. DOMAIN out' = Buckets /\ out'[target] = g /\ \A b \in Buckets \ {target} : out'[b] = out[b]
    BY <1>1, <1>2
  <1> QED  BY <1>3, <1>4

\* The rows of a bucket: those written, those buffered, and the others.
LEMMA BucketSplit ==
  ASSUME WalInv, LocalInv, NEW done \in Seq(Row), NEW rest \in Seq(Row), ReadSoFar(done, rest),
         NEW b \in Buckets
  PROVE  /\ BucketRows(b) = ((Written(b) \o buffers[b]) \o OfBucket(data, b)) \o OfBucket(rest, b)
         /\ OfBucket(done \o data, b) = (Written(b) \o buffers[b]) \o OfBucket(data, b)
         /\ OfBucket(done, b) = Written(b) \o buffers[b]
         /\ OfBucket(done, b) \in Seq(Row)
         /\ OfBucket(data, b) \in Seq(Row) /\ OfBucket(rest, b) \in Seq(Row)
  <1>1. data \in Seq(Row) /\ done \o data \in Seq(Row)
    BY DEF LocalInv
  <1>2. OfBucket(done \o data, b) = OfBucket(done, b) \o OfBucket(data, b)
    BY <1>1, OfBucketConcat
  <1>3. OfBucket((done \o data) \o rest, b) = OfBucket(done \o data, b) \o OfBucket(rest, b)
    BY <1>1, OfBucketConcat
  <1>4. OfBucket(done, b) = Written(b) \o buffers[b]
    BY DEF ReadSoFar
  <1>5. /\ OfBucket(done, b) \in Seq(Row)
        /\ OfBucket(data, b) \in Seq(Row) /\ OfBucket(rest, b) \in Seq(Row)
    BY <1>1, OfBucketTyped
  <1> QED  BY <1>2, <1>3, <1>4, <1>5 DEF ReadSoFar, BucketRows

\* The part that is to be written is the next piece.
LEMMA NextPiece ==
  ASSUME ConvertInv, cpc \in Writing
  PROVE  /\ Piece([rows |-> buffers[target], whole |-> TRUE], part[target], BucketRows(target))
         /\ At(part[target]) < Len(BucketRows(target))
         /\ Len(Written(target)) = At(part[target]) /\ Written(target) \in Seq(Row)
         /\ part[target] \in Nat /\ buffers[target] \in Seq(Row) /\ buffers[target] # <<>>
  <1>1. /\ target \in Buckets /\ part[target] \in Nat /\ buffers[target] \in Seq(Row)
        /\ WalInv /\ LocalInv /\ PartsInv
    BY DEF ConvertInv, LocalInv
  <1>2. ReadInv /\ BucketInv(target) /\ buffers[target] # <<>>
    BY <1>1 DEF ConvertInv, RunInv, During, Writing, StageInv
  <1>3. Written(target) \in Seq(Row)
    BY <1>1, <1>2, WrittenTyped DEF BucketInv
  <1>4. Len(Written(target)) = At(part[target]) /\ Len(buffers[target]) <= RowGroupRows
    BY <1>2 DEF BucketInv
  <1>5. PICK x \in Seq(Row), y \in Seq(Row) :
          BucketRows(target) = ((Written(target) \o buffers[target]) \o x) \o y
    <2>1. PICK done \in Seq(Row), rest \in Seq(Row) : ReadSoFar(done, rest)
      BY <1>2 DEF ReadInv
    <2>2. /\ BucketRows(target) =
               ((Written(target) \o buffers[target]) \o OfBucket(data, target)) \o OfBucket(rest, target)
          /\ OfBucket(data, target) \in Seq(Row) /\ OfBucket(rest, target) \in Seq(Row)
      BY <1>1, <2>1, BucketSplit
    <2> QED  BY <2>2
  <1> DEFINE w == Written(target)
             u == buffers[target]
             n == At(part[target])
             v == (w \o u) \o x
             z == BucketRows(target)
  <1>6. n \in Nat /\ w \in Seq(Row) /\ Len(w) = n /\ u \in Seq(Row) /\ u # <<>> /\ z = v \o y
    BY <1>1, <1>2, <1>3, <1>4, <1>5, Groups
  <1> HIDE DEF w, u, n, z
  <1>7. /\ w \o u \in Seq(Row) /\ Len(w \o u) = n + Len(u)
        /\ \A j \in 1 .. Len(u) : (w \o u)[n + j] = u[j]
        /\ Len(u) \in Nat \ {0}
    <2>1. Len(u) \in Nat \ {0}
      BY <1>6
    <2>2. /\ w \o u \in Seq(Row) /\ Len(w \o u) = Len(w) + Len(u)
          /\ \A i \in 1 .. Len(w) + Len(u) : (w \o u)[i] = IF i <= Len(w) THEN w[i] ELSE u[i - Len(w)]
      BY <1>6, ConcatProperties
    <2>3. ASSUME NEW j \in 1 .. Len(u) PROVE (w \o u)[n + j] = u[j]
      <3>1. n + j \in 1 .. n + Len(u) /\ ~(n + j <= n) /\ (n + j) - n = j
        BY <1>6, <2>1
      <3> QED  BY <1>6, <2>2, <3>1
    <2> QED  BY <1>6, <2>1, <2>2, <2>3
  <1>8. v \in Seq(Row) /\ Len(v) = (n + Len(u)) + Len(x) /\ Len(x) \in Nat
        /\ \A j \in 1 .. n + Len(u) : v[j] = (w \o u)[j]
    <2> DEFINE e == w \o u
    <2>1. e \in Seq(Row) /\ Len(e) = n + Len(u)
      BY <1>7
    <2> HIDE DEF e
    <2>2. e \o x \in Seq(Row) /\ Len(e \o x) = Len(e) + Len(x) /\ Len(x) \in Nat
          /\ \A j \in 1 .. Len(e) : (e \o x)[j] = e[j]
      BY <2>1
    <2> QED  BY <2>1, <2>2 DEF e
  <1> HIDE DEF v
  <1>9. /\ Len(z) = ((n + Len(u)) + Len(x)) + Len(y) /\ Len(y) \in Nat
        /\ \A j \in 1 .. n + Len(u) : z[j] = v[j]
    <2>1. Len(v \o y) = Len(v) + Len(y) /\ Len(y) \in Nat
          /\ \A j \in 1 .. Len(v) : (v \o y)[j] = v[j]
      BY <1>8
    <2>2. \A j \in 1 .. n + Len(u) : j \in 1 .. Len(v)
      BY <1>6, <1>7, <1>8
    <2> QED  BY <1>6, <1>8, <2>1, <2>2
  <1>10. n < Len(z) /\ n + Len(u) <= Len(z)
    BY <1>6, <1>7, <1>8, <1>9
  <1>11. \A j \in 1 .. Len(u) : u[j] = z[n + j]
    <2> SUFFICES ASSUME NEW j \in 1 .. Len(u) PROVE u[j] = z[n + j]
      OBVIOUS
    <2>1. n + j \in 1 .. n + Len(u)
      BY <1>6, <1>7
    <2> QED  BY <1>7, <1>8, <1>9, <2>1
  <1> QED  BY <1>1, <1>2, <1>3, <1>4, <1>10, <1>11 DEF Piece, w, u, n, z

-----------------------------------------------------------------------------
(* The locals and the parts keep their shape.                              *)

LEMMA FirstBucketIs == FirstBucket \in Buckets
  <1>1. Buckets \in SUBSET Nat /\ Buckets # {}
    BY ConvertAssumption
  <1>2. \E b \in Buckets : \A c \in Buckets : b <= c
    BY <1>1, LeastNumber
  <1> QED  BY <1>2 DEF FirstBucket

LEMMA FreshLocals == NoBuffers \in [Buckets -> Seq(Row)] /\ NoParts \in [Buckets -> Nat]
  <1>1. <<>> \in Seq(Row)
    OBVIOUS
  <1> QED  BY <1>1 DEF NoBuffers, NoParts

LEMMA GoneKeeps ==
  ASSUME Gone
  PROVE  LocalInv'
  <1>1. <<>> \in Seq(Row)
    OBVIOUS
  <1> QED  BY <1>1, FirstBucketIs, FreshLocals DEF Gone, LocalInv, Ended

LEMMA LocalKeeps ==
  ASSUME ConvertInv, Next
  PROVE  LocalInv'
  <1>0. LocalInv /\ wal \in Seq(Seq(Row)) /\ Len(wal) \in Nat /\ <<>> \in Seq(Row)
    BY DEF ConvertInv, WalInv
  <1>1. CASE WriteWal
    BY <1>0, <1>1 DEF LocalInv, WriteWal, NewSegment, BeginRow, EndRow, localVars
  <1>2. CASE Start
    BY <1>0, <1>2, FreshLocals DEF LocalInv, Start, Running
  <1>3. CASE ReadFile
    <2>1. listed <= Len(wal) /\ file \in Nat \ {0} /\ listed \in Nat /\ file <= listed
      BY <1>0, <1>3 DEF ConvertInv, RunInv, ReadInv, During, ReadFile, LocalInv
    <2>2. file \in 1 .. Len(wal) /\ file + 1 \in Nat \ {0}
      BY <1>0, <2>1
    <2>3. wal[file] \in Seq(Row)
      BY <1>0, <2>2
    <2> QED  BY <1>0, <1>3, <2>2, <2>3 DEF LocalInv, ReadFile
  <1>4. CASE SortRow
    <2>1. data \in Seq(Row) /\ data # <<>>
      BY <1>0, <1>4 DEF LocalInv, SortRow
    <2> DEFINE row == Head(data)
    <2>2. row \in Row /\ Tail(data) \in Seq(Row) /\ row.bucket \in Buckets
      <3>1. Head(data) \in Row /\ Tail(data) \in Seq(Row)
        BY <2>1, HeadTailProperties
      <3> QED  BY <3>1 DEF Row
    <2>3. /\ buffers' = [buffers EXCEPT ![row.bucket] = Append(@, row)] /\ data' = Tail(data)
          /\ target' = row.bucket \/ target' = target
          /\ cpc' = "write" \/ cpc' = cpc
          /\ UNCHANGED <<listed, file, part, total>>
      BY <1>4, Zenon DEF SortRow
    <2> HIDE DEF row
    <2>4. buffers \in [Buckets -> Seq(Row)] /\ Append(buffers[row.bucket], row) \in Seq(Row)
      BY <1>0, <2>2 DEF LocalInv
    <2>5. buffers' \in [Buckets -> Seq(Row)]
      BY <2>2, <2>3, <2>4
    <2> QED  BY <1>0, <2>2, <2>3, <2>5 DEF LocalInv, Running
  <1>5. CASE WriteRest
    <2>1. target' \in Buckets
      BY <1>5 DEF WriteRest, NonEmpty
    <2> QED  BY <1>0, <1>5, <2>1 DEF LocalInv, WriteRest, Running
  <1>6. CASE Finish
    BY <1>0, <1>6 DEF LocalInv, Finish, Ended, localVars
  <1>7. CASE OpenPart
    BY <1>0, <1>7 DEF LocalInv, OpenPart, Running, localVars
  <1>8. CASE ClosePart
    <2>1. Len(buffers[target]) \in Nat
      BY <1>0 DEF LocalInv
    <2>2. total' \in Nat
      BY <1>0, <1>8, <2>1 DEF LocalInv, ClosePart
    <2>3. part' \in [Buckets -> Nat] /\ buffers' \in [Buckets -> Seq(Row)]
      BY <1>0, <1>8 DEF LocalInv, ClosePart, NextNumber, EmptyBuffer
    <2> QED  BY <1>0, <1>8, <2>2, <2>3 DEF LocalInv, ClosePart, Running
  <1>9. CASE RefuseFile \/ WriteFails \/ Kill
    BY <1>9, GoneKeeps DEF RefuseFile, WriteFails, Kill
  <1> QED
    BY <1>1, <1>2, <1>3, <1>4, <1>5, <1>6, <1>7, <1>8, <1>9 DEF Next, Convert

\* Only three steps touch the parts.
LEMMA PartsUntouched ==
  ASSUME PartsInv, out' = out, WalRows' = WalRows
  PROVE  PartsInv'
  BY DEF PartsInv, BucketRows, Piece, At

LEMMA PartsKeep ==
  ASSUME ConvertInv, Next
  PROVE  PartsInv'
  <1>0. WalInv /\ LocalInv /\ PartsInv
    BY DEF ConvertInv
  <1>1. CASE WriteWal
    <2>1. out' = out
      BY <1>1 DEF WriteWal, NewSegment, BeginRow, EndRow
    <2>2. PICK t \in Seq(Row) : WalRows' = WalRows \o t
      BY <1>0, <1>1, WalGrows
    <2>3. \A b \in Buckets : BucketRows(b)' = BucketRows(b) \o OfBucket(t, b)
      BY <1>0, <2>2, BucketsGrow
    <2>4. ASSUME NEW b \in Buckets, NEW k \in DOMAIN out[b]
          PROVE  Piece(out[b][k], k, BucketRows(b)')
      <3>1. out[b][k] \in Part /\ k \in Nat /\ Piece(out[b][k], k, BucketRows(b))
        BY <1>0 DEF PartsInv
      <3>2. BucketRows(b) \in Seq(Row) /\ OfBucket(t, b) \in Seq(Row)
        BY <1>0, WalRowsTyped, OfBucketTyped DEF WalInv
      <3> QED  BY <2>3, <3>1, <3>2, PieceGrows
    <2>5. \A b \in Buckets : \A k \in DOMAIN out[b] : Piece(out[b][k], k, BucketRows(b))'
      BY <2>1, <2>4 DEF Piece, At
    <2> QED  BY <1>0, <2>1, <2>5 DEF PartsInv
  <1>2. ASSUME NEW p \in Part, PutPart(p), WalRows' = WalRows,
               part[target] \in Nat, Piece(p, part[target], BucketRows(target))
        PROVE  PartsInv'
    <2> DEFINE n == part[target]
    <2>1. /\ DOMAIN out' = Buckets
          /\ \A b \in Buckets \ {target} : out'[b] = out[b]
          /\ DOMAIN out'[target] = DOMAIN out[target] \cup {n}
          /\ out'[target][n] = p
          /\ \A k \in DOMAIN out[target] \ {n} : out'[target][k] = out[target][k]
      BY <1>0, <1>2, PutPartFacts
    <2>2. ASSUME NEW b \in Buckets, NEW k \in DOMAIN out'[b]
          PROVE  k \in Nat /\ out'[b][k] \in Part /\ Piece(out'[b][k], k, BucketRows(b))
      <3> HIDE DEF n
      <3>1. CASE b = target /\ k = n
        BY <1>2, <2>1, <3>1 DEF n
      <3>2. CASE ~(b = target /\ k = n)
        <4>1. k \in DOMAIN out[b] /\ out'[b][k] = out[b][k]
          BY <2>1, <3>2
        <4> QED  BY <1>0, <4>1 DEF PartsInv
      <3> QED  BY <3>1, <3>2
    <2>3. \A b \in Buckets : \A k \in DOMAIN out'[b] : Piece(out[b][k], k, BucketRows(b))'
      BY <1>2, <2>2 DEF Piece, At, BucketRows
    <2> QED  BY <2>1, <2>2, <2>3 DEF PartsInv
  <1>3. CASE OpenPart
    <2>1. /\ cpc \in Writing /\ PutPart(NoPart) /\ WalRows' = WalRows
      BY <1>3 DEF OpenPart, Writing, walVars, WalRows
    <2>2. part[target] \in Nat /\ At(part[target]) < Len(BucketRows(target))
      BY <2>1, NextPiece
    <2>3. NoPart \in Part /\ Piece(NoPart, part[target], BucketRows(target))
      <3>1. NoPart.rows = <<>> /\ NoPart.whole = FALSE /\ NoPart \in Part
        <4>1. <<>> \in Seq(Row)
          OBVIOUS
        <4> QED  BY <4>1 DEF NoPart, Part
      <3>2. /\ Len(NoPart.rows) = 0 /\ RowGroupRows \in Nat /\ At(part[target]) \in Nat
            /\ Len(BucketRows(target)) \in Nat
        BY <1>0, <2>2, <3>1, Groups, ConvertAssumption, WalRowsTyped DEF WalInv, LocalInv
      <3> HIDE DEF NoPart
      <3> QED  BY <2>2, <3>1, <3>2 DEF Piece
    <2> QED  BY <1>2, <2>1, <2>2, <2>3
  <1>4. CASE ClosePart
    <2> DEFINE p == [rows |-> buffers[target], whole |-> TRUE]
    <2>1. /\ cpc \in Writing /\ PutPart(p) /\ WalRows' = WalRows
      BY <1>4 DEF ClosePart, Writing, walVars, WalRows
    <2>2. Piece(p, part[target], BucketRows(target)) /\ part[target] \in Nat /\ p \in Part
      BY <2>1, NextPiece DEF Part
    <2> QED  BY <1>2, <2>1, <2>2
  <1>5. CASE WriteFails
    <2>1. /\ WalRows' = WalRows /\ target \in Buckets /\ DOMAIN out = Buckets
          /\ out' = [out EXCEPT ![target] = [k \in DOMAIN @ \ {part[target]} |-> @[k]]]
      BY <1>0, <1>5 DEF WriteFails, walVars, WalRows, LocalInv, PartsInv
    <2>2. DOMAIN out' = Buckets
      BY <2>1
    <2>3. ASSUME NEW b \in Buckets, NEW k \in DOMAIN out'[b]
          PROVE  k \in DOMAIN out[b] /\ out'[b][k] = out[b][k]
      BY <2>1
    <2>4. \A b \in Buckets : \A k \in DOMAIN out'[b] : Piece(out[b][k], k, BucketRows(b))'
      BY <1>0, <2>1, <2>3 DEF PartsInv, Piece, At, BucketRows
    <2> QED  BY <1>0, <2>2, <2>3, <2>4 DEF PartsInv
  <1>6. CASE Start \/ ReadFile \/ RefuseFile \/ SortRow \/ WriteRest \/ Finish \/ Kill
    <2>1. out' = out /\ WalRows' = WalRows
      BY <1>6 DEF Start, ReadFile, RefuseFile, SortRow, WriteRest, Finish, Kill, walVars, WalRows
    <2> QED  BY <1>0, <2>1, PartsUntouched
  <1> QED  BY <1>1, <1>3, <1>4, <1>5, <1>6 DEF Next, Convert

-----------------------------------------------------------------------------
(* What a run has written and what it owes.                                *)

LEMMA WrittenSame ==
  ASSUME LocalInv, NEW b \in Buckets, part'[b] = part[b],
         \A k \in 0 .. part[b] - 1 : out'[b][k] = out[b][k]
  PROVE  Written(b)' = Written(b)
  <1>1. part[b] \in Nat
    BY DEF LocalInv
  <1>2. \A k \in 1 .. part[b] : k - 1 \in 0 .. part[b] - 1
    BY <1>1
  <1>3. \A k \in 1 .. part[b] : out'[b][k - 1].rows = out[b][k - 1].rows
    BY <1>2
  <1>4. [k \in 1 .. part'[b] |-> out'[b][k - 1].rows] = [k \in 1 .. part[b] |-> out[b][k - 1].rows]
    BY <1>3
  <1> QED  BY <1>4 DEF Written

LEMMA OutSame ==
  ASSUME out' = out, part' = part
  PROVE  /\ \A b \in Buckets : Written(b)' = Written(b)
         /\ CountInv /\ total' = total => CountInv'
  <1>1. \A b \in Buckets : Written(b)' = Written(b)
    BY DEF Written
  <1>2. WrittenBy' = WrittenBy
    BY <1>1 DEF WrittenBy
  <1> QED  BY <1>1, <1>2 DEF CountInv, NumberOfRows, Places

LEMMA OwedSame ==
  ASSUME WalInv, NEW t \in Seq(Row), WalRows' = WalRows \o t, owed' = owed
  PROVE  \A b \in Buckets : Owed(b)' = Owed(b)
  <1>1. WalRows \in Seq(Row) /\ owed \in 0 .. Len(WalRows)
    BY WalRowsTyped DEF WalInv
  <1>2. SubSeq(WalRows \o t, 1, owed) = SubSeq(WalRows, 1, owed)
    BY <1>1, FirstOfConcat
  <1> QED  BY <1>2 DEF Owed

LEMMA OwedStays ==
  ASSUME WalInv, walVars' = walVars, owed' = owed
  PROVE  WalRows' = WalRows /\ \A b \in Buckets : Owed(b)' = Owed(b)
  BY DEF Owed, WalRows, walVars

\* The part that is closed is added to what has been written.
LEMMA WrittenNext ==
  ASSUME ConvertInv, ClosePart
  PROVE  /\ Written(target)' = Written(target) \o buffers[target]
         /\ \A b \in Buckets \ {target} : Written(b)' = Written(b)
         /\ part[target] \in Nat /\ part'[target] = part[target] + 1
         /\ \A b \in Buckets \ {target} : part'[b] = part[b] /\ buffers'[b] = buffers[b] /\ out'[b] = out[b]
         /\ buffers'[target] = <<>>
         /\ DOMAIN out'[target] = DOMAIN out[target] \cup {part[target]}
         /\ out'[target][part[target]].whole
         /\ \A k \in DOMAIN out[target] \ {part[target]} : out'[target][k] = out[target][k]
         /\ Written(target)' \in Seq(Row)
  <1> DEFINE p == [rows |-> buffers[target], whole |-> TRUE]
             n == part[target]
             m == n + 1
  <1>0. WalInv /\ LocalInv /\ PartsInv /\ PutPart(p) /\ BucketInv(target)
    BY DEF ConvertInv, ClosePart, RunInv, During, LocalInv
  <1>1. /\ \A b \in Buckets \ {target} : out'[b] = out[b]
        /\ DOMAIN out'[target] = DOMAIN out[target] \cup {n}
        /\ out'[target][n] = p
        /\ \A k \in DOMAIN out[target] \ {n} : out'[target][k] = out[target][k]
    BY <1>0, PutPartFacts
  <1>2. /\ target \in Buckets /\ n \in Nat /\ part'[target] = m /\ buffers'[target] = <<>>
        /\ \A b \in Buckets \ {target} : part'[b] = part[b] /\ buffers'[b] = buffers[b]
        /\ buffers[target] \in Seq(Row)
    BY <1>0 DEF LocalInv, ClosePart, NextNumber, EmptyBuffer
  <1>3. \A b \in Buckets \ {target} : Written(b)' = Written(b)
    BY <1>0, <1>1, <1>2, WrittenSame
  <1> DEFINE g == [k \in 1 .. n |-> out[target][k - 1].rows]
             f == [k \in 1 .. m |-> out'[target][k - 1].rows]
  <1>4. g \in [1 .. n -> Seq(Row)] /\ Written(target) = FlattenSeq(g)
    BY <1>0, <1>2, WrittenTyped DEF BucketInv, Written
  <1>5. f[m] = buffers[target]
    <2>1. m \in 1 .. m /\ m - 1 = n
      BY <1>2
    <2> HIDE DEF n, m
    <2> QED  BY <1>1, <2>1
  <1>6. ASSUME NEW k \in 1 .. n PROVE f[k] = g[k]
    <2>1. k \in 1 .. m /\ k - 1 \in 0 .. n - 1 /\ k - 1 # n
      BY <1>2
    <2>2. k - 1 \in DOMAIN out[target]
      BY <1>0, <2>1 DEF BucketInv
    <2> HIDE DEF n, m
    <2> QED  BY <1>1, <2>1, <2>2
  <1>7. Written(target)' = FlattenSeq(f)
    <2>1. target' = target
      BY DEF ClosePart
    <2> QED  BY <1>2, <2>1 DEF Written
  <1>8. ASSUME NEW k \in 1 .. m PROVE f[k] \in Seq(Row)
    <2>1. k = m \/ k \in 1 .. n
      BY <1>2
    <2> HIDE DEF f, g, m, n
    <2> QED  BY <1>2, <1>4, <1>5, <1>6, <2>1
  <1>9. f \in [1 .. m -> Seq(Row)]
    BY <1>8
  <1>10. FlattenSeq(f) = FlattenSeq(g) \o f[m] /\ FlattenSeq(f) \in Seq(Row)
    <2>1. m = n + 1
      OBVIOUS
    <2> HIDE DEF f, g, m, n
    <2>2. FlattenSeq(f) = FlattenSeq(g) \o f[n + 1]
      BY <1>2, <1>4, <1>6, <1>9, <2>1, FlattenNext
    <2>3. m \in Nat
      BY <1>2, <2>1
    <2>4. FlattenSeq(f) \in Seq(Row)
      BY <1>9, <2>3, FunctionIsSeq, FlattenTyped
    <2> QED  BY <2>1, <2>2, <2>4
  <1> HIDE DEF f, g
  <1> QED  BY <1>1, <1>2, <1>3, <1>4, <1>5, <1>7, <1>10

-----------------------------------------------------------------------------
(* Every step keeps what holds during a run.                               *)

LEMMA RunFacts ==
  ASSUME ConvertInv
  PROVE  /\ WalInv /\ LocalInv /\ PartsInv
         /\ cpc \in During => ReadInv /\ StageInv /\ CountInv /\ \A b \in Buckets : BucketInv(b)
         /\ wal \in Seq(Seq(Row)) /\ Len(wal) \in Nat
         /\ WalRows \in Seq(Row) /\ Len(WalRows) \in Nat
         /\ data \in Seq(Row) /\ listed \in Nat /\ file \in Nat \ {0} /\ owed \in Nat
         /\ RowGroupRows \in Nat \ {0}
  BY WalRowsTyped, ConvertAssumption DEF ConvertInv, RunInv, WalInv, LocalInv

\* The WAL grows behind what the run has read.
LEMMA RunWhileWalGrows ==
  ASSUME ConvertInv, WriteWal
  PROVE  RunInv'
  <1> SUFFICES ASSUME cpc \in During PROVE (ReadInv /\ (\A b \in Buckets : BucketInv(b)) /\ StageInv /\ CountInv)'
    <2>1. cpc' = cpc
      BY DEF WriteWal, NewSegment, BeginRow, EndRow
    <2> QED  BY <2>1 DEF RunInv
  <1>0. /\ ReadInv /\ StageInv /\ CountInv /\ \A b \in Buckets : BucketInv(b)
        /\ WalInv /\ LocalInv
        /\ wal \in Seq(Seq(Row)) /\ Len(wal) \in Nat /\ WalRows \in Seq(Row)
        /\ data \in Seq(Row) /\ listed \in Nat /\ file \in Nat \ {0} /\ owed \in Nat
    BY RunFacts
  <1>1. /\ out' = out /\ part' = part /\ cpc' = cpc /\ total' = total /\ owed' = owed
        /\ listed' = listed /\ file' = file /\ data' = data /\ buffers' = buffers /\ target' = target
    BY DEF WriteWal, NewSegment, BeginRow, EndRow, localVars
  <1>2. /\ wal' \in Seq(Seq(Row)) /\ Len(wal) <= Len(wal')
        /\ \A i \in 0 .. Len(wal) - 1 : SubSeq(wal', 1, i) = SubSeq(wal, 1, i)
        /\ Len(FlattenSeq(SubSeq(wal, 1, Len(wal)))) <= Len(FlattenSeq(SubSeq(wal', 1, Len(wal))))
    BY <1>0, WalGrows
  <1>3. PICK t \in Seq(Row) : WalRows' = WalRows \o t
    BY <1>0, WalGrows
  <1>4. /\ \A b \in Buckets : Written(b)' = Written(b) /\ Owed(b)' = Owed(b)
        /\ CountInv'
    BY <1>0, <1>1, <1>3, OutSame, OwedSame
  <1>5. Len(wal') \in Nat
    BY <1>2
  <1>6. listed <= Len(wal') /\ file <= listed + 1 /\ listed <= Len(wal)
    BY <1>0, <1>2, <1>5 DEF ReadInv
  <1>7. owed <= Len(FlattenSeq(SubSeq(wal', 1, listed)))
    <2>1. owed <= Len(FlattenSeq(SubSeq(wal, 1, listed)))
      BY <1>0 DEF ReadInv
    <2>2. CASE listed = Len(wal)
      <3>1. listed \in 0 .. Len(wal) /\ listed \in 0 .. Len(wal')
        BY <1>0, <1>5, <1>6
      <3>2. FlattenSeq(SubSeq(wal, 1, listed)) \in Seq(Row) /\ FlattenSeq(SubSeq(wal', 1, listed)) \in Seq(Row)
        BY <1>0, <1>2, <3>1, FlattenSplit
      <3>3. Len(FlattenSeq(SubSeq(wal, 1, listed))) \in Nat /\ Len(FlattenSeq(SubSeq(wal', 1, listed))) \in Nat
        BY <3>2
      <3>4. Len(FlattenSeq(SubSeq(wal, 1, listed))) <= Len(FlattenSeq(SubSeq(wal', 1, listed)))
        BY <1>2, <2>2
      <3> QED  BY <1>0, <2>1, <3>3, <3>4
    <2>3. CASE listed # Len(wal)
      <3>1. listed \in 0 .. Len(wal) - 1
        BY <1>0, <1>6, <2>3
      <3> QED  BY <1>2, <2>1, <3>1
    <2> QED  BY <2>2, <2>3
  <1>8. PICK done \in Seq(Row), rest \in Seq(Row) : ReadSoFar(done, rest)
    BY <1>0 DEF ReadInv
  <1>9. rest \o t \in Seq(Row) /\ WalRows' = (done \o data) \o (rest \o t)
    <2> DEFINE a == done \o data
    <2>1. a \in Seq(Row) /\ WalRows = a \o rest
      BY <1>0, <1>8 DEF ReadSoFar
    <2> HIDE DEF a
    <2>2. (a \o rest) \o t = a \o (rest \o t)
      BY <1>8, <2>1, ConcatAssociative
    <2> QED  BY <1>3, <1>8, <2>1, <2>2 DEF a
  <1>10. /\ file > 1 => SubSeq(wal', 1, file - 2) = SubSeq(wal, 1, file - 2)
         /\ file <= listed => SubSeq(wal', 1, file - 1) = SubSeq(wal, 1, file - 1)
    <2>1. file > 1 => file - 2 \in 0 .. Len(wal) - 1
      BY <1>0, <1>6
    <2>2. file <= listed => file - 1 \in 0 .. Len(wal) - 1
      BY <1>0, <1>6
    <2> QED  BY <1>2, <2>1, <2>2
  <1>11. ReadSoFar(done, rest \o t)'
    <2>1. \A b \in Buckets : (Written(b) \o buffers[b] = OfBucket(done, b))'
      BY <1>1, <1>4, <1>8 DEF ReadSoFar, OfBucket
    <2> QED  BY <1>1, <1>8, <1>9, <1>10, <2>1 DEF ReadSoFar
  <1>12. ReadInv'
    BY <1>1, <1>6, <1>7, <1>8, <1>9, <1>11 DEF ReadInv
  <1>13. ASSUME NEW b \in Buckets PROVE BucketInv(b)'
    BY <1>0, <1>1, <1>4 DEF BucketInv, AllRead, At
  <1>14. StageInv'
    BY <1>0, <1>1 DEF StageInv, AllRead
  <1> QED  BY <1>4, <1>12, <1>13, <1>14

LEMMA RunBegins ==
  ASSUME ConvertInv, Start
  PROVE  RunInv'
  <1>0. /\ WalInv /\ LocalInv /\ PartsInv
        /\ wal \in Seq(Seq(Row)) /\ Len(wal) \in Nat
        /\ WalRows \in Seq(Row) /\ Len(WalRows) \in Nat /\ RowGroupRows \in Nat \ {0}
    BY RunFacts
  <1>1. /\ wal' = wal /\ out' = out /\ cpc' = "read" /\ owed' = Len(WalRows)
        /\ listed' = Len(wal) /\ file' = 1 /\ data' = <<>> /\ total' = 0
        /\ \A b \in Buckets : buffers'[b] = <<>> /\ part'[b] = 0
        /\ WalRows' = WalRows
    BY DEF Start, walVars, NoBuffers, NoParts, WalRows
  <1>2. \A b \in Buckets : Written(b)' = <<>>
    <2> SUFFICES ASSUME NEW b \in Buckets PROVE Written(b)' = <<>>
      OBVIOUS
    <2>1. [k \in 1 .. part'[b] |-> out'[b][k - 1].rows] = <<>>
      BY <1>1
    <2> QED  BY <2>1, FlattenNothing DEF Written
  <1>3. CountInv'
    <2>1. \A b \in Buckets : WrittenBy'[b] = <<>>
      BY <1>2 DEF WrittenBy
    <2>2. \A b \in Buckets : {b} \X (1 .. Len(WrittenBy'[b])) = {}
      BY <2>1
    <2>3. Places(WrittenBy)' = {}
      BY <2>2 DEF Places
    <2> QED  BY <1>1, <2>3, FS_EmptySet DEF CountInv, NumberOfRows
  <1>4. \A b \in Buckets : Owed(b)' = Len(BucketRows(b))
    BY <1>0, <1>1, SubSeqFull DEF Owed, BucketRows
  <1>5. ASSUME NEW b \in Buckets PROVE BucketInv(b)'
    <2>1. ASSUME NEW k \in DOMAIN out[b] PROVE At(k) < Len(BucketRows(b))
      BY <1>0 DEF PartsInv, Piece
    <2>2. At(0) = 0
      <3>1. \A g \in Nat : 0 * g = 0
        OBVIOUS
      <3> QED  BY <1>0, <3>1 DEF At
    <2>3. /\ \A k \in 0 .. part'[b] - 1 : k \in DOMAIN out'[b] /\ out'[b][k].whole
          /\ Len(buffers'[b]) = 0
          /\ Len(Written(b)') = 0
      BY <1>1, <1>2
    <2>4. Len(Written(b)') = At(part'[b])
      BY <1>1, <2>2, <2>3
    <2>5. \A k \in DOMAIN out'[b] : At(k) < Owed(b)'
      BY <1>1, <1>4, <2>1
    <2>6. Len(Written(b)') <= At(part'[b]) /\ Len(buffers'[b]) <= RowGroupRows /\ Len(buffers'[b]) # RowGroupRows
      BY <1>0, <2>3, <2>4
    <2> QED  BY <2>3, <2>4, <2>5, <2>6 DEF BucketInv, At
  <1>6. FlattenSeq(SubSeq(wal, 1, Len(wal))) = WalRows
    BY <1>0, SubSeqFull DEF WalRows
  <1>7. (ReadSoFar(<<>>, WalRows))'
    <2>1. <<>> \o <<>> = <<>> /\ <<>> \o WalRows = WalRows
      BY <1>0
    <2>2. \A b \in Buckets : (Written(b) \o buffers[b] = OfBucket(<<>>, b))'
      BY <1>1, <1>2, <2>1, OfBucketNothing
    <2>3. SubSeq(wal, 1, 0) = <<>> /\ 1 - 1 = 0
      BY SubSeqEmpty
    <2>4. file' > listed' => owed' <= Len(<<>>)
      <3> SUFFICES ASSUME 1 > Len(wal) PROVE Len(WalRows) <= 0
        BY <1>1
      <3>1. Len(wal) = 0
        BY <1>0
      <3>2. wal = <<>>
        BY <1>0, <3>1
      <3> QED  BY <3>2, FlattenNothing DEF WalRows
    <2>5. FlattenSeq(SubSeq(wal', 1, file' - 1)) = <<>>
      BY <1>1, <2>3, FlattenNothing
    <2> QED  BY <1>1, <2>1, <2>2, <2>4, <2>5 DEF ReadSoFar
  <1>8. ReadInv'
    <2>1. <<>> \in Seq(Row) /\ WalRows' \in Seq(Row)
      BY <1>0, <1>1
    <2>2. /\ listed' <= Len(wal') /\ file' <= listed' + 1
          /\ owed' <= Len(FlattenSeq(SubSeq(wal', 1, listed')))
      BY <1>0, <1>1, <1>6
    <2> QED  BY <1>7, <2>1, <2>2 DEF ReadInv
  <1> QED  BY <1>1, <1>3, <1>5, <1>8 DEF RunInv, StageInv, Writing

\* The next segment is read.
LEMMA RunReads ==
  ASSUME ConvertInv, ReadFile
  PROVE  RunInv'
  <1>0. /\ ReadInv /\ StageInv /\ CountInv /\ \A b \in Buckets : BucketInv(b)
        /\ WalInv /\ LocalInv
        /\ wal \in Seq(Seq(Row)) /\ Len(wal) \in Nat /\ WalRows \in Seq(Row)
        /\ listed \in Nat /\ file \in Nat \ {0} /\ owed \in Nat
    BY RunFacts DEF ReadFile, During
  <1>1. /\ cpc = "read" /\ data = <<>> /\ file <= listed
        /\ data' = wal[file] /\ file' = file + 1 /\ listed' = listed /\ cpc' = "read"
        /\ wal' = wal /\ walVars' = walVars /\ out' = out /\ part' = part /\ buffers' = buffers
        /\ total' = total /\ owed' = owed
    BY DEF ReadFile, walVars
  <1>2. /\ WalRows' = WalRows /\ CountInv'
        /\ \A b \in Buckets : Written(b)' = Written(b) /\ Owed(b)' = Owed(b)
    BY <1>0, <1>1, OutSame, OwedStays
  <1>3. /\ file \in 1 .. Len(wal) /\ file \in 0 .. Len(wal) /\ listed <= Len(wal)
        /\ wal[file] \in Seq(Row)
    BY <1>0, <1>1 DEF ReadInv
  <1>4. PICK done \in Seq(Row), rest \in Seq(Row) : ReadSoFar(done, rest)
    BY <1>0 DEF ReadInv
  <1>5. done = FlattenSeq(SubSeq(wal, 1, file - 1))
    BY <1>1, <1>4, ConcatEmptySeq DEF ReadSoFar
  <1>6. FlattenSeq(SubSeq(wal, 1, file)) = done \o wal[file]
    BY <1>0, <1>3, <1>5, FlattenOneMore
  <1>7. PICK t \in Seq(Row) : WalRows = (done \o wal[file]) \o t
    BY <1>0, <1>3, <1>6, FlattenSplit DEF WalRows
  <1>8. Len(done) <= Len(done \o wal[file])
    BY <1>3, <1>4
  <1>9. ReadSoFar(done, t)'
    <2>1. \A b \in Buckets : (Written(b) \o buffers[b] = OfBucket(done, b))'
      BY <1>1, <1>2, <1>4 DEF ReadSoFar, OfBucket
    <2>2. /\ (file + 1) - 2 = file - 1 /\ (file + 1) - 1 = file
          /\ file + 1 > listed => file = listed
      BY <1>0, <1>1
    <2>3. file' > 1 => Len(FlattenSeq(SubSeq(wal', 1, file' - 2))) <= Len(done \o data')
      BY <1>1, <1>5, <1>8, <2>2
    <2>4. file' <= listed' => done \o data' = FlattenSeq(SubSeq(wal', 1, file' - 1))
      BY <1>1, <1>6, <2>2
    <2>5. file' > listed' => owed' <= Len(done \o data')
      BY <1>0, <1>1, <1>6, <2>2 DEF ReadInv
    <2>6. WalRows' = (done \o data') \o t
      BY <1>1, <1>2, <1>7
    <2> QED  BY <2>1, <2>3, <2>4, <2>5, <2>6 DEF ReadSoFar
  <1>10. ReadInv'
    <2>1. file + 1 <= listed + 1
      BY <1>0, <1>1
    <2> QED  BY <1>0, <1>1, <1>4, <1>7, <1>9, <2>1 DEF ReadInv
  <1>11. ~AllRead
    BY <1>0, <1>1 DEF AllRead
  <1>12. ASSUME NEW b \in Buckets PROVE BucketInv(b)'
    BY <1>0, <1>1, <1>2, <1>11 DEF BucketInv, At, Writing
  <1> QED  BY <1>1, <1>2, <1>10, <1>12 DEF RunInv, StageInv, Writing

\* A row is sorted.
LEMMA RunSorts ==
  ASSUME ConvertInv, SortRow
  PROVE  RunInv'
  <1> DEFINE row == Head(data)
             c == row.bucket
  <1>0. /\ ReadInv /\ StageInv /\ CountInv /\ \A b \in Buckets : BucketInv(b)
        /\ WalInv /\ LocalInv
        /\ wal \in Seq(Seq(Row)) /\ Len(wal) \in Nat /\ WalRows \in Seq(Row)
        /\ data \in Seq(Row) /\ listed \in Nat /\ file \in Nat \ {0} /\ owed \in Nat
        /\ RowGroupRows \in Nat \ {0}
    BY RunFacts DEF SortRow, During
  <1>1. /\ cpc = "read" /\ data # <<>> /\ data' = Tail(data)
        /\ buffers' = [buffers EXCEPT ![c] = Append(@, row)]
        /\ wal' = wal /\ walVars' = walVars /\ out' = out /\ part' = part
        /\ listed' = listed /\ file' = file /\ total' = total /\ owed' = owed
    BY DEF SortRow, walVars
  <1>2. IF Len(buffers'[c]) >= RowGroupRows THEN cpc' = "write" /\ target' = c
                                            ELSE cpc' = cpc /\ target' = target
    BY DEF SortRow, GroupFull
  <1>3. row \in Row /\ c \in Buckets /\ Tail(data) \in Seq(Row)
    <2>1. row \in Row /\ Tail(data) \in Seq(Row)
      BY <1>0, <1>1, HeadTailProperties
    <2> QED  BY <2>1 DEF Row
  <1>4. data = <<row>> \o Tail(data)
    <2>1. Len(Tail(data)) = Len(data) - 1 /\ Len(data) \in Nat \ {0}
          /\ \A i \in 1 .. Len(Tail(data)) : Tail(data)[i] = data[i + 1]
      BY <1>0, <1>1, HeadTailProperties
    <2> DEFINE u == Tail(data)
    <2>2. u \in Seq(Row) /\ Len(u) = Len(data) - 1
          /\ \A i \in 1 .. Len(u) : u[i] = data[i + 1]
      BY <1>3, <2>1
    <2>3. row = data[1] /\ <<row>> \in Seq(Row)
      BY <1>0, <1>1, <1>3
    <2> HIDE DEF u, row
    <2>4. /\ <<row>> \o u \in Seq(Row) /\ Len(<<row>> \o u) = 1 + Len(u)
          /\ \A i \in 1 .. 1 + Len(u) : (<<row>> \o u)[i] = IF i <= 1 THEN row ELSE u[i - 1]
      BY <2>2, <2>3, ConcatProperties
    <2>5. ASSUME NEW i \in 1 .. Len(data) PROVE data[i] = (<<row>> \o u)[i]
      <3>1. i \in 1 .. 1 + Len(u)
        BY <2>1, <2>2
      <3>2. i = 1 \/ (~(i <= 1) /\ i - 1 \in 1 .. Len(u) /\ (i - 1) + 1 = i)
        BY <2>1, <2>2
      <3> QED  BY <2>2, <2>3, <2>4, <3>1, <3>2
    <2>6. Len(<<row>> \o u) = Len(data)
      <3>1. \A k \in Nat \ {0} : 1 + (k - 1) = k
        OBVIOUS
      <3> QED  BY <2>1, <2>2, <2>4, <3>1
    <2> QED  BY <1>0, <2>4, <2>5, <2>6, SeqEqual DEF u
  <1> HIDE DEF row
  <1>5. /\ CountInv' /\ WalRows' = WalRows
        /\ \A b \in Buckets : Written(b)' = Written(b) /\ Owed(b)' = Owed(b)
    BY <1>0, <1>1, OutSame, OwedStays
  <1>6. /\ buffers \in [Buckets -> Seq(Row)]
        /\ buffers'[c] = Append(buffers[c], row)
        /\ \A b \in Buckets \ {c} : buffers'[b] = buffers[b]
    BY <1>0, <1>1, <1>3 DEF LocalInv
  <1>7. /\ Len(buffers'[c]) = Len(buffers[c]) + 1 /\ buffers'[c] # <<>>
        /\ \A b \in Buckets : Len(buffers[b]) \in Nat
    <2>1. buffers[c] \in Seq(Row)
      BY <1>3, <1>6
    <2>2. Len(Append(buffers[c], row)) = Len(buffers[c]) + 1 /\ Append(buffers[c], row) # <<>>
      BY <1>3, <2>1, AppendProperties
    <2>3. \A b \in Buckets : Len(buffers[b]) \in Nat
      BY <1>6
    <2> QED  BY <1>6, <2>2, <2>3
  <1>8. \A b \in Buckets : Len(buffers[b]) < RowGroupRows
    <2>1. \A b \in Buckets : Len(buffers[b]) <= RowGroupRows /\ Len(buffers[b]) # RowGroupRows
      BY <1>0, <1>1 DEF BucketInv, Writing
    <2> QED  BY <1>0, <1>7, <2>1
  <1>9. ~AllRead
    BY <1>1 DEF AllRead
  <1>10. PICK done \in Seq(Row), rest \in Seq(Row) : ReadSoFar(done, rest)
    BY <1>0 DEF ReadInv
  <1>11. PICK more \in Seq(Row) : more = Append(done, row)
    <2>1. Append(done, row) \in Seq(Row)
      BY <1>3, AppendProperties
    <2> QED  BY <2>1
  <1>12. more \o data' = done \o data
    <2>1. more = done \o <<row>> /\ <<row>> \in Seq(Row)
      BY <1>3, <1>11, AppendIsConcat
    <2>2. (done \o <<row>>) \o Tail(data) = done \o (<<row>> \o Tail(data))
      BY <1>3, <2>1, ConcatAssociative
    <2> QED  BY <1>1, <1>3, <1>4, <2>1, <2>2
  <1>13. ASSUME NEW b \in Buckets
         PROVE  Written(b) \o buffers'[b] = OfBucket(more, b)
    <2>1. OfBucket(more, b) = IF c = b THEN Append(OfBucket(done, b), row) ELSE OfBucket(done, b)
      BY <1>3, <1>11, OfBucketAppend
    <2>2. OfBucket(done, b) = Written(b) \o buffers[b]
      BY <1>10 DEF ReadSoFar
    <2>3. CASE b = c
      <3> DEFINE w == Written(b)
                 u == buffers[b]
      <3>1. w \in Seq(Row) /\ u \in Seq(Row)
        BY <1>0, <1>6, RunFacts, WrittenTyped DEF BucketInv
      <3> HIDE DEF w, u
      <3>2. Append(w \o u, row) = w \o Append(u, row)
        <4>1. /\ Append(u, row) = u \o <<row>> /\ <<row>> \in Seq(Row)
              /\ w \o u \in Seq(Row)
          BY <1>3, <3>1
        <4>2. Append(w \o u, row) = (w \o u) \o <<row>>
          BY <1>3, <4>1, AppendIsConcat
        <4> QED  BY <3>1, <4>1, <4>2, ConcatAssociative
      <3> QED  BY <1>6, <2>1, <2>2, <2>3, <3>2 DEF w, u
    <2>4. CASE b # c
      BY <1>6, <2>1, <2>2, <2>4
    <2> QED  BY <2>3, <2>4
  <1>14. ReadSoFar(more, rest)'
    <2>1. \A b \in Buckets : (Written(b) \o buffers[b] = OfBucket(more, b))'
      BY <1>5, <1>13 DEF OfBucket
    <2> QED  BY <1>1, <1>5, <1>10, <1>12, <2>1 DEF ReadSoFar
  <1>15. ReadInv'
    BY <1>0, <1>1, <1>10, <1>12, <1>14 DEF ReadInv
  <1>16. ASSUME NEW b \in Buckets PROVE BucketInv(b)'
    <2>1. /\ Len(buffers'[b]) <= RowGroupRows
          /\ Len(buffers'[b]) = RowGroupRows => cpc' = "write" /\ b = target'
      <3>1. CASE b = c
        <4>1. Len(buffers'[b]) = Len(buffers[b]) + 1 /\ Len(buffers[b]) < RowGroupRows
          BY <1>7, <1>8, <3>1
        <4>2. Len(buffers'[b]) = RowGroupRows => Len(buffers'[c]) >= RowGroupRows
          BY <1>0, <3>1
        <4>3. Len(buffers[b]) \in Nat
          BY <1>7
        <4> QED  BY <1>0, <1>2, <3>1, <4>1, <4>2, <4>3
      <3>2. CASE b # c
        BY <1>0, <1>6, <1>7, <1>8, <3>2
      <3> QED  BY <3>1, <3>2
    <2>2. BucketInv(b) /\ Len(Written(b)) = At(part[b])
      BY <1>0, <1>9 DEF BucketInv
    <2> QED  BY <1>1, <1>5, <2>1, <2>2 DEF BucketInv, At, Writing
  <1>17. StageInv'
    <2>1. cpc' \in Writing => /\ target' = c /\ Len(buffers'[c]) >= RowGroupRows
      BY <1>1, <1>2 DEF Writing
    <2>2. Len(buffers'[c]) <= RowGroupRows /\ Len(buffers'[c]) \in Nat
      BY <1>0, <1>3, <1>7, <1>8
    <2>3. cpc' \in Writing => Len(buffers'[target']) = RowGroupRows /\ buffers'[target'] # <<>>
      BY <1>0, <1>7, <2>1, <2>2
    <2>4. cpc' # "done"
      BY <1>1, <1>2
    <2> QED  BY <2>3, <2>4 DEF StageInv
  <1> QED  BY <1>5, <1>15, <1>16, <1>17 DEF RunInv

\* What is left is to be written, or nothing is.
LEMMA RunTurns ==
  ASSUME ConvertInv, WriteRest \/ Finish
  PROVE  RunInv'
  <1>0. /\ ReadInv /\ StageInv /\ CountInv /\ \A b \in Buckets : BucketInv(b)
        /\ WalInv /\ LocalInv
    BY RunFacts DEF WriteRest, Finish, AllSorted, During
  <1>1. /\ cpc = "read" /\ AllRead
        /\ wal' = wal /\ walVars' = walVars /\ out' = out /\ part' = part /\ data' = data
        /\ listed' = listed /\ file' = file /\ total' = total /\ owed' = owed /\ buffers' = buffers
    BY DEF WriteRest, Finish, walVars, localVars, AllSorted, AllRead
  <1>2. /\ CountInv' /\ WalRows' = WalRows
        /\ \A b \in Buckets : Written(b)' = Written(b) /\ Owed(b)' = Owed(b)
    BY <1>0, <1>1, OutSame, OwedStays
  <1>3. PICK done \in Seq(Row), rest \in Seq(Row) : ReadSoFar(done, rest)
    BY <1>0 DEF ReadInv
  <1>4. ReadSoFar(done, rest)'
    <2>1. \A b \in Buckets : (Written(b) \o buffers[b] = OfBucket(done, b))'
      BY <1>1, <1>2, <1>3 DEF ReadSoFar, OfBucket
    <2> QED  BY <1>1, <1>2, <1>3, <2>1 DEF ReadSoFar
  <1>5. ReadInv'
    BY <1>0, <1>1, <1>3, <1>4 DEF ReadInv
  <1>6. ASSUME NEW b \in Buckets PROVE BucketInv(b)'
    BY <1>0, <1>1, <1>2 DEF BucketInv, At, Writing, AllRead
  <1>7. StageInv'
    <2>1. CASE WriteRest
      <3>1. cpc' = "write" /\ buffers[target'] # <<>>
        BY <2>1 DEF WriteRest, NonEmpty
      <3> QED  BY <1>1, <3>1 DEF StageInv, AllRead
    <2>2. CASE Finish
      <3>1. cpc' = "done" /\ \A b \in Buckets : buffers[b] = <<>>
        BY <2>2 DEF Finish, NonEmpty
      <3> QED  BY <1>1, <3>1 DEF StageInv, AllRead, Writing
    <2> QED  BY <2>1, <2>2
  <1> QED  BY <1>2, <1>5, <1>6, <1>7 DEF RunInv

\* A part is opened, which does not touch those the run has written.
LEMMA RunOpens ==
  ASSUME ConvertInv, OpenPart
  PROVE  RunInv'
  <1> DEFINE n == part[target]
  <1>0. /\ ReadInv /\ StageInv /\ CountInv /\ \A b \in Buckets : BucketInv(b)
        /\ WalInv /\ LocalInv /\ PartsInv /\ target \in Buckets /\ n \in Nat
    BY RunFacts DEF OpenPart, During, LocalInv
  <1>1. /\ cpc = "write" /\ cpc' = "open" /\ target' = target
        /\ wal' = wal /\ walVars' = walVars /\ part' = part /\ data' = data
        /\ listed' = listed /\ file' = file /\ total' = total /\ owed' = owed /\ buffers' = buffers
    BY DEF OpenPart, walVars, localVars
  <1>2. /\ \A b \in Buckets \ {target} : out'[b] = out[b]
        /\ DOMAIN out'[target] = DOMAIN out[target] \cup {n}
        /\ \A k \in DOMAIN out[target] \ {n} : out'[target][k] = out[target][k]
    BY <1>0, PutPartFacts DEF OpenPart
  <1>3. ASSUME NEW b \in Buckets, NEW k \in 0 .. part[b] - 1
        PROVE  k \in DOMAIN out'[b] /\ out'[b][k] = out[b][k] /\ out[b][k].whole
    <2>1. k \in DOMAIN out[b] /\ out[b][k].whole
      BY <1>0 DEF BucketInv
    <2>2. b = target => k # n
      BY <1>0
    <2> HIDE DEF n
    <2> QED  BY <1>2, <2>1, <2>2
  <1>4. \A b \in Buckets : Written(b)' = Written(b)
    BY <1>0, <1>1, <1>3, WrittenSame
  <1>5. /\ WalRows' = WalRows /\ \A b \in Buckets : Owed(b)' = Owed(b)
    BY <1>0, <1>1, OwedStays
  <1>6. CountInv'
    <2>1. WrittenBy' = WrittenBy
      BY <1>4 DEF WrittenBy
    <2> QED  BY <1>0, <1>1, <2>1 DEF CountInv, NumberOfRows, Places
  <1>7. PICK done \in Seq(Row), rest \in Seq(Row) : ReadSoFar(done, rest)
    BY <1>0 DEF ReadInv
  <1>8. ReadSoFar(done, rest)'
    <2>1. \A b \in Buckets : (Written(b) \o buffers[b] = OfBucket(done, b))'
      BY <1>1, <1>4, <1>7 DEF ReadSoFar, OfBucket
    <2> QED  BY <1>1, <1>5, <1>7, <2>1 DEF ReadSoFar
  <1>9. ReadInv'
    BY <1>0, <1>1, <1>7, <1>8 DEF ReadInv
  <1>10. ASSUME NEW b \in Buckets PROVE BucketInv(b)'
    <2>1. ASSUME NEW k \in DOMAIN out'[b]
          PROVE  k < part[b] \/ At(k) < Owed(b) \/ (b = target /\ k = part[b])
      <3>1. k \in DOMAIN out[b] \/ (b = target /\ k = part[b])
        BY <1>2
      <3> QED  BY <1>0, <1>1, <3>1 DEF BucketInv
    <2>2. \A k \in 0 .. part'[b] - 1 : k \in DOMAIN out'[b] /\ out'[b][k].whole
      BY <1>1, <1>3
    <2>3. BucketInv(b)
      BY <1>0
    <2> QED  BY <1>1, <1>4, <1>5, <2>1, <2>2, <2>3 DEF BucketInv, At, Writing, AllRead
  <1>11. StageInv'
    BY <1>0, <1>1 DEF StageInv, AllRead, Writing
  <1> QED  BY <1>6, <1>9, <1>10, <1>11 DEF RunInv

\* A part is closed: what was buffered is written.
LEMMA RunCloses ==
  ASSUME ConvertInv, ClosePart
  PROVE  RunInv'
  <1> DEFINE n == part[target]
             w == Written(target)
             u == buffers[target]
  <1>0. /\ ReadInv /\ StageInv /\ CountInv /\ \A b \in Buckets : BucketInv(b)
        /\ WalInv /\ LocalInv /\ PartsInv /\ target \in Buckets
        /\ RowGroupRows \in Nat \ {0} /\ total \in Nat
    BY RunFacts DEF ClosePart, During, LocalInv
  <1>1. /\ cpc = "open" /\ cpc' = "read" /\ target' = target
        /\ wal' = wal /\ walVars' = walVars /\ data' = data
        /\ listed' = listed /\ file' = file /\ owed' = owed
        /\ total' = total + Len(u)
    BY DEF ClosePart, walVars
  <1>2. /\ Written(target)' = w \o u /\ Written(target)' \in Seq(Row)
        /\ \A b \in Buckets \ {target} : Written(b)' = Written(b)
        /\ n \in Nat /\ part'[target] = n + 1
        /\ \A b \in Buckets \ {target} : part'[b] = part[b] /\ buffers'[b] = buffers[b] /\ out'[b] = out[b]
        /\ buffers'[target] = <<>>
        /\ DOMAIN out'[target] = DOMAIN out[target] \cup {n}
        /\ out'[target][n].whole
        /\ \A k \in DOMAIN out[target] \ {n} : out'[target][k] = out[target][k]
    BY WrittenNext
  <1>3. /\ WalRows' = WalRows /\ \A b \in Buckets : Owed(b)' = Owed(b)
    BY <1>0, <1>1, OwedStays
  <1>4. /\ Len(w) = At(n) /\ w \in Seq(Row) /\ u \in Seq(Row) /\ u # <<>>
    BY <1>1, NextPiece DEF Writing
  <1>5. At(n) \in Nat /\ At(n + 1) = At(n) + RowGroupRows
    BY <1>2, Groups
  <1>6. Len(u) <= RowGroupRows /\ (Len(u) = RowGroupRows \/ AllRead)
    BY <1>0, <1>1 DEF BucketInv, StageInv, Writing
  <1> HIDE DEF n, w, u
  <1>7. Len(u) \in Nat /\ Len(w \o u) = Len(w) + Len(u)
    BY <1>4
  <1>8. CountInv'
    <2> DEFINE s == WrittenBy
               t == WrittenBy'
               m == Len(u)
    <2>1. s[target] = w /\ t[target] = w \o u /\ \A c \in Buckets \ {target} : t[c] = s[c]
      <3>1. t[target] = Written(target)'
        BY <1>0, <1>1 DEF WrittenBy
      <3> QED  BY <1>0, <1>2, <3>1 DEF WrittenBy, w
    <2>2. IsFiniteSet(Places(s)) /\ NumberOfRows(s) = total
      BY <1>0 DEF CountInv
    <2>3. Len(s[target]) \in Nat /\ Len(t[target]) = Len(s[target]) + m /\ m \in Nat
      BY <1>4, <1>7, <2>1
    <2> HIDE DEF s, t, m
    <2>4. IsFiniteSet(Places(t)) /\ NumberOfRows(t) = NumberOfRows(s) + m
      BY <1>0, <2>1, <2>2, <2>3, MorePlaces
    <2> QED  BY <1>1, <2>2, <2>4 DEF CountInv, NumberOfRows, Places, t, m
  <1>9. PICK done \in Seq(Row), rest \in Seq(Row) : ReadSoFar(done, rest)
    BY <1>0 DEF ReadInv
  <1>10. ReadSoFar(done, rest)'
    <2>1. ASSUME NEW b \in Buckets PROVE (Written(b) \o buffers[b] = OfBucket(done, b))'
      <3>1. CASE b = target
        <4>1. Written(b)' = w \o u /\ buffers'[b] = <<>> /\ w \o u \in Seq(Row)
          BY <1>1, <1>2, <3>1
        <4>2. OfBucket(done, b) = w \o u
          BY <1>9, <3>1 DEF ReadSoFar, w, u
        <4>3. (w \o u) \o <<>> = w \o u
          BY <4>1, ConcatEmptySeq
        <4> QED  BY <4>1, <4>2, <4>3 DEF OfBucket
      <3>2. CASE b # target
        BY <1>2, <1>9, <3>2 DEF ReadSoFar, OfBucket
      <3> QED  BY <3>1, <3>2
    <2> QED  BY <1>1, <1>3, <1>9, <2>1 DEF ReadSoFar
  <1>11. ReadInv'
    BY <1>0, <1>1, <1>9, <1>10 DEF ReadInv
  <1>12. BucketInv(target)'
    <2>1. ASSUME NEW k \in 0 .. (n + 1) - 1 PROVE k \in DOMAIN out'[target] /\ out'[target][k].whole
      <3>1. k = n \/ k \in 0 .. n - 1
        BY <1>2
      <3>2. k \in 0 .. n - 1 => k \in DOMAIN out[target] /\ out[target][k].whole /\ k # n
        BY <1>0, <1>2 DEF BucketInv, n
      <3> QED  BY <1>2, <3>1, <3>2
    <2>2. Len(w \o u) <= At(n + 1) /\ (Len(w \o u) = At(n + 1) \/ AllRead)
      BY <1>0, <1>4, <1>5, <1>6, <1>7
    <2>3. ASSUME NEW k \in DOMAIN out'[target]
          PROVE  k < n + 1 \/ At(k) < Owed(target)
      <3>1. k \in DOMAIN out[target] \/ k = n
        BY <1>2
      <3>2. k \in DOMAIN out[target] => k < n \/ At(k) < Owed(target) \/ k = n
        BY <1>0 DEF BucketInv, n
      <3>3. k \in Nat
        BY <1>0, <1>2, <3>1 DEF PartsInv
      <3> QED  BY <1>2, <3>1, <3>2, <3>3
    <2>4. Len(buffers'[target]) = 0
      BY <1>2
    <2>5. AllRead' <=> AllRead
      BY <1>1 DEF AllRead
    <2>6. Owed(target)' = Owed(target)
      BY <1>0, <1>1, <1>3 DEF Owed
    <2>7. Len(buffers'[target]) <= RowGroupRows /\ Len(buffers'[target]) # RowGroupRows
      BY <1>0, <2>4
    <2> QED  BY <1>1, <1>2, <2>1, <2>2, <2>3, <2>5, <2>6, <2>7 DEF BucketInv, At
  <1>13. ASSUME NEW b \in Buckets \ {target} PROVE BucketInv(b)'
    BY <1>0, <1>1, <1>2, <1>3 DEF BucketInv, At, Writing, AllRead
  <1>14. StageInv'
    BY <1>1 DEF StageInv, Writing
  <1>15. \A b \in Buckets : BucketInv(b)'
    <2> SUFFICES ASSUME NEW b \in Buckets PROVE BucketInv(b)'
      OBVIOUS
    <2>1. b = target => BucketInv(b)'
      BY <1>1, <1>12 DEF BucketInv, At, Owed, Written
    <2> QED  BY <1>13, <2>1
  <1> QED  BY <1>8, <1>11, <1>14, <1>15 DEF RunInv

-----------------------------------------------------------------------------
(* The invariant holds.                                                    *)

LEMMA ConvertInitial == Init => ConvertInv
  <1> SUFFICES ASSUME Init PROVE ConvertInv
    OBVIOUS
  <1>1. LocalInv
    <2>1. <<>> \in Seq(Row)
      OBVIOUS
    <2> QED  BY <2>1, FirstBucketIs, FreshLocals DEF Init, LocalInv, Ended
  <1>2. PartsInv
    <2>1. DOMAIN out = Buckets /\ \A b \in Buckets : DOMAIN out[b] = {}
      BY DEF Init
    <2> QED  BY <2>1 DEF PartsInv
  <1>3. RunInv
    BY DEF Init, RunInv, During
  <1> QED  BY <1>1, <1>2, <1>3, WalInitial DEF ConvertInv

LEMMA RunKeeps ==
  ASSUME ConvertInv, Next
  PROVE  RunInv'
  <1>1. CASE RefuseFile \/ WriteFails \/ Kill
    <2>1. cpc' = "died"
      BY <1>1 DEF RefuseFile, WriteFails, Kill, Gone
    <2> QED  BY <2>1 DEF RunInv, During
  <1> QED
    BY <1>1, RunWhileWalGrows, RunBegins, RunReads, RunSorts, RunTurns, RunOpens, RunCloses
       DEF Next, Convert

LEMMA ConvertInductive == ConvertInv /\ [Next]_vars => ConvertInv'
  <1> SUFFICES ASSUME ConvertInv, [Next]_vars PROVE ConvertInv'
    OBVIOUS
  <1>1. CASE Next
    BY <1>1, WalKeeps, LocalKeeps, PartsKeep, RunKeeps DEF ConvertInv
  <1>2. CASE UNCHANGED vars
    <2>1. /\ wal' = wal /\ fragment' = fragment /\ out' = out /\ cpc' = cpc /\ owed' = owed
          /\ listed' = listed /\ file' = file /\ data' = data /\ buffers' = buffers
          /\ part' = part /\ target' = target /\ total' = total
      BY <1>2 DEF vars, walVars, localVars
    <2>2. /\ WalRows' = WalRows /\ RowsBy' = RowsBy /\ WrittenBy' = WrittenBy
          /\ \A b \in Buckets : Written(b)' = Written(b) /\ Owed(b)' = Owed(b)
      BY <2>1 DEF WalRows, RowsBy, BucketRows, WrittenBy, Written, Owed
    <2>3. WalInv'
      <3>1. (IsFiniteSet(Places(RowsBy)) /\ NumberOfRows(RowsBy) = Len(WalRows))'
        BY <2>2 DEF ConvertInv, WalInv, Places, NumberOfRows
      <3> QED  BY <2>1, <2>2, <3>1 DEF ConvertInv, WalInv
    <2>4. LocalInv'
      BY <2>1 DEF ConvertInv, LocalInv
    <2>5. PartsInv'
      BY <2>1, <2>2, PartsUntouched DEF ConvertInv
    <2>6. ASSUME cpc \in During PROVE RunInv'
      <3>1. ReadInv /\ StageInv /\ CountInv /\ \A b \in Buckets : BucketInv(b)
        BY <2>6 DEF ConvertInv, RunInv
      <3>2. ReadInv'
        <4>1. PICK done \in Seq(Row), rest \in Seq(Row) : ReadSoFar(done, rest)
          BY <3>1 DEF ReadInv
        <4>2. \A b \in Buckets : (Written(b) \o buffers[b] = OfBucket(done, b))'
          BY <2>1, <2>2, <4>1 DEF ReadSoFar, OfBucket
        <4>3. ReadSoFar(done, rest)'
          BY <2>1, <2>2, <4>1, <4>2 DEF ReadSoFar
        <4> QED  BY <2>1, <3>1, <4>1, <4>3 DEF ReadInv
      <3>3. \A b \in Buckets : BucketInv(b)'
        BY <2>1, <2>2, <3>1 DEF BucketInv, At, AllRead
      <3>4. StageInv' /\ CountInv'
        BY <2>1, <2>2, <3>1 DEF StageInv, AllRead, CountInv, NumberOfRows, Places
      <3> QED  BY <3>2, <3>3, <3>4 DEF RunInv
    <2>7. ASSUME cpc \notin During PROVE RunInv'
      BY <2>1, <2>7 DEF RunInv, During
    <2> QED  BY <2>3, <2>4, <2>5, <2>6, <2>7 DEF ConvertInv
  <1> QED  BY <1>1, <1>2

\* The inductive invariant: what a run has read is a prefix of the WAL, what it has
\* written and buffered is what it has sorted of it, and every part of every run is a
\* piece of its bucket's rows.
THEOREM ConversionInvariant == Spec => []ConvertInv
  BY ConvertInitial, ConvertInductive, PTL DEF Spec

-----------------------------------------------------------------------------
(* What follows.                                                           *)

\* A part is a prefix of the bucket's rows from its row group on.
LEMMA PieceIsPrefix ==
  ASSUME NEW p \in Part, NEW k \in Nat, NEW u \in Seq(Row), Piece(p, k, u)
  PROVE  IsPrefix(p.rows, SubSeq(u, At(k) + 1, Len(u)))
  <1> DEFINE n == At(k)
             l == Len(u)
             r == p.rows
             g == SubSeq(u, n + 1, l)
  <1>1. /\ n \in Nat /\ l \in Nat /\ r \in Seq(Row) /\ Len(r) \in Nat
        /\ n < l /\ n + Len(r) <= l /\ \A j \in 1 .. Len(r) : r[j] = u[n + j]
    <2>1. r \in Seq(Row) /\ n \in Nat
      BY Groups DEF Part
    <2>2. l \in Nat /\ Len(r) \in Nat
      BY <2>1
    <2> QED  BY <2>1, <2>2 DEF Piece
  <1>2. n + 1 \in Int /\ l \in Int /\ \A i \in n + 1 .. l : u[i] \in Row
    BY <1>1
  <1> HIDE DEF n
  <1>3. /\ g \in Seq(Row) /\ Len(g) = IF n + 1 <= l THEN l - (n + 1) + 1 ELSE 0
        /\ \A i \in 1 .. l - (n + 1) + 1 : g[i] = u[n + 1 + i - 1]
    BY <1>2, SubSeqProperties
  <1> HIDE DEF g, l, r
  <1>4. Len(g) = l - n /\ Len(r) <= Len(g)
    BY <1>1, <1>3
  <1>5. ASSUME NEW i \in 1 .. Len(r) PROVE r[i] = g[i]
    <2>1. i \in 1 .. l - (n + 1) + 1 /\ n + 1 + i - 1 = n + i
      BY <1>1
    <2> QED  BY <1>1, <1>3, <2>1
  <1>6. IsPrefix(r, g)
    BY <1>1, <1>3, <1>4, <1>5, PointwisePrefix
  <1> QED  BY <1>6 DEF n, g, l, r

\* Parts of different runs never overlap: whichever run wrote it (write_bucket() at
\* scripts/wal_to_parquet.py:79), part k of a bucket holds rows of its k-th row group.
THEOREM PartsNeverOverlap == Spec => []PartsAreGroups
  <1>1. ConvertInv => PartsAreGroups
    <2> SUFFICES ASSUME ConvertInv, NEW b \in Buckets, NEW k \in DOMAIN out[b]
                 PROVE  /\ out[b][k].whole => out[b][k].rows # <<>>
                        /\ Len(out[b][k].rows) <= RowGroupRows
                        /\ IsPrefix(out[b][k].rows,
                             SubSeq(BucketRows(b), k * RowGroupRows + 1, Len(BucketRows(b))))
      BY Zenon DEF PartsAreGroups
    <2>1. out[b][k] \in Part /\ k \in Nat /\ Piece(out[b][k], k, BucketRows(b))
      BY DEF ConvertInv, PartsInv
    <2>2. BucketRows(b) \in Seq(Row)
      BY WalRowsTyped DEF ConvertInv, WalInv
    <2>3. IsPrefix(out[b][k].rows, SubSeq(BucketRows(b), At(k) + 1, Len(BucketRows(b))))
      BY <2>1, <2>2, PieceIsPrefix
    <2> QED  BY <2>1, <2>3 DEF Piece, At
  <1> QED  BY <1>1, ConversionInvariant, PTL

\* At every moment of a run of main() (scripts/wal_to_parquet.py:104) its parts, its
\* buffers and the rows it has yet to sort are what it has read of the WAL.
THEOREM NoRowIsLostBetween == Spec => []NoRowBetween
  <1>1. ConvertInv => NoRowBetween
    <2> DEFINE full == FlattenSeq(SubSeq(wal, 1, file - 2))
               sofar(b) == Written(b) \o buffers[b] \o OfBucket(data, b)
    <2> SUFFICES ASSUME ConvertInv, cpc \in Running, NEW b \in Buckets
                 PROVE  /\ Len(buffers[b]) <= RowGroupRows
                        /\ IsPrefix(sofar(b), BucketRows(b))
                        /\ file > 1 => IsPrefix(OfBucket(full, b), sofar(b))
      BY DEF NoRowBetween, Written
    <2>0. /\ WalInv /\ LocalInv /\ PartsInv /\ ReadInv /\ BucketInv(b)
          /\ wal \in Seq(Seq(Row)) /\ Len(wal) \in Nat /\ data \in Seq(Row)
          /\ listed \in Nat /\ file \in Nat \ {0} /\ listed <= Len(wal) /\ file <= listed + 1
      BY RunFacts DEF Running, During, ReadInv
    <2>1. PICK done \in Seq(Row), rest \in Seq(Row) : ReadSoFar(done, rest)
      BY <2>0 DEF ReadInv
    <2>2. /\ BucketRows(b) = sofar(b) \o OfBucket(rest, b)
          /\ OfBucket(done \o data, b) = sofar(b)
          /\ OfBucket(rest, b) \in Seq(Row)
      BY <2>0, <2>1, BucketSplit
    <2>3. done \o data \in Seq(Row)
      BY <2>0, <2>1
    <2>4. sofar(b) \in Seq(Row)
      BY <2>2, <2>3, OfBucketTyped
    <2> HIDE DEF sofar, full
    <2>5. IsPrefix(sofar(b), BucketRows(b))
      BY <2>2, <2>4, ConcatPrefix
    <2>6. ASSUME file > 1 PROVE IsPrefix(OfBucket(full, b), sofar(b))
      <3>1. file - 2 \in 0 .. Len(wal)
        BY <2>0, <2>6
      <3>2. full \in Seq(Row) /\ \E t \in Seq(Row) : WalRows = full \o t
        BY <2>0, <3>1, FlattenSplit DEF WalRows, full
      <3>3. WalRows = (done \o data) \o rest /\ Len(full) <= Len(done \o data)
        BY <2>1, <2>6 DEF ReadSoFar, full
      <3>4. PICK z \in Seq(Row) : done \o data = full \o z
        <4> DEFINE c == done \o data
        <4>1. PICK t \in Seq(Row) : full \o t = c \o rest
          BY <3>2, <3>3
        <4>2. c \in Seq(Row) /\ full \in Seq(Row) /\ rest \in Seq(Row) /\ Len(full) <= Len(c)
          BY <2>1, <2>3, <3>2, <3>3
        <4> HIDE DEF c
        <4>3. \E z \in Seq(Row) : c = full \o z
          <5>1. Len(full) \in 0 .. Len(c)
            BY <4>2
          <5>2. SubSeq(full \o t, 1, Len(full)) = full
            BY <4>1, <4>2, FirstAll
          <5>3. SubSeq(c \o rest, 1, Len(full)) = SubSeq(c, 1, Len(full))
            BY <4>2, <5>1, FirstOfConcat
          <5>4. /\ SubSeq(c, Len(full) + 1, Len(c)) \in Seq(Row)
                /\ SubSeq(c, 1, Len(full)) \o SubSeq(c, Len(full) + 1, Len(c)) = c
            BY <4>2, <5>1, SplitAt
          <5> QED  BY <4>1, <5>2, <5>3, <5>4
        <4> QED  BY <4>3 DEF c
      <3>5. OfBucket(full \o z, b) = OfBucket(full, b) \o OfBucket(z, b)
            /\ OfBucket(full, b) \in Seq(Row) /\ OfBucket(z, b) \in Seq(Row)
        BY <3>2, OfBucketConcat, OfBucketTyped
      <3> QED  BY <2>2, <3>4, <3>5, ConcatPrefix
    <2> QED  BY <2>0, <2>5, <2>6 DEF BucketInv
  <1> QED  BY <1>1, ConversionInvariant, PTL

\* A bucket has no more rows than the WAL.
LEMMA BucketWithin ==
  ASSUME WalInv, NEW b \in Buckets
  PROVE  Len(BucketRows(b)) <= Len(WalRows)
  <1> DEFINE s == [c \in Buckets |-> <<>>]
             t == [c \in Buckets |-> IF c = b THEN BucketRows(b) ELSE <<>>]
             n == Len(BucketRows(b))
  <1>1. n \in Nat /\ RowsBy[b] = BucketRows(b)
    BY WalRowsTyped DEF WalInv
  <1>2. IsFiniteSet(Places(s)) /\ NumberOfRows(s) = 0
    <2>1. \A c \in Buckets : {c} \X (1 .. Len(s[c])) = {}
      OBVIOUS
    <2>2. Places(s) = {}
      BY <2>1 DEF Places
    <2> QED  BY <2>2, FS_EmptySet DEF NumberOfRows
  <1>3. Len(s[b]) = 0 /\ Len(t[b]) = 0 + n /\ \A c \in Buckets \ {b} : t[c] = s[c]
    BY <1>1
  <1>4. Places(t) \subseteq Places(RowsBy)
    <2> SUFFICES ASSUME NEW x \in Places(t) PROVE x \in Places(RowsBy)
      OBVIOUS
    <2>1. PICK c \in Buckets : x \in {c} \X (1 .. Len(t[c]))
      BY DEF Places
    <2>2. c = b
      BY <2>1
    <2>3. x \in {b} \X (1 .. Len(RowsBy[b]))
      BY <1>1, <2>1, <2>2
    <2> QED  BY <2>3 DEF Places
  <1> HIDE DEF s, t, n
  <1>5. NumberOfRows(t) = 0 + n
    <2>1. Len(s[b]) \in Nat /\ Len(t[b]) = Len(s[b]) + n
      BY <1>3
    <2>2. NumberOfRows(t) = NumberOfRows(s) + n
      BY <1>1, <1>2, <1>3, <2>1, MorePlaces
    <2> QED  BY <1>2, <2>2
  <1>6. IsFiniteSet(Places(RowsBy)) /\ Cardinality(Places(RowsBy)) = Len(WalRows)
    BY DEF WalInv, NumberOfRows
  <1>7. Cardinality(Places(t)) <= Cardinality(Places(RowsBy))
    BY <1>4, <1>6, FS_Subset
  <1> QED  BY <1>1, <1>5, <1>6, <1>7 DEF NumberOfRows, n

\* When a run has ended well it has left its own parts and no others.
LEMMA DoneParts ==
  ASSUME ConvertInv, cpc = "done", NEW b \in Buckets
  PROVE  /\ \A k \in DOMAIN out[b] : out[b][k].whole
         /\ Output(b) = Written(b) /\ Written(b) \in Seq(Row)
         /\ IsPrefix(OfBucket(SubSeq(WalRows, 1, owed), b), Written(b))
         /\ IsPrefix(Written(b), BucketRows(b))
  <1>0. /\ WalInv /\ LocalInv /\ PartsInv /\ ReadInv /\ BucketInv(b) /\ AllRead /\ buffers[b] = <<>>
        /\ WalRows \in Seq(Row) /\ owed \in Nat /\ data = <<>>
    BY RunFacts DEF During, StageInv, AllRead
  <1>1. PICK done \in Seq(Row), rest \in Seq(Row) : ReadSoFar(done, rest)
    BY <1>0 DEF ReadInv
  <1>2. Written(b) \in Seq(Row) /\ part[b] \in Nat
        /\ [k \in 1 .. part[b] |-> out[b][k - 1].rows] \in [1 .. part[b] -> Seq(Row)]
    BY <1>0, WrittenTyped DEF BucketInv
  <1>3. WalRows = done \o rest /\ owed <= Len(done) /\ OfBucket(done, b) = Written(b)
    <2>1. done \o <<>> = done
      BY <1>1, ConcatEmptySeq
    <2>2. Written(b) \o <<>> = Written(b)
      BY <1>2, ConcatEmptySeq
    <2> QED  BY <1>0, <1>1, <2>1, <2>2 DEF ReadSoFar, AllRead
  <1> DEFINE first == SubSeq(WalRows, 1, owed)
  <1>4. first \in Seq(Row) /\ \E z \in Seq(Row) : done = first \o z
    <2>1. owed \in 0 .. Len(done)
      BY <1>0, <1>1, <1>3
    <2>2. first = SubSeq(done, 1, owed)
      BY <1>1, <1>3, <2>1, FirstOfConcat
    <2>3. /\ SubSeq(done, 1, owed) \in Seq(Row) /\ SubSeq(done, owed + 1, Len(done)) \in Seq(Row)
          /\ SubSeq(done, 1, owed) \o SubSeq(done, owed + 1, Len(done)) = done
      BY <1>1, <2>1, SplitAt
    <2> QED  BY <2>2, <2>3
  <1> HIDE DEF first
  <1>5. PICK z \in Seq(Row) : done = first \o z
    BY <1>4
  <1>6. /\ Written(b) = OfBucket(first, b) \o OfBucket(z, b)
        /\ OfBucket(first, b) \in Seq(Row) /\ OfBucket(z, b) \in Seq(Row)
    BY <1>3, <1>4, <1>5, OfBucketConcat, OfBucketTyped
  <1>7. BucketRows(b) = Written(b) \o OfBucket(rest, b) /\ OfBucket(rest, b) \in Seq(Row)
    <2>1. OfBucket(done \o rest, b) = OfBucket(done, b) \o OfBucket(rest, b)
      BY <1>1, OfBucketConcat
    <2>2. OfBucket(rest, b) \in Seq(Row)
      BY <1>1, OfBucketTyped
    <2> QED  BY <1>3, <2>1, <2>2 DEF BucketRows
  <1>8. IsPrefix(OfBucket(first, b), Written(b)) /\ IsPrefix(Written(b), BucketRows(b))
    BY <1>2, <1>6, <1>7, ConcatPrefix
  <1>9. ASSUME NEW k \in DOMAIN out[b] PROVE k \in 0 .. part[b] - 1
    <2>1. k \in Nat /\ At(k) \in Nat /\ At(part[b]) \in Nat
      BY <1>0, <1>2, Groups DEF PartsInv
    <2>2. k < part[b] \/ At(k) < Owed(b)
      BY <1>0 DEF BucketInv
    <2>3. Owed(b) <= Len(Written(b)) /\ Owed(b) \in Nat /\ Len(Written(b)) \in Nat
      <3>1. Owed(b) = Len(OfBucket(first, b))
        BY DEF Owed, first
      <3> QED  BY <1>6, <3>1
    <2>4. Len(Written(b)) <= At(part[b])
      BY <1>0 DEF BucketInv
    <2>5. At(k) < Owed(b) => At(k) < At(part[b])
      BY <2>1, <2>3, <2>4
    <2>6. k < part[b]
      BY <1>2, <2>1, <2>2, <2>5, Groups
    <2> QED  BY <1>2, <2>1, <2>6
  <1>10. \A k \in 0 .. part[b] - 1 : k \in DOMAIN out[b] /\ out[b][k].whole
    BY <1>0 DEF BucketInv
  <1>11. part[b] <= MaxRows /\ MaxRows \in Nat
    <2>1. MaxRows \in Nat
      BY ConvertAssumption
    <2>2. CASE part[b] = 0
      BY <2>1, <2>2
    <2>3. CASE part[b] # 0
      <3> DEFINE k == part[b] - 1
      <3>1. k \in 0 .. part[b] - 1 /\ k \in Nat /\ part[b] = k + 1
        BY <1>2, <2>3
      <3>2. k \in DOMAIN out[b]
        BY <1>10, <3>1
      <3>3. At(k) < Len(BucketRows(b))
        BY <1>0, <3>2 DEF PartsInv, Piece
      <3>4. /\ Len(BucketRows(b)) <= Len(WalRows) /\ Len(WalRows) <= MaxRows
            /\ Len(BucketRows(b)) \in Nat /\ Len(WalRows) \in Nat
        BY <1>0, BucketWithin, WalRowsTyped DEF WalInv
      <3>5. k <= At(k) /\ At(k) \in Nat
        BY <3>1, Groups
      <3> HIDE DEF k
      <3> QED  BY <2>1, <3>1, <3>3, <3>4, <3>5
    <2> QED  BY <2>2, <2>3
  <1>12. Output(b) = Written(b)
    <2> DEFINE f == [k \in 1 .. part[b] |-> out[b][k - 1].rows]
               g == [k \in 1 .. MaxRows |-> IF k - 1 \in DOMAIN out[b] THEN out[b][k - 1].rows ELSE <<>>]
    <2>1. ASSUME NEW k \in 1 .. part[b] PROVE g[k] = f[k]
      <3>1. k \in 1 .. MaxRows /\ k - 1 \in 0 .. part[b] - 1
        BY <1>2, <1>11
      <3> QED  BY <1>10, <3>1
    <2>2. ASSUME NEW k \in part[b] + 1 .. MaxRows PROVE g[k] = <<>>
      <3>1. k \in 1 .. MaxRows /\ k - 1 \notin 0 .. part[b] - 1
        BY <1>2, <1>11
      <3>2. k - 1 \notin DOMAIN out[b]
        BY <1>9, <3>1
      <3> QED  BY <3>1, <3>2
    <2>3. f \in [1 .. part[b] -> Seq(Row)]
      BY <1>2
    <2>4. g \in [1 .. MaxRows -> Seq(Row)]
      <3>1. ASSUME NEW k \in 1 .. MaxRows
            PROVE  (IF k - 1 \in DOMAIN out[b] THEN out[b][k - 1].rows ELSE <<>>) \in Seq(Row)
        BY <1>0 DEF PartsInv, Part
      <3> QED  BY <3>1
    <2>5. Output(b) = FlattenSeq(g) /\ Written(b) = FlattenSeq(f)
      BY DEF Output, Written
    <2> DEFINE n == part[b]
    <2>6. /\ n \in Nat /\ MaxRows \in Nat /\ Pads(g, MaxRows, f, n)
          /\ f \in [1 .. n -> Seq(Row)] /\ g \in [1 .. MaxRows -> Seq(Row)]
      <3> HIDE DEF f, g
      <3>1. \A i \in 1 .. MaxRows : IF i <= n THEN i \in 1 .. part[b] ELSE i \in part[b] + 1 .. MaxRows
        BY <1>2, <1>11
      <3>2. \A i \in 1 .. MaxRows : g[i] = IF i <= n THEN f[i] ELSE <<>>
        BY <1>2, <1>11, <2>1, <2>2, <3>1
      <3> QED  BY <1>2, <1>11, <2>3, <2>4, <3>2 DEF Pads
    <2> HIDE DEF f, g, n
    <2>7. FlattenSeq(g) = FlattenSeq(f)
      BY <2>6, FlattenPadded
    <2> QED  BY <2>5, <2>7
  <1> QED  BY <1>2, <1>8, <1>9, <1>10, <1>12 DEF first

\* A run that has ended well leaves an output that can be read and holds, once and in
\* order, every row that was in the WAL when it began, and as many rows as it says,
\* whatever earlier runs left (scripts/wal_to_parquet.py:104).
THEOREM DoneRunsAreComplete == Spec => []DoneIsComplete
  <1>1. ConvertInv => DoneIsComplete
    <2> SUFFICES ASSUME ConvertInv, cpc = "done"
                 PROVE  /\ AllWhole
                        /\ total = NumberOfRows([b \in Buckets |-> Output(b)])
                        /\ \A b \in Buckets :
                             /\ IsPrefix(OfBucket(SubSeq(WalRows, 1, owed), b), Output(b))
                             /\ IsPrefix(Output(b), BucketRows(b))
      BY DEF DoneIsComplete
    <2>1. AllWhole
      BY DoneParts DEF AllWhole
    <2>2. [b \in Buckets |-> Output(b)] = WrittenBy
      <3>1. \A b \in Buckets : Output(b) = Written(b)
        BY DoneParts
      <3> QED  BY <3>1 DEF WrittenBy
    <2>3. NumberOfRows(WrittenBy) = total
      BY RunFacts DEF During, CountInv
    <2>4. \A b \in Buckets : /\ IsPrefix(OfBucket(SubSeq(WalRows, 1, owed), b), Output(b))
                             /\ IsPrefix(Output(b), BucketRows(b))
      BY DoneParts
    <2> QED  BY <2>1, <2>2, <2>3, <2>4
  <1> QED  BY <1>1, ConversionInvariant, PTL

\* The first n parts of a bucket with rows u: they reach to the end of its n row groups
\* or of its rows only if there are no gaps, and then they are those rows.
Fits(o, n, u) ==
  /\ Len(o) <= At(n) /\ Len(o) <= Len(u)
  /\ Len(o) \in {At(n), Len(u)} => \A j \in 1 .. Len(o) : o[j] = u[j]

LEMMA FitsNext ==
  ASSUME NEW u \in Seq(Row), NEW o \in Seq(Row), NEW r \in Seq(Row), NEW n \in Nat,
         Fits(o, n, u),
         r = <<>> \/ /\ Len(r) <= RowGroupRows /\ At(n) + Len(r) <= Len(u)
                     /\ \A j \in 1 .. Len(r) : r[j] = u[At(n) + j]
  PROVE  Fits(o \o r, n + 1, u)
  <1> DEFINE a == At(n)
             c == o \o r
             g == RowGroupRows
             l == Len(u)
             x == Len(o)
             y == Len(r)
  <1>1. /\ a \in Nat /\ At(n + 1) = a + g /\ g \in Nat \ {0}
        /\ l \in Nat /\ x \in Nat /\ y \in Nat
    <2>1. a \in Nat /\ At(n + 1) = a + g
      BY Groups
    <2>2. g \in Nat \ {0}
      BY ConvertAssumption
    <2> QED  BY <2>1, <2>2
  <1>2. Len(c) = x + y /\ \A j \in 1 .. x + y : c[j] = IF j <= x THEN o[j] ELSE r[j - x]
    BY ConcatProperties
  <1>3. x <= a /\ x <= l /\ (x \in {a, l} => \A j \in 1 .. x : o[j] = u[j])
    BY DEF Fits
  <1> HIDE DEF a, c, g, l, x, y
  <1>4. CASE r = <<>>
    <2>1. y = 0
      BY <1>4 DEF y
    <2>2. Len(c) = x /\ \A j \in 1 .. x : c[j] = o[j]
      BY <1>1, <1>2, <2>1
    <2>3. x <= a + g /\ x # a + g
      BY <1>1, <1>3
    <2>4. Len(c) <= At(n + 1) /\ Len(c) <= l
      BY <1>1, <1>3, <2>2, <2>3
    <2>5. Len(c) \in {At(n + 1), l} => \A j \in 1 .. Len(c) : c[j] = u[j]
      BY <1>1, <1>3, <2>2, <2>3
    <2> QED  BY <2>4, <2>5 DEF Fits, c, l
  <1>5. CASE r # <<>>
    <2>1. y <= g /\ a + y <= l /\ \A j \in 1 .. y : r[j] = u[a + j]
      BY <1>5 DEF y, g, a, l
    <2>2. Len(c) <= At(n + 1) /\ Len(c) <= l
      BY <1>1, <1>2, <1>3, <2>1
    <2>3. ASSUME Len(c) \in {At(n + 1), l}, NEW j \in 1 .. Len(c) PROVE c[j] = u[j]
      <3>1. x = a /\ j \in 1 .. x + y
        BY <1>1, <1>2, <1>3, <2>1, <2>3
      <3>2. CASE j <= x
        <4>1. j \in 1 .. x
          BY <1>1, <3>1, <3>2
        <4> QED  BY <1>2, <1>3, <3>1, <3>2, <4>1
      <3>3. CASE ~(j <= x)
        <4>1. j - x \in 1 .. y /\ a + (j - x) = j
          BY <1>1, <3>1, <3>3
        <4>2. r[j - x] = u[a + (j - x)]
          BY <2>1, <4>1
        <4> QED  BY <1>2, <3>1, <3>3, <4>1, <4>2
      <3> QED  BY <3>2, <3>3
    <2> QED  BY <2>2, <2>3 DEF Fits, c, l
  <1> QED  BY <1>4, <1>5

\* Whatever runs wrote the parts of a bucket, there are no more rows in them than the
\* bucket has, and as many only if they are the bucket's rows.
LEMMA OutputFits ==
  ASSUME WalInv, PartsInv, NEW b \in Buckets
  PROVE  /\ Output(b) \in Seq(Row) /\ Len(Output(b)) <= Len(BucketRows(b))
         /\ Len(Output(b)) = Len(BucketRows(b)) => Output(b) = BucketRows(b)
  <1> DEFINE u == BucketRows(b)
             P(k) == IF k - 1 \in DOMAIN out[b] THEN out[b][k - 1].rows ELSE <<>>
             G(n) == [k \in 1 .. n |-> P(k)]
             O(n) == FlattenSeq(G(n))
             T == {n \in Nat : O(n) \in Seq(Row) /\ Fits(O(n), n, u)}
  <1>1. u \in Seq(Row) /\ Len(u) \in Nat /\ Len(u) <= MaxRows
    <2>1. Len(u) <= Len(WalRows) /\ Len(WalRows) <= MaxRows /\ Len(u) \in Nat /\ Len(WalRows) \in Nat
      BY BucketWithin, WalRowsTyped DEF WalInv
    <2> QED  BY <2>1, WalRowsTyped, ConvertAssumption DEF WalInv
  <1>2. ASSUME NEW n \in Nat
        PROVE  /\ P(n + 1) \in Seq(Row)
               /\ P(n + 1) = <<>> \/ /\ Len(P(n + 1)) <= RowGroupRows /\ At(n) + Len(P(n + 1)) <= Len(u)
                                     /\ \A j \in 1 .. Len(P(n + 1)) : P(n + 1)[j] = u[At(n) + j]
    <2>1. (n + 1) - 1 = n
      OBVIOUS
    <2>2. CASE n \in DOMAIN out[b]
      <3>1. P(n + 1) = out[b][n].rows
        BY <2>1, <2>2
      <3>2. out[b][n] \in Part /\ Piece(out[b][n], n, u)
        BY <2>2 DEF PartsInv
      <3> QED  BY <3>1, <3>2 DEF Part, Piece
    <2>3. CASE n \notin DOMAIN out[b]
      <3>1. P(n + 1) = <<>>
        BY <2>1, <2>3
      <3> HIDE DEF P, u
      <3>2. <<>> \in Seq(Row)
        OBVIOUS
      <3> QED  BY <3>1, <3>2
    <2> QED  BY <2>2, <2>3
  <1>3. ASSUME NEW k \in Nat \ {0} PROVE P(k) \in Seq(Row)
    <2>1. k - 1 \in Nat /\ (k - 1) + 1 = k
      OBVIOUS
    <2> QED  BY <1>2, <2>1
  <1> HIDE DEF P, u
  <1>4. ASSUME NEW n \in Nat PROVE G(n) \in [1 .. n -> Seq(Row)]
    BY <1>3
  <1>5. 0 \in T
    <2>1. G(0) \in Seq(Seq(Row)) /\ Len(G(0)) = 0
      <3>1. G(0) \in [1 .. 0 -> Seq(Row)]
        BY <1>4
      <3> HIDE DEF G
      <3> QED  BY <3>1, FunctionIsSeq
    <2> HIDE DEF G
    <2>2. G(0) = <<>>
      BY <2>1
    <2>3. O(0) = <<>>
      BY <2>2, FlattenNothing
    <2>4. At(0) \in Nat
      BY Groups
    <2>5. Len(<<>>) = 0 /\ <<>> \in Seq(Row)
      OBVIOUS
    <2>6. \A j \in 1 .. Len(<<>>) : <<>>[j] = u[j]
      BY <2>5
    <2>7. Fits(<<>>, 0, u)
      BY <1>1, <2>4, <2>5, <2>6 DEF Fits
    <2> HIDE DEF O
    <2> QED  BY <2>3, <2>5, <2>7
  <1>6. ASSUME NEW n \in Nat, n \in T PROVE n + 1 \in T
    <2>1. G(n) \in [1 .. n -> Seq(Row)] /\ G(n + 1) \in [1 .. n + 1 -> Seq(Row)]
      BY <1>4
    <2>2. G(n + 1)[n + 1] = P(n + 1) /\ \A i \in 1 .. n : G(n + 1)[i] = G(n)[i]
      OBVIOUS
    <2>3. O(n) \in Seq(Row) /\ Fits(O(n), n, u)
      BY <1>6
    <2> HIDE DEF G
    <2>4. O(n + 1) = O(n) \o P(n + 1)
      BY <2>1, <2>2, FlattenNext
    <2> HIDE DEF O
    <2>5. Fits(O(n) \o P(n + 1), n + 1, u)
      BY <1>1, <1>2, <2>3, FitsNext
    <2>6. O(n) \o P(n + 1) \in Seq(Row)
      BY <1>2, <2>3, ConcatProperties
    <2>7. n + 1 \in Nat
      OBVIOUS
    <2>8. O(n + 1) \in Seq(Row) /\ Fits(O(n + 1), n + 1, u)
      BY <2>4, <2>5, <2>6
    <2> QED  BY <2>7, <2>8
  <1>7. T = Nat
    <2>1. T \in SUBSET Nat
      OBVIOUS
    <2> HIDE DEF T
    <2> QED  BY <1>5, <1>6, <2>1, NumbersOf
  <1>8. Output(b) = O(MaxRows)
    BY DEF Output, P
  <1> HIDE DEF O
  <1>9. MaxRows \in Nat /\ O(MaxRows) \in Seq(Row) /\ Fits(O(MaxRows), MaxRows, u)
    BY <1>7, ConvertAssumption
  <1>10. Len(O(MaxRows)) = Len(u) => \A j \in 1 .. Len(O(MaxRows)) : O(MaxRows)[j] = u[j]
    BY <1>9 DEF Fits
  <1>11. Len(O(MaxRows)) <= Len(u)
    BY <1>9 DEF Fits
  <1>12. Len(O(MaxRows)) = Len(u) => O(MaxRows) = u
    BY <1>1, <1>9, <1>10, <1>11, PointwisePrefix
  <1> QED  BY <1>8, <1>9, <1>11, <1>12 DEF u

\* scripts/verify_parquet.py only counts, and that is enough: whatever runs wrote it and
\* however they ended, an output with as many rows as the WAL is the WAL.
THEOREM CountingIsEnough == Spec => []VerifiedIsTheWal
  <1>1. ConvertInv => VerifiedIsTheWal
    <2> DEFINE s == [b \in Buckets |-> Output(b)]
    <2> SUFFICES ASSUME ConvertInv, NumberOfRows(s) = Len(WalRows), NEW b \in Buckets
                 PROVE  Output(b) = BucketRows(b)
      BY DEF VerifiedIsTheWal, Verifies
    <2>1. WalInv /\ PartsInv
      BY DEF ConvertInv
    <2>2. ASSUME NEW c \in Buckets
          PROVE  /\ s[c] = Output(c) /\ RowsBy[c] = BucketRows(c)
                 /\ Len(s[c]) \in Nat /\ Len(RowsBy[c]) \in Nat /\ Len(s[c]) <= Len(RowsBy[c])
      <3>1. s[c] = Output(c) /\ RowsBy[c] = BucketRows(c)
        BY DEF RowsBy
      <3>2. Output(c) \in Seq(Row) /\ BucketRows(c) \in Seq(Row) /\ Len(Output(c)) <= Len(BucketRows(c))
        BY <2>1, OutputFits, WalRowsTyped DEF WalInv
      <3> QED  BY <3>1, <3>2
    <2> HIDE DEF s
    <2>3. Places(s) \subseteq Places(RowsBy)
      <3> SUFFICES ASSUME NEW x \in Places(s) PROVE x \in Places(RowsBy)
        OBVIOUS
      <3>1. PICK c \in Buckets : x \in {c} \X (1 .. Len(s[c]))
        BY DEF Places
      <3>2. 1 .. Len(s[c]) \subseteq 1 .. Len(RowsBy[c])
        BY <2>2
      <3>3. x \in {c} \X (1 .. Len(RowsBy[c]))
        BY <3>1, <3>2
      <3> QED  BY <3>3 DEF Places
    <2>4. Places(s) = Places(RowsBy)
      <3>1. IsFiniteSet(Places(RowsBy)) /\ Cardinality(Places(s)) = Cardinality(Places(RowsBy))
        BY <2>1 DEF WalInv, NumberOfRows
      <3> QED  BY <2>3, <3>1, FS_Subset
    <2>5. Len(s[b]) = Len(RowsBy[b])
      <3> DEFINE l == Len(RowsBy[b])
      <3> SUFFICES ASSUME Len(s[b]) # l PROVE FALSE
        OBVIOUS
      <3>1. l \in 1 .. l /\ l \in Nat /\ Len(s[b]) < l /\ Len(s[b]) \in Nat
        BY <2>2
      <3>2. <<b, l>> \in Places(s)
        BY <2>4, <3>1 DEF Places
      <3>3. PICK c \in Buckets : <<b, l>> \in {c} \X (1 .. Len(s[c]))
        BY <3>2 DEF Places
      <3>4. l \in 1 .. Len(s[b])
        BY <3>3
      <3> QED  BY <3>1, <3>4
    <2> QED  BY <2>1, <2>2, <2>5, OutputFits
  <1> QED  BY <1>1, ConversionInvariant, PTL
=============================================================================
