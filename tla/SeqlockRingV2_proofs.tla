------------------------ MODULE SeqlockRingV2_proofs ------------------------
(***************************************************************************)
(* Theorems about SeqlockRingV2.  Its writer is that of SeqlockRing and so *)
(* are the steps of its query, but for two: the load of write_seq, which   *)
(* goes to the first slot at once, and the acceptance of a slot, which     *)
(* ends the query without ending a tile.                                   *)
(***************************************************************************)
EXTENDS SeqlockRingV2, SeqlockRing_proofs

USE RingAssumption, OneTile

-----------------------------------------------------------------------------
(* Which steps are steps of SeqlockRing.                                   *)

\* What v2 adds to a step of SeqlockRing are the local and the count.
LEMMA V2Steps ==
  ASSUME [NextV2]_v2Vars
  PROVE  \/ [Next]_vars
         \/ \E r \in Readers : LoadWriteSeq(r) \/ Accept(r)
<1>1. CASE Publish
  BY <1>1 DEF Publish, Next
<1>2. ASSUME NEW r \in Readers, Caller(r)
      PROVE  Next
  BY <1>2 DEF Caller, Next
<1>3. ASSUME NEW r \in Readers, QueryLatest(r)
      PROVE  [Next]_vars \/ LoadWriteSeq(r) \/ Accept(r)
  <2>1. Changed(r) => SlotRetry(r)
    BY DEF Changed, SlotRetry, SameWitness
  <2>2. SpinOdd(r) => UNCHANGED vars
    BY DEF SpinOdd
  <2> QED
    BY <1>3, <2>1, <2>2 DEF QueryLatest, TakeWitness, Refuse, CopySlot, Next, Query
<1>4. CASE UNCHANGED v2Vars
  BY <1>4 DEF v2Vars
<1> QED
  BY <1>1, <1>2, <1>3, <1>4 DEF NextV2

\* A reader whose locals and whose memory stay as they are keeps its invariant.
LEMMA RestKeeps ==
  ASSUME NEW q \in Readers, ReaderInv(q), UNCHANGED memoryVars,
         pc'[q] = pc[q], depth'[q] = depth[q], snap'[q] = snap[q],
         base'[q] = base[q], cursor'[q] = cursor[q], ver'[q] = ver[q],
         out'[q] = out[q], recheck'[q] = recheck[q]
  PROVE  ReaderInv(q)'
<1>1. seq' = seq /\ writeSeq' = writeSeq
  BY DEF memoryVars
<1>2. CopiedOrLost(q)'
  BY <1>1, SameRequest DEF ReaderInv, CopiedOrLost
<1>3. Progress(q)'
  BY <1>1, SameRequest DEF ReaderInv, Progress, NotBegun, WholeBelow, IsWhole, InTile,
     Rechecked, IsRead, AtSlot, TileAt
<1> QED
  BY <1>1, <1>2, <1>3 DEF ReaderInv

\* The two steps of v2's own leave memory and the other readers alone.
LEMMA OwnSteps ==
  ASSUME RingInv, NEW r \in Readers, LoadWriteSeq(r) \/ Accept(r)
  PROVE  /\ OnlyMoves(r)
         /\ UNCHANGED <<writerVars, memoryVars>>
         /\ TypeOK'
         /\ \A q \in Readers \ {r} : ReaderInv(q)'
<1>0. TypeOK /\ \A q \in Readers : ReaderInv(q)
  BY DEF RingInv
<1>1. UNCHANGED <<writerVars, memoryVars, depth, base, ver, out, recheck>>
  BY DEF LoadWriteSeq, Accept
<1>2. \A q \in Readers \ {r} : pc'[q] = pc[q] /\ snap'[q] = snap[q] /\ cursor'[q] = cursor[q]
  BY <1>0 DEF LoadWriteSeq, Accept, TypeOK
<1>3. TypeOK'
  <2>1. /\ pc' \in [Readers -> {"idle", "head", "passA", "passB", "passC", "slot",
                                "copy", "recheck", "ok", "overwritten"}]
        /\ snap' \in [Readers -> Nat] /\ cursor' \in [Readers -> Nat]
    <3>1. CASE LoadWriteSeq(r)
      BY <1>0, <3>1 DEF LoadWriteSeq, TypeOK
    <3>2. CASE Accept(r)
      <4>1. cursor[r] + 1 \in Nat
        BY <1>0 DEF TypeOK
      <4> QED
        BY <1>0, <3>2, <4>1 DEF Accept, TypeOK
    <3> QED
      BY <3>1, <3>2
  <2> QED
    BY <1>0, <1>1, <2>1 DEF TypeOK, writerVars, memoryVars, IssuedStores
<1>4. \A q \in Readers \ {r} : ReaderInv(q)'
  BY <1>0, <1>1, <1>2, RestKeeps
<1>5. OnlyMoves(r)
  BY <1>1, <1>2 DEF OnlyMoves, writerVars, memoryVars
<1> QED
  BY <1>1, <1>3, <1>4, <1>5

-----------------------------------------------------------------------------
(* The invariant.                                                          *)

\* The snapshot of write_seq fixes records that are all published.
LEMMA LoadWriteSeqKeeps ==
  ASSUME TypeOK, NEW r \in Readers, ReaderInv(r), LoadWriteSeq(r)
  PROVE  ReaderInv(r)'
<1>1. /\ pc[r] = "head" /\ out'[r] = out[r] /\ base'[r] = base[r]
      /\ cursor'[r] = cursor[r] /\ snap'[r] = writeSeq /\ writeSeq' = writeSeq
      /\ depth'[r] = depth[r] /\ pc'[r] = IF writeSeq = 0 THEN "ok" ELSE "slot"
  BY DEF LoadWriteSeq, TypeOK, memoryVars
<1>2. /\ Count(r)' \in Nat /\ Count(r)' <= RingCapacity /\ writeSeq \in Nat
      /\ Count(r)' = 0 <=> writeSeq = 0
  <2>1. depth[r] \in Nat \ {0} /\ writeSeq \in Nat
    BY DEF TypeOK
  <2>2. Count(r)' = CountOf(depth[r], writeSeq)
    BY <1>1 DEF Count
  <2> QED
    BY <2>1, <2>2, CountRange
<1>3. base[r] = 0 /\ cursor[r] = 0 /\ out[r] = NoCopy
  BY <1>1 DEF ReaderInv, Progress, NotBegun
<1>4. CopiedOrLost(r)'
  BY <1>1, <1>3 DEF CopiedOrLost, NoCopy
<1>5. WholeBelow(r, 0)'
  BY DEF WholeBelow, Indices
<1>6. CASE writeSeq = 0
  <2>1. WholeBelow(r, Count(r))'
    BY <1>2, <1>5, <1>6
  <2> QED
    BY <1>1, <1>2, <1>4, <1>6, <2>1 DEF ReaderInv, Progress
<1>7. CASE writeSeq # 0
  <2>1. (0 \in TileAt(r))'
    BY <1>1, <1>2, <1>3, <1>7 DEF TileAt, Indices
  <2>2. AtSlot(r)'
    BY <1>1, <1>3, <1>5, <2>1 DEF AtSlot, WholeBelow
  <2> QED
    BY <1>1, <1>2, <1>4, <1>7, <2>2 DEF ReaderInv, Progress
<1> QED
  BY <1>6, <1>7

\* A slot accepted is whole, and so are those before it.
LEMMA AcceptKeeps ==
  ASSUME TypeOK, NEW r \in Readers, ReaderInv(r), base[r] = 0, Accept(r)
  PROVE  ReaderInv(r)'
<1> DEFINE k == cursor[r]
<1>1. /\ pc[r] = "recheck" /\ seq[SlotAt(r, k)] = ver[r][k] /\ cursor'[r] = k + 1
      /\ pc'[r] = IF k + 1 < Count(r) THEN "slot" ELSE "ok"
      /\ base' = base /\ out' = out /\ snap' = snap /\ depth' = depth
      /\ writeSeq' = writeSeq /\ seq' = seq
  BY DEF Accept, SameWitness, memoryVars, TypeOK
<1>2. k \in Nat /\ k < Count(r) /\ WholeBelow(r, k + 1)
  BY <1>1, AcceptedSlot
<1>3. CopiedOrLost(r)'
  BY <1>1, KeepsCopies DEF ReaderInv
<1>4. \A n : WholeBelow(r, n) => \A i \in Indices : i < n => IsWhole(r, i)'
  BY <1>1, SameRequest DEF WholeBelow, IsWhole
<1>5. Count(r)' = Count(r) /\ Count(r) \in Nat /\ Count(r) <= RingCapacity
  BY <1>1, SameRequest, TileRange
<1>6. CASE k + 1 < Count(r)
  <2>1. k + 1 \in TileAt(r)'
    BY <1>1, <1>2, <1>5, <1>6 DEF TileAt, Indices
  <2>2. AtSlot(r)'
    BY <1>1, <1>2, <1>4, <2>1 DEF AtSlot, WholeBelow
  <2> QED
    BY <1>1, <1>3, <1>6, <2>2 DEF ReaderInv, Progress
<1>7. CASE ~ (k + 1 < Count(r))
  <2>1. WholeBelow(r, Count(r))'
    <3>1. WholeBelow(r, Count(r))
      BY <1>2, <1>5, <1>7 DEF WholeBelow, Indices
    <3> QED
      BY <1>4, <1>5, <3>1 DEF WholeBelow
  <2> QED
    BY <1>1, <1>3, <1>7, <2>1 DEF ReaderInv, Progress
<1> QED
  BY <1>6, <1>7

\* The ring's part of the invariant is kept.
LEMMA RingInductiveV2 ==
  ASSUME RingInvV2, [NextV2]_v2Vars
  PROVE  RingInv' /\ HeadsCounted'
<1>1. RingInv /\ HeadsCounted /\ TypeOK /\ MemoryInv
  BY DEF RingInvV2, RingInv
<1>2. CASE [Next]_vars
  BY <1>1, <1>2, RingInductive, HeadsInductive
<1>3. ASSUME NEW r \in Readers, LoadWriteSeq(r) \/ Accept(r)
      PROVE  RingInv' /\ HeadsCounted'
  <2>1. UNCHANGED <<writerVars, memoryVars>> /\ TypeOK' /\ \A q \in Readers \ {r} : ReaderInv(q)'
    BY <1>1, <1>3, OwnSteps
  <2>2. HeadsCounted'
    BY <1>1, <2>1 DEF HeadsCounted, Performed, writerVars, memoryVars
  <2>3. MemoryInv'
    BY <1>1, <2>1 DEF MemoryInv, StoresInOrder, WitnessFromStores, PayloadFromStores,
       HeadFromStores, Performed, IssuedStores, writerVars, memoryVars
  <2>4. ReaderInv(r)'
    <3>1. ReaderInv(r) /\ base[r] = 0
      BY <1>1 DEF RingInv, RingInvV2, RetryInv
    <3> QED
      BY <1>1, <1>3, <3>1, LoadWriteSeqKeeps, AcceptKeeps
  <2> QED
    BY <2>1, <2>2, <2>3, <2>4 DEF RingInv
<1> QED
  BY <1>2, <1>3, V2Steps

\* A reader lapped stays lapped, whoever moves.
LEMMA LapStaysV2 ==
  ASSUME RingInv, [NextV2]_v2Vars, NEW q \in Readers,
         depth'[q] = depth[q], snap'[q] = snap[q]
  PROVE  /\ Overrun(q) => Overrun(q)'
         /\ Lapped(q) /\ cursor'[q] = cursor[q] => Lapped(q)'
<1>1. TypeOK /\ MemoryInv
  BY DEF RingInv
<1>2. CASE [Next]_vars
  BY <1>1, <1>2, LapStays, OverrunStays
<1>3. ASSUME NEW r \in Readers, LoadWriteSeq(r) \/ Accept(r)
      PROVE  issued' = issued /\ seq' = seq
  BY <1>3, OwnSteps DEF writerVars, memoryVars
<1>4. CASE issued' = issued /\ seq' = seq
  BY <1>4, SameRequest DEF Overrun, Lapped
<1> QED
  BY <1>2, <1>3, <1>4, V2Steps

\* What a step of a query does to what it knows of the slots it has lost.
LEMMA RetryKeeps ==
  ASSUME RingInvV2, [NextV2]_v2Vars, NEW r \in Readers, Caller(r) \/ QueryLatest(r)
  PROVE  RetryInv(r)'
<1>0. /\ RingInv /\ TypeOK /\ MemoryInv /\ ReaderInv(r) /\ RetryInv(r)
      /\ retried \in [Readers -> BOOLEAN] /\ retries \in [Readers -> Nat]
  BY DEF RingInvV2, RingInv
<1>1. CASE Caller(r)
  <2>1. base'[r] = 0 /\ pc'[r] \in {"head", "idle"} /\ ~ retried'[r] /\ retries'[r] = 0
    BY <1>0, <1>1 DEF Caller, Call, Return, NextSlot, RetryInv, TypeOK
  <2> QED
    BY <2>1 DEF RetryInv
<1>2. CASE LoadWriteSeq(r)
  <2>1. base'[r] = 0 /\ pc'[r] \in {"ok", "slot"} /\ ~ retried'[r] /\ retries'[r] = 0
    BY <1>0, <1>2 DEF LoadWriteSeq, NextSlot, RetryInv, TypeOK
  <2> QED
    BY <2>1 DEF RetryInv
<1>3. CASE Accept(r)
  <2>1. ~ retried[r]
    <3>1. seq[SlotAt(r, cursor[r])] = StableSeq(Position(r, cursor[r]))
      BY <1>0, <1>3 DEF Accept, SameWitness, ReaderInv, Progress
    <3>2. ~ Lapped(r)
      BY <1>0, <3>1, PositionRange DEF Lapped, StableSeq, TypeOK
    <3> QED
      BY <1>0, <3>2 DEF RetryInv
  <2>2. base'[r] = 0 /\ pc'[r] \in {"ok", "slot"} /\ ~ retried'[r] /\ retries'[r] = 0
    BY <1>0, <1>3, <2>1 DEF Accept, NextSlot, RetryInv, TypeOK
  <2> QED
    BY <2>2 DEF RetryInv
<1>4. CASE TakeWitness(r) \/ Refuse(r) \/ SpinOdd(r) \/ CopySlot(r) \/ Changed(r)
  <2>1. /\ depth'[r] = depth[r] /\ snap'[r] = snap[r] /\ cursor'[r] = cursor[r]
        /\ base'[r] = 0 /\ retries'[r] = 0
        /\ pc'[r] \in {"slot", "copy", "recheck", "overwritten"}
        /\ pc'[r] = "overwritten" => Refuse(r)
        /\ retried'[r] => retried[r] \/ SpinOdd(r) \/ Changed(r)
    <3>1. CASE TakeWitness(r) \/ Refuse(r)
      BY <1>0, <3>1 DEF TakeWitness, Refuse, SlotWitness, SlotOverwritten, RetryInv, TypeOK
    <3>2. CASE SpinOdd(r)
      BY <1>0, <3>2 DEF SpinOdd, LookAgain, RetryInv, TypeOK, vars, readerVars
    <3>3. CASE CopySlot(r)
      BY <1>0, <3>3 DEF CopySlot, CopyWord, RetryInv, TypeOK
    <3>4. CASE Changed(r)
      BY <1>0, <3>4 DEF Changed, LookAgain, RetryInv, TypeOK
    <3> QED
      BY <1>4, <3>1, <3>2, <3>3, <3>4
  <2>2. ASSUME SpinOdd(r) \/ Refuse(r) \/ Changed(r)
        PROVE  Lapped(r) /\ Overrun(r)
    <3> DEFINE k == cursor[r]
    <3>1. /\ pc[r] \in {"slot", "recheck"} /\ k \in Indices /\ k \in Nat /\ k < Count(r)
          /\ snap[r] <= writeSeq
      BY <1>0, <2>2, TileRange DEF SpinOdd, Refuse, SlotOverwritten, Changed, ReaderInv,
         Progress, AtSlot, TypeOK
    <3>2. /\ seq[SlotAt(r, k)] \in Nat /\ StableSeq(Position(r, k)) \in Nat
          /\ seq[SlotAt(r, k)] >= StableSeq(Position(r, k))
      <4>1. Position(r, k) \in Nat /\ SlotAt(r, k) \in Slots
        BY <1>0, <3>1, PositionRange
      <4>2. seq[SlotAt(r, k)] >= StableSeq(Position(r, k))
        BY <1>0, <3>1, RequestedSlot
      <4> QED
        BY <1>0, <4>1, <4>2 DEF TypeOK, StableSeq
    <3>3. seq[SlotAt(r, k)] # StableSeq(Position(r, k))
      <4>1. CASE SpinOdd(r)
        BY <1>0, <4>1, PositionRange DEF SpinOdd, StableSeq, TypeOK
      <4>2. CASE Refuse(r)
        BY <4>2 DEF Refuse, SlotOverwritten
      <4>3. CASE Changed(r)
        BY <1>0, <4>3 DEF Changed, SameWitness, ReaderInv, Progress
      <4> QED
        BY <2>2, <4>1, <4>2, <4>3
    <3>4. seq[SlotAt(r, k)] > StableSeq(Position(r, k))
      BY <3>2, <3>3
    <3> QED
      BY <1>0, <3>1, <3>4, LappedSlot DEF Lapped
  <2>3. retried'[r] => Lapped(r)'
    BY <1>0, <2>1, <2>2, LapStaysV2 DEF RetryInv
  <2>4. pc'[r] = "overwritten" => Overrun(r)'
    BY <1>0, <2>1, <2>2, LapStaysV2
  <2> QED
    BY <2>1, <2>3, <2>4 DEF RetryInv
<1> QED
  BY <1>1, <1>2, <1>3, <1>4 DEF QueryLatest

\* A reader that does not move keeps it.
LEMMA RetryStutter ==
  ASSUME RingInvV2, [NextV2]_v2Vars, NEW q \in Readers,
         pc'[q] = pc[q], depth'[q] = depth[q], snap'[q] = snap[q], base'[q] = base[q],
         cursor'[q] = cursor[q], retried'[q] = retried[q], retries'[q] = retries[q]
  PROVE  RetryInv(q)'
<1>1. RingInv /\ RetryInv(q)
  BY DEF RingInvV2
<1> QED
  BY <1>1, LapStaysV2 DEF RetryInv

\* The locals of the other readers.
LEMMA OtherReadersV2 ==
  ASSUME RingInvV2, NEW r \in Readers, Caller(r) \/ QueryLatest(r),
         NEW q \in Readers, q # r
  PROVE  /\ pc'[q] = pc[q] /\ depth'[q] = depth[q] /\ snap'[q] = snap[q]
         /\ base'[q] = base[q] /\ cursor'[q] = cursor[q]
         /\ retried'[q] = retried[q] /\ retries'[q] = retries[q]
<1>0. TypeOK /\ retried \in [Readers -> BOOLEAN] /\ retries \in [Readers -> Nat]
  BY DEF RingInvV2, RingInv
<1>1. retried'[q] = retried[q] /\ retries'[q] = retries[q]
  BY <1>0 DEF Caller, QueryLatest, LoadWriteSeq, TakeWitness, Refuse, SpinOdd, CopySlot,
     Changed, Accept, NextSlot, LookAgain
<1>2. CASE Call(r) \/ Query(r) \/ Return(r)
  BY <1>0, <1>1, <1>2, OtherReaders
<1>3. CASE LoadWriteSeq(r)
  BY <1>0, <1>1, <1>3 DEF LoadWriteSeq, TypeOK
<1>4. CASE Accept(r)
  BY <1>0, <1>1, <1>4 DEF Accept, TypeOK
<1>5. CASE SpinOdd(r)
  BY <1>1, <1>5 DEF SpinOdd, vars, readerVars
<1>6. CASE Changed(r)
  BY <1>0, <1>1, <1>6 DEF Changed, TypeOK
<1> QED
  BY <1>2, <1>3, <1>4, <1>5, <1>6 DEF Caller, QueryLatest, TakeWitness, Refuse, CopySlot,
     Query

\* The invariant of the v2 ring is inductive.
LEMMA RingV2Inductive ==
  ASSUME RingInvV2, [NextV2]_v2Vars
  PROVE  RingInvV2'
<1>0. retried \in [Readers -> BOOLEAN] /\ retries \in [Readers -> Nat]
  BY DEF RingInvV2
<1>1. RingInv' /\ HeadsCounted'
  BY RingInductiveV2
<1>2. retried' \in [Readers -> BOOLEAN] /\ retries' \in [Readers -> Nat]
  <2>1. CASE Publish \/ UNCHANGED v2Vars
    BY <1>0, <2>1 DEF Publish, v2Vars
  <2>2. ASSUME NEW r \in Readers, Caller(r) \/ QueryLatest(r)
        PROVE  /\ retried' = retried \/ \E b \in BOOLEAN : retried' = [retried EXCEPT ![r] = b]
               /\ retries' = retries \/ Accept(r)
    BY <2>2 DEF Caller, QueryLatest, LoadWriteSeq, TakeWitness, Refuse, SpinOdd, CopySlot,
       Changed, Accept, NextSlot, LookAgain
  <2>3. ASSUME NEW r \in Readers, Accept(r)
        PROVE  retries' \in [Readers -> Nat]
    <3>1. retries[r] + (IF retried[r] THEN 1 ELSE 0) \in Nat
      BY <1>0
    <3> QED
      BY <1>0, <2>3, <3>1 DEF Accept
  <2> QED
    BY <1>0, <2>1, <2>2, <2>3 DEF NextV2
<1>3. ASSUME NEW q \in Readers
      PROVE  RetryInv(q)'
  <2>1. CASE Publish \/ UNCHANGED v2Vars
    <3>1. UNCHANGED <<readerVars, retried, retries>>
      BY <2>1 DEF Publish, Tick, Perform, PerformOdd, PerformWord, PerformEven,
         PerformHead, v2Vars, vars
    <3> QED
      BY <3>1, RetryStutter DEF readerVars
  <2>2. ASSUME NEW r \in Readers, Caller(r) \/ QueryLatest(r)
        PROVE  RetryInv(q)'
    <3>1. CASE q = r
      BY <2>2, <3>1, RetryKeeps
    <3>2. CASE q # r
      BY <2>2, <3>2, OtherReadersV2, RetryStutter
    <3> QED
      BY <3>1, <3>2
  <2> QED
    BY <2>1, <2>2 DEF NextV2
<1> QED
  BY <1>1, <1>2, <1>3 DEF RingInvV2

\* The invariant of the v2 ring holds in every reachable state.
THEOREM RingV2Invariant == SpecV2 => []RingInvV2
<1>1. InitV2 => RingInvV2
  <2> SUFFICES ASSUME InitV2 PROVE RingInvV2
    OBVIOUS
  <2>1. RingInv /\ HeadsCounted
    BY RingInitial DEF InitV2, Init, HeadsCounted
  <2> QED
    BY <2>1 DEF InitV2, Init, RingInvV2, RetryInv
<1>2. RingInvV2 /\ [NextV2]_v2Vars => RingInvV2'
  BY RingV2Inductive
<1> QED
  BY <1>1, <1>2, PTL DEF SpecV2

-----------------------------------------------------------------------------
(* The theorems.                                                           *)

\* A slot that needs a second look is never accepted: QueryStats.retries stays 0.
THEOREM RetriesStayZero == SpecV2 => []RetriedIsLost
<1>1. RingInvV2 => RetriedIsLost
  BY DEF RingInvV2, RetryInv, RetriedIsLost
<1> QED
  BY <1>1, RingV2Invariant, PTL

\* The v2 query too copies exactly the records it asked for, each of them whole.
THEOREM NoTornRecordsV2 == SpecV2 => []AcceptedIsSnapshot
<1>1. RingInvV2 => AcceptedIsSnapshot
  BY DEF RingInvV2, RingInv, ReaderInv, Progress, WholeBelow, IsWhole, AcceptedIsSnapshot
<1> QED
  BY <1>1, RingV2Invariant, PTL

\* Its refusals are genuine as well.
THEOREM RefusalsAreGenuineV2 == SpecV2 => []OverwrittenIsGenuine
<1>1. RingInvV2 => OverwrittenIsGenuine
  BY DEF RingInvV2, RetryInv, OverwrittenIsGenuine
<1> QED
  BY <1>1, RingV2Invariant, PTL

-----------------------------------------------------------------------------
(* The v2 ring implements LatestN.                                         *)

\* Each step of a reader is its step of LatestN, or none.
LEMMA ReaderMapsV2 ==
  ASSUME RingInvV2, RingInvV2', [NextV2]_v2Vars, NEW r \in Readers, Caller(r) \/ QueryLatest(r)
  PROVE  [Abstract!Next]_(Abstract!vars)
<1>0. /\ RingInv /\ RingInv' /\ TypeOK /\ ReaderInv(r) /\ RetryInv(r) /\ RetryInv(r)'
  BY DEF RingInvV2, RingInv
<1>1. CASE Call(r)
  <2>1. PICK n \in Depths : depth' = [depth EXCEPT ![r] = n]
    BY <1>1 DEF Call
  <2>2. pc[r] = "idle" /\ pc'[r] = "head" /\ snap' = snap /\ OnlyMoves(r)
    BY <1>0, <1>1, ReaderMoves DEF Call, TypeOK
  <2>3. Abstract!Ask(r)
    BY <1>0, <2>1, <2>2, AskMaps
  <2> QED
    BY <2>3 DEF Abstract!Next
<1>2. CASE Return(r)
  <2>1. /\ pc[r] \in {"ok", "overwritten"} /\ pc'[r] = "idle" /\ OnlyMoves(r)
        /\ depth' = [depth EXCEPT ![r] = 1] /\ snap' = [snap EXCEPT ![r] = 0]
    BY <1>0, <1>2, ReaderMoves DEF Return, TypeOK
  <2>2. Abstract!Return(r)
    BY <1>0, <2>1, ReturnMaps
  <2> QED
    BY <2>2 DEF Abstract!Next
<1>3. CASE LoadWriteSeq(r)
  <2>1. /\ pc[r] = "head" /\ snap' = [snap EXCEPT ![r] = writeSeq] /\ depth' = depth
        /\ OnlyMoves(r)
        /\ IF writeSeq = 0 THEN pc'[r] = "ok" ELSE pc'[r] \in {"passA", "slot"}
    BY <1>0, <1>3, OwnSteps DEF LoadWriteSeq, TypeOK
  <2>2. Abstract!Take(r)
    BY <1>0, <2>1, TakeMaps
  <2> QED
    BY <2>2 DEF Abstract!Next, Abstract!Settle
<1>4. CASE SpinOdd(r)
  BY <1>4, StutterMaps DEF SpinOdd
<1>5. CASE TakeWitness(r) \/ Refuse(r) \/ CopySlot(r) \/ Changed(r) \/ Accept(r)
  <2>1. /\ depth' = depth /\ snap' = snap /\ OnlyMoves(r)
        /\ pc[r] \in {"slot", "copy", "recheck"}
        /\ pc'[r] \in {"slot", "copy", "recheck", "ok", "overwritten"}
    <3>1. CASE Accept(r)
      BY <1>0, <3>1, OwnSteps DEF Accept, TypeOK
    <3>2. CASE TakeWitness(r)
      BY <1>0, <3>2, ReaderMoves DEF TakeWitness, SlotWitness, Query, TypeOK
    <3>3. CASE Refuse(r)
      BY <1>0, <3>3, ReaderMoves DEF Refuse, SlotOverwritten, Query, TypeOK
    <3>4. CASE CopySlot(r)
      <4>1. OnlyMoves(r)
        BY <1>0, <3>4, ReaderMoves DEF CopySlot, Query
      <4> QED
        BY <1>0, <3>4, <4>1 DEF CopySlot, CopyWord, TypeOK
    <3>5. CASE Changed(r)
      <4>1. SlotRetry(r)
        BY <3>5 DEF Changed, SlotRetry, SameWitness
      <4> QED
        BY <1>0, <4>1, ReaderMoves DEF SlotRetry, Query, TypeOK
    <3> QED
      BY <1>5, <3>1, <3>2, <3>3, <3>4, <3>5
  <2>2. Phase(r) = "taken" /\ Count(r) > 0
    <3>1. cursor[r] \in TileAt(r)
      BY <1>0, <2>1 DEF ReaderInv, Progress, AtSlot
    <3> QED
      BY <1>0, <2>1, <3>1, TileRange DEF Phase, Indices
  <2>3. CASE pc'[r] \in {"slot", "copy", "recheck"}
    <3>1. Phase(r)' = "taken"
      BY <2>3 DEF Phase
    <3> QED
      BY <1>0, <2>1, <2>2, <3>1, StayMaps
  <2>4. CASE pc'[r] = "ok"
    <3>1. Abstract!Answer(r)
      BY <1>0, <2>1, <2>2, <2>4, AnswerMaps
    <3> QED
      BY <3>1 DEF Abstract!Next, Abstract!Settle
  <2>5. CASE pc'[r] = "overwritten"
    <3>1. Overrun(r)
      BY <1>0, <2>1, <2>5, SameRequest DEF RetryInv, Overrun, OnlyMoves
    <3>2. Abstract!Refuse(r)
      BY <1>0, <2>1, <2>2, <2>5, <3>1, RefuseMaps
    <3> QED
      BY <3>2 DEF Abstract!Next, Abstract!Settle
  <2> QED
    BY <2>1, <2>3, <2>4, <2>5
<1> QED
  BY <1>1, <1>2, <1>3, <1>4, <1>5 DEF Caller, QueryLatest

\* To its callers the v2 query keeps the promise of the first one: an atomic snapshot
\* of the latest records, or a refusal the writer has earned.
THEOREM RingV2ImplementsLatestN == SpecV2 => Abstract!Spec
<1>1. InitV2 => Abstract!Init
  BY InitMaps DEF InitV2
<1>2. RingInvV2 /\ RingInvV2' /\ [NextV2]_v2Vars => [Abstract!Next]_(Abstract!vars)
  <2>1. ASSUME RingInvV2, RingInvV2', Publish
        PROVE  [Abstract!Next]_(Abstract!vars)
    BY <2>1, WriterMaps DEF RingInvV2, Publish
  <2>2. ASSUME UNCHANGED v2Vars
        PROVE  UNCHANGED Abstract!vars
    BY <2>2, StutterMaps DEF v2Vars
  <2> QED
    BY <2>1, <2>2, ReaderMapsV2 DEF NextV2
<1> QED
  BY <1>1, <1>2, RingV2Invariant, PTL DEF SpecV2, Abstract!Spec
=============================================================================
