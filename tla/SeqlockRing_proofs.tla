------------------------- MODULE SeqlockRing_proofs -------------------------
(* Theorems about SeqlockRing, for every value of its constants. *)
EXTENDS SeqlockRing, TLAPS

USE RingAssumption

-----------------------------------------------------------------------------
(* The helpers.                                                            *)

\* A position is published in a slot of the ring.
LEMMA SlotRange ==
  ASSUME NEW p \in Nat
  PROVE  SlotOf(p) \in Slots
BY DEF SlotOf, Slots

\* A query copies at most what it asked for, what there is, and a ring full.
LEMMA CountRange ==
  ASSUME NEW n \in Nat \ {0}, NEW ws \in Nat
  PROVE  /\ CountOf(n, ws) \in Nat
         /\ CountOf(n, ws) <= n
         /\ CountOf(n, ws) <= ws
         /\ CountOf(n, ws) <= RingCapacity
         /\ ws # 0 => CountOf(n, ws) # 0
BY DEF CountOf

\* The positions a query asks for are positions, in slots of the ring.
LEMMA PositionRange ==
  ASSUME TypeOK, NEW r \in Readers, NEW i \in Nat
  PROVE  /\ Count(r) \in Nat
         /\ Start(r) \in Nat
         /\ Position(r, i) \in Nat
         /\ SlotAt(r, i) \in Slots
<1>1. depth[r] \in Nat \ {0} /\ snap[r] \in Nat
  BY DEF TypeOK
<1>2. Count(r) \in Nat /\ Start(r) \in Nat
  BY <1>1, CountRange DEF Count, Start
<1>3. Position(r, i) \in Nat
  BY <1>2 DEF Position
<1> QED
  BY <1>2, <1>3, SlotRange DEF SlotAt

-----------------------------------------------------------------------------
(* Type correctness.                                                       *)

\* Every step keeps the types.
LEMMA TypeInductive ==
  ASSUME TypeOK, [Next]_vars
  PROVE  TypeOK'
<1>1. CASE Tick
  BY <1>1 DEF Tick, TypeOK, memoryVars, readerVars, IssuedStores, StoresOf, Store
<1>2. CASE PerformOdd
  BY <1>2, SlotRange DEF PerformOdd, TypeOK, readerVars, IssuedStores, OddSeq, StableSeq
<1>3. CASE PerformWord
  BY <1>3, SlotRange DEF PerformWord, TypeOK, readerVars, IssuedStores
<1>4. CASE PerformEven
  BY <1>4, SlotRange DEF PerformEven, TypeOK, readerVars, IssuedStores, StableSeq
<1>5. CASE PerformHead
  BY <1>5 DEF PerformHead, TypeOK, readerVars, IssuedStores
<1>6. ASSUME NEW r \in Readers, Call(r)
      PROVE  TypeOK'
  BY <1>6 DEF Call, TypeOK, writerVars, memoryVars, IssuedStores
<1>7. ASSUME NEW r \in Readers, LoadHead(r)
      PROVE  TypeOK'
  BY <1>7 DEF LoadHead, TypeOK, writerVars, memoryVars, IssuedStores
<1>8. ASSUME NEW r \in Readers, LoadWitness(r)
      PROVE  TypeOK'
  <2>1. \A i \in Indices : seq[SlotAt(r, i)] \in Nat
    BY PositionRange DEF Indices, TypeOK
  <2>2. TileAt(r) \subseteq Indices
    BY DEF TileAt
  <2>3. ver' \in [Readers -> [Indices -> Nat \cup {NotRead}]]
    BY <1>8, <2>1, <2>2 DEF LoadWitness, TypeOK
  <2>4. pc' \in [Readers -> {"idle", "head", "passA", "passB", "passC", "slot",
                            "copy", "recheck", "ok", "overwritten"}]
    <3>1. pc' = [pc EXCEPT ![r] = "passA"] \/ pc' = [pc EXCEPT ![r] = "passB"]
      BY <1>8 DEF LoadWitness
    <3> QED
      BY <3>1 DEF TypeOK
  <2>5. UNCHANGED <<writerVars, memoryVars, depth, snap, base, cursor, out, recheck>>
    BY <1>8 DEF LoadWitness
  <2> QED
    BY <2>3, <2>4, <2>5 DEF TypeOK, writerVars, memoryVars, IssuedStores
<1>9. ASSUME NEW r \in Readers, CopyWord(r)
      PROVE  TypeOK'
  <2>1. \A i \in Nat, w \in Words : word[SlotAt(r, i)][w] \in Nat \cup {Zeroed}
    BY PositionRange DEF TypeOK
  <2>2. cursor[r] \in Nat /\ TileAt(r) \subseteq Nat
    BY DEF TileAt, Indices, TypeOK
  <2>3. PICK i \in Nat, w \in Words :
               out' = [out EXCEPT ![r][i][w] = word[SlotAt(r, i)][w]]
    BY <1>9, <2>2 DEF CopyWord
  <2>4. out' \in [Readers -> [Indices -> [Words -> Nat \cup {Zeroed, NotRead}]]]
    <3>1. word[SlotAt(r, i)][w] \in Nat \cup {Zeroed, NotRead}
      BY <2>1
    <3>2. out \in [Readers -> [Indices -> [Words -> Nat \cup {Zeroed, NotRead}]]]
      BY DEF TypeOK
    <3> QED
      BY <2>3, <3>1, <3>2
  <2> QED
    BY <1>9, <2>4 DEF CopyWord, TypeOK, writerVars, memoryVars, IssuedStores
<1>10. ASSUME NEW r \in Readers, LoadRecheck(r)
       PROVE  TypeOK'
  <2>1. \A i \in Indices : seq[SlotAt(r, i)] \in Nat
    BY PositionRange DEF Indices, TypeOK
  <2>2. TileAt(r) \subseteq Indices
    BY DEF TileAt
  <2> QED
    BY <1>10, <2>1, <2>2 DEF LoadRecheck, TypeOK, writerVars, memoryVars, IssuedStores
<1>11. ASSUME NEW r \in Readers, AcceptTile(r)
       PROVE  TypeOK'
  BY <1>11 DEF AcceptTile, EndTile, NoWitness, TypeOK, writerVars, memoryVars, IssuedStores
<1>12. ASSUME NEW r \in Readers, FallBack(r)
       PROVE  TypeOK'
  BY <1>12 DEF FallBack, TileAt, Indices, TypeOK, writerVars, memoryVars, IssuedStores
<1>13. ASSUME NEW r \in Readers, TileOverwritten(r)
       PROVE  TypeOK'
  BY <1>13 DEF TileOverwritten, TypeOK, writerVars, memoryVars, IssuedStores
<1>14. ASSUME NEW r \in Readers, SlotWitness(r)
       PROVE  TypeOK'
  <2>1. seq[SlotAt(r, cursor[r])] \in Nat
    BY PositionRange DEF TypeOK
  <2> QED
    BY <1>14, <2>1 DEF SlotWitness, TypeOK, writerVars, memoryVars, IssuedStores
<1>15. ASSUME NEW r \in Readers, SlotOverwritten(r)
       PROVE  TypeOK'
  BY <1>15 DEF SlotOverwritten, TypeOK, writerVars, memoryVars, IssuedStores
<1>16. ASSUME NEW r \in Readers, SlotRetry(r)
       PROVE  TypeOK'
  BY <1>16 DEF SlotRetry, TypeOK, writerVars, memoryVars, IssuedStores
<1>17. ASSUME NEW r \in Readers, SlotAccept(r)
       PROVE  TypeOK'
  <2>1. cursor' \in [Readers -> Nat]
    BY <1>17 DEF SlotAccept, TypeOK
  <2>2. CASE cursor[r] + 1 \in TileAt(r)
    <3>1. pc' = [pc EXCEPT ![r] = "slot"] /\ UNCHANGED <<base, ver, recheck>>
      BY <1>17, <2>2 DEF SlotAccept
    <3>2. UNCHANGED <<writerVars, memoryVars, depth, snap, out>>
      BY <1>17 DEF SlotAccept
    <3> QED
      BY <2>1, <3>1, <3>2 DEF TypeOK, writerVars, memoryVars, IssuedStores
  <2>3. CASE cursor[r] + 1 \notin TileAt(r)
    <3>1. EndTile(r) /\ UNCHANGED <<writerVars, memoryVars, depth, snap, out>>
      BY <1>17, <2>3 DEF SlotAccept
    <3> QED
      BY <2>1, <3>1 DEF EndTile, NoWitness, TypeOK, writerVars, memoryVars, IssuedStores
  <2> QED
    BY <2>2, <2>3
<1>18. ASSUME NEW r \in Readers, Return(r)
       PROVE  TypeOK'
  BY <1>18 DEF Return, NoWitness, NoCopy, TypeOK, writerVars, memoryVars, IssuedStores
<1>19. CASE UNCHANGED vars
  BY <1>19 DEF vars, writerVars, memoryVars, readerVars, TypeOK, IssuedStores
<1> QED
  BY <1>1, <1>2, <1>3, <1>4, <1>5, <1>6, <1>7, <1>8, <1>9, <1>10, <1>11, <1>12,
     <1>13, <1>14, <1>15, <1>16, <1>17, <1>18, <1>19
  DEF Next, Perform, Query

\* The variables keep their types: the stores of on_md and the loads of
\* query_latest_n stay inside the ring and inside the reader's locals.
THEOREM TypeCorrect == Spec => []TypeOK
<1>1. Init => TypeOK
  BY DEF Init, TypeOK, IssuedStores, NoWitness, NoCopy, Zeroed, NotRead
<1>2. TypeOK /\ [Next]_vars => TypeOK'
  BY TypeInductive
<1> QED
  BY <1>1, <1>2, PTL DEF Spec

-----------------------------------------------------------------------------
(* The stores and their order.                                             *)

\* A store is its position and its kind.
LEMMA StoreFields ==
  ASSUME NEW p, NEW k
  PROVE  /\ Store(p, k).pos = p
         /\ Store(p, k).kind = k
         /\ Performed(Store(p, k)) <=> p < issued /\ Store(p, k) \notin pending
BY DEF Store, Performed

\* What is issued, and pending, are the stores of the ticks so far.
LEMMA StoreRange ==
  ASSUME TypeOK
  PROVE  /\ issued \in Nat
         /\ \A p \in 0 .. issued - 1, k \in Kinds : Store(p, k) \in IssuedStores
         /\ \A a \in pending : /\ a \in IssuedStores
                               /\ a.pos \in 0 .. issued - 1
                               /\ a.kind \in Kinds
                               /\ a = Store(a.pos, a.kind)
BY DEF TypeOK, IssuedStores, Store

\* A payload word is none of the other kinds.
LEMMA WordKinds ==
  ASSUME NEW w \in Words
  PROVE  w \in Kinds /\ w # "odd" /\ w # "even" /\ w # "head"
BY DEF Kinds

\* The order of a tick: the fence keeps the payload behind the odd witness,
\* the release stores keep it in front of the even one and of write_seq.
LEMMA TickOrder ==
  ASSUME NEW p \in Nat, NEW w \in Words
  PROVE  /\ OrderedBefore(Store(p, "odd"), Store(p, w))
         /\ OrderedBefore(Store(p, w), Store(p, "even"))
BY WordKinds DEF OrderedBefore, ProgramBefore, IsRelease, Epoch, Store

\* The odd witness of a tick comes before its even one, and that before the
\* head.
LEMMA WitnessOrder ==
  ASSUME NEW p \in Nat
  PROVE  /\ OrderedBefore(Store(p, "odd"), Store(p, "even"))
         /\ OrderedBefore(Store(p, "even"), Store(p, "head"))
BY DEF OrderedBefore, ProgramBefore, IsRelease, Store

\* Two stores to one location keep their order.
LEMMA SlotOrder ==
  ASSUME NEW p \in Nat, NEW q \in Nat, p < q, SlotOf(p) = SlotOf(q)
  PROVE  /\ \A k, l \in {"odd", "even"} : OrderedBefore(Store(p, k), Store(q, l))
         /\ \A w \in Words : OrderedBefore(Store(p, w), Store(q, w))
BY DEF OrderedBefore, ProgramBefore, SameLocation, Store

\* The heads of a ring keep their order.
LEMMA HeadOrder ==
  ASSUME NEW p \in Nat, NEW q \in Nat, p < q
  PROVE  OrderedBefore(Store(p, "head"), Store(q, "head"))
BY DEF OrderedBefore, ProgramBefore, SameLocation, Store

\* Performed stores are closed under the order: what comes before one of them
\* has been performed.
LEMMA PerformedBefore ==
  ASSUME TypeOK, StoresInOrder,
         NEW p \in Nat, NEW k \in Kinds, NEW q \in Nat, NEW l \in Kinds,
         p < issued, OrderedBefore(Store(p, k), Store(q, l)),
         Performed(Store(q, l))
  PROVE  Performed(Store(p, k))
<1>1. q < issued /\ Store(q, l) \notin pending
  BY StoreFields
<1>2. Store(q, l) \in IssuedStores
  BY <1>1, StoreRange
<1>3. Store(p, k) \notin pending
  BY <1>1, <1>2 DEF StoresInOrder
<1> QED
  BY <1>3, StoreFields

-----------------------------------------------------------------------------
(* What the stores performed say of memory.                                *)

\* A witness pending for a slot is beyond everything the slot has seen.
LEMMA PendingWitness ==
  ASSUME TypeOK, MemoryInv, NEW a \in pending, a.kind \in {"odd", "even"},
         Performable(a)
  PROVE  /\ a.kind = "odd" => seq[SlotOf(a.pos)] < OddSeq(a.pos)
         /\ a.kind = "even" => seq[SlotOf(a.pos)] < StableSeq(a.pos)
<1> DEFINE p == a.pos
           s == SlotOf(p)
<1>1. p \in Nat /\ p < issued /\ a = Store(p, a.kind) /\ issued \in Nat
  BY StoreRange
<1>2. s \in Slots /\ seq[s] \in Nat
  BY <1>1, SlotRange DEF TypeOK
<1>3. CASE seq[s] = 0
  BY <1>1, <1>2, <1>3 DEF OddSeq, StableSeq
<1>4. CASE seq[s] # 0
  <2>1. PICK q \in 0 .. issued - 1 :
          /\ SlotOf(q) = s
          /\ \/ seq[s] = OddSeq(q) /\ Performed(Store(q, "odd"))
             \/ seq[s] = StableSeq(q) /\ Performed(Store(q, "even"))
    BY <1>2, <1>4 DEF MemoryInv, WitnessFromStores
  <2>2. PICK l \in {"odd", "even"} :
          /\ Performed(Store(q, l))
          /\ seq[s] = IF l = "odd" THEN OddSeq(q) ELSE StableSeq(q)
    BY <2>1
  <2>3. q \in Nat /\ l \in Kinds /\ a.kind \in Kinds
    BY <1>1, StoreRange DEF Kinds
  <2>4. ~ Performed(a)
    BY DEF Performed
  <2>5. ~ p < q
    BY <1>1, <2>1, <2>2, <2>3, <2>4, SlotOrder, PerformedBefore DEF MemoryInv
  <2>6. q = p => a.kind = "even" /\ l = "odd"
    <3>1. q = p => l # a.kind
      BY <1>1, <2>2, <2>4
    <3>2. q = p /\ a.kind = "odd" => l # "even"
      BY <1>1, <2>2, <2>3, <2>4, WitnessOrder, PerformedBefore DEF MemoryInv
    <3> QED
      BY <3>1, <3>2
  <2>7. q < p \/ q = p
    BY <1>1, <2>3, <2>5
  <2> QED
    BY <1>1, <2>2, <2>3, <2>6, <2>7 DEF OddSeq, StableSeq
<1> QED
  BY <1>3, <1>4

\* So is a payload word.
LEMMA PendingWord ==
  ASSUME TypeOK, MemoryInv, NEW a \in pending, a.kind \in Words
  PROVE  word[SlotOf(a.pos)][a.kind] < a.pos
<1> DEFINE p == a.pos
           w == a.kind
           s == SlotOf(p)
           q == word[s][w]
<1>1. p \in Nat /\ p < issued /\ a = Store(p, w) /\ issued \in Nat
  BY StoreRange
<1>2. s \in Slots /\ q \in Nat \cup {Zeroed}
  BY <1>1, SlotRange DEF TypeOK
<1>3. CASE q = Zeroed
  BY <1>1, <1>3 DEF Zeroed
<1>4. CASE q # Zeroed
  <2>1. q \in 0 .. issued - 1 /\ SlotOf(q) = s /\ Performed(Store(q, w))
    BY <1>2, <1>4 DEF MemoryInv, PayloadFromStores
  <2>2. ~ Performed(Store(p, w))
    BY <1>1 DEF Performed
  <2>3. w \in Kinds
    BY WordKinds
  <2>4. ~ p < q
    BY <1>1, <2>1, <2>2, <2>3, SlotOrder, PerformedBefore DEF MemoryInv
  <2>5. q # p
    BY <2>1, <2>2
  <2> QED
    BY <1>1, <2>1, <2>4, <2>5
<1> QED
  BY <1>3, <1>4

\* And write_seq.
LEMMA PendingHead ==
  ASSUME TypeOK, MemoryInv, NEW a \in pending, a.kind = "head"
  PROVE  writeSeq <= a.pos
<1>1. a.pos \in Nat /\ a.pos < issued /\ a = Store(a.pos, "head") /\ issued \in Nat
  BY StoreRange
<1>2. writeSeq \in Nat
  BY DEF TypeOK
<1>3. CASE writeSeq = 0
  BY <1>1, <1>3
<1>4. CASE writeSeq # 0
  <2>1. writeSeq <= issued /\ Performed(Store(writeSeq - 1, "head"))
    BY <1>4 DEF MemoryInv, HeadFromStores
  <2>2. writeSeq - 1 \in Nat /\ "head" \in Kinds
    BY <1>2, <1>4 DEF Kinds
  <2>3. ~ Performed(Store(a.pos, "head"))
    BY <1>1 DEF Performed
  <2>4. ~ a.pos < writeSeq - 1
    BY <1>1, <2>1, <2>2, <2>3, HeadOrder, PerformedBefore DEF MemoryInv
  <2>5. a.pos # writeSeq - 1
    BY <2>1, <2>3
  <2> QED
    BY <1>1, <1>2, <2>4, <2>5
<1> QED
  BY <1>3, <1>4

\* A record below write_seq has been stored in full.
LEMMA PublishedStores ==
  ASSUME TypeOK, MemoryInv, NEW p \in 0 .. writeSeq - 1
  PROVE  /\ p \in 0 .. issued - 1
         /\ Performed(Store(p, "even"))
         /\ \A w \in Words : Performed(Store(p, w))
<1>1. writeSeq \in Nat /\ issued \in Nat
  BY DEF TypeOK
<1>2. writeSeq <= issued /\ Performed(Store(writeSeq - 1, "head"))
  BY <1>1 DEF MemoryInv, HeadFromStores
<1>3. p \in Nat /\ p < issued /\ writeSeq - 1 \in Nat /\ "head" \in Kinds /\ "even" \in Kinds
  BY <1>1, <1>2 DEF Kinds
<1>4. Performed(Store(p, "head"))
  <2>1. CASE p = writeSeq - 1
    BY <1>2, <2>1
  <2>2. CASE p < writeSeq - 1
    BY <1>2, <1>3, <2>2, HeadOrder, PerformedBefore DEF MemoryInv
  <2> QED
    BY <1>1, <2>1, <2>2
<1>5. Performed(Store(p, "even"))
  BY <1>3, <1>4, WitnessOrder, PerformedBefore DEF MemoryInv
<1>6. ASSUME NEW w \in Words PROVE Performed(Store(p, w))
  BY <1>3, <1>5, TickOrder, WordKinds, PerformedBefore DEF MemoryInv
<1> QED
  BY <1>3, <1>1, <1>5, <1>6

\* Memory as a reader finds it below write_seq: the witness has reached the
\* record, every payload word has, and a word beyond it has its witness there.
LEMMA PublishedSlot ==
  ASSUME TypeOK, MemoryInv, NEW p \in 0 .. writeSeq - 1
  PROVE  /\ seq[SlotOf(p)] >= StableSeq(p)
         /\ \A w \in Words :
              /\ word[SlotOf(p)][w] >= p
              /\ word[SlotOf(p)][w] > p => seq[SlotOf(p)] > StableSeq(p)
<1>1. p \in 0 .. issued - 1 /\ p \in Nat /\ SlotOf(p) \in Slots /\ seq[SlotOf(p)] \in Nat
  BY PublishedStores, SlotRange DEF TypeOK
<1>2. seq[SlotOf(p)] >= StableSeq(p)
  BY <1>1, PublishedStores DEF MemoryInv, WitnessFromStores
<1>3. ASSUME NEW w \in Words
      PROVE  word[SlotOf(p)][w] >= p
  BY <1>1, PublishedStores DEF MemoryInv, PayloadFromStores
<1>4. ASSUME NEW w \in Words, word[SlotOf(p)][w] > p
      PROVE  seq[SlotOf(p)] > StableSeq(p)
  <2> DEFINE q == word[SlotOf(p)][w]
  <2>1. q \in Nat \cup {Zeroed} /\ q # Zeroed
    BY <1>1, <1>4 DEF TypeOK, Zeroed
  <2>2. q \in 0 .. issued - 1 /\ SlotOf(q) = SlotOf(p) /\ Performed(Store(q, w))
    BY <1>1, <2>1 DEF MemoryInv, PayloadFromStores
  <2>3. q \in Nat /\ q < issued /\ w \in Kinds /\ "odd" \in Kinds
    BY <2>2, WordKinds, StoreRange DEF Kinds
  <2>4. Performed(Store(q, "odd"))
    BY <2>2, <2>3, TickOrder, PerformedBefore DEF MemoryInv
  <2>5. seq[SlotOf(p)] >= OddSeq(q)
    BY <2>2, <2>4 DEF MemoryInv, WitnessFromStores
  <2> QED
    BY <1>1, <1>4, <2>3, <2>5 DEF OddSeq, StableSeq
<1> QED
  BY <1>2, <1>3, <1>4

\* An even witness names the record of the whole payload.
LEMMA StableSlot ==
  ASSUME TypeOK, MemoryInv
  PROVE  StableSlotIsWhole
<1> SUFFICES ASSUME NEW s \in Slots, NEW p \in 0 .. issued - 1, NEW w \in Words,
                    seq[s] = StableSeq(p)
             PROVE  word[s][w] = p
  BY DEF StableSlotIsWhole
<1>1. p \in Nat /\ issued \in Nat
  BY StoreRange
<1>2. PICK q \in 0 .. issued - 1 :
        /\ SlotOf(q) = s
        /\ \/ seq[s] = OddSeq(q) /\ Performed(Store(q, "odd"))
           \/ seq[s] = StableSeq(q) /\ Performed(Store(q, "even"))
  BY <1>1 DEF MemoryInv, WitnessFromStores, StableSeq
<1>3. q = p /\ Performed(Store(p, "even"))
  BY <1>1, <1>2 DEF StableSeq, OddSeq
<1>4. Performed(Store(p, w)) /\ "even" \in Kinds /\ w \in Kinds
  <2>1. "even" \in Kinds /\ w \in Kinds
    BY WordKinds DEF Kinds
  <2> QED
    BY <1>1, <1>3, <2>1, TickOrder, PerformedBefore DEF MemoryInv
<1>5. word[s][w] >= p /\ word[s][w] \in Nat \cup {Zeroed}
  BY <1>2, <1>3, <1>4 DEF MemoryInv, PayloadFromStores, TypeOK
<1>6. ~ word[s][w] > p
  <2> SUFFICES ASSUME word[s][w] > p
               PROVE  FALSE
    OBVIOUS
  <2> DEFINE v == word[s][w]
  <2>1. v \in 0 .. issued - 1 /\ SlotOf(v) = s /\ Performed(Store(v, w))
    BY <1>1, <1>5 DEF MemoryInv, PayloadFromStores, Zeroed
  <2>2. v \in Nat /\ v < issued /\ "odd" \in Kinds
    BY <1>1, <2>1 DEF Kinds
  <2>3. Performed(Store(v, "odd"))
    BY <1>4, <2>1, <2>2, TickOrder, PerformedBefore DEF MemoryInv
  <2>4. seq[s] >= OddSeq(v)
    BY <2>1, <2>3 DEF MemoryInv, WitnessFromStores
  <2> QED
    BY <1>1, <2>2, <2>4 DEF OddSeq, StableSeq
<1> QED
  BY <1>1, <1>5, <1>6 DEF Zeroed

-----------------------------------------------------------------------------
(* The memory invariant is inductive, and nothing in memory goes back.     *)

\* A step that performs one store keeps the order of those left.
LEMMA PerformKeepsOrder ==
  ASSUME TypeOK, StoresInOrder, NEW a \in pending, Performable(a),
         issued' = issued, pending' = pending \ {a}
  PROVE  /\ StoresInOrder'
         /\ \A p, k : Performed(Store(p, k))' <=>
                      Performed(Store(p, k)) \/ (Store(p, k) = a)
<1>1. StoresInOrder'
  BY DEF StoresInOrder, Performable, IssuedStores
<1>2. a.pos < issued
  BY StoreRange
<1> QED
  BY <1>1, <1>2, StoreFields DEF Performed

\* Ticks and performed stores keep the memory invariant; readers write nothing.
LEMMA MemoryInductive ==
  ASSUME TypeOK, MemoryInv, [Next]_vars
  PROVE  MemoryInv'
<1>1. CASE Tick
  <2>1. /\ issued \in Nat /\ issued' = issued + 1
        /\ pending' = pending \cup StoresOf(issued)
        /\ seq' = seq /\ word' = word /\ writeSeq' = writeSeq
    BY <1>1, StoreRange DEF Tick, memoryVars
  <2>2. ASSUME NEW p \in 0 .. issued - 1, NEW k \in Kinds
        PROVE  Performed(Store(p, k))' <=> Performed(Store(p, k))
    <3>1. p < issued /\ p < issued' /\ Store(p, k).pos = p
      BY <2>1, StoreFields
    <3>2. Store(p, k) \notin StoresOf(issued)
      <4>1. \A a \in StoresOf(issued) : a.pos = issued
        BY DEF StoresOf, Store
      <4> QED
        BY <2>1, <3>1, <4>1
    <3> QED
      BY <2>1, <3>1, <3>2 DEF Performed
  <2>3. ASSUME NEW p \in Nat, NEW k \in Kinds, p = issued
        PROVE  ~ Performed(Store(p, k))'
    BY <2>1, <2>3 DEF Performed, StoresOf
  <2>4. StoresInOrder'
    <3> SUFFICES ASSUME NEW a \in pending', NEW b \in IssuedStores', OrderedBefore(a, b)
                 PROVE  b \in pending'
      BY DEF StoresInOrder, OrderedBefore, ProgramBefore, SameLocation, IsRelease, Epoch
    <3>1. b.pos \in 0 .. issued /\ b.kind \in Kinds /\ b = Store(b.pos, b.kind)
      BY <2>1 DEF IssuedStores, Store
    <3>2. CASE b.pos = issued
      BY <2>1, <3>1, <3>2 DEF StoresOf
    <3>3. CASE b.pos # issued
      <4>1. b \in IssuedStores
        BY <2>1, <3>1, <3>3, StoreRange
      <4>2. a.pos <= b.pos
        BY <2>1, <3>1, StoreRange DEF OrderedBefore, ProgramBefore, StoresOf, Store
      <4>3. a \in pending
        BY <2>1, <3>1, <3>3, <4>2 DEF StoresOf, Store
      <4> QED
        BY <2>1, <4>1, <4>3 DEF MemoryInv, StoresInOrder
    <3> QED
      BY <3>2, <3>3
  <2>5. WitnessFromStores'
    <3>1. ASSUME NEW p \in 0 .. issued' - 1
          PROVE  /\ Performed(Store(p, "odd"))' => seq'[SlotOf(p)] >= OddSeq(p)
                 /\ Performed(Store(p, "even"))' => seq'[SlotOf(p)] >= StableSeq(p)
      <4>1. "odd" \in Kinds /\ "even" \in Kinds
        BY DEF Kinds
      <4>2. CASE p = issued
        BY <2>1, <2>3, <4>1, <4>2
      <4>3. CASE p \in 0 .. issued - 1
        BY <2>1, <2>2, <4>1, <4>3 DEF MemoryInv, WitnessFromStores
      <4> QED
        BY <2>1, <4>2, <4>3
    <3>2. ASSUME NEW s \in Slots, seq'[s] # 0
          PROVE  \E p \in 0 .. issued' - 1 :
                   /\ SlotOf(p) = s
                   /\ \/ seq'[s] = OddSeq(p) /\ Performed(Store(p, "odd"))'
                      \/ seq'[s] = StableSeq(p) /\ Performed(Store(p, "even"))'
      <4>1. PICK p \in 0 .. issued - 1 :
              /\ SlotOf(p) = s
              /\ \/ seq[s] = OddSeq(p) /\ Performed(Store(p, "odd"))
                 \/ seq[s] = StableSeq(p) /\ Performed(Store(p, "even"))
        BY <2>1, <3>2 DEF MemoryInv, WitnessFromStores
      <4>2. p \in 0 .. issued' - 1
        BY <2>1
      <4> QED
        BY <2>1, <2>2, <4>1, <4>2 DEF Kinds
    <3> QED
      BY <3>1, <3>2 DEF WitnessFromStores
  <2>6. PayloadFromStores'
    <3>1. ASSUME NEW p \in 0 .. issued' - 1, NEW w \in Words
          PROVE  Performed(Store(p, w))' => word'[SlotOf(p)][w] >= p
      <4>1. w \in Kinds
        BY WordKinds
      <4>2. CASE p = issued
        BY <2>1, <2>3, <4>1, <4>2
      <4>3. CASE p \in 0 .. issued - 1
        BY <2>1, <2>2, <4>1, <4>3 DEF MemoryInv, PayloadFromStores
      <4> QED
        BY <2>1, <4>2, <4>3
    <3>2. ASSUME NEW s \in Slots, NEW w \in Words, word'[s][w] # Zeroed
          PROVE  /\ word'[s][w] \in 0 .. issued' - 1
                 /\ SlotOf(word'[s][w]) = s
                 /\ Performed(Store(word[s][w], w))'
      <4>1. w \in Kinds /\ word' = word
        BY <2>1, WordKinds
      <4>2. /\ word[s][w] \in 0 .. issued - 1
            /\ SlotOf(word[s][w]) = s
            /\ Performed(Store(word[s][w], w))
        BY <3>2, <4>1 DEF MemoryInv, PayloadFromStores
      <4>3. \A p \in 0 .. issued - 1 : Performed(Store(p, w)) => Performed(Store(p, w))'
        BY <2>2, <4>1
      <4>4. Performed(Store(word[s][w], w))'
        BY <4>1, <4>2, <4>3
      <4> QED
        BY <2>1, <4>1, <4>2, <4>4
    <3> QED
      BY <2>1, <3>1, <3>2 DEF PayloadFromStores
  <2>7. HeadFromStores'
    <3>1. writeSeq # 0 => writeSeq - 1 \in 0 .. issued - 1
      BY <2>1 DEF MemoryInv, HeadFromStores, TypeOK
    <3>2. \A p \in 0 .. issued - 1 :
            Performed(Store(p, "head")) => Performed(Store(p, "head"))'
      BY <2>2 DEF Kinds
    <3>3. writeSeq # 0 => Performed(Store(writeSeq - 1, "head"))'
      <4>1. ASSUME NEW p \in 0 .. issued - 1, p = writeSeq - 1, writeSeq # 0
            PROVE  Performed(Store(p, "head"))'
        BY <3>2, <4>1 DEF MemoryInv, HeadFromStores
      <4> QED
        BY <2>1, <3>1, <4>1
    <3> QED
      BY <2>1, <3>3 DEF MemoryInv, HeadFromStores, TypeOK
  <2> QED
    BY <2>4, <2>5, <2>6, <2>7 DEF MemoryInv
<1>2. CASE PerformOdd
  <2>1. PICK a \in pending :
          /\ a.kind = "odd" /\ Performable(a)
          /\ pending' = pending \ {a} /\ issued' = issued
          /\ seq' = [seq EXCEPT ![SlotOf(a.pos)] = OddSeq(a.pos)]
          /\ word' = word /\ writeSeq' = writeSeq
    BY <1>2 DEF PerformOdd
  <2>2. /\ StoresInOrder'
        /\ \A p, k : Performed(Store(p, k))' <=> Performed(Store(p, k)) \/ Store(p, k) = a
    BY <2>1, PerformKeepsOrder DEF MemoryInv
  <2>3. /\ a = Store(a.pos, "odd") /\ a.pos \in 0 .. issued - 1 /\ issued \in Nat
        /\ SlotOf(a.pos) \in Slots /\ seq[SlotOf(a.pos)] < OddSeq(a.pos)
    BY <2>1, StoreRange, SlotRange, PendingWitness
  <2>4. WitnessFromStores'
    <3>1. ASSUME NEW p \in 0 .. issued - 1
          PROVE  /\ Performed(Store(p, "odd"))' => seq'[SlotOf(p)] >= OddSeq(p)
                 /\ Performed(Store(p, "even"))' => seq'[SlotOf(p)] >= StableSeq(p)
      <4>1. Store(p, "odd") = a => p = a.pos
        BY StoreFields
      <4>2. Store(p, "even") # a
        BY <2>1, StoreFields
      <4>3. /\ Performed(Store(p, "odd")) => seq[SlotOf(p)] >= OddSeq(p)
            /\ Performed(Store(p, "even")) => seq[SlotOf(p)] >= StableSeq(p)
        BY DEF MemoryInv, WitnessFromStores
      <4>4. p \in Nat /\ SlotOf(p) \in Slots /\ seq[SlotOf(p)] \in Nat
        BY SlotRange DEF TypeOK
      <4>5. seq'[SlotOf(p)] >= seq[SlotOf(p)] /\ seq'[SlotOf(a.pos)] = OddSeq(a.pos)
        BY <2>1, <2>3, <4>4 DEF OddSeq, StableSeq, TypeOK
      <4>6. seq'[SlotOf(p)] \in Nat
        BY <2>1, <2>3, <4>4 DEF OddSeq, StableSeq, TypeOK
      <4> QED
        BY <2>2, <4>1, <4>2, <4>3, <4>4, <4>5, <4>6 DEF OddSeq, StableSeq
    <3>2. ASSUME NEW s \in Slots, seq'[s] # 0
          PROVE  \E p \in 0 .. issued - 1 :
                   /\ SlotOf(p) = s
                   /\ \/ seq'[s] = OddSeq(p) /\ Performed(Store(p, "odd"))'
                      \/ seq'[s] = StableSeq(p) /\ Performed(Store(p, "even"))'
      <4>1. CASE s = SlotOf(a.pos)
        BY <2>1, <2>2, <2>3, <4>1 DEF TypeOK
      <4>2. CASE s # SlotOf(a.pos)
        <5>1. seq'[s] = seq[s]
          BY <2>1, <4>2 DEF TypeOK
        <5> QED
          BY <2>2, <3>2, <5>1 DEF MemoryInv, WitnessFromStores
      <4> QED
        BY <4>1, <4>2
    <3> QED
      BY <2>1, <3>1, <3>2 DEF WitnessFromStores
  <2>5. PayloadFromStores'
    <3>1. \A p : \A w \in Words : Store(p, w) # a
      BY <2>1, StoreFields, WordKinds
    <3> QED
      BY <2>1, <2>2, <3>1 DEF MemoryInv, PayloadFromStores
  <2>6. HeadFromStores'
    BY <2>1, <2>2 DEF MemoryInv, HeadFromStores
  <2> QED
    BY <2>2, <2>4, <2>5, <2>6 DEF MemoryInv
<1>3. CASE PerformEven
  <2>1. PICK a \in pending :
          /\ a.kind = "even" /\ Performable(a)
          /\ pending' = pending \ {a} /\ issued' = issued
          /\ seq' = [seq EXCEPT ![SlotOf(a.pos)] = StableSeq(a.pos)]
          /\ word' = word /\ writeSeq' = writeSeq
    BY <1>3 DEF PerformEven
  <2>2. /\ StoresInOrder'
        /\ \A p, k : Performed(Store(p, k))' <=> Performed(Store(p, k)) \/ Store(p, k) = a
    BY <2>1, PerformKeepsOrder DEF MemoryInv
  <2>3. /\ a = Store(a.pos, "even") /\ a.pos \in 0 .. issued - 1 /\ issued \in Nat
        /\ SlotOf(a.pos) \in Slots /\ seq[SlotOf(a.pos)] < StableSeq(a.pos)
    BY <2>1, StoreRange, SlotRange, PendingWitness
  <2>4. WitnessFromStores'
    <3>1. ASSUME NEW p \in 0 .. issued - 1
          PROVE  /\ Performed(Store(p, "odd"))' => seq'[SlotOf(p)] >= OddSeq(p)
                 /\ Performed(Store(p, "even"))' => seq'[SlotOf(p)] >= StableSeq(p)
      <4>1. Store(p, "even") = a => p = a.pos
        BY StoreFields
      <4>2. Store(p, "odd") # a
        BY <2>1, StoreFields
      <4>3. /\ Performed(Store(p, "odd")) => seq[SlotOf(p)] >= OddSeq(p)
            /\ Performed(Store(p, "even")) => seq[SlotOf(p)] >= StableSeq(p)
        BY DEF MemoryInv, WitnessFromStores
      <4>4. p \in Nat /\ SlotOf(p) \in Slots /\ seq[SlotOf(p)] \in Nat
        BY SlotRange DEF TypeOK
      <4>5. seq'[SlotOf(p)] >= seq[SlotOf(p)] /\ seq'[SlotOf(a.pos)] = StableSeq(a.pos)
        BY <2>1, <2>3, <4>4 DEF StableSeq, TypeOK
      <4>6. seq'[SlotOf(p)] \in Nat
        BY <2>1, <2>3, <4>4 DEF StableSeq, TypeOK
      <4> QED
        BY <2>2, <4>1, <4>2, <4>3, <4>4, <4>5, <4>6 DEF OddSeq, StableSeq
    <3>2. ASSUME NEW s \in Slots, seq'[s] # 0
          PROVE  \E p \in 0 .. issued - 1 :
                   /\ SlotOf(p) = s
                   /\ \/ seq'[s] = OddSeq(p) /\ Performed(Store(p, "odd"))'
                      \/ seq'[s] = StableSeq(p) /\ Performed(Store(p, "even"))'
      <4>1. CASE s = SlotOf(a.pos)
        BY <2>1, <2>2, <2>3, <4>1 DEF TypeOK
      <4>2. CASE s # SlotOf(a.pos)
        <5>1. seq'[s] = seq[s]
          BY <2>1, <4>2 DEF TypeOK
        <5> QED
          BY <2>2, <3>2, <5>1 DEF MemoryInv, WitnessFromStores
      <4> QED
        BY <4>1, <4>2
    <3> QED
      BY <2>1, <3>1, <3>2 DEF WitnessFromStores
  <2>5. PayloadFromStores'
    <3>1. \A p : \A w \in Words : Store(p, w) # a
      BY <2>1, StoreFields, WordKinds
    <3> QED
      BY <2>1, <2>2, <3>1 DEF MemoryInv, PayloadFromStores
  <2>6. HeadFromStores'
    BY <2>1, <2>2 DEF MemoryInv, HeadFromStores
  <2> QED
    BY <2>2, <2>4, <2>5, <2>6 DEF MemoryInv
<1>4. CASE PerformWord
  <2>1. PICK a \in pending :
          /\ a.kind \in Words /\ Performable(a)
          /\ pending' = pending \ {a} /\ issued' = issued
          /\ word' = [word EXCEPT ![SlotOf(a.pos)][a.kind] = a.pos]
          /\ seq' = seq /\ writeSeq' = writeSeq
    BY <1>4 DEF PerformWord
  <2>2. /\ StoresInOrder'
        /\ \A p, k : Performed(Store(p, k))' <=> Performed(Store(p, k)) \/ Store(p, k) = a
    BY <2>1, PerformKeepsOrder DEF MemoryInv
  <2>3. /\ a = Store(a.pos, a.kind) /\ a.pos \in 0 .. issued - 1 /\ issued \in Nat
        /\ SlotOf(a.pos) \in Slots /\ word[SlotOf(a.pos)][a.kind] < a.pos
        /\ a.kind \notin {"odd", "even", "head"}
    BY <2>1, StoreRange, SlotRange, PendingWord, WordKinds
  <2>4. WitnessFromStores'
    <3>1. \A p : Store(p, "odd") # a /\ Store(p, "even") # a
      BY <2>3, StoreFields
    <3> QED
      BY <2>1, <2>2, <3>1 DEF MemoryInv, WitnessFromStores
  <2>5. PayloadFromStores'
    <3>1. ASSUME NEW s \in Slots, NEW w \in Words
          PROVE  /\ word[s][w] \in Nat \cup {Zeroed}
                 /\ word'[s][w] = IF s = SlotOf(a.pos) /\ w = a.kind
                                  THEN a.pos ELSE word[s][w]
      BY <2>1, <2>3 DEF TypeOK
    <3>2. ASSUME NEW p \in 0 .. issued - 1, NEW w \in Words, Performed(Store(p, w))'
          PROVE  word'[SlotOf(p)][w] >= p
      <4>1. SlotOf(p) \in Slots /\ p \in Nat
        BY SlotRange
      <4>2. CASE Store(p, w) = a
        BY <2>3, <3>1, <4>1, <4>2, StoreFields
      <4>3. CASE Performed(Store(p, w))
        BY <2>3, <3>1, <4>1, <4>3 DEF MemoryInv, PayloadFromStores, Zeroed
      <4> QED
        BY <2>2, <3>2, <4>2, <4>3
    <3>3. ASSUME NEW s \in Slots, NEW w \in Words, word'[s][w] # Zeroed
          PROVE  /\ word'[s][w] \in 0 .. issued - 1
                 /\ SlotOf(word'[s][w]) = s
                 /\ Performed(Store(word[s][w], w))'
      <4>1. CASE s = SlotOf(a.pos) /\ w = a.kind
        BY <2>2, <2>3, <3>1, <4>1
      <4>2. CASE ~ (s = SlotOf(a.pos) /\ w = a.kind)
        BY <2>2, <3>1, <3>3, <4>2 DEF MemoryInv, PayloadFromStores
      <4> QED
        BY <4>1, <4>2
    <3> QED
      BY <2>1, <3>2, <3>3 DEF PayloadFromStores
  <2>6. HeadFromStores'
    BY <2>1, <2>2 DEF MemoryInv, HeadFromStores
  <2> QED
    BY <2>2, <2>4, <2>5, <2>6 DEF MemoryInv
<1>5. CASE PerformHead
  <2>1. PICK a \in pending :
          /\ a.kind = "head" /\ Performable(a)
          /\ pending' = pending \ {a} /\ issued' = issued
          /\ writeSeq' = a.pos + 1
          /\ seq' = seq /\ word' = word
    BY <1>5 DEF PerformHead
  <2>2. /\ StoresInOrder'
        /\ \A p, k : Performed(Store(p, k))' <=> Performed(Store(p, k)) \/ Store(p, k) = a
    BY <2>1, PerformKeepsOrder DEF MemoryInv
  <2>3. a = Store(a.pos, "head") /\ a.pos \in 0 .. issued - 1 /\ issued \in Nat
    BY <2>1, StoreRange
  <2>4. WitnessFromStores'
    <3>1. \A p : Store(p, "odd") # a /\ Store(p, "even") # a
      BY <2>1, StoreFields
    <3> QED
      BY <2>1, <2>2, <3>1 DEF MemoryInv, WitnessFromStores
  <2>5. PayloadFromStores'
    <3>1. \A p : \A w \in Words : Store(p, w) # a
      BY <2>1, StoreFields, WordKinds
    <3> QED
      BY <2>1, <2>2, <3>1 DEF MemoryInv, PayloadFromStores
  <2>6. HeadFromStores'
    <3>1. Performed(Store(writeSeq - 1, "head"))'
      BY <2>1, <2>2, <2>3
    <3> QED
      BY <2>1, <2>3, <3>1 DEF HeadFromStores
  <2> QED
    BY <2>2, <2>4, <2>5, <2>6 DEF MemoryInv
<1>6. CASE UNCHANGED <<writerVars, memoryVars>>
  <2>1. /\ issued' = issued /\ pending' = pending
        /\ seq' = seq /\ word' = word /\ writeSeq' = writeSeq
    BY <1>6 DEF writerVars, memoryVars
  <2> QED
    BY <2>1 DEF MemoryInv, StoresInOrder, WitnessFromStores, PayloadFromStores,
       HeadFromStores, Performed, IssuedStores
<1>7. ASSUME NEW r \in Readers, Call(r) \/ Query(r) \/ Return(r)
      PROVE  UNCHANGED <<writerVars, memoryVars>>
  BY <1>7 DEF Call, Query, Return, LoadHead, LoadWitness, CopyWord, LoadRecheck,
     AcceptTile, FallBack, TileOverwritten, SlotWitness, SlotOverwritten, SlotRetry,
     SlotAccept
<1>8. CASE UNCHANGED vars
  BY <1>6, <1>8 DEF vars
<1> QED
  BY <1>1, <1>2, <1>3, <1>4, <1>5, <1>6, <1>7, <1>8 DEF Next, Perform

\* No step takes a witness or write_seq back.
LEMMA MemoryGrows ==
  ASSUME TypeOK, MemoryInv, [Next]_vars
  PROVE  (\A s \in Slots : seq'[s] >= seq[s]) /\ writeSeq' >= writeSeq
<1>1. seq \in [Slots -> Nat] /\ writeSeq \in Nat
  BY DEF TypeOK
<1>2. CASE PerformOdd
  <2>1. PICK a \in pending :
          /\ a.kind = "odd" /\ Performable(a) /\ writeSeq' = writeSeq
          /\ seq' = [seq EXCEPT ![SlotOf(a.pos)] = OddSeq(a.pos)]
    BY <1>2 DEF PerformOdd
  <2>2. seq[SlotOf(a.pos)] < OddSeq(a.pos) /\ a.pos \in Nat
    BY <2>1, StoreRange, PendingWitness
  <2> QED
    BY <1>1, <2>1, <2>2 DEF OddSeq, StableSeq
<1>3. CASE PerformEven
  <2>1. PICK a \in pending :
          /\ a.kind = "even" /\ Performable(a) /\ writeSeq' = writeSeq
          /\ seq' = [seq EXCEPT ![SlotOf(a.pos)] = StableSeq(a.pos)]
    BY <1>3 DEF PerformEven
  <2>2. seq[SlotOf(a.pos)] < StableSeq(a.pos) /\ a.pos \in Nat
    BY <2>1, StoreRange, PendingWitness
  <2> QED
    BY <1>1, <2>1, <2>2 DEF StableSeq
<1>4. CASE PerformHead
  <2>1. PICK a \in pending : a.kind = "head" /\ writeSeq' = a.pos + 1 /\ seq' = seq
    BY <1>4 DEF PerformHead
  <2>2. writeSeq <= a.pos /\ a.pos \in Nat
    BY <2>1, StoreRange, PendingHead
  <2> QED
    BY <1>1, <2>1, <2>2
<1>5. CASE UNCHANGED <<seq, writeSeq>>
  BY <1>1, <1>5
<1>6. CASE Tick \/ PerformWord
  BY <1>5, <1>6 DEF Tick, PerformWord, memoryVars
<1>7. ASSUME NEW r \in Readers, Call(r) \/ Query(r) \/ Return(r)
      PROVE  UNCHANGED <<seq, writeSeq>>
  BY <1>7 DEF Call, Query, Return, LoadHead, LoadWitness, CopyWord, LoadRecheck,
     AcceptTile, FallBack, TileOverwritten, SlotWitness, SlotOverwritten, SlotRetry,
     SlotAccept, memoryVars
<1>8. CASE UNCHANGED vars
  BY <1>5, <1>8 DEF vars, memoryVars
<1> QED
  BY <1>2, <1>3, <1>4, <1>5, <1>6, <1>7, <1>8 DEF Next, Perform

-----------------------------------------------------------------------------
(* The readers.                                                            *)

\* The slots a query asks for are published, so memory has reached the record
\* wherever it looks.
LEMMA RequestedSlot ==
  ASSUME TypeOK, MemoryInv, NEW r \in Readers, snap[r] <= writeSeq,
         NEW i \in Indices, i < Count(r)
  PROVE  /\ Position(r, i) \in 0 .. writeSeq - 1
         /\ SlotAt(r, i) \in Slots
         /\ seq[SlotAt(r, i)] >= StableSeq(Position(r, i))
         /\ \A w \in Words :
              /\ word[SlotAt(r, i)][w] >= Position(r, i)
              /\ word[SlotAt(r, i)][w] > Position(r, i) =>
                   seq[SlotAt(r, i)] > StableSeq(Position(r, i))
<1>1. snap[r] \in Nat /\ writeSeq \in Nat /\ depth[r] \in Nat \ {0} /\ i \in Nat
  BY DEF TypeOK, Indices
<1>2. Count(r) \in Nat /\ Count(r) <= snap[r]
  BY <1>1, CountRange DEF Count
<1>3. Position(r, i) \in 0 .. writeSeq - 1
  BY <1>1, <1>2 DEF Position, Start
<1> QED
  BY <1>1, <1>3, PublishedSlot, PositionRange DEF SlotAt

\* The indices of a tile, and the end of it.
LEMMA TileRange ==
  ASSUME TypeOK, NEW r \in Readers
  PROVE  /\ Count(r) \in Nat /\ Count(r) <= RingCapacity
         /\ base[r] \in Nat /\ Tile \in Nat \ {0}
         /\ \A i : i \in TileAt(r) <=> i \in Indices /\ base[r] <= i
                                       /\ i < base[r] + Tile /\ i < Count(r)
         /\ \A i \in Nat : i < Count(r) => i \in Indices
<1>1. depth[r] \in Nat \ {0} /\ snap[r] \in Nat /\ base[r] \in Nat
  BY DEF TypeOK
<1>2. Count(r) \in Nat /\ Count(r) <= RingCapacity
  BY <1>1, CountRange DEF Count
<1>3. \A i : i \in TileAt(r) <=> i \in Indices /\ base[r] <= i
                                 /\ i < base[r] + Tile /\ i < Count(r)
  BY DEF TileAt
<1>4. \A i \in Nat : i < Count(r) => i \in Indices
  BY <1>2 DEF Indices
<1> QED
  BY <1>1, <1>2, <1>3, <1>4

\* A reader that takes no step keeps its invariant while memory grows.
LEMMA ReaderStutter ==
  ASSUME TypeOK, MemoryInv, [Next]_vars, NEW r \in Readers, ReaderInv(r),
         pc'[r] = pc[r], depth'[r] = depth[r], snap'[r] = snap[r],
         base'[r] = base[r], cursor'[r] = cursor[r], ver'[r] = ver[r],
         out'[r] = out[r], recheck'[r] = recheck[r]
  PROVE  ReaderInv(r)'
<1>1. /\ Count(r)' = Count(r)
      /\ \A i : Position(r, i)' = Position(r, i) /\ SlotAt(r, i)' = SlotAt(r, i)
  BY DEF Count, Position, Start, SlotAt
<1>2. snap'[r] <= writeSeq'
  BY MemoryGrows, TypeInductive DEF ReaderInv, TypeOK
<1>3. CopiedOrLost(r)'
  <2> SUFFICES ASSUME NEW i \in Indices, NEW w \in Words,
                      i < Count(r), out[r][i][w] # NotRead
               PROVE  /\ out[r][i][w] >= Position(r, i)
                      /\ out[r][i][w] > Position(r, i) =>
                           seq'[SlotAt(r, i)] > StableSeq(Position(r, i))
    BY <1>1 DEF CopiedOrLost
  <2>1. /\ out[r][i][w] >= Position(r, i)
        /\ out[r][i][w] > Position(r, i) =>
             seq[SlotAt(r, i)] > StableSeq(Position(r, i))
    BY DEF ReaderInv, CopiedOrLost
  <2>2. SlotAt(r, i) \in Slots /\ Position(r, i) \in Nat
    BY PositionRange DEF Indices
  <2>3. /\ seq'[SlotAt(r, i)] >= seq[SlotAt(r, i)]
        /\ seq[SlotAt(r, i)] \in Nat /\ seq'[SlotAt(r, i)] \in Nat
    BY <2>2, MemoryGrows, TypeInductive DEF TypeOK
  <2> QED
    BY <2>1, <2>2, <2>3 DEF StableSeq
<1>4. Progress(r)'
  BY <1>1 DEF ReaderInv, Progress, NotBegun, WholeBelow, IsWhole, InTile, Rechecked,
     IsRead, AtSlot, TileAt
<1> QED
  BY <1>2, <1>3, <1>4 DEF ReaderInv

\* What a query asks for is fixed once it has its snapshot.
LEMMA SameRequest ==
  ASSUME NEW r \in Readers, depth'[r] = depth[r], snap'[r] = snap[r]
  PROVE  /\ Count(r)' = Count(r)
         /\ \A i : Position(r, i)' = Position(r, i) /\ SlotAt(r, i)' = SlotAt(r, i)
BY DEF Count, Position, Start, SlotAt

\* Copies taken from memory that has not changed since stay as good as they
\* were.
LEMMA KeepsCopies ==
  ASSUME NEW r \in Readers, CopiedOrLost(r), depth'[r] = depth[r],
         snap'[r] = snap[r], seq' = seq,
         \A i \in Indices, w \in Words :
           out'[r][i][w] \in {out[r][i][w], NotRead}
  PROVE  CopiedOrLost(r)'
BY SameRequest DEF CopiedOrLost

\* A query begins with its locals clear.
LEMMA CallKeeps ==
  ASSUME TypeOK, NEW r \in Readers, ReaderInv(r), Call(r)
  PROVE  ReaderInv(r)'
<1>1. /\ pc[r] = "idle" /\ pc'[r] = "head" /\ out' = out /\ base' = base
      /\ cursor' = cursor /\ recheck' = recheck /\ snap' = snap /\ writeSeq' = writeSeq
  BY DEF Call, TypeOK, memoryVars
<1>2. NotBegun(r)'
  BY <1>1 DEF ReaderInv, Progress, NotBegun
<1>3. CopiedOrLost(r)'
  BY <1>2 DEF CopiedOrLost, NotBegun, NoCopy
<1> QED
  BY <1>1, <1>2, <1>3 DEF ReaderInv, Progress

\* The snapshot of write_seq fixes records that are all published.
LEMMA LoadHeadKeeps ==
  ASSUME TypeOK, NEW r \in Readers, ReaderInv(r), LoadHead(r)
  PROVE  ReaderInv(r)'
<1> DEFINE count == CountOf(depth[r], writeSeq)
<1>1. /\ pc[r] = "head" /\ out'[r] = out[r] /\ base'[r] = base[r]
      /\ cursor'[r] = cursor[r] /\ recheck'[r] = recheck[r] /\ snap'[r] = writeSeq
      /\ writeSeq' = writeSeq /\ depth'[r] = depth[r]
  BY DEF LoadHead, TypeOK, memoryVars
<1>2. /\ count = 0 => pc'[r] = "ok"
      /\ count = 1 => pc'[r] = "slot"
      /\ count # 0 /\ count # 1 => pc'[r] = "passA"
  BY DEF LoadHead, TypeOK
<1>3. count \in Nat /\ count <= RingCapacity /\ Count(r)' = count /\ writeSeq \in Nat
  BY <1>1, CountRange DEF Count, TypeOK
<1>4. base[r] = 0 /\ cursor[r] = 0 /\ out[r] = NoCopy /\ recheck[r] = NoWitness
  BY <1>1 DEF ReaderInv, Progress, NotBegun
<1>5. CopiedOrLost(r)'
  BY <1>1, <1>4 DEF CopiedOrLost, NoCopy
<1>6. WholeBelow(r, 0)'
  BY DEF WholeBelow, Indices
<1>7. CASE count = 0
  <2>1. WholeBelow(r, Count(r))'
    BY <1>3, <1>6, <1>7
  <2> QED
    BY <1>1, <1>2, <1>3, <1>5, <1>7, <2>1 DEF ReaderInv, Progress
<1>8. CASE count = 1
  <2>1. AtSlot(r)'
    BY <1>1, <1>3, <1>4, <1>6, <1>8 DEF AtSlot, TileAt, Indices, WholeBelow
  <2> QED
    BY <1>1, <1>2, <1>3, <1>5, <1>8, <2>1 DEF ReaderInv, Progress
<1>9. CASE count # 0 /\ count # 1
  <2>1. InTile(r)' /\ recheck'[r] = NoWitness
    BY <1>1, <1>3, <1>4, <1>6, <1>9 DEF InTile, WholeBelow
  <2> QED
    BY <1>1, <1>2, <1>3, <1>5, <1>9, <2>1 DEF ReaderInv, Progress
<1> QED
  BY <1>7, <1>8, <1>9

\* Pass A copies and validates nothing.
LEMMA LoadWitnessKeeps ==
  ASSUME TypeOK, NEW r \in Readers, ReaderInv(r), LoadWitness(r)
  PROVE  ReaderInv(r)'
<1>1. /\ pc[r] = "passA" /\ pc'[r] \in {"passA", "passB"} /\ out' = out
      /\ base' = base /\ cursor' = cursor /\ recheck' = recheck
      /\ snap' = snap /\ depth' = depth /\ writeSeq' = writeSeq /\ seq' = seq
  BY DEF LoadWitness, TypeOK, memoryVars
<1>2. CopiedOrLost(r)'
  BY <1>1, KeepsCopies DEF ReaderInv
<1>3. InTile(r)' /\ recheck'[r] = NoWitness
  BY <1>1, SameRequest DEF ReaderInv, Progress, InTile, WholeBelow, IsWhole
<1> QED
  BY <1>1, <1>2, <1>3 DEF ReaderInv, Progress

\* A word copied from a slot is of the record asked for or of a later lap.
LEMMA CopyWordKeeps ==
  ASSUME TypeOK, MemoryInv, NEW r \in Readers, ReaderInv(r), CopyWord(r)
  PROVE  ReaderInv(r)'
<1> DEFINE copying == IF pc[r] = "passB" THEN TileAt(r) ELSE {cursor[r]}
<1>1. /\ pc[r] \in {"passB", "copy"}
      /\ base' = base /\ cursor' = cursor /\ recheck' = recheck /\ ver' = ver
      /\ snap' = snap /\ depth' = depth /\ writeSeq' = writeSeq /\ seq' = seq
  BY DEF CopyWord, memoryVars
<1>2. PICK i \in copying, w \in Words :
        out' = [out EXCEPT ![r][i][w] = word[SlotAt(r, i)][w]]
  BY DEF CopyWord
<1>3. \/ pc' = pc
      \/ /\ pc'[r] = IF pc[r] = "passB" THEN "passC" ELSE "recheck"
         /\ \A j \in copying : IsRead(r, j)'
  BY DEF CopyWord, TypeOK, IsRead
<1>4. /\ i \in TileAt(r) /\ i \in Indices /\ i < Count(r) /\ base[r] <= i
      /\ pc[r] = "copy" => i = cursor[r]
  BY <1>1, <1>2, TileRange DEF ReaderInv, Progress, AtSlot
<1>5. \A j \in Indices, v \in Words :
        out'[r][j][v] = IF j = i /\ v = w THEN word[SlotAt(r, i)][w] ELSE out[r][j][v]
  <2>1. out \in [Readers -> [Indices -> [Words -> Nat \cup {Zeroed, NotRead}]]]
    BY DEF TypeOK
  <2> QED
    BY <1>2, <1>4, <2>1
<1>6. CopiedOrLost(r)'
  <2>1. /\ word[SlotAt(r, i)][w] >= Position(r, i)
        /\ word[SlotAt(r, i)][w] > Position(r, i) =>
             seq[SlotAt(r, i)] > StableSeq(Position(r, i))
    BY <1>4, RequestedSlot DEF ReaderInv
  <2> QED
    BY <1>1, <1>5, <2>1, SameRequest DEF ReaderInv, CopiedOrLost
<1>7. ASSUME NEW n \in Nat, n <= i, WholeBelow(r, n)
      PROVE  WholeBelow(r, n)'
  <2>1. \A j \in Indices : j < n => j # i
    BY <1>4, <1>7 DEF Indices
  <2> QED
    BY <1>1, <1>5, <1>7, <2>1, SameRequest DEF WholeBelow, IsWhole
<1>8. CASE pc[r] = "passB"
  <2>1. InTile(r)'
    BY <1>1, <1>4, <1>7, <1>8, SameRequest, TileRange DEF ReaderInv, Progress, InTile
  <2>2. recheck'[r] = NoWitness
    BY <1>1, <1>8 DEF ReaderInv, Progress
  <2>3. (\A j \in copying : IsRead(r, j)') => Rechecked(r)'
    <3>1. TileAt(r)' = TileAt(r)
      BY <1>1, SameRequest DEF TileAt
    <3>2. \A j \in TileAt(r) : /\ recheck'[r][j] = NotRead
                               /\ StableSeq(Position(r, j)) # NotRead
      BY <2>2, PositionRange DEF NoWitness, TileAt, Indices, StableSeq, NotRead
    <3> QED
      BY <1>1, <1>8, <3>1, <3>2, SameRequest DEF Rechecked
  <2> QED
    BY <1>1, <1>3, <1>6, <1>8, <2>1, <2>2, <2>3 DEF ReaderInv, Progress
<1>9. CASE pc[r] = "copy"
  <2>1. AtSlot(r)'
    BY <1>1, <1>4, <1>7, <1>9, SameRequest DEF ReaderInv, Progress, AtSlot, TileAt, Indices
  <2>2. (ver[r][cursor[r]] = StableSeq(Position(r, cursor[r])))'
    BY <1>1, <1>9, SameRequest DEF ReaderInv, Progress
  <2> QED
    BY <1>1, <1>3, <1>6, <1>9, <2>1, <2>2 DEF ReaderInv, Progress
<1> QED
  BY <1>1, <1>8, <1>9

\* A witness that still names the record vouches for the whole copy: had one word
\* been of a later lap, the slot's witness would have moved on before it.
LEMMA LoadRecheckKeeps ==
  ASSUME TypeOK, MemoryInv, NEW r \in Readers, ReaderInv(r), LoadRecheck(r)
  PROVE  ReaderInv(r)'
<1>1. /\ pc[r] = "passC" /\ pc' = pc /\ out' = out /\ base' = base
      /\ snap' = snap /\ depth' = depth /\ writeSeq' = writeSeq /\ seq' = seq
  BY DEF LoadRecheck, memoryVars
<1>2. PICK i \in TileAt(r) : recheck' = [recheck EXCEPT ![r][i] = seq[SlotAt(r, i)]]
  BY DEF LoadRecheck
<1>3. CopiedOrLost(r)'
  BY <1>1, KeepsCopies DEF ReaderInv
<1>4. InTile(r)'
  BY <1>1, SameRequest DEF ReaderInv, Progress, InTile, WholeBelow, IsWhole
<1>5. Rechecked(r)'
  <2> SUFFICES ASSUME NEW j \in TileAt(r)
               PROVE  /\ IsRead(r, j)
                      /\ recheck'[r][j] = StableSeq(Position(r, j)) => IsWhole(r, j)
    BY <1>1, SameRequest DEF Rechecked, TileAt, IsRead, IsWhole
  <2>1. IsRead(r, j) /\ (recheck[r][j] = StableSeq(Position(r, j)) => IsWhole(r, j))
    BY <1>1 DEF ReaderInv, Progress, Rechecked
  <2>2. j \in Indices /\ j < Count(r) /\ i \in Indices
    BY TileRange
  <2>3. recheck'[r][j] = IF j = i THEN seq[SlotAt(r, i)] ELSE recheck[r][j]
    BY <1>2, <2>2 DEF TypeOK
  <2>4. ASSUME seq[SlotAt(r, j)] = StableSeq(Position(r, j)), NEW w \in Words
        PROVE  out[r][j][w] = Position(r, j)
    <3>1. out[r][j][w] >= Position(r, j) /\ ~ out[r][j][w] > Position(r, j)
      BY <2>1, <2>2, <2>4, PositionRange DEF ReaderInv, CopiedOrLost, IsRead, StableSeq, Indices
    <3>2. Position(r, j) \in Nat
      BY <2>2, PositionRange DEF Indices
    <3>3. out[r][j][w] \in Nat \cup {Zeroed, NotRead}
      BY <2>2 DEF TypeOK
    <3> QED
      BY <3>1, <3>2, <3>3 DEF Zeroed, NotRead
  <2> QED
    BY <2>1, <2>3, <2>4 DEF IsWhole
<1> QED
  BY <1>1, <1>3, <1>4, <1>5 DEF ReaderInv, Progress

\* The next tile, or the end: what was validated stays so.
LEMMA EndTileKeeps ==
  ASSUME TypeOK, NEW r \in Readers, ReaderInv(r), EndTile(r),
         out' = out, snap' = snap, depth' = depth, writeSeq' = writeSeq, seq' = seq,
         WholeBelow(r, base[r] + Tile) \/ WholeBelow(r, Count(r))
  PROVE  ReaderInv(r)'
<1>1. /\ base'[r] = base[r] + Tile /\ recheck'[r] = NoWitness
      /\ pc'[r] = IF base[r] + Tile < Count(r) THEN "passA" ELSE "ok"
  BY DEF EndTile, TypeOK
<1>2. CopiedOrLost(r)'
  BY KeepsCopies DEF ReaderInv
<1>3. \A n : WholeBelow(r, n) => WholeBelow(r, n)'
  BY SameRequest DEF WholeBelow, IsWhole
<1>4. CASE base[r] + Tile < Count(r)
  <2>1. WholeBelow(r, base[r] + Tile)
    BY <1>4, TileRange DEF WholeBelow, Indices
  <2>2. InTile(r)'
    BY <1>1, <1>3, <1>4, <2>1, SameRequest DEF InTile, WholeBelow, IsWhole
  <2> QED
    BY <1>1, <1>2, <1>4, <2>2 DEF ReaderInv, Progress
<1>5. CASE ~ (base[r] + Tile < Count(r))
  <2>1. WholeBelow(r, Count(r))
    BY <1>5, TileRange DEF WholeBelow, Indices
  <2>2. WholeBelow(r, Count(r))'
    BY <2>1, SameRequest DEF WholeBelow, IsWhole
  <2> QED
    BY <1>1, <1>2, <1>5, <2>2 DEF ReaderInv, Progress
<1> QED
  BY <1>4, <1>5

\* A tile is accepted slot by slot, so all of it is whole.
LEMMA AcceptTileKeeps ==
  ASSUME TypeOK, NEW r \in Readers, ReaderInv(r), AcceptTile(r)
  PROVE  ReaderInv(r)'
<1>1. /\ pc[r] = "passC" /\ EndTile(r) /\ \A i \in TileAt(r) : Accepted(r, i)
      /\ out' = out /\ snap' = snap /\ depth' = depth /\ writeSeq' = writeSeq /\ seq' = seq
  BY DEF AcceptTile, Judging, memoryVars
<1>2. WholeBelow(r, base[r]) /\ Rechecked(r)
  BY <1>1 DEF ReaderInv, Progress, InTile
<1>3. \A i \in TileAt(r) : IsWhole(r, i)
  BY <1>1, <1>2 DEF Accepted, Unstable, Newer, Rechecked
<1>4. WholeBelow(r, base[r] + Tile) \/ WholeBelow(r, Count(r))
  <2>1. CASE base[r] + Tile < Count(r)
    BY <1>2, <1>3, <2>1, TileRange DEF WholeBelow, Indices
  <2>2. CASE ~ (base[r] + Tile < Count(r))
    BY <1>2, <1>3, <2>2, TileRange DEF WholeBelow, Indices
  <2> QED
    BY <2>1, <2>2
<1> QED
  BY <1>1, <1>4, EndTileKeeps

\* What lies before the first unstable slot of a tile is whole.
LEMMA FallBackKeeps ==
  ASSUME TypeOK, NEW r \in Readers, ReaderInv(r), FallBack(r)
  PROVE  ReaderInv(r)'
<1>1. /\ pc[r] = "passC" /\ pc'[r] = "slot" /\ base' = base /\ out' = out
      /\ snap' = snap /\ depth' = depth /\ writeSeq' = writeSeq /\ seq' = seq
  BY DEF FallBack, Judging, memoryVars, TypeOK
<1>2. PICK i \in TileAt(r) : FirstBad(r, i) /\ cursor' = [cursor EXCEPT ![r] = i]
  BY DEF FallBack
<1>3. CopiedOrLost(r)'
  BY <1>1, KeepsCopies DEF ReaderInv
<1>4. WholeBelow(r, base[r]) /\ Rechecked(r)
  BY <1>1 DEF ReaderInv, Progress, InTile
<1>5. \A j \in TileAt(r) : j < i => IsWhole(r, j)
  BY <1>2, <1>4 DEF FirstBad, Accepted, Unstable, Newer, Rechecked
<1>6. WholeBelow(r, i)
  BY <1>2, <1>4, <1>5, TileRange DEF WholeBelow, Indices
<1>7. cursor'[r] = i
  BY <1>2 DEF TypeOK
<1>8. AtSlot(r)'
  BY <1>1, <1>2, <1>6, <1>7, SameRequest DEF AtSlot, TileAt, WholeBelow, IsWhole
<1> QED
  BY <1>1, <1>3, <1>8 DEF ReaderInv, Progress

\* A query that gives up claims nothing.
LEMMA OverwrittenKeeps ==
  ASSUME TypeOK, NEW r \in Readers, ReaderInv(r),
         TileOverwritten(r) \/ SlotOverwritten(r)
  PROVE  ReaderInv(r)'
<1>1. /\ pc'[r] = "overwritten" /\ out' = out /\ snap' = snap /\ depth' = depth
      /\ writeSeq' = writeSeq /\ seq' = seq
  BY DEF TileOverwritten, SlotOverwritten, memoryVars, TypeOK
<1>2. CopiedOrLost(r)'
  BY <1>1, KeepsCopies DEF ReaderInv
<1> QED
  BY <1>1, <1>2 DEF ReaderInv, Progress

\* read_slot_seqlock begins its copy afresh, under the witness it asked for.
LEMMA SlotWitnessKeeps ==
  ASSUME TypeOK, NEW r \in Readers, ReaderInv(r), SlotWitness(r)
  PROVE  ReaderInv(r)'
<1>1. /\ pc[r] = "slot" /\ pc'[r] = "copy" /\ base' = base /\ cursor' = cursor
      /\ seq[SlotAt(r, cursor[r])] = StableSeq(Position(r, cursor[r]))
      /\ ver' = [ver EXCEPT ![r][cursor[r]] = seq[SlotAt(r, cursor[r])]]
      /\ out' = [out EXCEPT ![r][cursor[r]] = [w \in Words |-> NotRead]]
      /\ snap' = snap /\ depth' = depth /\ writeSeq' = writeSeq /\ seq' = seq
  BY DEF SlotWitness, memoryVars, TypeOK
<1>2. AtSlot(r) /\ cursor[r] \in Indices
  BY <1>1 DEF ReaderInv, Progress, AtSlot, TileAt
<1>3. \A j \in Indices, w \in Words :
        out'[r][j][w] = IF j = cursor[r] THEN NotRead ELSE out[r][j][w]
  BY <1>1, <1>2 DEF TypeOK
<1>4. CopiedOrLost(r)'
  BY <1>1, <1>3, KeepsCopies DEF ReaderInv
<1>5. AtSlot(r)'
  BY <1>1, <1>2, <1>3, SameRequest DEF AtSlot, TileAt, WholeBelow, IsWhole, Indices
<1>6. ver'[r][cursor[r]] = StableSeq(Position(r, cursor[r]))
  BY <1>1, <1>2 DEF TypeOK
<1> QED
  BY <1>1, <1>4, <1>5, <1>6, SameRequest DEF ReaderInv, Progress

\* A retry drops its copy.
LEMMA SlotRetryKeeps ==
  ASSUME TypeOK, NEW r \in Readers, ReaderInv(r), SlotRetry(r)
  PROVE  ReaderInv(r)'
<1>1. /\ pc[r] = "recheck" /\ pc'[r] = "slot" /\ base' = base /\ cursor' = cursor
      /\ out' = out /\ snap' = snap /\ depth' = depth /\ writeSeq' = writeSeq /\ seq' = seq
  BY DEF SlotRetry, memoryVars, TypeOK
<1>2. CopiedOrLost(r)'
  BY <1>1, KeepsCopies DEF ReaderInv
<1>3. AtSlot(r)'
  BY <1>1, SameRequest DEF ReaderInv, Progress, AtSlot, TileAt, WholeBelow, IsWhole
<1> QED
  BY <1>1, <1>2, <1>3 DEF ReaderInv, Progress

\* The recheck of read_slot_seqlock vouches for its copy as that of a tile does.
LEMMA AcceptedSlot ==
  ASSUME TypeOK, NEW r \in Readers, ReaderInv(r), pc[r] = "recheck",
         seq[SlotAt(r, cursor[r])] = ver[r][cursor[r]]
  PROVE  /\ cursor[r] \in TileAt(r) /\ cursor[r] \in Nat
         /\ cursor[r] \in Indices /\ cursor[r] < Count(r)
         /\ WholeBelow(r, cursor[r] + 1)
<1> DEFINE k == cursor[r]
<1>1. /\ k \in TileAt(r) /\ WholeBelow(r, k) /\ IsRead(r, k)
      /\ seq[SlotAt(r, k)] = StableSeq(Position(r, k))
  BY DEF ReaderInv, Progress, AtSlot
<1>2. k \in Indices /\ k \in Nat /\ k < Count(r)
  BY <1>1, TileRange DEF Indices
<1>3. IsWhole(r, k)
  <2> SUFFICES ASSUME NEW w \in Words
               PROVE  out[r][k][w] = Position(r, k)
    BY DEF IsWhole
  <2>1. Position(r, k) \in Nat
    BY <1>2, PositionRange
  <2>2. out[r][k][w] >= Position(r, k) /\ ~ out[r][k][w] > Position(r, k)
    BY <1>1, <1>2, <2>1 DEF ReaderInv, CopiedOrLost, IsRead, StableSeq
  <2>3. out[r][k][w] \in Nat \cup {Zeroed, NotRead}
    BY <1>2 DEF TypeOK
  <2> QED
    BY <2>1, <2>2, <2>3 DEF Zeroed, NotRead
<1> QED
  BY <1>1, <1>2, <1>3 DEF WholeBelow, Indices

\* What was accepted slot by slot is whole up to the cursor.
LEMMA SlotAcceptKeeps ==
  ASSUME TypeOK, NEW r \in Readers, ReaderInv(r), SlotAccept(r)
  PROVE  ReaderInv(r)'
<1> DEFINE k == cursor[r]
<1>1. /\ pc[r] = "recheck" /\ seq[SlotAt(r, k)] = ver[r][k] /\ cursor'[r] = k + 1
      /\ out' = out /\ snap' = snap /\ depth' = depth /\ writeSeq' = writeSeq /\ seq' = seq
  BY DEF SlotAccept, memoryVars, TypeOK
<1>2. k \in TileAt(r) /\ k \in Indices /\ k \in Nat /\ k < Count(r)
  BY <1>1, AcceptedSlot
<1>3. WholeBelow(r, k + 1)
  BY <1>1, AcceptedSlot
<1>4. CASE k + 1 \in TileAt(r)
  <2>1. pc'[r] = "slot" /\ base' = base
    BY <1>4 DEF SlotAccept, TypeOK
  <2>2. AtSlot(r)'
    BY <1>1, <1>3, <1>4, <2>1, SameRequest DEF AtSlot, TileAt, WholeBelow, IsWhole
  <2>3. CopiedOrLost(r)'
    BY <1>1, KeepsCopies DEF ReaderInv
  <2> QED
    BY <1>1, <2>1, <2>2, <2>3 DEF ReaderInv, Progress
<1>5. CASE k + 1 \notin TileAt(r)
  <2>1. EndTile(r)
    BY <1>5 DEF SlotAccept
  <2>2. k + 1 >= base[r] + Tile \/ k + 1 >= Count(r)
    BY <1>2, <1>5, TileRange DEF Indices
  <2>3. WholeBelow(r, base[r] + Tile) \/ WholeBelow(r, Count(r))
    BY <1>2, <1>3, <2>2, TileRange DEF WholeBelow, Indices
  <2> QED
    BY <1>1, <2>1, <2>3, EndTileKeeps
<1> QED
  BY <1>4, <1>5

\* The locals of an answered query are gone.
LEMMA ReturnKeeps ==
  ASSUME TypeOK, NEW r \in Readers, ReaderInv(r), Return(r)
  PROVE  ReaderInv(r)'
<1>1. /\ pc'[r] = "idle" /\ base'[r] = 0 /\ cursor'[r] = 0 /\ snap'[r] = 0
      /\ out'[r] = NoCopy /\ recheck'[r] = NoWitness /\ writeSeq' = writeSeq
  BY DEF Return, TypeOK, memoryVars
<1>2. CopiedOrLost(r)'
  BY <1>1 DEF CopiedOrLost, NoCopy
<1> QED
  BY <1>1, <1>2 DEF ReaderInv, Progress, NotBegun, TypeOK

\* A reader touches its own locals only.
LEMMA OtherReaders ==
  ASSUME TypeOK, NEW r \in Readers, Call(r) \/ Query(r) \/ Return(r),
         NEW q \in Readers, q # r
  PROVE  /\ pc'[q] = pc[q] /\ depth'[q] = depth[q] /\ snap'[q] = snap[q]
         /\ base'[q] = base[q] /\ cursor'[q] = cursor[q] /\ ver'[q] = ver[q]
         /\ out'[q] = out[q] /\ recheck'[q] = recheck[q]
<1>1. CASE Call(r)
  BY <1>1 DEF Call, TypeOK
<1>2. CASE LoadHead(r)
  BY <1>2 DEF LoadHead, TypeOK
<1>3. CASE LoadWitness(r)
  BY <1>3 DEF LoadWitness, TypeOK
<1>4. CASE CopyWord(r)
  BY <1>4 DEF CopyWord, TypeOK
<1>5. CASE LoadRecheck(r)
  BY <1>5 DEF LoadRecheck, TypeOK
<1>6. CASE AcceptTile(r)
  BY <1>6 DEF AcceptTile, EndTile, TypeOK
<1>7. CASE FallBack(r)
  BY <1>7 DEF FallBack, TypeOK
<1>8. CASE TileOverwritten(r) \/ SlotOverwritten(r)
  BY <1>8 DEF TileOverwritten, SlotOverwritten, TypeOK
<1>9. CASE SlotWitness(r)
  BY <1>9 DEF SlotWitness, TypeOK
<1>10. CASE SlotRetry(r)
  BY <1>10 DEF SlotRetry, TypeOK
<1>11. CASE SlotAccept(r)
  BY <1>11 DEF SlotAccept, EndTile, TypeOK
<1>12. CASE Return(r)
  BY <1>12 DEF Return, TypeOK
<1> QED
  BY <1>1, <1>2, <1>3, <1>4, <1>5, <1>6, <1>7, <1>8, <1>9, <1>10, <1>11, <1>12 DEF Query

\* The invariant of the ring is inductive.
LEMMA RingInductive ==
  ASSUME RingInv, [Next]_vars
  PROVE  RingInv'
<1>1. TypeOK' /\ MemoryInv'
  BY TypeInductive, MemoryInductive DEF RingInv
<1>2. ASSUME NEW r \in Readers
      PROVE  ReaderInv(r)'
  <2>0. TypeOK /\ MemoryInv /\ ReaderInv(r)
    BY DEF RingInv
  <2>1. CASE Tick \/ Perform
    <3>1. UNCHANGED readerVars
      BY <2>1 DEF Tick, Perform, PerformOdd, PerformWord, PerformEven, PerformHead
    <3> QED
      BY <2>0, <3>1, ReaderStutter DEF readerVars
  <2>2. ASSUME NEW q \in Readers, Call(q) \/ Query(q) \/ Return(q)
        PROVE  ReaderInv(r)'
    <3>1. CASE q = r
      BY <2>0, <2>2, <3>1, CallKeeps, LoadHeadKeeps, LoadWitnessKeeps, CopyWordKeeps,
         LoadRecheckKeeps, AcceptTileKeeps, FallBackKeeps, OverwrittenKeeps,
         SlotWitnessKeeps, SlotRetryKeeps, SlotAcceptKeeps, ReturnKeeps DEF Query
    <3>2. CASE q # r
      BY <2>0, <2>2, <3>2, OtherReaders, ReaderStutter
    <3> QED
      BY <3>1, <3>2
  <2>3. CASE UNCHANGED vars
    BY <2>0, <2>3, ReaderStutter DEF vars, readerVars
  <2> QED
    BY <2>1, <2>2, <2>3 DEF Next
<1> QED
  BY <1>1, <1>2 DEF RingInv

\* Nothing has been stored, and no query begun.
LEMMA RingInitial ==
  ASSUME Init
  PROVE  RingInv
<1>1. TypeOK
  BY DEF Init, TypeOK, IssuedStores, NoWitness, NoCopy, Zeroed, NotRead
<1>2. MemoryInv
  BY DEF Init, MemoryInv, StoresInOrder, WitnessFromStores, PayloadFromStores,
     HeadFromStores
<1>3. ASSUME NEW r \in Readers
      PROVE  ReaderInv(r)
  BY DEF Init, ReaderInv, CopiedOrLost, Progress, NotBegun, NoCopy
<1> QED
  BY <1>1, <1>2, <1>3 DEF RingInv

\* The inductive invariant holds throughout.
THEOREM RingInvariant == Spec => []RingInv
<1>1. RingInv /\ [Next]_vars => RingInv'
  BY RingInductive
<1> QED
  BY <1>1, RingInitial, PTL DEF Spec

\* Memory, at every instant: a stable slot holds one whole record, the one its
\* witness names, for any number of payload words and any ring capacity.
THEOREM StableSlots == Spec => []StableSlotIsWhole
<1>1. RingInv => StableSlotIsWhole
  BY StableSlot DEF RingInv
<1> QED
  BY <1>1, RingInvariant, PTL

\* Whoever reads write_seq finds every record below it in place or overwritten.
THEOREM PublishedRecords == Spec => []PublishedIsReadable
<1>1. RingInv => PublishedIsReadable
  BY PublishedSlot DEF RingInv, PublishedIsReadable
<1> QED
  BY <1>1, RingInvariant, PTL

\* A query that returns a count returns the records of its write_seq snapshot,
\* whole and in order: no torn or misplaced record reaches a strategy, with any
\* capacity, tile size, depth and number of readers and ticks.
THEOREM NoTornRecords == Spec => []AcceptedIsSnapshot
<1>1. RingInv => AcceptedIsSnapshot
  BY DEF RingInv, ReaderInv, Progress, WholeBelow, IsWhole, AcceptedIsSnapshot
<1> QED
  BY <1>1, RingInvariant, PTL

\* No witness and no write_seq ever goes back.
THEOREM WitnessesGrow == Spec => NeverBackwards
<1>1. RingInv /\ [Next]_vars =>
        [/\ \A s \in Slots : seq'[s] >= seq[s]
         /\ writeSeq' >= writeSeq]_vars
  BY MemoryGrows DEF RingInv
<1> QED
  BY <1>1, RingInvariant, PTL DEF Spec, NeverBackwards
-----------------------------------------------------------------------------
(* Refusals are genuine.                                                   *)

\* Two records of one slot are a lap of the ring apart, or more.
LEMMA LapApart ==
  ASSUME NEW p \in Nat, NEW q \in Nat, p < q, SlotOf(p) = SlotOf(q)
  PROVE  q >= p + RingCapacity
<1> DEFINE C == RingCapacity
           a == p \div C
           b == q \div C
<1>1. C \in Nat \ {0}
  OBVIOUS
<1> HIDE DEF C
<1>2. /\ a \in Nat /\ p = C * a + (p % C)
      /\ b \in Nat /\ q = C * b + (q % C)
  BY <1>1
<1> HIDE DEF a, b
<1>3. p % C = q % C /\ p % C \in 0 .. C - 1
  BY <1>1 DEF SlotOf, C
<1>4. C * a < C * b
  BY <1>1, <1>2, <1>3
<1>5. a + 1 <= b
  <2> SUFFICES ASSUME b <= a PROVE FALSE
    BY <1>2
  <2>1. C * b <= C * a
    BY <1>1, <1>2
  <2> QED
    BY <1>1, <1>2, <1>4, <2>1
<1>6. C * (a + 1) <= C * b
  BY <1>1, <1>2, <1>5
<1>7. C * (a + 1) = C * a + C
  BY <1>1, <1>2
<1> QED
  BY <1>1, <1>2, <1>3, <1>6, <1>7 DEF C

\* A witness that has passed a record asked for is of a tick a lap later, so the
\* writer has used up what the query left it as headroom.
LEMMA LappedSlot ==
  ASSUME TypeOK, MemoryInv, NEW r \in Readers, snap[r] <= writeSeq,
         NEW i \in Indices, i < Count(r),
         seq[SlotAt(r, i)] > StableSeq(Position(r, i))
  PROVE  Overrun(r)
<1> DEFINE p == Position(r, i)
           s == SlotAt(r, i)
<1>1. p \in Nat /\ s \in Slots /\ s = SlotOf(p) /\ seq[s] \in Nat /\ issued \in Nat
  <2>1. p \in Nat /\ s \in Slots
    BY PositionRange DEF Indices
  <2>2. s = SlotOf(p)
    BY DEF SlotAt
  <2>3. seq[s] \in Nat /\ issued \in Nat
    BY <2>1 DEF TypeOK
  <2> QED
    BY <2>1, <2>2, <2>3
<1>2. PICK q \in 0 .. issued - 1 :
        SlotOf(q) = s /\ (seq[s] = OddSeq(q) \/ seq[s] = StableSeq(q))
  BY <1>1 DEF MemoryInv, WitnessFromStores, StableSeq
<1>3. q \in Nat /\ q < issued /\ p < q
  BY <1>1, <1>2 DEF StableSeq, OddSeq
<1>4. q >= p + RingCapacity
  BY <1>1, <1>2, <1>3, LapApart
<1>5. p >= snap[r] - Count(r) /\ snap[r] \in Nat /\ Count(r) \in Nat
  BY TileRange DEF Position, Start, Indices, TypeOK
<1> QED
  BY <1>1, <1>3, <1>4, <1>5 DEF Overrun

\* A query that waits at an odd witness waits at the slot of a later lap.
LEMMA OddIsLapped ==
  ASSUME RingInv, NEW r \in Readers, pc[r] = "slot", seq[SlotAt(r, cursor[r])] % 2 = 1
  PROVE  Lapped(r) /\ Overrun(r)
<1> DEFINE i == cursor[r]
<1>1. i \in Indices /\ i < Count(r) /\ snap[r] <= writeSeq
  BY DEF RingInv, ReaderInv, Progress, AtSlot, TileAt
<1>2. TypeOK /\ MemoryInv
  BY DEF RingInv
<1>3. /\ seq[SlotAt(r, i)] \in Nat
      /\ StableSeq(Position(r, i)) \in Nat
      /\ seq[SlotAt(r, i)] >= StableSeq(Position(r, i))
      /\ StableSeq(Position(r, i)) % 2 = 0
  <2>1. Position(r, i) \in Nat /\ SlotAt(r, i) \in Slots
    BY <1>1, <1>2, PositionRange DEF Indices
  <2> HIDE DEF i
  <2>2. seq[SlotAt(r, i)] >= StableSeq(Position(r, i))
    BY <1>1, <1>2, RequestedSlot
  <2>3. seq[SlotAt(r, i)] \in Nat
    BY <1>2, <2>1 DEF TypeOK
  <2> QED
    BY <2>1, <2>2, <2>3 DEF StableSeq
<1>4. seq[SlotAt(r, i)] > StableSeq(Position(r, i))
  BY <1>3
<1> QED
  BY <1>1, <1>2, <1>4, LappedSlot DEF Lapped

\* A reader that takes no step keeps what it has seen while memory grows.
LEMMA SeenStutter ==
  ASSUME TypeOK, MemoryInv, [Next]_vars, NEW r \in Readers, SeenInOrder(r),
         pc'[r] = pc[r], depth'[r] = depth[r], snap'[r] = snap[r],
         base'[r] = base[r], ver'[r] = ver[r], recheck'[r] = recheck[r]
  PROVE  SeenInOrder(r)'
<1>1. Count(r)' = Count(r) /\ TileAt(r)' = TileAt(r)
  BY SameRequest DEF TileAt
<1>2. \A i \in TileAt(r) : ver[r][i] \in Nat \cup {NotRead} /\ recheck[r][i] \in Nat \cup {NotRead}
  BY DEF TileAt, TypeOK
<1>3. ASSUME NEW i \in TileAt(r)
      PROVE  /\ SlotAt(r, i) \in Slots
             /\ seq[SlotAt(r, i)] \in Nat /\ seq'[SlotAt(r, i)] \in Nat
             /\ seq[SlotAt(r, i)] <= seq'[SlotAt(r, i)]
  <2>1. SlotAt(r, i) \in Slots /\ seq'[SlotAt(r, i)] >= seq[SlotAt(r, i)]
    BY PositionRange, MemoryGrows DEF TileAt, Indices
  <2>2. seq \in [Slots -> Nat] /\ seq' \in [Slots -> Nat]
    BY TypeInductive DEF TypeOK
  <2> QED
    BY <2>1, <2>2
<1> QED
  BY <1>1, <1>2, <1>3, SameRequest DEF SeenInOrder, NotRead

\* A lap stays a lap as memory grows.
LEMMA LapStays ==
  ASSUME TypeOK, MemoryInv, [Next]_vars, NEW r \in Readers, Lapped(r),
         depth'[r] = depth[r], snap'[r] = snap[r], cursor'[r] = cursor[r]
  PROVE  Lapped(r)'
<1>1. cursor[r] \in Nat /\ SlotAt(r, cursor[r]) \in Slots
      /\ Position(r, cursor[r]) \in Nat
  BY PositionRange DEF TypeOK
<1>2. seq'[SlotAt(r, cursor[r])] >= seq[SlotAt(r, cursor[r])]
  BY <1>1, MemoryGrows
<1>3. seq \in [Slots -> Nat] /\ seq' \in [Slots -> Nat]
  BY TypeInductive DEF TypeOK
<1> QED
  BY <1>1, <1>2, <1>3, SameRequest DEF Lapped, StableSeq

\* Headroom used up is not given back.
LEMMA OverrunStays ==
  ASSUME TypeOK, [Next]_vars, NEW r \in Readers, Overrun(r),
         depth'[r] = depth[r], snap'[r] = snap[r]
  PROVE  Overrun(r)'
<1>1. issued \in Nat /\ issued' \in Nat
  BY TypeInductive DEF TypeOK
<1>2. issued' = issued \/ issued' = issued + 1
  BY DEF Next, vars, writerVars, Tick, Perform, PerformOdd, PerformWord, PerformEven,
     PerformHead, Call, Return, Query, LoadHead, LoadWitness, CopyWord, LoadRecheck,
     AcceptTile, FallBack, TileOverwritten, SlotWitness, SlotOverwritten, SlotRetry,
     SlotAccept
<1> QED
  BY <1>1, <1>2, SameRequest, TileRange DEF Overrun, TypeOK

\* A reader that takes no step keeps what it knows of its refusal.
LEMMA RefusalStutter ==
  ASSUME TypeOK, MemoryInv, [Next]_vars, NEW r \in Readers, ReaderInv(r), RefusalInv(r),
         pc'[r] = pc[r], depth'[r] = depth[r], snap'[r] = snap[r], base'[r] = base[r],
         cursor'[r] = cursor[r], ver'[r] = ver[r], recheck'[r] = recheck[r]
  PROVE  RefusalInv(r)'
BY SeenStutter, LapStays, OverrunStays, SameRequest DEF RefusalInv

\* Where the witnesses of a query come from: pass A takes each after the record was
\* published, and pass C later.
LEMMA SeenKeeps ==
  ASSUME TypeOK, MemoryInv, NEW r \in Readers, ReaderInv(r), SeenInOrder(r),
         Call(r) \/ Query(r) \/ Return(r)
  PROVE  SeenInOrder(r)'
<1> DEFINE Same == /\ seq' = seq /\ depth'[r] = depth[r] /\ snap'[r] = snap[r]
                   /\ base'[r] = base[r]
<1>0. \A i \in TileAt(r) :
        /\ i \in Indices /\ i < Count(r) /\ SlotAt(r, i) \in Slots
        /\ seq[SlotAt(r, i)] \in Nat /\ StableSeq(Position(r, i)) <= seq[SlotAt(r, i)]
        /\ ver[r][i] \in Nat \cup {NotRead} /\ recheck[r][i] \in Nat \cup {NotRead}
  BY RequestedSlot, TileRange DEF ReaderInv, TypeOK
<1>1. ASSUME Same
      PROVE  /\ Count(r)' = Count(r) /\ TileAt(r)' = TileAt(r)
             /\ \A i : Position(r, i)' = Position(r, i) /\ SlotAt(r, i)' = SlotAt(r, i)
  BY <1>1, SameRequest DEF TileAt
<1>2. CASE Call(r)
  BY <1>2 DEF Call, SeenInOrder, TypeOK
<1>3. CASE LoadHead(r)
  <2>1. pc[r] = "head" /\ ver' = ver /\ recheck' = recheck
        /\ pc'[r] \in {"ok", "slot", "passA"}
    BY <1>3 DEF LoadHead, TypeOK
  <2>2. ver'[r] = NoWitness /\ recheck'[r] = NoWitness
    BY <2>1 DEF SeenInOrder, ReaderInv, Progress, NotBegun
  <2> QED
    BY <2>1, <2>2 DEF SeenInOrder, NoWitness, TileAt
<1>4. CASE LoadWitness(r)
  <2>1. PICK i \in TileAt(r) :
          /\ ver[r][i] = NotRead /\ ver' = [ver EXCEPT ![r][i] = seq[SlotAt(r, i)]]
    BY <1>4 DEF LoadWitness
  <2>2. /\ pc[r] = "passA" /\ recheck' = recheck /\ pc'[r] \in {"passA", "passB"}
        /\ pc'[r] = "passB" => \A j \in TileAt(r) : ver'[r][j] # NotRead
    BY <1>4 DEF LoadWitness, TypeOK
  <2>3. Same
    BY <1>4 DEF LoadWitness, memoryVars
  <2>4. recheck[r] = NoWitness
    BY <2>2 DEF ReaderInv, Progress
  <2>5. \A j \in TileAt(r) : ver'[r][j] = IF j = i THEN seq[SlotAt(r, i)] ELSE ver[r][j]
    BY <1>0, <2>1 DEF TypeOK
  <2>6. \A j \in TileAt(r) : recheck'[r][j] = NotRead
    BY <1>0, <2>2, <2>4 DEF NoWitness
  <2> QED
    BY <1>0, <1>1, <2>2, <2>3, <2>5, <2>6 DEF SeenInOrder
<1>5. CASE CopyWord(r)
  <2>1. /\ Same /\ ver' = ver /\ recheck' = recheck
        /\ pc[r] \in {"passB", "copy"}
        /\ pc'[r] \in {"passB", "passC", "copy", "recheck"}
        /\ pc'[r] \in {"passB", "passC"} => pc[r] = "passB"
    BY <1>5 DEF CopyWord, memoryVars, TypeOK
  <2> QED
    BY <1>1, <2>1 DEF SeenInOrder
<1>6. CASE LoadRecheck(r)
  <2>1. PICK i \in TileAt(r) :
          recheck[r][i] = NotRead /\ recheck' = [recheck EXCEPT ![r][i] = seq[SlotAt(r, i)]]
    BY <1>6 DEF LoadRecheck
  <2>2. Same /\ pc[r] = "passC" /\ pc' = pc /\ ver' = ver
    BY <1>6 DEF LoadRecheck, memoryVars
  <2>3. \A j \in TileAt(r) : recheck'[r][j] = IF j = i THEN seq[SlotAt(r, i)] ELSE recheck[r][j]
    BY <1>0, <2>1 DEF TypeOK
  <2> QED
    BY <1>0, <1>1, <2>2, <2>3 DEF SeenInOrder
<1>7. CASE AcceptTile(r) \/ SlotAccept(r)
  <2>1. CASE EndTile(r)
    <3>1. ver'[r] = NoWitness /\ recheck'[r] = NoWitness /\ pc'[r] \in {"passA", "ok"}
      BY <2>1 DEF EndTile, TypeOK
    <3> QED
      BY <3>1 DEF SeenInOrder, NoWitness, TileAt
  <2>2. CASE pc'[r] = "slot"
    BY <2>2 DEF SeenInOrder
  <2> QED
    BY <1>7, <2>1, <2>2 DEF AcceptTile, SlotAccept, TypeOK
<1>8. CASE FallBack(r) \/ SlotWitness(r) \/ SlotRetry(r) \/ TileOverwritten(r) \/ SlotOverwritten(r)
  <2>1. pc'[r] \in {"slot", "copy", "overwritten"}
    BY <1>8 DEF FallBack, SlotWitness, SlotRetry, TileOverwritten, SlotOverwritten, TypeOK
  <2> QED
    BY <2>1 DEF SeenInOrder
<1>9. CASE Return(r)
  BY <1>9 DEF Return, SeenInOrder, TypeOK
<1> QED
  BY <1>2, <1>3, <1>4, <1>5, <1>6, <1>7, <1>8, <1>9 DEF Query

\* A query that waits for a slot it has lost, or that refuses, has been lapped.
LEMMA RefusalKeeps ==
  ASSUME TypeOK, MemoryInv, NEW r \in Readers, ReaderInv(r), RefusalInv(r),
         Call(r) \/ Query(r) \/ Return(r)
  PROVE  RefusalInv(r)'
<1> DEFINE Same == /\ seq' = seq /\ issued' = issued /\ depth'[r] = depth[r]
                   /\ snap'[r] = snap[r]
<1>1. SeenInOrder(r) /\ SeenInOrder(r)'
  BY SeenKeeps DEF RefusalInv
<1>2. ASSUME Same
      PROVE  /\ Count(r)' = Count(r) /\ Overrun(r)' = Overrun(r)
             /\ \A i : Position(r, i)' = Position(r, i) /\ SlotAt(r, i)' = SlotAt(r, i)
  BY <1>2, SameRequest DEF Overrun
<1>3. ASSUME NEW i \in Indices, i < Count(r), seq[SlotAt(r, i)] > StableSeq(Position(r, i))
      PROVE  Overrun(r)
  BY <1>3, LappedSlot DEF ReaderInv
<1>4. CASE FallBack(r)
  <2>1. PICK i \in TileAt(r) : Unstable(r, i) /\ cursor' = [cursor EXCEPT ![r] = i]
    BY <1>4 DEF FallBack
  <2>2. Same /\ pc[r] = "passC" /\ pc'[r] = "slot" /\ recheck[r][i] # NotRead
    BY <1>4 DEF FallBack, Judging, memoryVars, writerVars, TypeOK
  <2>3. /\ ver[r][i] # NotRead /\ StableSeq(Position(r, i)) <= ver[r][i]
        /\ ver[r][i] <= recheck[r][i] /\ recheck[r][i] <= seq[SlotAt(r, i)]
    BY <1>1, <2>2 DEF SeenInOrder
  <2>4. /\ i \in Indices /\ i < Count(r) /\ Position(r, i) \in Nat
        /\ seq[SlotAt(r, i)] \in Nat /\ ver[r][i] \in Nat /\ recheck[r][i] \in Nat
    <3>1. i \in Indices /\ i \in Nat /\ i < Count(r)
      BY TileRange DEF Indices
    <3>2. Position(r, i) \in Nat /\ SlotAt(r, i) \in Slots
      BY <3>1, PositionRange
    <3> QED
      BY <2>2, <2>3, <3>1, <3>2 DEF TypeOK
  <2>5. seq[SlotAt(r, i)] > StableSeq(Position(r, i))
    BY <2>1, <2>3, <2>4 DEF Unstable, StableSeq
  <2>6. Lapped(r)'
    BY <1>2, <2>1, <2>2, <2>5 DEF Lapped, TypeOK
  <2> QED
    BY <1>1, <2>2, <2>6 DEF RefusalInv
<1>5. CASE TileOverwritten(r)
  <2>1. PICK i \in TileAt(r) : Newer(r, i)
    BY <1>5 DEF TileOverwritten
  <2>2. Same /\ pc[r] = "passC" /\ pc'[r] = "overwritten" /\ recheck[r][i] # NotRead
    BY <1>5 DEF TileOverwritten, Judging, memoryVars, writerVars, TypeOK
  <2>3. /\ ver[r][i] # NotRead /\ StableSeq(Position(r, i)) <= ver[r][i]
        /\ ver[r][i] <= recheck[r][i] /\ recheck[r][i] <= seq[SlotAt(r, i)]
    BY <1>1, <2>2 DEF SeenInOrder
  <2>4. /\ i \in Indices /\ i < Count(r) /\ Position(r, i) \in Nat
        /\ seq[SlotAt(r, i)] \in Nat /\ ver[r][i] \in Nat /\ recheck[r][i] \in Nat
    <3>1. i \in Indices /\ i \in Nat /\ i < Count(r)
      BY TileRange DEF Indices
    <3>2. Position(r, i) \in Nat /\ SlotAt(r, i) \in Slots
      BY <3>1, PositionRange
    <3> QED
      BY <2>2, <2>3, <3>1, <3>2 DEF TypeOK
  <2>5. seq[SlotAt(r, i)] > StableSeq(Position(r, i))
    BY <2>1, <2>3, <2>4 DEF Newer, StableSeq
  <2> QED
    BY <1>1, <1>2, <1>3, <2>2, <2>4, <2>5 DEF RefusalInv
<1>6. CASE SlotWitness(r) \/ SlotOverwritten(r)
  <2> DEFINE k == cursor[r]
  <2>1. Same /\ pc[r] = "slot" /\ cursor' = cursor
    BY <1>6 DEF SlotWitness, SlotOverwritten, memoryVars, writerVars
  <2>2. /\ k \in Indices /\ k < Count(r) /\ Position(r, k) \in Nat
        /\ seq[SlotAt(r, k)] \in Nat /\ seq[SlotAt(r, k)] >= StableSeq(Position(r, k))
    BY <2>1, RequestedSlot, PositionRange, TileRange DEF ReaderInv, Progress, AtSlot, TypeOK, Indices
  <2>3. SlotWitness(r) => pc'[r] = "copy" /\ ~ Lapped(r)
    BY <2>2 DEF SlotWitness, Lapped, TypeOK, StableSeq
  <2>4. SlotOverwritten(r) => pc'[r] = "overwritten" /\ Overrun(r)
    <3>1. SlotOverwritten(r) =>
            pc'[r] = "overwritten" /\ seq[SlotAt(r, k)] # StableSeq(Position(r, k))
      BY DEF SlotOverwritten, TypeOK
    <3> QED
      BY <1>3, <2>2, <3>1 DEF StableSeq
  <2> QED
    BY <1>1, <1>2, <1>6, <2>1, <2>3, <2>4 DEF RefusalInv
<1>7. CASE SlotRetry(r)
  <2>1. Same /\ pc[r] = "recheck" /\ pc'[r] = "slot" /\ cursor' = cursor
    BY <1>7 DEF SlotRetry, memoryVars, writerVars, TypeOK
  <2>2. Lapped(r)' = Lapped(r)
    BY <1>2, <2>1 DEF Lapped
  <2> QED
    BY <1>1, <1>2, <2>1, <2>2 DEF RefusalInv
<1>8. CASE CopyWord(r)
  <2>1. /\ Same /\ cursor' = cursor
        /\ pc'[r] \in {"passB", "passC", "copy", "recheck"}
        /\ pc'[r] \in {"copy", "recheck"} => pc[r] = "copy"
    BY <1>8 DEF CopyWord, memoryVars, writerVars, TypeOK
  <2>2. Lapped(r)' = Lapped(r)
    BY <1>2, <2>1 DEF Lapped
  <2> QED
    BY <1>1, <1>2, <2>1, <2>2 DEF RefusalInv
<1>9. CASE SlotAccept(r)
  <2> DEFINE k == cursor[r]
  <2>1. Same /\ pc[r] = "recheck" /\ pc'[r] \in {"slot", "passA", "ok"}
    BY <1>9 DEF SlotAccept, EndTile, memoryVars, writerVars, TypeOK
  <2>2. seq[SlotAt(r, k)] = StableSeq(Position(r, k)) /\ k \in TileAt(r)
    BY <1>9, <2>1 DEF SlotAccept, ReaderInv, Progress, AtSlot
  <2>3. ~ Lapped(r)
    BY <2>2, PositionRange DEF Lapped, StableSeq, TypeOK
  <2>4. Count(r) \in Nat /\ ~ Count(r) > 1 /\ k \in Nat
    BY <2>1, <2>3, TileRange DEF RefusalInv, TypeOK
  <2>5. k + 1 \notin TileAt(r)
    BY <2>4, TileRange
  <2>6. pc'[r] # "slot"
    BY <1>9, <2>5 DEF SlotAccept, EndTile, TypeOK
  <2> QED
    BY <1>1, <2>1, <2>6 DEF RefusalInv
<1>10. CASE LoadHead(r)
  <2>1. /\ depth'[r] = depth[r] /\ snap'[r] = writeSeq
        /\ pc'[r] \in {"ok", "slot", "passA"}
        /\ pc'[r] = "slot" => CountOf(depth[r], writeSeq) = 1
    BY <1>10 DEF LoadHead, TypeOK
  <2>2. Count(r)' = CountOf(depth[r], writeSeq)
    BY <2>1 DEF Count
  <2> QED
    BY <1>1, <2>1, <2>2 DEF RefusalInv
<1>11. CASE Call(r) \/ LoadWitness(r) \/ LoadRecheck(r) \/ AcceptTile(r) \/ Return(r)
  <2>1. pc'[r] \in {"head", "passA", "passB", "passC", "ok", "idle"}
    BY <1>11 DEF Call, LoadWitness, LoadRecheck, AcceptTile, EndTile, Return, TypeOK
  <2> QED
    BY <1>1, <2>1 DEF RefusalInv
<1> QED
  BY <1>4, <1>5, <1>6, <1>7, <1>8, <1>9, <1>10, <1>11 DEF Query

\* Together with the invariant of the ring, that of the refusals is inductive.
LEMMA RefusalInductive ==
  ASSUME RingInv, \A r \in Readers : RefusalInv(r), [Next]_vars
  PROVE  \A r \in Readers : RefusalInv(r)'
<1> SUFFICES ASSUME NEW r \in Readers
             PROVE  RefusalInv(r)'
  OBVIOUS
<1>0. TypeOK /\ MemoryInv /\ ReaderInv(r) /\ RefusalInv(r)
  BY DEF RingInv
<1>1. CASE Tick \/ Perform
  <2>1. UNCHANGED readerVars
    BY <1>1 DEF Tick, Perform, PerformOdd, PerformWord, PerformEven, PerformHead
  <2> QED
    BY <1>0, <2>1, RefusalStutter DEF readerVars
<1>2. ASSUME NEW q \in Readers, Call(q) \/ Query(q) \/ Return(q)
      PROVE  RefusalInv(r)'
  <2>1. CASE q = r
    BY <1>0, <1>2, <2>1, RefusalKeeps
  <2>2. CASE q # r
    BY <1>0, <1>2, <2>2, OtherReaders, RefusalStutter
  <2> QED
    BY <2>1, <2>2
<1>3. CASE UNCHANGED vars
  BY <1>0, <1>3, RefusalStutter DEF vars, readerVars
<1> QED
  BY <1>1, <1>2, <1>3 DEF Next

\* The refusal invariant holds in every reachable state.
LEMMA RefusalInvariant == Spec => [](RingInv /\ \A r \in Readers : RefusalInv(r))
<1>1. Init => \A r \in Readers : RefusalInv(r)
  BY DEF Init, RefusalInv, SeenInOrder
<1>2. /\ RingInv /\ \A r \in Readers : RefusalInv(r)
      /\ [Next]_vars
      => (RingInv /\ \A r \in Readers : RefusalInv(r))'
  BY RingInductive, RefusalInductive
<1> QED
  BY <1>1, <1>2, RingInitial, PTL DEF Spec

\* kErrOverwritten is never answered without need: the writer has used up the slots
\* the query left it as headroom.
THEOREM RefusalsAreGenuine == Spec => []OverwrittenIsGenuine
<1>1. (\A r \in Readers : RefusalInv(r)) => OverwrittenIsGenuine
  BY DEF RefusalInv, OverwrittenIsGenuine
<1> QED
  BY <1>1, RefusalInvariant, PTL

\* A tile that falls back has lost the record it falls back for: read_slot_seqlock
\* never delivers it.
THEOREM FallbacksAreLost == Spec => []RetryMeansLost
<1>1. (\A r \in Readers : RefusalInv(r)) => RetryMeansLost
  BY DEF RefusalInv, RetryMeansLost
<1> QED
  BY <1>1, RefusalInvariant, PTL

-----------------------------------------------------------------------------
(* The ring implements LatestN: its steps are steps of LatestN or stutter. *)

\* A ring head is performed after the one before it.
LEMMA NextHead ==
  ASSUME RingInv, HeadsCounted, NEW a \in pending, a.kind = "head", Performable(a)
  PROVE  a.pos = writeSeq /\ writeSeq < issued
<1>0. TypeOK /\ MemoryInv
  BY DEF RingInv
<1>1. a.pos \in Nat /\ a.pos < issued /\ a = Store(a.pos, "head") /\ issued \in Nat
  BY <1>0, StoreRange
<1>2. writeSeq <= a.pos /\ writeSeq \in Nat
  BY <1>0, PendingHead DEF TypeOK
<1>3. CASE writeSeq < a.pos
  <2>1. OrderedBefore(Store(writeSeq, "head"), a)
    BY <1>1, <1>2, <1>3, HeadOrder
  <2>2. Store(writeSeq, "head") \notin pending
    BY <2>1 DEF Performable
  <2>3. writeSeq \in 0 .. issued - 1 /\ Performed(Store(writeSeq, "head"))
    BY <1>1, <1>2, <1>3, <2>2, StoreFields
  <2> QED
    BY <1>2, <2>3 DEF HeadsCounted
<1> QED
  BY <1>1, <1>2, <1>3

\* write_seq counts the heads performed.
LEMMA HeadsInductive ==
  ASSUME RingInv, HeadsCounted, [Next]_vars
  PROVE  HeadsCounted'
<1>0. TypeOK /\ MemoryInv /\ issued \in Nat /\ writeSeq \in Nat
  BY DEF RingInv, TypeOK
<1>1. CASE Tick
  <2>1. /\ issued' = issued + 1 /\ writeSeq' = writeSeq
        /\ pending' = pending \cup StoresOf(issued)
    BY <1>1 DEF Tick, memoryVars
  <2>2. Store(issued, "head") \in pending'
    BY <2>1 DEF StoresOf, Kinds
  <2>3. \A p \in 0 .. issued : ~ Performed(Store(p, "head"))' \/ Performed(Store(p, "head"))
    BY <1>0, <2>1, <2>2 DEF Performed, Store
  <2> QED
    BY <1>0, <2>1, <2>2, <2>3 DEF HeadsCounted, Performed, Store
<1>2. CASE Perform
  <2>1. PICK a \in pending :
          /\ Performable(a) /\ pending' = pending \ {a} /\ issued' = issued
          /\ IF a.kind = "head" THEN writeSeq' = a.pos + 1 ELSE writeSeq' = writeSeq
    BY <1>2, WordKinds DEF Perform, PerformOdd, PerformWord, PerformEven, PerformHead
  <2>2. \A p : Performed(Store(p, "head"))' =>
          Performed(Store(p, "head")) \/ Store(p, "head") = a
    BY <1>0, <2>1, PerformKeepsOrder DEF MemoryInv
  <2>3. CASE a.kind = "head"
    <3>1. a.pos = writeSeq /\ writeSeq' = writeSeq + 1
      BY <2>1, <2>3, NextHead
    <3> QED
      BY <1>0, <2>1, <2>2, <3>1, StoreFields DEF HeadsCounted
  <2>4. CASE a.kind # "head"
    BY <2>1, <2>2, <2>4, StoreFields DEF HeadsCounted
  <2> QED
    BY <2>3, <2>4
<1>3. CASE UNCHANGED <<issued, pending, writeSeq>>
  BY <1>3 DEF HeadsCounted, Performed
<1>4. ASSUME NEW r \in Readers, Call(r) \/ Query(r) \/ Return(r)
      PROVE  UNCHANGED <<issued, pending, writeSeq>>
  BY <1>4 DEF Call, Query, Return, LoadHead, LoadWitness, CopyWord, LoadRecheck,
     AcceptTile, FallBack, TileOverwritten, SlotWitness, SlotOverwritten, SlotRetry,
     SlotAccept, memoryVars, writerVars
<1>5. CASE UNCHANGED vars
  BY <1>3, <1>5 DEF vars, memoryVars, writerVars
<1> QED
  BY <1>1, <1>2, <1>3, <1>4, <1>5 DEF Next

\* The answer of a query that was accepted: the records it asked for.
AnswerOf(r) ==
  IF pc[r] = "ok" /\ Count(r) > 0 THEN [i \in 0 .. Count(r) - 1 |-> Position(r, i)] ELSE <<>>

AnswersAreRight == \A r \in Readers : Copied(r) = AnswerOf(r)

LEMMA CopiedAnswer == RingInv => AnswersAreRight
<1> SUFFICES ASSUME RingInv, NEW r \in Readers, pc[r] = "ok", Count(r) > 0
             PROVE  Copied(r) = AnswerOf(r)
  BY DEF AnswersAreRight, Copied, AnswerOf
<1>0. TypeOK /\ MemoryInv /\ ReaderInv(r)
  BY DEF RingInv
<1>1. /\ issued \in Nat /\ writeSeq \in Nat /\ snap[r] \in Nat /\ snap[r] <= writeSeq
      /\ writeSeq <= issued /\ Count(r) \in Nat
  BY <1>0, TileRange DEF TypeOK, ReaderInv, MemoryInv, HeadFromStores
<1>2. ASSUME NEW i \in 0 .. Count(r) - 1
      PROVE  /\ Position(r, i) \in 0 .. issued - 1
             /\ \A p : IsCopyOf(r, i, p) <=> p = Position(r, i)
  <2>1. i \in Indices /\ i < Count(r)
    BY <1>0, <1>1, TileRange
  <2>2. Position(r, i) \in 0 .. issued - 1
    <3>1. Position(r, i) \in 0 .. writeSeq - 1
      BY <1>0, <1>1, <2>1, RequestedSlot
    <3> QED
      BY <1>1, <3>1
  <2>3. \A w \in Words : out[r][i][w] = Position(r, i)
    BY <1>0, <2>1 DEF ReaderInv, Progress, WholeBelow, IsWhole
  <2>4. Words # {}
    OBVIOUS
  <2> QED
    BY <2>2, <2>3, <2>4 DEF IsCopyOf
<1>3. ASSUME NEW i \in 0 .. Count(r) - 1
      PROVE  /\ \E p \in 0 .. issued - 1 : IsCopyOf(r, i, p)
             /\ (CHOOSE p \in 0 .. issued - 1 : IsCopyOf(r, i, p)) = Position(r, i)
  <2>1. Position(r, i) \in 0 .. issued - 1 /\ \A p : IsCopyOf(r, i, p) <=> p = Position(r, i)
    BY <1>2
  <2> HIDE DEF Position
  <2>2. (CHOOSE p \in 0 .. issued - 1 : IsCopyOf(r, i, p)) \in {Position(r, i)}
    BY <2>1, Zenon
  <2> QED
    BY <2>1, <2>2
<1>4. Copied(r) = [i \in 0 .. Count(r) - 1 |-> Position(r, i)]
  BY <1>3 DEF Copied
<1> QED
  BY <1>4 DEF AnswerOf

\* And after a step.
LEMMA CopiedAnswerNext == RingInv' => AnswersAreRight'
<1>1. RingInv => AnswersAreRight
  BY CopiedAnswer
<1> QED
  BY <1>1, PTL

\* What LatestN sees of a step that moves one reader: the phase and the answer of
\* that reader, and of nobody else.
OnlyMoves(r) ==
  /\ UNCHANGED <<issued, writeSeq>>
  /\ \A q \in Readers \ {r} : pc'[q] = pc[q] /\ depth'[q] = depth[q] /\ snap'[q] = snap[q]

Phases == [r \in Readers |-> Phase(r)]
Answers == [r \in Readers |-> Copied(r)]

LEMMA OneReaderMoves ==
  ASSUME RingInv, RingInv', NEW r \in Readers, OnlyMoves(r)
  PROVE  /\ Phases' = [Phases EXCEPT ![r] = Phase(r)']
         /\ Answers' = [Answers EXCEPT ![r] = AnswerOf(r)']
         /\ Phases[r] = Phase(r)
         /\ Phase(r)' = Phase(r) => Phases' = Phases
         /\ AnswerOf(r)' = AnswerOf(r) => Answers' = Answers
<1>1. /\ \A q \in Readers : Copied(q) = AnswerOf(q)
      /\ \A q \in Readers : Copied(q)' = AnswerOf(q)'
  BY CopiedAnswer, CopiedAnswerNext DEF AnswersAreRight
<1>2. ASSUME NEW q \in Readers, q # r
      PROVE  Phase(q)' = Phase(q) /\ AnswerOf(q)' = AnswerOf(q)
  <2>1. pc'[q] = pc[q] /\ depth'[q] = depth[q] /\ snap'[q] = snap[q]
    BY <1>2 DEF OnlyMoves
  <2> QED
    BY <2>1 DEF Phase, AnswerOf, Count, Position, Start
<1> QED
  BY <1>1, <1>2 DEF Phases, Answers

\* A step that moves no reader between phases is none of LatestN's.
LEMMA StayMaps ==
  ASSUME RingInv, RingInv', NEW r \in Readers, OnlyMoves(r),
         depth' = depth, snap' = snap, Phase(r)' = Phase(r)
  PROVE  UNCHANGED Abstract!vars
<1>1. AnswerOf(r)' = AnswerOf(r)
  <2>1. pc'[r] = "ok" <=> pc[r] = "ok"
    BY DEF Phase
  <2> QED
    BY <2>1, SameRequest DEF AnswerOf
<1>2. Phases' = Phases /\ Answers' = Answers
  BY <1>1, OneReaderMoves
<1> QED
  BY <1>2 DEF Abstract!vars, OnlyMoves, Phases, Answers

\* A call is asked.
LEMMA AskMaps ==
  ASSUME RingInv, RingInv', NEW r \in Readers, OnlyMoves(r), snap' = snap,
         pc[r] = "idle", pc'[r] = "head",
         NEW n \in Depths, depth' = [depth EXCEPT ![r] = n]
  PROVE  Abstract!Ask(r)
<1>1. Phase(r) = "idle" /\ Phase(r)' = "asked" /\ AnswerOf(r) = <<>> /\ AnswerOf(r)' = <<>>
  BY DEF Phase, AnswerOf
<1>2. Phases[r] = "idle" /\ Phases' = [Phases EXCEPT ![r] = "asked"] /\ Answers' = Answers
  BY <1>1, OneReaderMoves
<1> QED
  BY <1>2 DEF Abstract!Ask, OnlyMoves, Phases, Answers

\* The load of write_seq is where a query takes effect.
LEMMA TakeMaps ==
  ASSUME RingInv, RingInv', NEW r \in Readers, OnlyMoves(r), depth' = depth,
         pc[r] = "head", snap' = [snap EXCEPT ![r] = writeSeq],
         IF writeSeq = 0 THEN pc'[r] = "ok" ELSE pc'[r] \in {"passA", "slot"}
  PROVE  Abstract!Take(r)
<1>1. depth[r] \in Nat \ {0} /\ writeSeq \in Nat /\ snap'[r] = writeSeq
  BY DEF RingInv, TypeOK
<1>2. writeSeq = 0 => Count(r)' = 0
  BY <1>1, CountRange DEF Count
<1>3. /\ Phase(r) = "asked" /\ AnswerOf(r) = <<>> /\ AnswerOf(r)' = <<>>
      /\ Phase(r)' = IF writeSeq = 0 THEN "ok" ELSE "taken"
  BY <1>2 DEF Phase, AnswerOf
<1>4. /\ Phases[r] = "asked" /\ Answers' = Answers
      /\ Phases' = [Phases EXCEPT ![r] = IF writeSeq = 0 THEN "ok" ELSE "taken"]
  BY <1>3, OneReaderMoves
<1> QED
  BY <1>4 DEF Abstract!Take, OnlyMoves, Phases, Answers

\* A positive answer is that of LatestN.
LEMMA AnswerMaps ==
  ASSUME RingInv, RingInv', NEW r \in Readers, OnlyMoves(r), depth' = depth, snap' = snap,
         Phase(r) = "taken", pc'[r] = "ok", Count(r) > 0
  PROVE  Abstract!Answer(r)
<1>1. Phase(r)' = "ok"
  BY DEF Phase
<1>2. AnswerOf(r)' = Abstract!Latest(depth[r], snap[r])
  <2>1. Count(r)' = Count(r) /\ \A i : Position(r, i)' = Position(r, i)
    BY SameRequest
  <2>2. AnswerOf(r)' = [i \in 0 .. Count(r) - 1 |-> Position(r, i)]
    BY <2>1 DEF AnswerOf
  <2>3. Abstract!CountOf(depth[r], snap[r]) = Count(r)
    BY DEF Abstract!CountOf, Count, CountOf
  <2> QED
    BY <2>2, <2>3 DEF Abstract!Latest, Position, Start
<1>3. /\ Phases[r] = "taken" /\ Phases' = [Phases EXCEPT ![r] = "ok"]
      /\ Answers' = [Answers EXCEPT ![r] = Abstract!Latest(depth[r], snap[r])]
  BY <1>1, <1>2, OneReaderMoves
<1> QED
  BY <1>3 DEF Abstract!Answer, OnlyMoves, Phases, Answers

\* A refusal is one LatestN allows.
LEMMA RefuseMaps ==
  ASSUME RingInv, RingInv', NEW r \in Readers, OnlyMoves(r), depth' = depth, snap' = snap,
         Phase(r) = "taken", pc'[r] = "overwritten", Overrun(r)
  PROVE  Abstract!Refuse(r)
<1>1. Phase(r)' = "overwritten" /\ AnswerOf(r) = <<>> /\ AnswerOf(r)' = <<>>
  BY DEF Phase, AnswerOf
<1>2. /\ Phases[r] = "taken" /\ Phases' = [Phases EXCEPT ![r] = "overwritten"]
      /\ Answers' = Answers
  BY <1>1, OneReaderMoves
<1>3. issued - snap[r] > RingCapacity - Abstract!CountOf(depth[r], snap[r])
  BY DEF Overrun, Count, CountOf, Abstract!CountOf
<1> QED
  BY <1>2, <1>3 DEF Abstract!Refuse, OnlyMoves, Phases, Answers

\* The caller takes its answer.
LEMMA ReturnMaps ==
  ASSUME RingInv, RingInv', NEW r \in Readers, OnlyMoves(r),
         pc[r] \in {"ok", "overwritten"}, pc'[r] = "idle",
         depth' = [depth EXCEPT ![r] = 1], snap' = [snap EXCEPT ![r] = 0]
  PROVE  Abstract!Return(r)
<1>1. Phase(r) \in {"ok", "overwritten"} /\ Phase(r)' = "idle" /\ AnswerOf(r)' = <<>>
  BY DEF Phase, AnswerOf
<1>2. /\ Phases[r] \in {"ok", "overwritten"} /\ Phases' = [Phases EXCEPT ![r] = "idle"]
      /\ Answers' = [Answers EXCEPT ![r] = <<>>]
  BY <1>1, OneReaderMoves
<1> QED
  BY <1>2 DEF Abstract!Return, Abstract!NoAnswer, OnlyMoves, Phases, Answers

\* A tick begins, its head publishes it, and no other store is visible.
LEMMA WriterMaps ==
  ASSUME RingInv, RingInv', HeadsCounted, Tick \/ Perform
  PROVE  [Abstract!Next]_(Abstract!vars)
<1>1. UNCHANGED <<pc, depth, snap>>
  BY DEF Tick, Perform, PerformOdd, PerformWord, PerformEven, PerformHead, readerVars
<1>2. Phases' = Phases /\ Answers' = Answers
  <2>1. \A r \in Readers : Phase(r)' = Phase(r) /\ AnswerOf(r)' = AnswerOf(r)
    BY <1>1, SameRequest DEF Phase, AnswerOf
  <2> QED
    BY <2>1, CopiedAnswer, CopiedAnswerNext DEF AnswersAreRight, Phases, Answers
<1>3. CASE Tick
  <2>1. Abstract!Begin
    BY <1>1, <1>2, <1>3 DEF Tick, memoryVars, Abstract!Begin, Phases, Answers
  <2> QED
    BY <2>1 DEF Abstract!Next
<1>4. CASE PerformHead
  <2>1. writeSeq < issued /\ writeSeq' = writeSeq + 1 /\ issued' = issued
    BY <1>4, NextHead DEF PerformHead
  <2>2. Abstract!Publish
    BY <1>1, <1>2, <2>1 DEF Abstract!Publish, Phases, Answers
  <2> QED
    BY <2>2 DEF Abstract!Next
<1>5. CASE PerformOdd \/ PerformWord \/ PerformEven
  <2>1. UNCHANGED <<issued, writeSeq>>
    BY <1>5 DEF PerformOdd, PerformWord, PerformEven
  <2> QED
    BY <1>1, <1>2, <2>1 DEF Abstract!vars, Phases, Answers
<1> QED
  BY <1>3, <1>4, <1>5 DEF Perform

\* A reader moves alone.
LEMMA ReaderMoves ==
  ASSUME TypeOK, NEW r \in Readers, Call(r) \/ Query(r) \/ Return(r)
  PROVE  OnlyMoves(r)
<1>1. UNCHANGED <<issued, writeSeq>>
  BY DEF Call, Query, Return, LoadHead, LoadWitness, CopyWord, LoadRecheck,
     AcceptTile, FallBack, TileOverwritten, SlotWitness, SlotOverwritten, SlotRetry,
     SlotAccept, memoryVars, writerVars
<1> QED
  BY <1>1, OtherReaders DEF OnlyMoves

\* Each step of a reader is its step of LatestN, or none.
LEMMA ReaderMaps ==
  ASSUME RingInv, RingInv', NEW r \in Readers, RefusalInv(r)',
         Call(r) \/ Query(r) \/ Return(r)
  PROVE  [Abstract!Next]_(Abstract!vars)
<1>0. TypeOK /\ ReaderInv(r) /\ OnlyMoves(r)
  BY ReaderMoves DEF RingInv
<1>1. CASE Call(r)
  <2>1. PICK n \in Depths : depth' = [depth EXCEPT ![r] = n]
    BY <1>1 DEF Call
  <2>2. pc[r] = "idle" /\ pc'[r] = "head" /\ snap' = snap
    BY <1>0, <1>1 DEF Call, TypeOK
  <2>3. Abstract!Ask(r)
    BY <1>0, <2>1, <2>2, AskMaps
  <2> QED
    BY <2>3 DEF Abstract!Next
<1>2. CASE LoadHead(r)
  <2> DEFINE count == CountOf(depth[r], writeSeq)
  <2>1. /\ count \in Nat /\ count <= writeSeq /\ writeSeq \in Nat
        /\ writeSeq # 0 => count # 0
    BY <1>0, CountRange DEF TypeOK
  <2>2. /\ pc[r] = "head" /\ snap' = [snap EXCEPT ![r] = writeSeq] /\ depth' = depth
        /\ count = 0 => pc'[r] = "ok"
        /\ count # 0 => pc'[r] \in {"slot", "passA"}
    BY <1>0, <1>2 DEF LoadHead, TypeOK
  <2> HIDE DEF count
  <2>3. IF writeSeq = 0 THEN pc'[r] = "ok" ELSE pc'[r] \in {"passA", "slot"}
    BY <2>1, <2>2
  <2>4. Abstract!Take(r)
    BY <1>0, <2>2, <2>3, TakeMaps
  <2> QED
    BY <2>4 DEF Abstract!Next, Abstract!Settle
<1>3. CASE /\ Query(r) /\ ~ LoadHead(r)
  <2>1. /\ depth' = depth /\ snap' = snap /\ Phase(r) = "taken" /\ Count(r) > 0
        /\ Phase(r)' \in {"taken", "ok", "overwritten"}
        /\ Phase(r)' = "ok" => pc'[r] = "ok"
        /\ Phase(r)' = "overwritten" => pc'[r] = "overwritten"
    <3>1. /\ depth' = depth /\ snap' = snap
          /\ pc[r] \in {"passA", "passB", "passC", "slot", "copy", "recheck"}
          /\ pc'[r] \in {"passA", "passB", "passC", "slot", "copy", "recheck", "ok",
                         "overwritten"}
      BY <1>0, <1>3 DEF Query, LoadWitness, CopyWord, LoadRecheck, AcceptTile, FallBack,
         TileOverwritten, SlotWitness, SlotOverwritten, SlotRetry, SlotAccept, EndTile,
         Judging, TypeOK
    <3>2. Count(r) > 0
      BY <1>0, <3>1, TileRange DEF ReaderInv, Progress, InTile, AtSlot, Indices
    <3> QED
      BY <3>1, <3>2 DEF Phase
  <2>2. CASE Phase(r)' = "taken"
    BY <1>0, <2>1, <2>2, StayMaps
  <2>3. CASE Phase(r)' = "ok"
    <3>1. Abstract!Answer(r)
      BY <1>0, <2>1, <2>3, AnswerMaps
    <3> QED
      BY <3>1 DEF Abstract!Next, Abstract!Settle
  <2>4. CASE Phase(r)' = "overwritten"
    <3>1. Overrun(r)' /\ issued' = issued
      BY <1>0, <2>1, <2>4 DEF RefusalInv, OnlyMoves
    <3>2. Overrun(r)
      BY <2>1, <3>1, SameRequest DEF Overrun
    <3>3. Abstract!Refuse(r)
      BY <1>0, <2>1, <2>4, <3>2, RefuseMaps
    <3> QED
      BY <3>3 DEF Abstract!Next, Abstract!Settle
  <2> QED
    BY <2>1, <2>2, <2>3, <2>4
<1>4. CASE Return(r)
  <2>1. /\ pc[r] \in {"ok", "overwritten"} /\ pc'[r] = "idle"
        /\ depth' = [depth EXCEPT ![r] = 1] /\ snap' = [snap EXCEPT ![r] = 0]
    BY <1>0, <1>4 DEF Return, TypeOK
  <2>2. Abstract!Return(r)
    BY <1>0, <2>1, ReturnMaps
  <2> QED
    BY <2>2 DEF Abstract!Next
<1> QED
  BY <1>1, <1>2, <1>3, <1>4

\* The ring begins where LatestN does.
LEMMA InitMaps ==
  ASSUME Init
  PROVE  Abstract!Init
<1>1. \A r \in Readers : Phase(r) = "idle" /\ Copied(r) = <<>>
  BY DEF Init, Phase, Copied
<1> QED
  BY <1>1 DEF Init, Abstract!Init, Abstract!NoAnswer

\* Nothing LatestN sees changes when nothing does.
LEMMA StutterMaps ==
  ASSUME UNCHANGED vars
  PROVE  UNCHANGED Abstract!vars
BY DEF vars, writerVars, memoryVars, readerVars, Abstract!vars, Phase, Copied, Count,
   Position, Start, IsCopyOf

\* To its callers a query is an atomic snapshot of the ring: every step of the ring
\* and its readers is a step of LatestN, or invisible.  (That queries end is not
\* part of it.)
THEOREM RingImplementsLatestN == Spec => Abstract!Spec
<1> DEFINE Inv == RingInv /\ HeadsCounted /\ \A r \in Readers : RefusalInv(r)
<1>1. Init => Inv
  BY RingInitial DEF Init, HeadsCounted, RefusalInv, SeenInOrder
<1>2. Inv /\ [Next]_vars => Inv'
  BY RingInductive, RefusalInductive, HeadsInductive
<1>3. Inv /\ Inv' /\ [Next]_vars => [Abstract!Next]_(Abstract!vars)
  BY WriterMaps, ReaderMaps, StutterMaps DEF Next
<1>4. Init => Abstract!Init
  BY InitMaps
<1> QED
  BY <1>1, <1>2, <1>3, <1>4, PTL DEF Spec, Abstract!Spec
=============================================================================
