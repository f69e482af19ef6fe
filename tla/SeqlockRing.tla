---------------------------- MODULE SeqlockRing ----------------------------
(***************************************************************************)
(* The per-symbol seqlock ring of shm_layout.h: one writer (DemoMd::on_md) *)
(* publishes records into the slots of a ring in shared memory and any     *)
(* number of strategy processes copy the latest n of them with             *)
(* query_latest_n.  Nobody takes a lock.                                   *)
(*                                                                         *)
(* A record is identified by the ring position it was published at, and    *)
(* its payload is a set of Words (the machine words of MDUniOrder) that    *)
(* are stored and loaded one by one: word[s][w] is the position whose      *)
(* payload word w of slot s belongs to, Zeroed before the first record.    *)
(*                                                                         *)
(* Memory is that of a multi-copy-atomic machine with weak ordering        *)
(* (arm64; x86 allows fewer behaviours).  A store that on_md executes      *)
(* enters "pending" and is performed, i.e. becomes visible to all readers, *)
(* later: two stores are performed in program order only when they touch   *)
(* the same location, when the second is a release store, or when a        *)
(* release fence lies between them (OrderedBefore).  The loads of one pass *)
(* of query_latest_n happen in any order; acquire loads and acquire fences *)
(* separate the passes.                                                    *)
(***************************************************************************)
EXTENDS Integers

CONSTANTS RingCapacity,  \* kRingCapacity, slots of a ring
          Tile,          \* kTile, slots a batch of the reader validates at once
          Words,         \* the payload words of a slot
          Readers,       \* reader threads (each in its own strategy process)
          Depths,        \* the values of n the readers ask for
          MaxTicks       \* bound: ticks the writer handles in a behaviour

ASSUME RingAssumption ==
  /\ RingCapacity \in Nat \ {0}
  /\ Tile \in Nat \ {0}
  /\ Depths \subseteq Nat \ {0}
  /\ MaxTicks \in Nat
  /\ Words # {} /\ Words \cap {"odd", "even", "head"} = {}

VARIABLES issued,    \* ticks whose stores on_md has executed
          pending,   \* stores executed but not yet visible
          seq,       \* Slot.seq of each slot
          word,      \* the payload of each slot, word by word
          writeSeq,  \* RingHead.write_seq
          pc,        \* where each reader is in query_latest_n
          depth,     \* its argument n
          snap,      \* the write_seq it loaded
          base,      \* first index of the tile it works on
          cursor,    \* index of the slot it reads on its own
          ver,       \* the witnesses it loaded first, by index
          out,       \* the payload words it copied, by index
          recheck    \* the witnesses it loaded again, by index

writerVars == <<issued, pending>>
memoryVars == <<seq, word, writeSeq>>
readerVars == <<pc, depth, snap, base, cursor, ver, out, recheck>>
vars == <<writerVars, memoryVars, readerVars>>

Slots == 0 .. RingCapacity - 1
Indices == 0 .. RingCapacity - 1
Kinds == {"odd", "even", "head"} \cup Words

Zeroed == -1    \* payload of a slot nobody has written
NotRead == -2   \* a local of the reader not loaded yet

SlotOf(p) == p % RingCapacity

\* The witness of a stable slot and of a slot being filled name the position.
StableSeq(p) == 2 * (p + 1)
OddSeqAsFlag(p) == 1                \* mutant: a busy flag without identity
OddSeq(p) == StableSeq(p) - 1

-----------------------------------------------------------------------------
(* The writer's stores and their order.                                    *)

Store(p, k) == [pos |-> p, kind |-> k]
StoresOf(p) == {Store(p, k) : k \in Kinds}
IssuedStores == [pos : 0 .. issued - 1, kind : Kinds]

\* The order on_md executes its stores in: ticks one after the other; in a
\* tick the odd witness, the payload words, the even witness, the ring head.
ProgramBefore(a, b) ==
  \/ a.pos < b.pos
  \/ /\ a.pos = b.pos
     /\ \/ a.kind = "odd" /\ b.kind # "odd"
        \/ a.kind \in Words /\ b.kind \in {"even", "head"}
        \/ a.kind = "even" /\ b.kind = "head"

SameLocation(a, b) ==
  \/ a.kind = "head" /\ b.kind = "head"
  \/ /\ SlotOf(a.pos) = SlotOf(b.pos)
     /\ \/ a.kind = b.kind
        \/ {a.kind, b.kind} = {"odd", "even"}

RelaxedHead(b) == b.kind = "even"   \* mutant: write_seq stored relaxed
IsRelease(b) == b.kind \in {"even", "head"}

\* How many release fences on_md has executed before the store: the fence of
\* a tick comes right after its odd witness.
NoFence(a) == 0                     \* mutant: on_md without its fence
Epoch(a) == IF a.kind = "odd" THEN a.pos ELSE a.pos + 1

OrderedBefore(a, b) ==
  /\ ProgramBefore(a, b)
  /\ SameLocation(a, b) \/ IsRelease(b) \/ Epoch(a) < Epoch(b)

Performable(a) == \A b \in pending : ~OrderedBefore(b, a)

\* on_md for this symbol executes its stores.  Nothing is lost by waiting for
\* the tick before the last to be visible in full: its fences keep every
\* store of this tick behind it anyway.
Tick ==
  /\ issued < MaxTicks
  /\ \A a \in pending : a.pos = issued - 1
  /\ issued' = issued + 1
  /\ pending' = pending \cup StoresOf(issued)
  /\ UNCHANGED <<memoryVars, readerVars>>

PerformOdd ==
  \E a \in pending :
    /\ a.kind = "odd" /\ Performable(a)
    /\ pending' = pending \ {a}
    /\ seq' = [seq EXCEPT ![SlotOf(a.pos)] = OddSeq(a.pos)]
    /\ UNCHANGED <<issued, word, writeSeq, readerVars>>

PerformWord ==
  \E a \in pending :
    /\ a.kind \in Words /\ Performable(a)
    /\ pending' = pending \ {a}
    /\ word' = [word EXCEPT ![SlotOf(a.pos)][a.kind] = a.pos]
    /\ UNCHANGED <<issued, seq, writeSeq, readerVars>>

PerformEven ==
  \E a \in pending :
    /\ a.kind = "even" /\ Performable(a)
    /\ pending' = pending \ {a}
    /\ seq' = [seq EXCEPT ![SlotOf(a.pos)] = StableSeq(a.pos)]
    /\ UNCHANGED <<issued, word, writeSeq, readerVars>>

PerformHead ==
  \E a \in pending :
    /\ a.kind = "head" /\ Performable(a)
    /\ pending' = pending \ {a}
    /\ writeSeq' = a.pos + 1
    /\ UNCHANGED <<issued, seq, word, readerVars>>

Perform == PerformOdd \/ PerformWord \/ PerformEven \/ PerformHead

-----------------------------------------------------------------------------
(* query_latest_n.                                                         *)

\* min(n, available), where at most RingCapacity records are available.
CountOf(n, ws) ==
  LET avail == IF ws < RingCapacity THEN ws ELSE RingCapacity
  IN  IF n < avail THEN n ELSE avail

Count(r) == CountOf(depth[r], snap[r])
Start(r) == snap[r] - Count(r)
PositionOffByOne(r, i) == Start(r) + i + 1   \* mutant
Position(r, i) == Start(r) + i
SlotAt(r, i) == SlotOf(Position(r, i))

ShortTile(r) ==                     \* mutant: the last slot of a tile left out
  {i \in Indices : base[r] <= i /\ i < base[r] + Tile - 1 /\ i < Count(r)}
TileAt(r) == {i \in Indices : base[r] <= i /\ i < base[r] + Tile /\ i < Count(r)}

NoWitness == [i \in Indices |-> NotRead]
NoCopy == [i \in Indices |-> [w \in Words |-> NotRead]]

Call(r) ==
  /\ pc[r] = "idle"
  /\ \E n \in Depths : depth' = [depth EXCEPT ![r] = n]
  /\ pc' = [pc EXCEPT ![r] = "head"]
  /\ UNCHANGED <<writerVars, memoryVars, snap, base, cursor, ver, out, recheck>>

\* The acquire load of write_seq fixes the records asked for; one record is
\* read on its own, several are read tile by tile.
LoadHead(r) ==
  /\ pc[r] = "head"
  /\ snap' = [snap EXCEPT ![r] = writeSeq]
  /\ LET count == CountOf(depth[r], writeSeq)
     IN  pc' = [pc EXCEPT ![r] = CASE count = 0 -> "ok"
                                   [] count = 1 -> "slot"
                                   [] OTHER -> "passA"]
  /\ UNCHANGED <<writerVars, memoryVars, depth, base, cursor, ver, out, recheck>>

\* Pass A: snapshot the witnesses of the tile, relaxed; fence F1 ends it.
LoadWitness(r) ==
  /\ pc[r] = "passA"
  /\ \E i \in TileAt(r) :
       /\ ver[r][i] = NotRead
       /\ ver' = [ver EXCEPT ![r][i] = seq[SlotAt(r, i)]]
  /\ pc' = [pc EXCEPT ![r] = IF \E i \in TileAt(r) : ver'[r][i] = NotRead
                             THEN "passA" ELSE "passB"]
  /\ UNCHANGED <<writerVars, memoryVars, depth, snap, base, cursor, out, recheck>>

\* Pass B, and the copy of read_slot_seqlock: plain loads of the payload in
\* any order; fence F2 (the fence before the recheck) ends it.
CopyWord(r) ==
  /\ pc[r] \in {"passB", "copy"}
  /\ LET copying == IF pc[r] = "passB" THEN TileAt(r) ELSE {cursor[r]}
     IN  /\ \E i \in copying, w \in Words :
              /\ out[r][i][w] = NotRead
              /\ out' = [out EXCEPT ![r][i][w] = word[SlotAt(r, i)][w]]
         /\ pc' = IF \E i \in copying, w \in Words : out'[r][i][w] = NotRead
                  THEN pc
                  ELSE [pc EXCEPT ![r] = IF pc[r] = "passB" THEN "passC" ELSE "recheck"]
  /\ UNCHANGED <<writerVars, memoryVars, depth, snap, base, cursor, ver, recheck>>

\* Pass C: load the witnesses of the tile again, relaxed ...
LoadRecheck(r) ==
  /\ pc[r] = "passC"
  /\ \E i \in TileAt(r) :
       /\ recheck[r][i] = NotRead
       /\ recheck' = [recheck EXCEPT ![r][i] = seq[SlotAt(r, i)]]
  /\ UNCHANGED <<writerVars, memoryVars, pc, depth, snap, base, cursor, ver, out>>

\* ... and judge the slots of the tile in order.
Unstable(r, i) == ver[r][i] # recheck[r][i] \/ ver[r][i] % 2 = 1
NoIdentity(r, i) == FALSE           \* mutant: only stability is checked
Newer(r, i) == ~Unstable(r, i) /\ ver[r][i] # StableSeq(Position(r, i))
Accepted(r, i) == ~Unstable(r, i) /\ ~Newer(r, i)

Judging(r) == pc[r] = "passC" /\ \A i \in TileAt(r) : recheck[r][i] # NotRead
FirstBad(r, i) == \A j \in TileAt(r) : j < i => Accepted(r, j)

\* The tile is done: go on with the next one, if there is one.
EndTile(r) ==
  /\ base' = [base EXCEPT ![r] = base[r] + Tile]
  /\ pc' = [pc EXCEPT ![r] = IF base[r] + Tile < Count(r) THEN "passA" ELSE "ok"]
  /\ ver' = [ver EXCEPT ![r] = NoWitness]
  /\ recheck' = [recheck EXCEPT ![r] = NoWitness]

AcceptTile(r) ==
  /\ Judging(r)
  /\ \A i \in TileAt(r) : Accepted(r, i)
  /\ EndTile(r)
  /\ UNCHANGED <<writerVars, memoryVars, depth, snap, cursor, out>>

\* A slot the writer touched: read it and the rest of the tile one by one.
FallBack(r) ==
  /\ Judging(r)
  /\ \E i \in TileAt(r) :
       /\ Unstable(r, i) /\ FirstBad(r, i)
       /\ cursor' = [cursor EXCEPT ![r] = i]
  /\ pc' = [pc EXCEPT ![r] = "slot"]
  /\ UNCHANGED <<writerVars, memoryVars, depth, snap, base, ver, out, recheck>>

\* A slot that is stable with another record: the ring wrapped.
TileOverwritten(r) ==
  /\ Judging(r)
  /\ \E i \in TileAt(r) : Newer(r, i) /\ FirstBad(r, i)
  /\ pc' = [pc EXCEPT ![r] = "overwritten"]
  /\ UNCHANGED <<writerVars, memoryVars, depth, snap, base, cursor, ver, out, recheck>>

\* read_slot_seqlock.  While the witness is odd the reader spins, which
\* changes nothing.
SlotWitness(r) ==
  /\ pc[r] = "slot"
  /\ seq[SlotAt(r, cursor[r])] = StableSeq(Position(r, cursor[r]))
  /\ ver' = [ver EXCEPT ![r][cursor[r]] = seq[SlotAt(r, cursor[r])]]
  /\ out' = [out EXCEPT ![r][cursor[r]] = [w \in Words |-> NotRead]]
  /\ pc' = [pc EXCEPT ![r] = "copy"]
  /\ UNCHANGED <<writerVars, memoryVars, depth, snap, base, cursor, recheck>>

SpinOnMismatch(r) == FALSE          \* mutant: any other witness is waited for
SlotOverwritten(r) ==
  /\ pc[r] = "slot"
  /\ seq[SlotAt(r, cursor[r])] # StableSeq(Position(r, cursor[r]))
  /\ seq[SlotAt(r, cursor[r])] % 2 = 0
  /\ pc' = [pc EXCEPT ![r] = "overwritten"]
  /\ UNCHANGED <<writerVars, memoryVars, depth, snap, base, cursor, ver, out, recheck>>

SlotRetry(r) ==
  /\ pc[r] = "recheck"
  /\ seq[SlotAt(r, cursor[r])] # ver[r][cursor[r]]
  /\ pc' = [pc EXCEPT ![r] = "slot"]
  /\ UNCHANGED <<writerVars, memoryVars, depth, snap, base, cursor, ver, out, recheck>>

SlotAccept(r) ==
  /\ pc[r] = "recheck"
  /\ seq[SlotAt(r, cursor[r])] = ver[r][cursor[r]]
  /\ cursor' = [cursor EXCEPT ![r] = cursor[r] + 1]
  /\ IF cursor[r] + 1 \in TileAt(r)
     THEN /\ pc' = [pc EXCEPT ![r] = "slot"]
          /\ UNCHANGED <<base, ver, recheck>>
     ELSE EndTile(r)
  /\ UNCHANGED <<writerVars, memoryVars, depth, snap, out>>

\* The caller takes the answer; its locals are gone.
Return(r) ==
  /\ pc[r] \in {"ok", "overwritten"}
  /\ pc' = [pc EXCEPT ![r] = "idle"]
  /\ depth' = [depth EXCEPT ![r] = 1]
  /\ snap' = [snap EXCEPT ![r] = 0]
  /\ base' = [base EXCEPT ![r] = 0]
  /\ cursor' = [cursor EXCEPT ![r] = 0]
  /\ ver' = [ver EXCEPT ![r] = NoWitness]
  /\ out' = [out EXCEPT ![r] = NoCopy]
  /\ recheck' = [recheck EXCEPT ![r] = NoWitness]
  /\ UNCHANGED <<writerVars, memoryVars>>

\* The steps of a query that has begun.
Query(r) ==
  \/ LoadHead(r) \/ LoadWitness(r) \/ CopyWord(r) \/ LoadRecheck(r)
  \/ AcceptTile(r) \/ FallBack(r) \/ TileOverwritten(r)
  \/ SlotWitness(r) \/ SlotOverwritten(r) \/ SlotRetry(r) \/ SlotAccept(r)

-----------------------------------------------------------------------------
Init ==
  /\ issued = 0
  /\ pending = {}
  /\ seq = [s \in Slots |-> 0]
  /\ word = [s \in Slots |-> [w \in Words |-> Zeroed]]
  /\ writeSeq = 0
  /\ pc = [r \in Readers |-> "idle"]
  /\ depth = [r \in Readers |-> 1]
  /\ snap = [r \in Readers |-> 0]
  /\ base = [r \in Readers |-> 0]
  /\ cursor = [r \in Readers |-> 0]
  /\ ver = [r \in Readers |-> NoWitness]
  /\ out = [r \in Readers |-> NoCopy]
  /\ recheck = [r \in Readers |-> NoWitness]

Next ==
  \/ Tick
  \/ Perform
  \/ \E r \in Readers : Call(r) \/ Query(r) \/ Return(r)

Spec == Init /\ [][Next]_vars

\* Stores become visible, and a reader that is running keeps running.  Ticks
\* and queries come from outside.
FairSpec ==
  /\ Spec
  /\ WF_vars(Perform)
  /\ \A r \in Readers : WF_vars(Query(r))

-----------------------------------------------------------------------------
(* What the ring promises.                                                 *)

\* Every variable keeps its type; each of them is written by one actor only.
TypeOK ==
  /\ issued \in 0 .. MaxTicks
  /\ pending \subseteq IssuedStores
  /\ seq \in [Slots -> Nat]
  /\ word \in [Slots -> [Words -> Nat \cup {Zeroed}]]
  /\ writeSeq \in Nat
  /\ pc \in [Readers -> {"idle", "head", "passA", "passB", "passC", "slot",
                         "copy", "recheck", "ok", "overwritten"}]
  /\ depth \in [Readers -> Nat \ {0}]
  /\ snap \in [Readers -> Nat]
  /\ base \in [Readers -> Nat]
  /\ cursor \in [Readers -> Nat]
  /\ ver \in [Readers -> [Indices -> Nat \cup {NotRead}]]
  /\ out \in [Readers -> [Indices -> [Words -> Nat \cup {Zeroed, NotRead}]]]
  /\ recheck \in [Readers -> [Indices -> Nat \cup {NotRead}]]

\* A query that answers with a count has copied exactly the latest records of
\* its write_seq snapshot, each whole and in its place: no torn record, none of
\* another lap of the ring (strategy_reader.h:64-70).
AcceptedIsSnapshot ==
  \A r \in Readers : pc[r] = "ok" =>
    \A i \in Indices, w \in Words : i < Count(r) => out[r][i][w] = Position(r, i)

\* A query answers kErrOverwritten only when the writer has begun, since the
\* snapshot was taken, more ticks than the slots the query left as headroom.
Overrun(r) == issued - snap[r] > RingCapacity - Count(r)
OverwrittenIsGenuine == \A r \in Readers : pc[r] = "overwritten" => Overrun(r)

\* In memory, at every instant, an even witness names the record all payload
\* words of the slot belong to (the stores of on_md cannot pass each other in
\* a way a reader could observe).
StableSlotIsWhole ==
  \A s \in Slots, p \in 0 .. issued - 1, w \in Words :
    seq[s] = StableSeq(p) => word[s][w] = p

\* write_seq never runs ahead of the slots: whoever sees it finds every record
\* below it stable or already on the way to a later lap.  A reader relies on it
\* when it takes an even mismatch for a newer record.
PublishedIsReadable ==
  \A p \in 0 .. writeSeq - 1 : seq[SlotOf(p)] >= StableSeq(p)

\* Neither a slot's witness nor write_seq ever goes back, whatever order the
\* machine performs the stores in: an identity a reader saw twice held between.
NeverBackwards ==
  [][/\ \A s \in Slots : seq'[s] >= seq[s]
     /\ writeSeq' >= writeSeq]_vars

\* A tile that falls back to read_slot_seqlock has lost the record it falls back
\* for: its slot was stable when write_seq was loaded, so a witness that is odd
\* or changes belongs to a later lap.  The retry never delivers that record; it
\* only waits out the writer before it reports the overwrite.
Lapped(r) == seq[SlotAt(r, cursor[r])] > StableSeq(Position(r, cursor[r]))
RetryMeansLost ==
  \A r \in Readers :
    pc[r] \in {"slot", "copy", "recheck"} /\ Count(r) > 1 => Lapped(r)

\* A query that has begun is answered: the spin on an odd witness and the
\* retries end once the writer finishes its tick.
QueriesFinish ==
  \A r \in Readers : pc[r] = "head" ~> pc[r] \in {"ok", "overwritten"}

-----------------------------------------------------------------------------
(* The inductive invariant behind these promises: what the memory says of  *)
(* the stores performed, and what the locals of a reader say of memory.    *)

Performed(a) == a.pos < issued /\ a \notin pending

\* What is ordered behind a pending store is pending too.
StoresInOrder ==
  \A a \in pending, b \in IssuedStores : OrderedBefore(a, b) => b \in pending

\* A witness is the youngest performed for its slot.
WitnessFromStores ==
  /\ \A p \in 0 .. issued - 1 :
       /\ Performed(Store(p, "odd")) => seq[SlotOf(p)] >= OddSeq(p)
       /\ Performed(Store(p, "even")) => seq[SlotOf(p)] >= StableSeq(p)
  /\ \A s \in Slots :
       seq[s] # 0 =>
         \E p \in 0 .. issued - 1 :
           /\ SlotOf(p) = s
           /\ \/ seq[s] = OddSeq(p) /\ Performed(Store(p, "odd"))
              \/ seq[s] = StableSeq(p) /\ Performed(Store(p, "even"))

\* So is a payload word.
PayloadFromStores ==
  /\ \A p \in 0 .. issued - 1, w \in Words :
       Performed(Store(p, w)) => word[SlotOf(p)][w] >= p
  /\ \A s \in Slots, w \in Words :
       word[s][w] # Zeroed =>
         /\ word[s][w] \in 0 .. issued - 1
         /\ SlotOf(word[s][w]) = s
         /\ Performed(Store(word[s][w], w))

HeadFromStores ==
  writeSeq # 0 => writeSeq <= issued /\ Performed(Store(writeSeq - 1, "head"))

MemoryInv ==
  StoresInOrder /\ WitnessFromStores /\ PayloadFromStores /\ HeadFromStores

\* Every word a query holds is of its record, or its slot has moved on.
CopiedOrLost(r) ==
  \A i \in Indices, w \in Words :
    i < Count(r) /\ out[r][i][w] # NotRead =>
      /\ out[r][i][w] >= Position(r, i)
      /\ out[r][i][w] > Position(r, i) =>
           seq[SlotAt(r, i)] > StableSeq(Position(r, i))

IsWhole(r, i) == \A w \in Words : out[r][i][w] = Position(r, i)
IsRead(r, i) == \A w \in Words : out[r][i][w] # NotRead

\* Where a query stands: what it has loaded, and what it has validated.
NotBegun(r) ==
  base[r] = 0 /\ cursor[r] = 0 /\ out[r] = NoCopy /\ recheck[r] = NoWitness

WholeBelow(r, n) == \A i \in Indices : i < n => IsWhole(r, i)

InTile(r) == base[r] < Count(r) /\ WholeBelow(r, base[r])

Rechecked(r) ==
  \A i \in TileAt(r) :
    /\ IsRead(r, i)
    /\ recheck[r][i] = StableSeq(Position(r, i)) => IsWhole(r, i)

AtSlot(r) == cursor[r] \in TileAt(r) /\ WholeBelow(r, cursor[r])

Progress(r) ==
  /\ pc[r] \in {"idle", "head"} => NotBegun(r)
  /\ pc[r] \in {"passA", "passB"} => InTile(r) /\ recheck[r] = NoWitness
  /\ pc[r] = "passC" => InTile(r) /\ Rechecked(r)
  /\ pc[r] \in {"slot", "copy", "recheck"} => AtSlot(r)
  /\ pc[r] \in {"copy", "recheck"} =>
       ver[r][cursor[r]] = StableSeq(Position(r, cursor[r]))
  /\ pc[r] = "recheck" => IsRead(r, cursor[r])
  /\ pc[r] = "ok" => WholeBelow(r, Count(r))

ReaderInv(r) ==
  snap[r] <= writeSeq /\ CopiedOrLost(r) /\ Progress(r)

RingInv == TypeOK /\ MemoryInv /\ \A r \in Readers : ReaderInv(r)

\* Why a refusal is genuine: the witnesses of a tile are those of slots that were
\* stable when write_seq was loaded, and the second is as old as the first or newer.
SeenInOrder(r) ==
  /\ pc[r] \in {"idle", "head"} => ver[r] = NoWitness
  /\ pc[r] \in {"passA", "passB", "passC"} =>
       \A i \in TileAt(r) :
         /\ pc[r] # "passA" => ver[r][i] # NotRead
         /\ ver[r][i] # NotRead =>
              StableSeq(Position(r, i)) <= ver[r][i] /\ ver[r][i] <= seq[SlotAt(r, i)]
         /\ recheck[r][i] # NotRead =>
              ver[r][i] <= recheck[r][i] /\ recheck[r][i] <= seq[SlotAt(r, i)]

RefusalInv(r) ==
  /\ pc[r] = "overwritten" => Overrun(r)
  /\ pc[r] \in {"slot", "copy", "recheck"} /\ Count(r) > 1 => Lapped(r)
  /\ SeenInOrder(r)

\* write_seq has seen every ring head performed: it counts without a gap.
HeadsCounted == \A p \in 0 .. issued - 1 : Performed(Store(p, "head")) => p < writeSeq

-----------------------------------------------------------------------------
(* The ring implements LatestN: a query takes effect when it loads         *)
(* write_seq, and its answer is what it has copied.  A slot copied in      *)
(* words of different records maps to no answer LatestN gives.             *)

Phase(r) ==
  CASE pc[r] = "idle" -> "idle"
    [] pc[r] = "head" -> "asked"
    [] pc[r] \in {"ok", "overwritten"} -> pc[r]
    [] OTHER -> "taken"

IsCopyOf(r, i, p) == \A w \in Words : out[r][i][w] = p

Copied(r) ==
  IF pc[r] = "ok" /\ Count(r) > 0
  THEN [i \in 0 .. Count(r) - 1 |->
          IF \E p \in 0 .. issued - 1 : IsCopyOf(r, i, p)
          THEN CHOOSE p \in 0 .. issued - 1 : IsCopyOf(r, i, p)
          ELSE NotRead]
  ELSE <<>>

Abstract == INSTANCE LatestN WITH
  begun <- issued,
  published <- writeSeq,
  phase <- [r \in Readers |-> Phase(r)],
  answer <- [r \in Readers |-> Copied(r)]

\* Every behaviour of the ring and its readers is one of LatestN, fairness
\* included: queries are atomic snapshots to their callers.
ImplementsLatestN == Abstract!FairSpec

=============================================================================
