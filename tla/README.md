# Verification of the market-data store

TLA+ models of the shared-memory market-data store in `src/`, the TLC runs that
check them on small instances, and TLAPS proofs of what matters most for every
instance. `PROJECT.json` lists the runs, the code each definition stands for,
the hazards, the findings, the theorems, and one mutant of the code per property
that the property catches.

## 1. The system

A feed calls `DemoMd::on_md` for every tick. The store lives in three POSIX
shared-memory segments: *control*, *rings* and *day log*.

    feed -> DemoMd::on_md --+--> ring of the symbol --> query_latest_n   (strategy processes,
                            |    (seqlock slots)                          read-only mappings)
                            +--> circular day log ---> StorageTailer --> WAL segments --> Parquet
                                 committed_seq          durable_seq       (fsync)        (offline)

| component | state | operations | hard behaviour | what makes it correct |
|---|---|---|---|---|
| Symbol ring (`shm_layout.h`, `demo.cpp:113-123`) | per slot `seq` (witness and identity) and payload; `write_seq` | publication of a tick | stores without locks on weak memory; the ring wraps; the writer may die | a stable witness names the record of the whole payload; witnesses and `write_seq` grow |
| Latest-n query (`strategy_reader.h`) | locals of the caller | `query_latest_n`, `read_slot_seqlock` | loads reordered within a pass, tiles, fallback, retries, spin | a positive answer is an exact snapshot, a refusal is genuine, queries end |
| Day log (`demo.cpp:79-127`) | slots, `committed_seq`, overwrite guard with a stale `durable_view_` | append, guard, commit | the log is circular; plain stores | no record is overwritten unnoticed |
| Storage tailer (`storage_tailer.cpp`) | `read_seq_`, buffer, segment, `durable_seq`, `wal_faults` | `run`, `flush`, rotation, `stop` | runs beside `on_md` and `stop`; every IO call may fail; rotation boundaries | `durable_seq` never claims what is not synced; the WAL is the log in order; a fault freezes both |
| Process lifecycle (`demo.cpp:18-40`, `main.cpp`) | `started_`, segment numbers, files | start, stop, kill, restart, start again | `stop` against a running feed; restart over old files; cursors that go on while the log is empty | nothing that was read is lost uncounted; the WAL ends in a clean cut |
| Registry (`demo.cpp:44-67`) | `index[]`, `next_symbol_index_`, `instrument_count` | register, resolve | exhaustion, readers of a half-registered symbol, a kill inside a registration, second `start()` | one-to-one, never reused |
| Shared-memory lifecycle (`shm_manager.cpp`) | three named segments, `magic` | create, open, close, unlink | attach during create; two generations; stale segments | a mapping is one complete generation of the expected layout |
| v2 ring and query (`v2_opus/reader.h`, `ingest.cpp:107-121`) | as the ring; `QueryStats` | publication, `query_latest` | no tiles; a retry loop per slot | as the query above; what is a retry that succeeds |
| v2 day log and tailer (`v2_opus/tailer.cpp`, `ingest.cpp:67-129`) | as the tailer, without a fault state | `run`, `flush`, `stop` | copies from live memory; retries a failed flush from its first row, after every record, when idle, in `stop()` and in the destructor; ignores a failed fsync at a rotation | which failures it makes up for, and which it cannot |
| v2 shared memory (`v2_opus/shm.cpp`) | as the lifecycle above | create, open, close | a plain `magic`; a mapping of unknown size | no strategy that was let in is killed or misled for good |
| Converters (`scripts/wal_to_parquet.py`, `verify_parquet.py`, `v2_opus/wal2parquet.py`) | buckets, parts, output directory | a run over the WAL | the WAL grows meanwhile; killed and run again; row-group boundary | every row once and in order |
| Clock, tests, benchmarks, build | | | | not modelled |

Interactions: `on_md` and readers share ring memory only; `on_md` and the tailer
share the day log, `committed_seq`, `durable_seq` and `log_overwrite_count`;
`stop()` talks to the tailer by `running_` and a join; lives of the process share
the WAL directory.

## 2. The modules

| module | models | composes |
|---|---|---|
| `LatestN` | what a query promises: an atomic snapshot, or a justified refusal | |
| `SeqlockRing` | one ring: `on_md`'s publication, `query_latest_n`, `read_slot_seqlock` | implements `LatestN` |
| `SeqlockRingCrash` | the ring with a writer process that may be killed | extends `SeqlockRing` |
| `SeqlockRingV2` | `query_latest` and `QueryStats` of v2 | extends `SeqlockRing`, implements `LatestN` |
| `SeqlockRing_proofs` | theorems about `SeqlockRing` | extends `SeqlockRing` |
| `SeqlockRingCrash_proofs` | the ring with crashes is a ring of a slow writer | an instance of `SeqlockRing_proofs` |
| `SeqlockRingV2_proofs` | theorems about `SeqlockRingV2` | extends it and `SeqlockRing_proofs` |
| `DurableLog` | what the persistence pipeline promises: a claim that is true and final | |
| `StorageTailer` | day log, tailer, WAL, `stop()` | implements `DurableLog` |
| `WalRestart` | several processes, one after the other, over one WAL directory | extends `StorageTailer` |
| `StartAgain` | `start()` after `stop()` on one `DemoMd`, besides restarts | extends `WalRestart` |
| `StorageTailer_proofs` | theorems about `StorageTailer`, `WalRestart` and `StartAgain` | extends `StartAgain` |
| `TailerV2` | day log, tailer, WAL and `stop()` of v2 | |
| `TailerV2_proofs` | theorems about `TailerV2` | extends `TailerV2`, `FlattenLemmas` |
| `Store` | `create`, `open`, `start`/`stop`, `register_instrument`, the way from an id to a ring | |
| `StoreV2` | the same of v2, where it differs | extends `Store` |
| `Store_proofs` | theorems about `Store` and `StoreV2` | extends `StoreV2` |
| `ParquetConvert` | the converter over a growing WAL, run again and again | |
| `ParquetConvert_proofs` | theorems about `ParquetConvert` | extends `ParquetConvert`, `FlattenLemmas` |
| `FlattenLemmas` | what `FlattenSeq` makes of segments and parts | |
| `MC...` | instances for TLC | |

### SeqlockRing

A record is its ring position. A slot is a witness `seq` and a payload of
`Words` stored and loaded one by one, so tearing shows. `Tick` executes the
stores of `demo.cpp:118-123` into `pending`; `PerformOdd/Word/Even/Head` make
one of them visible. `OrderedBefore` is the order a multi-copy-atomic weak
machine (arm64) keeps: same location, before a release store, or across the
release fence. The compiler's freedom is the same or smaller. On x86 fewer
behaviours exist. The loads of a pass happen in any order, the acquire fences
F1 and F2 separate the passes. A plain load of the payload while it is stored
(formally a race, the usual seqlock idiom) returns an old or the new word.

The reader's `pc` follows `query_latest_n`: `head` (write_seq), `passA`,
`passB`, `passC`, and `slot`, `copy`, `recheck` for `read_slot_seqlock`, with
`cursor` the slot it is at, both on the one-record path and in a tile that fell
back. A spin on an odd witness changes nothing and is no step. Argument checks,
the index lookup and `QueryStats` are left out. `recheck` may be loaded for
slots past the first bad one; the answer does not depend on those.

`SeqlockRingCrash` adds `Crash`, which drops any stores the writer has not
executed: the end, in program order, of those of its last tick. `unexecuted`
remembers them; no step reads it.

### StorageTailer

A record is its `global_seq`. A slot of the day log has two locations
(`global_seq`, the rest) that `demo.cpp:103-107` stores with plain stores; they become
visible in either order in every run and every theorem (arm64, or a compiler that swaps
them). `committed_seq` is a release store after both. So a copy that a lap overtakes may
be of another record and still pass the recheck (`wal_torn`): its row, if the rest says it
is of the window, mixes two records. `damaged` remembers such records and `skipped` those
found overwritten (`Lost` is both; no step reads them), and only a whole row, its
`global_seq` and the rest of one tick, counts as `OnDisk` or `Buffered`. (Stores of the next tick
may also pass that release store; it only shows the tailer a smaller
`committed_seq`.) `tpc` follows `run()`: `loop`, `load`, `check`, `copy`,
`recheck`, `flush`. `flush()` is the actions `OpenSegment`, `CloseFull` (rotation),
`WriteRows` (one chunk), `Sync`; `FlushFails` is any of them failing, with what
the failure leaves behind. `stop()` is `StopBegin`, `Join`, `DrainEnd`,
`CloseLast`; its final `flush()` is the same flush actions while `mpc` is
`draining`. (`~StorageTailer` calls `stop()` once more, `storage_tailer.cpp:26`; by then
the buffer is empty or the fault is set and the segment is closed, so it does nothing.)
`IngestOutlivesStop` chooses the deployment: `tests.cpp` and
`benchmark.cpp` call `on_md` and `stop` from one thread (FALSE), `main.cpp` says
the feed has an ingest thread of its own (TRUE). `published_durable_` always
equals `durable_seq` and is not kept apart. `files` maps segment numbers to rows
and to how many of them an fsync has covered; that the fsync of a new file also
persists its directory entry is assumed.

`Promise` maps the pipeline to `DurableLog`: the claim is `durable_seq`, the disk
the rows an fsync has covered in segments of this tailer, `failed` is
`wal_faults`. `Claim` may put records on disk and claim them in one step, since
the last fsync of a flush does so; `Close` may fail, since `close_segment()` can.

### WalRestart and StartAgain

`Restart` may happen in any state: the process is gone, `create()` has unlinked
and zeroed the shared memory, only `files` remain. The page cache survives (a
killed process, not a power failure). `Again` is `DemoMd::start` after `stop` on the
same object: `global_seq_` and `durable_view_` stay, the memory is new and zeroed,
the new tailer counts from 0 (record 0, which a zeroed slot names, is read and not kept,
its flags being zero; the others of earlier starts are found overwritten). No `on_md` is between its stores then: with one on
its way the memory would go away under it.

### TailerV2

The vocabulary of `StorageTailer`, with what v2 does differently. The identity of a
slot, its flags and the copy are three looks (`CheckIdentity`, `CheckWindow`,
`CopyRecord`), the last one final. The stores of a record are visible in any order.
A file keeps the rows an fsync must still cover (`dirty`) and those one has
covered (`safe`) apart, because an fsync that fails may drop dirty pages, and a
later one that succeeds says nothing of them. `FlushFails` returns to `run()` with
the buffer kept; the next `flush()` writes it from its first row. The code tries
again at four points, and so does the model: after the next record that is read, off the
window or not, if the buffer is still full (`FlushIfFull`, `tailer.cpp:71`); when there is
nothing to read (`LoadEnd`); in `stop()` after the join (`Join`, `mpc` is `draining`); and in
`~Tailer`, which `MdStore::stop` runs by `tailer_.reset()` and which calls `stop()` a
second time (`CloseLast`, `mpc` is `dropping`): a kept buffer goes into one more segment
and `durable_seq` may move once more, before `mpc` is `down`. A failed write
leaves a number of whole rows and perhaps a fragment, on which the rest of the
segment is out of place (`Aligned`). `lost` remembers the records a rotation's fsync gave
up and those written behind a fragment; no step reads it. Failures are at most `MaxFailures`; without that bound
nothing is ever durable.

### SeqlockRingV2 and StoreV2

`on_md` of v2 publishes with the stores of `demo.cpp` (`ingest.cpp:111-121`), so
`Tick` and `Perform` are used as they are; the reader's `slot`, `copy` and
`recheck` are those of `read_slot_seqlock`, with `retried` and `QueryStats.retries`
beside them. In `StoreV2`, `StoreMagic` may come at any moment of
`initialize()`, mapping asks for no size, and touching a segment `ftruncate` has
not sized kills the strategy (`Killed`); another may take its place (`Replace`).

### ParquetConvert

A row is its place in the WAL and its bucket; a part is whole when `write_table` has
returned and unreadable before. The tailer's appends run beside the converter: a
segment is read as it is at that moment, a fragment refuses it (`RefuseFile`).
`Kill` and `WriteFails` end a run anywhere, the next one starts over the old output.
A bucket's rows at the end are written in the order of bucket numbers.
`v2_opus/wal2parquet.py:76-105` is the same algorithm line by line.

### Store

Every `create()` makes a *generation* of the three segments. `link` is what the
three names stand for; `sized`, `magic`, `index`, `count` and `rings` are memory,
by generation, and outlive names and processes; so do `head` (the symbol in a ring's
head) and `filled` (the superblock). `wpc` follows `start()`:
`unlink`, `make` (shm_open), `size` (ftruncate, mmap), `init`, `tailer`. The
stores of `initialize()` become visible in any order (`ClearIndex`,
`FillSuperblock`), magic after them (`PublishMagic`). `CreateFails` is any call
that fails. `Crash` is the end of the writer process; a `Start` begins a new
process, or goes on with the same `DemoMd`, whose `next_symbol_index_` is kept
(`first` remembers it per generation). `register_instrument` is `Assign`, after which the
writer's own view of the map (`view`) has the symbol, and the stores `StoreHead`,
`StoreIndex`, `StoreCount` become visible one by one: the map after the head and after the
earlier registrations, since its store is a release, the count in no order with it
(`demo.cpp:53-58`), and in v2, where all are plain, in any order (`StoresOfV2`). A kill may
come between any two. So a symbol may be in the map while `instrument_count` is still
its index, and stays so for good after a kill between `demo.cpp:56` and `:57`; no code
reads `instrument_count`. `on_md` is `Resolve` and `Publish`, since it may
die between them. A strategy runs `open(true, false)` step by step and queries
in two loads, the index and the ring. There is one writer at a time, as the code
assumes throughout. A ring is the set of symbols whose ticks it holds; the slots
are `SeqlockRing`'s matter. Sizes other than zero and right (another build) are
left out, and so are arguments out of range.

## 3. The runs

| run | instance | shows |
|---|---|---|
| `ring_core` | 2 slots, tile 2, 2 words, n in {1,3}, 6 ticks, a reader of either build, fair | `SeqlockRing` and `SeqlockRingV2` implement `LatestN`, liveness included; refusals are genuine, witnesses grow, queries finish, no retry of v2 ends in a record; the proofs' inductive invariant `RingInv` holds |
| `ring_crash` | 4 slots, tile 2, 1 word, n in {3,4}, 7 ticks, writer killed anywhere | several tiles, a partial one, fallback in mid-tile; no torn answer; only queries for the slot being filled can hang |
| `tailer_drain` | log 3, flush 2, segment 3, stride 2, 5 ticks, fair | the pipeline implements `DurableLog`: what it claims is on disk, all is claimed some day, `stop()` returns; WAL order and size, guard, fail-closed, complete drain; the proofs' `TailerInv` |
| `wal_lives` | log 2, 2 lives, 4 ticks, feed that outlives `stop()` | new processes and second starts: what is missing or torn is counted although cursors go on, `durable_seq` is right whatever files it finds, the WAL ends in a clean cut |
| `wal_torn` | log 2, flush 2, segment 2, stride 2, 4 ticks | violated: the recheck lets a torn copy through (finding) |
| `wal_loss` | log 4, 2 lives, 3 ticks each | violated: the new life truncates durable segments (finding) |
| `tailer_v2` | log 3, flush 2, segment 3, stride 2, 4 ticks, 2 failures, fair | v2: torn rows only after a counted overwrite, an exact WAL when nothing fails, what retries make up for, recovery, drain, `stop()` and `~Tailer` |
| `v2_rotate` | log 8, 1 failure | violated: `durable_seq` passes rows whose fsync failed (finding) |
| `store_core` | 3 symbols, 2 rings, 2 starts of one or two processes, kills between any two stores | what magic and the map vouch for, rings are not shared, answers are of the symbol asked for, exhaustion |
| `store_mix` | 2 symbols | violated: a strategy maps two generations (finding) |
| `store_v2` | 2 symbols, 2 rings, 2 starts, kills between any two stores | v2: queries are not killed, and only a lookup made while the map is still zero misleads |
| `parquet` | 2 buckets, row group 2, segment 3, 6 rows, 3 runs | parts are row groups of the WAL, nothing lost in mid-run, a finished run is complete, counting rows verifies the output |

Bounds. One reader is enough: readers write nothing (the proofs cover any
number). With two slots and six ticks a slot holds three different records and
a query can be lapped twice; two words tear a payload. Depth 3 exceeds the
capacity of `ring_core`. Five ticks (`tailer_drain`) and four (`tailer_v2`) against a log of three
records, or four against two (`wal_lives`), lap it; in the tailers' runs flush 2
and segment 3 are coprime, so a batch splits over a rotation, ends on it and starts
after it. Two failures are a flush that fails and whose retry fails too. Two
lives have a kill at every state and a second `start()` between them.
Two generations are what it takes to mix them, three symbols what it takes
to exhaust two rings. Six rows over segments of three and groups of two give a group
that spans segments, one that is full at the end of the input and one that is not;
three converter runs are one killed, one killed over old parts, one that finishes.
`MaxTicks`, `MaxLives`, `MaxGens`, `MaxFailures`, `MaxRows` and `MaxRuns` are
the only bounds that cut behaviours.
The 64-bit counters are not wrapped: 2^63 ticks are out of reach.

Deadlock is not checked where the system really stops: a stopped pipeline (of
either version), a ring whose writer is dead while its readers spin, a store all
of whose starts (`MaxGens`) are used up, a converter all of whose runs are.

Fairness. `SeqlockRing` and `SeqlockRingV2`: stores drain (`WF(Perform)`) and a
query that has begun keeps running. No fairness for ticks or calls: they are the
environment's. A strategy thread that is descheduled is only delayed.
`StorageTailer` and `TailerV2`: the OS schedules the thread, a tick that was taken
is committed, a `stop()` that was called goes on. No step is strongly fair; failures
are never forced. The fairness of `DurableLog` (what was appended is claimed or the
log fails, a `stop()` that was called returns) is not assumed of the pipeline:
`ImplementsDurableLog` shows that it follows.

## 4. The proofs

Each module's theorems hold for every value of its constants; its one assumption
(`RingAssumption`, `TailerAssumption`, ...) only gives them their types. TLC checks
on small instances that the inductive invariants hold before they are relied on:
`RingInv` and `TailerInv` are invariants of runs; the others are strengthenings of
invariants of runs.

### The ring

`SeqlockRing_proofs`: any capacity, tile size, set of payload words (not empty),
readers, depths and number of ticks. `TypeOK`, `StableSlotIsWhole`,
`PublishedIsReadable`, `AcceptedIsSnapshot` and `NeverBackwards` follow from the
inductive invariant `RingInv`, since none is inductive alone:

1. *Memory* (`MemoryInv`): what is ordered behind a pending store is pending
   (`StoresInOrder`); each location holds the youngest performed store of its
   slot (`WitnessFromStores`, `PayloadFromStores`, `HeadFromStores`). `Perform`
   keeps it because a performable store has nothing ordered before it pending.
2. From it, *a stable witness means a whole payload* (`StableSlot`): its even
   store is a release, so every word of its tick was performed before; a younger
   word would have its odd witness, across the fence, performed before it.
3. *Readers* (`ReaderInv`): a copied word is of the record asked for, or the
   slot's witness has passed that record (`CopiedOrLost`). Witnesses never go
   back (`MemoryGrows`), so a recheck that still names the record vouches for
   the whole copy (`Rechecked`), and answers are whole (`NoTornRecords`).

*Refusals* (`RefusalsAreGenuine`, `FallbacksAreLost`). Two records of one slot are at
least a lap apart (`LapApart`), so a witness beyond the record asked for means the
writer has used up the headroom (`LappedSlot`). `RefusalInv` therefore only has to
say that every witness a tile has loaded was at least the stable one, and the second
at least the first (`SeenInOrder`): a tile that is not accepted has then met a newer
one, which is `Lapped` for good (`LapStays`).

*Refinement* (`RingImplementsLatestN`): `Spec => Abstract!Spec`, with the mapping
of `SeqlockRing`. A query takes effect at its load of `write_seq`; `HeadsCounted`
(the ring heads become visible in order) makes the store of a head one step of
the abstract counter; `NoTornRecords` makes the answer the abstract one, and
`RefusalInv` justifies the refusal. Each action is one lemma (`TakeMaps`,
`AnswerMaps`, `RefuseMaps`, ...).

*A dead writer* (`SeqlockRingCrash_proofs`). Count the stores it never executed
among those that are still to become visible: then `Crash` is a stutter, and the
ring with crashes is a ring with a slow writer (`DeathIsSlowness`, an instance of
`SeqlockRing_proofs` with `pending <- pending \cup unexecuted`). No performable store
is ordered behind one never executed, since those are the end of the program order
(`NotBehindDeath`). So all the theorems above hold of it, and a spin is only at the
slot of a later lap (`OnlyLappedQueriesHang`).

*v2* (`SeqlockRingV2_proofs`). The reader's actions keep `RingInv` (`RingInductiveV2`);
`RetryInv` says that a second look is only ever taken at a slot that is already
lapped, hence never accepted: `RetriesStayZero`, and the refinement of `LatestN`.

### The persistence pipeline

`StorageTailer_proofs`: any log, batch, segment and stride sizes, any number of
ticks, and failures and `stop()` anywhere. The invariant is stated for a log that
begins at any record, `LogFrom(first)`, and `TailerInv` is `LogFrom(0)`; the first
`global_seq` of a log is not 0 after a second `start()`.

1. `CursorInv`: types, the order of the cursors (`durable <= readSeq <= committed <=
   appended`), where writer, thread and `stop()` can be together (`Control`), and
   the lengths of the segments (`Shape`). It gives `TypeOK` and `FailsClosed` (after
   a fault the thread has exited and nothing but `close_segment()` touches a file).
2. `WriterInv(first)`: `durable_view_` is never ahead of `durable_seq`, or dates from
   before `first`; `OverwritesAreCounted` follows (`GuardCounts`).
3. `LogInv(first)`: a committed record is in its slot or a later one is, and nothing in
   the log is of a tick not yet taken.
4. `CopyInv(first)`: so a copy is of the record it was made for or of a later one.
5. `KeptInv`: every record of the window that was read is below `durable_seq` and on disk,
   whole, or buffered, whole, or in `Lost`: found overwritten (`skipped`) or kept with the
   rest of another (`damaged`), as the stores of a record are visible in either order;
   during a flush the first `off` rows of the buffer are synced or in the open segment
   (`FlushIsInFile`), which is what makes the fsync of the last segment enough although
   rotation spread the batch over several. It gives `DurableIsOnDisk`.

On top of it, `CutInv`: the buffer is in order and between `durable_seq` and `read_seq_`,
no row of it both whole and lost (`BufferInv`, `IsSound`), every row of this life's
segments is below `durable_seq` or of the batch that is being flushed
(`RowsAreClaimed`), and what `stop()` has waited for (`DrainInv`). It gives
`CutsAreClean` and, with `KeptInv`, `StopPersistsAll` (a feed that calls `stop()` from
its own thread). `OrderInv` says the same of a first life's whole directory: rows are of
records that were read, increasing across segments, and a segment is left only when full
(`WalInOrder`).

*Refinement* (`PipelineImplementsDurableLog`): with a feed that does not outlive
`stop()`, the setting of `tailer_drain`, every step is a step of `DurableLog` or a
stutter. `Sync` that empties the buffer is `Claim`; a record found overwritten or kept
with the rest of another is `Lose`, which `SlotsInv` (what is in a slot, and what was
copied from it, is of records of its own) justifies: its place was taken by a record a lap
later (`SkippedIsLapped`, `DamagedIsLapped`).

*Restarts* (`EveryLife` to `LossesAreCountedAlways`). A fresh log over any directory satisfies
`LogFrom(b)` and `CutInv` (`FreshKeeps`, `FreshCuts`): the invariant speaks of
segments below `segment` only, and those this life has opened. (A failed open may move
`segment` past an old life's file; the tailer has a fault then and claims no more.)
So the theorems hold in every life, and for `StartAgain` with `LogFrom(base)`.
`LossesAreCountedAlways` needs a count: `Lapped(first)` are the records of this log that
`on_md` has overwritten, or is about to, and that are in `Lost` or still to be read.
`LostInv` says that `on_md` has counted each and the tailer each it found overwritten,
`|skipped| + |Lapped| <= log_overwrite_count`. A tick adds at most one to `Lapped`, and the guard, which sees
`durable_seq <= read_seq_`, counts when it does (`TickLoses`); a record is lost
only if it is in `Lapped` already, or of an earlier start (`SkipLoses`, `KeepLoses`).

*v2* (`TailerV2_proofs`). `CursorInv` is again types, cursors and places; then, each
relative to those before:

1. `LogInv`: while nothing is counted, `on_md` is at most a lap ahead of `durable_seq`,
   whatever its stale view, and the log holds every record from `durable_seq` on. So
   a copy, which v2 takes without a recheck, mixes nothing (`RowsInv`, `NoRowIsMixed`).
2. `KeptInv`: what was read stays in the buffer until it is durable, and `LastInv`: a
   buffer that the flush of `stop()` leaves behind stands for a failure, and one that the
   flush of `~Tailer` leaves behind for two. So after one failure, wherever it was,
   everything is behind `durable_seq` in the end (`StopPersistsAllV2`).
3. `DiskInv`: the first `off` rows of the buffer have `Landed`: in `lost`, or on disk, or
   dirty in the open segment with no fragment before them, so that the next fsync covers
   them however often `flush()` has begun again; and what is below `durable_seq` is on disk
   or in `lost` (`DurableRecordsAreLegible`).
4. `SizeInv`: without failures `rows_in_segment_` counts the open segment's rows
   (`CleanRunsFillSegments`).
5. `OrderInv`: without failures and counted overwrites, the rows of the segments and
   then the rest of the buffer are the records of the window below `read_seq_`
   (`CleanRunsAreExact`): reading appends to both, writing moves a row from the one
   to the other, a rotation and a flush change neither.

### The converters

`ParquetConvert_proofs`: any buckets, row-group and segment sizes, rows and runs, with
the tailer appending, torn rows, failures and kills anywhere. `ConvertInv` is inductive
(`ConversionInvariant`); besides types it says that

1. the rows of all buckets together are as many as the WAL's (`WalInv`), and whatever
   run wrote it, part k of a bucket is a `Piece` of the bucket's rows from its k-th row
   group on (`PartsInv`). The WAL only grows at its end, so a piece stays one
   (`PieceGrows`): this is what makes a run over old parts safe, and `PartsNeverOverlap`;
2. of a run, there are rows `done` and `rest` with the WAL `done \o data \o rest`, and
   of each bucket's rows in `done` the parts and then the buffer are exactly those
   (`ReadSoFar`); a file that is read again longer only adds to `rest`. Hence
   `NoRowIsLostBetween`;
3. a run's parts are whole and all but the last of a bucket full, and a part with a
   later number is of rows the WAL had when the run began (`BucketInv`). So a run that
   ends well has written over every part an earlier one left (`DoneRunsAreComplete`).

`CountingIsEnough` needs no run: the first n parts of a bucket have at most n row groups
of rows and at most as many as the bucket, and as many as either only if none has a gap
(`Fits`); a total as large as the WAL's then leaves none short in any bucket.

### The store

`Store_proofs`: any number of symbols, rings, strategies and starts, with
crashes and failures anywhere. `StoreInv` is inductive: `TypeOK`,
`PublishedIsComplete`, `RingsAreSeparate` and `AnswersAreOfSymbol` need of each other
and of

1. `Creation`: memory without magic is untouched or being initialized, by a
   writer that has not mapped it yet, so nothing a strategy may hold changes
   while `create()` runs (`QuietKeeps`);
2. `Mapping`: what the writer has given out is one-to-one and exactly the rings from
   `first` to `next_symbol_index_` (`Assignment`), the map shows of each symbol that or
   nothing, and so a new symbol gets a ring of its own (`AssignKeeps`), whichever stores of
   earlier registrations are visible (`StoreShows`, `StoresKeep`);
3. `Attachment`: the control region a strategy is let in with has magic, and
   an index it has read stays the symbol's (registration never changes one).

That the theorem needs `ctrl[r] = ringMap[r]` is the finding `store_mix`.
`RegistryInv` counts: `next_symbol_index_` is where this start began plus the symbols
the writer has `Assigned` since, each of them once (`AssignedGrows`), so a refused symbol
means the rings are used up (`RefusedOnlyWhenFull`).

`StoreInvV2` is weaker where v2 is: magic says nothing of `initialize()`. What remains
is that magic comes after every `ftruncate` (`SizesV2`, hence `NoQueryIsFatal`), that
a generation that is not initialized holds no ticks (`CreationV2`), and that an answer
is still in the ring it was read from (`HoldsV2`). A wrong index is then only one read
before the map was set to -1 (`MisleadingIsEarly`).

Concatenations of segments and parts (`FlattenSeq`) are recursive by a `CHOOSE`, and
the library's induction takes an operator as parameter. `FlattenLemmas` goes without:
the numbers for which a statement holds are a set that contains 0 and is closed under
successor, and the complement of such a set has no least element (`NumbersOf`).

### Model-checked only

Every safety property of the passing runs is stated by a theorem. What stays with TLC:

- All liveness: `QueriesFinish`, `EventuallyDurable`, `Recovers`, v2's `StopReturns`, and the
  fairness of the abstract specifications (the theorems about refinement prove
  `Abstract!Spec` and `Promise!Spec`, the runs the fair ones).

## 5. Findings

1. `wal_loss`: a restart truncates the segments of the same day
   (`storage_tailer.cpp:151`), against `docs/DESIGN_SPEC.md:677`.
2. `store_mix`: `open()` maps control and rings by two `shm_open` calls and checks
   the superblock of the first only; across a restart of the writer a strategy
   keeps the index of one generation and the rings of the next, and gets records
   of other symbols, against `strategy_reader.h:53`.
3. `v2_rotate`: the rotation of v2 ignores a failed `fsync`
   (`v2_opus/tailer.cpp:130`), the fsync of the next segment succeeds and
   `durable_seq` passes rows that are on no disk, against
   `v2_opus/tailer.cpp:95-96`. `storage_tailer.cpp` does not have this fault.
4. `wal_torn`: the recheck at `storage_tailer.cpp:104` needs the writer's plain stores in
   order, and `demo.cpp:103-107` does not order them: the new record's fields may be
   visible while the slot still names the old one, and the torn copy is written, against
   `storage_tailer.cpp:99-102` and `docs/PERFORMANCE_MACOS.md:70-73`. It takes a lap of the
   day log, which the capacity makes unlikely, and is counted (`LossesAreCounted`).

Further disagreements of code and text, met while modelling and kept without a
run, since each is seen at the line or by changing one constant:

- `read_slot_seqlock` spins on an odd witness without looking at the heartbeat
  (`strategy_reader.h:37`): after the writer's death a query for the slot it was
  filling never ends, against `TECHNICAL_REQUIREMENTS.md:352`. `SpinsOnlyIfLapped`
  says no other query does.
- `DemoMd::stop` clears `started_` last (`demo.cpp:39`), so ticks accepted while
  it runs are committed but never persisted, against
  `TECHNICAL_REQUIREMENTS.md:358`. A feed that never pauses keeps the join
  of a slower tailer waiting for as long as it lasts.
- After `stop()` and `start()` on one `DemoMd` the map is empty while
  `next_symbol_index_` goes on (`demo.cpp:51`): `instrument_count` is no count any
  more, against `shm_layout.h:56`, and rings are used up sooner. A kill between
  `demo.cpp:56` and `:57` leaves it one short.
- Nothing compares `trading_day` (`shm_manager.cpp:107`), against
  `TECHNICAL_REQUIREMENTS.md:353`.

Observations that are no contradictions:

- `RetryMeansLost`, `RetriedIsLost`: a tile that falls back never gets the record it
  retries for, nor does v2's retry loop, since everything below the snapshot was
  stable when it was taken. The fallback only waits before it reports the overwrite,
  and `QueryStats::retries` (`v2_opus/reader.h:17`) never counts a retry that paid off.
- `log_overwrite_count` counts a lost record twice, by the guard and by the tailer.
  After a second `start()` the tailer counts the numbers of the earlier start as
  overwritten: losses are never missed, but the number is too high.
- While IO fails the buffer of v2's tailer grows without a bound.
- v2's tailer moves `durable_seq` in `flush` only, so off the trading window it falls
  behind and the guard of `on_md` counts overwrites of records nobody wants; the
  assertion at `v2_opus/test.cpp:89` then depends on timing.
- A row count is enough to verify the converter's output (`VerifiedIsTheWal`) when
  the parts come from runs over the same WAL with the same `--row-group-rows`. Parts
  of an earlier, longer WAL or of other group sizes are not covered.

## 6. Plan

Done: ring, query, pipeline, stop, restart, second start, registry, shared-memory
lifecycle, v2 and the converters, modelled and checked; their invariants and the steps
of both refinements proved.

Not modelled, and not planned:

- the clock (`clock.h`), huge pages, prefaulting and the Parquet encoding: pure IO
  or wording, without a state that the properties tell apart;
- benchmarks and their numbers, tests (used as documentation of what is expected)
  and the build;
- a WAL directory that holds several trading days, which the converter would mix
  and `Restart` would not.
