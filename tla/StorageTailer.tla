--------------------------- MODULE StorageTailer ---------------------------
(***************************************************************************)
(* The persistence pipeline: DemoMd::on_md appends every tick to the       *)
(* circular day log in shared memory and publishes committed_seq; the      *)
(* thread of StorageTailer reads the log by increasing global_seq, buffers *)
(* the records of the trading window, writes them to WAL segment files and *)
(* advances durable_seq after fsync.  DemoMd::stop joins the thread,       *)
(* flushes what is left and closes the segment.                            *)
(*                                                                         *)
(* A record is its global_seq.  A slot of the day log has two locations,   *)
(* the global_seq and the rest of the record, that on_md stores with plain *)
(* stores: they become visible in either order, on arm64 by the processor, *)
(* elsewhere by the compiler.  Both are visible before committed_seq is.   *)
(* A file is the rows written to it and how many of them an fsync has      *)
(* covered.  Every open, write, fsync and close may fail.                  *)
(***************************************************************************)
EXTENDS Integers, Sequences, FiniteSets

CONSTANTS LogCapacity,         \* kLogCapacity, records in the day log
          FlushRows,           \* kWalFlushRows, rows that trigger a flush
          SegmentRows,         \* kWalSegmentRows, rows of a full segment
          StatsStride,         \* kStatsStride, ticks between two looks at durable_seq
          IngestOutlivesStop,  \* whether on_md runs on a thread that stop() does not wait for
          MaxTicks             \* bound: ticks handled in a behaviour

ASSUME TailerAssumption ==
  /\ LogCapacity \in Nat \ {0}
  /\ FlushRows \in Nat \ {0}
  /\ SegmentRows \in Nat \ {0}
  /\ StatsStride \in Nat \ {0}
  /\ IngestOutlivesStop \in BOOLEAN
  /\ MaxTicks \in Nat

VARIABLES appended,     \* global_seq_, ticks on_md has taken
          durableView,  \* durable_view_, its copy of durable_seq
          wpc,          \* whether on_md is storing a record
          logSeq,       \* LogRecord.global_seq of each slot
          logData,      \* the record the rest of each slot belongs to
          window,       \* the records flagged kFlagInWindow
          committed,    \* WriterControl.committed_seq
          statRead,     \* TailerStats.read_seq
          durable,      \* TailerStats.durable_seq (and published_durable_)
          overwrites,   \* TailerStats.log_overwrite_count
          faults,       \* TailerStats.wal_faults
          tpc,          \* where the tailer is in run() and flush()
          readSeq,      \* read_seq_
          end,          \* the committed_seq its batch ends at
          copy,         \* the record its copy was made from
          buf,          \* buf_, rows to be written
          off,          \* rows of buf_ that are written
          fdOpen,       \* whether fd_ is open
          rowsInSegment,
          segment,      \* segment_, the number of the next segment
          faulted,
          files,        \* the WAL directory: the segments by number
          running,      \* running_
          mpc,          \* where DemoMd::stop is
          started,      \* started_
          skipped,      \* records the tailer found overwritten (not in the code)
          damaged       \* records it kept with the rest of another (not in the code)

writerVars == <<appended, durableView, wpc, logSeq, logData, window, committed>>
cursorVars == <<readSeq, end, copy, statRead, skipped, damaged>>
walVars == <<off, fdOpen, rowsInSegment, segment, files>>
faultVars == <<faulted, faults>>
mainVars == <<running, mpc, started>>
vars == <<writerVars, cursorVars, walVars, faultVars, mainVars,
          durable, overwrites, tpc, buf>>

Slots == 0 .. LogCapacity - 1
SlotOf(p) == p % LogCapacity
Zeroed == -1    \* the rest of a slot nobody has written

Row(p, d) == [seq |-> p, of |-> d]
TornRow == Row(-1, -1)  \* the end of a file whose last write failed half-way

-----------------------------------------------------------------------------
(* on_md, for a tick of a registered instrument.                           *)

View(p) == IF p % StatsStride = 0 THEN durable ELSE durableView

GuardTooLate(p) == p - View(p) > LogCapacity  \* mutant: one record late
GuardTrips(p) == p - View(p) >= LogCapacity

\* Take a global_seq, refresh the view of durable_seq on its stride, and count
\* the tick when the record it is about to overwrite may not be on disk.
TakeTick ==
  /\ started /\ wpc = "idle" /\ appended < MaxTicks
  /\ IngestOutlivesStop \/ mpc = "up"
  /\ appended' = appended + 1
  /\ \E inWindow \in BOOLEAN :
       window' = IF inWindow THEN window \cup {appended} ELSE window
  /\ durableView' = View(appended)
  /\ overwrites' = overwrites + IF GuardTrips(appended) THEN 1 ELSE 0
  /\ wpc' = "storing"
  /\ UNCHANGED <<logSeq, logData, committed, cursorVars, walVars, faultVars,
                 mainVars, durable, tpc, buf>>

SeqStored == logSeq[SlotOf(appended - 1)] = appended - 1
DataStored == logData[SlotOf(appended - 1)] = appended - 1

StoreSeq ==
  /\ wpc = "storing" /\ ~SeqStored
  /\ logSeq' = [logSeq EXCEPT ![SlotOf(appended - 1)] = appended - 1]
  /\ UNCHANGED <<appended, durableView, wpc, logData, window, committed, cursorVars,
                 walVars, faultVars, mainVars, durable, overwrites, tpc, buf>>

StoreData ==
  /\ wpc = "storing" /\ ~DataStored
  /\ logData' = [logData EXCEPT ![SlotOf(appended - 1)] = appended - 1]
  /\ UNCHANGED <<appended, durableView, wpc, logSeq, window, committed, cursorVars,
                 walVars, faultVars, mainVars, durable, overwrites, tpc, buf>>

Commit ==
  /\ wpc = "storing" /\ SeqStored /\ DataStored
  /\ committed' = appended
  /\ wpc' = "idle"
  /\ UNCHANGED <<appended, durableView, logSeq, logData, window, cursorVars,
                 walVars, faultVars, mainVars, durable, overwrites, tpc, buf>>

OnMd == TakeTick \/ StoreSeq \/ StoreData \/ Commit

-----------------------------------------------------------------------------
(* StorageTailer::run.                                                     *)

\* The loop condition; committed_seq counts only once stop() was called.
ExitWhenStopped == ~running         \* mutant: what is left is not drained
Exits == ~running /\ readSeq >= committed

LoopCondition ==
  /\ tpc = "loop"
  /\ tpc' = IF Exits THEN "exited" ELSE "load"
  /\ UNCHANGED <<writerVars, cursorVars, walVars, faultVars, mainVars,
                 durable, overwrites, buf>>

\* publish_durable() when nothing is buffered.
FrozenWhenIdle == durable           \* mutant: durable_seq moves in flush() only
IdleDurable == readSeq

LoadEnd ==
  /\ tpc = "load"
  /\ end' = committed
  /\ IF readSeq < committed
     THEN tpc' = "check" /\ UNCHANGED <<off, durable>>
     ELSE IF buf # <<>>
          THEN tpc' = "flush" /\ off' = 0 /\ UNCHANGED durable
          ELSE tpc' = "loop" /\ durable' = IdleDurable /\ UNCHANGED off
  /\ UNCHANGED <<writerVars, readSeq, copy, statRead, skipped, damaged, fdOpen,
                 rowsInSegment, segment, files, faultVars, mainVars, overwrites, buf>>

\* The next record, or the end of the batch, where read_seq is published.
Onward(p) ==
  IF p < end THEN tpc' = "check" /\ UNCHANGED statRead
             ELSE tpc' = "loop" /\ statRead' = p

\* The slot names another record: this one is lost.
SilentSkip == UNCHANGED overwrites  \* mutant
CountSkip == overwrites' = overwrites + 1

Skip ==
  /\ readSeq' = readSeq + 1
  /\ skipped' = skipped \cup {readSeq}
  /\ CountSkip
  /\ Onward(readSeq + 1)
  /\ UNCHANGED <<writerVars, end, copy, damaged, walVars, faultVars, mainVars,
                 durable, buf>>

NamesRecord == logSeq[SlotOf(readSeq)] = readSeq

CheckIdentity ==
  /\ tpc = "check"
  /\ \/ ~NamesRecord /\ Skip
     \/ /\ NamesRecord
        /\ tpc' = "copy"
        /\ UNCHANGED <<writerVars, cursorVars, walVars, faultVars, mainVars,
                       durable, overwrites, buf>>

CopyRecord ==
  /\ tpc = "copy"
  /\ copy' = logData[SlotOf(readSeq)]
  /\ tpc' = "recheck"
  /\ UNCHANGED <<writerVars, readSeq, end, statRead, skipped, damaged, walVars,
                 faultVars, mainVars, durable, overwrites, buf>>

\* Keep a record of the trading window, and flush a full buffer.
StillNamed == NamesRecord

KeepRecord ==
  /\ readSeq' = readSeq + 1
  /\ buf' = IF copy \in window THEN Append(buf, Row(readSeq, copy)) ELSE buf
  /\ damaged' = IF copy = readSeq THEN damaged ELSE damaged \cup {readSeq}
  /\ IF Len(buf') >= FlushRows
     THEN tpc' = "flush" /\ off' = 0 /\ UNCHANGED statRead
     ELSE Onward(readSeq + 1) /\ UNCHANGED off
  /\ UNCHANGED <<writerVars, end, copy, skipped, fdOpen, rowsInSegment, segment, files,
                 faultVars, mainVars, durable, overwrites>>

Recheck ==
  /\ tpc = "recheck"
  /\ \/ ~StillNamed /\ Skip
     \/ StillNamed /\ KeepRecord

-----------------------------------------------------------------------------
(* flush(), called by run() and, after it, by stop().                      *)

Current == segment - 1   \* the number of the open segment
RowsLeft == SubSeq(buf, off + 1, Len(buf))

AppendRows(rows) ==
  files' = [files EXCEPT ![Current].rows = @ \o rows]
SyncFile ==
  files' = [files EXCEPT ![Current].synced = Len(files[Current].rows)]

NeedsSegment == tpc = "flush" /\ ~fdOpen

OpenSegment ==
  /\ NeedsSegment
  /\ files' = [i \in DOMAIN files \cup {segment} |->
                 IF i = segment THEN [rows |-> <<>>, synced |-> 0] ELSE files[i]]
  /\ segment' = segment + 1
  /\ rowsInSegment' = 0
  /\ fdOpen' = TRUE
  /\ UNCHANGED <<writerVars, cursorVars, off, faultVars, mainVars, durable,
                 overwrites, tpc, buf>>

\* close_segment() and then, as fd_ is -1, open_segment().
SegmentFull == rowsInSegment >= SegmentRows

Rotates == tpc = "flush" /\ fdOpen /\ off < Len(buf) /\ SegmentFull

CloseUnsynced ==                     \* mutant: nothing is synced at a rotation
  /\ Rotates
  /\ fdOpen' = FALSE
  /\ UNCHANGED <<writerVars, cursorVars, off, rowsInSegment, segment, files,
                 faultVars, mainVars, durable, overwrites, tpc, buf>>
CloseFull ==
  /\ Rotates
  /\ SyncFile
  /\ fdOpen' = FALSE
  /\ UNCHANGED <<writerVars, cursorVars, off, rowsInSegment, segment, faultVars,
                 mainVars, durable, overwrites, tpc, buf>>

Writes == tpc = "flush" /\ fdOpen /\ off < Len(buf) /\ ~SegmentFull

WholeBuffer == RowsLeft              \* mutant: no room is left for in the segment
ChunkRows ==
  LET room == SegmentRows - rowsInSegment
  IN  SubSeq(RowsLeft, 1, IF room < Len(RowsLeft) THEN room ELSE Len(RowsLeft))

WriteRows ==
  /\ Writes
  /\ AppendRows(ChunkRows)
  /\ off' = off + Len(ChunkRows)
  /\ rowsInSegment' = rowsInSegment + Len(ChunkRows)
  /\ UNCHANGED <<writerVars, cursorVars, fdOpen, segment, faultVars, mainVars,
                 durable, overwrites, tpc, buf>>

Syncs == tpc = "flush" /\ fdOpen /\ off = Len(buf)

\* The fsync and what follows it: the caller goes on.
BatchEnd == end                      \* mutant: the whole batch, as in DESIGN_SPEC.md:349
FlushedDurable == readSeq

Sync ==
  /\ Syncs
  /\ SyncFile
  /\ durable' = FlushedDurable
  /\ buf' = <<>>
  /\ IF mpc = "draining"
     THEN tpc' = "exited" /\ UNCHANGED statRead
     ELSE Onward(readSeq)
  /\ UNCHANGED <<writerVars, readSeq, end, copy, skipped, damaged, off, fdOpen,
                 rowsInSegment, segment, faultVars, mainVars, overwrites>>

\* What a failed call leaves behind: no segment, a closed one of which the last
\* rows may not be on disk, or a part of the rows and of one row more.
WreckOpen ==
  /\ NeedsSegment
  /\ segment' = segment + 1
  /\ UNCHANGED <<files, fdOpen>>

WreckClose ==
  /\ Rotates
  /\ SyncFile \/ UNCHANGED files
  /\ fdOpen' = FALSE
  /\ UNCHANGED segment

WreckWrite ==
  /\ Writes
  /\ \E n \in 0 .. Len(ChunkRows) - 1, torn \in {<<>>, <<TornRow>>} :
       AppendRows(SubSeq(ChunkRows, 1, n) \o torn)
  /\ UNCHANGED <<fdOpen, segment>>

WreckSync == Syncs /\ UNCHANGED <<files, fdOpen, segment>>

\* record_fault(): the loop is left, whoever called.
KeepConsuming ==                     \* mutant: the loop goes on, as in v2_opus
  /\ tpc' = "loop"
  /\ faulted' = TRUE
  /\ faults' = faults + 1
FailClosed ==
  /\ tpc' = "exited"
  /\ faulted' = TRUE
  /\ faults' = faults + 1

FlushFails ==
  /\ WreckOpen \/ WreckClose \/ WreckWrite \/ WreckSync
  /\ FailClosed
  /\ UNCHANGED <<writerVars, cursorVars, off, rowsInSegment, mainVars, durable,
                 overwrites, buf>>

Flush == OpenSegment \/ CloseFull \/ WriteRows \/ Sync \/ FlushFails

Tailer ==
  LoopCondition \/ LoadEnd \/ CheckIdentity \/ CopyRecord \/ Recheck \/ Flush
-----------------------------------------------------------------------------
(* DemoMd::stop and StorageTailer::stop.                                   *)

ClearRunning == running' = FALSE

StopBegin ==
  /\ mpc = "up"
  /\ IngestOutlivesStop \/ wpc = "idle"
  /\ ClearRunning
  /\ mpc' = "joining"
  /\ UNCHANGED <<writerVars, cursorVars, walVars, faultVars, started, durable,
                 overwrites, tpc, buf>>

JoinOnly ==                          \* mutant: what is buffered is not flushed
  /\ mpc = "joining" /\ tpc = "exited"
  /\ mpc' = "draining"
  /\ UNCHANGED <<writerVars, cursorVars, walVars, faultVars, running, started,
                 durable, overwrites, tpc, buf>>

\* The thread has ended; flush() is entered unless it ended with a fault.
Join ==
  /\ mpc = "joining" /\ tpc = "exited"
  /\ IF faulted
     THEN mpc' = "closing" /\ UNCHANGED <<tpc, off>>
     ELSE /\ mpc' = "draining"
          /\ IF buf = <<>> THEN UNCHANGED <<tpc, off>> ELSE tpc' = "flush" /\ off' = 0
  /\ UNCHANGED <<writerVars, cursorVars, fdOpen, rowsInSegment, segment, files,
                 faultVars, running, started, durable, overwrites, buf>>

\* The final flush() is over: publish_durable() if it went well.
DrainEnd ==
  /\ mpc = "draining" /\ tpc = "exited"
  /\ durable' = IF faulted THEN durable ELSE readSeq
  /\ mpc' = "closing"
  /\ UNCHANGED <<writerVars, cursorVars, walVars, faultVars, running, started,
                 overwrites, tpc, buf>>

\* close_segment(), whose failure is a fault unless there was one before.
CloseLast ==
  /\ mpc = "closing"
  /\ \/ ~fdOpen /\ UNCHANGED <<files, faultVars>>
     \/ fdOpen /\ SyncFile /\ UNCHANGED faultVars
     \/ /\ fdOpen /\ (SyncFile \/ UNCHANGED files)
        /\ faulted' = TRUE
        /\ faults' = IF faulted THEN faults ELSE faults + 1
  /\ fdOpen' = FALSE
  /\ mpc' = "down"
  /\ started' = FALSE
  /\ UNCHANGED <<writerVars, cursorVars, off, rowsInSegment, segment, running,
                 durable, overwrites, tpc, buf>>

Stopping == Join \/ DrainEnd \/ CloseLast

-----------------------------------------------------------------------------
\* DemoMd::start has created the shared memory and started the thread.
Init ==
  /\ appended = 0 /\ durableView = 0 /\ wpc = "idle" /\ committed = 0
  /\ logSeq = [s \in Slots |-> 0]
  /\ logData = [s \in Slots |-> Zeroed]
  /\ window = {}
  /\ statRead = 0 /\ durable = 0 /\ overwrites = 0 /\ faults = 0
  /\ tpc = "loop" /\ readSeq = 0 /\ end = 0 /\ copy = Zeroed
  /\ buf = <<>> /\ off = 0
  /\ fdOpen = FALSE /\ rowsInSegment = 0 /\ segment = 0 /\ faulted = FALSE
  /\ running = TRUE /\ mpc = "up" /\ started = TRUE
  /\ files = <<>>
  /\ skipped = {} /\ damaged = {}

Next == OnMd \/ Tailer \/ StopBegin \/ Stopping

Spec == Init /\ [][Next]_vars

\* The thread is scheduled, a tick that was taken is committed, and a stop()
\* that was called goes on; ticks and the call of stop() come from outside.
FairSpec ==
  /\ Spec
  /\ WF_vars(Tailer)
  /\ WF_vars(StoreSeq \/ StoreData \/ Commit)
  /\ WF_vars(Stopping)

-----------------------------------------------------------------------------
(* What the pipeline promises.                                             *)

RowsOf(i) == 1 .. Len(files[i].rows)
RowAt(i, k) == files[i].rows[k]

\* In the segments this tailer has opened: a row under that global_seq, and the record
\* itself, global_seq and rest, in a part that an fsync has covered.
Written(p) ==
  \E i \in DOMAIN files : i < segment /\ \E k \in RowsOf(i) : RowAt(i, k).seq = p
OnDisk(p) ==
  \E i \in DOMAIN files :
    /\ i < segment
    /\ \E k \in RowsOf(i) : k <= files[i].synced /\ RowAt(i, k) = Row(p, p)
Buffered(p) == \E k \in 1 .. Len(buf) : buf[k] = Row(p, p)

\* Records read and lost to a lap of the log: found overwritten, or overwritten while
\* they were copied, which the recheck misses when the rest is visible before the
\* global_seq.  What is kept of those is a row of two records, or none.
Lost == skipped \cup damaged

\* Every variable keeps its type, the cursors their order, and a fault is
\* counted once (shm_layout.h:87: wal_faults is non-zero iff WAL IO failed).
TypeOK ==
  /\ appended \in 0 .. MaxTicks
  /\ committed \in 0 .. appended
  /\ readSeq \in 0 .. committed
  /\ durable \in 0 .. readSeq
  /\ statRead \in 0 .. readSeq
  /\ durableView \in 0 .. appended
  /\ end \in 0 .. committed
  /\ wpc \in {"idle", "storing"}
  /\ logSeq \in [Slots -> 0 .. MaxTicks]
  /\ logData \in [Slots -> Zeroed .. MaxTicks]
  /\ window \subseteq 0 .. appended - 1
  /\ overwrites \in Nat
  /\ faults = IF faulted THEN 1 ELSE 0
  /\ tpc \in {"loop", "load", "check", "copy", "recheck", "flush", "exited"}
  /\ copy \in Zeroed .. MaxTicks
  /\ Len(buf) <= FlushRows /\ off \in 0 .. FlushRows
  /\ {fdOpen, running, started, faulted} \subseteq BOOLEAN
  /\ rowsInSegment \in 0 .. SegmentRows
  /\ DOMAIN files \subseteq Nat
  /\ mpc \in {"up", "joining", "draining", "closing", "down"}
  /\ skipped \subseteq 0 .. readSeq - 1 /\ damaged \subseteq 0 .. readSeq - 1

\* Below durable_seq every record of the trading window is, whole, in a part of the WAL
\* that an fsync has covered, or a lap of the log has lost it (storage_tailer.cpp:138).
DurableIsOnDisk ==
  \A p \in window : p < durable => OnDisk(p) \/ p \in Lost

\* The segments in order hold each record once, by increasing global_seq; only
\* the very last row may be torn, and only after a fault; no segment is longer
\* than kWalSegmentRows and none but the newest is shorter.
WalIsOrdered ==
  /\ \A i, j \in DOMAIN files : \A k \in RowsOf(i), l \in RowsOf(j) :
       i < j \/ (i = j /\ k < l) =>
         /\ RowAt(i, k) # TornRow
         /\ RowAt(i, k).seq < RowAt(j, l).seq \/ (RowAt(j, l) = TornRow /\ faulted)
  /\ \A i \in DOMAIN files :
       /\ Len(files[i].rows) <= SegmentRows
       /\ i + 1 \in DOMAIN files => Len(files[i].rows) = SegmentRows

\* A row of the WAL is one record: its global_seq and the rest of it were appended by
\* the same tick.  storage_tailer.cpp:99-102 says so of the recheck; it takes stores that
\* become visible in program order, which nothing in demo.cpp:103-107 ensures on arm64.
PersistedIsWhole ==
  \A i \in DOMAIN files : \A k \in RowsOf(i) :
    RowAt(i, k) # TornRow => RowAt(i, k).of = RowAt(i, k).seq

\* The guard of on_md works with a stale view of durable_seq, and still counts
\* every tick that overwrites a record before it is on disk.
OverwritesAreCounted == appended - durable <= LogCapacity + overwrites

\* After a WAL failure nothing more is read or written, and durable_seq is
\* frozen for good, stop() included (storage_tailer.h:14-16).
FailsClosed ==
  [][faulted =>
       /\ UNCHANGED <<durable, readSeq>>
       /\ DOMAIN files' = DOMAIN files
       /\ \A i \in DOMAIN files : files'[i].rows = files[i].rows]_vars

\* When stop() has returned without a fault, every tick on_md took is behind
\* durable_seq and on disk if it is of the trading window (tests.cpp:85-88).
AllPersisted ==
  mpc = "down" /\ ~faulted =>
    /\ durable = committed /\ committed = appended
    /\ \A p \in window : OnDisk(p) \/ p \in Lost

\* With a feed that goes on while stop() runs, and may commit ticks nobody reads, the
\* WAL still ends at a clean cut: when stop() has returned without a fault, all that
\* was read is behind durable_seq and on disk, and nothing beyond it.
CutIsClean ==
  mpc = "down" /\ ~faulted =>
    /\ durable = readSeq /\ buf = <<>>
    /\ \A p \in window : p < readSeq => OnDisk(p) \/ p \in Lost
    /\ \A p \in window : Written(p) => p < durable

\* A committed tick is behind durable_seq some day, off the trading window, too,
\* and though no batch ever fills up; else the WAL has failed.
EventuallyDurable ==
  \A n \in 1 .. MaxTicks : committed >= n ~> durable >= n \/ faulted

-----------------------------------------------------------------------------
(* The inductive invariant behind these promises.                          *)

RowSet == [seq : -1 .. MaxTicks, of : -1 .. MaxTicks]
File == [rows : Seq(RowSet), synced : Nat]

\* The buffer and the segments; the newest is as long as rows_in_segment_ says
\* until a write has failed.
Shape ==
  /\ buf \in Seq(RowSet)
  /\ segment \in Nat
  /\ files \in [DOMAIN files -> File]
  /\ \A i \in DOMAIN files :
       files[i].synced <= Len(files[i].rows) /\ Len(files[i].rows) <= SegmentRows
  /\ fdOpen => Current \in DOMAIN files
  /\ fdOpen /\ ~faulted => rowsInSegment = Len(files[Current].rows)

\* Where the writer, the tailer and stop() are, relative to one another.
Control ==
  /\ wpc = "storing" => committed < appended
  /\ faulted => tpc = "exited"
  /\ mpc = "draining" => tpc \in {"flush", "exited"}
  /\ mpc = "draining" /\ tpc = "exited" /\ ~faulted => buf = <<>>
  /\ mpc \in {"closing", "down"} => tpc = "exited"
  /\ tpc \in {"check", "copy", "recheck"} => readSeq < end
  /\ tpc \notin {"flush", "exited"} => Len(buf) < FlushRows
  /\ tpc = "flush" => off <= Len(buf)

\* The log begins at record first: 0 unless start() was called again on a DemoMd that
\* had handed out global_seqs before.  on_md's view of durable_seq may then be of the
\* earlier start, and still no overwrite escapes its guard.
Newest(first) == IF committed = 0 THEN first ELSE committed

WriterInv(first) ==
  /\ appended = IF wpc = "idle" THEN Newest(first) ELSE Newest(first) + 1
  /\ first <= Newest(first) /\ window \subseteq first .. appended - 1
  /\ durableView <= first \/ durableView <= durable
  /\ \/ appended - first <= LogCapacity + overwrites
     \/ appended - durable <= LogCapacity + overwrites

\* A committed record is in its slot or was overwritten by a later one.
LogInv(first) ==
  /\ \A s \in Slots : logData[s] < appended /\ (logSeq[s] = 0 \/ logSeq[s] < appended)
  /\ \A p \in first .. committed - 1 : logSeq[SlotOf(p)] >= p /\ logData[SlotOf(p)] >= p

\* So a copy is of the record it was made for, or of one that has overwritten it.
CopyInv(first) == tpc = "recheck" /\ first <= readSeq => readSeq <= copy

\* Rows of the buffer that are written, in a part of the WAL that is synced or
\* will be by the fsync of this flush.
InFile(row) ==
  \E i \in DOMAIN files :
    /\ i < segment
    /\ \E k \in RowsOf(i) :
         /\ RowAt(i, k) = row
         /\ k <= files[i].synced \/ (fdOpen /\ i = Current)

FlushIsInFile == tpc = "flush" => \A k \in 1 .. off : InFile(buf[k])

\* What was read beyond durable_seq is buffered.
ReadIsKept ==
  \A p \in window : durable <= p /\ p < readSeq => Buffered(p) \/ p \in Lost

KeptInv == ReadIsKept /\ DurableIsOnDisk /\ FlushIsInFile

CursorInv == TypeOK /\ Shape /\ Control

LogFrom(first) ==
  CursorInv /\ WriterInv(first) /\ LogInv(first) /\ CopyInv(first) /\ KeptInv

TailerInv == LogFrom(0)

-----------------------------------------------------------------------------
(* The pipeline implements DurableLog where on_md and stop() are called by *)
(* one thread.                                                             *)

StopPhase ==
  CASE mpc = "up" -> "open"
    [] mpc = "down" -> "closed"
    [] OTHER -> "closing"

Promise == INSTANCE DurableLog WITH
  accepted <- appended,
  wanted <- window,
  claimed <- durable,
  disk <- {p \in window : OnDisk(p)},
  lost <- Lost,
  failed <- faulted,
  phase <- StopPhase

\* Every behaviour of log, tailer and stop() is one of DurableLog, fairness
\* included: durable_seq is a claim that is always true and never taken back, what
\* it covers is never lost afterwards, and only a lap of the log loses a record.
ImplementsDurableLog == Promise!FairSpec
=============================================================================
