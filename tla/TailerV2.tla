------------------------------ MODULE TailerV2 ------------------------------
(***************************************************************************)
(* The persistence pipeline of v2_opus: MdStore::on_md appends to the      *)
(* circular day log, the Tailer thread copies records of the trading       *)
(* window out of it and writes them to WAL segments.  Unlike the tailer of *)
(* StorageTailer it copies straight from shared memory, it goes on after a *)
(* failed flush() and tries the whole buffer again, it ignores the failure *)
(* of the fsync in close_segment(), and only flush() moves durable_seq.    *)
(*                                                                         *)
(* A record is its global_seq.  A slot of the day log has two locations,   *)
(* the global_seq and the rest of the record, stored in any order.  A row  *)
(* of a file is dirty until an fsync has put it on disk; an fsync that     *)
(* fails may give its dirty rows up, as Linux does.  Open, write and fsync *)
(* may fail MaxFailures times.                                             *)
(***************************************************************************)
EXTENDS Integers, SequencesExt

CONSTANTS LogCapacity,  \* kLogCapacity, records in the day log
          FlushRows,    \* kWalFlushRows, rows that trigger a flush
          SegmentRows,  \* kWalSegmentRows, rows of a full segment
          StatsStride,  \* kStatsStride, ticks between two looks at durable_seq
          MaxTicks,     \* bound: ticks handled in a behaviour
          MaxFailures   \* bound: calls that fail in a behaviour

ASSUME TailerV2Assumption ==
  /\ {LogCapacity, FlushRows, SegmentRows, StatsStride} \subseteq Nat \ {0}
  /\ {MaxTicks, MaxFailures} \subseteq Nat

VARIABLES appended,       \* global_seq_, ticks on_md has taken
          durableView,    \* durable_view_, its copy of durable_seq
          wpc,            \* whether on_md is storing a record
          logSeq,         \* LogRecord.global_seq of each slot
          logData,        \* the record the rest of each slot belongs to
          window,         \* the records flagged kFlagInWindow
          committed,      \* WriterControl.committed_seq
          durable,        \* TailerStats.durable_seq
          overwrites,     \* TailerStats.log_overwrite_count
          tpc,            \* where the tailer is in run() and flush()
          readSeq,        \* read_seq_
          end,            \* the committed_seq its batch ends at
          buf,            \* buf_
          off,            \* rows of buf_ this flush() has written
          fdOpen,         \* whether fd_ is open
          rowsInSegment,
          segment,        \* segment_, the number of the next segment
          files,          \* the WAL directory: the segments by number
          running,        \* running_
          mpc,            \* where MdStore::stop is
          failures,       \* calls that have failed (not in the code)
          lost            \* the records a rotation has given up or that were
                          \* written behind a fragment (not in the code)

writerVars == <<appended, durableView, wpc, logSeq, logData, window, committed>>
walVars == <<fdOpen, rowsInSegment, segment, files>>
mainVars == <<running, mpc>>
faultVars == <<failures, lost>>
vars == <<writerVars, walVars, mainVars, faultVars,
          durable, overwrites, tpc, readSeq, end, buf, off>>

Slots == 0 .. LogCapacity - 1
SlotOf(p) == p % LogCapacity
Zeroed == -1    \* the rest of a slot nobody has written

Row(p, d) == [seq |-> p, of |-> d]
TornRow == Row(-1, -1)  \* a fragment left by a write that failed half-way
NewFile == [rows |-> <<>>, dirty |-> {}, safe |-> {}]

-----------------------------------------------------------------------------
(* MdStore::on_md, for a tick that resolve() has found a ring for.         *)

View(p) == IF p % StatsStride = 0 THEN durable ELSE durableView

GuardTooLate(p) == p - View(p) > LogCapacity  \* mutant: one record late
GuardTrips(p) == p - View(p) >= LogCapacity

TakeTick ==
  /\ mpc = "up" /\ wpc = "idle" /\ appended < MaxTicks
  /\ appended' = appended + 1
  /\ window' \in {window, window \cup {appended}}
  /\ durableView' = View(appended)
  /\ overwrites' = overwrites + IF GuardTrips(appended) THEN 1 ELSE 0
  /\ wpc' = "storing"
  /\ UNCHANGED <<logSeq, logData, committed, walVars, mainVars, faultVars,
                 durable, tpc, readSeq, end, buf, off>>

\* The plain stores of the record, visible in either order ...
StoreRecord ==
  /\ wpc = "storing"
  /\ LET p == appended - 1 IN
       \/ /\ logSeq[SlotOf(p)] # p
          /\ logSeq' = [logSeq EXCEPT ![SlotOf(p)] = p] /\ UNCHANGED logData
       \/ /\ logData[SlotOf(p)] # p
          /\ logData' = [logData EXCEPT ![SlotOf(p)] = p] /\ UNCHANGED logSeq
  /\ UNCHANGED <<appended, durableView, wpc, window, committed, walVars, mainVars,
                 faultVars, durable, overwrites, tpc, readSeq, end, buf, off>>

\* ... and both before the release store of committed_seq.
Commit ==
  /\ wpc = "storing"
  /\ logSeq[SlotOf(appended - 1)] = appended - 1
  /\ logData[SlotOf(appended - 1)] = appended - 1
  /\ committed' = appended
  /\ wpc' = "idle"
  /\ UNCHANGED <<appended, durableView, logSeq, logData, window, walVars, mainVars,
                 faultVars, durable, overwrites, tpc, readSeq, end, buf, off>>

OnMd == TakeTick \/ StoreRecord \/ Commit

-----------------------------------------------------------------------------
(* Tailer::run.                                                            *)

ExitWhenStopped == ~running         \* mutant: what is left is not drained
Exits == ~running /\ readSeq >= committed

LoopCondition ==
  /\ tpc = "loop"
  /\ tpc' = IF Exits THEN "exited" ELSE "load"
  /\ UNCHANGED <<writerVars, walVars, mainVars, faultVars,
                 durable, overwrites, readSeq, end, buf, off>>

\* With nothing to read, a partial tail is flushed.
OnlyFullBatches == FALSE            \* mutant: the tail waits for a full batch
HasTail == buf # <<>>

LoadEnd ==
  /\ tpc = "load"
  /\ end' = committed
  /\ tpc' = IF readSeq < committed THEN "check"
            ELSE IF HasTail THEN "flush" ELSE "loop"
  /\ UNCHANGED <<writerVars, walVars, mainVars, faultVars,
                 durable, overwrites, readSeq, buf, off>>

\* The next record, or the end of the batch; a full buffer is flushed first, also one
\* that an earlier flush() has failed to write.
Onward(p) == IF p < end THEN "check" ELSE "loop"
FlushIfFull(rows, p) == IF Len(rows) >= FlushRows THEN "flush" ELSE Onward(p)

\* The slot names another record: this one is lost.
CheckIdentity ==
  /\ tpc = "check"
  /\ IF logSeq[SlotOf(readSeq)] = readSeq
     THEN tpc' = "flags" /\ UNCHANGED <<readSeq, overwrites>>
     ELSE /\ readSeq' = readSeq + 1
          /\ overwrites' = overwrites + 1
          /\ tpc' = Onward(readSeq + 1)
  /\ UNCHANGED <<writerVars, walVars, mainVars, faultVars, durable, end, buf, off>>

\* A record off the window is passed over.
CheckWindow ==
  /\ tpc = "flags"
  /\ IF logData[SlotOf(readSeq)] \in window
     THEN tpc' = "copy" /\ UNCHANGED readSeq
     ELSE /\ readSeq' = readSeq + 1
          /\ tpc' = FlushIfFull(buf, readSeq + 1)
  /\ UNCHANGED <<writerVars, walVars, mainVars, faultVars,
                 durable, overwrites, end, buf, off>>

\* The copy is of what is in the slot by now, its global_seq included.
CopyRecord ==
  /\ tpc = "copy"
  /\ buf' = Append(buf, Row(logSeq[SlotOf(readSeq)], logData[SlotOf(readSeq)]))
  /\ readSeq' = readSeq + 1
  /\ tpc' = FlushIfFull(buf', readSeq + 1)
  /\ UNCHANGED <<writerVars, walVars, mainVars, faultVars, durable, overwrites, end, off>>

-----------------------------------------------------------------------------
(* flush(), called by run() and, after it, by stop().  Its result is       *)
(* ignored: both go on.                                                    *)

Resume == tpc' = IF mpc \in {"draining", "dropping"} THEN "exited" ELSE Onward(readSeq)

Current == segment - 1   \* the number of the open segment
RowsLeft == SubSeq(buf, off + 1, Len(buf))

AppendRows(rows) ==
  files' = [files EXCEPT
    ![Current].dirty = @ \cup {Len(files[Current].rows) + k : k \in 1 .. Len(rows)},
    ![Current].rows = @ \o rows]
SyncFile ==
  files' = [files EXCEPT ![Current].safe = @ \cup files[Current].dirty,
                         ![Current].dirty = {}]
GiveUpFile == files' = [files EXCEPT ![Current].dirty = {}]

SeqsAt(i, places) == {files[i].rows[k].seq : k \in places}

OpenSegment ==
  /\ tpc = "flush" /\ ~fdOpen
  /\ files' = [i \in DOMAIN files \cup {segment} |->
                 IF i = segment THEN NewFile ELSE files[i]]
  /\ segment' = segment + 1
  /\ rowsInSegment' = 0
  /\ fdOpen' = TRUE
  /\ UNCHANGED <<writerVars, mainVars, faultVars,
                 durable, overwrites, tpc, readSeq, end, buf, off>>

SegmentFull == rowsInSegment >= SegmentRows
Rotates == tpc = "flush" /\ fdOpen /\ off < Len(buf) /\ SegmentFull

\* close_segment(): whether its fsync went well is not looked at.
CloseFull ==
  /\ Rotates
  /\ \/ SyncFile /\ UNCHANGED faultVars
     \/ /\ failures < MaxFailures /\ failures' = failures + 1
        /\ GiveUpFile
        /\ lost' = lost \cup SeqsAt(Current, files[Current].dirty)
  /\ fdOpen' = FALSE
  /\ UNCHANGED <<writerVars, rowsInSegment, segment, mainVars,
                 durable, overwrites, tpc, readSeq, end, buf, off>>

Writes == tpc = "flush" /\ fdOpen /\ off < Len(buf) /\ ~SegmentFull

WholeBuffer == RowsLeft             \* mutant: the room in the segment is not looked at
ChunkRows ==
  LET room == SegmentRows - rowsInSegment
  IN  SubSeq(RowsLeft, 1, IF room < Len(RowsLeft) THEN room ELSE Len(RowsLeft))

\* A row behind a fragment does not begin at a multiple of the record size.
Aligned(i, k) == \A j \in 1 .. k : files[i].rows[j] # TornRow

WriteRows ==
  /\ Writes
  /\ AppendRows(ChunkRows)
  /\ lost' = IF Aligned(Current, Len(files[Current].rows)) THEN lost
             ELSE lost \cup {ChunkRows[k].seq : k \in 1 .. Len(ChunkRows)}
  /\ off' = off + Len(ChunkRows)
  /\ rowsInSegment' = rowsInSegment + Len(ChunkRows)
  /\ UNCHANGED <<writerVars, fdOpen, segment, mainVars, failures,
                 durable, overwrites, tpc, readSeq, end, buf>>

Syncs == tpc = "flush" /\ fdOpen /\ off = Len(buf)

BatchEnd == end                     \* mutant: the whole batch is called durable
FlushedDurable == readSeq

Sync ==
  /\ Syncs
  /\ SyncFile
  /\ durable' = FlushedDurable
  /\ buf' = <<>> /\ off' = 0
  /\ Resume
  /\ UNCHANGED <<writerVars, fdOpen, rowsInSegment, segment, mainVars, faultVars,
                 overwrites, readSeq, end>>

\* What a call that fails leaves behind: no segment and its number used up, a part
\* of the rows and of one row more, dirty rows given up or still to be synced.
OpenFails ==
  /\ tpc = "flush" /\ ~fdOpen
  /\ segment' = segment + 1
  /\ UNCHANGED files

WriteFails ==
  /\ Writes
  /\ \E n \in 0 .. Len(ChunkRows) - 1, torn \in {<<>>, <<TornRow>>} :
       AppendRows(SubSeq(ChunkRows, 1, n) \o torn)
  /\ UNCHANGED segment

SyncFails ==
  /\ Syncs
  /\ GiveUpFile \/ UNCHANGED files
  /\ UNCHANGED segment

\* The buffer is kept; the next flush() begins with its first row again.
DropBuffer == <<>>                  \* mutant: a buffer that failed is dropped
KeptBuffer == buf

FlushFails ==
  /\ failures < MaxFailures /\ failures' = failures + 1
  /\ OpenFails \/ WriteFails \/ SyncFails
  /\ off' = 0
  /\ buf' = KeptBuffer
  /\ Resume
  /\ UNCHANGED <<writerVars, fdOpen, rowsInSegment, mainVars, lost,
                 durable, overwrites, readSeq, end>>

Flush == OpenSegment \/ CloseFull \/ WriteRows \/ Sync \/ FlushFails

Tailer ==
  LoopCondition \/ LoadEnd \/ CheckIdentity \/ CheckWindow \/ CopyRecord \/ Flush

-----------------------------------------------------------------------------
(* MdStore::stop, Tailer::stop and ~Tailer, on the thread that calls       *)
(* on_md.                                                                  *)

KeepRunning == UNCHANGED running    \* mutant: running_ cleared after the join
ClearRunning == running' = FALSE

StopBegin ==
  /\ mpc = "up" /\ wpc = "idle"
  /\ ClearRunning
  /\ mpc' = "joining"
  /\ UNCHANGED <<writerVars, walVars, faultVars,
                 durable, overwrites, tpc, readSeq, end, buf, off>>

\* flush(), if there is anything to flush.
FlushRest == tpc' = IF buf = <<>> THEN "exited" ELSE "flush"

Join ==
  /\ mpc = "joining" /\ tpc = "exited"
  /\ mpc' = "draining"
  /\ FlushRest
  /\ UNCHANGED <<writerVars, walVars, running, faultVars,
                 durable, overwrites, readSeq, end, buf, off>>

\* close_segment(), as in CloseFull; what it gives up is still in the buffer.  Then
\* tailer_.reset() runs ~Tailer, which calls Tailer::stop() again: nobody to join, but a
\* buffer that was kept is flushed, into a new segment, and that one is closed.
CloseLast ==
  /\ mpc \in {"draining", "dropping"} /\ tpc = "exited"
  /\ \/ ~fdOpen /\ UNCHANGED <<files, failures>>
     \/ fdOpen /\ SyncFile /\ UNCHANGED failures
     \/ /\ fdOpen /\ GiveUpFile
        /\ failures < MaxFailures /\ failures' = failures + 1
  /\ fdOpen' = FALSE
  /\ IF mpc = "draining" THEN mpc' = "dropping" /\ FlushRest
     ELSE mpc' = "down" /\ UNCHANGED tpc
  /\ UNCHANGED <<writerVars, rowsInSegment, segment, running, lost,
                 durable, overwrites, readSeq, end, buf, off>>

Stopping == Join \/ CloseLast

-----------------------------------------------------------------------------
Init ==
  /\ appended = 0 /\ durableView = 0 /\ wpc = "idle" /\ committed = 0
  /\ logSeq = [s \in Slots |-> 0]
  /\ logData = [s \in Slots |-> Zeroed]
  /\ window = {}
  /\ durable = 0 /\ overwrites = 0
  /\ tpc = "loop" /\ readSeq = 0 /\ end = 0 /\ buf = <<>> /\ off = 0
  /\ fdOpen = FALSE /\ rowsInSegment = 0 /\ segment = 0 /\ files = <<>>
  /\ running = TRUE /\ mpc = "up"
  /\ failures = 0 /\ lost = {}

Next == OnMd \/ Tailer \/ StopBegin \/ Stopping

Spec == Init /\ [][Next]_vars

\* The thread is scheduled, a tick that was taken is committed, a stop() that was
\* called goes on.
FairSpec ==
  /\ Spec
  /\ WF_vars(Tailer)
  /\ WF_vars(StoreRecord \/ Commit)
  /\ WF_vars(Stopping)

-----------------------------------------------------------------------------
(* What the pipeline promises.                                             *)

RowsOf(i) == 1 .. Len(files[i].rows)
RowAt(i, k) == files[i].rows[k]

OnDisk(p) ==
  \E i \in DOMAIN files : \E k \in files[i].safe : RowAt(i, k).seq = p /\ Aligned(i, k)

\* All rows of the WAL, segment after segment.
WalRows ==
  FlattenSeq([i \in 1 .. segment |->
                IF i - 1 \in DOMAIN files THEN files[i - 1].rows ELSE <<>>])

RecordsBelow(n) ==
  FlattenSeq([k \in 1 .. n |-> IF k - 1 \in window THEN <<Row(k - 1, k - 1)>> ELSE <<>>])

\* Every variable keeps its type, and the cursors their order.
TypeOK ==
  /\ appended \in 0 .. MaxTicks
  /\ committed \in 0 .. appended
  /\ readSeq \in 0 .. committed
  /\ durable \in 0 .. readSeq
  /\ durableView \in 0 .. durable
  /\ end \in 0 .. committed
  /\ wpc \in {"idle", "storing"}
  /\ logSeq \in [Slots -> 0 .. MaxTicks]
  /\ logData \in [Slots -> Zeroed .. MaxTicks]
  /\ window \subseteq 0 .. appended - 1
  /\ overwrites \in Nat
  /\ tpc \in {"loop", "load", "check", "flags", "copy", "flush", "exited"}
  /\ off \in 0 .. Len(buf)
  /\ {fdOpen, running} \subseteq BOOLEAN
  /\ fdOpen => Current \in DOMAIN files
  /\ rowsInSegment \in 0 .. SegmentRows
  /\ segment \in Nat /\ DOMAIN files \subseteq 0 .. segment - 1
  /\ \A i \in DOMAIN files :
       files[i].safe \cup files[i].dirty \subseteq RowsOf(i)
       /\ files[i].safe \cap files[i].dirty = {}
  /\ mpc \in {"up", "joining", "draining", "dropping", "down"}
  /\ failures \in 0 .. MaxFailures /\ lost \subseteq Int

\* As long as log_overwrite_count is 0, no row of the WAL or of the buffer mixes two
\* records, in whatever order the stores of on_md become visible: the guard of
\* on_md, though its view of durable_seq is stale, counts every tick that may reach
\* a slot the tailer has yet to copy from (it looks at no identity afterwards).
UncountedIsWhole ==
  overwrites = 0 =>
    /\ \A k \in 1 .. Len(buf) : buf[k].of = buf[k].seq
    /\ \A i \in DOMAIN files : \A k \in RowsOf(i) :
         RowAt(i, k).of = RowAt(i, k).seq

\* Without failures and overwrites, the rows of the segments and those yet to be
\* written are at every moment the records of the window that were read, each once
\* and in order; no segment is too long, and none but the newest is short
\* (v2_opus/test.cpp:88).
CleanRunIsExact ==
  failures = 0 /\ overwrites = 0 =>
    /\ WalRows \o RowsLeft = RecordsBelow(readSeq)
    /\ \A i \in DOMAIN files :
         /\ Len(files[i].rows) <= SegmentRows
         /\ i + 1 \in DOMAIN files => Len(files[i].rows) = SegmentRows

\* Trying the whole buffer again, by the thread, by stop() and by ~Tailer, makes up for
\* every failure but two: rows that the fsync of a rotation gave up, and rows written
\* behind the fragment of a failed write.  Any other record below durable_seq is on
\* disk where a reader of the segment finds it.
DurableIsLegible ==
  overwrites = 0 => \A p \in window \ lost : p < durable => OnDisk(p)

\* "Durable: every in-window record up to read_seq_ is now on disk"
\* (v2_opus/tailer.cpp:95), whether or not a reader can find it there.
Synced(p) == \E i \in DOMAIN files : \E k \in files[i].safe : RowAt(i, k).seq = p
DurableIsSynced == overwrites = 0 => \A p \in window : p < durable => Synced(p)

\* When stop() has returned, every tick was read, and after one failure, wherever it
\* was, every record of the window is behind durable_seq: a flush() that failed was
\* tried again, by ~Tailer at the latest (durable_seq itself may stay below
\* committed_seq: ticks off the window do not move it).
AllPersisted ==
  mpc = "down" =>
    /\ readSeq = committed /\ committed = appended
    /\ failures <= 1 /\ overwrites = 0 => \A p \in window : p < durable

\* A failure is made up for: a committed record of the window is behind durable_seq
\* some day, though no batch fills up and calls fail MaxFailures times on the way,
\* unless it is overwritten or stop() ends first.
Recovers ==
  \A p \in 0 .. MaxTicks - 1 :
    p \in window /\ p < committed ~> p < durable \/ overwrites > 0 \/ mpc = "down"

\* stop() returns, whatever fails.
StopReturns == mpc = "joining" ~> mpc = "down"
=============================================================================
