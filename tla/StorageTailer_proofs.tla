------------------------ MODULE StorageTailer_proofs ------------------------
(***************************************************************************)
(* Theorems about StorageTailer, and about WalRestart and StartAgain that  *)
(* begin it anew, for every value of their constants.                      *)
(***************************************************************************)
EXTENDS StartAgain, FiniteSetTheorems, TLAPS

\* A record has a slot in the day log.
LEMMA SlotRange ==
  ASSUME NEW p \in Nat
  PROVE  SlotOf(p) \in Slots
  BY TailerAssumption, Z3 DEF SlotOf, Slots

-----------------------------------------------------------------------------
(* on_md keeps the cursors and the shape of the WAL.                       *)

\* A tick that is taken is counted when it may overwrite.
LEMMA TakeTickCursors ==
  ASSUME CursorInv, TakeTick
  PROVE  CursorInv'
  <1> USE TailerAssumption DEF CursorInv, TakeTick, cursorVars, walVars, faultVars, mainVars
  <1>1. View(appended) \in {durable, durableView}
    BY DEF View
  <1>2. TypeOK'
    BY <1>1 DEF TypeOK
  <1>3. Shape'
    BY DEF Shape, Current
  <1>4. Control'
    BY DEF Control, TypeOK
  <1> QED  BY <1>2, <1>3, <1>4

\* The stores of a record and its commit move no cursor of the tailer.
LEMMA StoreCursors ==
  ASSUME CursorInv, StoreSeq \/ StoreData \/ Commit
  PROVE  CursorInv'
  <1> USE TailerAssumption DEF CursorInv, cursorVars, walVars, faultVars, mainVars
  <1>1. TypeOK /\ Shape /\ Control
    OBVIOUS
  <1>2. wpc = "storing" => SlotOf(appended - 1) \in Slots /\ committed < appended
    BY <1>1, SlotRange DEF TypeOK, Control
  <1>3. TypeOK'
    <2>1. CASE StoreSeq  BY <1>1, <1>2, <2>1 DEF TypeOK, StoreSeq
    <2>2. CASE StoreData  BY <1>1, <1>2, <2>2 DEF TypeOK, StoreData, Zeroed
    <2>3. CASE Commit  BY <1>1, <1>2, <2>3 DEF TypeOK, Commit
    <2> QED  BY <2>1, <2>2, <2>3
  <1>4. Shape'
    BY <1>1 DEF Shape, Current, StoreSeq, StoreData, Commit
  <1>5. Control'
    <2>1. CASE StoreSeq  BY <1>1, <2>1 DEF Control, StoreSeq
    <2>2. CASE StoreData  BY <1>1, <2>2 DEF Control, StoreData
    <2>3. CASE Commit  BY <1>1, <1>2, <2>3 DEF Control, TypeOK, Commit
    <2> QED  BY <2>1, <2>2, <2>3
  <1> QED  BY <1>3, <1>4, <1>5

-----------------------------------------------------------------------------
(* So does run().                                                          *)

\* The loop condition.
LEMMA LoopConditionCursors ==
  ASSUME CursorInv, LoopCondition
  PROVE  CursorInv'
  <1> USE TailerAssumption DEF CursorInv, LoopCondition, writerVars, cursorVars, walVars, faultVars, mainVars
  <1>1. TypeOK'  BY DEF TypeOK
  <1>2. Shape'   BY DEF Shape, Current
  <1>3. Control' BY DEF Control
  <1> QED  BY <1>1, <1>2, <1>3

\* The end of a batch, and publish_durable() when there is none.
LEMMA LoadEndCursors ==
  ASSUME CursorInv, LoadEnd
  PROVE  CursorInv'
  <1> USE TailerAssumption DEF CursorInv, LoadEnd, writerVars, faultVars, mainVars, IdleDurable
  <1>1. TypeOK'  BY DEF TypeOK
  <1>2. Shape'   BY DEF Shape, Current
  <1>3. Control' BY DEF Control, TypeOK
  <1> QED  BY <1>1, <1>2, <1>3

\* A record found overwritten.
LEMMA SkipCursors ==
  ASSUME CursorInv, tpc \in {"check", "recheck"}, Skip
  PROVE  CursorInv'
  <1> USE TailerAssumption DEF CursorInv, Skip, CountSkip, Onward, writerVars, walVars, faultVars, mainVars
  <1>1. readSeq < end  BY DEF Control
  <1>2. TypeOK'  BY <1>1 DEF TypeOK
  <1>3. Shape'   BY DEF Shape, Current
  <1>4. Control' BY DEF Control, TypeOK
  <1> QED  BY <1>2, <1>3, <1>4

\* The identity check and the copy.
LEMMA CheckCursors ==
  ASSUME CursorInv, CheckIdentity \/ CopyRecord
  PROVE  CursorInv'
  <1>1. CASE tpc = "check" /\ Skip
    BY <1>1, SkipCursors
  <1>2. CASE ~(tpc = "check" /\ Skip)
    <2> USE TailerAssumption, <1>2 DEF CursorInv, CheckIdentity, CopyRecord, writerVars, cursorVars, walVars, faultVars, mainVars
    <2>1. SlotOf(readSeq) \in Slots  BY SlotRange DEF TypeOK
    <2>2. TypeOK'
      <3>1. CASE CheckIdentity
        <4>1. /\ tpc' = "copy"
              /\ UNCHANGED <<writerVars, cursorVars, walVars, faultVars, mainVars,
                             durable, overwrites, buf>>
          BY <3>1
        <4> HIDE DEF CheckIdentity
        <4> QED  BY <4>1 DEF TypeOK
      <3>2. CASE CopyRecord
        <4>1. copy' \in Zeroed .. MaxTicks  BY <2>1, <3>2 DEF TypeOK
        <4> QED  BY <3>2, <4>1 DEF TypeOK
      <3> QED  BY <3>1, <3>2
    <2>3. Shape'   BY DEF Shape, Current
    <2>4. Control' BY DEF Control
    <2> QED  BY <2>2, <2>3, <2>4
  <1> QED  BY <1>1, <1>2

\* A record kept, or not of the trading window.
LEMMA KeepCursors ==
  ASSUME CursorInv, tpc = "recheck", KeepRecord
  PROVE  CursorInv'
  <1> USE TailerAssumption DEF CursorInv, KeepRecord, Onward, writerVars, faultVars, mainVars
  <1>1. readSeq < end /\ Len(buf) < FlushRows  BY DEF Control
  <1>2. Row(readSeq, copy) \in RowSet  BY DEF Row, RowSet, TypeOK, Zeroed
  <1>3. buf \in Seq(RowSet)  BY DEF Shape
  <1>4. buf' \in Seq(RowSet) /\ Len(buf') \in Len(buf) .. Len(buf) + 1
    BY <1>2, <1>3
  <1>5. TypeOK'  BY <1>1, <1>3, <1>4 DEF TypeOK
  <1>6. Shape'   BY <1>4 DEF Shape, Current
  <1>7. Control' BY <1>1, <1>4 DEF Control, TypeOK
  <1> QED  BY <1>5, <1>6, <1>7

\* The recheck.
LEMMA RecheckCursors ==
  ASSUME CursorInv, Recheck
  PROVE  CursorInv'
  BY SkipCursors, KeepCursors DEF Recheck

-----------------------------------------------------------------------------
(* So do flush(), with or without a failure, and stop().                   *)

\* A chunk fits in the segment, and in what is left of the buffer.
LEMMA ChunkRange ==
  ASSUME CursorInv, Writes
  PROVE  /\ ChunkRows \in Seq(RowSet)
         /\ Len(ChunkRows) \in 1 .. Len(buf) - off
         /\ rowsInSegment + Len(ChunkRows) <= SegmentRows
         /\ \A k \in 1 .. Len(ChunkRows) : ChunkRows[k] = buf[off + k]
  <1> USE TailerAssumption DEF CursorInv, Writes, SegmentFull
  <1>a. /\ buf \in Seq(RowSet) /\ off \in 0 .. FlushRows /\ off < Len(buf)
        /\ rowsInSegment \in 0 .. SegmentRows /\ ~(rowsInSegment >= SegmentRows)
    BY DEF Shape, TypeOK
  <1>1. /\ buf \in Seq(RowSet) /\ off \in Nat /\ off < Len(buf) /\ Len(buf) \in Nat
        /\ rowsInSegment \in Nat /\ rowsInSegment < SegmentRows
    BY <1>a
  <1>2. /\ RowsLeft \in Seq(RowSet) /\ Len(RowsLeft) = Len(buf) - off
        /\ \A k \in 1 .. Len(RowsLeft) : RowsLeft[k] = buf[off + k]
    BY <1>1 DEF RowsLeft
  <1> DEFINE room == SegmentRows - rowsInSegment
             n == IF room < Len(RowsLeft) THEN room ELSE Len(RowsLeft)
  <1>3. n \in 1 .. Len(RowsLeft) /\ n <= SegmentRows - rowsInSegment
    BY <1>1, <1>2
  <1>4. ChunkRows = SubSeq(RowsLeft, 1, n)
    BY DEF ChunkRows
  <1> HIDE DEF n
  <1>5. /\ ChunkRows \in Seq(RowSet) /\ Len(ChunkRows) = n
        /\ \A k \in 1 .. n : ChunkRows[k] = RowsLeft[k]
    BY <1>2, <1>3, <1>4
  <1> HIDE DEF CursorInv, Writes, SegmentFull
  <1>6. Len(ChunkRows) \in 1 .. Len(buf) - off /\ rowsInSegment + Len(ChunkRows) <= SegmentRows
    BY <1>1, <1>2, <1>3, <1>5
  <1>7. \A k \in 1 .. Len(ChunkRows) : ChunkRows[k] = buf[off + k]
    BY <1>2, <1>3, <1>5
  <1> QED  BY <1>5, <1>6, <1>7

\* The open segment is a file.
LEMMA CurrentFile ==
  ASSUME CursorInv, fdOpen
  PROVE  /\ Current \in DOMAIN files
         /\ files[Current] \in File
         /\ files[Current].rows \in Seq(RowSet)
         /\ Len(files[Current].rows) \in Nat
  BY DEF CursorInv, Shape, File

\* A new segment is empty, and the open one.
LEMMA OpenCursors ==
  ASSUME CursorInv, OpenSegment
  PROVE  CursorInv'
  <1> USE TailerAssumption DEF CursorInv, OpenSegment, NeedsSegment, writerVars, cursorVars, faultVars, mainVars
  <1>0. segment \in Nat /\ DOMAIN files' = DOMAIN files \cup {segment}
    BY DEF Shape
  <1>1. TypeOK'  BY <1>0 DEF TypeOK
  <1>2. [rows |-> <<>>, synced |-> 0] \in File
    BY DEF File
  <1>3. Shape'
    <2>1. segment \in Nat
      BY DEF Shape
    <2>2. files' \in [DOMAIN files' -> File]
      BY <1>2 DEF Shape
    <2>3. \A i \in DOMAIN files' :
            files'[i].synced <= Len(files'[i].rows) /\ Len(files'[i].rows) <= SegmentRows
      BY DEF Shape
    <2>4. Current' = segment /\ files'[segment] = [rows |-> <<>>, synced |-> 0]
      BY <2>1 DEF Current
    <2>5. segment \in DOMAIN files' /\ rowsInSegment' = Len(files'[segment].rows)
      BY <2>4
    <2>6. buf' \in Seq(RowSet) /\ segment' \in Nat
      BY <2>1 DEF Shape
    <2> HIDE DEF CursorInv, OpenSegment, NeedsSegment
    <2> QED  BY <2>2, <2>3, <2>4, <2>5, <2>6 DEF Shape
  <1>4. Control'  BY DEF Control
  <1> QED  BY <1>1, <1>3, <1>4

\* An fsync changes what is synced of the open segment.
LEMMA SyncShape ==
  ASSUME CursorInv, fdOpen, SyncFile \/ UNCHANGED files
  PROVE  /\ DOMAIN files' = DOMAIN files
         /\ files' \in [DOMAIN files -> File]
         /\ \A i \in DOMAIN files :
              /\ files'[i].rows = files[i].rows
              /\ files[i].synced <= files'[i].synced
              /\ files'[i].synced <= Len(files[i].rows)
  <1> USE DEF CursorInv
  <1>1. \A i \in DOMAIN files : /\ files[i] \in File /\ files[i].synced <= Len(files[i].rows)
                               /\ Len(files[i].rows) \in Nat
    BY DEF Shape, File
  <1>2. CASE SyncFile
    <2>1. Current \in DOMAIN files
      BY DEF Shape
    <2>2. files' = [files EXCEPT ![Current] = [files[Current] EXCEPT !.synced = Len(files[Current].rows)]]
      BY <1>2 DEF SyncFile
    <2>3. [files[Current] EXCEPT !.synced = Len(files[Current].rows)] \in File
      BY <1>1, <2>1 DEF File
    <2> QED  BY <1>1, <2>1, <2>2, <2>3 DEF Shape, File
  <1>3. CASE UNCHANGED files
    BY <1>1, <1>3 DEF Shape, File
  <1> QED  BY <1>2, <1>3

\* A full segment is closed.
LEMMA CloseFullCursors ==
  ASSUME CursorInv, CloseFull
  PROVE  CursorInv'
  <1> USE TailerAssumption DEF CursorInv, CloseFull, Rotates, writerVars, cursorVars, faultVars, mainVars
  <1>1. /\ DOMAIN files' = DOMAIN files /\ files' \in [DOMAIN files -> File]
        /\ \A i \in DOMAIN files : /\ files'[i].rows = files[i].rows
                                  /\ files'[i].synced <= Len(files[i].rows)
    BY SyncShape
  <1>2. TypeOK'  BY <1>1 DEF TypeOK
  <1>3. Shape'   BY <1>1 DEF Shape
  <1>4. Control' BY DEF Control
  <1> QED  BY <1>2, <1>3, <1>4

\* What a write adds to the open segment, and leaves alone.
LEMMA AppendShape ==
  ASSUME CursorInv, fdOpen, ~faulted, NEW rows \in Seq(RowSet), AppendRows(rows),
         rowsInSegment + Len(rows) <= SegmentRows
  PROVE  /\ DOMAIN files' = DOMAIN files
         /\ files' \in [DOMAIN files -> File]
         /\ \A i \in DOMAIN files :
              /\ files'[i].synced = files[i].synced
              /\ files'[i].synced <= Len(files'[i].rows)
              /\ Len(files[i].rows) <= Len(files'[i].rows)
              /\ Len(files'[i].rows) <= SegmentRows
              /\ \A k \in 1 .. Len(files[i].rows) : files'[i].rows[k] = files[i].rows[k]
              /\ i # Current => files'[i] = files[i]
         /\ files'[Current].rows = files[Current].rows \o rows
  <1> USE DEF CursorInv
  <1>1. \A i \in DOMAIN files :
          /\ files[i] \in File /\ files[i].rows \in Seq(RowSet) /\ Len(files[i].rows) \in Nat
          /\ files[i].synced \in Nat /\ files[i].synced <= Len(files[i].rows)
          /\ Len(files[i].rows) <= SegmentRows
    BY DEF Shape, File
  <1>2. Current \in DOMAIN files /\ rowsInSegment = Len(files[Current].rows)
    BY DEF Shape
  <1> DEFINE old == files[Current].rows
             new == old \o rows
  <1>3. /\ new \in Seq(RowSet) /\ Len(new) = Len(old) + Len(rows) /\ Len(rows) \in Nat
        /\ \A k \in 1 .. Len(old) : new[k] = old[k]
    BY <1>1, <1>2
  <1>4. files' = [files EXCEPT ![Current] = [files[Current] EXCEPT !.rows = new]]
    BY DEF AppendRows
  <1> HIDE DEF new
  <1>5. [files[Current] EXCEPT !.rows = new] = [rows |-> new, synced |-> files[Current].synced]
    BY <1>1, <1>2 DEF File
  <1>6. [rows |-> new, synced |-> files[Current].synced] \in File
    BY <1>1, <1>2, <1>3 DEF File
  <1>7. /\ DOMAIN files' = DOMAIN files /\ files' \in [DOMAIN files -> File]
        /\ files'[Current] = [rows |-> new, synced |-> files[Current].synced]
        /\ \A i \in DOMAIN files : i # Current => files'[i] = files[i]
    BY <1>1, <1>2, <1>4, <1>5, <1>6
  <1>8. files'[Current].rows = new /\ files'[Current].synced = files[Current].synced
    BY <1>7
  <1>9. ASSUME NEW i \in DOMAIN files
        PROVE  /\ files'[i].synced = files[i].synced
               /\ files'[i].synced <= Len(files'[i].rows)
               /\ Len(files[i].rows) <= Len(files'[i].rows)
               /\ Len(files'[i].rows) <= SegmentRows
               /\ \A k \in 1 .. Len(files[i].rows) : files'[i].rows[k] = files[i].rows[k]
    <2>1. CASE i = Current
      <3>1. Len(new) <= SegmentRows /\ Len(old) <= Len(new) /\ files[Current].synced <= Len(new)
        BY <1>1, <1>2, <1>3
      <3> QED  BY <1>3, <1>8, <2>1, <3>1
    <2>2. CASE i # Current
      BY <1>1, <1>7, <2>2
    <2> QED  BY <2>1, <2>2
  <1> QED  BY <1>7, <1>8, <1>9 DEF new

\* A chunk is written.
LEMMA WriteCursors ==
  ASSUME CursorInv, WriteRows
  PROVE  CursorInv'
  <1> USE TailerAssumption DEF CursorInv, WriteRows, writerVars, cursorVars, faultVars, mainVars
  <1>1. fdOpen /\ tpc = "flush" /\ ~faulted
    BY DEF Writes, Control
  <1>2. /\ ChunkRows \in Seq(RowSet)
        /\ Len(ChunkRows) \in 1 .. Len(buf) - off
        /\ rowsInSegment + Len(ChunkRows) <= SegmentRows
    BY ChunkRange
  <1> HIDE DEF WriteRows
  <1>a. /\ AppendRows(ChunkRows)
        /\ off' = off + Len(ChunkRows)
        /\ rowsInSegment' = rowsInSegment + Len(ChunkRows)
        /\ UNCHANGED <<writerVars, cursorVars, fdOpen, segment, faultVars, mainVars,
                       durable, overwrites, tpc, buf>>
    BY DEF WriteRows
  <1>3. /\ DOMAIN files' = DOMAIN files /\ files' \in [DOMAIN files -> File]
        /\ \A i \in DOMAIN files : /\ files'[i].synced <= Len(files'[i].rows)
                                  /\ Len(files'[i].rows) <= SegmentRows
        /\ files'[Current].rows = files[Current].rows \o ChunkRows
    BY <1>1, <1>2, <1>a, AppendShape
  <1>4. Len(files'[Current].rows) = Len(files[Current].rows) + Len(ChunkRows)
    BY <1>1, <1>2, <1>3, CurrentFile
  <1>5. buf \in Seq(RowSet) /\ Len(buf) \in Nat /\ off \in Nat /\ rowsInSegment \in Nat
    BY DEF Shape, TypeOK
  <1>6. TypeOK'
    <2>1. off + Len(ChunkRows) \in 0 .. FlushRows
      <3>1. Len(buf) <= FlushRows
        BY DEF TypeOK
      <3> QED  BY <1>2, <1>5, <3>1
    <2>2. rowsInSegment + Len(ChunkRows) \in 0 .. SegmentRows
      BY <1>2, <1>5
    <2>3. off' \in 0 .. FlushRows /\ rowsInSegment' \in 0 .. SegmentRows
      BY <1>a, <2>1, <2>2
    <2>4. UNCHANGED <<writerVars, cursorVars, fdOpen, segment, faultVars, mainVars,
                      durable, overwrites, tpc, buf>>
      BY <1>a
    <2> QED  BY <1>3, <2>3, <2>4 DEF TypeOK
  <1>7. Shape'
    BY <1>1, <1>3, <1>4, <1>a DEF Shape, Current
  <1>8. Control'
    BY <1>2, <1>5, <1>a DEF Control
  <1> QED  BY <1>6, <1>7, <1>8

\* The fsync that ends a flush.
LEMMA SyncCursors ==
  ASSUME CursorInv, Sync
  PROVE  CursorInv'
  <1> USE TailerAssumption DEF CursorInv, Sync, Syncs, Onward, FlushedDurable, writerVars, faultVars, mainVars
  <1>1. /\ DOMAIN files' = DOMAIN files /\ files' \in [DOMAIN files -> File]
        /\ \A i \in DOMAIN files : /\ files'[i].rows = files[i].rows
                                  /\ files'[i].synced <= Len(files[i].rows)
    BY SyncShape
  <1>2. buf' \in Seq(RowSet) /\ Len(buf') = 0
    OBVIOUS
  <1>3. TypeOK'  BY <1>1, <1>2 DEF TypeOK
  <1>4. Shape'   BY <1>1, <1>2 DEF Shape, Current
  <1>5. Control' BY <1>2 DEF Control
  <1> QED  BY <1>3, <1>4, <1>5

\* What a write that fails leaves in the segment.
LEMMA WreckRange ==
  ASSUME CursorInv, Writes, NEW n \in 0 .. Len(ChunkRows) - 1, NEW torn \in {<<>>, <<TornRow>>}
  PROVE  /\ SubSeq(ChunkRows, 1, n) \o torn \in Seq(RowSet)
         /\ Len(SubSeq(ChunkRows, 1, n) \o torn) <= Len(ChunkRows)
         /\ \A k \in 1 .. Len(SubSeq(ChunkRows, 1, n) \o torn) :
              \/ /\ (SubSeq(ChunkRows, 1, n) \o torn)[k] = TornRow
                 /\ k = Len(SubSeq(ChunkRows, 1, n) \o torn)
              \/ k \in 1 .. Len(ChunkRows) /\ (SubSeq(ChunkRows, 1, n) \o torn)[k] = ChunkRows[k]
  <1>1. ChunkRows \in Seq(RowSet) /\ Len(ChunkRows) \in Nat
    BY ChunkRange
  <1>2. TornRow \in RowSet
    BY TailerAssumption DEF TornRow, Row, RowSet
  <1> DEFINE part == SubSeq(ChunkRows, 1, n)
  <1>3. /\ part \in Seq(RowSet) /\ Len(part) = n
        /\ \A k \in 1 .. n : part[k] = ChunkRows[k]
    BY <1>1
  <1>4. torn \in Seq(RowSet) /\ Len(torn) \in 0 .. 1 /\ \A k \in 1 .. Len(torn) : torn[k] = TornRow
    <2>1. CASE torn = <<>>  BY <2>1
    <2>2. CASE torn = <<TornRow>>
      <3>1. <<TornRow>> \in Seq(RowSet) /\ Len(<<TornRow>>) = 1 /\ <<TornRow>>[1] = TornRow
        BY <1>2
      <3> QED  BY <2>2, <3>1
    <2> QED  BY <2>1, <2>2
  <1> HIDE DEF part
  <1>5. /\ part \o torn \in Seq(RowSet) /\ Len(part \o torn) = n + Len(torn)
        /\ \A k \in 1 .. n : (part \o torn)[k] = part[k]
        /\ \A k \in n + 1 .. n + Len(torn) : (part \o torn)[k] = torn[k - n]
    BY <1>3, <1>4
  <1>6. Len(part \o torn) <= Len(ChunkRows)
    BY <1>1, <1>4, <1>5
  <1>7. ASSUME NEW k \in 1 .. Len(part \o torn)
        PROVE  \/ (part \o torn)[k] = TornRow /\ k = Len(part \o torn)
               \/ k \in 1 .. Len(ChunkRows) /\ (part \o torn)[k] = ChunkRows[k]
    <2>1. CASE k \in 1 .. n
      BY <1>1, <1>3, <1>5, <2>1
    <2>2. CASE k \notin 1 .. n
      <3>1. /\ k \in n + 1 .. n + Len(torn) /\ k - n \in 1 .. Len(torn)
            /\ k = Len(part \o torn)
        BY <1>4, <1>5, <2>2
      <3> QED  BY <1>4, <1>5, <3>1
    <2> QED  BY <2>1, <2>2
  <1> QED  BY <1>5, <1>6, <1>7 DEF part

\* The WAL after a failure: no row is lost, and no segment outgrows its size.
LEMMA WreckShape ==
  ASSUME CursorInv, ~faulted, WreckOpen \/ WreckClose \/ WreckWrite \/ WreckSync
  PROVE  /\ DOMAIN files' = DOMAIN files
         /\ files' \in [DOMAIN files -> File]
         /\ \A i \in DOMAIN files :
              /\ files[i].synced <= files'[i].synced
              /\ files'[i].synced <= Len(files'[i].rows)
              /\ Len(files[i].rows) <= Len(files'[i].rows)
              /\ Len(files'[i].rows) <= SegmentRows
              /\ \A k \in 1 .. Len(files[i].rows) : files'[i].rows[k] = files[i].rows[k]
         /\ segment' \in segment .. segment + 1
         /\ segment' # segment => ~fdOpen /\ ~fdOpen'
         /\ fdOpen' => fdOpen
  <1>0. segment \in Nat
    BY DEF CursorInv, Shape
  <1>1. \A i \in DOMAIN files :
          /\ files[i].synced <= Len(files[i].rows) /\ Len(files[i].rows) <= SegmentRows
          /\ Len(files[i].rows) \in Nat /\ files[i].synced \in Nat
    BY DEF CursorInv, Shape, File
  <1>2. files \in [DOMAIN files -> File]
    BY DEF CursorInv, Shape
  <1>3. CASE WreckOpen \/ WreckSync
    <2>1. UNCHANGED <<files, fdOpen>> /\ segment' \in segment .. segment + 1
          /\ (segment' # segment => ~fdOpen)
      BY <1>0, <1>3 DEF WreckOpen, WreckSync, NeedsSegment
    <2> QED  BY <1>1, <1>2, <2>1
  <1>4. CASE WreckClose
    <2>1. fdOpen /\ fdOpen' = FALSE /\ segment' = segment /\ (SyncFile \/ UNCHANGED files)
      BY <1>4 DEF WreckClose, Rotates
    <2> QED  BY <1>0, <1>1, <2>1, SyncShape
  <1>5. CASE WreckWrite
    <2>1. Writes /\ fdOpen /\ UNCHANGED <<fdOpen, segment>>
      BY <1>5 DEF WreckWrite, Writes
    <2>2. PICK n \in 0 .. Len(ChunkRows) - 1, torn \in {<<>>, <<TornRow>>} :
            AppendRows(SubSeq(ChunkRows, 1, n) \o torn)
      BY <1>5 DEF WreckWrite
    <2> DEFINE rows == SubSeq(ChunkRows, 1, n) \o torn
    <2>3. rows \in Seq(RowSet) /\ Len(rows) <= Len(ChunkRows)
      BY <2>1, WreckRange
    <2> HIDE DEF rows
    <2>4. AppendRows(rows)
      BY <2>2 DEF rows
    <2>5. rowsInSegment + Len(rows) <= SegmentRows
      <3>1. rowsInSegment + Len(ChunkRows) <= SegmentRows /\ Len(ChunkRows) \in Nat
        BY <2>1, ChunkRange
      <3>2. Len(rows) \in Nat /\ rowsInSegment \in Nat /\ SegmentRows \in Nat
        BY <2>3, TailerAssumption DEF CursorInv, TypeOK
      <3> QED  BY <2>3, <3>1, <3>2
    <2>6. /\ DOMAIN files' = DOMAIN files
          /\ files' \in [DOMAIN files -> File]
          /\ \A i \in DOMAIN files :
               /\ files'[i].synced = files[i].synced
               /\ files'[i].synced <= Len(files'[i].rows)
               /\ Len(files[i].rows) <= Len(files'[i].rows)
               /\ Len(files'[i].rows) <= SegmentRows
               /\ \A k \in 1 .. Len(files[i].rows) : files'[i].rows[k] = files[i].rows[k]
      BY <2>1, <2>3, <2>4, <2>5, AppendShape
    <2> QED  BY <1>0, <1>1, <2>1, <2>6
  <1> QED  BY <1>3, <1>4, <1>5

\* A failure freezes the cursors.
LEMMA FlushFailsCursors ==
  ASSUME CursorInv, FlushFails
  PROVE  CursorInv'
  <1>1. /\ WreckOpen \/ WreckClose \/ WreckWrite \/ WreckSync
        /\ FailClosed
        /\ UNCHANGED <<writerVars, cursorVars, off, rowsInSegment, mainVars, durable,
                       overwrites, buf>>
    BY DEF FlushFails
  <1>2. tpc = "flush"
    BY <1>1 DEF WreckOpen, WreckClose, WreckWrite, WreckSync, NeedsSegment, Rotates, Writes, Syncs
  <1> USE DEF CursorInv
  <1>3. ~faulted /\ TypeOK /\ Shape /\ Control
    BY <1>2 DEF Control
  <1>4. /\ DOMAIN files' = DOMAIN files /\ files' \in [DOMAIN files -> File]
        /\ \A i \in DOMAIN files : /\ files'[i].synced <= Len(files'[i].rows)
                                  /\ Len(files'[i].rows) <= SegmentRows
        /\ segment' \in segment .. segment + 1 /\ (segment' # segment => ~fdOpen')
        /\ (fdOpen' => fdOpen)
    BY <1>1, <1>3, WreckShape
  <1>5. fdOpen' \in BOOLEAN
    BY <1>1, <1>3 DEF WreckOpen, WreckClose, WreckWrite, WreckSync, TypeOK
  <1>6. TypeOK'
    <2>1. tpc' = "exited" /\ faulted' = TRUE /\ faults' = 1
      BY <1>1, <1>3 DEF FailClosed, TypeOK
    <2>2. DOMAIN files' \subseteq Nat
      BY <1>3, <1>4 DEF TypeOK
    <2>3. UNCHANGED <<appended, durableView, wpc, logSeq, logData, window, committed,
                      readSeq, end, copy, statRead, skipped, damaged, off,
                      rowsInSegment, running, mpc, started, durable, overwrites, buf>>
      BY <1>1 DEF writerVars, cursorVars, mainVars
    <2>4. TypeOK
      BY <1>3
    <2>5. {fdOpen, running, started, faulted}' \subseteq BOOLEAN
      BY <1>5, <2>1, <2>3, <2>4 DEF TypeOK
    <2> QED  BY <2>1, <2>2, <2>3, <2>4, <2>5 DEF TypeOK
  <1> USE <1>1 DEF FailClosed, writerVars, cursorVars, mainVars
  <1>7. Shape'
    BY <1>3, <1>4 DEF Shape, Current
  <1>8. Control'
    BY <1>2, <1>3 DEF Control
  <1> QED  BY <1>6, <1>7, <1>8

\* stop() as far as the final flush.
LEMMA StopCursors ==
  ASSUME CursorInv, StopBegin \/ Join \/ DrainEnd
  PROVE  CursorInv'
  <1> USE TailerAssumption DEF CursorInv
  <1>1. CASE StopBegin
    <2> USE <1>1 DEF StopBegin, ClearRunning, writerVars, cursorVars, walVars, faultVars
    <2>1. TypeOK'  BY DEF TypeOK
    <2>2. Shape'   BY DEF Shape, Current
    <2>3. Control' BY DEF Control
    <2> QED  BY <2>1, <2>2, <2>3
  <1>2. CASE Join
    <2> USE <1>2 DEF Join, writerVars, cursorVars, faultVars
    <2>1. TypeOK'  BY DEF TypeOK
    <2>2. Shape'   BY DEF Shape, Current
    <2>3. Control' BY DEF Control, Shape
    <2> QED  BY <2>1, <2>2, <2>3
  <1>3. CASE DrainEnd
    <2> USE <1>3 DEF DrainEnd, writerVars, cursorVars, walVars, faultVars
    <2>1. TypeOK'  BY DEF TypeOK
    <2>2. Shape'   BY DEF Shape, Current
    <2>3. Control' BY DEF Control
    <2> QED  BY <2>1, <2>2, <2>3
  <1> QED  BY <1>1, <1>2, <1>3

\* The last segment is closed.
LEMMA CloseLastCursors ==
  ASSUME CursorInv, CloseLast
  PROVE  CursorInv'
  <1> USE TailerAssumption DEF CursorInv
  <1>1. /\ mpc = "closing" /\ fdOpen' = FALSE /\ mpc' = "down" /\ started' = FALSE
        /\ UNCHANGED <<writerVars, cursorVars, off, rowsInSegment, segment, running,
                       durable, overwrites, tpc, buf>>
        /\ \/ UNCHANGED <<faulted, faults>>
           \/ faulted' = TRUE /\ faults' = IF faulted THEN faults ELSE faults + 1
        /\ UNCHANGED files \/ (fdOpen /\ (SyncFile \/ UNCHANGED files))
    BY DEF CloseLast, faultVars
  <1>2. /\ DOMAIN files' = DOMAIN files /\ files' \in [DOMAIN files -> File]
        /\ \A i \in DOMAIN files : /\ files'[i].rows = files[i].rows
                                  /\ files'[i].synced <= Len(files[i].rows)
    <2>1. CASE UNCHANGED files  BY <2>1 DEF Shape
    <2>2. CASE fdOpen /\ (SyncFile \/ UNCHANGED files)  BY <2>2, SyncShape
    <2> QED  BY <1>1, <2>1, <2>2
  <1> USE <1>1 DEF writerVars, cursorVars
  <1>a. faulted' \in BOOLEAN /\ faults' = IF faulted' THEN 1 ELSE 0
    <2>0. faulted \in BOOLEAN /\ faults = IF faulted THEN 1 ELSE 0
      BY DEF TypeOK
    <2>1. CASE UNCHANGED <<faulted, faults>>  BY <2>0, <2>1
    <2>2. CASE faulted' = TRUE /\ faults' = IF faulted THEN faults ELSE faults + 1
      BY <2>0, <2>2
    <2> QED  BY <2>1, <2>2
  <1>3. TypeOK'  BY <1>2, <1>a DEF TypeOK
  <1>4. Shape'   BY <1>2 DEF Shape
  <1>5. Control' BY DEF Control
  <1> QED  BY <1>3, <1>4, <1>5

\* Every step keeps the cursors.
LEMMA CursorsInductive ==
  ASSUME CursorInv, [Next]_vars
  PROVE  CursorInv'
  <1>1. CASE OnMd
    BY <1>1, TakeTickCursors, StoreCursors DEF OnMd
  <1>2. CASE Tailer
    <2>1. CASE Flush
      BY <2>1, OpenCursors, CloseFullCursors, WriteCursors, SyncCursors, FlushFailsCursors DEF Flush
    <2> QED
      BY <1>2, <2>1, LoopConditionCursors, LoadEndCursors, CheckCursors, RecheckCursors DEF Tailer
  <1>3. CASE StopBegin \/ Stopping
    BY <1>3, StopCursors, CloseLastCursors DEF Stopping
  <1>4. CASE UNCHANGED vars
    BY <1>4 DEF CursorInv, TypeOK, Shape, Current, Control,
                vars, writerVars, cursorVars, walVars, faultVars, mainVars
  <1> QED  BY <1>1, <1>2, <1>3, <1>4 DEF Next

\* They begin right.
LEMMA CursorsInitial ==
  ASSUME Init
  PROVE  CursorInv
  <1> USE TailerAssumption DEF Init, Zeroed, Slots
  <1>a. Len(buf) = 0 /\ DOMAIN files = {}
    OBVIOUS
  <1>b. logSeq \in [Slots -> 0 .. MaxTicks] /\ logData \in [Slots -> Zeroed .. MaxTicks]
    OBVIOUS
  <1>c. /\ appended \in 0 .. MaxTicks /\ off \in 0 .. FlushRows /\ rowsInSegment \in 0 .. SegmentRows
        /\ overwrites \in Nat /\ copy \in Zeroed .. MaxTicks /\ Len(buf) <= FlushRows
    BY <1>a
  <1>d. {fdOpen, running, started, faulted} \subseteq BOOLEAN
    OBVIOUS
  <1>1. TypeOK  BY <1>a, <1>b, <1>c, <1>d DEF TypeOK
  <1>2. Shape   BY <1>a DEF Shape
  <1>3. Control BY DEF Control
  <1> QED  BY <1>1, <1>2, <1>3 DEF CursorInv

\* The cursors of writer and tailer keep their types and their order, and the
\* WAL its shape.
THEOREM Cursors == Spec => []CursorInv
  <1>1. Init => CursorInv  BY CursorsInitial
  <1>2. CursorInv /\ [Next]_vars => CursorInv'  BY CursorsInductive
  <1> QED  BY <1>1, <1>2, PTL DEF Spec

-----------------------------------------------------------------------------
(* A fault freezes the pipeline.                                           *)

\* Only close_segment() touches a file after a fault, and no row of it.
LEMMA FrozenByFault ==
  ASSUME CursorInv, Next, faulted
  PROVE  /\ UNCHANGED <<durable, readSeq>>
         /\ DOMAIN files' = DOMAIN files
         /\ \A i \in DOMAIN files : files'[i].rows = files[i].rows
  <1>1. tpc = "exited"
    BY DEF CursorInv, Control
  <1>2. ~Tailer
    BY <1>1 DEF Tailer, LoopCondition, LoadEnd, CheckIdentity, CopyRecord, Recheck, Flush,
                OpenSegment, NeedsSegment, CloseFull, Rotates, WriteRows, Writes, Sync, Syncs,
                FlushFails, WreckOpen, WreckClose, WreckWrite, WreckSync
  <1>3. CASE OnMd
    BY <1>3 DEF OnMd, TakeTick, StoreSeq, StoreData, Commit, cursorVars, walVars
  <1>4. CASE StopBegin \/ Join \/ DrainEnd
    BY <1>4 DEF StopBegin, Join, DrainEnd, cursorVars, walVars
  <1>5. CASE CloseLast
    <2>1. UNCHANGED files \/ (fdOpen /\ (SyncFile \/ UNCHANGED files))
      BY <1>5 DEF CloseLast
    <2>2. UNCHANGED <<durable, readSeq>>
      BY <1>5 DEF CloseLast, cursorVars
    <2> QED  BY <2>1, <2>2, SyncShape
  <1> QED  BY <1>2, <1>3, <1>4, <1>5 DEF Next, Stopping

\* Fail closed: after a WAL failure durable_seq and the rows on disk stay as they
\* are, whatever the feed and stop() do.
THEOREM TailerFailsClosed == Spec => FailsClosed
  <1>1. CursorInv /\ [Next]_vars =>
          [faulted =>
             /\ UNCHANGED <<durable, readSeq>>
             /\ DOMAIN files' = DOMAIN files
             /\ \A i \in DOMAIN files : files'[i].rows = files[i].rows]_vars
    BY FrozenByFault
  <1> QED  BY <1>1, Cursors, PTL DEF Spec, FailsClosed

-----------------------------------------------------------------------------
(* The day log.                                                            *)

\* Only on_md writes its variables.
LEMMA TailerWritesNoLog ==
  ASSUME Tailer \/ StopBegin \/ Stopping \/ UNCHANGED vars
  PROVE  UNCHANGED writerVars
  <1>1. CASE Tailer
    <2>1. CASE Flush
      BY <2>1 DEF Flush, OpenSegment, CloseFull, WriteRows, Sync, FlushFails
    <2>2. CASE LoopCondition \/ LoadEnd \/ CheckIdentity \/ CopyRecord \/ Recheck
      BY <2>2 DEF LoopCondition, LoadEnd, CheckIdentity, CopyRecord, Recheck, Skip, KeepRecord
    <2> QED  BY <1>1, <2>1, <2>2 DEF Tailer
  <1>2. CASE StopBegin \/ Stopping
    BY <1>2 DEF StopBegin, Stopping, Join, DrainEnd, CloseLast
  <1>3. CASE UNCHANGED vars
    BY <1>3 DEF vars
  <1> QED  BY <1>1, <1>2, <1>3

\* The day log is typed, and the record on_md is storing has a slot.
LEMMA LogTyped ==
  ASSUME CursorInv
  PROVE  /\ appended \in Nat /\ committed \in Nat /\ readSeq \in Nat /\ readSeq <= committed
         /\ committed <= appended
         /\ logSeq \in [Slots -> Nat] /\ logData \in [Slots -> Int]
         /\ SlotOf(readSeq) \in Slots
         /\ wpc = "storing" => committed < appended /\ SlotOf(appended - 1) \in Slots
  <1>1. /\ appended \in 0 .. MaxTicks /\ committed \in 0 .. appended
        /\ readSeq \in 0 .. committed /\ MaxTicks \in Nat
    BY TailerAssumption DEF CursorInv, TypeOK
  <1>2. logSeq \in [Slots -> 0 .. MaxTicks] /\ logData \in [Slots -> -1 .. MaxTicks]
    BY DEF CursorInv, TypeOK, Zeroed
  <1>3. wpc = "storing" => committed < appended
    BY DEF CursorInv, Control
  <1>4. appended \in Nat /\ committed \in Nat /\ readSeq \in Nat /\ readSeq <= committed
    BY <1>1
  <1>5. logSeq \in [Slots -> Nat] /\ logData \in [Slots -> Int]
    BY <1>1, <1>2
  <1>6. wpc = "storing" => appended - 1 \in Nat
    BY <1>1, <1>3
  <1>7. SlotOf(readSeq) \in Slots /\ (wpc = "storing" => SlotOf(appended - 1) \in Slots)
    BY <1>4, <1>6, SlotRange
  <1> QED  BY <1>1, <1>3, <1>4, <1>5, <1>7

\* durable_seq and the count of overwrites only grow.
LEMMA CountsGrow ==
  ASSUME CursorInv, [Next]_vars
  PROVE  /\ durable \in Nat /\ readSeq \in Nat /\ durable <= readSeq /\ overwrites \in Nat
         /\ durable' \in {durable, readSeq}
         /\ overwrites' \in {overwrites, overwrites + 1}
  <1>1. durable \in Nat /\ readSeq \in Nat /\ durable <= readSeq /\ overwrites \in Nat
    BY TailerAssumption DEF CursorInv, TypeOK
  <1>2. CASE OnMd \/ StopBegin \/ Stopping \/ UNCHANGED vars
    BY <1>1, <1>2 DEF OnMd, TakeTick, StoreSeq, StoreData, Commit, StopBegin, Stopping, Join,
                      DrainEnd, CloseLast, vars
  <1>3. CASE Flush
    BY <1>1, <1>3 DEF Flush, OpenSegment, CloseFull, WriteRows, Sync, FlushFails, FlushedDurable
  <1>4. CASE LoopCondition \/ LoadEnd \/ CheckIdentity \/ CopyRecord \/ Recheck
    BY <1>1, <1>4 DEF LoopCondition, LoadEnd, IdleDurable, CheckIdentity, CopyRecord, Recheck,
                      Skip, CountSkip, KeepRecord
  <1> QED  BY <1>1, <1>2, <1>3, <1>4 DEF Next, Tailer

\* A tick that may overwrite a record of this log that is not on disk is counted.
LEMMA WriterInductive ==
  ASSUME NEW first \in Nat, CursorInv, WriterInv(first), [Next]_vars
  PROVE  WriterInv(first)'
  <1>1. /\ appended \in Nat /\ committed \in Nat /\ committed <= appended
        /\ wpc = "storing" => committed < appended
        /\ durable \in Nat /\ durableView \in Nat /\ overwrites \in Nat /\ LogCapacity \in Nat
        /\ wpc \in {"idle", "storing"} /\ window \subseteq 0 .. appended - 1
    <2>1. TypeOK
      BY DEF CursorInv
    <2> QED  BY <2>1, LogTyped, TailerAssumption DEF TypeOK
  <1>2. /\ appended = IF wpc = "idle" THEN Newest(first) ELSE Newest(first) + 1
        /\ first <= Newest(first) /\ window \subseteq first .. appended - 1
        /\ durableView <= first \/ durableView <= durable
        /\ appended - first <= LogCapacity + overwrites
           \/ appended - durable <= LogCapacity + overwrites
    BY DEF WriterInv
  <1>3. Newest(first) \in Nat
    BY <1>1 DEF Newest
  <1>4. CASE TakeTick
    <2>1. /\ wpc = "idle" /\ wpc' = "storing" /\ appended' = appended + 1
          /\ durableView' = View(appended) /\ durable' = durable /\ committed' = committed
          /\ window' \subseteq window \cup {appended}
          /\ overwrites' = overwrites + IF GuardTrips(appended) THEN 1 ELSE 0
      BY <1>4 DEF TakeTick
    <2>2. View(appended) \in {durable, durableView}
      BY DEF View
    <2>3. Newest(first)' = Newest(first)
      BY <2>1 DEF Newest
    <2>4. \/ appended' - first <= LogCapacity + overwrites'
          \/ appended' - durable' <= LogCapacity + overwrites'
      <3>1. CASE GuardTrips(appended)
        BY <1>1, <1>2, <2>1, <3>1
      <3>2. CASE ~GuardTrips(appended)
        <4>1. appended - View(appended) < LogCapacity /\ overwrites' = overwrites
          BY <1>1, <2>1, <2>2, <3>2 DEF GuardTrips
        <4> QED  BY <1>1, <1>2, <2>1, <2>2, <4>1
      <3> QED  BY <3>1, <3>2
    <2>5. window' \subseteq first .. appended' - 1
      BY <1>1, <1>2, <1>3, <2>1
    <2>6. durableView' <= first \/ durableView' <= durable'
      BY <1>1, <1>2, <2>1, <2>2
    <2>7. /\ appended' = IF wpc' = "idle" THEN Newest(first)' ELSE Newest(first)' + 1
          /\ first <= Newest(first)'
      BY <1>2, <2>1, <2>3
    <2> QED  BY <2>4, <2>5, <2>6, <2>7 DEF WriterInv
  <1>5. CASE StoreSeq \/ StoreData
    BY <1>5 DEF StoreSeq, StoreData, WriterInv, Newest
  <1>6. CASE Commit
    <2>1. /\ wpc = "storing" /\ wpc' = "idle" /\ committed' = appended
          /\ UNCHANGED <<appended, durableView, window, durable, overwrites>>
      BY <1>6 DEF Commit
    <2>2. Newest(first)' = appended /\ first <= appended
      BY <1>1, <1>2, <1>3, <2>1 DEF Newest
    <2> QED  BY <1>2, <2>1, <2>2 DEF WriterInv
  <1>7. CASE UNCHANGED writerVars
    <2>1. UNCHANGED <<appended, durableView, wpc, window, committed>>
      BY <1>7 DEF writerVars
    <2>2. durable <= durable' /\ durable' \in Nat /\ overwrites <= overwrites' /\ overwrites' \in Nat
      BY CountsGrow
    <2>3. Newest(first)' = Newest(first)
      BY <2>1 DEF Newest
    <2>4. durableView <= first \/ durableView <= durable'
      BY <1>1, <1>2, <2>2
    <2>5. \/ appended - first <= LogCapacity + overwrites'
          \/ appended - durable' <= LogCapacity + overwrites'
      <3>1. \A a, b, c, d, e \in Nat : a - b <= c + d /\ d <= e => a - b <= c + e
        OBVIOUS
      <3>2. \A a, b, c, d, e, f \in Nat : a - b <= c + d /\ d <= e /\ b <= f => a - f <= c + e
        OBVIOUS
      <3> QED  BY <1>1, <1>2, <2>2, <3>1, <3>2
    <2> QED  BY <1>2, <2>1, <2>3, <2>4, <2>5 DEF WriterInv
  <1> QED  BY <1>4, <1>5, <1>6, <1>7, TailerWritesNoLog DEF Next, OnMd

\* A committed record of this log is in its slot or overwritten by a later one.
LEMMA LogInductive ==
  ASSUME NEW first \in Nat, CursorInv, WriterInv(first), LogInv(first), [Next]_vars
  PROVE  LogInv(first)'
  <1>1. /\ appended \in Nat /\ committed \in Nat
        /\ logSeq \in [Slots -> Nat] /\ logData \in [Slots -> Int]
        /\ wpc = "storing" => committed < appended /\ SlotOf(appended - 1) \in Slots
    BY LogTyped
  <1>2. \A p \in first .. committed - 1 : SlotOf(p) \in Slots
    BY <1>1, SlotRange
  <1>3. CASE TakeTick
    BY <1>1, <1>2, <1>3 DEF TakeTick, LogInv
  <1>4. CASE StoreSeq
    <2> USE <1>4 DEF StoreSeq
    <2>1. logSeq' = [logSeq EXCEPT ![SlotOf(appended - 1)] = appended - 1]
      OBVIOUS
    <2>2. \A s \in Slots : logSeq'[s] = IF s = SlotOf(appended - 1) THEN appended - 1 ELSE logSeq[s]
      BY <1>1, <2>1
    <2> QED  BY <1>1, <1>2, <2>2 DEF LogInv
  <1>5. CASE StoreData
    <2> USE <1>5 DEF StoreData
    <2>1. \A s \in Slots : logData'[s] = IF s = SlotOf(appended - 1) THEN appended - 1 ELSE logData[s]
      BY <1>1
    <2> QED  BY <1>1, <1>2, <2>1 DEF LogInv
  <1>6. CASE Commit
    <2>1. /\ logSeq[SlotOf(appended - 1)] = appended - 1 /\ logData[SlotOf(appended - 1)] = appended - 1
          /\ committed' = appended /\ UNCHANGED <<appended, logSeq, logData>>
      BY <1>6 DEF Commit, SeqStored, DataStored
    <2>2. appended = Newest(first) + 1
      BY <1>6 DEF Commit, WriterInv
    <2>3. \A p \in first .. committed' - 1 : p \in first .. committed - 1 \/ p = appended - 1
      BY <1>1, <2>1, <2>2 DEF Newest
    <2> QED  BY <1>1, <2>1, <2>3 DEF LogInv, SlotOf
  <1>7. CASE UNCHANGED writerVars
    BY <1>7 DEF writerVars, LogInv, SlotOf
  <1> QED  BY <1>3, <1>4, <1>5, <1>6, <1>7, TailerWritesNoLog DEF Next, OnMd

\* A copy is of the record it was made for, or of a later one.
LEMMA CopyInductive ==
  ASSUME NEW first \in Nat, CursorInv, LogInv(first), CopyInv(first), [Next]_vars
  PROVE  CopyInv(first)'
  <1>1. CASE CopyRecord
    <2>1. readSeq \in Nat /\ readSeq < committed /\ committed \in Nat
      BY <1>1, LogTyped DEF CopyRecord, CursorInv, Control, TypeOK
    <2>2. copy' = logData[SlotOf(readSeq)] /\ UNCHANGED readSeq
      BY <1>1 DEF CopyRecord
    <2>3. first <= readSeq => readSeq <= logData[SlotOf(readSeq)]
      BY <2>1 DEF LogInv
    <2> QED  BY <2>2, <2>3 DEF CopyInv
  <1>2. CASE UNCHANGED <<tpc, readSeq, copy>>
    BY <1>2 DEF CopyInv
  <1>3. CASE OnMd \/ StopBegin \/ DrainEnd \/ CloseLast \/ UNCHANGED vars
    BY <1>2, <1>3 DEF OnMd, TakeTick, StoreSeq, StoreData, Commit, StopBegin, DrainEnd,
                      CloseLast, vars, cursorVars
  <1>4. CASE tpc' # "recheck"
    BY <1>4 DEF CopyInv
  <1>5. CASE Join \/ LoopCondition \/ LoadEnd \/ CheckIdentity \/ Recheck
    <2>1. tpc' # "recheck" \/ UNCHANGED <<tpc, readSeq, copy>>
      BY <1>5 DEF Join, LoopCondition, LoadEnd, CheckIdentity, Recheck, Skip, KeepRecord, Onward,
                  cursorVars
    <2> QED  BY <1>2, <1>4, <2>1
  <1>6. CASE Flush
    <2>1. tpc' # "recheck"
      BY <1>6 DEF Flush, OpenSegment, NeedsSegment, CloseFull, Rotates, WriteRows, Writes, Sync,
                  FlushFails, FailClosed, Onward
    <2> QED  BY <1>4, <2>1
  <1> QED
    BY <1>1, <1>3, <1>5, <1>6 DEF Next, Tailer, Stopping

-----------------------------------------------------------------------------
(* What is on disk stays there.                                            *)

\* The WAL of this life loses no row, and no fsync is undone.
WalGrows ==
  /\ segment <= segment'
  /\ \A i \in DOMAIN files : i < segment =>
       /\ i \in DOMAIN files'
       /\ files[i].synced <= files'[i].synced
       /\ Len(files[i].rows) <= Len(files'[i].rows)
       /\ \A k \in RowsOf(i) : files'[i].rows[k] = files[i].rows[k]

\* Lengths are numbers.
LEMMA FileTyped ==
  ASSUME CursorInv, NEW i \in DOMAIN files
  PROVE  /\ files[i].rows \in Seq(RowSet) /\ Len(files[i].rows) \in Nat
         /\ files[i].synced \in Nat /\ files[i].synced <= Len(files[i].rows)
         /\ i \in Int /\ segment \in Nat
  BY DEF CursorInv, Shape, TypeOK, File

\* A WAL that grows keeps a record that is on disk.
LEMMA StaysOnDisk ==
  ASSUME CursorInv, CursorInv', WalGrows, NEW p, OnDisk(p)
  PROVE  OnDisk(p)'
  <1>1. PICK i \in DOMAIN files :
          i < segment /\ \E k \in RowsOf(i) : k <= files[i].synced /\ RowAt(i, k) = Row(p, p)
    BY DEF OnDisk
  <1>2. PICK k \in RowsOf(i) : k <= files[i].synced /\ RowAt(i, k) = Row(p, p)
    BY <1>1
  <1>3. i \in DOMAIN files' /\ i < segment'
    <2>1. i \in Int /\ segment \in Nat /\ segment' \in Nat
      BY FileTyped DEF CursorInv, Shape
    <2> QED  BY <1>1, <2>1 DEF WalGrows
  <1>4. /\ Len(files[i].rows) \in Nat /\ files[i].synced \in Nat
        /\ Len(files'[i].rows) \in Nat /\ files'[i].synced \in Nat
    <2>1. files' \in [DOMAIN files' -> File]
      BY DEF CursorInv, Shape
    <2>2. files'[i] \in File
      BY <1>3, <2>1
    <2> QED  BY <2>2, FileTyped DEF File
  <1>5. /\ files[i].synced <= files'[i].synced
        /\ Len(files[i].rows) <= Len(files'[i].rows)
        /\ files'[i].rows[k] = files[i].rows[k]
    BY <1>1, <1>2 DEF WalGrows
  <1>6. k \in 1 .. Len(files'[i].rows) /\ k <= files'[i].synced /\ files'[i].rows[k] = Row(p, p)
    BY <1>2, <1>4, <1>5 DEF RowsOf, RowAt
  <1> QED  BY <1>3, <1>6 DEF OnDisk, RowsOf, RowAt

\* A step of flush() that moves no cursor keeps what is read and what is durable.
LEMMA GrowingKeeps ==
  ASSUME CursorInv, CursorInv', WalGrows, ReadIsKept, DurableIsOnDisk,
         UNCHANGED <<window, buf, durable, readSeq, Lost>>
  PROVE  ReadIsKept' /\ DurableIsOnDisk'
  <1>1. ReadIsKept'
    BY DEF ReadIsKept, Buffered
  <1>2. ASSUME NEW p \in window, p < durable
        PROVE  OnDisk(p)' \/ p \in Lost
    BY <1>2, StaysOnDisk DEF DurableIsOnDisk
  <1> QED  BY <1>1, <1>2 DEF DurableIsOnDisk

\* A step that leaves the files and the tailer's position alone keeps it all;
\* the tick on_md takes is beyond that position.
LEMMA AsideKeeps ==
  ASSUME CursorInv, KeptInv,
         UNCHANGED <<files, segment, fdOpen, buf, durable, readSeq, Lost>>,
         window' \subseteq window \cup {appended},
         tpc' = "flush" => off' = 0 \/ (tpc = "flush" /\ off' = off)
  PROVE  KeptInv'
  <1>1. readSeq \in Nat /\ appended \in Nat /\ durable \in Nat /\ durable <= readSeq /\ readSeq <= appended
    BY TailerAssumption DEF CursorInv, TypeOK
  <1>2. ReadIsKept'
    BY <1>1 DEF KeptInv, ReadIsKept, Buffered
  <1>3. DurableIsOnDisk'
    BY <1>1 DEF KeptInv, DurableIsOnDisk, OnDisk, RowsOf, RowAt
  <1>4. FlushIsInFile'
    <2>1. CASE off' = 0
      BY <2>1 DEF FlushIsInFile
    <2>2. CASE tpc = "flush" /\ off' = off
      BY <2>2 DEF KeptInv, FlushIsInFile, InFile, Current, RowsOf, RowAt
    <2> QED  BY <2>1, <2>2 DEF FlushIsInFile
  <1> QED  BY <1>2, <1>3, <1>4 DEF KeptInv

\* publish_durable() with an empty buffer: all that was read is on disk, or was
\* found overwritten, or is not of the trading window.
LEMMA CaughtUpKeeps ==
  ASSUME CursorInv, KeptInv, buf = <<>>, durable' = readSeq, tpc' # "flush",
         UNCHANGED <<files, segment, buf, window, readSeq, Lost>>
  PROVE  KeptInv'
  <1>1. readSeq \in Nat /\ durable \in Nat /\ durable <= readSeq /\ window \subseteq Int
    <2>1. /\ appended \in 0 .. MaxTicks /\ committed \in 0 .. appended
          /\ readSeq \in 0 .. committed /\ durable \in 0 .. readSeq
          /\ window \subseteq 0 .. appended - 1 /\ MaxTicks \in Nat
      BY TailerAssumption DEF CursorInv, TypeOK
    <2> QED  BY <2>1
  <1>2. \A p : ~Buffered(p)
    BY DEF Buffered
  <1>3. ReadIsKept'
    BY <1>1 DEF ReadIsKept
  <1>4. DurableIsOnDisk'
    <2>1. \A p \in window : p < readSeq => OnDisk(p) \/ p \in Lost
      <3> TAKE p \in window
      <3>1. CASE p < durable
        BY <3>1 DEF KeptInv, DurableIsOnDisk
      <3>2. CASE durable <= p /\ p < readSeq
        BY <1>2, <3>2 DEF KeptInv, ReadIsKept
      <3> QED  BY <1>1, <3>1, <3>2
    <2> QED  BY <2>1 DEF DurableIsOnDisk, OnDisk, RowsOf, RowAt
  <1>5. FlushIsInFile'
    BY DEF FlushIsInFile
  <1> QED  BY <1>3, <1>4, <1>5 DEF KeptInv

-----------------------------------------------------------------------------
(* The tailer's loop.                                                      *)

\* A record that is found overwritten is remembered.
LEMMA SkipKeeps ==
  ASSUME CursorInv, KeptInv, Skip
  PROVE  KeptInv'
  <1>1. /\ readSeq' = readSeq + 1 /\ Lost' = Lost \cup {readSeq}
        /\ tpc' # "flush"
        /\ UNCHANGED <<files, segment, fdOpen, buf, durable, window>>
    BY DEF Skip, Onward, Lost, writerVars, walVars
  <1>2. readSeq \in Nat /\ window \subseteq Int
    <2>1. /\ appended \in 0 .. MaxTicks /\ committed \in 0 .. appended
          /\ readSeq \in 0 .. committed
          /\ window \subseteq 0 .. appended - 1 /\ MaxTicks \in Nat
      BY TailerAssumption DEF CursorInv, TypeOK
    <2> QED  BY <2>1
  <1>3. ReadIsKept'
    <2>1. ASSUME NEW p \in window, durable <= p, p < readSeq + 1
          PROVE  Buffered(p) \/ p \in Lost \/ p = readSeq
      BY <1>2, <2>1 DEF KeptInv, ReadIsKept
    <2> QED  BY <1>1, <2>1 DEF ReadIsKept, Buffered
  <1>4. DurableIsOnDisk'
    BY <1>1 DEF KeptInv, DurableIsOnDisk, OnDisk, RowsOf, RowAt
  <1>5. FlushIsInFile'
    BY <1>1 DEF FlushIsInFile
  <1> QED  BY <1>3, <1>4, <1>5 DEF KeptInv

\* A record that is kept is buffered if it is of the trading window, or its copy is of
\* another record, and that is remembered.
LEMMA KeepKeeps ==
  ASSUME CursorInv, KeptInv, KeepRecord
  PROVE  KeptInv'
  <1>1. readSeq \in Nat /\ window \subseteq Int
    <2>1. /\ appended \in 0 .. MaxTicks /\ committed \in 0 .. appended
          /\ readSeq \in 0 .. committed
          /\ window \subseteq 0 .. appended - 1 /\ MaxTicks \in Nat
      BY TailerAssumption DEF CursorInv, TypeOK
    <2> QED  BY <2>1
  <1>2. /\ readSeq' = readSeq + 1
        /\ UNCHANGED <<files, segment, durable, window>>
        /\ tpc' = "flush" => off' = 0
        /\ Lost' = IF copy = readSeq THEN Lost ELSE Lost \cup {readSeq}
    BY DEF KeepRecord, Onward, Lost, writerVars
  <1>3. /\ buf' = IF copy \in window THEN Append(buf, Row(readSeq, copy)) ELSE buf
        /\ buf \in Seq(RowSet) /\ Len(buf) \in Nat /\ Row(readSeq, copy) \in RowSet
    <2>1. /\ appended \in 0 .. MaxTicks /\ committed \in 0 .. appended
          /\ readSeq \in 0 .. committed /\ copy \in -1 .. MaxTicks /\ MaxTicks \in Nat
      BY TailerAssumption DEF CursorInv, TypeOK, Zeroed
    <2>2. Row(readSeq, copy) \in RowSet
      BY <2>1 DEF Row, RowSet
    <2> QED  BY <2>2 DEF KeepRecord, CursorInv, Shape
  <1>4. /\ Len(buf') \in Nat /\ Len(buf) <= Len(buf')
        /\ \A k \in 1 .. Len(buf) : buf'[k] = buf[k]
        /\ copy \in window => Len(buf') = Len(buf) + 1 /\ buf'[Len(buf) + 1] = Row(readSeq, copy)
    <2> DEFINE row == Row(readSeq, copy)
    <2> HIDE DEF row
    <2>1. buf \in Seq(RowSet) /\ Len(buf) \in Nat /\ row \in RowSet
      BY <1>3 DEF row
    <2>2. CASE copy \in window
      <3>1. buf' = Append(buf, row)
        BY <1>3, <2>2 DEF row
      <3>2. /\ Len(Append(buf, row)) = Len(buf) + 1
            /\ \A k \in 1 .. Len(buf) : Append(buf, row)[k] = buf[k]
            /\ Append(buf, row)[Len(buf) + 1] = row
        BY <2>1
      <3> QED  BY <2>1, <3>1, <3>2 DEF row
    <2>3. CASE copy \notin window
      BY <1>3, <2>3
    <2> QED  BY <2>2, <2>3
  <1>5. ASSUME NEW p, Buffered(p) PROVE Buffered(p)'
    BY <1>3, <1>4, <1>5 DEF Buffered
  <1>6. ReadIsKept'
    <2>1. SUFFICES ASSUME NEW p \in window', durable' <= p, p < readSeq'
                   PROVE  Buffered(p)' \/ p \in Lost'
      BY DEF ReadIsKept
    <2>2. CASE p < readSeq
      BY <1>2, <1>5, <2>1, <2>2 DEF KeptInv, ReadIsKept
    <2>3. CASE p = readSeq /\ copy = readSeq
      <3>1. Len(buf) + 1 \in 1 .. Len(buf') /\ buf'[Len(buf) + 1] = Row(p, p)
        BY <1>2, <1>3, <1>4, <2>1, <2>3
      <3> QED  BY <3>1 DEF Buffered
    <2>4. CASE p = readSeq /\ copy # readSeq
      BY <1>2, <2>4
    <2> QED  BY <1>1, <1>2, <2>1, <2>2, <2>3, <2>4
  <1>7. DurableIsOnDisk'
    BY <1>2 DEF KeptInv, DurableIsOnDisk, OnDisk, RowsOf, RowAt
  <1>8. FlushIsInFile'
    BY <1>2 DEF FlushIsInFile
  <1> QED  BY <1>6, <1>7, <1>8 DEF KeptInv

\* The loop of the tailer.
LEMMA LoopKeeps ==
  ASSUME CursorInv, KeptInv,
         LoopCondition \/ LoadEnd \/ CheckIdentity \/ CopyRecord \/ Recheck
  PROVE  KeptInv'
  <1>1. CASE LoopCondition
    <2>1. /\ UNCHANGED <<files, segment, fdOpen, buf, durable, readSeq, Lost, window>>
          /\ tpc' # "flush"
      BY <1>1 DEF LoopCondition, writerVars, cursorVars, walVars, Lost
    <2> QED  BY <2>1, AsideKeeps
  <1>2. CASE LoadEnd
    <2>1. UNCHANGED <<files, segment, fdOpen, buf, readSeq, Lost, window>>
      BY <1>2 DEF LoadEnd, writerVars, Lost
    <2>2. CASE buf = <<>> /\ durable' = readSeq /\ tpc' # "flush"
      BY <2>1, <2>2, CaughtUpKeeps
    <2>3. CASE UNCHANGED durable /\ (tpc' = "flush" => off' = 0)
      BY <2>1, <2>3, AsideKeeps
    <2> QED  BY <1>2, <2>2, <2>3 DEF LoadEnd, IdleDurable
  <1>3. CASE CheckIdentity
    <2>1. \/ Skip
          \/ /\ UNCHANGED <<files, segment, fdOpen, buf, durable, readSeq, Lost, window>>
             /\ tpc' # "flush"
      BY <1>3 DEF CheckIdentity, writerVars, cursorVars, walVars, Lost
    <2> QED  BY <2>1, AsideKeeps, SkipKeeps
  <1>4. CASE CopyRecord
    <2>1. /\ UNCHANGED <<files, segment, fdOpen, buf, durable, readSeq, Lost, window>>
          /\ tpc' # "flush"
      BY <1>4 DEF CopyRecord, writerVars, walVars, Lost
    <2> QED  BY <2>1, AsideKeeps
  <1>5. CASE Recheck
    BY <1>5, SkipKeeps, KeepKeeps DEF Recheck
  <1> QED  BY <1>1, <1>2, <1>3, <1>4, <1>5

-----------------------------------------------------------------------------
(* flush().                                                                *)

\* An fsync, whether of a flush or of a close.
LEMMA SyncGrows ==
  ASSUME CursorInv, fdOpen, SyncFile \/ UNCHANGED files, UNCHANGED segment
  PROVE  WalGrows
  <1>1. /\ DOMAIN files' = DOMAIN files
        /\ \A i \in DOMAIN files : /\ files'[i].rows = files[i].rows
                                  /\ files[i].synced <= files'[i].synced
    BY SyncShape
  <1>2. \A i \in DOMAIN files : Len(files[i].rows) <= Len(files'[i].rows)
    BY <1>1, FileTyped
  <1>3. segment <= segment'
    BY DEF CursorInv, Shape
  <1> QED  BY <1>1, <1>2, <1>3 DEF WalGrows, RowsOf

\* After it, the rows of the open segment are on disk.
LEMMA SyncCovers ==
  ASSUME CursorInv, CursorInv', fdOpen, SyncFile, UNCHANGED segment, NEW row, InFile(row)
  PROVE  \E i \in DOMAIN files' :
           /\ i < segment'
           /\ \E k \in 1 .. Len(files'[i].rows) :
                k <= files'[i].synced /\ files'[i].rows[k] = row
  <1>1. PICK i \in DOMAIN files :
          /\ i < segment
          /\ \E k \in RowsOf(i) : /\ RowAt(i, k) = row
                                  /\ k <= files[i].synced \/ (fdOpen /\ i = Current)
    BY DEF InFile
  <1>2. PICK k \in RowsOf(i) : RowAt(i, k) = row /\ (k <= files[i].synced \/ i = Current)
    BY <1>1
  <1>3. /\ DOMAIN files' = DOMAIN files
        /\ files'[i].rows = files[i].rows
        /\ files[i].synced <= files'[i].synced
        /\ files'[i].synced <= Len(files[i].rows)
        /\ files' \in [DOMAIN files -> File]
    BY SyncShape
  <1>4. /\ Len(files[i].rows) \in Nat /\ files[i].synced \in Nat /\ files'[i].synced \in Nat
    BY <1>3, FileTyped DEF File
  <1>5. i = Current => files'[i].synced = Len(files[i].rows)
    <2>1. files \in [DOMAIN files -> File]
      BY DEF CursorInv, Shape
    <2> QED  BY <2>1 DEF SyncFile, File
  <1>6. k \in 1 .. Len(files'[i].rows) /\ k <= files'[i].synced /\ files'[i].rows[k] = row
    BY <1>2, <1>3, <1>4, <1>5 DEF RowsOf, RowAt
  <1> QED  BY <1>1, <1>3, <1>6

\* A new segment has no rows.
LEMMA OpenKeeps ==
  ASSUME CursorInv, CursorInv', KeptInv, OpenSegment
  PROVE  KeptInv'
  <1>1. /\ tpc = "flush" /\ ~fdOpen /\ segment \in Nat
        /\ UNCHANGED <<window, buf, off, durable, readSeq, Lost, tpc>>
        /\ segment' = segment + 1
    BY DEF OpenSegment, NeedsSegment, Lost, writerVars, cursorVars, CursorInv, Shape
  <1>2. /\ DOMAIN files' = DOMAIN files \cup {segment}
        /\ \A i \in DOMAIN files : i # segment => files'[i] = files[i]
        /\ files'[segment].rows = <<>>
    <2>1. files' = [i \in DOMAIN files \cup {segment} |->
                      IF i = segment THEN [rows |-> <<>>, synced |-> 0] ELSE files[i]]
      BY DEF OpenSegment
    <2> QED  BY <2>1
  <1>3. WalGrows
    BY <1>1, <1>2, FileTyped DEF WalGrows, RowsOf
  <1>4. ReadIsKept' /\ DurableIsOnDisk'
    BY <1>1, <1>3, GrowingKeeps DEF KeptInv
  <1>5. FlushIsInFile'
    <2>1. ASSUME NEW row, InFile(row) PROVE InFile(row)'
      <3>1. PICK i \in DOMAIN files : i < segment /\ \E k \in RowsOf(i) : RowAt(i, k) = row /\ k <= files[i].synced
        BY <1>1, <2>1 DEF InFile
      <3>2. i \in DOMAIN files' /\ i < segment' /\ files'[i] = files[i]
        BY <1>1, <1>2, <3>1, FileTyped
      <3> QED  BY <3>1, <3>2 DEF InFile, RowsOf, RowAt
    <2>2. \A k \in 1 .. off : InFile(buf[k])
      BY <1>1 DEF KeptInv, FlushIsInFile
    <2>3. SUFFICES ASSUME NEW k \in 1 .. off'
                   PROVE  InFile(buf[k])'
      BY DEF FlushIsInFile
    <2> DEFINE row == buf[k]
    <2>4. InFile(row)
      BY <1>1, <2>2, <2>3
    <2> QED  BY <1>1, <2>1, <2>4 DEF InFile, RowsOf, RowAt
  <1> QED  BY <1>4, <1>5 DEF KeptInv

\* Closing a full segment syncs it.
LEMMA CloseFullKeeps ==
  ASSUME CursorInv, CursorInv', KeptInv, CloseFull
  PROVE  KeptInv'
  <1>1. /\ tpc = "flush" /\ fdOpen /\ SyncFile
        /\ UNCHANGED <<window, buf, off, durable, readSeq, Lost, tpc, segment>>
    BY DEF CloseFull, Rotates, Lost, writerVars, cursorVars
  <1>2. WalGrows
    BY <1>1, SyncGrows
  <1>3. ReadIsKept' /\ DurableIsOnDisk'
    BY <1>1, <1>2, GrowingKeeps DEF KeptInv
  <1>4. FlushIsInFile'
    <2>1. SUFFICES ASSUME NEW k \in 1 .. off'
                   PROVE  InFile(buf[k])'
      BY DEF FlushIsInFile
    <2> DEFINE row == buf[k]
    <2>2. InFile(row)
      BY <1>1, <2>1 DEF KeptInv, FlushIsInFile
    <2>3. \E i \in DOMAIN files' :
             /\ i < segment'
             /\ \E j \in 1 .. Len(files'[i].rows) : j <= files'[i].synced /\ files'[i].rows[j] = row
      BY <1>1, <2>2, SyncCovers
    <2> QED  BY <1>1, <2>3 DEF InFile, RowsOf, RowAt
  <1> QED  BY <1>3, <1>4 DEF KeptInv

\* The rows that are written are in the open segment.
LEMMA WriteKeeps ==
  ASSUME CursorInv, CursorInv', KeptInv, WriteRows
  PROVE  KeptInv'
  <1>1. /\ Writes /\ tpc = "flush" /\ fdOpen /\ AppendRows(ChunkRows)
        /\ off' = off + Len(ChunkRows)
        /\ UNCHANGED <<window, buf, durable, readSeq, Lost, tpc, segment, fdOpen>>
    BY DEF WriteRows, Writes, Lost, writerVars, cursorVars
  <1>2. ~faulted /\ segment \in Nat /\ off \in Nat
    BY <1>1, TailerAssumption DEF CursorInv, Control, Shape, TypeOK
  <1>3. /\ ChunkRows \in Seq(RowSet) /\ Len(ChunkRows) \in 1 .. Len(buf) - off
        /\ rowsInSegment + Len(ChunkRows) <= SegmentRows
        /\ \A k \in 1 .. Len(ChunkRows) : ChunkRows[k] = buf[off + k]
    BY <1>1, ChunkRange
  <1> DEFINE chunk == ChunkRows
             old == files[Current].rows
  <1>4. /\ DOMAIN files' = DOMAIN files
        /\ \A i \in DOMAIN files :
             /\ files'[i].synced = files[i].synced
             /\ Len(files[i].rows) <= Len(files'[i].rows)
             /\ \A k \in 1 .. Len(files[i].rows) : files'[i].rows[k] = files[i].rows[k]
             /\ i # Current => files'[i] = files[i]
        /\ files'[Current].rows = old \o chunk
    BY <1>1, <1>2, <1>3, AppendShape
  <1>5. Current \in DOMAIN files /\ old \in Seq(RowSet) /\ Len(old) \in Nat /\ Current < segment
    BY <1>1, <1>2, CurrentFile, FileTyped DEF Current
  <1> HIDE DEF chunk
  <1>6. /\ Len(old \o chunk) = Len(old) + Len(chunk) /\ Len(chunk) \in Nat
        /\ \A k \in 1 .. Len(chunk) : (old \o chunk)[Len(old) + k] = chunk[k]
        /\ \A k \in 1 .. Len(old) : (old \o chunk)[k] = old[k]
    BY <1>3, <1>5 DEF chunk
  <1>7. WalGrows
    BY <1>1, <1>2, <1>4, FileTyped DEF WalGrows, RowsOf
  <1>8. ReadIsKept' /\ DurableIsOnDisk'
    BY <1>1, <1>7, GrowingKeeps DEF KeptInv
  <1>9. FlushIsInFile'
    <2>1. SUFFICES ASSUME NEW k \in 1 .. off'
                   PROVE  InFile(buf[k])'
      BY DEF FlushIsInFile
    <2> DEFINE row == buf[k]
    <2>2. Current' = Current
      BY <1>1 DEF Current
    <2>3. CASE k \in 1 .. off
      <3>1. InFile(row)
        BY <1>1, <2>3 DEF KeptInv, FlushIsInFile
      <3>2. PICK i \in DOMAIN files :
              /\ i < segment
              /\ \E l \in 1 .. Len(files[i].rows) :
                   files[i].rows[l] = row /\ (l <= files[i].synced \/ i = Current)
        BY <3>1 DEF InFile, RowsOf, RowAt
      <3>3. PICK l \in 1 .. Len(files[i].rows) :
              files[i].rows[l] = row /\ (l <= files[i].synced \/ i = Current)
        BY <3>2
      <3>4. l \in 1 .. Len(files'[i].rows)
        <4>1. Len(files[i].rows) \in Nat /\ Len(files'[i].rows) \in Nat
          BY <1>4, <1>5, <1>6, FileTyped
        <4> QED  BY <1>4, <4>1
      <3>5. files'[i].rows[l] = row /\ (l <= files'[i].synced \/ i = Current)
        BY <1>4, <3>3
      <3> HIDE DEF row
      <3>6. /\ i \in DOMAIN files' /\ i < segment' /\ l \in 1 .. Len(files'[i].rows)
            /\ files'[i].rows[l] = row /\ (l <= files'[i].synced \/ (fdOpen' /\ i = Current'))
        BY <1>1, <1>4, <2>2, <3>2, <3>4, <3>5
      <3>7. row = buf'[k]
        BY <1>1 DEF row
      <3> QED  BY <3>6, <3>7 DEF InFile, RowsOf, RowAt
    <2>4. CASE k \notin 1 .. off
      <3>1. k - off \in 1 .. Len(chunk) /\ Len(old) + (k - off) \in 1 .. Len(files'[Current].rows)
        BY <1>1, <1>2, <1>4, <1>5, <1>6, <2>1, <2>4 DEF chunk
      <3>2. chunk[k - off] = buf[k]
        <4>1. chunk[k - off] = buf[off + (k - off)] /\ off + (k - off) = k
          BY <1>2, <1>3, <2>1, <3>1 DEF chunk
        <4> QED  BY <4>1
      <3>3. files'[Current].rows[Len(old) + (k - off)] = row
        BY <1>4, <1>6, <3>1, <3>2
      <3> DEFINE l == Len(old) + (k - off)
      <3> HIDE DEF row, l
      <3>4. /\ Current \in DOMAIN files' /\ Current < segment' /\ l \in 1 .. Len(files'[Current].rows)
            /\ files'[Current].rows[l] = row /\ fdOpen'
        BY <1>1, <1>4, <1>5, <3>1, <3>3 DEF l
      <3>5. row = buf'[k]
        BY <1>1 DEF row
      <3> QED  BY <2>2, <3>4, <3>5 DEF InFile, RowsOf, RowAt
    <2> QED  BY <2>3, <2>4
  <1> QED  BY <1>8, <1>9 DEF KeptInv

\* durable_seq follows the fsync: the whole buffer is on disk.
LEMMA FlushedKeeps ==
  ASSUME CursorInv, CursorInv', KeptInv, Sync
  PROVE  KeptInv'
  <1>1. /\ tpc = "flush" /\ fdOpen /\ off = Len(buf) /\ SyncFile
        /\ durable' = readSeq /\ buf' = <<>> /\ tpc' # "flush"
        /\ UNCHANGED <<window, readSeq, Lost, segment, fdOpen>>
    BY DEF Sync, Syncs, FlushedDurable, Onward, Lost, writerVars
  <1>2. WalGrows
    BY <1>1, SyncGrows
  <1>3. readSeq \in Nat /\ durable \in Nat /\ durable <= readSeq /\ window \subseteq Int
    <2>1. /\ appended \in 0 .. MaxTicks /\ committed \in 0 .. appended
          /\ readSeq \in 0 .. committed /\ durable \in 0 .. readSeq
          /\ window \subseteq 0 .. appended - 1 /\ MaxTicks \in Nat
      BY TailerAssumption DEF CursorInv, TypeOK
    <2> QED  BY <2>1
  <1>4. ReadIsKept'
    BY <1>1, <1>3 DEF ReadIsKept
  <1>5. DurableIsOnDisk'
    <2>1. SUFFICES ASSUME NEW p \in window, p < readSeq
                   PROVE  OnDisk(p)' \/ p \in Lost
      BY <1>1 DEF DurableIsOnDisk
    <2>2. CASE p < durable
      BY <1>2, <2>2, StaysOnDisk DEF KeptInv, DurableIsOnDisk
    <2>3. CASE Buffered(p)
      <3>1. PICK k \in 1 .. Len(buf) : buf[k] = Row(p, p)
        BY <2>3 DEF Buffered
      <3> DEFINE row == buf[k]
      <3>2. InFile(row)
        BY <1>1 DEF KeptInv, FlushIsInFile
      <3>3. \E i \in DOMAIN files' :
               /\ i < segment'
               /\ \E j \in 1 .. Len(files'[i].rows) : j <= files'[i].synced /\ files'[i].rows[j] = row
        BY <1>1, <3>2, SyncCovers
      <3> QED  BY <3>1, <3>3 DEF OnDisk, RowsOf, RowAt
    <2> QED  BY <1>3, <2>1, <2>2, <2>3 DEF KeptInv, ReadIsKept
  <1>6. FlushIsInFile'
    BY <1>1 DEF FlushIsInFile
  <1> QED  BY <1>4, <1>5, <1>6 DEF KeptInv

\* A failure ends the flush, with every cursor where it was.
LEMMA FailureKeeps ==
  ASSUME CursorInv, CursorInv', KeptInv, FlushFails
  PROVE  KeptInv'
  <1>1. /\ WreckOpen \/ WreckClose \/ WreckWrite \/ WreckSync
        /\ tpc' = "exited"
        /\ UNCHANGED <<window, readSeq, Lost, durable, buf>>
    BY DEF FlushFails, FailClosed, Lost, writerVars, cursorVars
  <1>2. ~faulted
    BY <1>1 DEF WreckOpen, WreckClose, WreckWrite, WreckSync, NeedsSegment, Rotates, Writes, Syncs,
                CursorInv, Control
  <1>3. WalGrows
    BY <1>1, <1>2, WreckShape DEF WalGrows, RowsOf
  <1>4. ReadIsKept' /\ DurableIsOnDisk'
    BY <1>1, <1>3, GrowingKeeps DEF KeptInv
  <1>5. FlushIsInFile'
    BY <1>1 DEF FlushIsInFile
  <1> QED  BY <1>4, <1>5 DEF KeptInv

-----------------------------------------------------------------------------
(* stop(), and all steps together.                                         *)

\* stop() publishes durable_seq once the drain is over, and closes the segment.
LEMMA StopKeeps ==
  ASSUME CursorInv, CursorInv', KeptInv, StopBegin \/ Stopping
  PROVE  KeptInv'
  <1>1. CASE StopBegin
    <2>1. UNCHANGED <<files, segment, fdOpen, buf, durable, readSeq, Lost, window, tpc, off>>
      BY <1>1 DEF StopBegin, Lost, writerVars, cursorVars, walVars
    <2> QED  BY <2>1, AsideKeeps
  <1>2. CASE Join
    <2>1. /\ UNCHANGED <<files, segment, fdOpen, buf, durable, readSeq, Lost, window>>
          /\ tpc' = "flush" => off' = 0
      BY <1>2 DEF Join, Lost, writerVars, cursorVars
    <2> QED  BY <2>1, AsideKeeps
  <1>3. CASE DrainEnd
    <2>1. /\ UNCHANGED <<files, segment, fdOpen, buf, readSeq, Lost, window>>
          /\ tpc' # "flush"
          /\ durable' = IF faulted THEN durable ELSE readSeq
          /\ ~faulted => buf = <<>>
      BY <1>3 DEF DrainEnd, Lost, writerVars, cursorVars, walVars, CursorInv, Control
    <2> QED  BY <2>1, AsideKeeps, CaughtUpKeeps
  <1>4. CASE CloseLast
    <2>1. /\ UNCHANGED <<buf, durable, readSeq, Lost, window, tpc>>
          /\ tpc = "exited" /\ UNCHANGED segment /\ segment \in Nat
      BY <1>4 DEF CloseLast, Lost, writerVars, cursorVars, CursorInv, Control, Shape
    <2>2. UNCHANGED files \/ (fdOpen /\ (SyncFile \/ UNCHANGED files))
      BY <1>4 DEF CloseLast
    <2>3. WalGrows
      <3>1. CASE UNCHANGED files
        BY <2>1, <3>1, FileTyped DEF WalGrows, RowsOf
      <3>2. CASE fdOpen /\ (SyncFile \/ UNCHANGED files)
        BY <2>1, <3>2, SyncGrows
      <3> QED  BY <2>2, <3>1, <3>2
    <2>4. ReadIsKept' /\ DurableIsOnDisk'
      BY <2>1, <2>3, GrowingKeeps DEF KeptInv
    <2>5. FlushIsInFile'
      BY <2>1 DEF FlushIsInFile
    <2> QED  BY <2>4, <2>5 DEF KeptInv
  <1> QED  BY <1>1, <1>2, <1>3, <1>4 DEF Stopping

\* on_md writes nothing the tailer has read.
LEMMA OnMdKeeps ==
  ASSUME CursorInv, KeptInv, OnMd
  PROVE  KeptInv'
  <1>1. /\ UNCHANGED <<files, segment, fdOpen, buf, durable, readSeq, Lost, tpc, off>>
        /\ window' \subseteq window \cup {appended}
    <2>1. CASE TakeTick
      BY <2>1 DEF TakeTick, Lost, cursorVars, walVars
    <2>2. CASE StoreSeq \/ StoreData \/ Commit
      BY <2>2 DEF StoreSeq, StoreData, Commit, Lost, cursorVars, walVars
    <2> QED  BY <2>1, <2>2 DEF OnMd
  <1> QED  BY <1>1, AsideKeeps

\* Every step keeps the whole invariant, wherever the log begins.
LEMMA LogFromInductive ==
  ASSUME NEW first \in Nat, LogFrom(first), [Next]_vars
  PROVE  LogFrom(first)'
  <1>0. CursorInv /\ WriterInv(first) /\ LogInv(first) /\ CopyInv(first) /\ KeptInv
    BY DEF LogFrom
  <1>1. CursorInv' /\ WriterInv(first)' /\ LogInv(first)' /\ CopyInv(first)'
    BY <1>0, CursorsInductive, WriterInductive, LogInductive, CopyInductive
  <1>2. SUFFICES KeptInv'
    BY <1>1 DEF LogFrom
  <1>3. CASE OnMd
    BY <1>0, <1>3, OnMdKeeps
  <1>4. CASE Tailer
    <2>1. CASE Flush
      BY <1>0, <1>1, <2>1, OpenKeeps, CloseFullKeeps, WriteKeeps, FlushedKeeps, FailureKeeps
      DEF Flush
    <2> QED  BY <1>0, <1>4, <2>1, LoopKeeps DEF Tailer
  <1>5. CASE StopBegin \/ Stopping
    BY <1>0, <1>1, <1>5, StopKeeps
  <1>6. CASE UNCHANGED vars
    <2>1. UNCHANGED <<files, segment, fdOpen, buf, durable, readSeq, Lost, window, tpc, off>>
      BY <1>6 DEF vars, Lost, writerVars, cursorVars, walVars
    <2> QED  BY <1>0, <2>1, AsideKeeps
  <1> QED  BY <1>3, <1>4, <1>5, <1>6 DEF Next

LEMMA TailerInductive == TailerInv /\ [Next]_vars => TailerInv'
  BY LogFromInductive DEF TailerInv

\* What the invariant says of a log that begins at 0.
LEMMA TailerParts ==
  ASSUME TailerInv
  PROVE  /\ CursorInv /\ WriterInv(0) /\ LogInv(0) /\ CopyInv(0) /\ KeptInv
         /\ appended = IF wpc = "idle" THEN committed ELSE committed + 1
         /\ durableView <= durable /\ OverwritesAreCounted
  <1>1. CursorInv /\ WriterInv(0) /\ LogInv(0) /\ CopyInv(0) /\ KeptInv
    BY DEF TailerInv, LogFrom
  <1>2. TypeOK
    BY <1>1 DEF CursorInv
  <1>3. durable \in Nat /\ durableView \in Nat /\ appended \in Nat /\ overwrites \in Nat /\ LogCapacity \in Nat
    BY <1>2, TailerAssumption DEF TypeOK
  <1>4. durableView <= durable /\ OverwritesAreCounted
    BY <1>1, <1>3 DEF WriterInv, OverwritesAreCounted
  <1>5. appended = IF wpc = "idle" THEN committed ELSE committed + 1
    BY <1>1 DEF WriterInv, Newest
  <1> QED  BY <1>1, <1>4, <1>5

\* An empty log and an empty WAL keep everything.
LEMMA TailerInitially == Init => TailerInv
  <1> SUFFICES ASSUME Init
               PROVE  TailerInv
    OBVIOUS
  <1>1. CursorInv
    BY CursorsInitial
  <1>2. LogInv(0) /\ CopyInv(0)
    BY DEF Init, LogInv, CopyInv, Zeroed
  <1>3. KeptInv
    <2>1. DOMAIN files = {} /\ Len(buf) = 0 /\ tpc = "loop" /\ window = {}
      BY DEF Init
    <2> QED
      BY <2>1 DEF KeptInv, ReadIsKept, DurableIsOnDisk, FlushIsInFile
  <1>4. WriterInv(0)
    BY TailerAssumption DEF Init, WriterInv, Newest
  <1> QED  BY <1>1, <1>2, <1>3, <1>4 DEF TailerInv, LogFrom

\* The inductive invariant of the pipeline.
THEOREM TailerInvariant == Spec => []TailerInv
  BY TailerInitially, TailerInductive, PTL DEF Spec

\* Type correctness of the pipeline: read_seq, durable_seq and what on_md knows
\* of it never overtake committed_seq, and a fault is counted exactly once.
THEOREM TailerTypeCorrect == Spec => [](TypeOK /\ durableView <= durable)
  <1>1. TailerInv => TypeOK /\ durableView <= durable
    BY TailerParts DEF CursorInv
  <1> QED  BY <1>1, TailerInvariant, PTL

\* The guard counts every overwrite of a record that is not durable, however
\* stale its view and however far the tailer lags.
THEOREM GuardCounts == Spec => []OverwritesAreCounted
  <1>1. TailerInv => OverwritesAreCounted
    BY TailerParts
  <1> QED  BY <1>1, TailerInvariant, PTL

\* durable_seq tells the truth: what is below it is on disk, whole, or a lap of the log
\* has lost it, in whatever order the stores of a record become visible, whatever failed,
\* whenever stop() came, however far the writer was ahead.
THEOREM DurableIsDurable == Spec => []DurableIsOnDisk
  <1>1. TailerInv => DurableIsOnDisk
    BY TailerParts DEF KeptInv
  <1> QED  BY <1>1, TailerInvariant, PTL

-----------------------------------------------------------------------------
(* What is buffered and what is written, in every life: the rows of the    *)
(* buffer are those read since durable_seq, in order, none of them both     *)
(* whole and lost, and every row of the WAL of this life is claimed or of   *)
(* the batch that is being flushed.                                        *)

IsSound(row) == row.of = row.seq => row.seq \notin Lost

BufferInv ==
  \A k \in 1 .. Len(buf) :
    /\ buf[k].seq \in durable .. readSeq - 1
    /\ IsSound(buf[k])
    /\ \A l \in 1 .. Len(buf) : k < l => buf[k].seq < buf[l].seq

RowsAreClaimed ==
  ~faulted =>
    \A i \in DOMAIN files : i < segment => \A k \in RowsOf(i) :
      \/ RowAt(i, k).seq \in 0 .. durable - 1
      \/ tpc = "flush" /\ \E m \in 1 .. off : RowAt(i, k) = buf[m]

\* stop() waits for everything that was read, and where the feed has paused
\* for it (~IngestOutlivesStop) for everything that was committed.
DrainInv ==
  /\ running <=> mpc = "up"
  /\ mpc \in {"closing", "down"} /\ ~faulted => durable = readSeq /\ buf = <<>>
  /\ ~IngestOutlivesStop =>
       /\ mpc # "up" => wpc = "idle"
       /\ ~faulted /\ (tpc = "exited" \/ mpc = "draining") => mpc # "up" /\ readSeq = committed

CutInv == BufferInv /\ RowsAreClaimed /\ DrainInv

\* The types the following proofs need.
LEMMA TailerTyped ==
  ASSUME CursorInv
  PROVE  /\ appended \in Nat /\ committed \in Nat /\ readSeq \in Nat /\ durable \in Nat
         /\ durable <= readSeq /\ readSeq <= committed /\ committed <= appended
         /\ window \subseteq 0 .. appended - 1
         /\ skipped \subseteq 0 .. readSeq - 1 /\ Lost \subseteq 0 .. readSeq - 1
         /\ buf \in Seq(RowSet) /\ Len(buf) \in Nat /\ off \in Nat
         /\ segment \in Nat /\ DOMAIN files \subseteq Nat
  <1>1. /\ appended \in 0 .. MaxTicks /\ committed \in 0 .. appended
        /\ readSeq \in 0 .. committed /\ durable \in 0 .. readSeq /\ MaxTicks \in Nat
        /\ off \in 0 .. FlushRows /\ FlushRows \in Nat
        /\ window \subseteq 0 .. appended - 1 /\ skipped \subseteq 0 .. readSeq - 1
        /\ damaged \subseteq 0 .. readSeq - 1 /\ DOMAIN files \subseteq Nat
    BY TailerAssumption DEF CursorInv, TypeOK
  <1>2. buf \in Seq(RowSet) /\ segment \in Nat
    BY DEF CursorInv, Shape
  <1> QED  BY <1>1, <1>2 DEF Lost

\* The steps that change the buffer or what is read.
LEMMA BufferSteps ==
  ASSUME CursorInv, [Next]_vars
  PROVE  \/ UNCHANGED <<buf, durable, readSeq, Lost>>
         \/ Skip
         \/ tpc = "recheck" /\ KeepRecord
         \/ buf' = <<>>
  <1>1. CASE OnMd \/ UNCHANGED vars
    BY <1>1 DEF OnMd, TakeTick, StoreSeq, StoreData, Commit, vars, cursorVars, Lost
  <1>2. CASE Tailer
    <2>1. CASE Flush
      BY <2>1 DEF Flush, OpenSegment, CloseFull, WriteRows, Sync, FlushFails, cursorVars, Lost
    <2>2. CASE LoopCondition \/ CheckIdentity \/ CopyRecord \/ Recheck
      BY <2>2 DEF LoopCondition, CheckIdentity, CopyRecord, Recheck, cursorVars, Lost
    <2>3. CASE LoadEnd
      <3>1. UNCHANGED durable \/ buf = <<>>
        BY <2>3 DEF LoadEnd
      <3>2. UNCHANGED <<buf, readSeq, Lost>>
        BY <2>3 DEF LoadEnd, Lost
      <3> QED  BY <3>1, <3>2
    <2> QED  BY <1>2, <2>1, <2>2, <2>3 DEF Tailer
  <1>3. CASE StopBegin \/ Join \/ CloseLast
    BY <1>3 DEF StopBegin, Join, CloseLast, cursorVars, Lost
  <1>4. CASE DrainEnd
    BY <1>4 DEF DrainEnd, cursorVars, Lost, CursorInv, Control
  <1> QED  BY <1>1, <1>2, <1>3, <1>4 DEF Next, Stopping

\* The buffer holds what was read since durable_seq, by increasing global_seq.
LEMMA BufferInductive ==
  ASSUME CursorInv, BufferInv, [Next]_vars
  PROVE  BufferInv'
  <1>1. /\ readSeq \in Nat /\ durable \in Nat /\ durable <= readSeq
        /\ Lost \subseteq 0 .. readSeq - 1
        /\ buf \in Seq(RowSet) /\ Len(buf) \in Nat
    BY TailerTyped
  <1>2. CASE UNCHANGED <<buf, durable, readSeq, Lost>>
    BY <1>2 DEF BufferInv, IsSound
  <1>3. CASE buf' = <<>>
    <2>1. Len(buf') = 0
      BY <1>3
    <2> QED  BY <2>1 DEF BufferInv
  <1>4. CASE Skip
    <2>1. readSeq' = readSeq + 1 /\ Lost' = Lost \cup {readSeq} /\ UNCHANGED <<buf, durable>>
      BY <1>4 DEF Skip, Lost
    <2> QED  BY <1>1, <2>1 DEF BufferInv, IsSound
  <1>5. CASE tpc = "recheck" /\ KeepRecord
    <2>1. /\ readSeq' = readSeq + 1 /\ UNCHANGED durable
          /\ Lost' = IF copy = readSeq THEN Lost ELSE Lost \cup {readSeq}
          /\ buf' = IF copy \in window THEN Append(buf, Row(readSeq, copy)) ELSE buf
      BY <1>5 DEF KeepRecord, Lost
    <2>2. CASE copy \in window
      <3> DEFINE row == Row(readSeq, copy)
      <3>1. row \in RowSet
        BY TailerAssumption DEF CursorInv, TypeOK, Row, RowSet, Zeroed
      <3>2. row.seq = readSeq /\ row.of = copy
        BY DEF Row
      <3> HIDE DEF row
      <3>3. /\ Len(Append(buf, row)) = Len(buf) + 1 /\ Append(buf, row)[Len(buf) + 1] = row
            /\ \A k \in 1 .. Len(buf) : Append(buf, row)[k] = buf[k]
        BY <1>1, <3>1
      <3>4. /\ Len(buf') = Len(buf) + 1 /\ buf'[Len(buf) + 1] = row
            /\ \A k \in 1 .. Len(buf) : buf'[k] = buf[k]
        BY <2>1, <2>2, <3>3 DEF row
      <3>5. \A k \in 1 .. Len(buf) : buf[k].seq \in durable .. readSeq - 1 /\ IsSound(buf[k])
        BY DEF BufferInv
      <3>6. \A k \in 1 .. Len(buf') :
              k \in 1 .. Len(buf) \/ (k = Len(buf) + 1 /\ buf'[k] = row)
        BY <1>1, <3>4
      <3>7. ASSUME NEW k \in 1 .. Len(buf')
            PROVE  /\ buf'[k].seq \in durable' .. readSeq' - 1 /\ IsSound(buf[k])'
                   /\ \A l \in 1 .. Len(buf') : k < l => buf'[k].seq < buf'[l].seq
        <4>1. CASE k \in 1 .. Len(buf)
          <5>1. /\ buf'[k].seq \in durable .. readSeq - 1 /\ IsSound(buf[k])
                /\ buf'[k] = buf[k]
            BY <3>4, <3>5, <4>1
          <5>2. ASSUME NEW l \in 1 .. Len(buf'), k < l
                PROVE  buf'[k].seq < buf'[l].seq
            <6>1. CASE l \in 1 .. Len(buf)
              BY <3>4, <4>1, <5>1, <5>2, <6>1 DEF BufferInv
            <6>2. CASE l \notin 1 .. Len(buf)
              BY <1>1, <3>2, <3>6, <5>1, <6>2
            <6> QED  BY <6>1, <6>2
          <5>3. IsSound(buf[k])'
            BY <1>1, <2>1, <5>1 DEF IsSound
          <5> QED  BY <1>1, <2>1, <5>1, <5>2, <5>3
        <4>2. CASE k \notin 1 .. Len(buf)
          <5>1. k = Len(buf) + 1 /\ buf'[k].seq = readSeq /\ buf'[k].of = copy
            BY <3>2, <3>6, <4>2
          <5>2. \A l \in 1 .. Len(buf') : ~(k < l)
            BY <1>1, <3>4, <5>1
          <5>3. IsSound(buf[k])'
            BY <1>1, <2>1, <5>1 DEF IsSound
          <5> QED  BY <1>1, <2>1, <5>1, <5>2, <5>3
        <4> QED  BY <4>1, <4>2
      <3> QED  BY <3>7 DEF BufferInv
    <2>3. CASE copy \notin window
      BY <1>1, <2>1, <2>3 DEF BufferInv, IsSound
    <2> QED  BY <2>2, <2>3
  <1> QED  BY <1>2, <1>3, <1>4, <1>5, BufferSteps

\* Where a row of the WAL comes from after a write, complete or not: it was there,
\* or it is the next of the buffer, or the torn end of a write that has failed.
LEMMA WrittenRows ==
  ASSUME CursorInv, WriteRows \/ (WreckWrite /\ faulted' = TRUE), ~faulted
  PROVE  /\ Current \in DOMAIN files /\ DOMAIN files' = DOMAIN files /\ UNCHANGED segment
         /\ \A i \in DOMAIN files : \A k \in 1 .. Len(files'[i].rows) :
              \/ k \in 1 .. Len(files[i].rows) /\ files'[i].rows[k] = files[i].rows[k]
              \/ /\ i = Current /\ k > Len(files[i].rows)
                 /\ off + (k - Len(files[i].rows)) \in off + 1 .. Len(buf)
                 /\ files'[i].rows[k] = buf[off + (k - Len(files[i].rows))]
              \/ /\ i = Current /\ k > Len(files[i].rows) /\ faulted'
                 /\ k = Len(files'[i].rows) /\ files'[i].rows[k] = TornRow
         /\ \A i \in DOMAIN files :
              /\ Len(files[i].rows) <= Len(files'[i].rows)
              /\ files'[i].synced = files[i].synced
              /\ \A k \in 1 .. Len(files[i].rows) : files'[i].rows[k] = files[i].rows[k]
              /\ i # Current => files'[i] = files[i]
         /\ WriteRows => Len(files'[Current].rows) <= Len(files[Current].rows) + (off' - off)
  <1>1. /\ Writes /\ fdOpen /\ UNCHANGED segment /\ off \in Nat /\ Len(buf) \in Nat
        /\ Current \in DOMAIN files
    BY TailerTyped, CurrentFile DEF WriteRows, WreckWrite, Writes
  <1>2. /\ ChunkRows \in Seq(RowSet) /\ Len(ChunkRows) \in 1 .. Len(buf) - off
        /\ rowsInSegment + Len(ChunkRows) <= SegmentRows
        /\ \A k \in 1 .. Len(ChunkRows) : ChunkRows[k] = buf[off + k]
    BY <1>1, ChunkRange
  <1>3. PICK rows \in Seq(RowSet) :
          /\ AppendRows(rows) /\ Len(rows) <= Len(ChunkRows)
          /\ WriteRows => off' - off = Len(rows)
          /\ \A k \in 1 .. Len(rows) :
               \/ rows[k] = TornRow /\ k = Len(rows) /\ faulted'
               \/ k \in 1 .. Len(ChunkRows) /\ rows[k] = ChunkRows[k]
    <2>1. CASE WriteRows
      <3>1. off' = off + Len(ChunkRows) /\ AppendRows(ChunkRows)
        BY <2>1 DEF WriteRows
      <3> HIDE DEF ChunkRows
      <3>2. off' - off = Len(ChunkRows) /\ Len(ChunkRows) <= Len(ChunkRows)
        BY <1>1, <1>2, <3>1
      <3> QED  BY <1>2, <3>1, <3>2
    <2>2. CASE WreckWrite /\ faulted' = TRUE /\ ~WriteRows
      <3>1. PICK n \in 0 .. Len(ChunkRows) - 1, torn \in {<<>>, <<TornRow>>} :
              AppendRows(SubSeq(ChunkRows, 1, n) \o torn)
        BY <2>2 DEF WreckWrite
      <3> DEFINE rows == SubSeq(ChunkRows, 1, n) \o torn
      <3>2. /\ rows \in Seq(RowSet) /\ Len(rows) <= Len(ChunkRows)
            /\ \A k \in 1 .. Len(rows) :
                 \/ rows[k] = TornRow /\ k = Len(rows)
                 \/ k \in 1 .. Len(ChunkRows) /\ rows[k] = ChunkRows[k]
        BY <1>1, WreckRange
      <3>3. AppendRows(rows)
        BY <3>1
      <3> HIDE DEF rows
      <3> QED  BY <2>2, <3>2, <3>3
    <2> QED  BY <2>1, <2>2
  <1> HIDE DEF ChunkRows
  <1>4. Len(rows) \in Nat /\ rowsInSegment + Len(rows) <= SegmentRows
    <2>1. Len(rows) \in Nat /\ rowsInSegment \in Nat /\ SegmentRows \in Nat
      BY <1>3, TailerAssumption DEF CursorInv, TypeOK
    <2> QED  BY <1>2, <1>3, <2>1
  <1>5. /\ DOMAIN files' = DOMAIN files
        /\ \A i \in DOMAIN files :
             /\ Len(files[i].rows) <= Len(files'[i].rows)
             /\ files'[i].synced = files[i].synced
             /\ \A k \in 1 .. Len(files[i].rows) : files'[i].rows[k] = files[i].rows[k]
             /\ i # Current => files'[i] = files[i]
        /\ files'[Current].rows = files[Current].rows \o rows
    BY <1>1, <1>3, <1>4, AppendShape
  <1> DEFINE old == files[Current].rows
  <1>6. old \in Seq(RowSet) /\ Len(old) \in Nat
    BY <1>1, CurrentFile
  <1>7. /\ Len(old \o rows) = Len(old) + Len(rows)
        /\ \A k \in 1 .. Len(rows) : (old \o rows)[Len(old) + k] = rows[k]
    BY <1>3, <1>4, <1>6
  <1>8. ASSUME NEW i \in DOMAIN files, NEW k \in 1 .. Len(files'[i].rows), k \notin 1 .. Len(files[i].rows)
        PROVE  /\ i = Current /\ k > Len(files[i].rows)
               /\ \/ /\ off + (k - Len(files[i].rows)) \in off + 1 .. Len(buf)
                     /\ files'[i].rows[k] = buf[off + (k - Len(files[i].rows))]
                  \/ faulted' /\ k = Len(files'[i].rows) /\ files'[i].rows[k] = TornRow
    <2>1. i = Current
      BY <1>5, <1>8
    <2> DEFINE j == k - Len(old)
    <2>0. k \in 1 .. Len(old) + Len(rows) /\ k \notin 1 .. Len(old)
      BY <1>5, <1>7, <1>8, <2>1
    <2>2. k > Len(old) /\ j \in 1 .. Len(rows) /\ Len(old) + j = k
      BY <1>4, <1>6, <2>0
    <2> HIDE DEF j
    <2>3. files'[i].rows[k] = rows[j]
      BY <1>5, <1>7, <2>1, <2>2
    <2>4. CASE rows[j] = TornRow /\ j = Len(rows) /\ faulted'
      BY <1>5, <1>7, <2>1, <2>2, <2>3, <2>4
    <2>5. CASE j \in 1 .. Len(ChunkRows) /\ rows[j] = ChunkRows[j]
      <3>1. off + j \in off + 1 .. Len(buf) /\ ChunkRows[j] = buf[off + j]
        BY <1>1, <1>2, <2>5
      <3> QED  BY <2>1, <2>2, <2>3, <2>5, <3>1 DEF j
    <2> QED  BY <1>3, <2>1, <2>2, <2>4, <2>5
  <1>9. WriteRows => Len(files'[Current].rows) <= Len(files[Current].rows) + (off' - off)
    BY <1>3, <1>4, <1>5, <1>6, <1>7
  <1> QED  BY <1>1, <1>5, <1>8, <1>9

\* No step but a write puts rows into the WAL of this life.
RowsAsBefore ==
  \A i \in DOMAIN files' : i < segment' =>
    \/ Len(files'[i].rows) = 0
    \/ i \in DOMAIN files /\ i < segment /\ files'[i].rows = files[i].rows

LEMMA OtherSteps ==
  ASSUME CursorInv, [Next]_vars, ~faulted, ~WriteRows, ~FlushFails
  PROVE  RowsAsBefore
  <1>0. segment \in Nat /\ DOMAIN files \subseteq Nat
    BY TailerTyped
  <1>1. CASE UNCHANGED <<files, segment>>
    BY <1>1 DEF RowsAsBefore
  <1>2. CASE fdOpen /\ (SyncFile \/ UNCHANGED files) /\ UNCHANGED segment
    BY <1>2, SyncShape DEF RowsAsBefore
  <1>3. CASE OpenSegment
    <2>1. /\ segment' = segment + 1
          /\ files' = [i \in DOMAIN files \cup {segment} |->
                         IF i = segment THEN [rows |-> <<>>, synced |-> 0] ELSE files[i]]
      BY <1>3 DEF OpenSegment
    <2>2. ASSUME NEW i \in DOMAIN files', i < segment'
          PROVE  \/ Len(files'[i].rows) = 0
                 \/ i \in DOMAIN files /\ i < segment /\ files'[i].rows = files[i].rows
      <3>1. CASE i = segment
        BY <2>1, <3>1
      <3>2. CASE i # segment
        BY <1>0, <2>1, <2>2, <3>2
      <3> QED  BY <3>1, <3>2
    <2> QED  BY <2>2 DEF RowsAsBefore
  <1>4. CASE OnMd \/ UNCHANGED vars \/ StopBegin \/ Join \/ DrainEnd
    BY <1>1, <1>4 DEF OnMd, TakeTick, StoreSeq, StoreData, Commit, vars, walVars, StopBegin, Join, DrainEnd
  <1>5. CASE CloseLast
    BY <1>1, <1>2, <1>5 DEF CloseLast
  <1>6. CASE CloseFull \/ Sync
    BY <1>2, <1>6 DEF CloseFull, Rotates, Sync, Syncs
  <1>7. CASE LoopCondition \/ LoadEnd \/ CheckIdentity \/ CopyRecord \/ Recheck
    BY <1>1, <1>7 DEF LoopCondition, LoadEnd, CheckIdentity, CopyRecord, Recheck, Skip, KeepRecord, walVars
  <1> QED  BY <1>3, <1>4, <1>5, <1>6, <1>7 DEF Next, Stopping, Tailer, Flush

\* A fault stays.
LEMMA FaultStays ==
  ASSUME CursorInv, [Next]_vars, ~faulted'
  PROVE  ~faulted /\ ~FlushFails
  <1>1. ~FlushFails
    BY DEF FlushFails, FailClosed
  <1> SUFFICES ~faulted
    BY <1>1
  <1>2. CASE OnMd \/ UNCHANGED vars \/ StopBegin \/ Join \/ DrainEnd
    BY <1>2 DEF OnMd, TakeTick, StoreSeq, StoreData, Commit, vars, faultVars, StopBegin, Join, DrainEnd
  <1>3. CASE CloseLast
    BY <1>3 DEF CloseLast, faultVars
  <1>4. CASE LoopCondition \/ LoadEnd \/ CheckIdentity \/ CopyRecord \/ Recheck
    BY <1>4 DEF LoopCondition, LoadEnd, CheckIdentity, CopyRecord, Recheck, Skip, KeepRecord, faultVars
  <1>5. CASE OpenSegment \/ CloseFull \/ WriteRows \/ Sync
    BY <1>5 DEF OpenSegment, CloseFull, WriteRows, Sync, faultVars
  <1> QED  BY <1>1, <1>2, <1>3, <1>4, <1>5 DEF Next, Stopping, Tailer, Flush

\* A batch in the middle of its flush is left alone, and durable_seq only grows.
LEMMA BatchStays ==
  ASSUME CursorInv, [Next]_vars, ~WriteRows, ~FlushFails, ~Sync
  PROVE  /\ durable <= durable'
         /\ tpc = "flush" => tpc' = "flush" /\ UNCHANGED <<buf, off>>
  <1>1. durable \in Nat /\ readSeq \in Nat /\ durable <= readSeq
    BY TailerTyped
  <1>2. CASE OnMd \/ UNCHANGED vars \/ StopBegin
    BY <1>1, <1>2 DEF OnMd, TakeTick, StoreSeq, StoreData, Commit, vars, walVars, StopBegin
  <1>3. CASE Join \/ DrainEnd \/ CloseLast
    BY <1>1, <1>3 DEF Join, DrainEnd, CloseLast, CursorInv, Control
  <1>4. CASE LoopCondition \/ CheckIdentity \/ CopyRecord \/ Recheck
    BY <1>1, <1>4 DEF LoopCondition, CheckIdentity, CopyRecord, Recheck, Skip, KeepRecord
  <1>5. CASE LoadEnd
    BY <1>1, <1>5 DEF LoadEnd, IdleDurable
  <1>6. CASE OpenSegment \/ CloseFull
    BY <1>1, <1>6 DEF OpenSegment, CloseFull
  <1> QED  BY <1>2, <1>3, <1>4, <1>5, <1>6 DEF Next, Stopping, Tailer, Flush

\* Short of a fault, every row of the WAL is claimed, or a row of the batch that is
\* being flushed.
LEMMA ClaimedInductive ==
  ASSUME CursorInv, BufferInv, RowsAreClaimed, [Next]_vars
  PROVE  RowsAreClaimed'
  <1>1. SUFFICES ASSUME ~faulted',
                        NEW i \in DOMAIN files', i < segment', NEW k \in 1 .. Len(files'[i].rows)
                 PROVE  \/ files'[i].rows[k].seq \in 0 .. durable' - 1
                        \/ tpc' = "flush" /\ \E m \in 1 .. off' : files'[i].rows[k] = buf'[m]
    BY DEF RowsAreClaimed, RowsOf, RowAt
  <1>2. ~faulted /\ ~FlushFails
    BY <1>1, FaultStays
  <1>3. /\ readSeq \in Nat /\ durable \in Nat /\ durable <= readSeq
        /\ Len(buf) \in Nat /\ off \in Nat /\ segment \in Nat
    BY TailerTyped
  <1> DEFINE row == files'[i].rows[k]
  <1>4. ASSUME i \in DOMAIN files, i < segment, NEW j \in 1 .. Len(files[i].rows), files[i].rows[j] = row
        PROVE  row.seq \in 0 .. durable - 1 \/ (tpc = "flush" /\ \E m \in 1 .. off : row = buf[m])
    BY <1>2, <1>4 DEF RowsAreClaimed, RowsOf, RowAt
  <1>5. CASE WriteRows
    <2>1. /\ DOMAIN files' = DOMAIN files /\ UNCHANGED segment
          /\ \/ k \in 1 .. Len(files[i].rows) /\ files'[i].rows[k] = files[i].rows[k]
             \/ /\ i = Current /\ k > Len(files[i].rows)
                /\ off + (k - Len(files[i].rows)) \in off + 1 .. Len(buf)
                /\ files'[i].rows[k] = buf[off + (k - Len(files[i].rows))]
      BY <1>1, <1>2, <1>5, WrittenRows
    <2>2. /\ UNCHANGED <<buf, durable, tpc>> /\ tpc = "flush"
          /\ off' = off + Len(ChunkRows) /\ Len(ChunkRows) \in Nat
      BY <1>5, ChunkRange DEF WriteRows, Writes
    <2>3. CASE k \in 1 .. Len(files[i].rows) /\ files'[i].rows[k] = files[i].rows[k]
      <3>1. row.seq \in 0 .. durable - 1 \/ (\E m \in 1 .. off : row = buf[m])
        BY <1>1, <1>4, <2>1, <2>3
      <3> HIDE DEF row
      <3>2. \A m \in 1 .. off : m \in 1 .. off'
        BY <1>3, <2>2
      <3> QED  BY <2>2, <3>1, <3>2 DEF row
    <2>4. CASE /\ i = Current /\ k > Len(files[i].rows)
               /\ off + (k - Len(files[i].rows)) \in off + 1 .. Len(buf)
               /\ files'[i].rows[k] = buf[off + (k - Len(files[i].rows))]
      <3> DEFINE m == off + (k - Len(files[i].rows))
      <3>1. Len(files[i].rows) \in Nat /\ Len(files'[i].rows) <= Len(files[i].rows) + (off' - off)
        BY <1>2, <1>5, <2>4, WrittenRows, FileTyped
      <3>2. k \in Nat /\ k <= Len(files'[i].rows) /\ Len(files'[i].rows) \in Nat /\ off' \in Nat
        <4>1. CursorInv'
          BY CursorsInductive
        <4>2. Len(files'[i].rows) \in Nat /\ off' \in Nat
          <5>1. files' \in [DOMAIN files' -> File] /\ off' \in 0 .. FlushRows
            BY <4>1 DEF CursorInv, Shape, TypeOK
          <5>2. files'[i] \in File
            BY <1>1, <5>1
          <5> QED  BY <5>1, <5>2, TailerAssumption DEF File
        <4> QED  BY <1>1, <4>2
      <3>4. \A a, b, o, new \in Nat :
              b <= a + (new - o) /\ k <= b /\ k > a => o + (k - a) \in 1 .. new
        BY <3>2
      <3>3. m \in 1 .. off'
        BY <1>3, <2>4, <3>1, <3>2, <3>4
      <3> QED  BY <2>2, <2>4, <3>3
    <2> QED  BY <2>1, <2>3, <2>4
  <1>6. CASE Sync
    <2>1. /\ tpc = "flush" /\ fdOpen /\ off = Len(buf) /\ SyncFile /\ UNCHANGED segment
          /\ durable' = readSeq
      BY <1>6 DEF Sync, Syncs, FlushedDurable
    <2>2. i \in DOMAIN files /\ i < segment /\ files'[i].rows = files[i].rows
      BY <1>1, <2>1, SyncShape
    <2>3. row.seq \in 0 .. durable - 1 \/ (\E m \in 1 .. off : row = buf[m])
      BY <1>1, <1>4, <2>2
    <2>4. \A m \in 1 .. Len(buf) : buf[m].seq \in durable .. readSeq - 1
      BY DEF BufferInv
    <2> HIDE DEF row
    <2>5. row.seq \in 0 .. readSeq - 1
      BY <1>3, <2>1, <2>3, <2>4
    <2> QED  BY <2>1, <2>5 DEF row
  <1>7. CASE ~WriteRows /\ ~Sync
    <2>1. RowsAsBefore /\ durable <= durable' /\ (tpc = "flush" => tpc' = "flush" /\ UNCHANGED <<buf, off>>)
      BY <1>2, <1>7, OtherSteps, BatchStays
    <2>2. i \in DOMAIN files /\ i < segment /\ files'[i].rows = files[i].rows
      <3>1. Len(files'[i].rows) # 0
        BY <1>1
      <3> QED  BY <1>1, <2>1, <3>1 DEF RowsAsBefore
    <2>3. row.seq \in 0 .. durable - 1 \/ (tpc = "flush" /\ \E m \in 1 .. off : row = buf[m])
      BY <1>1, <1>4, <2>2
    <2>4. durable' \in Nat
      <3>1. CursorInv'
        BY CursorsInductive
      <3> QED  BY <3>1, TailerAssumption DEF CursorInv, TypeOK
    <2> HIDE DEF row
    <2>5. CASE row.seq \in 0 .. durable - 1
      <3>1. row.seq \in 0 .. durable' - 1
        BY <1>3, <2>1, <2>4, <2>5
      <3> QED  BY <3>1 DEF row
    <2>6. CASE tpc = "flush" /\ \E m \in 1 .. off : row = buf[m]
      BY <2>1, <2>6 DEF row
    <2> QED  BY <2>3, <2>5, <2>6
  <1> QED  BY <1>5, <1>6, <1>7

\* stop() waits.
LEMMA DrainInductive ==
  ASSUME CursorInv, DrainInv, [Next]_vars
  PROVE  DrainInv'
  <1> USE DEF DrainInv
  <1>0. Control /\ readSeq \in Nat /\ committed \in Nat /\ readSeq <= committed
    BY TailerTyped DEF CursorInv
  <1>1. CASE TakeTick
    BY <1>1 DEF TakeTick, cursorVars, faultVars, mainVars
  <1>2. CASE StoreSeq \/ StoreData
    BY <1>2 DEF StoreSeq, StoreData, cursorVars, faultVars, mainVars
  <1>3. CASE Commit
    BY <1>3 DEF Commit, cursorVars, faultVars, mainVars
  <1>4. CASE UNCHANGED vars
    BY <1>4 DEF vars, writerVars, cursorVars, faultVars, mainVars
  <1>5. CASE LoopCondition
    BY <1>0, <1>5 DEF LoopCondition, Exits, writerVars, cursorVars, faultVars, mainVars
  <1>6. CASE LoadEnd
    BY <1>0, <1>6 DEF LoadEnd, writerVars, faultVars, mainVars, Control
  <1>7. CASE CheckIdentity \/ CopyRecord \/ Recheck
    BY <1>0, <1>7 DEF CheckIdentity, CopyRecord, Recheck, Skip, Onward, KeepRecord,
                      writerVars, cursorVars, faultVars, mainVars, Control
  <1>8. CASE OpenSegment \/ CloseFull \/ WriteRows
    BY <1>0, <1>8 DEF OpenSegment, NeedsSegment, CloseFull, Rotates, WriteRows, Writes,
                      writerVars, cursorVars, faultVars, mainVars, Control
  <1>9. CASE Sync
    BY <1>0, <1>9 DEF Sync, Syncs, Onward, writerVars, faultVars, mainVars, Control
  <1>10. CASE FlushFails
    BY <1>0, <1>10 DEF FlushFails, FailClosed, writerVars, cursorVars, mainVars
  <1>11. CASE StopBegin
    BY <1>0, <1>11 DEF StopBegin, ClearRunning, writerVars, cursorVars, faultVars
  <1>12. CASE Join
    BY <1>0, <1>12 DEF Join, writerVars, cursorVars, faultVars
  <1>13. CASE DrainEnd
    BY <1>0, <1>13 DEF DrainEnd, writerVars, cursorVars, faultVars, Control
  <1>14. CASE CloseLast
    BY <1>0, <1>14 DEF CloseLast, writerVars, cursorVars, faultVars, Control
  <1> QED
    BY <1>1, <1>2, <1>3, <1>4, <1>5, <1>6, <1>7, <1>8, <1>9, <1>10, <1>11, <1>12, <1>13, <1>14
    DEF Next, OnMd, Tailer, Flush, Stopping

\* Together they are inductive.
LEMMA CutInductive ==
  ASSUME CursorInv, CutInv, [Next]_vars
  PROVE  CutInv'
  BY BufferInductive, ClaimedInductive, DrainInductive DEF CutInv

LEMMA CutInitially ==
  ASSUME Init
  PROVE  CutInv
  <1>1. Len(buf) = 0 /\ DOMAIN files = {}
    BY DEF Init
  <1> QED  BY <1>1 DEF Init, CutInv, BufferInv, RowsAreClaimed, DrainInv

LEMMA CutInvariant == Spec => [](CursorInv /\ CutInv)
  <1>1. Init => CursorInv /\ CutInv
    BY CursorsInitial, CutInitially
  <1>2. CursorInv /\ CutInv /\ [Next]_vars => CursorInv' /\ CutInv'
    BY CursorsInductive, CutInductive
  <1> QED  BY <1>1, <1>2, PTL DEF Spec

\* What both say of a pipeline that has been stopped.
LEMMA CleanCut ==
  ASSUME NEW first \in Nat, LogFrom(first), CutInv
  PROVE  CutIsClean
  <1> SUFFICES ASSUME mpc = "down", ~faulted
               PROVE  /\ durable = readSeq /\ buf = <<>>
                      /\ \A p \in window : p < readSeq => OnDisk(p) \/ p \in Lost
                      /\ \A p \in window : Written(p) => p < durable
    BY DEF CutIsClean
  <1>1. durable = readSeq /\ buf = <<>> /\ tpc = "exited" /\ durable \in Nat
    BY TailerTyped DEF CutInv, DrainInv, LogFrom, CursorInv, Control
  <1>2. \A p \in window : p < readSeq => OnDisk(p) \/ p \in Lost
    BY <1>1 DEF LogFrom, KeptInv, DurableIsOnDisk
  <1>3. ASSUME NEW p \in window, Written(p)
        PROVE  p < durable
    <2>1. PICK i \in DOMAIN files : i < segment /\ \E k \in RowsOf(i) : RowAt(i, k).seq = p
      BY <1>3 DEF Written
    <2>2. PICK k \in RowsOf(i) : RowAt(i, k).seq = p
      BY <2>1
    <2>3. RowAt(i, k).seq \in 0 .. durable - 1
      BY <1>1, <2>1 DEF CutInv, RowsAreClaimed
    <2> QED  BY <1>1, <2>2, <2>3
  <1> QED  BY <1>1, <1>2, <1>3

\* A stop() without a fault leaves all that was read on disk and claimed, and nothing in
\* the WAL beyond the claim, whatever the feed does while it runs.
THEOREM CutsAreClean == Spec => []CutIsClean
  <1>1. TailerInv /\ CutInv => CutIsClean
    BY CleanCut DEF TailerInv
  <1> QED  BY <1>1, TailerInvariant, CutInvariant, PTL

\* Where the feed has paused for it, a stop() without a fault has persisted every tick
\* on_md ever took: the thread drains the log, stop() the buffer.
THEOREM StopPersistsAll ==
  ASSUME ~IngestOutlivesStop
  PROVE  Spec => []AllPersisted
  <1>1. TailerInv /\ CutInv => AllPersisted
    <2> SUFFICES ASSUME TailerInv, CutInv, mpc = "down", ~faulted
                 PROVE  /\ durable = committed /\ committed = appended
                        /\ \A p \in window : OnDisk(p) \/ p \in Lost
      BY DEF AllPersisted
    <2>1. CursorInv /\ Control /\ appended = IF wpc = "idle" THEN committed ELSE committed + 1
      BY TailerParts DEF CursorInv
    <2>2. durable = readSeq /\ readSeq = committed /\ wpc = "idle"
      BY <2>1 DEF CutInv, DrainInv, Control
    <2>3. committed = appended /\ appended \in Nat /\ window \subseteq 0 .. appended - 1
      BY <2>1, <2>2, TailerTyped
    <2>4. \A p \in window : p < durable
      BY <2>2, <2>3
    <2> QED  BY <2>2, <2>3, <2>4, TailerParts DEF KeptInv, DurableIsOnDisk
  <1> QED  BY <1>1, TailerInvariant, CutInvariant, PTL

-----------------------------------------------------------------------------
(* The WAL of a first life, whose directory is its own.                    *)

FilesAreOwn == DOMAIN files \subseteq 0 .. segment - 1

RowsAreOfReads ==
  \A i \in DOMAIN files : \A k \in RowsOf(i) :
    /\ RowAt(i, k).seq \in -1 .. readSeq - 1
    /\ IsSound(RowAt(i, k))

\* The first half of WalIsOrdered.
RowsAreOrdered ==
  \A i, j \in DOMAIN files : \A k \in RowsOf(i), l \in RowsOf(j) :
    i < j \/ (i = j /\ k < l) =>
      /\ RowAt(i, k) # TornRow
      /\ RowAt(i, k).seq < RowAt(j, l).seq \/ (RowAt(j, l) = TornRow /\ faulted)

\* A segment is left only when it is full.
SegmentsAreFull ==
  \A i \in DOMAIN files :
    i + 1 < segment \/ (i + 1 = segment /\ ~fdOpen /\ ~faulted /\ mpc # "down")
      => Len(files[i].rows) = SegmentRows

OrderInv == FilesAreOwn /\ RowsAreOfReads /\ RowsAreOrdered /\ SegmentsAreFull

\* The files of a step that writes nothing.
LEMMA OwnFiles ==
  ASSUME CursorInv, FilesAreOwn, [Next]_vars
  PROVE  /\ FilesAreOwn'
         /\ segment' \in segment .. segment + 1
         /\ segment' # segment => OpenSegment \/ (FlushFails /\ WreckOpen)
         /\ ~WriteRows /\ ~(FlushFails /\ WreckWrite) =>
              \A i \in DOMAIN files' :
                \/ i = segment /\ OpenSegment /\ Len(files'[i].rows) = 0
                \/ i \in DOMAIN files /\ files'[i].rows = files[i].rows
  <1>0. segment \in Nat /\ DOMAIN files \subseteq Nat
    BY TailerTyped
  <1> DEFINE Same == \A i \in DOMAIN files' : i \in DOMAIN files /\ files'[i].rows = files[i].rows
  <1>1. CASE UNCHANGED <<files, segment>>
    BY <1>0, <1>1 DEF FilesAreOwn
  <1>2. CASE fdOpen /\ (SyncFile \/ UNCHANGED files) /\ UNCHANGED segment
    <2>1. DOMAIN files' = DOMAIN files /\ \A i \in DOMAIN files : files'[i].rows = files[i].rows
      BY <1>2, SyncShape
    <2> QED  BY <1>0, <1>2, <2>1 DEF FilesAreOwn
  <1>3. CASE OpenSegment
    <2>1. /\ segment' = segment + 1
          /\ files' = [i \in DOMAIN files \cup {segment} |->
                         IF i = segment THEN [rows |-> <<>>, synced |-> 0] ELSE files[i]]
      BY <1>3 DEF OpenSegment
    <2>2. /\ DOMAIN files' = DOMAIN files \cup {segment}
          /\ files'[segment].rows = <<>> /\ Len(files'[segment].rows) = 0
          /\ \A i \in DOMAIN files : i # segment => files'[i] = files[i]
      BY <2>1
    <2>3. FilesAreOwn'
      BY <1>0, <2>1, <2>2 DEF FilesAreOwn
    <2> QED  BY <1>0, <1>3, <2>1, <2>2, <2>3
  <1>4. CASE WriteRows \/ (FlushFails /\ WreckWrite)
    <2>1. ~faulted /\ (WriteRows \/ (WreckWrite /\ faulted' = TRUE))
      BY <1>4 DEF WriteRows, FlushFails, FailClosed, WreckWrite, Writes, CursorInv, Control
    <2>2. DOMAIN files' = DOMAIN files /\ UNCHANGED segment
      BY <2>1, WrittenRows
    <2> QED  BY <1>0, <1>4, <2>2 DEF FilesAreOwn
  <1>5. CASE FlushFails /\ ~WreckWrite
    <2>1. CASE WreckOpen
      <3>1. UNCHANGED <<files, fdOpen>> /\ segment' = segment + 1 /\ tpc = "flush" /\ ~fdOpen
        BY <2>1 DEF WreckOpen, NeedsSegment
      <3>2. FilesAreOwn' /\ segment' \in segment .. segment + 1
        BY <1>0, <3>1 DEF FilesAreOwn
      <3> QED  BY <1>5, <2>1, <3>1, <3>2
    <2>2. CASE WreckClose
      BY <1>2, <2>2 DEF WreckClose, Rotates
    <2>3. CASE WreckSync
      BY <1>1, <2>3 DEF WreckSync
    <2> QED  BY <1>5, <2>1, <2>2, <2>3 DEF FlushFails
  <1>6. CASE OnMd \/ UNCHANGED vars \/ StopBegin \/ Join \/ DrainEnd
    BY <1>1, <1>6 DEF OnMd, TakeTick, StoreSeq, StoreData, Commit, vars, walVars, StopBegin, Join, DrainEnd
  <1>7. CASE CloseLast
    BY <1>1, <1>2, <1>7 DEF CloseLast
  <1>8. CASE CloseFull \/ Sync
    BY <1>2, <1>8 DEF CloseFull, Rotates, Sync, Syncs
  <1>9. CASE LoopCondition \/ LoadEnd \/ CheckIdentity \/ CopyRecord \/ Recheck
    BY <1>1, <1>9 DEF LoopCondition, LoadEnd, CheckIdentity, CopyRecord, Recheck, Skip, KeepRecord, walVars
  <1> QED  BY <1>3, <1>4, <1>5, <1>6, <1>7, <1>8, <1>9 DEF Next, Stopping, Tailer, Flush

\* Reading goes on one by one.
LEMMA ReadSteps ==
  ASSUME CursorInv, [Next]_vars
  PROVE  \/ UNCHANGED <<readSeq, Lost>>
         \/ readSeq' = readSeq + 1 /\ Lost' \in {Lost, Lost \cup {readSeq}}
  <1>1. CASE OnMd \/ UNCHANGED vars \/ StopBegin \/ Stopping
    BY <1>1 DEF OnMd, TakeTick, StoreSeq, StoreData, Commit, vars, cursorVars, Lost,
                StopBegin, Stopping, Join, DrainEnd, CloseLast
  <1>2. CASE LoopCondition \/ LoadEnd \/ CheckIdentity \/ CopyRecord \/ Recheck
    BY <1>2 DEF LoopCondition, LoadEnd, CheckIdentity, CopyRecord, Recheck, Skip, KeepRecord, cursorVars,
                Lost
  <1>3. CASE Flush
    BY <1>3 DEF Flush, OpenSegment, CloseFull, WriteRows, Sync, FlushFails, cursorVars, Lost
  <1> QED  BY <1>1, <1>2, <1>3 DEF Next, Tailer

\* Rows are of records that were read, and a whole row of one that was not lost.
LEMMA ReadsInductive ==
  ASSUME CursorInv, FilesAreOwn, BufferInv, RowsAreOfReads, [Next]_vars
  PROVE  RowsAreOfReads'
  <1>1. SUFFICES ASSUME NEW i \in DOMAIN files', NEW k \in 1 .. Len(files'[i].rows)
                 PROVE  /\ files'[i].rows[k].seq \in -1 .. readSeq' - 1
                        /\ files'[i].rows[k].of = files'[i].rows[k].seq
                             => files'[i].rows[k].seq \notin Lost'
    BY DEF RowsAreOfReads, IsSound, RowsOf, RowAt
  <1>2. /\ readSeq \in Nat /\ durable \in Nat /\ durable <= readSeq
        /\ Lost \subseteq 0 .. readSeq - 1
    BY TailerTyped
  <1> DEFINE row == files'[i].rows[k]
  <1>3. row.seq \in -1 .. readSeq - 1 /\ IsSound(row)
    <2>1. ASSUME i \in DOMAIN files, k \in 1 .. Len(files[i].rows), row = files[i].rows[k]
          PROVE  row.seq \in -1 .. readSeq - 1 /\ IsSound(row)
      BY <2>1 DEF RowsAreOfReads, RowsOf, RowAt
    <2>2. CASE WriteRows \/ (FlushFails /\ WreckWrite)
      <3>1. ~faulted /\ (WriteRows \/ (WreckWrite /\ faulted' = TRUE))
        BY <2>2 DEF WriteRows, FlushFails, FailClosed, WreckWrite, Writes, CursorInv, Control
      <3>2. i \in DOMAIN files
        BY <1>1, <3>1, WrittenRows
      <3>3. \/ k \in 1 .. Len(files[i].rows) /\ files'[i].rows[k] = files[i].rows[k]
            \/ \E m \in off + 1 .. Len(buf) : files'[i].rows[k] = buf[m]
            \/ files'[i].rows[k] = TornRow
        BY <1>1, <3>1, <3>2, WrittenRows
      <3>4. CASE k \in 1 .. Len(files[i].rows) /\ files'[i].rows[k] = files[i].rows[k]
        BY <2>1, <3>2, <3>4
      <3>5. CASE \E m \in off + 1 .. Len(buf) : files'[i].rows[k] = buf[m]
        <4>1. PICK m \in off + 1 .. Len(buf) : row = buf[m]
          BY <3>5
        <4>2. m \in 1 .. Len(buf)
          BY <4>1, TailerTyped
        <4>3. buf[m].seq \in durable .. readSeq - 1 /\ IsSound(buf[m])
          BY <4>2 DEF BufferInv
        <4> QED  BY <1>2, <4>1, <4>3
      <3>6. CASE row = TornRow
        <4>1. row.seq = -1
          BY <3>6 DEF TornRow, Row
        <4> QED  BY <1>2, <4>1 DEF IsSound
      <3> QED  BY <3>3, <3>4, <3>5, <3>6
    <2>3. CASE ~WriteRows /\ ~(FlushFails /\ WreckWrite)
      <3>1. Len(files'[i].rows) # 0
        BY <1>1
      <3>2. i \in DOMAIN files /\ files'[i].rows = files[i].rows
        BY <1>1, <2>3, <3>1, OwnFiles
      <3> QED  BY <1>1, <2>1, <3>2
    <2> QED  BY <2>2, <2>3
  <1> HIDE DEF row
  <1>4. row.seq \in -1 .. readSeq' - 1 /\ (row.of = row.seq => row.seq \notin Lost')
    BY <1>2, <1>3, ReadSteps DEF IsSound
  <1> QED  BY <1>4 DEF row

\* A write continues the order of the WAL: everything before the batch is claimed,
\* and the batch is in order itself.
LEMMA OrderInductive ==
  ASSUME CursorInv, FilesAreOwn, BufferInv, RowsAreClaimed, RowsAreOrdered, [Next]_vars
  PROVE  RowsAreOrdered'
  <1>1. SUFFICES ASSUME NEW i \in DOMAIN files', NEW j \in DOMAIN files',
                        NEW k \in 1 .. Len(files'[i].rows), NEW l \in 1 .. Len(files'[j].rows),
                        i < j \/ (i = j /\ k < l)
                 PROVE  /\ files'[i].rows[k] # TornRow
                        /\ \/ files'[i].rows[k].seq < files'[j].rows[l].seq
                           \/ files'[j].rows[l] = TornRow /\ faulted'
    BY DEF RowsAreOrdered, RowsOf, RowAt
  <1> DEFINE first == files'[i].rows[k]
             second == files'[j].rows[l]
  <1>2. ASSUME i \in DOMAIN files, j \in DOMAIN files,
               k \in 1 .. Len(files[i].rows), first = files[i].rows[k],
               l \in 1 .. Len(files[j].rows), second = files[j].rows[l]
        PROVE  first # TornRow /\ (first.seq < second.seq \/ (second = TornRow /\ faulted'))
    <2>1. first # TornRow /\ (first.seq < second.seq \/ (second = TornRow /\ faulted))
      BY <1>1, <1>2 DEF RowsAreOrdered, RowsOf, RowAt
    <2>2. faulted => faulted'
      BY FaultStays
    <2> QED  BY <2>1, <2>2
  <1>3. CASE ~WriteRows /\ ~(FlushFails /\ WreckWrite)
    <2>1. Len(files'[i].rows) # 0 /\ Len(files'[j].rows) # 0
      BY <1>1
    <2>2. /\ i \in DOMAIN files /\ files'[i].rows = files[i].rows
          /\ j \in DOMAIN files /\ files'[j].rows = files[j].rows
      BY <1>1, <1>3, <2>1, OwnFiles
    <2> QED  BY <1>1, <1>2, <2>2
  <1>4. CASE WriteRows \/ (FlushFails /\ WreckWrite)
    <2>1. ~faulted /\ (WriteRows \/ (WreckWrite /\ faulted' = TRUE))
      BY <1>4 DEF WriteRows, FlushFails, FailClosed, WreckWrite, Writes, CursorInv, Control
    <2>2. i \in DOMAIN files /\ j \in DOMAIN files /\ Current \in DOMAIN files
      BY <1>1, <2>1, WrittenRows
    <2>3. /\ durable \in Nat /\ readSeq \in Nat /\ off \in Nat /\ Len(buf) \in Nat /\ segment \in Nat
          /\ Len(files[i].rows) \in Nat /\ Len(files[j].rows) \in Nat
          /\ i \in Nat /\ j \in Nat /\ i <= Current /\ j <= Current
      BY <2>2, TailerTyped, FileTyped DEF FilesAreOwn, Current
    <2>4. \/ k \in 1 .. Len(files[i].rows) /\ first = files[i].rows[k]
          \/ /\ i = Current /\ k > Len(files[i].rows)
             /\ off + (k - Len(files[i].rows)) \in off + 1 .. Len(buf)
             /\ first = buf[off + (k - Len(files[i].rows))]
          \/ /\ i = Current /\ k > Len(files[i].rows) /\ faulted'
             /\ k = Len(files'[i].rows) /\ first = TornRow
      BY <1>1, <2>1, <2>2, WrittenRows
    <2>5. \/ l \in 1 .. Len(files[j].rows) /\ second = files[j].rows[l]
          \/ /\ j = Current /\ l > Len(files[j].rows)
             /\ off + (l - Len(files[j].rows)) \in off + 1 .. Len(buf)
             /\ second = buf[off + (l - Len(files[j].rows))]
          \/ /\ j = Current /\ l > Len(files[j].rows) /\ faulted'
             /\ l = Len(files'[j].rows) /\ second = TornRow
      BY <1>1, <2>1, <2>2, WrittenRows
    <2>6. \A m \in 1 .. Len(buf) : /\ buf[m].seq \in durable .. readSeq - 1
                                  /\ \A n \in 1 .. Len(buf) : m < n => buf[m].seq < buf[n].seq
      BY DEF BufferInv
    <2>7. CASE k \in 1 .. Len(files[i].rows) /\ first = files[i].rows[k]
      <3>0. i < segment
        BY <2>3 DEF Current
      <3>1. first.seq \in 0 .. durable - 1 \/ \E m \in 1 .. off : first = buf[m]
        BY <2>1, <2>2, <2>7, <3>0 DEF RowsAreClaimed, RowsOf, RowAt
      <3>2. off <= Len(buf)
        BY <2>1 DEF WriteRows, WreckWrite, Writes, CursorInv, Control
      <3> HIDE DEF first
      <3>3. first.seq \in Nat
        BY <2>3, <2>6, <3>1, <3>2
      <3>4. first # TornRow
        BY <3>3 DEF TornRow, Row
      <3>5. CASE l \in 1 .. Len(files[j].rows) /\ second = files[j].rows[l]
        BY <1>2, <2>2, <2>7, <3>5 DEF first
      <3>6. CASE second = TornRow /\ faulted'
        BY <3>4, <3>6 DEF first
      <3>7. CASE /\ j = Current /\ l > Len(files[j].rows)
                 /\ off + (l - Len(files[j].rows)) \in off + 1 .. Len(buf)
                 /\ second = buf[off + (l - Len(files[j].rows))]
        <4>1. PICK n \in off + 1 .. Len(buf) : second = buf[n]
          BY <3>7
        <4> HIDE DEF second
        <4>2. first.seq < second.seq
          BY <2>3, <2>6, <3>1, <3>2, <4>1
        <4> QED  BY <3>4, <4>2 DEF first, second
      <3> QED  BY <2>5, <3>5, <3>6, <3>7
    <2>8. CASE /\ i = Current /\ k > Len(files[i].rows)
               /\ off + (k - Len(files[i].rows)) \in off + 1 .. Len(buf)
               /\ first = buf[off + (k - Len(files[i].rows))]
      <3>1. i = j /\ k < l
        BY <1>1, <2>3, <2>8
      <3>2. l > Len(files[j].rows)
        BY <1>1, <2>3, <2>8, <3>1
      <3> DEFINE m == off + (k - Len(files[i].rows))
      <3>3. m \in 1 .. Len(buf) /\ first = buf[m]
        BY <2>3, <2>8
      <3>4. first # TornRow
        <4> HIDE DEF m, first
        <4>1. first.seq \in Nat
          BY <2>3, <2>6, <3>3
        <4> QED  BY <4>1 DEF TornRow, Row
      <3>5. CASE second = TornRow /\ faulted'
        BY <3>4, <3>5
      <3>6. CASE /\ off + (l - Len(files[j].rows)) \in off + 1 .. Len(buf)
                 /\ second = buf[off + (l - Len(files[j].rows))]
        <4> DEFINE n == off + (l - Len(files[j].rows))
        <4>0. \A a \in Nat : off + (k - a) < off + (l - a)
          BY <1>1, <2>3, <3>1
        <4>a. m < n
          BY <2>3, <3>1, <4>0
        <4>b. n \in off + 1 .. Len(buf) /\ second = buf[n]
          BY <3>6
        <4> HIDE DEF n, m
        <4>1. n \in 1 .. Len(buf) /\ m < n /\ second = buf[n]
          BY <2>3, <4>a, <4>b
        <4> HIDE DEF m, n
        <4>2. buf[m].seq < buf[n].seq
          BY <2>6, <3>3, <4>1
        <4> QED  BY <3>3, <3>4, <4>1, <4>2
      <3>7. l \notin 1 .. Len(files[j].rows)
        BY <2>3, <3>2
      <3> HIDE DEF m, first, second
      <3> QED  BY <2>5, <3>5, <3>6, <3>7 DEF first, second
    <2>9. CASE i = Current /\ k = Len(files'[i].rows)
      BY <1>1, <2>3, <2>7, <2>8, <2>9, <2>4
    <2> QED  BY <2>4, <2>7, <2>8, <2>9
  <1> QED  BY <1>3, <1>4

\* A segment is left when it is full.
LEMMA FullInductive ==
  ASSUME CursorInv, FilesAreOwn, SegmentsAreFull, [Next]_vars
  PROVE  SegmentsAreFull'
  <1>0. /\ segment \in Nat /\ DOMAIN files \subseteq Nat
        /\ Control /\ Shape /\ TypeOK /\ SegmentRows \in Nat
    BY TailerTyped, TailerAssumption DEF CursorInv
  <1>1. ASSUME segment' = segment + 1, ~fdOpen, ~faulted, tpc = "flush",
               NEW i \in DOMAIN files', i \in DOMAIN files, files'[i].rows = files[i].rows,
               i + 1 < segment'
        PROVE  Len(files'[i].rows) = SegmentRows
    <2>1. i + 1 < segment \/ i + 1 = segment
      BY <1>0, <1>1
    <2> QED  BY <1>0, <1>1, <2>1 DEF SegmentsAreFull, Control
  <1>2. ASSUME UNCHANGED segment, NEW i \in DOMAIN files', i \in DOMAIN files,
               files'[i].rows = files[i].rows, i + 1 < segment'
        PROVE  Len(files'[i].rows) = SegmentRows
    BY <1>2 DEF SegmentsAreFull
  <1>3. CASE OpenSegment
    <2>1. /\ segment' = segment + 1 /\ ~fdOpen /\ tpc = "flush" /\ fdOpen' = TRUE
          /\ ~faulted /\ DOMAIN files' = DOMAIN files \cup {segment}
          /\ \A i \in DOMAIN files : i # segment => files'[i] = files[i]
      BY <1>0, <1>3 DEF OpenSegment, NeedsSegment, Control
    <2>2. ASSUME NEW i \in DOMAIN files', i + 1 < segment'
          PROVE  Len(files'[i].rows) = SegmentRows
      <3>1. i \in DOMAIN files /\ files'[i] = files[i]
        BY <1>0, <2>1, <2>2
      <3> QED  BY <1>1, <2>1, <2>2, <3>1
    <2> QED  BY <2>1, <2>2 DEF SegmentsAreFull
  <1>4. CASE CloseFull
    <2>1. fdOpen /\ ~faulted /\ SyncFile /\ UNCHANGED segment /\ rowsInSegment >= SegmentRows
      BY <1>0, <1>4 DEF CloseFull, Rotates, SegmentFull, Control
    <2>2. DOMAIN files' = DOMAIN files /\ \A i \in DOMAIN files : files'[i].rows = files[i].rows
      BY <2>1, SyncShape
    <2>3. Len(files[Current].rows) = SegmentRows
      <3>1. rowsInSegment = Len(files[Current].rows) /\ rowsInSegment \in 0 .. SegmentRows
        BY <1>0, <2>1 DEF Shape, TypeOK
      <3> QED  BY <1>0, <2>1, <3>1
    <2>4. ASSUME NEW i \in DOMAIN files', i + 1 < segment' \/ i + 1 = segment'
          PROVE  Len(files'[i].rows) = SegmentRows
      <3>1. i + 1 < segment' \/ i = Current
        BY <1>0, <2>1, <2>2, <2>4 DEF Current
      <3> QED  BY <1>2, <2>1, <2>2, <2>3, <3>1
    <2> QED  BY <2>4 DEF SegmentsAreFull
  <1>5. CASE WriteRows \/ (FlushFails /\ WreckWrite)
    <2>1. ~faulted /\ (WriteRows \/ (WreckWrite /\ faulted' = TRUE)) /\ fdOpen /\ fdOpen' = fdOpen
      BY <1>0, <1>5 DEF WriteRows, FlushFails, FailClosed, WreckWrite, Writes, Control
    <2>2. /\ DOMAIN files' = DOMAIN files /\ UNCHANGED segment
          /\ \A i \in DOMAIN files : i # Current => files'[i] = files[i]
      BY <2>1, WrittenRows
    <2>3. ASSUME NEW i \in DOMAIN files', i + 1 < segment'
          PROVE  Len(files'[i].rows) = SegmentRows
      <3>1. i # Current /\ i \in DOMAIN files
        BY <1>0, <2>2, <2>3 DEF Current
      <3> QED  BY <1>2, <2>2, <2>3, <3>1
    <2> QED  BY <2>1, <2>3 DEF SegmentsAreFull
  <1>6. CASE FlushFails /\ ~WreckWrite
    <2>1. faulted' = TRUE /\ tpc = "flush" /\ ~faulted
      BY <1>0, <1>6 DEF FlushFails, FailClosed, WreckOpen, WreckClose, WreckSync,
                        NeedsSegment, Rotates, Syncs, Control
    <2>2. \A i \in DOMAIN files' : i \in DOMAIN files /\ files'[i].rows = files[i].rows
      <3>1. ~OpenSegment /\ ~WriteRows
        BY <2>1 DEF OpenSegment, WriteRows, faultVars
      <3> QED  BY <1>6, <3>1, OwnFiles
    <2>3. UNCHANGED segment \/ (segment' = segment + 1 /\ ~fdOpen)
      BY <1>6 DEF FlushFails, WreckOpen, WreckClose, WreckSync, NeedsSegment
    <2>4. ASSUME NEW i \in DOMAIN files', i + 1 < segment'
          PROVE  Len(files'[i].rows) = SegmentRows
      BY <1>1, <1>2, <2>1, <2>2, <2>3, <2>4
    <2> QED  BY <2>1, <2>4 DEF SegmentsAreFull
  <1>7. CASE ~OpenSegment /\ ~CloseFull /\ ~WriteRows /\ ~FlushFails
    <2>1. \A i \in DOMAIN files' : i \in DOMAIN files /\ files'[i].rows = files[i].rows
      BY <1>7, OwnFiles
    <2>2. /\ UNCHANGED segment
          /\ mpc' # "down" => UNCHANGED fdOpen /\ mpc # "down"
      <3>1. CASE OnMd \/ UNCHANGED vars
        BY <3>1 DEF OnMd, TakeTick, StoreSeq, StoreData, Commit, vars, walVars, mainVars
      <3>2. CASE StopBegin \/ Stopping
        BY <3>2 DEF walVars, StopBegin, Stopping, Join, DrainEnd, CloseLast
      <3>3. CASE Sync
        BY <3>3 DEF Sync, mainVars
      <3>4. CASE LoopCondition \/ LoadEnd \/ CheckIdentity \/ CopyRecord \/ Recheck
        BY <3>4 DEF LoopCondition, LoadEnd, CheckIdentity, CopyRecord, Recheck, Skip, KeepRecord,
                    walVars, mainVars
      <3> QED  BY <1>7, <3>1, <3>2, <3>3, <3>4 DEF Next, Tailer, Flush
    <2>3. ~faulted' => ~faulted
      BY FaultStays
    <2> QED  BY <2>1, <2>2, <2>3 DEF SegmentsAreFull
  <1> QED  BY <1>3, <1>4, <1>5, <1>6, <1>7

\* So the WAL is in order throughout.
THEOREM WalInOrder == Spec => []WalIsOrdered
  <1> DEFINE Inv == CursorInv /\ CutInv /\ OrderInv
  <1>1. Init => Inv
    <2> SUFFICES ASSUME Init PROVE OrderInv
      BY CursorsInitial, CutInitially
    <2>1. DOMAIN files = {} /\ segment = 0
      BY DEF Init
    <2> QED  BY <2>1 DEF OrderInv, FilesAreOwn, RowsAreOfReads, RowsAreOrdered, SegmentsAreFull
  <1>2. Inv /\ [Next]_vars => Inv'
    BY CursorsInductive, CutInductive, OwnFiles, ReadsInductive, OrderInductive, FullInductive
    DEF OrderInv, CutInv
  <1>3. Inv => WalIsOrdered
    <2> SUFFICES ASSUME Inv PROVE WalIsOrdered
      OBVIOUS
    <2>1. \A i \in DOMAIN files : Len(files[i].rows) <= SegmentRows
      BY DEF CursorInv, Shape
    <2>2. ASSUME NEW i \in DOMAIN files, i + 1 \in DOMAIN files
          PROVE  Len(files[i].rows) = SegmentRows
      <3>1. i + 1 < segment
        BY <2>2, TailerTyped DEF OrderInv, FilesAreOwn
      <3> QED  BY <3>1 DEF OrderInv, SegmentsAreFull
    <2> QED  BY <2>1, <2>2 DEF WalIsOrdered, OrderInv, RowsAreOrdered
  <1> QED  BY <1>1, <1>2, <1>3, PTL DEF Spec

-----------------------------------------------------------------------------
(* The pipeline takes the steps of DurableLog.                             *)

\* A slot names a record of its own, or none yet, the rest of it is of one of its own,
\* too, and so is a copy.
SlotsInv ==
  /\ \A s \in Slots : logSeq[s] # 0 => SlotOf(logSeq[s]) = s
  /\ \A s \in Slots : logData[s] # Zeroed => SlotOf(logData[s]) = s
  /\ tpc = "recheck" => copy < appended /\ (copy # Zeroed => SlotOf(copy) = SlotOf(readSeq))

LEMMA SlotsInductive ==
  ASSUME NEW first \in Nat, CursorInv, LogInv(first), SlotsInv, [Next]_vars
  PROVE  SlotsInv'
  <1>1. /\ appended \in Nat /\ readSeq \in Nat
        /\ logSeq \in [Slots -> Nat] /\ logData \in [Slots -> Int]
        /\ SlotOf(readSeq) \in Slots /\ copy \in Int
    <2>1. copy \in -1 .. MaxTicks /\ MaxTicks \in Nat
      BY TailerAssumption DEF CursorInv, TypeOK, Zeroed
    <2> QED  BY <2>1, LogTyped
  <1>2. CASE StoreSeq
    BY <1>1, <1>2 DEF StoreSeq, cursorVars, SlotsInv
  <1>3. CASE StoreData
    BY <1>1, <1>3 DEF StoreData, cursorVars, SlotsInv
  <1>4. CASE TakeTick
    BY <1>1, <1>4 DEF TakeTick, cursorVars, SlotsInv
  <1>5. CASE Commit
    BY <1>5 DEF Commit, cursorVars, SlotsInv
  <1>6. CASE CopyRecord
    BY <1>1, <1>6 DEF CopyRecord, writerVars, SlotsInv, LogInv
  <1>7. CASE (Tailer /\ ~CopyRecord) \/ StopBegin \/ Stopping \/ UNCHANGED vars
    <2>1. UNCHANGED writerVars
      BY <1>7, TailerWritesNoLog
    <2>2. tpc' = "recheck" => tpc = "recheck" /\ UNCHANGED <<readSeq, copy>>
      <3>1. CASE LoopCondition \/ LoadEnd \/ CheckIdentity \/ Recheck
        BY <3>1 DEF LoopCondition, LoadEnd, CheckIdentity, Recheck, Skip, KeepRecord, Onward
      <3>2. CASE Flush
        BY <3>2 DEF Flush, OpenSegment, NeedsSegment, CloseFull, Rotates, WriteRows, Writes, Sync,
                    FlushFails, FailClosed, Onward
      <3>3. CASE StopBegin \/ Stopping \/ UNCHANGED vars
        BY <3>3 DEF StopBegin, Stopping, Join, DrainEnd, CloseLast, cursorVars, vars
      <3> QED  BY <1>7, <3>1, <3>2, <3>3 DEF Tailer
    <2> QED  BY <2>1, <2>2 DEF writerVars, SlotsInv
  <1> QED  BY <1>2, <1>3, <1>4, <1>5, <1>6, <1>7 DEF Next, OnMd

\* Two records of one slot are a lap apart.
LEMMA LapsApart ==
  ASSUME NEW p \in Nat, NEW q \in Nat, p < q, SlotOf(p) = SlotOf(q)
  PROVE  q >= p + LogCapacity
  <1> DEFINE C == LogCapacity
             a == p \div C
             b == q \div C
  <1>1. C \in Nat \ {0}
    BY TailerAssumption
  <1> HIDE DEF C
  <1>2. /\ a \in Nat /\ p = C * a + (p % C)
        /\ b \in Nat /\ q = C * b + (q % C)
    BY <1>1
  <1> HIDE DEF a, b
  <1>3. p % C = q % C /\ p % C \in 0 .. C - 1
    BY <1>1 DEF SlotOf, C
  <1>4. C * a < C * b
    BY <1>1, <1>2, <1>3
  <1>5. a + 1 <= b
    <2> SUFFICES ASSUME b <= a PROVE FALSE
      BY <1>2
    <2>1. C * b <= C * a
      BY <1>1, <1>2
    <2> QED  BY <1>1, <1>2, <1>4, <2>1
  <1>6. C * (a + 1) <= C * b
    BY <1>1, <1>2, <1>5
  <1>7. C * (a + 1) = C * a + C
    BY <1>1, <1>2
  <1> QED  BY <1>1, <1>2, <1>3, <1>6, <1>7 DEF C

\* A record the tailer finds overwritten is more than the log behind on_md.
LEMMA SkippedIsLapped ==
  ASSUME NEW first \in Nat, CursorInv, LogInv(first), SlotsInv,
         first <= readSeq, readSeq < committed, ~NamesRecord
  PROVE  appended - readSeq > LogCapacity
  <1>1. /\ appended \in Nat /\ committed \in Nat /\ readSeq \in Nat /\ committed <= appended
        /\ logSeq \in [Slots -> Nat] /\ SlotOf(readSeq) \in Slots /\ LogCapacity \in Nat
    BY LogTyped, TailerTyped, TailerAssumption
  <1> DEFINE q == logSeq[SlotOf(readSeq)]
  <1>2. q >= readSeq /\ q \in Nat /\ q # readSeq
    BY <1>1 DEF LogInv, NamesRecord
  <1>3. q # 0 /\ q < appended
    BY <1>1, <1>2 DEF LogInv
  <1>4. SlotOf(q) = SlotOf(readSeq)
    BY <1>1, <1>3 DEF SlotsInv
  <1> HIDE DEF q
  <1>5. q >= readSeq + LogCapacity
    BY <1>1, <1>2, <1>4, LapsApart
  <1> QED  BY <1>1, <1>2, <1>3, <1>5

\* So is one of which the tailer has copied the rest of another.
LEMMA DamagedIsLapped ==
  ASSUME NEW first \in Nat, CursorInv, CopyInv(first), SlotsInv,
         first <= readSeq, tpc = "recheck", copy # readSeq
  PROVE  appended - readSeq > LogCapacity
  <1>1. /\ appended \in Nat /\ readSeq \in Nat /\ LogCapacity \in Nat
        /\ copy \in Int /\ readSeq <= copy
    BY LogTyped, TailerAssumption DEF CopyInv, CursorInv, TypeOK, Zeroed
  <1>2. copy \in Nat /\ readSeq < copy /\ copy < appended /\ SlotOf(copy) = SlotOf(readSeq)
    BY <1>1 DEF SlotsInv, Zeroed
  <1>3. copy >= readSeq + LogCapacity
    BY <1>1, <1>2, LapsApart
  <1> QED  BY <1>1, <1>2, <1>3

\* The WAL of this life loses nothing, whatever the step.
LEMMA WalOnlyGrows ==
  ASSUME CursorInv, CursorInv', FilesAreOwn, Flush \/ CloseLast
  PROVE  WalGrows
  <1>0. segment \in Nat
    BY TailerTyped
  <1>1. CASE OpenSegment
    <2>1. /\ segment' = segment + 1
          /\ DOMAIN files' = DOMAIN files \cup {segment}
          /\ \A i \in DOMAIN files : i # segment => files'[i] = files[i]
      BY <1>1 DEF OpenSegment
    <2>2. \A i \in DOMAIN files : i < segment => i # segment
      BY <1>0, FileTyped
    <2> QED  BY <1>0, <2>1, <2>2, FileTyped DEF WalGrows, RowsOf
  <1>2. CASE CloseFull \/ Sync
    BY <1>2, SyncGrows DEF CloseFull, Rotates, Sync, Syncs
  <1>3. CASE CloseLast
    <2>1. UNCHANGED segment /\ (UNCHANGED files \/ (fdOpen /\ (SyncFile \/ UNCHANGED files)))
      BY <1>3 DEF CloseLast
    <2>2. CASE UNCHANGED files
      BY <1>0, <2>1, <2>2, FileTyped DEF WalGrows
    <2> QED  BY <2>1, <2>2, SyncGrows
  <1>4. CASE WriteRows
    <2>1. ~faulted
      BY <1>4 DEF WriteRows, Writes, CursorInv, Control
    <2>2. /\ DOMAIN files' = DOMAIN files /\ UNCHANGED segment
          /\ \A i \in DOMAIN files :
               /\ Len(files[i].rows) <= Len(files'[i].rows)
               /\ files'[i].synced = files[i].synced
               /\ \A k \in 1 .. Len(files[i].rows) : files'[i].rows[k] = files[i].rows[k]
      BY <1>4, <2>1, WrittenRows
    <2> QED  BY <1>0, <2>2, FileTyped DEF WalGrows, RowsOf
  <1>5. CASE FlushFails
    <2>1. ~faulted /\ (WreckOpen \/ WreckClose \/ WreckWrite \/ WreckSync)
      BY <1>5 DEF FlushFails, WreckOpen, WreckClose, WreckWrite, WreckSync, NeedsSegment,
                  Rotates, Writes, Syncs, CursorInv, Control
    <2> QED  BY <1>0, <2>1, WreckShape DEF WalGrows, RowsOf
  <1> QED  BY <1>1, <1>2, <1>3, <1>4, <1>5 DEF Flush

\* What DurableLog sees of the WAL.
Disk == {p \in window : OnDisk(p)}

LEMMA DiskIsRead ==
  ASSUME CursorInv, RowsAreOfReads, NEW p, OnDisk(p)
  PROVE  p \in -1 .. readSeq - 1 /\ p \notin Lost
  <1>1. PICK i \in DOMAIN files : \E k \in RowsOf(i) : RowAt(i, k) = Row(p, p)
    BY DEF OnDisk
  <1>2. PICK k \in RowsOf(i) : RowAt(i, k).seq = p /\ RowAt(i, k).of = p
    BY <1>1 DEF Row
  <1> QED  BY <1>2 DEF RowsAreOfReads, IsSound

LEMMA DiskGrows ==
  ASSUME CursorInv, CursorInv', WalGrows, RowsAreOfReads', UNCHANGED <<window, Lost>>
  PROVE  \E more \in SUBSET (window \ Lost) : Disk' = Disk \cup more
  <1>1. Disk \subseteq Disk'
    <2> SUFFICES ASSUME NEW p \in window, OnDisk(p) PROVE OnDisk(p)'
      BY DEF Disk
    <2> QED  BY StaysOnDisk
  <1>2. Disk' \subseteq window \ Lost
    <2> SUFFICES ASSUME NEW p \in window, OnDisk(p)' PROVE p \notin Lost
      BY DEF Disk
    <2>1. PICK i \in DOMAIN files' : \E k \in 1 .. Len(files'[i].rows) : files'[i].rows[k] = Row(p, p)
      BY DEF OnDisk, RowsOf, RowAt
    <2>2. PICK k \in 1 .. Len(files'[i].rows) : files'[i].rows[k].seq = p /\ files'[i].rows[k].of = p
      BY <2>1 DEF Row
    <2> QED  BY <2>2 DEF RowsAreOfReads, IsSound, RowsOf, RowAt
  <1> QED  BY <1>1, <1>2

LEMMA DiskStays ==
  ASSUME UNCHANGED <<files, segment, window>>
  PROVE  Disk' = Disk
  BY DEF Disk, OnDisk, RowsOf, RowAt

PipelineInv == TailerInv /\ CutInv /\ OrderInv /\ SlotsInv

LEMMA PipelineInductive ==
  ASSUME PipelineInv, [Next]_vars
  PROVE  PipelineInv'
  <1>1. CursorInv /\ LogInv(0)
    BY DEF PipelineInv, TailerInv, LogFrom
  <1> QED
    BY <1>1, TailerInductive, CutInductive, SlotsInductive, OwnFiles, ReadsInductive,
       OrderInductive, FullInductive
    DEF PipelineInv, OrderInv, CutInv

LEMMA PipelineInitially ==
  ASSUME Init
  PROVE  PipelineInv
  <1>1. DOMAIN files = {} /\ segment = 0
    BY DEF Init
  <1>2. OrderInv
    BY <1>1 DEF OrderInv, FilesAreOwn, RowsAreOfReads, RowsAreOrdered, SegmentsAreFull
  <1> QED  BY <1>2, TailerInitially, CutInitially DEF PipelineInv, SlotsInv, Init

\* A step of the pipeline that DurableLog does not see.
LEMMA UnseenMaps ==
  ASSUME UNCHANGED <<appended, window, durable, files, segment, Lost, faulted>>,
         UNCHANGED StopPhase
  PROVE  UNCHANGED Promise!vars
  <1>1. Disk' = Disk
    BY DiskStays
  <1> QED  BY <1>1 DEF Disk, Promise!vars

\* A tick is accepted.
LEMMA AcceptMaps ==
  ASSUME PipelineInv, ~IngestOutlivesStop, TakeTick
  PROVE  Promise!Accept
  <1>1. /\ mpc = "up" /\ appended < MaxTicks /\ appended' = appended + 1
        /\ window' \in {window, window \cup {appended}}
        /\ UNCHANGED <<files, segment, durable, Lost, faulted, mpc>>
    BY DEF TakeTick, Lost, cursorVars, walVars, faultVars, mainVars
  <1>2. CursorInv /\ RowsAreOfReads /\ readSeq \in Nat /\ readSeq <= appended
    BY TailerTyped DEF PipelineInv, TailerInv, LogFrom, OrderInv
  <1>3. ~OnDisk(appended)
    BY <1>2, DiskIsRead
  <1>4. Disk' = Disk
    <2>1. \A p : OnDisk(p)' <=> OnDisk(p)
      BY <1>1 DEF OnDisk, RowsOf, RowAt
    <2>2. Disk' = {p \in window' : OnDisk(p)}
      BY <2>1 DEF Disk
    <2> QED  BY <1>1, <1>3, <2>2 DEF Disk
  <1>5. StopPhase = "open" /\ StopPhase' = "open"
    BY <1>1 DEF StopPhase
  <1> QED  BY <1>1, <1>4, <1>5 DEF Promise!Accept, Disk

\* durable_seq moves, the WAL, or both.
LEMMA ClaimMaps ==
  ASSUME PipelineInv, PipelineInv', ~faulted, UNCHANGED faulted,
         UNCHANGED <<appended, window, Lost>>, durable' >= durable,
         StopPhase # "closed", UNCHANGED StopPhase,
         \E more \in SUBSET (window \ Lost) : Disk' = Disk \cup more
  PROVE  Promise!Persist \/ Promise!Claim
  <1>1. Promise!Grows
    BY DEF Promise!Grows, Disk
  <1>2. CASE durable' = durable
    BY <1>1, <1>2 DEF Promise!Persist
  <1>3. CASE durable' # durable
    <2>1. durable \in Nat /\ durable' \in Nat /\ durable' <= appended' /\ appended' \in Nat
      <3>1. CursorInv /\ CursorInv'
        BY DEF PipelineInv, TailerInv, LogFrom
      <3>2. durable \in Nat
        BY <3>1, TailerTyped
      <3>3. /\ appended' \in 0 .. MaxTicks /\ committed' \in 0 .. appended'
            /\ readSeq' \in 0 .. committed' /\ durable' \in 0 .. readSeq'
        BY <3>1 DEF CursorInv, TypeOK
      <3> QED  BY <3>2, <3>3, TailerAssumption
    <2>2. durable' \in durable + 1 .. appended
      BY <1>3, <2>1
    <2>3. DurableIsOnDisk'
      BY DEF PipelineInv, TailerInv, LogFrom, KeptInv
    <2>4. \A p \in window : p < durable' => p \in Disk' \cup Lost
      <3> SUFFICES ASSUME NEW p \in window, p < durable'
                   PROVE  p \in Disk' \/ p \in Lost
        OBVIOUS
      <3>1. OnDisk(p)' \/ p \in Lost'
        BY <2>3 DEF DurableIsOnDisk
      <3> QED  BY <3>1 DEF Disk
    <2> QED  BY <1>1, <2>2, <2>4 DEF Promise!Claim, Disk
  <1> QED  BY <1>2, <1>3

\* A record is lost.
LEMMA LoseMaps ==
  ASSUME PipelineInv, tpc \in {"check", "recheck"}, appended - readSeq > LogCapacity,
         Lost' = Lost \cup {readSeq},
         UNCHANGED <<appended, window, durable, files, segment, faulted, mpc>>
  PROVE  Promise!Lose
  <1>1. /\ CursorInv /\ RowsAreOfReads /\ Control /\ TypeOK
        /\ readSeq \in Nat /\ durable \in Nat /\ durable <= readSeq
        /\ committed <= appended /\ committed \in Nat /\ appended \in Nat
    BY TailerTyped DEF PipelineInv, TailerInv, LogFrom, OrderInv, CursorInv
  <1>2. readSeq < committed
    <2>1. readSeq < end /\ end \in 0 .. committed
      BY <1>1 DEF Control, TypeOK
    <2> QED  BY <1>1, <2>1
  <1>3. readSeq \notin Disk
    BY <1>1, DiskIsRead DEF Disk
  <1>4. Disk' = Disk
    BY DiskStays
  <1>5. ~faulted /\ StopPhase # "closed" /\ StopPhase' = StopPhase
    BY <1>1 DEF Control, StopPhase
  <1>6. readSeq \in durable .. appended - 1
    BY <1>1, <1>2
  <1> QED  BY <1>3, <1>4, <1>5, <1>6 DEF Promise!Lose, Disk

\* The tailer loses a record it finds overwritten.
LEMMA SkipMaps ==
  ASSUME PipelineInv, tpc \in {"check", "recheck"}, ~NamesRecord, Skip
  PROVE  Promise!Lose
  <1>1. CursorInv /\ LogInv(0) /\ SlotsInv /\ Control /\ TypeOK /\ readSeq \in Nat /\ committed \in Nat
    BY TailerTyped DEF PipelineInv, TailerInv, LogFrom, CursorInv
  <1>2. readSeq < committed
    <2>1. readSeq < end /\ end \in 0 .. committed
      BY <1>1 DEF Control, TypeOK
    <2> QED  BY <1>1, <2>1
  <1>3. appended - readSeq > LogCapacity
    BY <1>1, <1>2, SkippedIsLapped
  <1>4. /\ Lost' = Lost \cup {readSeq}
        /\ UNCHANGED <<appended, window, durable, files, segment, faulted, mpc>>
    BY DEF Skip, Lost, writerVars, walVars, faultVars, mainVars
  <1> QED  BY <1>3, <1>4, LoseMaps

\* And one of which it keeps the rest of another.
LEMMA KeepMaps ==
  ASSUME PipelineInv, tpc = "recheck", KeepRecord
  PROVE  Promise!Lose \/ UNCHANGED Promise!vars
  <1>1. UNCHANGED <<appended, window, durable, files, segment, faulted, mpc>>
    BY DEF KeepRecord, writerVars, faultVars, mainVars
  <1>2. CASE copy = readSeq
    <2>1. UNCHANGED Lost
      BY <1>2 DEF KeepRecord, Lost
    <2> QED  BY <1>1, <2>1, UnseenMaps DEF StopPhase
  <1>3. CASE copy # readSeq
    <2>1. CursorInv /\ CopyInv(0) /\ SlotsInv /\ readSeq \in Nat
      BY TailerTyped DEF PipelineInv, TailerInv, LogFrom
    <2>2. appended - readSeq > LogCapacity
      BY <1>3, <2>1, DamagedIsLapped
    <2>3. Lost' = Lost \cup {readSeq}
      BY <1>3 DEF KeepRecord, Lost
    <2> QED  BY <1>1, <2>2, <2>3, LoseMaps
  <1> QED  BY <1>2, <1>3

\* flush() persists, claims or fails.
LEMMA FlushMaps ==
  ASSUME PipelineInv, PipelineInv', Flush
  PROVE  Promise!Persist \/ Promise!Claim \/ Promise!Fail
  <1>1. CursorInv /\ CursorInv' /\ FilesAreOwn /\ RowsAreOfReads' /\ Control
    BY DEF PipelineInv, TailerInv, LogFrom, OrderInv, CursorInv
  <1>2. /\ UNCHANGED <<appended, window, Lost, mpc>> /\ tpc = "flush"
    <2>1. CASE OpenSegment \/ CloseFull \/ WriteRows \/ Sync
      BY <2>1 DEF OpenSegment, NeedsSegment, CloseFull, Rotates, WriteRows, Writes, Sync, Syncs,
                  Lost, writerVars, cursorVars, mainVars
    <2>2. CASE FlushFails
      BY <2>2 DEF FlushFails, WreckOpen, WreckClose, WreckWrite, WreckSync,
                  NeedsSegment, Rotates, Writes, Syncs, Lost, writerVars, cursorVars,
                  mainVars
    <2> QED  BY <2>1, <2>2 DEF Flush
  <1>3. ~faulted /\ StopPhase # "closed" /\ StopPhase' = StopPhase
    BY <1>1, <1>2 DEF Control, StopPhase
  <1>4. \E more \in SUBSET (window \ Lost) : Disk' = Disk \cup more
    BY <1>1, <1>2, WalOnlyGrows, DiskGrows
  <1>5. durable \in Nat /\ readSeq \in Nat /\ durable <= readSeq
    BY <1>1, TailerTyped
  <1>6. CASE FlushFails
    <2>1. faulted' = TRUE /\ durable' = durable
      BY <1>6 DEF FlushFails, FailClosed
    <2>2. Promise!Grows
      BY <1>4 DEF Promise!Grows, Disk
    <2> QED  BY <1>2, <1>3, <2>1, <2>2 DEF Promise!Fail
  <1>7. CASE OpenSegment \/ CloseFull \/ WriteRows \/ Sync
    <2>1. UNCHANGED faulted /\ durable' >= durable
      BY <1>5, <1>7 DEF OpenSegment, CloseFull, WriteRows, Sync, FlushedDurable, faultVars
    <2> QED  BY <1>2, <1>3, <1>4, <2>1, ClaimMaps
  <1> QED  BY <1>6, <1>7 DEF Flush

\* stop() returns when all is claimed, or the WAL has failed.
LEMMA CloseMaps ==
  ASSUME ~IngestOutlivesStop, PipelineInv, PipelineInv', CloseLast
  PROVE  Promise!Close
  <1>1. CursorInv /\ CursorInv' /\ FilesAreOwn /\ RowsAreOfReads' /\ Control /\ DrainInv
    BY DEF PipelineInv, TailerInv, LogFrom, OrderInv, CursorInv, CutInv
  <1>2. /\ mpc = "closing" /\ mpc' = "down"
        /\ UNCHANGED <<appended, window, durable, Lost>>
        /\ faulted' \in {faulted, TRUE}
    BY DEF CloseLast, Lost, writerVars, cursorVars, faultVars
  <1>3. \E more \in SUBSET (window \ Lost) : Disk' = Disk \cup more
    BY <1>1, <1>2, WalOnlyGrows, DiskGrows
  <1>4. Promise!Grows
    BY <1>3 DEF Promise!Grows, Disk
  <1>5. faulted \/ durable = appended
    <2>1. appended = IF wpc = "idle" THEN committed ELSE committed + 1
      BY TailerParts DEF PipelineInv
    <2>2. tpc = "exited" /\ wpc = "idle"
      BY <1>1, <1>2 DEF Control, DrainInv
    <2>3. ~faulted => durable = readSeq /\ readSeq = committed
      BY <1>1, <1>2, <2>2 DEF DrainInv
    <2> QED  BY <2>1, <2>2, <2>3
  <1>6. StopPhase = "closing" /\ StopPhase' = "closed"
    BY <1>2 DEF StopPhase
  <1> QED  BY <1>2, <1>4, <1>5, <1>6 DEF Promise!Close

LEMMA PipelineMaps ==
  ASSUME ~IngestOutlivesStop, PipelineInv, PipelineInv', [Next]_vars
  PROVE  [Promise!Next]_(Promise!vars)
  <1> USE DEF Promise!Next
  <1>0. /\ CursorInv /\ Control /\ CutInv
        /\ durable \in Nat /\ readSeq \in Nat /\ durable <= readSeq
    BY TailerTyped DEF PipelineInv, TailerInv, LogFrom, CursorInv
  <1>1. CASE OnMd
    <2>1. CASE TakeTick
      BY <2>1, AcceptMaps
    <2>2. CASE StoreSeq \/ StoreData \/ Commit
      <3>1. UNCHANGED <<appended, window, durable, files, segment, Lost, faulted, mpc>>
        BY <2>2 DEF StoreSeq, StoreData, Commit, Lost, cursorVars, walVars, faultVars, mainVars
      <3> QED  BY <3>1, UnseenMaps DEF StopPhase
    <2> QED  BY <1>1, <2>1, <2>2 DEF OnMd
  <1>2. CASE Flush
    BY <1>2, FlushMaps
  <1>3. CASE Skip /\ tpc \in {"check", "recheck"} /\ ~NamesRecord
    BY <1>3, SkipMaps
  <1>4. CASE LoopCondition \/ CopyRecord
    <2>1. UNCHANGED <<appended, window, durable, files, segment, Lost, faulted, mpc>>
      BY <1>4 DEF LoopCondition, CopyRecord, Lost, writerVars, cursorVars, walVars,
                  faultVars, mainVars
    <2> QED  BY <2>1, UnseenMaps DEF StopPhase
  <1>5. CASE CheckIdentity \/ Recheck
    <2>1. CASE CheckIdentity /\ NamesRecord
      <3>1. UNCHANGED <<appended, window, durable, files, segment, Lost, faulted, mpc>>
        BY <2>1 DEF CheckIdentity, Lost, writerVars, cursorVars, walVars, faultVars, mainVars
      <3> QED  BY <3>1, UnseenMaps DEF StopPhase
    <2>2. CASE tpc = "recheck" /\ KeepRecord
      BY <2>2, KeepMaps
    <2> QED  BY <1>3, <1>5, <2>1, <2>2 DEF CheckIdentity, Recheck, StillNamed
  <1>6. CASE LoadEnd \/ DrainEnd
    <2>1. /\ UNCHANGED <<appended, window, files, segment, Lost, faulted>>
          /\ UNCHANGED StopPhase /\ StopPhase # "closed"
      <3>1. CASE LoadEnd
        BY <1>0, <3>1 DEF LoadEnd, Lost, writerVars, faultVars, mainVars, StopPhase, Control
      <3>2. CASE DrainEnd
        BY <3>2 DEF DrainEnd, Lost, writerVars, cursorVars, walVars, faultVars, StopPhase
      <3> QED  BY <1>6, <3>1, <3>2
    <2>2. durable' = durable \/ (durable' = readSeq /\ ~faulted)
      BY <1>0, <1>6 DEF LoadEnd, IdleDurable, DrainEnd, Control
    <2>3. CASE durable' = durable
      BY <2>1, <2>3, UnseenMaps
    <2>4. CASE durable' = readSeq /\ ~faulted
      <3>1. Disk' = Disk \cup {}
        BY <2>1, DiskStays
      <3>2. \E more \in SUBSET (window \ Lost) : Disk' = Disk \cup more
        BY <3>1
      <3> QED  BY <1>0, <2>1, <2>4, <3>2, ClaimMaps
    <2> QED  BY <2>2, <2>3, <2>4
  <1>7. CASE StopBegin
    <2>1. /\ UNCHANGED <<appended, window, durable, files, segment, Lost, faulted>>
          /\ mpc = "up" /\ mpc' = "joining"
      BY <1>7 DEF StopBegin, Lost, writerVars, cursorVars, walVars, faultVars
    <2>2. Disk' = Disk /\ StopPhase = "open" /\ StopPhase' = "closing"
      BY <2>1, DiskStays DEF StopPhase
    <2> QED  BY <2>1, <2>2 DEF Promise!Stop, Disk
  <1>8. CASE Join
    <2>1. /\ UNCHANGED <<appended, window, durable, files, segment, Lost, faulted>>
          /\ mpc = "joining" /\ mpc' \in {"closing", "draining"}
      BY <1>8 DEF Join, Lost, writerVars, cursorVars, faultVars
    <2> QED  BY <2>1, UnseenMaps DEF StopPhase
  <1>9. CASE CloseLast
    BY <1>9, CloseMaps
  <1>10. CASE UNCHANGED vars
    <2>1. UNCHANGED <<appended, window, durable, files, segment, Lost, faulted, mpc>>
      BY <1>10 DEF vars, Lost, writerVars, cursorVars, walVars, faultVars, mainVars
    <2> QED  BY <2>1, UnseenMaps DEF StopPhase
  <1> QED
    BY <1>1, <1>2, <1>4, <1>5, <1>6, <1>7, <1>8, <1>9, <1>10 DEF Next, Tailer, Stopping

\* Where the feed pauses for stop(), the pipeline keeps the promise: each of its steps is
\* one of DurableLog or invisible.  (That everything is claimed in the end is not part of
\* it.)
THEOREM PipelineImplementsDurableLog ==
  ASSUME ~IngestOutlivesStop
  PROVE  Spec => Promise!Spec
  <1>1. Init => PipelineInv
    BY PipelineInitially
  <1>2. PipelineInv /\ [Next]_vars => PipelineInv'
    BY PipelineInductive
  <1>3. PipelineInv /\ PipelineInv' /\ [Next]_vars => [Promise!Next]_(Promise!vars)
    BY PipelineMaps
  <1>4. Init => Promise!Init
    BY DEF Init, Promise!Init, StopPhase, Lost
  <1> QED  BY <1>1, <1>2, <1>3, <1>4, PTL DEF Spec, Promise!Spec

-----------------------------------------------------------------------------
(* Restarts.  The theorems about one life of the process hold in every     *)
(* later one, on whatever segments the earlier ones left in the WAL        *)
(* directory, and after every later start() of one DemoMd, whatever        *)
(* global_seq its log begins with.                                         *)

\* A new log is empty, and its tailer has opened none of the files it finds.
LEMMA FreshKeeps ==
  ASSUME NEW first \in Nat, LogFrom(first), NEW b \in 0 .. MaxTicks,
         appended' = b, durableView' \in 0 .. b, wpc' = "idle", EmptyStore, NewTailer,
         running' = TRUE, mpc' = "up", started' = TRUE, UNCHANGED files
  PROVE  LogFrom(b)'
  <1> USE TailerAssumption
  <1>1. CursorInv /\ window' = {} /\ buf' = <<>> /\ tpc' = "loop" /\ b \in Nat
    BY DEF LogFrom, EmptyStore, NewTailer
  <1>2. TypeOK'
    <2>1. 0 \in 0 .. MaxTicks /\ Zeroed \in Zeroed .. MaxTicks /\ 0 \in 0 .. FlushRows
          /\ 0 \in 0 .. SegmentRows /\ 0 \in 0 .. b
      BY DEF Zeroed
    <2>2. DOMAIN files \subseteq Nat
      BY <1>1 DEF CursorInv, TypeOK
    <2>3. logSeq' \in [Slots -> 0 .. MaxTicks] /\ logData' \in [Slots -> Zeroed .. MaxTicks]
      BY <2>1 DEF EmptyStore
    <2>4. /\ committed' = 0 /\ readSeq' = 0 /\ durable' = 0 /\ statRead' = 0
          /\ end' = 0 /\ overwrites' = 0 /\ faults' = 0 /\ faulted' = FALSE
          /\ copy' = Zeroed /\ Len(buf') = 0 /\ off' = 0 /\ rowsInSegment' = 0
          /\ window' = {} /\ skipped' = {} /\ damaged' = {} /\ tpc' = "loop"
      BY DEF EmptyStore, NewTailer
    <2>5. {fdOpen, running, started, faulted}' \subseteq BOOLEAN
      BY DEF NewTailer
    <2>6. Len(buf') <= FlushRows /\ 0 \in 0 .. 0
      BY <2>4
    <2> QED  BY <1>1, <2>1, <2>2, <2>3, <2>4, <2>5, <2>6 DEF TypeOK
  <1>3. Shape'
    BY <1>1 DEF NewTailer, CursorInv, Shape
  <1>4. Control'
    BY DEF EmptyStore, NewTailer, Control
  <1>5. LogInv(b)' /\ CopyInv(b)'
    BY DEF EmptyStore, NewTailer, LogInv, CopyInv, Zeroed
  <1>6. WriterInv(b)'
    <2>1. committed' = 0 /\ overwrites' = 0 /\ window' = {}
      BY DEF EmptyStore
    <2>2. Newest(b)' = b
      BY <2>1 DEF Newest
    <2> QED  BY <1>1, <2>1, <2>2 DEF WriterInv
  <1>7. KeptInv'
    <2>1. durable' = 0 /\ readSeq' = 0
      BY DEF EmptyStore, NewTailer
    <2>2. ReadIsKept' /\ DurableIsOnDisk' /\ FlushIsInFile'
      BY <1>1, <2>1 DEF ReadIsKept, DurableIsOnDisk, FlushIsInFile
    <2> QED  BY <2>2 DEF KeptInv
  <1> QED  BY <1>2, <1>3, <1>4, <1>5, <1>6, <1>7 DEF LogFrom, CursorInv

\* Nothing is buffered, written or awaited in it.
LEMMA FreshCuts ==
  ASSUME NEW first \in Nat, LogFrom(first), NewTailer,
         wpc' = "idle", running' = TRUE, mpc' = "up", UNCHANGED files
  PROVE  CutInv'
  <1>1. Len(buf') = 0 /\ segment' = 0 /\ DOMAIN files' = DOMAIN files /\ tpc' = "loop"
    BY DEF NewTailer
  <1>2. BufferInv' /\ DrainInv'
    BY <1>1 DEF BufferInv, DrainInv
  <1>3. RowsAreClaimed'
    <2>1. \A i \in DOMAIN files' : i \in Nat /\ ~ i < segment'
      BY <1>1 DEF LogFrom, CursorInv, TypeOK
    <2> QED  BY <2>1 DEF RowsAreClaimed
  <1> QED  BY <1>2, <1>3 DEF CutInv

-----------------------------------------------------------------------------
(* Lives of the process.                                                   *)

\* A new life finds files, and nothing else.
LEMMA RestartKeeps ==
  ASSUME NEW first \in Nat, LogFrom(first), Restart
  PROVE  TailerInv' /\ CutInv'
  <1>1. /\ appended' = 0 /\ durableView' = 0 /\ wpc' = "idle" /\ EmptyStore /\ NewTailer
        /\ running' = TRUE /\ mpc' = "up" /\ started' = TRUE /\ UNCHANGED files
    BY DEF Restart, EmptyStore, NewTailer
  <1>2. 0 \in 0 .. MaxTicks /\ 0 \in 0 .. 0
    BY TailerAssumption
  <1> QED  BY <1>1, <1>2, FreshKeeps, FreshCuts DEF TailerInv

\* In every life the invariant of the pipeline holds, so what a new process calls
\* durable is in segments it wrote itself.
THEOREM EveryLife == RestartSpec => []TailerInv
  <1>1. Init => TailerInv
    BY TailerInitially
  <1>2. TailerInv /\ [RestartNext]_restartVars => TailerInv'
    <2> SUFFICES ASSUME TailerInv, [RestartNext]_restartVars
                 PROVE  TailerInv'
      OBVIOUS
    <2>1. CASE Restart
      BY <2>1, RestartKeeps DEF TailerInv
    <2>2. CASE Next
      BY <2>2, TailerInductive
    <2>3. CASE UNCHANGED restartVars
      BY <2>3, TailerInductive DEF restartVars
    <2> QED  BY <2>1, <2>2, <2>3 DEF RestartNext
  <1> QED  BY <1>1, <1>2, PTL DEF RestartSpec, RestartInit

\* durable_seq tells the truth in every life.
THEOREM DurableInEveryLife == RestartSpec => []DurableIsOnDisk
  <1>1. TailerInv => DurableIsOnDisk
    BY TailerParts DEF KeptInv
  <1> QED  BY <1>1, EveryLife, PTL

\* What a stop() leaves is a clean cut in every life, whatever files it found.
THEOREM CutsAreCleanInEveryLife == RestartSpec => []CutIsClean
  <1>1. Init => TailerInv /\ CutInv
    BY TailerInitially, CutInitially
  <1>2. TailerInv /\ CutInv /\ [RestartNext]_restartVars => (TailerInv /\ CutInv)'
    <2> SUFFICES ASSUME TailerInv, CutInv, [RestartNext]_restartVars
                 PROVE  TailerInv' /\ CutInv'
      OBVIOUS
    <2>1. CASE Restart
      BY <2>1, RestartKeeps DEF TailerInv
    <2>2. CASE [Next]_vars
      BY <2>2, TailerInductive, CutInductive, TailerParts
    <2> QED  BY <2>1, <2>2 DEF RestartNext, restartVars
  <1>3. TailerInv /\ CutInv => CutIsClean
    BY CleanCut DEF TailerInv
  <1> QED  BY <1>1, <1>2, <1>3, PTL DEF RestartSpec, RestartInit
-----------------------------------------------------------------------------
(* start() again on one DemoMd.                                            *)

\* The records of a log that begins at first which on_md has overwritten, or is about
\* to, before the tailer kept them.
Lapped(first) ==
  {r \in first .. appended - LogCapacity - 1 : r \in Lost \/ readSeq <= r}

\* on_md has counted each of them, and the tailer each that it found overwritten.
LostInv(first) ==
  /\ \A r \in Lost : first <= r => r \in Lapped(first)
  /\ Cardinality(skipped) + Cardinality(Lapped(first)) <= overwrites

LEMMA LostTyped ==
  ASSUME CursorInv, NEW first \in Nat
  PROVE  /\ appended \in Nat /\ readSeq \in Nat /\ LogCapacity \in Nat \ {0}
         /\ skipped \subseteq 0 .. readSeq - 1 /\ Lost \subseteq 0 .. readSeq - 1
         /\ overwrites \in Nat
         /\ IsFiniteSet(skipped) /\ IsFiniteSet(Lapped(first))
         /\ Cardinality(skipped) \in Nat /\ Cardinality(Lapped(first)) \in Nat
  <1>1. /\ appended \in Nat /\ readSeq \in Nat
        /\ skipped \subseteq 0 .. readSeq - 1 /\ Lost \subseteq 0 .. readSeq - 1
    BY TailerTyped DEF Lost
  <1>2. LogCapacity \in Nat \ {0} /\ overwrites \in Nat
    BY TailerAssumption DEF CursorInv, TypeOK
  <1>3. IsFiniteSet(skipped)
    <2>1. IsFiniteSet(0 .. readSeq - 1)
      BY <1>1, FS_Interval
    <2> QED  BY <1>1, <2>1, FS_Subset
  <1>4. IsFiniteSet(Lapped(first))
    <2>1. IsFiniteSet(first .. appended - LogCapacity - 1)
      BY <1>1, <1>2, FS_Interval
    <2>2. Lapped(first) \subseteq first .. appended - LogCapacity - 1
      BY DEF Lapped
    <2> QED  BY <2>1, <2>2, FS_Subset
  <1>5. Cardinality(skipped) \in Nat /\ Cardinality(Lapped(first)) \in Nat
    BY <1>3, <1>4, FS_CardinalityType
  <1> QED  BY <1>1, <1>2, <1>3, <1>4, <1>5

\* A tick that laps a record the tailer has not kept trips the guard.
LEMMA TickLoses ==
  ASSUME NEW first \in Nat, CursorInv, WriterInv(first), LostInv(first), TakeTick
  PROVE  LostInv(first)'
  <1> DEFINE old == appended - LogCapacity
  <1>1. /\ appended \in Nat /\ readSeq \in Nat /\ LogCapacity \in Nat /\ overwrites \in Nat
        /\ IsFiniteSet(Lapped(first))
        /\ Cardinality(skipped) \in Nat /\ Cardinality(Lapped(first)) \in Nat
    BY LostTyped
  <1>2. /\ appended' = appended + 1 /\ UNCHANGED <<skipped, Lost, readSeq>>
        /\ overwrites' = overwrites + IF GuardTrips(appended) THEN 1 ELSE 0
    BY DEF TakeTick, Lost, cursorVars
  <1>3. old \in Int /\ appended' - LogCapacity - 1 = old
    BY <1>1, <1>2
  <1>4. /\ \A r \in Lost : first <= r => r \in Lapped(first)
        /\ Cardinality(skipped) + Cardinality(Lapped(first)) <= overwrites
    BY DEF LostInv
  <1>5. \A r : r \in Lapped(first)' <=>
                 r \in Int /\ first <= r /\ r <= old /\ (r \in Lost \/ readSeq <= r)
    BY <1>2, <1>3 DEF Lapped
  <1>6. \A r : r \in Lapped(first) <=>
                 r \in Int /\ first <= r /\ r <= old - 1 /\ (r \in Lost \/ readSeq <= r)
    BY DEF Lapped
  <1> HIDE DEF old
  <1>7. \A r \in Lost : first <= r => r \in Lapped(first)'
    BY <1>3, <1>4, <1>5, <1>6
  <1>8. CASE old \in Lapped(first)' /\ old \notin Lapped(first)
    <2>1. Lapped(first)' = Lapped(first) \cup {old}
      BY <1>3, <1>5, <1>6, <1>8
    <2>2. Cardinality(Lapped(first)') = Cardinality(Lapped(first)) + 1
      BY <1>1, <1>8, <2>1, FS_AddElement
    <2>3. first <= old /\ readSeq <= old
      BY <1>4, <1>5, <1>8
    <2>4. GuardTrips(appended)
      <3>1. /\ durable \in Nat /\ durableView \in Nat /\ durable <= readSeq
            /\ durableView <= first \/ durableView <= durable
        <4>1. TypeOK
          BY DEF CursorInv
        <4> QED  BY <4>1, TailerTyped DEF TypeOK, WriterInv
      <3>2. View(appended) \in {durable, durableView}
        BY DEF View
      <3>3. View(appended) <= old /\ View(appended) \in Nat
        BY <1>1, <1>3, <2>3, <3>1, <3>2
      <3> QED  BY <1>1, <3>3 DEF GuardTrips, old
    <2>5. overwrites' = overwrites + 1
      BY <1>2, <2>4
    <2> QED  BY <1>1, <1>2, <1>4, <1>7, <2>2, <2>5 DEF LostInv
  <1>9. CASE ~(old \in Lapped(first)' /\ old \notin Lapped(first))
    <2>1. Lapped(first)' = Lapped(first)
      BY <1>3, <1>5, <1>6, <1>9
    <2>2. overwrites <= overwrites' /\ overwrites' \in Nat
      BY <1>1, <1>2
    <2> QED  BY <1>1, <1>2, <1>4, <1>7, <2>1, <2>2 DEF LostInv
  <1> QED  BY <1>8, <1>9

\* A lapped record is as much so when the tailer has lost it.
LEMMA LappedStays ==
  ASSUME NEW first \in Nat, appended \in Nat, readSeq \in Nat, LogCapacity \in Nat,
         readSeq' = readSeq + 1, Lost' = Lost \cup {readSeq}, UNCHANGED appended,
         \A r \in Lost : first <= r => r \in Lapped(first),
         Lost \subseteq 0 .. readSeq - 1,
         first <= readSeq => readSeq \in first .. appended - LogCapacity - 1
  PROVE  /\ Lapped(first)' = Lapped(first)
         /\ \A r \in Lost' : first <= r => r \in Lapped(first)
  <1>1. \A r \in first .. appended - LogCapacity - 1 :
          (r \in Lost' \/ readSeq' <= r) <=> (r \in Lost \/ readSeq <= r)
    OBVIOUS
  <1>2. Lapped(first)' = Lapped(first)
    BY <1>1 DEF Lapped
  <1>3. first <= readSeq => readSeq \in Lapped(first)
    BY DEF Lapped
  <1> QED  BY <1>2, <1>3

\* A record the tailer finds overwritten is one that on_md has counted, if it was ever
\* in this log.
LEMMA SkipLoses ==
  ASSUME NEW first \in Nat, CursorInv, LogInv(first), SlotsInv, LostInv(first),
         readSeq < committed, ~NamesRecord, Skip
  PROVE  LostInv(first)'
  <1>1. /\ appended \in Nat /\ readSeq \in Nat /\ LogCapacity \in Nat /\ overwrites \in Nat
        /\ IsFiniteSet(Lapped(first)) /\ IsFiniteSet(skipped)
        /\ skipped \subseteq 0 .. readSeq - 1 /\ Lost \subseteq 0 .. readSeq - 1
        /\ Cardinality(skipped) \in Nat /\ Cardinality(Lapped(first)) \in Nat
    BY LostTyped
  <1>2. /\ skipped' = skipped \cup {readSeq} /\ Lost' = Lost \cup {readSeq}
        /\ readSeq' = readSeq + 1 /\ overwrites' = overwrites + 1 /\ UNCHANGED appended
    BY DEF Skip, CountSkip, Lost, writerVars
  <1>3. /\ \A r \in Lost : first <= r => r \in Lapped(first)
        /\ Cardinality(skipped) + Cardinality(Lapped(first)) <= overwrites
    BY DEF LostInv
  <1>4. first <= readSeq => readSeq \in first .. appended - LogCapacity - 1
    <2>1. first <= readSeq => appended - readSeq > LogCapacity
      BY SkippedIsLapped
    <2> QED  BY <1>1, <2>1
  <1>5. /\ Lapped(first)' = Lapped(first)
        /\ \A r \in Lost' : first <= r => r \in Lapped(first)
    BY <1>1, <1>2, <1>3, <1>4, LappedStays
  <1>6. Cardinality(skipped') = Cardinality(skipped) + 1
    <2>1. readSeq \notin skipped
      BY <1>1
    <2> QED  BY <1>1, <1>2, <2>1, FS_AddElement
  <1> QED  BY <1>1, <1>2, <1>3, <1>5, <1>6 DEF LostInv

\* So is one of which it keeps the rest of another.
LEMMA KeepLoses ==
  ASSUME NEW first \in Nat, CursorInv, CopyInv(first), SlotsInv, LostInv(first),
         tpc = "recheck", copy # readSeq, KeepRecord
  PROVE  LostInv(first)'
  <1>1. /\ appended \in Nat /\ readSeq \in Nat /\ LogCapacity \in Nat
        /\ Lost \subseteq 0 .. readSeq - 1
    BY LostTyped
  <1>2. /\ Lost' = Lost \cup {readSeq} /\ readSeq' = readSeq + 1
        /\ UNCHANGED <<appended, skipped, overwrites>>
    BY DEF KeepRecord, Lost, writerVars
  <1>3. /\ \A r \in Lost : first <= r => r \in Lapped(first)
        /\ Cardinality(skipped) + Cardinality(Lapped(first)) <= overwrites
    BY DEF LostInv
  <1>4. first <= readSeq => readSeq \in first .. appended - LogCapacity - 1
    <2>1. first <= readSeq => appended - readSeq > LogCapacity
      BY DamagedIsLapped
    <2> QED  BY <1>1, <2>1
  <1>5. /\ Lapped(first)' = Lapped(first)
        /\ \A r \in Lost' : first <= r => r \in Lapped(first)
    BY <1>1, <1>2, <1>3, <1>4, LappedStays
  <1> QED  BY <1>2, <1>3, <1>5 DEF LostInv

\* Every other step loses nothing.
LEMMA LostInductive ==
  ASSUME NEW first \in Nat, CursorInv, WriterInv(first), LogInv(first), CopyInv(first), SlotsInv,
         LostInv(first), [Next]_vars
  PROVE  LostInv(first)'
  <1>1. CASE TakeTick
    BY <1>1, TickLoses
  <1>2. CASE tpc \in {"check", "recheck"} /\ ~NamesRecord /\ Skip
    <2>1. readSeq < end /\ end \in 0 .. committed
      BY <1>2 DEF CursorInv, Control, TypeOK
    <2>2. readSeq < committed
      BY <2>1, TailerTyped
    <2> QED  BY <1>2, <2>2, SkipLoses
  <1>3. CASE UNCHANGED <<appended, skipped, Lost>> /\ readSeq' \in {readSeq, readSeq + 1}
    <2>1. /\ appended \in Nat /\ readSeq \in Nat /\ LogCapacity \in Nat /\ overwrites \in Nat
          /\ IsFiniteSet(Lapped(first)) /\ Lost \subseteq 0 .. readSeq - 1
          /\ Cardinality(skipped) \in Nat /\ Cardinality(Lapped(first)) \in Nat
      BY LostTyped
    <2>2. /\ \A r \in Lost : first <= r => r \in Lapped(first)
          /\ Cardinality(skipped) + Cardinality(Lapped(first)) <= overwrites
      BY DEF LostInv
    <2>3. Lapped(first)' \subseteq Lapped(first)
      BY <1>3, <2>1 DEF Lapped
    <2>4. Cardinality(Lapped(first)') <= Cardinality(Lapped(first)) /\ Cardinality(Lapped(first)') \in Nat
      BY <2>1, <2>3, FS_Subset, FS_CardinalityType
    <2>5. \A r \in Lost : first <= r => r \in Lapped(first)'
      BY <1>3, <2>1, <2>2 DEF Lapped
    <2>6. overwrites' \in {overwrites, overwrites + 1}
      BY CountsGrow
    <2> QED  BY <1>3, <2>1, <2>2, <2>4, <2>5, <2>6 DEF LostInv
  <1>4. CASE StoreSeq \/ StoreData \/ Commit
    BY <1>3, <1>4 DEF StoreSeq, StoreData, Commit, Lost, cursorVars
  <1>5. CASE CopyRecord \/ LoopCondition \/ LoadEnd
    BY <1>3, <1>5 DEF CopyRecord, LoopCondition, LoadEnd, Lost, writerVars, cursorVars
  <1>6. CASE CheckIdentity \/ Recheck
    <2>1. CASE CheckIdentity /\ NamesRecord
      BY <1>3, <2>1 DEF CheckIdentity, Lost, writerVars, cursorVars
    <2>2. CASE tpc = "recheck" /\ KeepRecord /\ copy = readSeq
      BY <1>3, <2>2 DEF KeepRecord, Lost, writerVars
    <2>3. CASE tpc = "recheck" /\ KeepRecord /\ copy # readSeq
      BY <2>3, KeepLoses
    <2> QED  BY <1>2, <1>6, <2>1, <2>2, <2>3 DEF CheckIdentity, Recheck, StillNamed
  <1>7. CASE Flush \/ StopBegin \/ Stopping \/ UNCHANGED vars
    <2>1. UNCHANGED writerVars
      BY <1>7, TailerWritesNoLog DEF Tailer
    <2>2. UNCHANGED <<readSeq, skipped, Lost>>
      BY <1>7 DEF Flush, OpenSegment, CloseFull, WriteRows, Sync, FlushFails, StopBegin, Stopping,
                  Join, DrainEnd, CloseLast, Lost, vars, cursorVars
    <2> QED  BY <1>3, <2>1, <2>2 DEF writerVars
  <1> QED  BY <1>1, <1>4, <1>5, <1>6, <1>7 DEF Next, OnMd, Tailer

\* The invariant of a log that begins at base.
AgainInv ==
  base \in Nat /\ LogFrom(base) /\ CutInv /\ SlotsInv /\ LostInv(base)

LEMMA AgainKeeps ==
  ASSUME AgainInv, Again
  PROVE  AgainInv'
  <1>1. /\ base \in Nat /\ LogFrom(base) /\ CursorInv
        /\ EmptyStore /\ NewTailer /\ base' = appended
        /\ wpc' = "idle" /\ running' = TRUE /\ mpc' = "up" /\ started' = TRUE
        /\ UNCHANGED <<appended, durableView, files>>
    BY DEF AgainInv, LogFrom, Again
  <1>2. appended \in 0 .. MaxTicks /\ durableView \in 0 .. appended
    BY <1>1 DEF CursorInv, TypeOK
  <1>3. PICK b \in 0 .. MaxTicks : b = appended
    BY <1>2
  <1>4. LogFrom(b)'
    BY <1>1, <1>2, <1>3, FreshKeeps
  <1>5. LogFrom(base)'
    BY <1>1, <1>3, <1>4 DEF LogFrom, WriterInv, Newest, LogInv, CopyInv
  <1>6. CutInv'
    BY <1>1, FreshCuts
  <1>7. SlotsInv'
    BY <1>1 DEF EmptyStore, NewTailer, SlotsInv
  <1>8. LostInv(base)'
    <2>1. appended \in Nat /\ LogCapacity \in Nat
      BY <1>2, TailerAssumption
    <2>2. skipped' = {} /\ Lost' = {} /\ overwrites' = 0
      BY <1>1 DEF EmptyStore, NewTailer, Lost
    <2>3. Lapped(base)' = {}
      BY <1>1, <2>1, <2>2 DEF EmptyStore, NewTailer, Lapped
    <2> QED  BY <2>2, <2>3, FS_EmptySet DEF LostInv
  <1>9. base' \in Nat
    BY <1>1, <1>2, TailerAssumption
  <1> QED  BY <1>5, <1>6, <1>7, <1>8, <1>9 DEF AgainInv

LEMMA RestartKeepsAgain ==
  ASSUME AgainInv, Restart, base' = 0
  PROVE  AgainInv'
  <1>1. base \in Nat /\ LogFrom(base)
    BY DEF AgainInv
  <1>2. LogFrom(0)' /\ CutInv'
    BY <1>1, RestartKeeps DEF TailerInv
  <1>3. LogFrom(base)'
    BY <1>2 DEF LogFrom, WriterInv, Newest, LogInv, CopyInv
  <1>4. SlotsInv'
    BY DEF Restart, SlotsInv
  <1>5. LostInv(base)'
    <2>1. skipped' = {} /\ Lost' = {} /\ overwrites' = 0 /\ appended' = 0 /\ readSeq' = 0
      BY DEF Restart, Lost
    <2>2. Lapped(base)' = {}
      BY <2>1, TailerAssumption DEF Restart, Lapped
    <2> QED  BY <2>1, <2>2, FS_EmptySet DEF LostInv
  <1> QED  BY <1>2, <1>3, <1>4, <1>5 DEF AgainInv

LEMMA StepKeepsAgain ==
  ASSUME AgainInv, [Next]_vars, UNCHANGED base
  PROVE  AgainInv'
  <1>1. base \in Nat /\ LogFrom(base) /\ CutInv /\ SlotsInv /\ LostInv(base)
    BY DEF AgainInv
  <1>2. PICK b \in Nat : b = base
    BY <1>1
  <1>3. LogFrom(b) /\ LostInv(b)
    BY <1>1, <1>2
  <1>4. CursorInv /\ WriterInv(b) /\ LogInv(b) /\ CopyInv(b)
    BY <1>3 DEF LogFrom
  <1>5. LogFrom(b)' /\ LostInv(b)' /\ CutInv' /\ SlotsInv'
    BY <1>1, <1>3, <1>4, LogFromInductive, LostInductive, CutInductive, SlotsInductive
  <1>6. base' = b
    BY <1>2
  <1>7. LogFrom(base)'
    BY <1>5, <1>6 DEF LogFrom, WriterInv, Newest, LogInv, CopyInv
  <1>8. LostInv(base)'
    BY <1>5, <1>6 DEF LostInv, Lapped
  <1> QED  BY <1>1, <1>5, <1>7, <1>8 DEF AgainInv

\* Over restarts of the process and second starts of one DemoMd, in any order.
THEOREM EveryStart == AgainSpec => []AgainInv
  <1>1. AgainInit => AgainInv
    <2> SUFFICES ASSUME Init, base = 0
                 PROVE  AgainInv
      BY DEF AgainInit, RestartInit
    <2>1. LogFrom(0) /\ CutInv
      BY TailerInitially, CutInitially DEF TailerInv
    <2>2. LogFrom(base)
      BY <2>1 DEF LogFrom, WriterInv, Newest, LogInv, CopyInv
    <2>3. SlotsInv /\ skipped = {} /\ Lost = {} /\ overwrites = 0
      BY DEF Init, SlotsInv, Lost
    <2>4. Lapped(base) = {}
      BY <2>3, TailerAssumption DEF Init, Lapped
    <2> QED  BY <2>1, <2>2, <2>3, <2>4, FS_EmptySet DEF AgainInv, LostInv
  <1>2. AgainInv /\ [AgainNext]_againVars => AgainInv'
    <2> SUFFICES ASSUME AgainInv, [AgainNext]_againVars
                 PROVE  AgainInv'
      OBVIOUS
    <2>1. CASE Again
      BY <2>1, AgainKeeps
    <2>2. CASE Restart /\ base' = 0
      BY <2>2, RestartKeepsAgain
    <2>3. CASE [Next]_vars /\ UNCHANGED base
      BY <2>3, StepKeepsAgain
    <2> QED  BY <2>1, <2>2, <2>3 DEF AgainNext, againVars, restartVars
  <1> QED  BY <1>1, <1>2, PTL DEF AgainSpec

\* durable_seq tells the truth after every start, though the cursors of on_md go on and
\* the log does not.
THEOREM DurableAfterEveryStart == AgainSpec => []DurableIsOnDisk
  <1>1. AgainInv => DurableIsOnDisk
    BY DEF AgainInv, LogFrom, KeptInv
  <1> QED  BY <1>1, EveryStart, PTL

\* stop() ends the WAL with a clean cut, whatever was started before.
THEOREM CutsAreCleanAfterEveryStart == AgainSpec => []CutIsClean
  <1>1. AgainInv => CutIsClean
    <2> SUFFICES ASSUME AgainInv PROVE CutIsClean
      OBVIOUS
    <2>1. base \in Nat /\ LogFrom(base) /\ CutInv
      BY DEF AgainInv
    <2>2. PICK b \in Nat : b = base
      BY <2>1
    <2> QED  BY <2>1, <2>2, CleanCut
  <1> QED  BY <1>1, EveryStart, PTL

\* Nothing the tailer has read is missing uncounted: a record of the window is buffered or
\* on disk, whole, unless a lap has lost it, found overwritten or torn while it was copied;
\* on_md has counted those of this log, the tailer those it found, and the guard of on_md
\* has counted every other overwrite in time.
THEOREM LossesAreCountedAlways == AgainSpec => []LossesAreCounted
  <1>1. AgainInv => LossesAreCounted
    <2> SUFFICES ASSUME AgainInv PROVE LossesAreCounted
      OBVIOUS
    <2>1. /\ base \in Nat /\ CursorInv /\ WriterInv(base) /\ LostInv(base)
          /\ ReadIsKept /\ DurableIsOnDisk
      BY DEF AgainInv, LogFrom, KeptInv
    <2>2. ASSUME NEW p \in window, p < readSeq
          PROVE  OnDisk(p) \/ Buffered(p) \/ p \in Lost
      <3>1. window \subseteq 0 .. appended - 1 /\ appended \in Nat /\ durable \in Nat
        BY <2>1, TailerTyped
      <3>2. CASE p < durable
        BY <2>1, <3>2 DEF DurableIsOnDisk
      <3>3. CASE durable <= p
        BY <2>1, <2>2, <3>3 DEF ReadIsKept
      <3> QED  BY <3>1, <3>2, <3>3
    <2>3. Cardinality(skipped) + Cardinality({p \in Lost : p >= base}) <= overwrites
      <3>1. /\ IsFiniteSet(Lapped(base)) /\ Cardinality(skipped) \in Nat /\ overwrites \in Nat
            /\ Cardinality(Lapped(base)) \in Nat /\ Lost \subseteq 0 .. readSeq - 1
            /\ readSeq \in Nat
        BY <2>1, LostTyped
      <3> DEFINE late == {p \in Lost : p >= base}
      <3>2. late \subseteq Lapped(base)
        BY <2>1, <3>1 DEF LostInv
      <3>3. Cardinality(late) <= Cardinality(Lapped(base)) /\ Cardinality(late) \in Nat
        BY <3>1, <3>2, FS_Subset, FS_CardinalityType
      <3>4. Cardinality(skipped) + Cardinality(Lapped(base)) <= overwrites
        BY <2>1 DEF LostInv
      <3> HIDE DEF late
      <3>5. Cardinality(skipped) + Cardinality(late) <= overwrites
        BY <3>1, <3>3, <3>4
      <3> QED  BY <3>5 DEF late
    <2>4. \/ appended - base <= LogCapacity + overwrites
          \/ appended - durable <= LogCapacity + overwrites
      BY <2>1 DEF WriterInv
    <2> QED  BY <2>2, <2>3, <2>4 DEF LossesAreCounted
  <1> QED  BY <1>1, EveryStart, PTL
=============================================================================
