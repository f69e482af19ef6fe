-------------------------- MODULE TailerV2_proofs --------------------------
(***************************************************************************)
(* Theorems about TailerV2, for every value of its constants.              *)
(***************************************************************************)
EXTENDS TailerV2, FlattenLemmas, TLAPS

RowSet == [seq : Int, of : Int]
File == [rows : Seq(RowSet), dirty : SUBSET Nat, safe : SUBSET Nat]

\* The segments, of which the newest may be open.
FilesOK ==
  /\ segment \in Nat /\ DOMAIN files \subseteq 0 .. segment - 1
  /\ files \in [DOMAIN files -> File]
  /\ fdOpen => Current \in DOMAIN files
  /\ \A i \in DOMAIN files :
       files[i].safe \cup files[i].dirty \subseteq RowsOf(i)
       /\ files[i].safe \cap files[i].dirty = {}

\* The rest of the type invariant: the counters, ...
Numbers ==
  /\ appended \in 0 .. MaxTicks /\ committed \in 0 .. appended
  /\ readSeq \in 0 .. committed /\ end \in 0 .. committed
  /\ durable \in 0 .. readSeq /\ durableView \in 0 .. durable
  /\ overwrites \in Nat /\ failures \in 0 .. MaxFailures
  /\ off \in 0 .. Len(buf) /\ rowsInSegment \in 0 .. SegmentRows

\* ... the day log, ...
LogTyped ==
  /\ logSeq \in [Slots -> 0 .. MaxTicks] /\ logData \in [Slots -> Zeroed .. MaxTicks]
  /\ window \subseteq 0 .. appended - 1

\* ... and where everybody is.
Places ==
  /\ wpc \in {"idle", "storing"}
  /\ tpc \in {"loop", "load", "check", "flags", "copy", "flush", "exited"}
  /\ mpc \in {"up", "joining", "draining", "dropping", "down"}
  /\ fdOpen \in BOOLEAN /\ running \in BOOLEAN /\ lost \subseteq Int

\* The buffer, whose rows name records.
BufferOK == buf \in Seq(RowSet) /\ \A k \in 1 .. Len(buf) : buf[k].seq >= 0

\* Where on_md, the tailer and stop() are, relative to one another: the tailer ends
\* only when stop() has been called and everything committed is read.
Control ==
  /\ appended = IF wpc = "idle" THEN committed ELSE committed + 1
  /\ running <=> mpc = "up"
  /\ mpc # "up" => wpc = "idle"
  /\ tpc = "exited" => mpc # "up" /\ readSeq = committed
  /\ mpc \in {"draining", "dropping"} => tpc \in {"flush", "exited"} /\ readSeq = committed
  /\ mpc = "down" => tpc = "exited"
  /\ tpc \in {"check", "flags", "copy"} => readSeq < end
  /\ tpc # "flush" => off = 0

CursorInv == TypeOK /\ FilesOK /\ BufferOK /\ Control

-----------------------------------------------------------------------------
(* Lemmas about the operators.                                             *)

\* The type invariant in parts, of a state and of the next.
LEMMA TypeParts == FilesOK => (TypeOK <=> Numbers /\ LogTyped /\ Places)
  BY DEF TypeOK, FilesOK, Numbers, LogTyped, Places

LEMMA TypePartsNext == (FilesOK /\ Numbers /\ LogTyped /\ Places => TypeOK)'
  <1>1. FilesOK /\ Numbers /\ LogTyped /\ Places => TypeOK
    BY TypeParts
  <1> QED  BY <1>1, PTL

\* A record has a slot in the day log.
LEMMA SlotRange ==
  ASSUME NEW p \in Nat
  PROVE  SlotOf(p) \in Slots
  BY TailerV2Assumption, Z3 DEF SlotOf, Slots

\* Two records of one slot are a lap apart.
LEMMA LapsApart ==
  ASSUME NEW p \in Nat, NEW q \in Nat, p < q, SlotOf(p) = SlotOf(q)
  PROVE  q >= p + LogCapacity
  <1> DEFINE C == LogCapacity
             a == p \div C
             b == q \div C
  <1>1. C \in Nat \ {0}
    BY TailerV2Assumption
  <1> HIDE DEF C
  <1>2. /\ a \in Nat /\ p = C * a + (p % C)
        /\ b \in Nat /\ q = C * b + (q % C)
    BY <1>1
  <1> HIDE DEF a, b
  <1>3. p % C = q % C /\ p % C \in 0 .. C - 1
    BY <1>1 DEF SlotOf, C
  <1>4. C * a < C * b
    BY <1>1, <1>2, <1>3
  <1>5. a + 1 <= b
    <2> SUFFICES ASSUME b <= a PROVE FALSE
      BY <1>2
    <2>1. C * b <= C * a
      BY <1>1, <1>2
    <2> QED  BY <1>1, <1>2, <1>4, <2>1
  <1>6. C * (a + 1) <= C * b
    BY <1>1, <1>2, <1>5
  <1>7. C * (a + 1) = C * a + C
    BY <1>1, <1>2
  <1> QED  BY <1>1, <1>2, <1>3, <1>6, <1>7 DEF C

\* A chunk fits in the segment, and is what the buffer holds next.
LEMMA ChunkRange ==
  ASSUME CursorInv, Writes
  PROVE  /\ ChunkRows \in Seq(RowSet)
         /\ Len(ChunkRows) \in 1 .. Len(buf) - off
         /\ rowsInSegment + Len(ChunkRows) <= SegmentRows
         /\ \A k \in 1 .. Len(ChunkRows) : ChunkRows[k] = buf[off + k]
  <1>1. /\ buf \in Seq(RowSet) /\ off \in Nat /\ off < Len(buf) /\ Len(buf) \in Nat
        /\ rowsInSegment \in Nat /\ rowsInSegment < SegmentRows /\ SegmentRows \in Nat
    BY TailerV2Assumption DEF CursorInv, BufferOK, TypeOK, Writes, SegmentFull
  <1>2. /\ RowsLeft \in Seq(RowSet) /\ Len(RowsLeft) = Len(buf) - off
        /\ \A k \in 1 .. Len(RowsLeft) : RowsLeft[k] = buf[off + k]
    BY <1>1 DEF RowsLeft
  <1> DEFINE room == SegmentRows - rowsInSegment
             n == IF room < Len(RowsLeft) THEN room ELSE Len(RowsLeft)
  <1>3. n \in 1 .. Len(RowsLeft) /\ n <= SegmentRows - rowsInSegment
    BY <1>1, <1>2
  <1>4. ChunkRows = SubSeq(RowsLeft, 1, n)
    BY DEF ChunkRows
  <1> HIDE DEF n
  <1>5. /\ ChunkRows \in Seq(RowSet) /\ Len(ChunkRows) = n
        /\ \A k \in 1 .. n : ChunkRows[k] = RowsLeft[k]
    BY <1>2, <1>3, <1>4
  <1>6. \A k \in 1 .. n : ChunkRows[k] = buf[off + k]
    BY <1>2, <1>3, <1>5
  <1>7. n <= Len(buf) - off /\ n >= 1 /\ n \in Int /\ rowsInSegment + n <= SegmentRows
    BY <1>1, <1>2, <1>3
  <1> QED  BY <1>1, <1>5, <1>6, <1>7

-----------------------------------------------------------------------------
(* What a step does to the segments.                                       *)

\* Rows and what an fsync has covered are never taken back.
Grows ==
  /\ DOMAIN files \subseteq DOMAIN files'
  /\ \A i \in DOMAIN files :
       /\ Len(files[i].rows) <= Len(files'[i].rows)
       /\ \A k \in 1 .. Len(files[i].rows) : files'[i].rows[k] = files[i].rows[k]
       /\ files[i].safe \subseteq files'[i].safe

\* The rows that are new are of this set.
AddsOnly(S) ==
  \A i \in DOMAIN files' : \A k \in 1 .. Len(files'[i].rows) :
    \/ i \in DOMAIN files /\ k \in 1 .. Len(files[i].rows)
       /\ files'[i].rows[k] = files[i].rows[k]
    \/ files'[i].rows[k] \in S

BufferRows == {buf[k] : k \in 1 .. Len(buf)}

\* A file with one field changed, and then another.
LEMMA FileExcept ==
  \A f \in File : \A x, y :
    /\ [f EXCEPT !.dirty = x] = [rows |-> f.rows, dirty |-> x, safe |-> f.safe]
    /\ [[f EXCEPT !.dirty = x] EXCEPT !.rows = y] = [rows |-> y, dirty |-> x, safe |-> f.safe]
    /\ [[f EXCEPT !.safe = x] EXCEPT !.dirty = y] = [rows |-> f.rows, dirty |-> y, safe |-> x]
  <1> SUFFICES ASSUME NEW f \in File, NEW x, NEW y
               PROVE  /\ [f EXCEPT !.dirty = x] = [rows |-> f.rows, dirty |-> x, safe |-> f.safe]
                      /\ [[f EXCEPT !.dirty = x] EXCEPT !.rows = y]
                           = [rows |-> y, dirty |-> x, safe |-> f.safe]
                      /\ [[f EXCEPT !.safe = x] EXCEPT !.dirty = y]
                           = [rows |-> f.rows, dirty |-> y, safe |-> x]
    BY Zenon
  <1>1. /\ [f EXCEPT !.dirty = x] = [rows |-> f.rows, dirty |-> x, safe |-> f.safe]
        /\ [f EXCEPT !.safe = x] = [rows |-> f.rows, dirty |-> f.dirty, safe |-> x]
    BY DEF File
  <1>2. [[f EXCEPT !.dirty = x] EXCEPT !.rows = y]
          = [[rows |-> f.rows, dirty |-> x, safe |-> f.safe] EXCEPT !.rows = y]
    BY <1>1, Zenon
  <1>3. [[rows |-> f.rows, dirty |-> x, safe |-> f.safe] EXCEPT !.rows = y]
          = [rows |-> y, dirty |-> x, safe |-> f.safe]
    OBVIOUS
  <1>4. [[f EXCEPT !.safe = x] EXCEPT !.dirty = y]
          = [[rows |-> f.rows, dirty |-> f.dirty, safe |-> x] EXCEPT !.dirty = y]
    BY <1>1, Zenon
  <1>5. [[rows |-> f.rows, dirty |-> f.dirty, safe |-> x] EXCEPT !.dirty = y]
          = [rows |-> f.rows, dirty |-> y, safe |-> x]
    OBVIOUS
  <1> QED  BY <1>1, <1>2, <1>3, <1>4, <1>5, Zenon

\* What a write adds to the open segment, and leaves alone.
LEMMA AppendFacts ==
  ASSUME FilesOK, fdOpen, NEW rows \in Seq(RowSet), AppendRows(rows)
  PROVE  /\ DOMAIN files' = DOMAIN files /\ files' \in [DOMAIN files -> File]
         /\ \A i \in DOMAIN files : i # Current => files'[i] = files[i]
         /\ files'[Current].rows = files[Current].rows \o rows
         /\ files'[Current].safe = files[Current].safe
         /\ files'[Current].dirty =
              files[Current].dirty \cup {Len(files[Current].rows) + k : k \in 1 .. Len(rows)}
  <1> DEFINE f == files[Current]
             d == f.dirty \cup {Len(f.rows) + k : k \in 1 .. Len(rows)}
             new == [rows |-> f.rows \o rows, dirty |-> d, safe |-> f.safe]
  <1>1. Current \in DOMAIN files /\ f \in File
    BY DEF FilesOK
  <1>2. f.rows \in Seq(RowSet) /\ f.dirty \subseteq Nat /\ f.safe \subseteq Nat
        /\ f = [rows |-> f.rows, dirty |-> f.dirty, safe |-> f.safe]
    BY <1>1 DEF File
  <1>3. f.rows \o rows \in Seq(RowSet) /\ d \subseteq Nat
    BY <1>2
  <1>4. new \in File
    BY <1>2, <1>3 DEF File
  <1>5. files' = [files EXCEPT ![Current] = new]
    <2> HIDE DEF d
    <2>1. files' = [files EXCEPT ![Current] =
                      [[f EXCEPT !.dirty = d] EXCEPT !.rows = f.rows \o rows]]
      BY <1>1, <1>2 DEF AppendRows, d
    <2>2. [[f EXCEPT !.dirty = d] EXCEPT !.rows = f.rows \o rows] = new
      BY <1>1, FileExcept, Zenon
    <2> QED  BY <2>1, <2>2
  <1> HIDE DEF d, f
  <1>6. files'[Current] = new
    BY <1>1, <1>5
  <1>7. DOMAIN files' = DOMAIN files /\ files' \in [DOMAIN files -> File]
        /\ \A i \in DOMAIN files : i # Current => files'[i] = files[i]
    <2> HIDE DEF new
    <2> QED  BY <1>1, <1>4, <1>5 DEF FilesOK
  <1> QED  BY <1>6, <1>7 DEF d, f

\* So the segments grow by these rows.
LEMMA AppendGrows ==
  ASSUME FilesOK, fdOpen, NEW rows \in Seq(RowSet), AppendRows(rows), UNCHANGED <<segment, fdOpen>>
  PROVE  /\ FilesOK' /\ Grows /\ AddsOnly({rows[k] : k \in 1 .. Len(rows)})
         /\ \A k \in 1 .. Len(rows) :
              /\ Len(files[Current].rows) + k \in files'[Current].dirty
              /\ Len(files[Current].rows) + k \in 1 .. Len(files'[Current].rows)
              /\ files'[Current].rows[Len(files[Current].rows) + k] = rows[k]
         /\ files[Current].dirty \subseteq files'[Current].dirty
  <1> DEFINE old == files[Current].rows
             new == files'[Current].rows
  <1>1. /\ DOMAIN files' = DOMAIN files /\ files' \in [DOMAIN files -> File]
        /\ \A i \in DOMAIN files : i # Current => files'[i] = files[i]
        /\ new = old \o rows
        /\ files'[Current].safe = files[Current].safe
        /\ files'[Current].dirty = files[Current].dirty \cup {Len(old) + k : k \in 1 .. Len(rows)}
    BY AppendFacts
  <1>2. Current \in DOMAIN files /\ old \in Seq(RowSet)
        /\ \A i \in DOMAIN files : files[i].rows \in Seq(RowSet) /\ Len(files[i].rows) \in Nat
    BY DEF FilesOK, File
  <1>3. /\ Len(new) = Len(old) + Len(rows) /\ Len(old) \in Nat /\ Len(rows) \in Nat
        /\ \A k \in 1 .. Len(old) : new[k] = old[k]
        /\ \A k \in 1 .. Len(rows) : new[Len(old) + k] = rows[k]
    BY <1>1, <1>2
  <1>4. files[Current].safe \cup files[Current].dirty \subseteq 1 .. Len(old)
        /\ files[Current].safe \cap files[Current].dirty = {}
    BY <1>2 DEF FilesOK, RowsOf
  <1>5. /\ files'[Current].safe \cup files'[Current].dirty \subseteq 1 .. Len(new)
        /\ files'[Current].safe \cap files'[Current].dirty = {}
    <2> HIDE DEF old, new
    <2> QED  BY <1>1, <1>3, <1>4
  <1>6. \A k \in 1 .. Len(new) : \/ k \in 1 .. Len(old) /\ new[k] = old[k]
                                 \/ new[k] \in {rows[l] : l \in 1 .. Len(rows)}
    <2> HIDE DEF old, new
    <2> SUFFICES ASSUME NEW k \in 1 .. Len(new), k \notin 1 .. Len(old)
                 PROVE  new[k] \in {rows[l] : l \in 1 .. Len(rows)}
      BY <1>3
    <2>1. k - Len(old) \in 1 .. Len(rows) /\ Len(old) + (k - Len(old)) = k
      BY <1>3
    <2> QED  BY <1>3, <2>1
  <1>7. /\ \A k \in 1 .. Len(rows) : /\ Len(old) + k \in files'[Current].dirty
                                    /\ Len(old) + k \in 1 .. Len(new)
        /\ files[Current].dirty \subseteq files'[Current].dirty
    <2> HIDE DEF old, new
    <2> QED  BY <1>1, <1>3
  <1>8. FilesOK'
    <2>1. segment' = segment /\ Current' = Current /\ fdOpen' = fdOpen
      BY DEF Current
    <2>2. \A i \in DOMAIN files' :
            /\ files'[i].safe \cup files'[i].dirty \subseteq 1 .. Len(files'[i].rows)
            /\ files'[i].safe \cap files'[i].dirty = {}
      BY <1>1, <1>5 DEF FilesOK, RowsOf
    <2> QED  BY <1>1, <2>1, <2>2 DEF FilesOK, RowsOf
  <1>9. Grows
    <2> SUFFICES ASSUME NEW i \in DOMAIN files
                 PROVE  /\ Len(files[i].rows) <= Len(files'[i].rows)
                        /\ \A k \in 1 .. Len(files[i].rows) : files'[i].rows[k] = files[i].rows[k]
                        /\ files[i].safe \subseteq files'[i].safe
      BY <1>1 DEF Grows
    <2>1. CASE i = Current
      <3>1. Len(old) <= Len(new)
        <4> HIDE DEF old, new
        <4> QED  BY <1>3
      <3> QED  BY <1>1, <1>3, <2>1, <3>1
    <2>2. CASE i # Current
      BY <1>1, <1>2, <2>2
    <2> QED  BY <2>1, <2>2
  <1>10. AddsOnly({rows[k] : k \in 1 .. Len(rows)})
    <2> SUFFICES ASSUME NEW i \in DOMAIN files', NEW k \in 1 .. Len(files'[i].rows)
                 PROVE  \/ i \in DOMAIN files /\ k \in 1 .. Len(files[i].rows)
                           /\ files'[i].rows[k] = files[i].rows[k]
                        \/ files'[i].rows[k] \in {rows[l] : l \in 1 .. Len(rows)}
      BY DEF AddsOnly
    <2>1. CASE i = Current
      BY <1>1, <1>6, <2>1
    <2>2. CASE i # Current
      BY <1>1, <2>2
    <2> QED  BY <2>1, <2>2
  <1> QED  BY <1>3, <1>7, <1>8, <1>9, <1>10

\* An fsync, and what a failed one gives up.
LEMMA SyncFacts ==
  ASSUME FilesOK, fdOpen, SyncFile \/ GiveUpFile
  PROVE  /\ DOMAIN files' = DOMAIN files /\ files' \in [DOMAIN files -> File]
         /\ \A i \in DOMAIN files : i # Current => files'[i] = files[i]
         /\ \A i \in DOMAIN files : files'[i].rows = files[i].rows
         /\ files'[Current].dirty = {}
         /\ files'[Current].safe =
              IF SyncFile THEN files[Current].safe \cup files[Current].dirty
              ELSE files[Current].safe
         /\ \A i \in DOMAIN files :
              /\ files[i].safe \subseteq files'[i].safe
              /\ files'[i].safe \cup files'[i].dirty \subseteq 1 .. Len(files'[i].rows)
              /\ files'[i].safe \cap files'[i].dirty = {}
  <1> DEFINE f == files[Current]
  <1>1. Current \in DOMAIN files /\ f \in File
        /\ \A i \in DOMAIN files : files[i] \in File
    BY DEF FilesOK
  <1>2. f.rows \in Seq(RowSet) /\ f.dirty \subseteq Nat /\ f.safe \subseteq Nat
    BY <1>1 DEF File
  <1>3. PICK s \in SUBSET Nat :
          /\ s = IF SyncFile THEN f.safe \cup f.dirty ELSE f.safe
          /\ files' = [files EXCEPT ![Current] = [rows |-> f.rows, dirty |-> {}, safe |-> s]]
    <2>1. CASE SyncFile
      <3>1. files' = [files EXCEPT ![Current] =
                       [[f EXCEPT !.safe = f.safe \cup f.dirty] EXCEPT !.dirty = {}]]
        BY <1>1, <2>1 DEF SyncFile
      <3>2. [[f EXCEPT !.safe = f.safe \cup f.dirty] EXCEPT !.dirty = {}]
            = [rows |-> f.rows, dirty |-> {}, safe |-> f.safe \cup f.dirty]
        <4>1. \A x, y : [[f EXCEPT !.safe = x] EXCEPT !.dirty = y]
                        = [rows |-> f.rows, dirty |-> y, safe |-> x]
          <5> HIDE DEF f
          <5>1. f \in File
            BY <1>1
          <5> QED  BY <5>1, FileExcept, Zenon
        <4> QED  BY <4>1, Zenon
      <3> QED  BY <1>2, <2>1, <3>1, <3>2
    <2>2. CASE ~SyncFile
      <3>1. files' = [files EXCEPT ![Current] = [f EXCEPT !.dirty = {}]]
        BY <1>1, <2>2 DEF GiveUpFile
      <3>2. [f EXCEPT !.dirty = {}] = [rows |-> f.rows, dirty |-> {}, safe |-> f.safe]
        BY <1>1, FileExcept, Zenon
      <3> QED  BY <1>2, <2>2, <3>1, <3>2
    <2> QED  BY <2>1, <2>2
  <1> DEFINE new == [rows |-> f.rows, dirty |-> {}, safe |-> s]
  <1>4. new \in File
    BY <1>2 DEF File
  <1>5. DOMAIN files' = DOMAIN files /\ files' \in [DOMAIN files -> File] /\ files'[Current] = new
        /\ \A i \in DOMAIN files : i # Current => files'[i] = files[i]
    <2> HIDE DEF new
    <2>1. files' = [files EXCEPT ![Current] = new]
      BY <1>3 DEF new
    <2> QED  BY <1>1, <1>4, <2>1 DEF FilesOK
  <1>6. \A i \in DOMAIN files :
          /\ files[i].safe \cup files[i].dirty \subseteq 1 .. Len(files[i].rows)
          /\ files[i].safe \cap files[i].dirty = {}
    BY DEF FilesOK, RowsOf
  <1>7. \A i \in DOMAIN files :
              /\ files[i].safe \subseteq files'[i].safe
              /\ files'[i].safe \cup files'[i].dirty \subseteq 1 .. Len(files'[i].rows)
              /\ files'[i].safe \cap files'[i].dirty = {}
    <2> SUFFICES ASSUME NEW i \in DOMAIN files
                 PROVE  /\ files[i].safe \subseteq files'[i].safe
                        /\ files'[i].safe \cup files'[i].dirty \subseteq 1 .. Len(files'[i].rows)
                        /\ files'[i].safe \cap files'[i].dirty = {}
      OBVIOUS
    <2>1. CASE i = Current
      BY <1>3, <1>5, <1>6, <2>1
    <2>2. CASE i # Current
      BY <1>5, <1>6, <2>2
    <2> QED  BY <2>1, <2>2
  <1>8. \A i \in DOMAIN files : files'[i].rows = files[i].rows
    BY <1>5
  <1>9. files'[Current].dirty = {} /\ files'[Current].safe = s
    BY <1>5
  <1>10. files'[Current].safe = IF SyncFile THEN files[Current].safe \cup files[Current].dirty
                               ELSE files[Current].safe
    BY <1>3, <1>9
  <1> QED  BY <1>5, <1>7, <1>8, <1>9, <1>10

\* So the segments keep their rows.
LEMMA SyncGrows ==
  ASSUME FilesOK, fdOpen, SyncFile \/ GiveUpFile, segment' = segment,
         fdOpen' \in {fdOpen, FALSE}
  PROVE  FilesOK' /\ Grows /\ AddsOnly({})
  <1>1. /\ DOMAIN files' = DOMAIN files /\ files' \in [DOMAIN files -> File]
        /\ \A i \in DOMAIN files :
              /\ files'[i].rows = files[i].rows
              /\ files[i].safe \subseteq files'[i].safe
              /\ files'[i].safe \cup files'[i].dirty \subseteq 1 .. Len(files'[i].rows)
              /\ files'[i].safe \cap files'[i].dirty = {}
    BY SyncFacts
  <1>2. \A i \in DOMAIN files : Len(files[i].rows) \in Nat
    BY DEF FilesOK, File
  <1>3. FilesOK'
    <2>1. Current' = Current /\ segment \in Nat
      BY DEF Current, FilesOK
    <2> QED  BY <1>1, <2>1 DEF FilesOK, RowsOf
  <1>4. Grows
    BY <1>1, <1>2 DEF Grows
  <1>5. AddsOnly({})
    BY <1>1 DEF AddsOnly
  <1> QED  BY <1>3, <1>4, <1>5

\* A new segment, or its number alone.
LEMMA OpenGrows ==
  ASSUME FilesOK, ~fdOpen, OpenSegment \/ (segment' = segment + 1 /\ UNCHANGED <<files, fdOpen>>)
  PROVE  FilesOK' /\ Grows /\ AddsOnly({})
  <1>1. segment \in Nat /\ segment \notin DOMAIN files /\ segment' = segment + 1
        /\ \A i \in DOMAIN files : files[i] \in File /\ Len(files[i].rows) \in Nat
    BY DEF FilesOK, OpenSegment, File
  <1>2. /\ Grows
        /\ \A i \in DOMAIN files : files'[i] = files[i]
        /\ DOMAIN files' \subseteq DOMAIN files \cup {segment}
        /\ \A i \in DOMAIN files' : i \notin DOMAIN files => files'[i] = NewFile
        /\ files' \in [DOMAIN files' -> File]
        /\ fdOpen' => segment \in DOMAIN files'
    <2>1. CASE OpenSegment
      <3>1. NewFile \in File
        BY DEF NewFile, File
      <3>2. /\ DOMAIN files' = DOMAIN files \cup {segment}
            /\ \A i \in DOMAIN files' : files'[i] = IF i = segment THEN NewFile ELSE files[i]
            /\ files' \in [DOMAIN files' -> File]
        BY <1>1, <2>1, <3>1 DEF OpenSegment, FilesOK
      <3> QED  BY <1>1, <3>2 DEF Grows
    <2>2. CASE UNCHANGED <<files, fdOpen>>
      BY <1>1, <2>2 DEF Grows, FilesOK
    <2> QED  BY <2>1, <2>2
  <1>3. FilesOK'
    <2>1. Current' = segment
      BY <1>1 DEF Current
    <2>2. \A i \in DOMAIN files' :
            /\ files'[i].safe \cup files'[i].dirty \subseteq 1 .. Len(files'[i].rows)
            /\ files'[i].safe \cap files'[i].dirty = {}
      BY <1>2 DEF FilesOK, RowsOf, NewFile
    <2>3. DOMAIN files' \subseteq 0 .. segment' - 1
      BY <1>1, <1>2 DEF FilesOK
    <2> QED  BY <1>1, <1>2, <2>1, <2>2, <2>3 DEF FilesOK, RowsOf
  <1>4. AddsOnly({})
    BY <1>2 DEF AddsOnly, NewFile
  <1> QED  BY <1>2, <1>3, <1>4

\* Whatever flush() and stop() do to the segments, they add rows of the buffer and
\* fragments.
LEMMA FileSteps ==
  ASSUME CursorInv, Flush \/ CloseLast
  PROVE  FilesOK' /\ Grows /\ AddsOnly(BufferRows \cup {TornRow})
  <1> USE DEF walVars, faultVars
  <1>1. FilesOK
    BY DEF CursorInv
  <1>2. \A S, T : S \subseteq T /\ AddsOnly(S) => AddsOnly(T)
    BY DEF AddsOnly
  <1>3. CASE OpenSegment
    BY <1>1, <1>2, <1>3, OpenGrows DEF OpenSegment
  <1>4. CASE CloseFull \/ Sync
    <2>1. fdOpen /\ (SyncFile \/ GiveUpFile) /\ segment' = segment /\ fdOpen' \in {fdOpen, FALSE}
      BY <1>4 DEF CloseFull, Rotates, Sync, Syncs
    <2> QED  BY <1>1, <1>2, <2>1, SyncGrows
  <1>5. CASE CloseLast
    <2>1. CASE fdOpen /\ (SyncFile \/ GiveUpFile)
      <3>1. segment' = segment /\ fdOpen' = FALSE
        BY <1>5 DEF CloseLast
      <3> QED  BY <1>1, <1>2, <2>1, <3>1, SyncGrows
    <2>2. CASE UNCHANGED files /\ ~fdOpen
      <3>1. segment' = segment /\ fdOpen' = FALSE
        BY <1>5 DEF CloseLast
      <3>2. \A i \in DOMAIN files : Len(files[i].rows) \in Nat
        BY <1>1 DEF FilesOK, File
      <3>3. Grows /\ AddsOnly({})
        BY <2>2, <3>2 DEF Grows, AddsOnly
      <3>4. FilesOK'
        BY <1>1, <2>2, <3>1 DEF FilesOK, RowsOf, Current
      <3> QED  BY <1>2, <3>1, <3>3, <3>4
    <2> QED  BY <1>5, <2>1, <2>2 DEF CloseLast
  <1>6. ASSUME Writes, NEW rows \in Seq(RowSet), AppendRows(rows), UNCHANGED <<segment, fdOpen>>,
               NEW T, \A k \in 1 .. Len(rows) : rows[k] \in T
        PROVE  FilesOK' /\ Grows /\ AddsOnly(T)
    <2>1. FilesOK' /\ Grows /\ AddsOnly({rows[k] : k \in 1 .. Len(rows)})
      BY <1>1, <1>6, AppendGrows DEF Writes
    <2>2. {rows[k] : k \in 1 .. Len(rows)} \subseteq T
      BY <1>6
    <2> QED  BY <1>2, <2>1, <2>2
  <1>7. ASSUME Writes
        PROVE  ChunkRows \in Seq(RowSet) /\ \A k \in 1 .. Len(ChunkRows) : ChunkRows[k] \in BufferRows
    <2>1. /\ ChunkRows \in Seq(RowSet)
          /\ Len(ChunkRows) \in 1 .. Len(buf) - off
          /\ \A k \in 1 .. Len(ChunkRows) : ChunkRows[k] = buf[off + k]
      BY <1>7, ChunkRange
    <2>2. off \in Nat /\ Len(buf) \in Nat
      BY DEF CursorInv, TypeOK, BufferOK
    <2>3. \A k \in 1 .. Len(ChunkRows) : off + k \in 1 .. Len(buf)
      BY <2>1, <2>2
    <2> QED  BY <2>1, <2>3 DEF BufferRows
  <1>8. CASE WriteRows
    BY <1>1, <1>2, <1>6, <1>7, <1>8 DEF WriteRows
  <1>9. CASE FlushFails /\ OpenFails
    BY <1>1, <1>2, <1>9, OpenGrows DEF FlushFails, OpenFails
  <1>10. CASE FlushFails /\ SyncFails
    <2>1. fdOpen /\ segment' = segment /\ fdOpen' = fdOpen
      BY <1>10 DEF FlushFails, SyncFails, Syncs
    <2>2. CASE GiveUpFile
      BY <1>1, <1>2, <2>1, <2>2, SyncGrows
    <2>3. CASE UNCHANGED files
      <3>1. \A i \in DOMAIN files : Len(files[i].rows) \in Nat
        BY <1>1 DEF FilesOK, File
      <3>2. Grows /\ AddsOnly({})
        BY <2>3, <3>1 DEF Grows, AddsOnly
      <3>3. FilesOK'
        BY <1>1, <2>1, <2>3 DEF FilesOK, RowsOf, Current
      <3> QED  BY <1>2, <2>1, <3>2, <3>3
    <2> QED  BY <1>10, <2>2, <2>3 DEF SyncFails
  <1>11. CASE FlushFails /\ WriteFails
    <2>1. PICK n \in 0 .. Len(ChunkRows) - 1, torn \in {<<>>, <<TornRow>>} :
            AppendRows(SubSeq(ChunkRows, 1, n) \o torn)
      BY <1>11 DEF WriteFails
    <2>2. Writes /\ UNCHANGED <<segment, fdOpen>>
      BY <1>11 DEF FlushFails, WriteFails
    <2>3. ChunkRows \in Seq(RowSet) /\ Len(ChunkRows) \in Nat
          /\ \A k \in 1 .. Len(ChunkRows) : ChunkRows[k] \in BufferRows
      BY <1>7, <2>2
    <2> DEFINE part == SubSeq(ChunkRows, 1, n)
    <2>4. part \in Seq(RowSet) /\ Len(part) = n /\ \A k \in 1 .. n : part[k] = ChunkRows[k]
      BY <2>3
    <2>5. TornRow \in RowSet
      BY DEF TornRow, Row, RowSet
    <2> HIDE DEF part
    <2>6. torn \in Seq(RowSet) /\ \A k \in 1 .. Len(torn) : torn[k] = TornRow
      <3>1. CASE torn = <<>>
        BY <3>1
      <3>2. CASE torn = <<TornRow>>
        BY <2>5, <3>2
      <3> QED  BY <3>1, <3>2
    <2>7. /\ part \o torn \in Seq(RowSet)
          /\ \A k \in 1 .. Len(part \o torn) : (part \o torn)[k] \in BufferRows \cup {TornRow}
      <3> HIDE <2>1
      <3>1. Len(part \o torn) = Len(part) + Len(torn) /\ Len(part) \in Nat /\ Len(torn) \in Nat
            /\ part \o torn \in Seq(RowSet)
        BY <2>4, <2>6
      <3>2. \A k \in 1 .. Len(part \o torn) :
              (part \o torn)[k] = IF k <= Len(part) THEN part[k] ELSE torn[k - Len(part)]
        BY <2>4, <2>6
      <3>3. \A k \in 1 .. Len(part) : part[k] \in BufferRows
        BY <2>3, <2>4
      <3>4. \A k \in 1 .. Len(part \o torn) : k \in 1 .. Len(part) \/ k - Len(part) \in 1 .. Len(torn)
        BY <3>1
      <3>5. \A k \in 1 .. Len(part \o torn) : k <= Len(part) => (part \o torn)[k] \in BufferRows
        BY <3>1, <3>2, <3>3
      <3>6. \A k \in 1 .. Len(part \o torn) : ~(k <= Len(part)) => (part \o torn)[k] = TornRow
        BY <2>6, <3>1, <3>2, <3>4
      <3> QED  BY <3>1, <3>5, <3>6
    <2>8. FilesOK' /\ Grows /\ AddsOnly(BufferRows \cup {TornRow})
      BY <1>6, <2>1, <2>2, <2>7 DEF part
    <2> QED  BY <2>8
  <1> QED
    BY <1>3, <1>4, <1>5, <1>8, <1>9, <1>10, <1>11 DEF Flush, FlushFails

-----------------------------------------------------------------------------
(* The cursors.                                                            *)

\* on_md.
LEMMA OnMdCursors ==
  ASSUME CursorInv, OnMd
  PROVE  CursorInv'
  <1> USE TailerV2Assumption DEF walVars, mainVars, faultVars
  <1>1. TypeOK /\ FilesOK /\ BufferOK /\ Control
    BY DEF CursorInv
  <1>2. UNCHANGED <<walVars, mainVars, faultVars, durable, tpc, readSeq, end, buf, off>>
    BY DEF OnMd, TakeTick, StoreRecord, Commit
  <1>3. FilesOK' /\ BufferOK'
    BY <1>1, <1>2 DEF FilesOK, BufferOK, RowsOf, Current
  <1>4. TypeOK'
    <2>1. CASE TakeTick
      <3>1. durableView' \in 0 .. durable
        BY <1>1, <2>1 DEF TakeTick, View, TypeOK
      <3>2. overwrites' \in Nat /\ appended' = appended + 1 /\ appended < MaxTicks
            /\ UNCHANGED <<logSeq, logData, committed>> /\ wpc' = "storing"
        BY <1>1, <2>1 DEF TakeTick, TypeOK
      <3>3. window' \subseteq 0 .. appended
        BY <1>1, <2>1 DEF TakeTick, TypeOK
      <3>4. Numbers /\ LogTyped /\ Places
        BY <1>1, TypeParts
      <3>5. Numbers'
        BY <1>2, <3>1, <3>2, <3>4 DEF Numbers
      <3>6. LogTyped'
        BY <3>2, <3>3, <3>4 DEF LogTyped, Numbers
      <3>7. Places'
        BY <1>2, <3>2, <3>4 DEF Places
      <3> QED  BY <1>3, <3>5, <3>6, <3>7, TypePartsNext
    <2>2. CASE StoreRecord
      <3>1. UNCHANGED <<appended, durableView, wpc, window, committed, overwrites>>
        BY <2>2 DEF StoreRecord
      <3>2. appended - 1 \in 0 .. MaxTicks /\ appended - 1 \in Zeroed .. MaxTicks
        BY <1>1, <2>2 DEF StoreRecord, Control, TypeOK, Zeroed
      <3>3. logSeq' \in [Slots -> 0 .. MaxTicks] /\ logData' \in [Slots -> Zeroed .. MaxTicks]
        BY <1>1, <2>2, <3>2 DEF StoreRecord, TypeOK
      <3>4. Numbers /\ LogTyped /\ Places
        BY <1>1, TypeParts
      <3>5. Numbers' /\ Places'
        BY <1>2, <3>1, <3>4 DEF Numbers, Places
      <3>6. LogTyped'
        BY <3>1, <3>3, <3>4 DEF LogTyped
      <3> QED  BY <1>3, <3>5, <3>6, TypePartsNext
    <2>3. CASE Commit
      <3>1. UNCHANGED <<appended, durableView, window, overwrites, logSeq, logData>>
            /\ committed' = appended /\ wpc' = "idle"
        BY <2>3 DEF Commit
      <3>2. committed <= appended /\ committed \in Nat /\ appended \in Nat
        BY <1>1 DEF TypeOK
      <3>4. Numbers /\ LogTyped /\ Places
        BY <1>1, TypeParts
      <3>5. Numbers'
        BY <1>2, <3>1, <3>2, <3>4 DEF Numbers
      <3>6. LogTyped' /\ Places'
        BY <1>2, <3>1, <3>4 DEF LogTyped, Places
      <3> QED  BY <1>3, <3>5, <3>6, TypePartsNext
    <2> QED  BY <2>1, <2>2, <2>3 DEF OnMd
  <1>5. Control'
    <2>1. CASE TakeTick
      BY <1>1, <1>2, <2>1 DEF TakeTick, Control, TypeOK
    <2>2. CASE StoreRecord
      BY <1>1, <1>2, <2>2 DEF StoreRecord, Control
    <2>3. CASE Commit
      BY <1>1, <1>2, <2>3 DEF Commit, Control, TypeOK
    <2> QED  BY <2>1, <2>2, <2>3 DEF OnMd
  <1> QED  BY <1>3, <1>4, <1>5 DEF CursorInv

\* run().
LEMMA RunCursors ==
  ASSUME CursorInv, LoopCondition \/ LoadEnd \/ CheckIdentity \/ CheckWindow \/ CopyRecord
  PROVE  CursorInv'
  <1> USE TailerV2Assumption DEF writerVars, walVars, mainVars, faultVars
  <1>1. TypeOK /\ FilesOK /\ BufferOK /\ Control
    BY DEF CursorInv
  <1>2. UNCHANGED <<writerVars, walVars, mainVars, faultVars, durable, off>>
        /\ tpc \notin {"flush", "exited"}
    BY DEF LoopCondition, LoadEnd, CheckIdentity, CheckWindow, CopyRecord
  <1>3. readSeq' \in {readSeq, readSeq + 1} /\ (readSeq' # readSeq => readSeq < end)
        /\ overwrites' \in {overwrites, overwrites + 1}
        /\ end' \in {end, committed}
    BY <1>1 DEF LoopCondition, LoadEnd, CheckIdentity, CheckWindow, CopyRecord, Control
  <1>4. BufferOK'
    <2>1. CASE CopyRecord
      <3>1. SlotOf(readSeq) \in Slots
        <4>1. readSeq \in Nat
          BY <1>1 DEF TypeOK
        <4> QED  BY ONLY <4>1, SlotRange
      <3>2. logSeq[SlotOf(readSeq)] \in Nat /\ logData[SlotOf(readSeq)] \in Int
        BY <1>1, <3>1 DEF TypeOK, Zeroed
      <3>3. Row(logSeq[SlotOf(readSeq)], logData[SlotOf(readSeq)]) \in RowSet
            /\ Row(logSeq[SlotOf(readSeq)], logData[SlotOf(readSeq)]).seq >= 0
        BY <3>2 DEF Row, RowSet
      <3> DEFINE row == Row(logSeq[SlotOf(readSeq)], logData[SlotOf(readSeq)])
      <3>4. buf' = Append(buf, row) /\ buf \in Seq(RowSet) /\ row \in RowSet /\ row.seq >= 0
        BY <1>1, <2>1, <3>3 DEF CopyRecord, BufferOK
      <3> HIDE DEF row
      <3>5. buf' \in Seq(RowSet) /\ Len(buf') = Len(buf) + 1 /\ Len(buf) \in Nat
            /\ \A k \in 1 .. Len(buf') : buf'[k] = IF k = Len(buf) + 1 THEN row ELSE buf[k]
        BY <3>4
      <3> QED  BY <1>1, <3>4, <3>5 DEF BufferOK
    <2>2. CASE buf' = buf
      BY <1>1, <2>2 DEF BufferOK
    <2> QED  BY <2>1, <2>2 DEF LoopCondition, LoadEnd, CheckIdentity, CheckWindow, CopyRecord
  <1>5. FilesOK'
    BY <1>1, <1>2 DEF FilesOK, RowsOf, Current
  <1>6. off = 0 /\ Len(buf') \in Nat /\ tpc' \in {"loop", "load", "check", "flags", "copy", "flush", "exited"}
    BY <1>1, <1>2, <1>4
    DEF LoopCondition, LoadEnd, CheckIdentity, CheckWindow, CopyRecord, Control, BufferOK,
        Onward, FlushIfFull
  <1>7. /\ appended \in 0 .. MaxTicks /\ committed \in 0 .. appended /\ readSeq \in 0 .. committed
        /\ durable \in 0 .. readSeq /\ end \in 0 .. committed /\ overwrites \in Nat
    BY <1>1 DEF TypeOK
  <1>8. readSeq' \in 0 .. committed /\ durable \in 0 .. readSeq' /\ end' \in 0 .. committed
        /\ overwrites' \in Nat
    BY <1>3, <1>7
  <1>9. TypeOK'
    <2>1. Numbers /\ LogTyped /\ Places
      BY <1>1, TypeParts
    <2>2. off' = 0
      BY <1>2, <1>6
    <2>3. Numbers'
      BY <1>2, <1>6, <1>8, <2>1, <2>2 DEF Numbers
    <2>4. LogTyped' /\ Places'
      BY <1>2, <1>6, <2>1 DEF LogTyped, Places
    <2> QED  BY <1>5, <2>3, <2>4, TypePartsNext
  <1>10. Control'
    <2>1. tpc' = "exited" => mpc # "up" /\ readSeq' = committed
      <3>1. tpc' = "exited" => LoopCondition /\ Exits
        BY DEF LoopCondition, LoadEnd, CheckIdentity, CheckWindow, CopyRecord, Onward, FlushIfFull
      <3> QED  BY <1>1, <1>7, <3>1 DEF Exits, LoopCondition, Control
    <2>2. tpc' \in {"check", "flags", "copy"} => readSeq' < end'
      BY <1>1, <1>7
      DEF LoopCondition, LoadEnd, CheckIdentity, CheckWindow, CopyRecord, Onward, FlushIfFull,
          Control
    <2>3. mpc \notin {"draining", "dropping", "down"}
      BY <1>1, <1>2 DEF Control
    <2> QED  BY <1>1, <1>2, <1>6, <2>1, <2>2, <2>3 DEF Control
  <1> QED  BY <1>4, <1>5, <1>9, <1>10 DEF CursorInv

\* flush(), and the end of stop().
LEMMA FlushCursors ==
  ASSUME CursorInv, Flush \/ CloseLast
  PROVE  CursorInv'
  <1> USE TailerV2Assumption DEF writerVars, mainVars
  <1>1. TypeOK /\ FilesOK /\ BufferOK /\ Control
    BY DEF CursorInv
  <1>2. UNCHANGED <<writerVars, overwrites, readSeq, end, running>>
    BY DEF Flush, OpenSegment, CloseFull, WriteRows, Sync, FlushFails, CloseLast
  <1>3. FilesOK'
    BY FileSteps
  <1>4. buf' \in {buf, <<>>} /\ BufferOK'
    <2>1. buf' \in {buf, <<>>}
      BY DEF Flush, OpenSegment, CloseFull, WriteRows, Sync, FlushFails, CloseLast, KeptBuffer
    <2>2. CASE buf' = buf
      BY <1>1, <2>2 DEF BufferOK
    <2>3. CASE buf' = <<>>
      BY <2>3 DEF BufferOK
    <2> QED  BY <2>1, <2>2, <2>3
  <1>5. off' \in 0 .. Len(buf')
    <2>1. Len(buf) \in Nat /\ off \in 0 .. Len(buf)
      BY <1>1 DEF BufferOK, TypeOK
    <2>2. CASE WriteRows
      <3>1. Len(ChunkRows) \in 1 .. Len(buf) - off /\ off' = off + Len(ChunkRows) /\ buf' = buf
        BY <2>2, ChunkRange DEF WriteRows
      <3> QED  BY <2>1, <3>1
    <2>3. CASE ~WriteRows
      <3>1. (off' = off /\ buf' = buf) \/ off' = 0
        BY <2>3 DEF Flush, OpenSegment, CloseFull, Sync, FlushFails, CloseLast
      <3>2. Len(buf') \in Nat
        BY <1>4 DEF BufferOK
      <3> QED  BY <2>1, <3>1, <3>2
    <2> QED  BY <2>2, <2>3
  <1>6. rowsInSegment' \in 0 .. SegmentRows
    <2>1. rowsInSegment \in 0 .. SegmentRows /\ SegmentRows \in Nat
      BY <1>1 DEF TypeOK
    <2>2. CASE WriteRows
      <3>1. Len(ChunkRows) \in Nat /\ rowsInSegment + Len(ChunkRows) <= SegmentRows
            /\ rowsInSegment' = rowsInSegment + Len(ChunkRows)
        BY <2>2, ChunkRange DEF WriteRows
      <3> QED  BY <2>1, <3>1
    <2>3. CASE ~WriteRows
      BY <2>1, <2>3 DEF Flush, OpenSegment, CloseFull, Sync, FlushFails, CloseLast
    <2> QED  BY <2>2, <2>3
  <1>7. failures' \in 0 .. MaxFailures /\ fdOpen' \in BOOLEAN /\ lost' \subseteq Int
    <2>1. failures \in 0 .. MaxFailures /\ fdOpen \in BOOLEAN /\ lost \subseteq Int
      BY <1>1, TypeParts DEF Numbers, Places
    <2>2. \/ failures' = failures
          \/ failures' = failures + 1 /\ failures < MaxFailures
      BY DEF Flush, OpenSegment, CloseFull, WriteRows, Sync, FlushFails, CloseLast, faultVars
    <2>3. fdOpen' \in BOOLEAN
      BY <2>1, Zenon DEF Flush, OpenSegment, CloseFull, WriteRows, Sync, FlushFails, CloseLast
    <2>4. lost' \subseteq Int
      <3>1. CASE CloseFull
        <4>1. SeqsAt(Current, files[Current].dirty) \subseteq Int
          <5>1. Current \in DOMAIN files /\ files[Current] \in File
            BY <1>1, <3>1 DEF CloseFull, Rotates, FilesOK
          <5>2. files[Current].rows \in Seq(RowSet)
                /\ files[Current].dirty \subseteq 1 .. Len(files[Current].rows)
            BY <1>1, <5>1 DEF FilesOK, File, RowsOf
          <5>3. \A k \in files[Current].dirty : files[Current].rows[k] \in RowSet
            BY <5>2
          <5>4. \A k \in files[Current].dirty : files[Current].rows[k].seq \in Int
            BY <5>3 DEF RowSet
          <5> QED  BY <5>4 DEF SeqsAt
        <4> QED  BY <2>1, <3>1, <4>1 DEF CloseFull, faultVars
      <3>2. CASE WriteRows
        <4>1. ChunkRows \in Seq(RowSet)
          BY <3>2, ChunkRange DEF WriteRows
        <4>2. {ChunkRows[k].seq : k \in 1 .. Len(ChunkRows)} \subseteq Int
          <5> HIDE DEF ChunkRows
          <5>1. \A k \in 1 .. Len(ChunkRows) : ChunkRows[k] \in RowSet
            BY <4>1
          <5>2. \A k \in 1 .. Len(ChunkRows) : ChunkRows[k].seq \in Int
            BY <5>1 DEF RowSet
          <5> QED  BY <5>2
        <4> QED  BY <2>1, <3>2, <4>2 DEF WriteRows
      <3>3. CASE UNCHANGED lost
        BY <2>1, <3>3
      <3> QED
        BY <3>1, <3>2, <3>3 DEF Flush, OpenSegment, Sync, FlushFails, CloseLast, faultVars
    <2>5. failures' \in 0 .. MaxFailures
      BY <2>1, <2>2
    <2> QED  BY <2>3, <2>4, <2>5
  <1>8. durable' \in {durable, readSeq}
    BY DEF Flush, OpenSegment, CloseFull, WriteRows, Sync, FlushFails, CloseLast, FlushedDurable
  <1>9. /\ tpc' \in {"loop", "check", "flush", "exited"}
        /\ mpc' \in {mpc, "dropping", "down"}
        /\ tpc \in {"flush", "exited"}
    BY DEF Flush, OpenSegment, CloseFull, WriteRows, Sync, FlushFails, CloseLast, Rotates, Writes,
           Syncs, OpenFails, WriteFails, SyncFails, Resume, Onward, FlushRest
  <1>10. durable' \in 0 .. readSeq /\ durableView \in 0 .. durable'
    BY <1>1, <1>8 DEF TypeOK
  <1>11. TypeOK'
    <2>1. Numbers /\ LogTyped /\ Places
      BY <1>1, TypeParts
    <2>2. Numbers'
      BY <1>2, <1>5, <1>6, <1>7, <1>10, <2>1 DEF Numbers
    <2>3. LogTyped'
      BY <1>2, <2>1 DEF LogTyped
    <2>4. Places'
      BY <1>2, <1>7, <1>9, <2>1 DEF Places
    <2> QED  BY <1>3, <2>2, <2>3, <2>4, TypePartsNext
  <1>12. Control'
    <2>1. tpc' # "flush" => off' = 0
      BY <1>1 DEF Flush, OpenSegment, CloseFull, WriteRows, Sync, FlushFails, CloseLast, Control,
                  Rotates, Writes
    <2>2. CASE Flush
      <3>1. mpc' = mpc /\ tpc = "flush"
        BY <2>2 DEF Flush, OpenSegment, CloseFull, WriteRows, Sync, FlushFails, Rotates, Writes,
             Syncs, OpenFails, WriteFails, SyncFails
      <3>2. \/ tpc' = tpc
            \/ mpc \in {"draining", "dropping"} /\ tpc' = "exited"
            \/ mpc \notin {"draining", "dropping"} /\ tpc' = Onward(readSeq)
        BY <2>2 DEF Flush, OpenSegment, CloseFull, WriteRows, Sync, FlushFails, Resume
      <3> QED  BY <1>1, <1>2, <2>1, <3>1, <3>2 DEF Control, Onward
    <2>3. CASE CloseLast
      <3>1. /\ mpc \in {"draining", "dropping"} /\ tpc = "exited"
            /\ \/ mpc' = "dropping" /\ tpc' \in {"flush", "exited"}
               \/ mpc' = "down" /\ tpc' = "exited"
        BY <2>3 DEF CloseLast, FlushRest
      <3> QED  BY <1>1, <1>2, <2>1, <3>1 DEF Control
    <2> QED  BY <2>2, <2>3
  <1> QED  BY <1>3, <1>4, <1>11, <1>12 DEF CursorInv

\* stop(), up to its own flush().
LEMMA StopCursors ==
  ASSUME CursorInv, StopBegin \/ Join \/ UNCHANGED vars
  PROVE  CursorInv'
  <1> USE DEF writerVars, walVars, faultVars, mainVars, vars
  <1>1. TypeOK /\ FilesOK /\ BufferOK /\ Control
    BY DEF CursorInv
  <1>2. UNCHANGED <<writerVars, walVars, faultVars, durable, overwrites, readSeq, end, buf, off>>
    BY DEF StopBegin, Join
  <1>3. FilesOK' /\ BufferOK'
    BY <1>1, <1>2 DEF FilesOK, BufferOK, RowsOf, Current
  <1>4. /\ tpc' \in {"loop", "load", "check", "flags", "copy", "flush", "exited"}
        /\ mpc' \in {"up", "joining", "draining", "dropping", "down"} /\ running' \in BOOLEAN
    BY <1>1 DEF StopBegin, Join, FlushRest, ClearRunning, TypeOK
  <1>5. TypeOK'
    BY <1>1, <1>2, <1>3, <1>4 DEF TypeOK, FilesOK, RowsOf, Current
  <1>6. Control'
    BY <1>1, <1>2 DEF Control, StopBegin, Join, FlushRest, ClearRunning
  <1> QED  BY <1>3, <1>5, <1>6 DEF CursorInv

\* Every step.
LEMMA CursorsInductive == CursorInv /\ [Next]_vars => CursorInv'
  BY OnMdCursors, RunCursors, FlushCursors, StopCursors DEF Next, Tailer, Stopping

\* A store that was just created and a tailer that has just started.
LEMMA CursorsInitially == Init => CursorInv
  <1> SUFFICES ASSUME Init
               PROVE  CursorInv
    OBVIOUS
  <1> USE TailerV2Assumption DEF Init
  <1>1. DOMAIN files = {} /\ Len(buf) = 0 /\ buf \in Seq(RowSet)
    OBVIOUS
  <1>2. FilesOK
    BY <1>1 DEF FilesOK
  <1>3. BufferOK /\ Control
    BY <1>1 DEF BufferOK, Control
  <1>4. Numbers /\ LogTyped /\ Places
    <2>1. logSeq \in [Slots -> 0 .. MaxTicks] /\ logData \in [Slots -> Zeroed .. MaxTicks]
      <3>1. MaxTicks \in Nat /\ 0 \in 0 .. MaxTicks /\ Zeroed \in Zeroed .. MaxTicks
        BY DEF Zeroed
      <3> HIDE DEF Zeroed
      <3> QED  BY <3>1
    <2>2. Numbers
      BY <1>1 DEF Numbers
    <2>3. Places /\ window = {}
      BY DEF Places
    <2> QED  BY <2>1, <2>2, <2>3 DEF LogTyped
  <1> QED  BY <1>2, <1>3, <1>4, TypeParts DEF CursorInv

\* Every variable keeps its type and the cursors their order, durable_seq behind
\* read_seq_ behind committed_seq, whatever fails and however often it is tried again.
THEOREM TailerV2TypeCorrect == Spec => []TypeOK
  <1>1. CursorInv => TypeOK
    BY DEF CursorInv
  <1> QED  BY <1>1, CursorsInitially, CursorsInductive, PTL DEF Spec

-----------------------------------------------------------------------------
(* Records stay whole.                                                     *)

\* While nothing was counted, the day log holds what the tailer has yet to make
\* durable: on_md is at most a lap ahead of durable_seq, whatever its own view.
LogInv ==
  overwrites = 0 =>
    /\ appended - durable <= LogCapacity
    /\ \A p \in 0 .. committed - 1 :
         durable <= p => logSeq[SlotOf(p)] = p /\ logData[SlotOf(p)] = p

\* So no copy mixes two records, in the buffer or in a segment.
RowsInv ==
  overwrites = 0 =>
    /\ \A k \in 1 .. Len(buf) : buf[k].of = buf[k].seq
    /\ \A i \in DOMAIN files : \A k \in RowsOf(i) : RowAt(i, k).of = RowAt(i, k).seq

WholeInv == LogInv /\ RowsInv

\* A count is never taken back.
LEMMA CountGrows ==
  ASSUME CursorInv, [Next]_vars
  PROVE  overwrites \in Nat /\ overwrites' \in {overwrites, overwrites + 1}
         /\ (overwrites' = 0 => overwrites = 0)
         /\ durable \in Nat /\ durable' \in {durable, readSeq} /\ readSeq \in durable .. committed
  <1>1. overwrites \in Nat /\ durable \in Nat /\ readSeq \in durable .. committed
    BY DEF CursorInv, TypeOK
  <1>2. overwrites' \in {overwrites, overwrites + 1}
    BY <1>1 DEF Next, OnMd, TakeTick, StoreRecord, Commit, Tailer, LoopCondition, LoadEnd,
      CheckIdentity, CheckWindow, CopyRecord, Flush, OpenSegment, CloseFull, WriteRows, Sync,
      FlushFails, StopBegin, Stopping, Join, CloseLast, vars
  <1>3. durable' \in {durable, readSeq}
    BY DEF Next, OnMd, TakeTick, StoreRecord, Commit, Tailer, LoopCondition, LoadEnd,
      CheckIdentity, CheckWindow, CopyRecord, Flush, OpenSegment, CloseFull, WriteRows, Sync,
      FlushFails, StopBegin, Stopping, Join, CloseLast, vars, FlushedDurable
  <1> QED  BY <1>1, <1>2, <1>3

\* on_md leaves the records alone that are not durable yet.
LEMMA OnMdKeepsLog ==
  ASSUME CursorInv, LogInv, OnMd, overwrites' = 0
  PROVE  LogInv'
  <1> USE TailerV2Assumption
  <1>1. /\ overwrites = 0 /\ durable' = durable
        /\ appended \in Nat /\ durable \in Nat /\ durableView \in 0 .. durable
        /\ committed \in 0 .. appended /\ wpc \in {"idle", "storing"} /\ LogCapacity \in Nat
    <2>1. overwrites = 0 /\ durable' = durable
      BY CountGrows DEF OnMd, TakeTick, StoreRecord, Commit, Next
    <2> QED  BY <2>1 DEF CursorInv, TypeOK
  <1>2. /\ appended - durable <= LogCapacity
        /\ \A p \in 0 .. committed - 1 :
             durable <= p => logSeq[SlotOf(p)] = p /\ logData[SlotOf(p)] = p
    BY <1>1 DEF LogInv
  <1>3. wpc = "storing" => appended = committed + 1
    BY DEF CursorInv, Control
  <1>4. CASE TakeTick
    <2>1. ~GuardTrips(appended) /\ UNCHANGED <<logSeq, logData, committed>> /\ appended' = appended + 1
      BY <1>1, <1>4 DEF TakeTick
    <2>2. appended - durable < LogCapacity
      BY <1>1, <2>1 DEF GuardTrips, View
    <2> QED  BY <1>1, <1>2, <2>1, <2>2 DEF LogInv, SlotOf
  <1>5. CASE StoreRecord
    <2> DEFINE q == appended - 1
    <2>1. /\ wpc = "storing" /\ UNCHANGED <<appended, committed>>
          /\ logSeq' = [logSeq EXCEPT ![SlotOf(q)] = q] \/ logSeq' = logSeq
          /\ logData' = [logData EXCEPT ![SlotOf(q)] = q] \/ logData' = logData
      BY <1>5 DEF StoreRecord
    <2>2. q = committed /\ q \in Nat
      BY <1>1, <1>3, <2>1
    <2>3. \A p \in 0 .. committed - 1 : durable <= p => SlotOf(p) # SlotOf(q)
      <3> SUFFICES ASSUME NEW p \in 0 .. committed - 1, durable <= p, SlotOf(p) = SlotOf(q)
                   PROVE  FALSE
        OBVIOUS
      <3> HIDE DEF q
      <3>1. p < q /\ p \in Nat
        BY <2>2, <1>1
      <3>2. q >= p + LogCapacity
        BY <2>2, <3>1, LapsApart
      <3>3. q = appended - 1
        BY DEF q
      <3> QED  BY <1>1, <1>2, <3>1, <3>2, <3>3
    <2>4. DOMAIN logSeq = Slots /\ DOMAIN logData = Slots
      BY DEF CursorInv, TypeOK
    <2> HIDE DEF q
    <2>5. \A s \in Slots : s # SlotOf(q) => logSeq'[s] = logSeq[s] /\ logData'[s] = logData[s]
      BY <2>1, <2>4
    <2>6. \A p \in 0 .. committed - 1 : SlotOf(p) \in Slots
      BY <1>1, SlotRange
    <2>7. \A p \in 0 .. committed - 1 :
            durable <= p => logSeq'[SlotOf(p)] = p /\ logData'[SlotOf(p)] = p
      BY <1>2, <2>3, <2>5, <2>6
    <2> QED  BY <1>1, <1>2, <2>1, <2>7 DEF LogInv, SlotOf
  <1>6. CASE Commit
    <2>1. /\ wpc = "storing" /\ UNCHANGED <<appended, logSeq, logData>> /\ committed' = appended
          /\ logSeq[SlotOf(appended - 1)] = appended - 1
          /\ logData[SlotOf(appended - 1)] = appended - 1
      BY <1>6 DEF Commit
    <2>2. \A p \in 0 .. committed' - 1 : p \in 0 .. committed - 1 \/ p = appended - 1
      BY <1>1, <1>3, <2>1
    <2>3. \A p \in 0 .. committed' - 1 :
             durable <= p => logSeq[SlotOf(p)] = p /\ logData[SlotOf(p)] = p
      BY <1>2, <2>1, <2>2
    <2> QED  BY <1>1, <1>2, <2>1, <2>3 DEF LogInv, SlotOf
  <1> QED  BY <1>4, <1>5, <1>6 DEF OnMd

\* Every other step leaves the day log alone, and durable_seq only moves up.
LEMMA OthersKeepLog ==
  ASSUME CursorInv, LogInv, [Next]_vars, ~OnMd
  PROVE  LogInv'
  <1>1. UNCHANGED writerVars
    BY DEF Next, Tailer, LoopCondition, LoadEnd,
      CheckIdentity, CheckWindow, CopyRecord, Flush, OpenSegment, CloseFull, WriteRows, Sync,
      FlushFails, StopBegin, Stopping, Join, CloseLast, vars
  <1>2. /\ overwrites' = 0 => overwrites = 0
        /\ durable' \in Nat /\ durable <= durable'
    BY CountGrows
  <1>3. TypeOK
    BY DEF CursorInv
  <1>4. durable \in Nat /\ appended \in Nat /\ committed \in Nat /\ LogCapacity \in Nat
    BY <1>3, TailerV2Assumption DEF TypeOK
  <1>5. UNCHANGED <<appended, committed, logSeq, logData>>
    BY <1>1 DEF writerVars
  <1>6. SUFFICES ASSUME overwrites' = 0
                 PROVE  /\ appended - durable' <= LogCapacity
                        /\ \A p \in 0 .. committed - 1 :
                             durable' <= p => logSeq[SlotOf(p)] = p /\ logData[SlotOf(p)] = p
    BY <1>5 DEF LogInv, SlotOf
  <1>7. appended - durable <= LogCapacity
    BY <1>2, <1>6 DEF LogInv
  <1>8. \A p \in 0 .. committed - 1 :
           durable <= p => logSeq[SlotOf(p)] = p /\ logData[SlotOf(p)] = p
    BY <1>2, <1>6 DEF LogInv
  <1>9. \A p \in 0 .. committed - 1 : durable' <= p => durable <= p
    BY <1>2, <1>4
  <1>10. appended - durable' <= LogCapacity
    <2>1. \A a, d, e, c \in Nat : a - d <= c /\ d <= e => a - e <= c
      OBVIOUS
    <2> QED  BY <1>2, <1>4, <1>7, <2>1
  <1>11. \A p \in 0 .. committed - 1 :
            durable' <= p => logSeq[SlotOf(p)] = p /\ logData[SlotOf(p)] = p
    BY <1>8, <1>9, Zenon
  <1> QED  BY <1>10, <1>11

LEMMA LogInductive == CursorInv /\ LogInv /\ [Next]_vars => LogInv'
  <1> SUFFICES ASSUME CursorInv, LogInv, [Next]_vars
               PROVE  LogInv'
    OBVIOUS
  <1>1. CASE OnMd /\ overwrites' = 0
    BY <1>1, OnMdKeepsLog
  <1>2. CASE overwrites' # 0
    BY <1>2 DEF LogInv
  <1>3. CASE ~OnMd
    BY <1>3, OthersKeepLog
  <1> QED  BY <1>1, <1>2, <1>3

\* What the buffer loses or gains in a step.
LEMMA BufferSteps ==
  ASSUME CursorInv, [Next]_vars
  PROVE  \/ CopyRecord \/ buf' = buf \/ Sync
  BY DEF Next, OnMd, TakeTick, StoreRecord, Commit, Tailer, LoopCondition, LoadEnd,
      CheckIdentity, CheckWindow, CopyRecord, Flush, OpenSegment, CloseFull, WriteRows, Sync,
      FlushFails, KeptBuffer, StopBegin, Stopping, Join, CloseLast, vars

\* A copy taken while nothing was counted is of the record that was asked for.
LEMMA CopyIsWhole ==
  ASSUME CursorInv, LogInv, CopyRecord, overwrites = 0
  PROVE  /\ buf' \in Seq(RowSet) /\ Len(buf') = Len(buf) + 1 /\ Len(buf) \in Nat
         /\ \A k \in 1 .. Len(buf) : buf'[k] = buf[k]
         /\ buf'[Len(buf) + 1] = Row(readSeq, readSeq)
  <1>1. readSeq \in Nat /\ readSeq < committed /\ durable <= readSeq /\ committed \in Nat
    BY DEF CursorInv, TypeOK, Control, CopyRecord
  <1>2. logSeq[SlotOf(readSeq)] = readSeq /\ logData[SlotOf(readSeq)] = readSeq
    BY <1>1 DEF LogInv
  <1>3. buf' = Append(buf, Row(readSeq, readSeq)) /\ buf \in Seq(RowSet)
    BY <1>2 DEF CopyRecord, CursorInv, BufferOK
  <1> DEFINE row == Row(readSeq, readSeq)
  <1>4. row \in RowSet
    BY <1>1 DEF Row, RowSet
  <1> HIDE DEF row
  <1>5. buf' = Append(buf, row)
    BY <1>3 DEF row
  <1>6. /\ buf' \in Seq(RowSet) /\ Len(buf') = Len(buf) + 1 /\ Len(buf) \in Nat
        /\ \A k \in 1 .. Len(buf) : buf'[k] = buf[k]
        /\ buf'[Len(buf) + 1] = row
    BY <1>3, <1>4, <1>5
  <1> QED  BY <1>6 DEF row

LEMMA RowsInductive == CursorInv /\ WholeInv /\ [Next]_vars => RowsInv'
  <1> SUFFICES ASSUME CursorInv, LogInv, RowsInv, [Next]_vars, overwrites' = 0
               PROVE  /\ \A k \in 1 .. Len(buf') : buf'[k].of = buf'[k].seq
                      /\ \A i \in DOMAIN files' : \A k \in 1 .. Len(files'[i].rows) :
                           files'[i].rows[k].of = files'[i].rows[k].seq
    BY DEF WholeInv, RowsInv, RowsOf, RowAt
  <1>1. overwrites = 0
    BY CountGrows
  <1>2. /\ \A k \in 1 .. Len(buf) : buf[k].of = buf[k].seq
        /\ \A i \in DOMAIN files : \A k \in 1 .. Len(files[i].rows) :
             files[i].rows[k].of = files[i].rows[k].seq
    BY <1>1 DEF RowsInv, RowsOf, RowAt
  <1>3. \A k \in 1 .. Len(buf') : buf'[k].of = buf'[k].seq
    <2>1. CASE CopyRecord
      <3>1. /\ Len(buf') = Len(buf) + 1 /\ Len(buf) \in Nat
            /\ \A k \in 1 .. Len(buf) : buf'[k] = buf[k]
            /\ buf'[Len(buf) + 1] = Row(readSeq, readSeq)
        BY <1>1, <2>1, CopyIsWhole
      <3>2. buf'[Len(buf) + 1].of = readSeq /\ buf'[Len(buf) + 1].seq = readSeq
        BY <3>1 DEF Row
      <3>3. \A k \in 1 .. Len(buf') : k \in 1 .. Len(buf) \/ k = Len(buf) + 1
        BY <3>1
      <3> QED  BY <1>2, <3>1, <3>2, <3>3
    <2>2. CASE buf' = buf
      BY <1>2, <2>2
    <2>3. CASE Sync
      <3>1. buf' = <<>> /\ Len(<<>>) = 0
        BY <2>3 DEF Sync
      <3> QED  BY <3>1
    <2> QED  BY <2>1, <2>2, <2>3, BufferSteps
  <1>4. CASE Flush \/ CloseLast
    <2>1. AddsOnly(BufferRows \cup {TornRow})
      BY <1>4, FileSteps
    <2>2. \A r \in BufferRows \cup {TornRow} : r.of = r.seq
      BY <1>2 DEF BufferRows, TornRow, Row
    <2>3. \A i \in DOMAIN files' : \A k \in 1 .. Len(files'[i].rows) :
            files'[i].rows[k].of = files'[i].rows[k].seq
      BY <1>2, <2>1, <2>2 DEF AddsOnly
    <2> QED  BY <1>3, <2>3
  <1>5. CASE UNCHANGED files
    BY <1>2, <1>3, <1>5
  <1> QED
    BY <1>4, <1>5 DEF Next, OnMd, TakeTick, StoreRecord, Commit, Tailer, LoopCondition, LoadEnd,
      CheckIdentity, CheckWindow, CopyRecord, StopBegin, Stopping, Join, vars, walVars

\* While log_overwrite_count is 0, no row mixes two records: on_md is never more than
\* a lap ahead of durable_seq, so the slot it stores to holds no record that the
\* tailer has yet to copy, and what a failed flush() writes again was copied whole.
THEOREM NoRowIsMixed == Spec => []UncountedIsWhole
  <1>1. Init => WholeInv
    <2> SUFFICES ASSUME Init PROVE WholeInv
      OBVIOUS
    <2>1. /\ appended = 0 /\ durable = 0 /\ committed = 0 /\ LogCapacity \in Nat
          /\ DOMAIN files = {} /\ Len(buf) = 0
      BY TailerV2Assumption DEF Init
    <2> QED  BY <2>1 DEF WholeInv, LogInv, RowsInv
  <1>2. CursorInv /\ WholeInv /\ [Next]_vars => WholeInv'
    BY LogInductive, RowsInductive DEF WholeInv
  <1>3. WholeInv => UncountedIsWhole
    BY DEF WholeInv, RowsInv, UncountedIsWhole
  <1> QED  BY <1>1, <1>2, <1>3, CursorsInitially, CursorsInductive, PTL DEF Spec

-----------------------------------------------------------------------------
(* Records are kept.                                                       *)

\* While nothing was counted, a record of the window that was read is in the buffer
\* until it is durable.
KeptInv ==
  overwrites = 0 =>
    \A p \in window :
      durable <= p /\ p < readSeq => \E k \in 1 .. Len(buf) : buf[k].seq = p

\* A buffer that the flush() of stop() leaves behind has cost a failure, one that the
\* flush() of ~Tailer leaves behind another.
LastInv ==
  /\ mpc = "draining" /\ tpc = "exited" /\ buf # <<>> => failures >= 1
  /\ mpc = "dropping" /\ tpc = "flush" => failures >= 1
  /\ mpc \in {"dropping", "down"} /\ tpc = "exited" /\ buf # <<>> => failures >= 2

\* A tick that was read keeps its place in the window or off it.
LEMMA WindowSteps ==
  ASSUME CursorInv, [Next]_vars
  PROVE  \A p \in window' : p \in window \/ p = appended
  BY DEF Next, OnMd, TakeTick, StoreRecord, Commit, Tailer, LoopCondition, LoadEnd,
      CheckIdentity, CheckWindow, CopyRecord, Flush, OpenSegment, CloseFull, WriteRows, Sync,
      FlushFails, KeptBuffer, StopBegin, Stopping, Join, CloseLast, vars, writerVars

LEMMA KeptInductive == CursorInv /\ LogInv /\ KeptInv /\ [Next]_vars => KeptInv'
  <1> SUFFICES ASSUME CursorInv, LogInv, KeptInv, [Next]_vars, overwrites' = 0,
                      NEW p \in window', durable' <= p, p < readSeq'
               PROVE  \E k \in 1 .. Len(buf') : buf'[k].seq = p
    BY DEF KeptInv
  <1>1. /\ overwrites = 0 /\ durable \in Nat /\ durable' \in {durable, readSeq}
        /\ readSeq \in durable .. committed
    BY CountGrows
  <1>2. committed \in Nat /\ appended \in Nat /\ committed <= appended /\ window \subseteq Nat
        /\ (tpc \in {"check", "flags", "copy"} => readSeq < end /\ end <= committed /\ end \in Nat)
    BY DEF CursorInv, TypeOK, Control
  <1>3. \A q \in window : durable <= q /\ q < readSeq => \E k \in 1 .. Len(buf) : buf[k].seq = q
    BY <1>1 DEF KeptInv
  <1>4. readSeq' = readSeq \/ (readSeq' = readSeq + 1 /\ readSeq < committed)
    <2>1. readSeq' = readSeq
          \/ (readSeq' = readSeq + 1 /\ (CheckIdentity \/ CheckWindow \/ CopyRecord))
      BY DEF Next, OnMd, TakeTick, StoreRecord, Commit, Tailer, LoopCondition, LoadEnd,
        CheckIdentity, CheckWindow, CopyRecord, Flush, OpenSegment, CloseFull, WriteRows, Sync,
        FlushFails, StopBegin, Stopping, Join, CloseLast, vars
    <2>2. CheckIdentity \/ CheckWindow \/ CopyRecord => readSeq < committed
      BY <1>1, <1>2 DEF CheckIdentity, CheckWindow, CopyRecord
    <2> QED  BY <2>1, <2>2
  <1>5. p \in window /\ p \in Nat /\ durable <= p
    <2>1. p \in window \/ p = appended
      BY WindowSteps
    <2>2. readSeq' <= committed /\ readSeq' \in Nat /\ durable' \in Nat /\ durable <= durable'
      BY <1>1, <1>2, <1>4
    <2>3. p \in Nat
      BY <1>2, <2>1
    <2>4. p # appended
      BY <1>2, <2>2, <2>3
    <2> QED  BY <1>1, <2>1, <2>2, <2>3, <2>4
  <1>6. CASE CopyRecord
    <2>1. /\ Len(buf') = Len(buf) + 1 /\ Len(buf) \in Nat
          /\ \A k \in 1 .. Len(buf) : buf'[k] = buf[k]
          /\ buf'[Len(buf) + 1] = Row(readSeq, readSeq)
      BY <1>1, <1>6, CopyIsWhole
    <2>2. CASE p = readSeq
      <3>1. buf'[Len(buf) + 1].seq = p /\ Len(buf) + 1 \in 1 .. Len(buf')
        BY <2>1, <2>2 DEF Row
      <3> QED  BY <3>1
    <2>3. CASE p # readSeq
      <3>1. p < readSeq
        BY <1>1, <1>4, <1>5, <2>3
      <3>2. PICK k \in 1 .. Len(buf) : buf[k].seq = p
        BY <1>3, <1>5, <3>1
      <3>3. k \in 1 .. Len(buf')
        BY <2>1
      <3> QED  BY <2>1, <3>2, <3>3
    <2> QED  BY <2>2, <2>3
  <1>7. CASE Sync
    <2>1. durable' = readSeq /\ readSeq' = readSeq
      BY <1>7 DEF Sync, FlushedDurable
    <2> QED  BY <1>1, <1>5, <2>1
  <1>8. CASE ~CopyRecord /\ ~Sync
    <2>1. buf' = buf
      BY <1>8, BufferSteps
    <2>2. p < readSeq
      <3>1. CASE readSeq' = readSeq
        BY <3>1
      <3>2. CASE readSeq' # readSeq
        <4>1. CASE CheckIdentity
          <5>1. overwrites' = overwrites + 1
            BY <3>2, <4>1 DEF CheckIdentity
          <5> QED  BY <1>1, <5>1
        <4>2. CASE CheckWindow
          <5>1. logData[SlotOf(readSeq)] \notin window
            BY <3>2, <4>2 DEF CheckWindow
          <5>2. logData[SlotOf(readSeq)] = readSeq
            BY <1>1, <1>2, <1>4, <3>2 DEF LogInv
          <5> QED  BY <1>1, <1>4, <1>5, <5>1, <5>2
        <4>3. ~(CheckIdentity \/ CheckWindow) => readSeq' = readSeq
          BY <1>8 DEF Next, OnMd, TakeTick, StoreRecord, Commit, Tailer, LoopCondition, LoadEnd,
            Flush, OpenSegment, CloseFull, WriteRows, FlushFails, StopBegin, Stopping, Join,
            CloseLast, vars
        <4> QED  BY <3>2, <4>1, <4>2, <4>3
      <3> QED  BY <3>1, <3>2
    <2> QED  BY <1>3, <1>5, <2>1, <2>2
  <1> QED  BY <1>6, <1>7, <1>8

LEMMA LastInductive == CursorInv /\ LastInv /\ [Next]_vars => LastInv'
  <1> SUFFICES ASSUME CursorInv, LastInv, [Next]_vars
               PROVE  LastInv'
    OBVIOUS
  <1> USE DEF faultVars, mainVars, LastInv
  <1>1. failures \in Nat /\ mpc \in {"up", "joining", "draining", "dropping", "down"}
    BY TailerV2Assumption DEF CursorInv, TypeOK
  <1>2. CASE Join
    BY <1>2 DEF Join, FlushRest
  <1>3. CASE Sync
    <2>1. buf' = <<>> /\ mpc' = mpc /\ failures' = failures /\ tpc = "flush"
      BY <1>3 DEF Sync, Syncs
    <2> QED  BY <2>1
  <1>4. CASE FlushFails
    <2>1. failures' = failures + 1 /\ mpc' = mpc /\ tpc = "flush"
      BY <1>4 DEF FlushFails, OpenFails, WriteFails, Writes, SyncFails, Syncs
    <2>2. mpc # "down"
      BY <2>1 DEF CursorInv, Control
    <2> QED  BY <1>1, <2>1, <2>2
  <1>5. CASE CloseLast
    <2>1. buf' = buf /\ failures' \in {failures, failures + 1} /\ tpc = "exited"
          /\ mpc \in {"draining", "dropping"}
      BY <1>5 DEF CloseLast
    <2>2. IF mpc = "draining" THEN mpc' = "dropping" /\ FlushRest
          ELSE mpc' = "down" /\ tpc' = tpc
      BY <1>5 DEF CloseLast
    <2> QED  BY <1>1, <2>1, <2>2 DEF FlushRest
  <1>6. CASE OnMd
    <2>1. UNCHANGED <<mpc, tpc, failures, buf>>
      BY <1>6 DEF OnMd, TakeTick, StoreRecord, Commit
    <2> QED  BY <2>1
  <1>7. CASE LoopCondition \/ LoadEnd \/ CheckIdentity \/ CheckWindow \/ CopyRecord
    <2>1. tpc \notin {"flush", "exited"} /\ mpc' = mpc
      BY <1>7 DEF LoopCondition, LoadEnd, CheckIdentity, CheckWindow, CopyRecord
    <2> QED  BY <2>1 DEF CursorInv, Control
  <1>8. CASE OpenSegment \/ CloseFull \/ WriteRows
    <2>1. failures' \in {failures, failures + 1} /\ mpc' = mpc /\ tpc = "flush" /\ tpc' = tpc
      BY <1>8 DEF OpenSegment, CloseFull, WriteRows, Rotates, Writes
    <2> QED  BY <1>1, <2>1
  <1>9. CASE StopBegin
    BY <1>9 DEF StopBegin
  <1>10. CASE UNCHANGED vars
    BY <1>10 DEF vars
  <1> QED
    BY <1>2, <1>3, <1>4, <1>5, <1>6, <1>7, <1>8, <1>9, <1>10 DEF Next, Tailer, Flush, Stopping

\* When stop() has returned, every tick was read, and after one failure, wherever it
\* was, every record of the window is behind durable_seq: stop() and then ~Tailer call
\* flush() whenever the buffer is not empty, and nothing is read in between.
THEOREM StopPersistsAllV2 == Spec => []AllPersisted
  <1>1. Init => LogInv /\ KeptInv /\ LastInv
    <2> SUFFICES ASSUME Init PROVE LogInv /\ KeptInv /\ LastInv
      OBVIOUS
    <2>1. /\ appended = 0 /\ durable = 0 /\ committed = 0 /\ LogCapacity \in Nat
          /\ window = {} /\ mpc = "up"
      BY TailerV2Assumption DEF Init
    <2> QED  BY <2>1 DEF LogInv, KeptInv, LastInv
  <1>2. CursorInv /\ KeptInv /\ LastInv => AllPersisted
    <2> SUFFICES ASSUME CursorInv, KeptInv, LastInv, mpc = "down"
                 PROVE  /\ readSeq = committed /\ committed = appended
                        /\ failures <= 1 /\ overwrites = 0 => \A p \in window : p < durable
      BY DEF AllPersisted
    <2>1. tpc = "exited" /\ readSeq = committed /\ committed = appended
      BY DEF CursorInv, Control
    <2>2. /\ window \subseteq 0 .. appended - 1 /\ appended \in Nat /\ durable \in Nat
          /\ failures \in Nat
      BY TailerV2Assumption DEF CursorInv, TypeOK
    <2>3. ASSUME failures <= 1, overwrites = 0, NEW p \in window, ~(p < durable)
          PROVE  FALSE
      <3>1. durable <= p /\ p < readSeq
        BY <2>1, <2>2, <2>3
      <3>2. PICK k \in 1 .. Len(buf) : buf[k].seq = p
        BY <2>3, <3>1 DEF KeptInv
      <3>3. ~(failures >= 2)
        BY <2>2, <2>3
      <3>4. buf = <<>> /\ Len(<<>>) = 0
        BY <2>1, <3>3 DEF LastInv
      <3> QED  BY <3>2, <3>4
    <2> QED  BY <2>1, <2>3
  <1> QED
    BY <1>1, <1>2, CursorsInitially, CursorsInductive, LogInductive, KeptInductive, LastInductive,
       PTL DEF Spec

-----------------------------------------------------------------------------
(* Records reach the disk.                                                 *)

\* A row is in a segment where a reader finds it, on disk or as soon as the next
\* fsync has returned.
Sits(row) ==
  \E i \in DOMAIN files : \E j \in 1 .. Len(files[i].rows) :
    /\ files[i].rows[j] = row /\ Aligned(i, j)
    /\ j \in files[i].safe \/ (fdOpen /\ i = Current /\ j \in files[i].dirty)

\* So is a row of the buffer that this flush() has written, unless it was given up by
\* a rotation or written behind a fragment.
Landed(row) == row.seq \in lost \/ Sits(row)

\* What this flush() has written has landed, and what is behind durable_seq is on disk
\* or one of the records lost.
DiskInv ==
  /\ \A k \in 1 .. off : Landed(buf[k])
  /\ overwrites = 0 => \A p \in window : p < durable => OnDisk(p) \/ p \in lost

\* A row a reader finds is found in the next state.
LEMMA AlignedStays ==
  ASSUME FilesOK, Grows, NEW i \in DOMAIN files, NEW j \in 1 .. Len(files[i].rows), Aligned(i, j)
  PROVE  Aligned(i, j)'
  <1>1. Len(files[i].rows) \in Nat
    BY DEF FilesOK, File
  <1>2. \A l \in 1 .. j : l \in 1 .. Len(files[i].rows)
    BY <1>1
  <1>3. \A l \in 1 .. j : files'[i].rows[l] # TornRow
    BY <1>2 DEF Grows, Aligned
  <1> QED  BY <1>3 DEF Aligned, TornRow, Row

\* What is on disk stays there.
LEMMA OnDiskStays ==
  ASSUME FilesOK, Grows, NEW p, OnDisk(p)
  PROVE  OnDisk(p)'
  <1>1. PICK i \in DOMAIN files : \E k \in files[i].safe : files[i].rows[k].seq = p /\ Aligned(i, k)
    BY DEF OnDisk, RowAt
  <1>2. PICK k \in files[i].safe : files[i].rows[k].seq = p /\ Aligned(i, k)
    BY <1>1
  <1>3. k \in 1 .. Len(files[i].rows)
    BY DEF FilesOK, RowsOf
  <1>4. i \in DOMAIN files' /\ k \in files'[i].safe /\ files'[i].rows[k] = files[i].rows[k]
    BY <1>3 DEF Grows
  <1>5. files'[i].rows[k].seq = p
    BY <1>2, <1>4
  <1>6. Aligned(i, k)'
    BY <1>2, <1>3, AlignedStays
  <1> QED  BY <1>4, <1>5, <1>6 DEF OnDisk, RowAt

\* So does a row that sits, as long as the open segment stays open or what was dirty
\* of it has been synced.
LEMMA SitsStays ==
  ASSUME FilesOK, FilesOK', Grows, NEW row, Sits(row),
         ~fdOpen \/ (UNCHANGED <<fdOpen, segment>> /\ files[Current].dirty \subseteq files'[Current].dirty)
                 \/ files[Current].dirty \subseteq files'[Current].safe
  PROVE  Sits(row)'
  <1>1. PICK i \in DOMAIN files : \E j \in 1 .. Len(files[i].rows) :
          /\ files[i].rows[j] = row /\ Aligned(i, j)
          /\ j \in files[i].safe \/ (fdOpen /\ i = Current /\ j \in files[i].dirty)
    BY DEF Sits
  <1>2. PICK j \in 1 .. Len(files[i].rows) :
          /\ files[i].rows[j] = row /\ Aligned(i, j)
          /\ j \in files[i].safe \/ (fdOpen /\ i = Current /\ j \in files[i].dirty)
    BY <1>1
  <1>3. /\ i \in DOMAIN files' /\ files'[i].rows[j] = row
        /\ Len(files[i].rows) <= Len(files'[i].rows)
        /\ files[i].safe \subseteq files'[i].safe
    BY <1>2 DEF Grows
  <1>4. j \in files'[i].safe \/ (fdOpen' /\ i = Current' /\ j \in files'[i].dirty)
    <2>1. CASE j \in files[i].safe
      BY <1>3, <2>1
    <2>2. CASE fdOpen /\ i = Current /\ j \in files[i].dirty
      <3>1. UNCHANGED segment => Current' = Current
        BY DEF Current
      <3> QED  BY <2>2, <3>1
    <2> QED  BY <1>2, <2>1, <2>2
  <1>5. j \in 1 .. Len(files'[i].rows)
    <2>1. Len(files[i].rows) \in Nat /\ Len(files'[i].rows) \in Nat
      BY <1>3 DEF FilesOK, File
    <2> QED  BY <1>3, <2>1
  <1>6. Aligned(i, j)'
    BY <1>2, AlignedStays
  <1> QED  BY <1>3, <1>4, <1>5, <1>6 DEF Sits

\* A record that is lost stays lost.
LEMMA LostGrows ==
  ASSUME [Next]_vars
  PROVE  lost \subseteq lost'
  BY DEF Next, OnMd, TakeTick, StoreRecord, Commit, Tailer, LoopCondition, LoadEnd,
      CheckIdentity, CheckWindow, CopyRecord, Flush, OpenSegment, CloseFull, WriteRows, Sync,
      FlushFails, StopBegin, Stopping, Join, CloseLast, vars, faultVars

\* What a step does to the segments, whoever takes it.
LEMMA DiskSteps ==
  ASSUME CursorInv, [Next]_vars
  PROVE  /\ FilesOK /\ FilesOK' /\ Grows
         /\ \/ UNCHANGED <<files, fdOpen, segment, buf, off>>
            \/ off' = 0
            \/ OpenSegment \/ CloseFull \/ WriteRows
  <1>1. FilesOK /\ FilesOK'
    BY CursorsInductive DEF CursorInv
  <1>2. CASE Flush \/ CloseLast
    <2>1. Grows
      BY <1>2, FileSteps
    <2>2. CloseLast => off' = 0
      BY DEF CloseLast, CursorInv, Control
    <2>3. Sync \/ FlushFails => off' = 0
      BY DEF Sync, FlushFails
    <2> QED  BY <1>1, <1>2, <2>1, <2>2, <2>3 DEF Flush
  <1>3. CASE ~(Flush \/ CloseLast)
    <2>1. UNCHANGED <<files, fdOpen, segment, off>>
      BY <1>3 DEF Next, OnMd, TakeTick, StoreRecord, Commit, Tailer, LoopCondition, LoadEnd,
        CheckIdentity, CheckWindow, CopyRecord, StopBegin, Stopping, Join, vars, walVars, faultVars
    <2>2. UNCHANGED buf \/ off' = 0
      <3>1. CopyRecord => off = 0
        BY DEF CopyRecord, CursorInv, Control
      <3> QED  BY <1>3, <2>1, <3>1, BufferSteps DEF Flush
    <2>3. \A i \in DOMAIN files : Len(files[i].rows) \in Nat
      BY <1>1 DEF FilesOK, File
    <2>4. Grows
      BY <2>1, <2>3 DEF Grows
    <2> QED  BY <1>1, <2>1, <2>2, <2>4
  <1> QED  BY <1>2, <1>3

\* A row of the buffer that is appended behind no fragment sits.
LEMMA WriteSits ==
  ASSUME CursorInv, WriteRows, FilesOK', Aligned(Current, Len(files[Current].rows)),
         NEW l \in 1 .. Len(ChunkRows), NEW row, row = ChunkRows[l]
  PROVE  Sits(row)'
  <1> DEFINE old == Len(files[Current].rows)
             chunk == ChunkRows
  <1>1. /\ FilesOK /\ fdOpen /\ Writes /\ UNCHANGED <<segment, fdOpen>>
        /\ AppendRows(chunk) /\ off \in Nat /\ Len(buf) \in Nat /\ off <= Len(buf)
    BY DEF WriteRows, Writes, CursorInv, TypeOK, BufferOK
  <1>2. /\ chunk \in Seq(RowSet) /\ Len(chunk) \in 1 .. Len(buf) - off
        /\ \A m \in 1 .. Len(chunk) : chunk[m] = buf[off + m]
    BY <1>1, ChunkRange
  <1> HIDE DEF chunk
  <1>3. \A m \in 1 .. Len(chunk) : chunk[m].seq >= 0
    <2>1. \A m \in 1 .. Len(chunk) : off + m \in 1 .. Len(buf)
      BY <1>1, <1>2
    <2> QED  BY <1>2, <2>1 DEF CursorInv, BufferOK
  <1>4. Current \in DOMAIN files /\ old \in Nat
        /\ \A m \in 1 .. old : files[Current].rows[m] # TornRow
    BY <1>1 DEF FilesOK, File, Aligned
  <1>5. /\ Grows
        /\ \A m \in 1 .. Len(chunk) :
             /\ old + m \in files'[Current].dirty
             /\ old + m \in 1 .. Len(files'[Current].rows)
             /\ files'[Current].rows[old + m] = chunk[m]
    BY <1>1, <1>2, AppendGrows
  <1>6. \A m \in 1 .. old : files'[Current].rows[m] # TornRow
    BY <1>4, <1>5 DEF Grows
  <1> HIDE DEF old
  <1>7. l \in 1 .. Len(chunk)
    BY DEF chunk
  <1>8. \A m \in 1 .. old + l : files'[Current].rows[m] # TornRow
    <2> TAKE m \in 1 .. old + l
    <2>1. CASE m \in 1 .. old
      BY <1>6, <2>1
    <2>2. CASE m \notin 1 .. old
      <3>1. PICK n \in 1 .. Len(chunk) : m = old + n
        <4>1. m - old \in 1 .. Len(chunk) /\ m = old + (m - old)
          BY <1>2, <1>4, <1>7, <2>2
        <4> QED  BY <4>1
      <3>2. files'[Current].rows[m].seq >= 0
        BY <1>3, <1>5, <3>1
      <3> QED  BY <3>2 DEF TornRow, Row
    <2> QED  BY <2>1, <2>2
  <1>9. Current' = Current /\ Current \in DOMAIN files'
    BY <1>1, <1>4, <1>5 DEF Current, Grows
  <1>10. PICK c : c = Current /\ c = Current'
    BY <1>9
  <1>11. PICK j : j = old + l
    OBVIOUS
  <1>12. Aligned(c, j)'
    BY <1>8, <1>10, <1>11 DEF Aligned, TornRow, Row
  <1>13. row = chunk[l]
    BY DEF chunk
  <1>14. /\ c \in DOMAIN files' /\ j \in 1 .. Len(files'[c].rows) /\ files'[c].rows[j] = row
         /\ j \in files'[c].dirty /\ fdOpen' /\ c = Current'
    BY <1>1, <1>5, <1>7, <1>9, <1>10, <1>11, <1>13
  <1> QED  BY <1>12, <1>14 DEF Sits

\* flush() lands what it writes, and loses none of it when it rotates but what the
\* rotation gives up.
LEMMA LandedInductive ==
  ASSUME CursorInv, DiskInv, [Next]_vars,
         NEW k \in 1 .. off', NEW row, row = buf'[k]
  PROVE  Landed(row)'
  <1>1. /\ FilesOK /\ FilesOK' /\ Grows /\ lost \subseteq lost'
        /\ \/ UNCHANGED <<files, fdOpen, segment, buf, off>>
           \/ off' = 0
           \/ OpenSegment \/ CloseFull \/ WriteRows
    BY DiskSteps, LostGrows
  <1>2. \A l \in 1 .. off : Landed(buf[l])
    BY DEF DiskInv
  <1>3. CASE UNCHANGED <<files, fdOpen, segment, buf, off>>
    <2>1. Landed(row)
      BY <1>2, <1>3
    <2>2. Sits(row) => Sits(row)'
      BY <1>3 DEF Sits, Current, Aligned, TornRow, Row
    <2> QED  BY <1>1, <2>1, <2>2 DEF Landed
  <1>4. CASE off' = 0
    BY <1>4
  <1>5. CASE OpenSegment
    <2>1. ~fdOpen /\ buf' = buf /\ off' = off
      BY <1>5 DEF OpenSegment
    <2>2. Landed(row)
      BY <1>2, <2>1
    <2> QED  BY <1>1, <2>1, <2>2, SitsStays DEF Landed
  <1>6. CASE CloseFull
    <2>1. buf' = buf /\ off' = off /\ fdOpen
      BY <1>6 DEF CloseFull, Rotates
    <2>2. Landed(row)
      BY <1>2, <2>1
    <2>3. CASE SyncFile
      <3>1. files[Current].dirty \subseteq files'[Current].safe
        BY <1>1, <2>1, <2>3, SyncFacts
      <3> QED  BY <1>1, <2>2, <3>1, SitsStays DEF Landed
    <2>4. CASE ~SyncFile
      <3>1. lost' = lost \cup SeqsAt(Current, files[Current].dirty) /\ GiveUpFile
        BY <1>6, <2>4 DEF CloseFull
      <3>2. ASSUME Sits(row), row.seq \notin lost'
            PROVE  Sits(row)'
        <4>1. PICK i \in DOMAIN files : \E j \in 1 .. Len(files[i].rows) :
                /\ files[i].rows[j] = row /\ Aligned(i, j)
                /\ j \in files[i].safe \/ (fdOpen /\ i = Current /\ j \in files[i].dirty)
          BY <3>2 DEF Sits
        <4>2. PICK j \in 1 .. Len(files[i].rows) :
                /\ files[i].rows[j] = row /\ Aligned(i, j)
                /\ j \in files[i].safe \/ (fdOpen /\ i = Current /\ j \in files[i].dirty)
          BY <4>1
        <4>3. j \in files[i].safe
          <5>1. i = Current /\ j \in files[i].dirty => row.seq \in SeqsAt(Current, files[Current].dirty)
            BY <4>2 DEF SeqsAt
          <5> QED  BY <3>1, <3>2, <4>2, <5>1
        <4>4. Aligned(i, j)'
          BY <1>1, <4>2, AlignedStays
        <4>5. /\ i \in DOMAIN files' /\ j \in files'[i].safe /\ files'[i].rows[j] = row
          BY <1>1, <4>2, <4>3 DEF Grows
        <4>6. j \in 1 .. Len(files'[i].rows)
          BY <1>1, <4>5 DEF FilesOK, RowsOf
        <4> QED  BY <4>4, <4>5, <4>6 DEF Sits
      <3> QED  BY <1>1, <2>2, <3>2 DEF Landed
    <2> QED  BY <2>3, <2>4
  <1>7. CASE WriteRows
    <2>1. /\ buf' = buf /\ fdOpen /\ Writes /\ UNCHANGED <<segment, fdOpen>>
          /\ off' = off + Len(ChunkRows) /\ AppendRows(ChunkRows)
      BY <1>7 DEF WriteRows, Writes
    <2>2. /\ ChunkRows \in Seq(RowSet) /\ Len(ChunkRows) \in Nat
          /\ \A l \in 1 .. Len(ChunkRows) : ChunkRows[l] = buf[off + l]
      BY <2>1, ChunkRange
    <2>3. files[Current].dirty \subseteq files'[Current].dirty
      BY <1>1, <2>1, <2>2, AppendGrows
    <2>4. CASE k \in 1 .. off
      <3>1. Landed(row)
        BY <1>2, <2>1, <2>4
      <3> QED  BY <1>1, <2>1, <2>3, <3>1, SitsStays DEF Landed
    <2>5. CASE k \notin 1 .. off
      <3>1. off \in Nat
        BY DEF CursorInv, TypeOK
      <3>2. PICK l \in 1 .. Len(ChunkRows) : off + l = k
        <4>1. k - off \in 1 .. Len(ChunkRows) /\ off + (k - off) = k
          BY <2>1, <2>2, <2>5, <3>1
        <4> QED  BY <4>1
      <3>3. row = ChunkRows[l]
        BY <2>1, <2>2, <3>2
      <3>4. CASE Aligned(Current, Len(files[Current].rows))
        <4>1. Sits(row)'
          BY <1>1, <1>7, <3>3, <3>4, WriteSits
        <4> QED  BY <4>1 DEF Landed
      <3>5. CASE ~Aligned(Current, Len(files[Current].rows))
        <4>1. lost' = lost \cup {ChunkRows[m].seq : m \in 1 .. Len(ChunkRows)}
          BY <1>7, <3>5 DEF WriteRows
        <4> QED  BY <3>3, <4>1 DEF Landed
      <3> QED  BY <3>4, <3>5
    <2> QED  BY <2>4, <2>5
  <1> QED  BY <1>1, <1>3, <1>4, <1>5, <1>6, <1>7

\* An fsync puts every row that sits in a segment on disk.
LEMMA SyncCovers ==
  ASSUME FilesOK, Grows, Sync, NEW row, Sits(row)
  PROVE  OnDisk(row.seq)'
  <1>1. fdOpen /\ SyncFile
    BY DEF Sync, Syncs
  <1>2. /\ DOMAIN files' = DOMAIN files
        /\ \A i \in DOMAIN files : files'[i].rows = files[i].rows
        /\ files'[Current].safe = files[Current].safe \cup files[Current].dirty
        /\ \A i \in DOMAIN files : files[i].safe \subseteq files'[i].safe
    BY <1>1, SyncFacts
  <1>3. PICK i \in DOMAIN files : \E j \in 1 .. Len(files[i].rows) :
          /\ files[i].rows[j] = row /\ Aligned(i, j)
          /\ j \in files[i].safe \/ (fdOpen /\ i = Current /\ j \in files[i].dirty)
    BY DEF Sits
  <1>4. PICK j \in 1 .. Len(files[i].rows) :
          /\ files[i].rows[j] = row /\ Aligned(i, j)
          /\ j \in files[i].safe \/ (fdOpen /\ i = Current /\ j \in files[i].dirty)
    BY <1>3
  <1>5. j \in files'[i].safe /\ files'[i].rows[j] = row
    BY <1>2, <1>4
  <1>6. Aligned(i, j)'
    BY <1>4, AlignedStays
  <1> QED  BY <1>2, <1>5, <1>6 DEF OnDisk, RowAt

LEMMA DiskInductive == CursorInv /\ KeptInv /\ DiskInv /\ [Next]_vars => DiskInv'
  <1> SUFFICES ASSUME CursorInv, KeptInv, DiskInv, [Next]_vars
               PROVE  /\ \A k \in 1 .. off' : Landed(buf[k])'
                      /\ overwrites' = 0 => \A p \in window' :
                                              p < durable' => OnDisk(p)' \/ p \in lost'
    BY DEF DiskInv
  <1>1. FilesOK /\ FilesOK' /\ Grows /\ lost \subseteq lost'
    BY DiskSteps, LostGrows
  <1>2. /\ \A k \in 1 .. off : Landed(buf[k])
        /\ overwrites = 0 => \A p \in window : p < durable => OnDisk(p) \/ p \in lost
    BY DEF DiskInv
  <1>3. \A k \in 1 .. off' : Landed(buf[k])'
    <2> TAKE k \in 1 .. off'
    <2>1. PICK row : row = buf'[k]
      OBVIOUS
    <2>2. Landed(row)'
      BY <2>1, LandedInductive
    <2> QED  BY <2>1, <2>2 DEF Landed, Sits
  <1>4. ASSUME overwrites' = 0, NEW p \in window', p < durable'
        PROVE  OnDisk(p)' \/ p \in lost'
    <2>1. /\ overwrites = 0 /\ durable \in Nat /\ durable' \in {durable, readSeq}
          /\ readSeq \in durable .. committed
      BY <1>4, CountGrows
    <2>2. /\ committed \in Nat /\ appended \in Nat /\ committed <= appended /\ window \subseteq Nat
      BY DEF CursorInv, TypeOK
    <2>3. p \in window /\ p \in Nat
      <3>1. p \in window \/ p = appended
        BY <1>4, WindowSteps
      <3>2. durable' <= committed /\ durable' \in Nat
        BY <2>1, <2>2
      <3>3. p # appended
        BY <1>4, <2>2, <3>2
      <3> QED  BY <2>2, <3>1, <3>3
    <2>4. CASE p < durable
      <3>1. OnDisk(p) \/ p \in lost
        BY <1>2, <2>1, <2>3, <2>4
      <3>2. OnDisk(p) => OnDisk(p)'
        BY <1>1, OnDiskStays
      <3> QED  BY <1>1, <3>1, <3>2
    <2>5. CASE ~(p < durable)
      <3>1. Sync
        <4>1. ~Sync => durable' = durable
          BY DEF Next, OnMd, TakeTick, StoreRecord, Commit, Tailer, LoopCondition, LoadEnd,
            CheckIdentity, CheckWindow, CopyRecord, Flush, OpenSegment, CloseFull, WriteRows,
            FlushFails, StopBegin, Stopping, Join, CloseLast, vars
        <4> QED  BY <1>4, <2>5, <4>1
      <3>2. off = Len(buf) /\ durable' = readSeq
        BY <3>1 DEF Sync, Syncs, FlushedDurable
      <3>3. durable <= p /\ p < readSeq
        BY <1>4, <2>1, <2>3, <2>5, <3>2
      <3>4. PICK k \in 1 .. Len(buf) : buf[k].seq = p
        BY <2>1, <2>3, <3>3 DEF KeptInv
      <3>5. PICK row : row = buf[k]
        OBVIOUS
      <3>6. Landed(row) /\ row.seq = p
        BY <1>2, <3>2, <3>4, <3>5
      <3>7. CASE p \in lost
        BY <1>1, <3>7
      <3>8. CASE Sits(row)
        <4>1. OnDisk(row.seq)'
          BY <1>1, <3>1, <3>8, SyncCovers
        <4> QED  BY <3>6, <4>1
      <3> QED  BY <3>6, <3>7, <3>8 DEF Landed
    <2> QED  BY <2>4, <2>5
  <1> QED  BY <1>3, <1>4

\* A record below durable_seq is on disk where a reader of the segment finds it,
\* unless the fsync of a rotation gave it up or it was written behind the fragment of
\* a failed write: a flush() that failed begins again with the first row of the
\* buffer, whether the thread calls it, stop() or ~Tailer, and durable_seq moves only
\* when the whole buffer has been written and the last fsync has returned.
THEOREM DurableRecordsAreLegible == Spec => []DurableIsLegible
  <1>1. Init => LogInv /\ KeptInv /\ DiskInv
    <2> SUFFICES ASSUME Init PROVE LogInv /\ KeptInv /\ DiskInv
      OBVIOUS
    <2>1. /\ appended = 0 /\ durable = 0 /\ committed = 0 /\ LogCapacity \in Nat
          /\ window = {} /\ off = 0
      BY TailerV2Assumption DEF Init
    <2> QED  BY <2>1 DEF LogInv, KeptInv, DiskInv
  <1>2. DiskInv => DurableIsLegible
    BY DEF DiskInv, DurableIsLegible
  <1> QED
    BY <1>1, <1>2, CursorsInitially, CursorsInductive, LogInductive, KeptInductive, DiskInductive,
       PTL DEF Spec

-----------------------------------------------------------------------------
(* Segments have their size.                                               *)

\* stop() has closed the last segment.
Closed == mpc \in {"dropping", "down"}

\* Without failures, rows_in_segment_ counts the rows of the open segment, a segment is
\* full when the next one is opened, and stop() opens none after it has closed one.
SizeInv ==
  failures = 0 =>
    /\ fdOpen => rowsInSegment = Len(files[Current].rows)
    /\ \A i \in DOMAIN files :
         /\ Len(files[i].rows) <= SegmentRows
         /\ i # Current \/ (~fdOpen /\ ~Closed) => Len(files[i].rows) = SegmentRows

LEMMA SizeInductive == CursorInv /\ LastInv /\ SizeInv /\ [Next]_vars => SizeInv'
  <1> SUFFICES ASSUME CursorInv, LastInv, SizeInv, [Next]_vars, failures' = 0
               PROVE  SizeInv'
    BY DEF SizeInv
  <1> USE DEF walVars, mainVars, faultVars
  <1>1. /\ FilesOK /\ failures \in Nat /\ segment \in Nat /\ rowsInSegment \in 0 .. SegmentRows
        /\ SegmentRows \in Nat \ {0}
        /\ \A i \in DOMAIN files : Len(files[i].rows) \in Nat
    <2>1. FilesOK /\ Numbers /\ Places
      BY TypeParts DEF CursorInv
    <2>2. \A i \in DOMAIN files : Len(files[i].rows) \in Nat
      BY <2>1 DEF FilesOK, File
    <2>3. segment \in Nat
      BY <2>1 DEF FilesOK
    <2>4. failures \in Nat /\ rowsInSegment \in 0 .. SegmentRows /\ SegmentRows \in Nat \ {0}
      BY <2>1, TailerV2Assumption DEF Numbers
    <2> QED  BY <2>1, <2>2, <2>3, <2>4 DEF Places
  <1>2. failures = 0
    <2>1. failures' \in {failures, failures + 1}
      BY DEF Next, OnMd, TakeTick, StoreRecord, Commit, Tailer, LoopCondition, LoadEnd,
        CheckIdentity, CheckWindow, CopyRecord, Flush, OpenSegment, CloseFull, WriteRows, Sync,
        FlushFails, StopBegin, Stopping, Join, CloseLast, vars
    <2> QED  BY <1>1, <2>1
  <1>3. /\ fdOpen => rowsInSegment = Len(files[Current].rows)
        /\ \A i \in DOMAIN files :
             /\ Len(files[i].rows) <= SegmentRows
             /\ i # Current \/ (~fdOpen /\ ~Closed) => Len(files[i].rows) = SegmentRows
    BY <1>2 DEF SizeInv
  <1>4. tpc = "flush" => ~Closed
    BY <1>2 DEF CursorInv, Control, LastInv, Closed
  <1>5. ASSUME UNCHANGED <<fdOpen, rowsInSegment, segment, files>>, Closed => Closed'
        PROVE  SizeInv'
    BY <1>3, <1>5 DEF SizeInv, Current
  <1>6. CASE OpenSegment
    <2>1. /\ segment' = segment + 1 /\ fdOpen' = TRUE /\ rowsInSegment' = 0 /\ mpc' = mpc
          /\ ~fdOpen /\ ~Closed
          /\ files' = [i \in DOMAIN files \cup {segment} |->
                         IF i = segment THEN NewFile ELSE files[i]]
      BY <1>4, <1>6 DEF OpenSegment
    <2>2. /\ DOMAIN files' = DOMAIN files \cup {segment} /\ Current' = segment
          /\ files'[segment].rows = <<>> /\ Len(<<>>) = 0
      BY <1>1, <2>1 DEF Current, NewFile
    <2>3. \A i \in DOMAIN files : i # segment /\ files'[i] = files[i]
      BY <1>1, <2>1 DEF FilesOK
    <2> QED  BY <1>1, <1>3, <2>1, <2>2, <2>3 DEF SizeInv
  <1>7. CASE CloseFull \/ Sync \/ CloseLast
    <2>1. CASE fdOpen /\ (SyncFile \/ GiveUpFile)
      <3>1. DOMAIN files' = DOMAIN files /\ \A i \in DOMAIN files : files'[i].rows = files[i].rows
        BY <1>1, <2>1, SyncFacts
      <3>2. /\ UNCHANGED <<segment, rowsInSegment>>
            /\ (fdOpen' = fdOpen /\ mpc' = mpc) \/ fdOpen' = FALSE
            /\ Current' = Current
        BY <1>7 DEF CloseFull, Sync, CloseLast, Current
      <3>3. /\ fdOpen' = FALSE /\ ~Closed' => rowsInSegment >= SegmentRows
            /\ fdOpen' = FALSE \/ fdOpen' = fdOpen
        BY <1>7, <2>1 DEF CloseFull, Sync, Syncs, CloseLast, Rotates, SegmentFull, Closed
      <3>4. Current \in DOMAIN files
        BY <1>1, <2>1 DEF FilesOK
      <3>5. fdOpen' = FALSE /\ ~Closed' => Len(files[Current].rows) = SegmentRows
        BY <1>1, <1>3, <2>1, <3>3, <3>4
      <3> QED  BY <1>3, <2>1, <3>1, <3>2, <3>3, <3>4, <3>5 DEF SizeInv
    <2>2. CASE CloseLast /\ ~fdOpen /\ UNCHANGED files
      <3>1. UNCHANGED <<segment, rowsInSegment>> /\ fdOpen' = FALSE /\ Closed'
            /\ Current' = Current
        BY <2>2 DEF CloseLast, Current, Closed
      <3> QED  BY <1>3, <2>2, <3>1 DEF SizeInv
    <2> QED  BY <1>7, <2>1, <2>2 DEF CloseFull, Rotates, Sync, Syncs, CloseLast
  <1>8. CASE WriteRows
    <2>1. /\ Writes /\ fdOpen /\ fdOpen' = fdOpen /\ segment' = segment /\ mpc' = mpc /\ ~Closed
          /\ rowsInSegment' = rowsInSegment + Len(ChunkRows) /\ AppendRows(ChunkRows)
          /\ Current' = Current
      BY <1>4, <1>8 DEF WriteRows, Writes, Current
    <2>2. /\ ChunkRows \in Seq(RowSet) /\ Len(ChunkRows) \in Nat
          /\ rowsInSegment + Len(ChunkRows) <= SegmentRows
      BY <2>1, ChunkRange
    <2>3. /\ DOMAIN files' = DOMAIN files
          /\ \A i \in DOMAIN files : i # Current => files'[i] = files[i]
          /\ files'[Current].rows = files[Current].rows \o ChunkRows
      BY <1>1, <2>1, <2>2, AppendFacts
    <2>4. Current \in DOMAIN files /\ files[Current].rows \in Seq(RowSet)
      BY <1>1, <2>1 DEF FilesOK, File
    <2>5. Len(files'[Current].rows) = Len(files[Current].rows) + Len(ChunkRows)
      BY <2>2, <2>3, <2>4
    <2>6. Len(files'[Current].rows) = rowsInSegment' /\ Len(files'[Current].rows) <= SegmentRows
      BY <1>3, <2>1, <2>2, <2>5
    <2> QED  BY <1>3, <2>1, <2>3, <2>6 DEF SizeInv
  <1>9. ~FlushFails
    BY <1>1, <1>2 DEF FlushFails
  <1> QED
    <2>1. CASE OnMd
      <3>1. UNCHANGED <<fdOpen, rowsInSegment, segment, files, mpc>>
        BY <2>1 DEF OnMd, TakeTick, StoreRecord, Commit
      <3> QED  BY <1>5, <3>1 DEF Closed
    <2>2. CASE LoopCondition \/ LoadEnd \/ CheckIdentity \/ CheckWindow \/ CopyRecord
      <3>1. UNCHANGED <<fdOpen, rowsInSegment, segment, files, mpc>>
        BY <2>2 DEF LoopCondition, LoadEnd, CheckIdentity, CheckWindow, CopyRecord
      <3> QED  BY <1>5, <3>1 DEF Closed
    <2>3. CASE StopBegin \/ Join \/ UNCHANGED vars
      <3>1. UNCHANGED <<fdOpen, rowsInSegment, segment, files>> /\ (Closed => Closed')
        BY <2>3 DEF StopBegin, Join, vars, Closed
      <3> QED  BY <1>5, <3>1
    <2> QED
      BY <1>6, <1>7, <1>8, <1>9, <2>1, <2>2, <2>3 DEF Next, Tailer, Flush, Stopping

\* No segment is longer than kWalSegmentRows and none but the newest is shorter.
CleanSegmentsAreFull ==
  failures = 0 =>
    \A i \in DOMAIN files :
      /\ Len(files[i].rows) <= SegmentRows
      /\ i + 1 \in DOMAIN files => Len(files[i].rows) = SegmentRows

\* Without failures every segment but the newest is exactly full, whether on_md
\* overwrites records or not, across every rotation and the close of stop().
THEOREM CleanRunsFillSegments == Spec => []CleanSegmentsAreFull
  <1>1. Init => SizeInv /\ LastInv
    <2> SUFFICES ASSUME Init PROVE SizeInv /\ LastInv
      OBVIOUS
    <2>1. DOMAIN files = {} /\ ~fdOpen /\ mpc = "up"
      BY DEF Init
    <2> QED  BY <2>1 DEF SizeInv, LastInv
  <1>2. CursorInv /\ SizeInv => CleanSegmentsAreFull
    <2> SUFFICES ASSUME CursorInv, SizeInv, failures = 0, NEW i \in DOMAIN files
                 PROVE  /\ Len(files[i].rows) <= SegmentRows
                        /\ i + 1 \in DOMAIN files => Len(files[i].rows) = SegmentRows
      BY DEF CleanSegmentsAreFull
    <2>1. segment \in Nat /\ DOMAIN files \subseteq 0 .. segment - 1
      BY DEF CursorInv, FilesOK
    <2>2. i + 1 \in DOMAIN files => i # Current
      BY <2>1 DEF Current
    <2> QED  BY <2>2 DEF SizeInv
  <1> QED
    BY <1>1, <1>2, CursorsInitially, CursorsInductive, LastInductive, SizeInductive, PTL DEF Spec

-----------------------------------------------------------------------------
(* Rows keep their order.                                                  *)

\* The segments one after the other, and the records they should hold.
Segments == [i \in 1 .. segment |-> IF i - 1 \in DOMAIN files THEN files[i - 1].rows ELSE <<>>]
Wanted(n) == [k \in 1 .. n |-> IF k - 1 \in window THEN <<Row(k - 1, k - 1)>> ELSE <<>>]

LEMMA SegmentsTyped ==
  ASSUME FilesOK
  PROVE  Segments \in [1 .. segment -> Seq(RowSet)] /\ WalRows = FlattenSeq(Segments)
  <1>1. ASSUME NEW i \in 1 .. segment
        PROVE  (IF i - 1 \in DOMAIN files THEN files[i - 1].rows ELSE <<>>) \in Seq(RowSet)
    <2>1. CASE i - 1 \in DOMAIN files
      BY <2>1 DEF FilesOK, File
    <2>2. CASE i - 1 \notin DOMAIN files
      BY <2>2
    <2> QED  BY <2>1, <2>2
  <1> QED  BY <1>1 DEF Segments, WalRows

LEMMA SegmentsTypedNext ==
  (FilesOK => Segments \in [1 .. segment -> Seq(RowSet)] /\ WalRows = FlattenSeq(Segments))'
  <1>1. FilesOK => Segments \in [1 .. segment -> Seq(RowSet)] /\ WalRows = FlattenSeq(Segments)
    BY SegmentsTyped
  <1> QED  BY <1>1, PTL

LEMMA WantedTyped ==
  ASSUME NEW n \in Nat
  PROVE  Wanted(n) \in [1 .. n -> Seq(RowSet)] /\ RecordsBelow(n) = FlattenSeq(Wanted(n))
  <1>1. ASSUME NEW k \in 1 .. n
        PROVE  (IF k - 1 \in window THEN <<Row(k - 1, k - 1)>> ELSE <<>>) \in Seq(RowSet)
    <2>1. Row(k - 1, k - 1) \in RowSet
      BY DEF Row, RowSet
    <2> DEFINE row == Row(k - 1, k - 1)
    <2> HIDE DEF row
    <2>2. <<row>> \in Seq(RowSet) /\ <<>> \in Seq(RowSet)
      BY <2>1 DEF row
    <2> QED  BY <2>2 DEF row
  <1> QED  BY <1>1 DEF Wanted, RecordsBelow

\* One more record is read, in the window or off it.
LEMMA RecordsBelowNext ==
  ASSUME NEW n \in Nat
  PROVE  /\ RecordsBelow(n) \in Seq(RowSet)
         /\ RecordsBelow(n + 1) =
              IF n \in window THEN RecordsBelow(n) \o <<Row(n, n)>> ELSE RecordsBelow(n)
  <1>1. /\ Wanted(n) \in [1 .. n -> Seq(RowSet)] /\ RecordsBelow(n) = FlattenSeq(Wanted(n))
        /\ Wanted(n + 1) \in [1 .. n + 1 -> Seq(RowSet)]
        /\ RecordsBelow(n + 1) = FlattenSeq(Wanted(n + 1))
    BY WantedTyped
  <1>2. \A i \in 1 .. n : Wanted(n + 1)[i] = Wanted(n)[i]
    BY DEF Wanted
  <1>3. Wanted(n + 1)[n + 1] = IF n \in window THEN <<Row(n, n)>> ELSE <<>>
    BY DEF Wanted
  <1>4. /\ RecordsBelow(n + 1) = RecordsBelow(n) \o Wanted(n + 1)[n + 1]
        /\ RecordsBelow(n) \in Seq(RowSet)
    BY <1>1, <1>2, FlattenNext
  <1>5. RecordsBelow(n) \o <<>> = RecordsBelow(n)
    BY <1>4, ConcatEmptySeq
  <1> QED  BY <1>3, <1>4, <1>5

\* A tick that is taken later changes nothing below.
LEMMA RecordsBelowStay ==
  ASSUME CursorInv, [Next]_vars, NEW n \in 0 .. readSeq
  PROVE  RecordsBelow(n)' = RecordsBelow(n)
  <1>1. readSeq \in 0 .. appended /\ appended \in Nat
    BY DEF CursorInv, TypeOK
  <1>2. window' = window \/ window' = window \cup {appended}
    BY DEF Next, OnMd, TakeTick, StoreRecord, Commit, Tailer, LoopCondition, LoadEnd,
      CheckIdentity, CheckWindow, CopyRecord, Flush, OpenSegment, CloseFull, WriteRows, Sync,
      FlushFails, StopBegin, Stopping, Join, CloseLast, vars, writerVars
  <1>3. \A k \in 1 .. n : k - 1 \in window' <=> k - 1 \in window
    BY <1>1, <1>2
  <1>4. [k \in 1 .. n |-> IF k - 1 \in window' THEN <<Row(k - 1, k - 1)>> ELSE <<>>]
          = [k \in 1 .. n |-> IF k - 1 \in window THEN <<Row(k - 1, k - 1)>> ELSE <<>>]
    BY <1>3
  <1>5. RecordsBelow(n)' = FlattenSeq([k \in 1 .. n |->
                             IF k - 1 \in window' THEN <<Row(k - 1, k - 1)>> ELSE <<>>])
    BY DEF RecordsBelow, Row
  <1> QED  BY <1>4, <1>5 DEF RecordsBelow

\* Segments whose rows stay the same, ...
LEMMA WalStays ==
  ASSUME segment' = segment, DOMAIN files' = DOMAIN files,
         \A i \in DOMAIN files : files'[i].rows = files[i].rows
  PROVE  WalRows' = WalRows
  <1>1. Segments' = Segments
    <2>1. \A i \in 1 .. segment :
            (IF i - 1 \in DOMAIN files' THEN files'[i - 1].rows ELSE <<>>)
              = (IF i - 1 \in DOMAIN files THEN files[i - 1].rows ELSE <<>>)
      OBVIOUS
    <2> QED  BY <2>1 DEF Segments
  <1>2. WalRows = FlattenSeq(Segments) /\ WalRows' = FlattenSeq(Segments')
    BY DEF WalRows, Segments
  <1> QED  BY <1>1, <1>2

\* ... an empty one more, ...
LEMMA WalOpens ==
  ASSUME FilesOK, OpenSegment
  PROVE  WalRows' = WalRows
  <1>1. /\ segment \in Nat /\ segment' = segment + 1 /\ segment \notin DOMAIN files
        /\ files' = [i \in DOMAIN files \cup {segment} |->
                       IF i = segment THEN NewFile ELSE files[i]]
    BY DEF OpenSegment, FilesOK
  <1>2. FilesOK'
    BY OpenGrows DEF OpenSegment
  <1>3. /\ Segments \in [1 .. segment -> Seq(RowSet)] /\ WalRows = FlattenSeq(Segments)
    BY SegmentsTyped
  <1>4. Segments' \in [1 .. segment + 1 -> Seq(RowSet)] /\ WalRows' = FlattenSeq(Segments')
    BY <1>1, <1>2, SegmentsTypedNext
  <1>5. Segments'[segment + 1] = <<>>
    BY <1>1 DEF Segments, NewFile
  <1>6. \A i \in 1 .. segment : Segments'[i] = Segments[i]
    BY <1>1 DEF Segments
  <1>7. WalRows' = WalRows \o <<>> /\ WalRows \in Seq(RowSet)
    BY <1>1, <1>3, <1>4, <1>5, <1>6, FlattenNext
  <1> QED  BY <1>7, ConcatEmptySeq

\* ... and rows at the end of the newest.
LEMMA WalGrows ==
  ASSUME FilesOK, fdOpen, NEW rows \in Seq(RowSet), AppendRows(rows), UNCHANGED <<segment, fdOpen>>
  PROVE  WalRows' = WalRows \o rows /\ WalRows \in Seq(RowSet)
  <1>1. /\ FilesOK' /\ Current \in DOMAIN files /\ segment \in Nat /\ DOMAIN files \subseteq 0 .. segment - 1
        /\ segment' = segment
    BY AppendGrows DEF FilesOK
  <1>2. /\ DOMAIN files' = DOMAIN files
        /\ \A i \in DOMAIN files : i # Current => files'[i] = files[i]
        /\ files'[Current].rows = files[Current].rows \o rows
    BY AppendFacts
  <1>3. PICK n \in Nat : n + 1 = segment
    <2>1. segment # 0 /\ segment - 1 \in Nat /\ (segment - 1) + 1 = segment
      BY <1>1 DEF Current
    <2> QED  BY <2>1
  <1>4. n = Current /\ n \in DOMAIN files
    BY <1>1, <1>3 DEF Current
  <1> DEFINE front == [i \in 1 .. n |-> Segments[i]]
  <1>5. /\ Segments \in [1 .. n + 1 -> Seq(RowSet)] /\ WalRows = FlattenSeq(Segments)
        /\ Segments' \in [1 .. n + 1 -> Seq(RowSet)] /\ WalRows' = FlattenSeq(Segments')
    <2>1. Segments \in [1 .. segment -> Seq(RowSet)] /\ WalRows = FlattenSeq(Segments)
      BY SegmentsTyped
    <2>2. Segments' \in [1 .. segment' -> Seq(RowSet)] /\ WalRows' = FlattenSeq(Segments')
      BY <1>1, SegmentsTypedNext
    <2> QED  BY <1>1, <1>3, <2>1, <2>2
  <1>6. front \in [1 .. n -> Seq(RowSet)] /\ \A i \in 1 .. n : Segments[i] = front[i]
    BY <1>5
  <1>7. Segments[n + 1] = files[n].rows /\ Segments'[n + 1] = files[n].rows \o rows
    <2>1. n + 1 \in 1 .. segment /\ n + 1 \in 1 .. segment' /\ (n + 1) - 1 = n
      BY <1>1, <1>3
    <2>2. n \in DOMAIN files /\ n \in DOMAIN files' /\ files'[n].rows = files[n].rows \o rows
      BY <1>2, <1>4
    <2>3. Segments[n + 1] = files[n].rows
      BY <2>1, <2>2 DEF Segments
    <2>4. Segments'[n + 1] = files'[n].rows
      BY <2>1, <2>2 DEF Segments
    <2> QED  BY <2>2, <2>3, <2>4
  <1>8. \A i \in 1 .. n : Segments'[i] = front[i]
    <2> SUFFICES ASSUME NEW i \in 1 .. n PROVE Segments'[i] = Segments[i]
      BY <1>6
    <2>1. i \in 1 .. segment /\ i - 1 # Current
      BY <1>3, <1>4
    <2> QED  BY <1>1, <1>2, <2>1 DEF Segments
  <1> HIDE DEF front
  <1>9. /\ WalRows = FlattenSeq(front) \o files[n].rows
        /\ WalRows' = FlattenSeq(front) \o (files[n].rows \o rows)
        /\ FlattenSeq(front) \in Seq(RowSet) /\ files[n].rows \in Seq(RowSet)
    <2>1. /\ FlattenSeq(Segments) = FlattenSeq(front) \o Segments[n + 1]
          /\ FlattenSeq(front) \in Seq(RowSet) /\ Segments[n + 1] \in Seq(RowSet)
      BY <1>5, <1>6, FlattenNext
    <2>2. FlattenSeq(Segments') = FlattenSeq(front) \o Segments'[n + 1]
      BY <1>5, <1>6, <1>8, FlattenNext
    <2> QED  BY <1>5, <1>7, <2>1, <2>2
  <1>10. (FlattenSeq(front) \o files[n].rows) \o rows = FlattenSeq(front) \o (files[n].rows \o rows)
    <2> DEFINE a == FlattenSeq(front)
               b == files[n].rows
    <2>1. a \in Seq(RowSet) /\ b \in Seq(RowSet)
      BY <1>9
    <2> HIDE DEF a, b
    <2>2. (a \o b) \o rows = a \o (b \o rows)
      BY <2>1, ConcatAssociative
    <2> QED  BY <2>2 DEF a, b
  <1>11. \A s, t \in Seq(RowSet) : s \o t \in Seq(RowSet)
    OBVIOUS
  <1> QED  BY <1>9, <1>10, <1>11

\* What is left of the buffer, before and after a write.
LEMMA LeftOver ==
  ASSUME CursorInv, Writes, off' = off + Len(ChunkRows), UNCHANGED buf
  PROVE  /\ ChunkRows \in Seq(RowSet) /\ RowsLeft' \in Seq(RowSet)
         /\ RowsLeft = ChunkRows \o RowsLeft'
  <1>1. /\ ChunkRows \in Seq(RowSet) /\ Len(ChunkRows) \in 1 .. Len(buf) - off
        /\ \A k \in 1 .. Len(ChunkRows) : ChunkRows[k] = buf[off + k]
    BY ChunkRange
  <1>2. buf \in Seq(RowSet) /\ Len(buf) \in Nat /\ off \in 0 .. Len(buf)
    BY DEF CursorInv, BufferOK, TypeOK
  <1>3. /\ SubSeq(buf, off + 1, off + Len(ChunkRows)) \in Seq(RowSet)
        /\ Len(SubSeq(buf, off + 1, off + Len(ChunkRows))) = Len(ChunkRows)
        /\ \A k \in 1 .. Len(ChunkRows) :
             SubSeq(buf, off + 1, off + Len(ChunkRows))[k] = buf[off + k]
    <2> DEFINE c == Len(ChunkRows)
    <2> HIDE DEF c
    <2>1. \A k \in 1 .. c : off + k \in 1 .. Len(buf)
      BY <1>1, <1>2 DEF c
    <2>2. c \in Nat /\ c >= 1 /\ off + c <= Len(buf)
      BY <1>1, <1>2 DEF c
    <2> QED  BY <1>2, <2>1, <2>2 DEF c
  <1>4. ChunkRows = SubSeq(buf, off + 1, off + Len(ChunkRows))
    BY <1>1, <1>3, SeqEqual
  <1>5. RowsLeft = SubSeq(buf, off + 1, Len(buf))
        /\ RowsLeft' = SubSeq(buf, off + Len(ChunkRows) + 1, Len(buf))
    BY DEF RowsLeft
  <1> DEFINE c == Len(ChunkRows)
  <1>6. off + 1 \in 1 .. Len(buf) + 1 /\ off + c \in (off + 1) - 1 .. Len(buf)
        /\ Len(buf) \in off + c .. Len(buf)
    <2>1. c \in 1 .. Len(buf) - off
      BY <1>1
    <2> HIDE DEF c
    <2> QED  BY <1>2, <2>1
  <1>7. SubSeq(buf, off + 1, off + c) \o SubSeq(buf, off + c + 1, Len(buf))
          = SubSeq(buf, off + 1, Len(buf))
    BY <1>2, <1>6, ConcatAdjacentSubSeq
  <1>8. RowsLeft' \in Seq(RowSet)
    BY <1>1, <1>2, <1>5
  <1> QED  BY <1>1, <1>4, <1>5, <1>7, <1>8

\* While nothing failed or was counted, the rows written and those yet to be written
\* are the records read, and a copy is of a record of the window.
OrderInv ==
  failures = 0 /\ overwrites = 0 =>
    /\ WalRows \o RowsLeft = RecordsBelow(readSeq)
    /\ tpc = "copy" => readSeq \in window

LEMMA RowsTyped ==
  ASSUME CursorInv
  PROVE  /\ WalRows \in Seq(RowSet) /\ RowsLeft \in Seq(RowSet)
         /\ off = 0 => RowsLeft = buf
         /\ off = Len(buf) => RowsLeft = <<>>
  <1>1. buf \in Seq(RowSet) /\ Len(buf) \in Nat /\ off \in 0 .. Len(buf) /\ segment \in Nat /\ FilesOK
    BY DEF CursorInv, BufferOK, TypeOK, FilesOK
  <1>2. WalRows \in Seq(RowSet)
    <2>1. Segments \in [1 .. segment -> Seq(RowSet)] /\ WalRows = FlattenSeq(Segments)
      BY <1>1, SegmentsTyped
    <2>2. Segments \in Seq(Seq(RowSet))
      BY <1>1, <2>1, FunctionIsSeq
    <2> QED  BY <2>1, <2>2, FlattenTyped
  <1>3. RowsLeft \in Seq(RowSet)
    BY <1>1 DEF RowsLeft
  <1>4. off = 0 => RowsLeft = buf
    BY <1>1, SubSeqFull DEF RowsLeft
  <1>5. off = Len(buf) => RowsLeft = <<>>
    BY <1>1, SubSeqEmpty DEF RowsLeft
  <1> QED  BY <1>2, <1>3, <1>4, <1>5

\* Steps that neither read nor write.
LEMMA StillInOrder ==
  ASSUME CursorInv, OrderInv, [Next]_vars, failures = 0, overwrites = 0,
         UNCHANGED <<readSeq>>, WalRows' = WalRows, RowsLeft' = RowsLeft
  PROVE  WalRows' \o RowsLeft' = RecordsBelow(readSeq)'
  <1>1. readSeq \in 0 .. readSeq
    BY DEF CursorInv, TypeOK
  <1>2. PICK n \in 0 .. readSeq : n = readSeq
    BY <1>1
  <1>3. RecordsBelow(n)' = RecordsBelow(n)
    BY <1>2, RecordsBelowStay
  <1>4. RecordsBelow(readSeq)' = RecordsBelow(n)'
    BY <1>2 DEF RecordsBelow
  <1> QED  BY <1>2, <1>3, <1>4 DEF OrderInv

\* A record is copied.
LEMMA CopyInOrder ==
  ASSUME CursorInv, LogInv, OrderInv, CopyRecord, failures = 0, overwrites = 0
  PROVE  WalRows' \o RowsLeft' = RecordsBelow(readSeq)'
  <1>1. /\ off = 0 /\ tpc = "copy" /\ readSeq \in Nat /\ readSeq \in window /\ readSeq' = readSeq + 1
        /\ off' = off /\ window' = window
    BY DEF CursorInv, TypeOK, Control, CopyRecord, OrderInv, writerVars
  <1>2. CursorInv'
    BY CursorsInductive DEF Next, Tailer
  <1> DEFINE row == Row(readSeq, readSeq)
  <1>3. buf' = Append(buf, row) /\ buf \in Seq(RowSet) /\ row \in RowSet
    <2>1. /\ buf' \in Seq(RowSet) /\ Len(buf') = Len(buf) + 1 /\ Len(buf) \in Nat
          /\ \A k \in 1 .. Len(buf) : buf'[k] = buf[k]
          /\ buf'[Len(buf) + 1] = row
      BY CopyIsWhole
    <2>2. row \in RowSet /\ buf \in Seq(RowSet)
      BY <1>1 DEF Row, RowSet, CursorInv, BufferOK
    <2> HIDE DEF row
    <2>3. /\ Append(buf, row) \in Seq(RowSet) /\ Len(Append(buf, row)) = Len(buf) + 1
          /\ \A k \in 1 .. Len(buf) + 1 : Append(buf, row)[k] = buf'[k]
      BY <2>1, <2>2
    <2>4. Append(buf, row) = buf'
      BY <2>1, <2>3, SeqEqual
    <2> QED  BY <2>2, <2>4
  <1>4. WalRows' = WalRows
    BY WalStays DEF CopyRecord, walVars
  <1>5. RowsLeft = buf /\ RowsLeft' = buf' /\ WalRows \in Seq(RowSet)
    <2>1. (off = 0 => RowsLeft = buf) /\ WalRows \in Seq(RowSet)
      BY RowsTyped
    <2>2. RowsLeft' = SubSeq(buf', 1, Len(buf'))
      BY <1>1 DEF RowsLeft
    <2>3. buf' \in Seq(RowSet)
      BY <1>2 DEF CursorInv, BufferOK
    <2> QED  BY <1>1, <2>1, <2>2, <2>3, SubSeqFull
  <1>6. RecordsBelow(readSeq)' = RecordsBelow(readSeq) \o <<row>>
    <2>1. PICK n \in Nat : n = readSeq
      BY <1>1
    <2>2. RecordsBelow(readSeq)' = RecordsBelow(n + 1)
      BY <1>1, <2>1 DEF RecordsBelow
    <2>3. RecordsBelow(n + 1) = RecordsBelow(n) \o <<row>>
      BY <1>1, <2>1, RecordsBelowNext
    <2> QED  BY <2>1, <2>2, <2>3
  <1> HIDE DEF row
  <1>7. buf' = buf \o <<row>> /\ <<row>> \in Seq(RowSet)
    BY <1>3
  <1>8. WalRows \o (buf \o <<row>>) = (WalRows \o buf) \o <<row>>
    BY <1>3, <1>5, <1>7, ConcatAssociative
  <1>9. WalRows \o buf = RecordsBelow(readSeq)
    BY <1>5 DEF OrderInv
  <1> QED  BY <1>4, <1>5, <1>6, <1>7, <1>8, <1>9

\* A record is passed over: off the window, since the slot still holds it.
LEMMA SkipInOrder ==
  ASSUME CursorInv, LogInv, OrderInv, CheckWindow, failures = 0, overwrites = 0
  PROVE  /\ WalRows' \o RowsLeft' = RecordsBelow(readSeq)'
         /\ tpc' = "copy" => readSeq' \in window'
  <1>1. /\ readSeq \in Nat /\ readSeq < committed /\ durable <= readSeq /\ committed \in Nat
        /\ window' = window /\ [Next]_vars
    BY DEF CursorInv, TypeOK, Control, CheckWindow, writerVars, Next, Tailer
  <1>2. logData[SlotOf(readSeq)] = readSeq
    BY <1>1 DEF LogInv
  <1>3. WalRows' = WalRows
    BY WalStays DEF CheckWindow, walVars
  <1>4. RowsLeft' = RowsLeft
    BY DEF CheckWindow, RowsLeft
  <1>5. CASE readSeq \in window
    <2>1. readSeq' = readSeq
      BY <1>2, <1>5 DEF CheckWindow
    <2> QED  BY <1>1, <1>3, <1>4, <1>5, <2>1, StillInOrder
  <1>6. CASE readSeq \notin window
    <2>1. readSeq' = readSeq + 1 /\ tpc' # "copy"
      BY <1>2, <1>6 DEF CheckWindow, FlushIfFull, Onward
    <2>2. PICK n \in Nat : n = readSeq
      BY <1>1
    <2>3. RecordsBelow(readSeq)' = RecordsBelow(n + 1)
      BY <1>1, <2>1, <2>2 DEF RecordsBelow
    <2>4. RecordsBelow(n + 1) = RecordsBelow(n)
      BY <1>6, <2>2, RecordsBelowNext
    <2> QED  BY <1>3, <1>4, <2>1, <2>2, <2>3, <2>4 DEF OrderInv
  <1> QED  BY <1>5, <1>6

\* Rows go from the buffer to the newest segment.
LEMMA FlushInOrder ==
  ASSUME CursorInv, OrderInv, Flush \/ CloseLast, failures' = 0, overwrites = 0
  PROVE  WalRows' \o RowsLeft' = RecordsBelow(readSeq)'
  <1> USE DEF walVars, mainVars, faultVars
  <1>1. FilesOK /\ failures \in Nat
    BY DEF CursorInv, TypeOK
  <1>2. failures = 0 /\ ~FlushFails
    <2>1. failures' \in {failures, failures + 1}
      BY DEF Flush, OpenSegment, CloseFull, WriteRows, Sync, FlushFails, CloseLast
    <2> QED  BY <1>1, <2>1 DEF FlushFails
  <1>3. [Next]_vars /\ readSeq' = readSeq /\ window' = window
    BY DEF Next, Tailer, Stopping, Flush, OpenSegment, CloseFull, WriteRows, Sync, FlushFails,
           CloseLast, writerVars
  <1>4. RecordsBelow(readSeq)' = RecordsBelow(readSeq)
    BY <1>3 DEF RecordsBelow
  <1>5. WalRows \o RowsLeft = RecordsBelow(readSeq)
    BY <1>2 DEF OrderInv
  <1>6. CASE OpenSegment
    <2>1. WalRows' = WalRows
      BY <1>1, <1>6, WalOpens
    <2>2. RowsLeft' = RowsLeft
      BY <1>6 DEF OpenSegment, RowsLeft
    <2> QED  BY <1>4, <1>5, <2>1, <2>2
  <1>7. CASE CloseFull \/ Sync \/ CloseLast
    <2>1. WalRows' = WalRows
      <3>1. CASE fdOpen /\ (SyncFile \/ GiveUpFile)
        <4>1. DOMAIN files' = DOMAIN files /\ \A i \in DOMAIN files : files'[i].rows = files[i].rows
          BY <1>1, <3>1, SyncFacts
        <4>2. segment' = segment
          BY <1>7 DEF CloseFull, Sync, CloseLast
        <4> QED  BY <4>1, <4>2, WalStays
      <3>2. CASE UNCHANGED <<files, segment>>
        BY <3>2, WalStays
      <3> QED  BY <1>7, <3>1, <3>2 DEF CloseFull, Rotates, Sync, Syncs, CloseLast
    <2>2. RowsLeft' = RowsLeft
      <3>1. CASE CloseFull \/ CloseLast
        BY <3>1 DEF CloseFull, CloseLast, RowsLeft
      <3>2. CASE Sync
        <4>1. RowsLeft = <<>>
          BY <3>2, RowsTyped DEF Sync, Syncs
        <4>2. RowsLeft' = SubSeq(<<>>, 0 + 1, Len(<<>>))
          BY <3>2 DEF Sync, RowsLeft
        <4>3. SubSeq(<<>>, 0 + 1, Len(<<>>)) = <<>>
          BY SubSeqEmpty
        <4> QED  BY <4>1, <4>2, <4>3
      <3> QED  BY <1>7, <3>1, <3>2
    <2> QED  BY <1>4, <1>5, <2>1, <2>2
  <1>8. CASE WriteRows
    <2>1. /\ ChunkRows \in Seq(RowSet) /\ RowsLeft' \in Seq(RowSet)
          /\ RowsLeft = ChunkRows \o RowsLeft'
      BY <1>8, LeftOver DEF WriteRows
    <2>2. WalRows' = WalRows \o ChunkRows /\ WalRows \in Seq(RowSet)
      BY <1>1, <1>8, <2>1, WalGrows DEF WriteRows, Writes
    <2>3. (WalRows \o ChunkRows) \o RowsLeft' = WalRows \o (ChunkRows \o RowsLeft')
      <3> DEFINE a == WalRows
                 b == ChunkRows
                 c == RowsLeft'
      <3>1. a \in Seq(RowSet) /\ b \in Seq(RowSet) /\ c \in Seq(RowSet)
        BY <2>1, <2>2
      <3> HIDE DEF a, b, c
      <3>2. (a \o b) \o c = a \o (b \o c)
        BY <3>1, ConcatAssociative
      <3> QED  BY <3>2 DEF a, b, c
    <2> QED  BY <1>4, <1>5, <2>1, <2>2, <2>3
  <1> QED  BY <1>2, <1>6, <1>7, <1>8 DEF Flush

LEMMA OrderInductive == CursorInv /\ LogInv /\ OrderInv /\ [Next]_vars => OrderInv'
  <1> SUFFICES ASSUME CursorInv, LogInv, OrderInv, [Next]_vars, failures' = 0, overwrites' = 0
               PROVE  /\ WalRows' \o RowsLeft' = RecordsBelow(readSeq)'
                      /\ tpc' = "copy" => readSeq' \in window'
    BY DEF OrderInv
  <1>1. overwrites = 0
    BY CountGrows
  <1>2. failures = 0
    <2>1. failures' \in {failures, failures + 1} /\ failures \in Nat
      BY DEF Next, OnMd, TakeTick, StoreRecord, Commit, Tailer, LoopCondition, LoadEnd,
        CheckIdentity, CheckWindow, CopyRecord, Flush, OpenSegment, CloseFull, WriteRows, Sync,
        FlushFails, StopBegin, Stopping, Join, CloseLast, vars, faultVars, CursorInv, TypeOK
    <2> QED  BY <2>1
  <1>3. tpc = "copy" => readSeq \in window
    BY <1>1, <1>2 DEF OrderInv
  <1>4. CASE CopyRecord
    <2>1. tpc' # "copy"
      BY <1>4 DEF CopyRecord, FlushIfFull, Onward
    <2> QED  BY <1>1, <1>2, <1>4, <2>1, CopyInOrder
  <1>5. CASE CheckWindow
    BY <1>1, <1>2, <1>5, SkipInOrder
  <1>6. CASE Flush \/ CloseLast
    <2>1. tpc' # "copy"
      BY <1>6 DEF Flush, OpenSegment, CloseFull, Rotates, WriteRows, Writes, Sync, Syncs, FlushFails,
             OpenFails, WriteFails, SyncFails, CloseLast, Resume, Onward, FlushRest
    <2> QED  BY <1>1, <1>6, <2>1, FlushInOrder
  <1>7. CASE OnMd \/ LoopCondition \/ LoadEnd \/ CheckIdentity \/ StopBegin \/ Join \/ UNCHANGED vars
    <2>1. UNCHANGED <<walVars, buf, off, readSeq>>
      <3>1. CASE CheckIdentity
        BY <1>1, <3>1 DEF CheckIdentity, CursorInv, TypeOK
      <3>2. CASE ~CheckIdentity
        BY <1>7, <3>2 DEF OnMd, TakeTick, StoreRecord, Commit, LoopCondition, LoadEnd, StopBegin, Join, vars
      <3> QED  BY <3>1, <3>2
    <2>2. WalRows' = WalRows
      BY <2>1, WalStays DEF walVars
    <2>3. RowsLeft' = RowsLeft
      BY <2>1 DEF RowsLeft
    <2>4. tpc' = "copy" => tpc = "copy"
      BY <1>7 DEF OnMd, TakeTick, StoreRecord, Commit, LoopCondition, LoadEnd, CheckIdentity, Onward,
             StopBegin, Join, FlushRest, vars
    <2>5. window \subseteq window'
      BY <1>7 DEF OnMd, TakeTick, StoreRecord, Commit, LoopCondition, LoadEnd, CheckIdentity,
             StopBegin, Join, vars, writerVars
    <2> QED  BY <1>1, <1>2, <1>3, <2>1, <2>2, <2>3, <2>4, <2>5, StillInOrder
  <1> QED  BY <1>4, <1>5, <1>6, <1>7 DEF Next, Tailer, Stopping

\* A run in which nothing fails and nothing is overwritten leaves exactly the records
\* of the window in the WAL, each once and in order, whatever the batches and segments
\* they were cut into.
THEOREM CleanRunsAreExact == Spec => []CleanRunIsExact
  <1>1. Init => OrderInv
    <2> SUFFICES ASSUME Init PROVE OrderInv
      OBVIOUS
    <2>1. /\ readSeq = 0 /\ tpc = "loop" /\ buf = <<>> /\ off = 0 /\ segment = 0 /\ Len(<<>>) = 0
      BY DEF Init
    <2>2. RowsLeft = <<>>
      <3>1. SubSeq(<<>>, 0 + 1, Len(<<>>)) = <<>>
        BY SubSeqEmpty
      <3> QED  BY <2>1, <3>1 DEF RowsLeft
    <2>4. WalRows = <<>>
      <3> DEFINE f == [i \in 1 .. 0 |->
                         IF i - 1 \in DOMAIN files THEN files[i - 1].rows ELSE <<>>]
      <3>1. WalRows = FlattenSeq(f)
        BY <2>1 DEF WalRows
      <3>2. f = <<>>
        OBVIOUS
      <3> QED  BY <3>1, <3>2, FlattenNothing
    <2>5. RecordsBelow(0) = <<>>
      <3> DEFINE f == [k \in 1 .. 0 |-> IF k - 1 \in window THEN <<Row(k - 1, k - 1)>> ELSE <<>>]
      <3>1. RecordsBelow(0) = FlattenSeq(f)
        BY DEF RecordsBelow
      <3>2. f = <<>>
        OBVIOUS
      <3> QED  BY <3>1, <3>2, FlattenNothing
    <2>6. <<>> \o <<>> = <<>>
      OBVIOUS
    <2> QED  BY <2>1, <2>2, <2>4, <2>5, <2>6 DEF OrderInv
  <1>2. OrderInv /\ CleanSegmentsAreFull => CleanRunIsExact
    BY DEF OrderInv, CleanSegmentsAreFull, CleanRunIsExact
  <1>3. Init => LogInv
    BY TailerV2Assumption DEF Init, LogInv
  <1> QED
    BY <1>1, <1>2, <1>3, CleanRunsFillSegments, CursorsInitially, CursorsInductive, LogInductive,
       OrderInductive, PTL DEF Spec
=============================================================================
