--------------------------- MODULE ParquetConvert ---------------------------
(***************************************************************************)
(* scripts/wal_to_parquet.py: a process that reads the WAL segments of a   *)
(* directory in the order of their names, sorts the rows into buckets and  *)
(* writes a bucket's rows to a Parquet part whenever a row group is full,  *)
(* and what is left at the end.  It may run while the tailer still writes  *)
(* the WAL, may be killed anywhere and run again with the same arguments   *)
(* over the output it left.  v2_opus/wal2parquet.py does the same.         *)
(*                                                                         *)
(* The WAL is as StorageTailer leaves it: rows are appended to the newest  *)
(* segment, which alone may end in a fragment, for a moment or, after a    *)
(* fault, for good.  A row is its place in the WAL and its bucket.  A part *)
(* is whole once write_table has returned; before, it holds nothing that   *)
(* can be read.                                                            *)
(***************************************************************************)
EXTENDS Integers, SequencesExt

CONSTANTS Buckets,       \* the buckets, numbers below --buckets
          RowGroupRows,  \* --row-group-rows
          SegmentRows,   \* kWalSegmentRows, rows of a full segment
          MaxRows,       \* bound: rows of the WAL
          MaxRuns        \* bound: runs of the converter

ASSUME ConvertAssumption ==
  /\ Buckets \subseteq Nat /\ Buckets # {}
  /\ {RowGroupRows, SegmentRows} \subseteq Nat \ {0}
  /\ {MaxRows, MaxRuns} \subseteq Nat

VARIABLES wal,       \* the segments, oldest first
          fragment,  \* whether the newest ends in a part of a row
          out,       \* the parts of each bucket, by number
          cpc,       \* where the converter is in main() and write_bucket()
          listed,    \* segments that were there when it listed them
          file,      \* the one it opens next
          data,      \* rows of the one it has read that are yet to be sorted
          buffers,   \* buffers, by bucket
          part,      \* part_index, by bucket
          target,    \* the bucket it writes
          total,     \* total_rows
          runs,      \* runs begun (not in the code)
          owed       \* rows the WAL had when the run began (not in the code)

walVars == <<wal, fragment>>
localVars == <<listed, file, data, buffers, part, target, total>>
vars == <<walVars, out, cpc, localVars, runs, owed>>

Running == {"read", "write", "open"}
Ended == {"ready", "done", "died"}

WalRows == FlattenSeq(wal)
OfBucket(rows, b) ==
  FlattenSeq([k \in DOMAIN rows |-> IF rows[k].bucket = b THEN <<rows[k]>> ELSE <<>>])
BucketRows(b) == OfBucket(WalRows, b)

NoPart == [rows |-> <<>>, whole |-> FALSE]
NoBuffers == [b \in Buckets |-> <<>>]
NoParts == [b \in Buckets |-> 0]
FirstBucket == CHOOSE b \in Buckets : \A c \in Buckets : b <= c

-----------------------------------------------------------------------------
(* The tailer.                                                             *)

HasRoom == wal # <<>> /\ Len(Last(wal)) < SegmentRows

NewSegment ==
  /\ ~fragment /\ ~HasRoom
  /\ wal' = Append(wal, <<>>)
  /\ UNCHANGED <<fragment, out, cpc, localVars, runs, owed>>

BeginRow ==
  /\ ~fragment /\ HasRoom /\ Len(WalRows) < MaxRows
  /\ fragment' = TRUE
  /\ UNCHANGED <<wal, out, cpc, localVars, runs, owed>>

EndRow ==
  /\ fragment
  /\ \E b \in Buckets :
       wal' = [wal EXCEPT ![Len(wal)] = Append(@, [id |-> Len(WalRows) + 1, bucket |-> b])]
  /\ fragment' = FALSE
  /\ UNCHANGED <<out, cpc, localVars, runs, owed>>

WriteWal == NewSegment \/ BeginRow \/ EndRow

-----------------------------------------------------------------------------
(* The converter.                                                          *)

Start ==
  /\ cpc \in Ended /\ runs < MaxRuns
  /\ runs' = runs + 1 /\ owed' = Len(WalRows)
  /\ cpc' = "read"
  /\ listed' = Len(wal)
  /\ file' = 1 /\ data' = <<>>
  /\ buffers' = NoBuffers /\ part' = NoParts /\ total' = 0
  /\ UNCHANGED <<walVars, out, target>>

\* The process is gone, and its locals with it.
Gone ==
  /\ cpc' = "died"
  /\ listed' = 0 /\ file' = 1 /\ data' = <<>>
  /\ buffers' = NoBuffers /\ part' = NoParts /\ total' = 0
  /\ target' = FirstBucket

\* parse_wal_file(): a segment is read as it is now, and a fragment refused.
IsTorn(i) == i = Len(wal) /\ fragment

ReadFile ==
  /\ cpc = "read" /\ data = <<>> /\ file <= listed
  /\ ~IsTorn(file)
  /\ data' = wal[file]
  /\ file' = file + 1
  /\ UNCHANGED <<walVars, out, cpc, listed, buffers, part, target, total, runs, owed>>

RefuseFile ==
  /\ cpc = "read" /\ data = <<>> /\ file <= listed
  /\ IsTorn(file)
  /\ Gone
  /\ UNCHANGED <<walVars, out, runs, owed>>

\* A row goes to the buffer of its bucket; a full row group is written.
GroupTooLate(rows) == Len(rows) > RowGroupRows  \* mutant: one row late
GroupFull(rows) == Len(rows) >= RowGroupRows

SortRow ==
  /\ cpc = "read" /\ data # <<>>
  /\ LET row == Head(data) IN
       /\ buffers' = [buffers EXCEPT ![row.bucket] = Append(@, row)]
       /\ IF GroupFull(buffers'[row.bucket])
          THEN cpc' = "write" /\ target' = row.bucket
          ELSE UNCHANGED <<cpc, target>>
  /\ data' = Tail(data)
  /\ UNCHANGED <<walVars, out, listed, file, part, total, runs, owed>>

\* When all is sorted, what is left is written, bucket after bucket, ...
AllSorted == cpc = "read" /\ data = <<>> /\ file > listed
NonEmpty == {b \in Buckets : buffers[b] # <<>>}

WriteRest ==
  /\ AllSorted
  /\ \E b \in NonEmpty :
       /\ \A c \in NonEmpty : b <= c
       /\ target' = b
  /\ cpc' = "write"
  /\ UNCHANGED <<walVars, out, listed, file, data, buffers, part, total, runs, owed>>

\* ... and the run is over.
Finish ==
  /\ AllSorted /\ NonEmpty = {}
  /\ cpc' = "done"
  /\ UNCHANGED <<walVars, out, localVars, runs, owed>>

\* write_bucket(): the part is opened, which empties one of that name, ...
PutPart(p) ==
  out' = [out EXCEPT ![target] = [k \in DOMAIN @ \cup {part[target]} |->
                                    IF k = part[target] THEN p ELSE @[k]]]

OpenPart ==
  /\ cpc = "write"
  /\ PutPart(NoPart)
  /\ cpc' = "open"
  /\ UNCHANGED <<walVars, localVars, runs, owed>>

\* ... and closed.  Number and buffer of a bucket written at the end are not used
\* again, so it does not matter that they are advanced here.
SameNumber == part                  \* mutant: part_index is not advanced
NextNumber == [part EXCEPT ![target] = @ + 1]
KeepRows == buffers                 \* mutant: the buffer is not emptied
EmptyBuffer == [buffers EXCEPT ![target] = <<>>]

ClosePart ==
  /\ cpc = "open"
  /\ PutPart([rows |-> buffers[target], whole |-> TRUE])
  /\ total' = total + Len(buffers[target])
  /\ part' = NextNumber
  /\ buffers' = EmptyBuffer
  /\ cpc' = "read"
  /\ UNCHANGED <<walVars, listed, file, data, target, runs, owed>>

\* write_table() fails and takes its file away ...
WriteFails ==
  /\ cpc = "open"
  /\ out' = [out EXCEPT ![target] =
               [k \in DOMAIN @ \ {part[target]} |-> @[k]]]
  /\ Gone
  /\ UNCHANGED <<walVars, runs, owed>>

\* ... or the process is killed.
Kill ==
  /\ cpc \in Running
  /\ Gone
  /\ UNCHANGED <<walVars, out, runs, owed>>

Convert ==
  ReadFile \/ RefuseFile \/ SortRow \/ WriteRest \/ Finish \/ OpenPart \/ ClosePart

-----------------------------------------------------------------------------
Init ==
  /\ wal = <<>> /\ fragment = FALSE
  /\ out = [b \in Buckets |-> <<>>]
  /\ cpc = "ready"
  /\ listed = 0 /\ file = 1 /\ data = <<>>
  /\ buffers = NoBuffers /\ part = NoParts /\ total = 0
  /\ target = FirstBucket
  /\ runs = 0 /\ owed = 0

Next == WriteWal \/ Start \/ Convert \/ WriteFails \/ Kill

Spec == Init /\ [][Next]_vars

-----------------------------------------------------------------------------
(* What the conversion promises.                                           *)

\* The rows of a bucket's parts in the order of their numbers (which are below MaxRows:
\* no part that is written is empty), and the places of the rows of all buckets.
Output(b) ==
  FlattenSeq([k \in 1 .. MaxRows |->
                IF k - 1 \in DOMAIN out[b] THEN out[b][k - 1].rows ELSE <<>>])
Places(s) == UNION {{b} \X (1 .. Len(s[b])) : b \in Buckets}
NumberOfRows(s) == Cardinality(Places(s))
AllWhole == \A b \in Buckets : \A k \in DOMAIN out[b] : out[b][k].whole

\* verify_parquet.py, given the number of rows in the WAL: every file can be read,
\* and they have that many rows.
Verifies == AllWhole /\ NumberOfRows([b \in Buckets |-> Output(b)]) = Len(WalRows)

\* Whichever run wrote it, however the WAL has grown and whatever was killed since,
\* part k of a bucket holds rows of the k-th row group of that bucket in the WAL, in
\* order from its first one: parts of different runs never overlap.
PartsAreGroups ==
  \A b \in Buckets : \A k \in DOMAIN out[b] :
    LET group == SubSeq(BucketRows(b), k * RowGroupRows + 1, Len(BucketRows(b)))
    IN  /\ out[b][k].whole => out[b][k].rows # <<>>
        /\ Len(out[b][k].rows) <= RowGroupRows
        /\ IsPrefix(out[b][k].rows, group)

\* At every moment of a run, the parts it has written, its buffers and the rows it
\* has still to sort are the rows of the WAL it has read: none lost between
\* segments and row groups, none there twice, and no buffer longer than a row group.
NoRowBetween ==
  cpc \in Running =>
    \A b \in Buckets :
      LET written == FlattenSeq([k \in 1 .. part[b] |-> out[b][k - 1].rows])
      IN  /\ Len(buffers[b]) <= RowGroupRows
          /\ IsPrefix(written \o buffers[b] \o OfBucket(data, b), BucketRows(b))
          /\ file > 1 =>
               LET full == FlattenSeq(SubSeq(wal, 1, file - 2)) IN
               IsPrefix(OfBucket(full, b), written \o buffers[b] \o OfBucket(data, b))

\* After a run that has ended well the output is complete, whatever earlier runs
\* left there: every row that was in the WAL at its start, once and in order, as
\* many rows as the run says, and no part that cannot be read
\* (TECHNICAL_REQUIREMENTS.md:529 and 559).
DoneIsComplete ==
  cpc = "done" =>
    /\ AllWhole
    /\ total = NumberOfRows([b \in Buckets |-> Output(b)])
    /\ \A b \in Buckets :
         /\ IsPrefix(OfBucket(SubSeq(WalRows, 1, owed), b), Output(b))
         /\ IsPrefix(Output(b), BucketRows(b))

\* verify_parquet.py only counts, and that is enough: an output with as many rows as
\* the WAL, be it of one run or of several that were killed, is the WAL.
VerifiedIsTheWal ==
  Verifies => \A b \in Buckets : Output(b) = BucketRows(b)
=============================================================================
