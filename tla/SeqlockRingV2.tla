--------------------------- MODULE SeqlockRingV2 ---------------------------
(***************************************************************************)
(* The ring and query_latest of v2_opus.  MdStore::on_md publishes a tick  *)
(* with the stores of SeqlockRing, in the same order and with the same     *)
(* fence.  The query has no tiles: it reads every slot on its own, waits   *)
(* while the witness is odd, refuses at a newer even one, and counts in    *)
(* QueryStats.retries the slots it accepts after a retry.  In terms of     *)
(* SeqlockRing there is one tile, of RingCapacity slots, and no pass A, B  *)
(* or C.                                                                   *)
(***************************************************************************)
EXTENDS SeqlockRing

ASSUME OneTile == Tile = RingCapacity

VARIABLES retried,  \* its local: this slot needed another look
          retries   \* QueryStats.retries of each reader

v2Vars == <<vars, retried, retries>>

\* The local is set back for every slot.
NextSlot(r) == retried' = [retried EXCEPT ![r] = FALSE]
LookAgain(r) == retried' = [retried EXCEPT ![r] = TRUE]

\* on_md: the log is appended to before and committed after, by other variables.
Publish == (Tick \/ Perform) /\ UNCHANGED <<retried, retries>>

\* One of the records asked for is read after the other, oldest first.
LoadWriteSeq(r) ==
  /\ pc[r] = "head"
  /\ snap' = [snap EXCEPT ![r] = writeSeq]
  /\ pc' = [pc EXCEPT ![r] = IF writeSeq = 0 THEN "ok" ELSE "slot"]
  /\ NextSlot(r)
  /\ UNCHANGED <<writerVars, memoryVars, depth, base, cursor, ver, out, recheck, retries>>

\* The first look: the witness expected, ...
TakeWitness(r) == SlotWitness(r) /\ UNCHANGED <<retried, retries>>

\* ... a newer one, ...
Refuse(r) == SlotOverwritten(r) /\ UNCHANGED <<retried, retries>>

\* ... or an odd one.  To spin again changes nothing.
SpinOdd(r) ==
  /\ pc[r] = "slot" /\ ~retried[r]
  /\ seq[SlotAt(r, cursor[r])] % 2 = 1
  /\ LookAgain(r)
  /\ UNCHANGED <<vars, retries>>

\* The copy, and after the fence the second look.
CopySlot(r) == pc[r] = "copy" /\ CopyWord(r) /\ UNCHANGED <<retried, retries>>

AnyWitness(r) == TRUE               \* mutant: s2 is not compared
SameWitness(r) == seq[SlotAt(r, cursor[r])] = ver[r][cursor[r]]

Changed(r) ==
  /\ pc[r] = "recheck" /\ ~SameWitness(r)
  /\ pc' = [pc EXCEPT ![r] = "slot"]
  /\ LookAgain(r)
  /\ UNCHANGED <<writerVars, memoryVars, depth, snap, base, cursor, ver, out, recheck,
                 retries>>

Accept(r) ==
  /\ pc[r] = "recheck" /\ SameWitness(r)
  /\ cursor' = [cursor EXCEPT ![r] = cursor[r] + 1]
  /\ pc' = [pc EXCEPT ![r] = IF cursor[r] + 1 < Count(r) THEN "slot" ELSE "ok"]
  /\ retries' = [retries EXCEPT ![r] = @ + IF retried[r] THEN 1 ELSE 0]
  /\ NextSlot(r)
  /\ UNCHANGED <<writerVars, memoryVars, depth, snap, base, ver, out, recheck>>

QueryLatest(r) ==
  \/ LoadWriteSeq(r) \/ TakeWitness(r) \/ Refuse(r) \/ SpinOdd(r)
  \/ CopySlot(r) \/ Changed(r) \/ Accept(r)

\* A reader passes the QueryStats of its last query on.
Caller(r) == (Call(r) \/ Return(r)) /\ NextSlot(r) /\ UNCHANGED retries

InitV2 ==
  /\ Init
  /\ retried = [r \in Readers |-> FALSE]
  /\ retries = [r \in Readers |-> 0]

NextV2 == Publish \/ \E r \in Readers : Caller(r) \/ QueryLatest(r)

SpecV2 == InitV2 /\ [][NextV2]_v2Vars

\* As in SeqlockRing.
FairSpecV2 ==
  /\ SpecV2
  /\ WF_v2Vars(Perform /\ UNCHANGED <<retried, retries>>)
  /\ \A r \in Readers : WF_v2Vars(QueryLatest(r))

-----------------------------------------------------------------------------
\* A slot that needed a second look is lost: it was stable when write_seq was
\* loaded, so an odd or a changed witness belongs to a later lap.  The query ends
\* with kErrOverwritten, and QueryStats.retries, "slots that needed at least one
\* seqlock retry" (v2_opus/reader.h:17), never leaves 0.
RetriedIsLost ==
  \A r \in Readers :
    /\ retried[r] => Lapped(r)
    /\ retries[r] = 0

\* Why: a query goes slot by slot with its one tile at 0, and looks a second time only
\* at the slot of a later lap, which it never accepts.
RetryInv(r) ==
  /\ base[r] = 0 /\ pc[r] \notin {"passA", "passB", "passC"}
  /\ pc[r] = "overwritten" => Overrun(r)
  /\ retried[r] => Lapped(r)
  /\ retries[r] = 0

RingInvV2 ==
  /\ RingInv /\ HeadsCounted
  /\ retried \in [Readers -> BOOLEAN] /\ retries \in [Readers -> Nat]
  /\ \A r \in Readers : RetryInv(r)
=============================================================================
