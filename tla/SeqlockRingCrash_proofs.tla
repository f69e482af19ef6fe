----------------------- MODULE SeqlockRingCrash_proofs -----------------------
(***************************************************************************)
(* Theorems about SeqlockRingCrash.  To its readers a writer that died is  *)
(* a writer that is slow: count the stores it never executed among those   *)
(* that are still to become visible, and every behaviour is one of         *)
(* SeqlockRing, whose theorems then hold of it.                            *)
(***************************************************************************)
EXTENDS SeqlockRingCrash, TLAPS

Live == INSTANCE SeqlockRing_proofs WITH pending <- pending \cup unexecuted

USE RingAssumption

-----------------------------------------------------------------------------
(* What the dead writer has left undone.                                   *)

\* The stores never executed are the end of the newest tick, and none of them
\* is on its way to memory.
DeathInv ==
  /\ issued \in Nat
  /\ pending \subseteq IssuedStores
  /\ unexecuted \cap pending = {}
  /\ unexecuted \subseteq IssuedStores
  /\ IsUnexecuted(unexecuted)
  /\ alive => unexecuted = {}

\* No store that is on its way is ordered behind one that was never executed.
LEMMA NotBehindDeath ==
  ASSUME DeathInv, NEW a \in pending, NEW b \in unexecuted
  PROVE  a \notin unexecuted /\ ~OrderedBefore(b, a)
<1>1. a \notin unexecuted
  BY DEF DeathInv
<1>2. b.pos = issued - 1 /\ a.pos \in 0 .. issued - 1 /\ a.kind \in Kinds
  <2>1. a \in IssuedStores
    BY DEF DeathInv
  <2>2. issued >= 1
    BY <2>1 DEF DeathInv, IssuedStores
  <2>3. Store(issued - 1, "odd") \in StoresOf(issued - 1)
    BY DEF StoresOf, Kinds
  <2> QED
    BY <2>1, <2>3 DEF DeathInv, IssuedStores, IsUnexecuted
<1>3. ASSUME ProgramBefore(b, a)
      PROVE  FALSE
  <2>1. a.pos = issued - 1
    BY <1>2, <1>3 DEF ProgramBefore, DeathInv
  <2>2. a = Store(a.pos, a.kind)
    BY DEF DeathInv, IssuedStores, Store
  <2>3. a \in StoresOf(issued - 1)
    BY <1>2, <2>1, <2>2 DEF StoresOf
  <2> QED
    BY <1>1, <1>3, <2>3 DEF DeathInv, IsUnexecuted
<1> QED
  BY <1>1, <1>3 DEF OrderedBefore

\* So it is performed as if the writer were only slow.
LEMMA PerformableAlike ==
  ASSUME DeathInv, NEW a \in pending, Performable(a)
  PROVE  /\ a \in pending \cup unexecuted
         /\ Live!Performable(a)
         /\ (pending \ {a}) \cup unexecuted = (pending \cup unexecuted) \ {a}
<1>1. \A b \in pending \cup unexecuted : ~OrderedBefore(b, a)
  BY NotBehindDeath DEF Performable
<1>2. \A b \in pending \cup unexecuted : Live!OrderedBefore(b, a) <=> OrderedBefore(b, a)
  BY DEF Live!OrderedBefore, OrderedBefore, Live!ProgramBefore, ProgramBefore,
     Live!SameLocation, SameLocation, Live!SlotOf, SlotOf, Live!IsRelease, IsRelease,
     Live!Epoch, Epoch
<1>3. Live!Performable(a)
  BY <1>1, <1>2 DEF Live!Performable
<1>4. a \notin unexecuted
  BY DEF DeathInv
<1> QED
  BY <1>3, <1>4

-----------------------------------------------------------------------------
(* The steps.                                                              *)

\* The writer's death is no step of the ring.
LEMMA CrashStutters ==
  ASSUME DeathInv, Crash
  PROVE  UNCHANGED Live!vars /\ DeathInv'
<1>1. PICK lost \in SUBSET pending :
        IsUnexecuted(lost) /\ pending' = pending \ lost /\ unexecuted' = lost
  BY DEF Crash
<1>2. pending' \cup unexecuted' = pending \cup unexecuted
  BY <1>1 DEF Crash, DeathInv
<1>3. issued' = issued /\ UNCHANGED <<memoryVars, readerVars>>
  BY DEF Crash
<1>4. UNCHANGED Live!vars
  BY <1>2, <1>3 DEF Live!vars, Live!writerVars, Live!memoryVars, Live!readerVars, memoryVars,
     readerVars
<1>5. DeathInv'
  BY <1>1, <1>3 DEF DeathInv, Crash, IsUnexecuted, IssuedStores
<1> QED
  BY <1>4, <1>5

\* The writer ticks only while it lives.
LEMMA TickAlike ==
  ASSUME DeathInv, alive, Tick, UNCHANGED <<alive, unexecuted>>
  PROVE  Live!Tick /\ DeathInv'
<1>1. unexecuted = {} /\ unexecuted' = {}
  BY DEF DeathInv
<1>2. Live!StoresOf(issued) = StoresOf(issued)
  BY DEF Live!StoresOf, StoresOf, Live!Kinds, Kinds, Live!Store, Store
<1>3. Live!Tick
  BY <1>1, <1>2 DEF Live!Tick, Tick, Live!memoryVars, memoryVars, Live!readerVars, readerVars
<1>4. DeathInv'
  BY <1>1 DEF DeathInv, Tick, IssuedStores, StoresOf, Store, IsUnexecuted
<1> QED
  BY <1>3, <1>4

\* What it has executed becomes visible after its death too.
LEMMA PerformAlike ==
  ASSUME DeathInv, Perform, UNCHANGED <<alive, unexecuted>>
  PROVE  Live!Perform /\ DeathInv'
<1>1. PICK a \in pending : Performable(a) /\ pending' = pending \ {a} /\ issued' = issued
  BY DEF Perform, PerformOdd, PerformWord, PerformEven, PerformHead
<1>2. DeathInv'
  BY <1>1 DEF DeathInv, IssuedStores, IsUnexecuted
<1> USE DEF Live!readerVars, readerVars, Live!SlotOf, SlotOf
<1>3. CASE PerformOdd
  <2>1. PICK b \in pending :
          /\ b.kind = "odd" /\ Performable(b) /\ pending' = pending \ {b}
          /\ seq' = [seq EXCEPT ![SlotOf(b.pos)] = OddSeq(b.pos)]
          /\ UNCHANGED <<issued, word, writeSeq, readerVars>>
    BY <1>3 DEF PerformOdd
  <2>2. Live!PerformOdd
    BY <2>1, PerformableAlike
       DEF Live!PerformOdd, Live!OddSeq, OddSeq, Live!StableSeq, StableSeq
  <2> QED
    BY <1>2, <2>2 DEF Live!Perform
<1>4. CASE PerformWord
  <2>1. PICK b \in pending :
          /\ b.kind \in Words /\ Performable(b) /\ pending' = pending \ {b}
          /\ word' = [word EXCEPT ![SlotOf(b.pos)][b.kind] = b.pos]
          /\ UNCHANGED <<issued, seq, writeSeq, readerVars>>
    BY <1>4 DEF PerformWord
  <2>2. Live!PerformWord
    BY <2>1, PerformableAlike DEF Live!PerformWord
  <2> QED
    BY <1>2, <2>2 DEF Live!Perform
<1>5. CASE PerformEven
  <2>1. PICK b \in pending :
          /\ b.kind = "even" /\ Performable(b) /\ pending' = pending \ {b}
          /\ seq' = [seq EXCEPT ![SlotOf(b.pos)] = StableSeq(b.pos)]
          /\ UNCHANGED <<issued, word, writeSeq, readerVars>>
    BY <1>5 DEF PerformEven
  <2>2. Live!PerformEven
    BY <2>1, PerformableAlike DEF Live!PerformEven, Live!StableSeq, StableSeq
  <2> QED
    BY <1>2, <2>2 DEF Live!Perform
<1>6. CASE PerformHead
  <2>1. PICK b \in pending :
          /\ b.kind = "head" /\ Performable(b) /\ pending' = pending \ {b}
          /\ writeSeq' = b.pos + 1
          /\ UNCHANGED <<issued, seq, word, readerVars>>
    BY <1>6 DEF PerformHead
  <2>2. Live!PerformHead
    BY <2>1, PerformableAlike DEF Live!PerformHead
  <2> QED
    BY <1>2, <2>2 DEF Live!Perform
<1> QED
  BY <1>2, <1>3, <1>4, <1>5, <1>6 DEF Perform

\* A query does not look at the writer.
LEMMA QueryAlike ==
  ASSUME DeathInv, UNCHANGED <<alive, unexecuted>>,
         NEW r \in Readers, Call(r) \/ Query(r) \/ Return(r)
  PROVE  (Live!Call(r) \/ Live!Query(r) \/ Live!Return(r)) /\ DeathInv'
<1>1. UNCHANGED writerVars
  BY DEF Call, Return, Query, LoadHead, LoadWitness, CopyWord, LoadRecheck, AcceptTile,
     FallBack, TileOverwritten, SlotWitness, SlotOverwritten, SlotRetry, SlotAccept
<1>2. DeathInv'
  BY <1>1 DEF DeathInv, writerVars, IssuedStores, IsUnexecuted
<1>3. UNCHANGED Live!writerVars
  BY <1>1 DEF writerVars, Live!writerVars
<1> USE <1>1, <1>2, <1>3 DEF Live!memoryVars, memoryVars
<1>4. CASE Call(r)
  BY <1>4 DEF Call, Live!Call
<1>5. CASE Return(r)
  BY <1>5 DEF Return, Live!Return, NoWitness, Live!NoWitness, NoCopy, Live!NoCopy,
     NotRead, Live!NotRead, Indices, Live!Indices
<1>6. CASE LoadHead(r)
  BY <1>6 DEF LoadHead, Live!LoadHead, CountOf, Live!CountOf, Live!Query
<1> USE DEF TileAt, Live!TileAt, Indices, Live!Indices, Count, Live!Count, CountOf,
        Live!CountOf, NotRead, Live!NotRead, SlotAt, Live!SlotAt, Position, Live!Position,
        Start, Live!Start, SlotOf, Live!SlotOf
<1>7. CASE LoadWitness(r)
  BY <1>7 DEF LoadWitness, Live!LoadWitness, Live!Query
<1>8. CASE CopyWord(r)
  BY <1>8 DEF CopyWord, Live!CopyWord, Live!Query
<1>9. CASE LoadRecheck(r)
  BY <1>9 DEF LoadRecheck, Live!LoadRecheck, Live!Query
<1> USE DEF Judging, Live!Judging, Accepted, Live!Accepted, Unstable, Live!Unstable, Newer,
        Live!Newer, FirstBad, Live!FirstBad, StableSeq, Live!StableSeq
<1>10. CASE AcceptTile(r)
  BY <1>10 DEF AcceptTile, Live!AcceptTile, EndTile, Live!EndTile, NoWitness,
     Live!NoWitness, Live!Query
<1>11. CASE FallBack(r)
  BY <1>11 DEF FallBack, Live!FallBack, Live!Query
<1>12. CASE TileOverwritten(r)
  BY <1>12 DEF TileOverwritten, Live!TileOverwritten, Live!Query
<1>13. CASE SlotWitness(r)
  BY <1>13 DEF SlotWitness, Live!SlotWitness, Live!Query
<1>14. CASE SlotOverwritten(r)
  BY <1>14 DEF SlotOverwritten, Live!SlotOverwritten, Live!Query
<1>15. CASE SlotRetry(r)
  BY <1>15 DEF SlotRetry, Live!SlotRetry, Live!Query
<1>16. CASE SlotAccept(r)
  BY <1>16 DEF SlotAccept, Live!SlotAccept, EndTile, Live!EndTile, NoWitness,
     Live!NoWitness, Live!Query
<1> QED
  BY <1>2, <1>4, <1>5, <1>6, <1>7, <1>8, <1>9, <1>10, <1>11, <1>12, <1>13, <1>14, <1>15,
     <1>16 DEF Query

\* Every step of the ring with a mortal writer is a step of the ring, or none.
LEMMA StepAlike ==
  ASSUME DeathInv, [CrashNext]_crashVars
  PROVE  [Live!Next]_(Live!vars) /\ DeathInv'
<1>1. CASE Crash
  BY <1>1, CrashStutters
<1>2. CASE Runs /\ UNCHANGED <<alive, unexecuted>>
  BY <1>2, TickAlike, PerformAlike, QueryAlike DEF Runs, Live!Next
<1>3. CASE UNCHANGED crashVars
  <2>1. UNCHANGED Live!vars
    BY <1>3 DEF crashVars, vars, writerVars, memoryVars, readerVars, Live!vars,
       Live!writerVars, Live!memoryVars, Live!readerVars
  <2>2. DeathInv'
    BY <1>3 DEF crashVars, vars, writerVars, DeathInv, IssuedStores, IsUnexecuted
  <2> QED
    BY <2>1, <2>2
<1> QED
  BY <1>1, <1>2, <1>3 DEF CrashNext

\* It begins as the ring does.
LEMMA BeginsAlike ==
  ASSUME CrashInit
  PROVE  Live!Init /\ DeathInv
<1>1. DeathInv
  BY DEF CrashInit, Init, DeathInv, IsUnexecuted
<1>2. Live!Init
  BY DEF CrashInit, Init, Live!Init, Slots, Live!Slots, Zeroed, Live!Zeroed, NoWitness,
     Live!NoWitness, NoCopy, Live!NoCopy, Indices, Live!Indices, NotRead, Live!NotRead
<1> QED
  BY <1>1, <1>2

-----------------------------------------------------------------------------
(* The theorems.                                                           *)

\* A ring whose writer is killed in the middle of on_md behaves, to every strategy
\* process, as one whose writer has only not gone on yet.
THEOREM DeathIsSlowness == CrashSpec => Live!Spec
<1>1. CrashInit => Live!Init /\ DeathInv
  BY BeginsAlike
<1>2. DeathInv /\ [CrashNext]_crashVars => [Live!Next]_(Live!vars) /\ DeathInv'
  BY StepAlike
<1> QED
  BY <1>1, <1>2, PTL DEF CrashSpec, Live!Spec

\* A query never accepts what a dead writer left half written.
THEOREM NoTornRecordsAfterDeath == CrashSpec => []AcceptedIsSnapshot
<1>1. Live!AcceptedIsSnapshot <=> AcceptedIsSnapshot
  BY DEF Live!AcceptedIsSnapshot, AcceptedIsSnapshot, Live!Indices, Indices, Live!Count,
     Count, Live!CountOf, CountOf, Live!Position, Position, Live!Start, Start
<1>2. Live!Spec => []Live!AcceptedIsSnapshot
  BY Live!NoTornRecords DEF RingAssumption
<1> QED
  BY <1>1, <1>2, DeathIsSlowness, PTL

\* A tile that falls back has lost its record to a later lap, death or no death.
THEOREM FallbacksAreLostAfterDeath == CrashSpec => []RetryMeansLost
<1>1. Live!RetryMeansLost <=> RetryMeansLost
  BY DEF Live!RetryMeansLost, RetryMeansLost, Live!Lapped, Lapped, Live!Count, Count,
     Live!CountOf, CountOf, Live!SlotAt, SlotAt, Live!SlotOf, SlotOf, Live!Position,
     Position, Live!Start, Start, Live!StableSeq, StableSeq
<1>2. Live!Spec => []Live!RetryMeansLost
  BY Live!FallbacksAreLost DEF RingAssumption
<1> QED
  BY <1>1, <1>2, DeathIsSlowness, PTL

\* A slot a dead writer left in progress holds up only a query that asked for the
\* record it was overwriting.
THEOREM OnlyLappedQueriesHang == CrashSpec => []SpinsOnlyIfLapped
<1>1. Live!RingInv => SpinsOnlyIfLapped
  <2> SUFFICES ASSUME Live!RingInv, NEW r \in Readers, pc[r] = "slot",
                      seq[SlotAt(r, cursor[r])] % 2 = 1
               PROVE  Overrun(r)
    BY DEF SpinsOnlyIfLapped
  <2>1. Live!SlotAt(r, cursor[r]) = SlotAt(r, cursor[r])
    BY DEF Live!SlotAt, SlotAt, Live!SlotOf, SlotOf, Live!Position, Position, Live!Start,
       Start, Live!Count, Count, Live!CountOf, CountOf
  <2>2. Live!Overrun(r)
    BY <2>1, Live!OddIsLapped DEF RingAssumption
  <2> QED
    BY <2>2 DEF Live!Overrun, Overrun, Live!Count, Count, Live!CountOf, CountOf
<1>2. Live!Spec => []Live!RingInv
  BY Live!RingInvariant DEF RingAssumption
<1> QED
  BY <1>1, <1>2, DeathIsSlowness, PTL

\* Nor does it break the promise to the callers: with a mortal writer too, every
\* query is an atomic snapshot or a refusal the writer has earned.
THEOREM DeathKeepsLatestN == CrashSpec => Abstract!Spec
<1>1. Live!Spec => Live!Abstract!Spec
  BY Live!RingImplementsLatestN DEF RingAssumption
<1>2. Live!Abstract!Init <=> Abstract!Init
  BY DEF Live!Abstract!Init, Abstract!Init, Live!Phase, Phase, Live!Copied, Copied,
     Live!IsCopyOf, IsCopyOf, Live!Count, Count,
     Live!CountOf, CountOf, Live!NotRead, NotRead, Live!Abstract!NoAnswer,
     Abstract!NoAnswer
<1>3. [Live!Abstract!Next]_(Live!Abstract!vars) <=> [Abstract!Next]_(Abstract!vars)
  BY DEF Live!Phase, Phase, Live!Copied, Copied, Live!IsCopyOf, IsCopyOf, Live!Count, Count,
     Live!CountOf, CountOf, Live!NotRead, NotRead, Live!Abstract!NoAnswer,
     Abstract!NoAnswer,
     Live!Abstract!vars, Abstract!vars, Live!Abstract!Next, Abstract!Next,
     Live!Abstract!Begin, Abstract!Begin, Live!Abstract!Publish, Abstract!Publish,
     Live!Abstract!Ask, Abstract!Ask, Live!Abstract!Settle, Abstract!Settle,
     Live!Abstract!Take, Abstract!Take, Live!Abstract!Answer, Abstract!Answer,
     Live!Abstract!Refuse, Abstract!Refuse, Live!Abstract!Return, Abstract!Return,
     Live!Abstract!CountOf, Abstract!CountOf, Live!Abstract!Latest, Abstract!Latest
<1> QED
  BY <1>1, <1>2, <1>3, DeathIsSlowness, PTL DEF Abstract!Spec, Live!Abstract!Spec
=============================================================================
