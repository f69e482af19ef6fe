-------------------------- MODULE SeqlockRingCrash --------------------------
(***************************************************************************)
(* SeqlockRing with a writer process that may die in the middle of on_md.  *)
(* The shared memory outlives it, with the slot it was filling left as it  *)
(* is, and strategy processes go on querying.                              *)
(***************************************************************************)
EXTENDS SeqlockRing

VARIABLES alive,      \* whether the writer process still runs
          unexecuted  \* stores of its last tick it never got to (not in the code)

crashVars == <<vars, alive, unexecuted>>

\* Whether the writer may die with the stores of "lost" never executed: they
\* are the end of its newest tick.
IsUnexecuted(lost) ==
  \A a \in lost, b \in StoresOf(issued - 1) :
    a.pos = issued - 1 /\ (ProgramBefore(a, b) => b \in lost)

\* The writer is killed; what it has executed still becomes visible.
Crash ==
  /\ alive
  /\ \E lost \in SUBSET pending :
       /\ IsUnexecuted(lost)
       /\ pending' = pending \ lost
       /\ unexecuted' = lost
  /\ alive' = FALSE
  /\ UNCHANGED <<issued, memoryVars, readerVars>>

CrashInit == Init /\ alive = TRUE /\ unexecuted = {}

\* A dead writer executes no more.
Runs ==
  \/ alive /\ Tick
  \/ Perform
  \/ \E r \in Readers : Call(r) \/ Query(r) \/ Return(r)

CrashNext ==
  \/ Crash
  \/ Runs /\ UNCHANGED <<alive, unexecuted>>

CrashSpec == CrashInit /\ [][CrashNext]_crashVars

-----------------------------------------------------------------------------
\* The only queries a dead writer can hang are those that asked for the record
\* whose slot it was filling: with fewer records than the ring leaves headroom
\* for, a query never waits for a slot left in progress.
SpinsOnlyIfLapped ==
  \A r \in Readers :
    pc[r] = "slot" /\ seq[SlotAt(r, cursor[r])] % 2 = 1 => Overrun(r)
=============================================================================
