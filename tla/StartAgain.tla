----------------------------- MODULE StartAgain -----------------------------
(***************************************************************************)
(* WalRestart, with start() called again after stop() on the same DemoMd.  *)
(* create() empties the shared memory and a new tailer reads from 0, but   *)
(* global_seq_ and durable_view_ go on: the log begins at a record base,   *)
(* and the tailer finds zeroed or other slots in place of those before.    *)
(***************************************************************************)
EXTENDS WalRestart

VARIABLE base  \* global_seq_ when start() was called (not in the code)

againVars == <<restartVars, base>>

\* What create() and the new tailer begin with.
EmptyStore ==
  /\ committed' = 0
  /\ logSeq' = [s \in Slots |-> 0]
  /\ logData' = [s \in Slots |-> Zeroed]
  /\ window' = {}
  /\ statRead' = 0 /\ durable' = 0 /\ overwrites' = 0 /\ faults' = 0
NewTailer ==
  /\ tpc' = "loop" /\ readSeq' = 0 /\ end' = 0 /\ copy' = Zeroed
  /\ buf' = <<>> /\ off' = 0
  /\ fdOpen' = FALSE /\ rowsInSegment' = 0 /\ segment' = 0 /\ faulted' = FALSE
  /\ skipped' = {} /\ damaged' = {}

\* No on_md is on its way when the memory it stores to goes.
Again ==
  /\ mpc = "down" /\ wpc = "idle"
  /\ lives < MaxLives
  /\ lives' = lives + 1
  /\ promised' = SyncedRows
  /\ base' = appended
  /\ EmptyStore /\ NewTailer
  /\ running' = TRUE /\ mpc' = "up" /\ started' = TRUE
  /\ UNCHANGED <<appended, durableView, wpc, files>>

AgainInit == RestartInit /\ base = 0

AgainNext ==
  \/ Again
  \/ Restart /\ base' = 0
  \/ Next /\ UNCHANGED <<lives, promised, base>>

AgainSpec == AgainInit /\ [][AgainNext]_againVars

-----------------------------------------------------------------------------
\* A record of this start that was read is on disk or buffered, whole, or a lap has lost
\* it, and log_overwrite_count has counted that: in on_md, and once more in the tailer if
\* it found the record overwritten.  The numbers an earlier start used up were never in
\* this log; the tailer counts them as overwritten, too.  The guard, though its view of
\* durable_seq may date from before stop(), counts every tick that overwrites a record
\* before it is on disk.
LossesAreCounted ==
  /\ \A p \in window : p < readSeq => OnDisk(p) \/ Buffered(p) \/ p \in Lost
  /\ Cardinality(skipped) + Cardinality({p \in Lost : p >= base}) <= overwrites
  /\ \/ appended - base <= LogCapacity + overwrites
     \/ appended - durable <= LogCapacity + overwrites
=============================================================================
