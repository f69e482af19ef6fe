----------------------------- MODULE WalRestart -----------------------------
(***************************************************************************)
(* StorageTailer over several lives of its process on one trading day.  A  *)
(* life may end anywhere, with kill -9 or after stop(); the next one       *)
(* unlinks and creates the shared memory and starts a tailer whose segment *)
(* numbers begin at 0 again, in the same WAL directory.                    *)
(***************************************************************************)
EXTENDS StorageTailer, FiniteSetsExt

CONSTANT MaxLives  \* bound: lives of the process in a behaviour

VARIABLES lives,    \* lives begun
          promised  \* synced rows the earlier lives left (not in the code)

restartVars == <<vars, lives, promised>>

\* All rows of the directory that an fsync has covered.
SyncedRows == MapThenSumSet(LAMBDA i : files[i].synced, DOMAIN files)

\* Only the files outlive the process.
Restart ==
  /\ lives < MaxLives
  /\ lives' = lives + 1
  /\ promised' = SyncedRows
  /\ UNCHANGED files
  /\ appended' = 0 /\ durableView' = 0 /\ wpc' = "idle" /\ committed' = 0
  /\ logSeq' = [s \in Slots |-> 0]
  /\ logData' = [s \in Slots |-> Zeroed]
  /\ window' = {}
  /\ statRead' = 0 /\ durable' = 0 /\ overwrites' = 0 /\ faults' = 0
  /\ tpc' = "loop" /\ readSeq' = 0 /\ end' = 0 /\ copy' = Zeroed
  /\ buf' = <<>> /\ off' = 0
  /\ fdOpen' = FALSE /\ rowsInSegment' = 0 /\ segment' = 0 /\ faulted' = FALSE
  /\ running' = TRUE /\ mpc' = "up" /\ started' = TRUE
  /\ skipped' = {} /\ damaged' = {}

RestartInit == Init /\ lives = 1 /\ promised = 0

RestartNext == Restart \/ (Next /\ UNCHANGED <<lives, promised>>)

RestartSpec == RestartInit /\ [][RestartNext]_restartVars

-----------------------------------------------------------------------------
\* What an earlier life had made durable is still there in a later one
\* (DESIGN_SPEC.md:677: a restart loses and duplicates nothing).
DurableSurvivesRestart == SyncedRows >= promised
=============================================================================
