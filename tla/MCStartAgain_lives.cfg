\* A day log of two records, lapped while the tailer reads it, in two lives of the
\* process, killed or stopped and started again, on one WAL directory.
CONSTANTS
  LogCapacity = 2
  FlushRows = 2
  SegmentRows = 2
  StatsStride = 2
  IngestOutlivesStop = TRUE
  MaxTicks = 4
  MaxLives = 2
SPECIFICATION AgainSpec
CHECK_DEADLOCK FALSE
INVARIANTS DurableIsOnDisk LossesAreCounted CutIsClean
