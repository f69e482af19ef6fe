\* A day log of two records, lapped while the tailer copies from it, for what its recheck
\* of the identity is said to ensure.
CONSTANTS
  LogCapacity = 2
  FlushRows = 2
  SegmentRows = 2
  StatsStride = 2
  IngestOutlivesStop = TRUE
  MaxTicks = 4
SPECIFICATION Spec
CHECK_DEADLOCK FALSE
INVARIANTS PersistedIsWhole
