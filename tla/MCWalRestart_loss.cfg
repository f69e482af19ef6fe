\* Two lives of the process on one WAL directory.
CONSTANTS
  LogCapacity = 4
  FlushRows = 2
  SegmentRows = 2
  StatsStride = 2
  IngestOutlivesStop = FALSE
  MaxTicks = 3
  MaxLives = 2
SPECIFICATION RestartSpec
CHECK_DEADLOCK FALSE
INVARIANT DurableSurvivesRestart
