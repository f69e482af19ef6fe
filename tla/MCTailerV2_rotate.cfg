\* One call that fails.
CONSTANTS
  LogCapacity = 8
  FlushRows = 2
  SegmentRows = 3
  StatsStride = 2
  MaxTicks = 4
  MaxFailures = 1
SPECIFICATION Spec
CHECK_DEADLOCK FALSE
INVARIANTS DurableIsSynced
