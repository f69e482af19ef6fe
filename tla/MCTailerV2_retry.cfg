\* A day log that can be lapped, segments that rotate, and two calls that fail.
CONSTANTS
  LogCapacity = 3
  FlushRows = 2
  SegmentRows = 3
  StatsStride = 2
  MaxTicks = 4
  MaxFailures = 2
SPECIFICATION FairSpec
CHECK_DEADLOCK FALSE
INVARIANTS TypeOK UncountedIsWhole CleanRunIsExact DurableIsLegible AllPersisted
PROPERTIES Recovers StopReturns
