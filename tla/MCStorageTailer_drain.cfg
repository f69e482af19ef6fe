\* A day log that may be lapped, every kind of WAL failure, and the end of stop().
CONSTANTS
  LogCapacity = 3
  FlushRows = 2
  SegmentRows = 3
  StatsStride = 2
  IngestOutlivesStop = FALSE
  MaxTicks = 5
SPECIFICATION FairSpec
CHECK_DEADLOCK FALSE
INVARIANTS TailerInv WalIsOrdered OverwritesAreCounted AllPersisted
PROPERTIES FailsClosed EventuallyDurable ImplementsDurableLog
