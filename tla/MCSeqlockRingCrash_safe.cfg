\* A ring of four slots read in tiles of two, and tiles cut short, while the writer
\* may die in the middle of a tick.  A reader left spinning on the odd witness takes
\* no step, so the model may stop.
CONSTANTS
  r1 = r1
  w1 = w1
  RingCapacity = 4
  Tile = 2
  Words <- OneWord
  Readers <- OneReader
  Depths = {3, 4}
  MaxTicks = 7
SPECIFICATION CrashSpec
INVARIANTS AcceptedIsSnapshot RetryMeansLost SpinsOnlyIfLapped
CHECK_DEADLOCK FALSE
