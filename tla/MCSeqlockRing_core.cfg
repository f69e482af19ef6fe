\* A ring of two slots, torn two ways, lapped twice, against what a query promises
\* with the tiles of demo.cpp's readers and slot by slot as in v2_opus.
CONSTANTS
  r1 = r1
  w1 = w1
  w2 = w2
  RingCapacity = 2
  Tile = 2
  Words <- TwoWords
  Readers <- OneReader
  Depths = {1, 3}
  MaxTicks = 6
SPECIFICATION FairSpecBoth
INVARIANTS RingInv OverwrittenIsGenuine PublishedIsReadable RetriedIsLost
PROPERTIES NeverBackwards ImplementsLatestN QueriesFinish
