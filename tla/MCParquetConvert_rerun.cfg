\* Row groups across segments, a WAL that grows meanwhile, three runs that may die.
CONSTANTS
  Buckets = {0, 1}
  RowGroupRows = 2
  SegmentRows = 3
  MaxRows = 6
  MaxRuns = 3
SPECIFICATION Spec
CHECK_DEADLOCK FALSE
INVARIANTS PartsAreGroups NoRowBetween DoneIsComplete VerifiedIsTheWal
