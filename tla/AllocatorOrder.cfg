SPECIFICATION HSpec
CONSTANTS
  Low = 1
  High = 4
INVARIANT WaitersAhead
PROPERTY PoolSpec
PROPERTY NoEarlyReuse
