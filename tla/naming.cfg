SPECIFICATION FairSpec
CONSTANTS
  Granule = 7
  Resolution = 1
  Largest = 24
  Slack = 1
  MaxTime = 3
  MaxFiles = 3
  MaxLives = 2
INVARIANTS TypeOK ResolutionFits AdjustmentsTold
PROPERTIES SortsLast NamingEnds
CHECK_DEADLOCK FALSE
