SPECIFICATION FairSpec
CONSTANTS
  Flows = {f1, f2}
  Paths = {p, q}
  NoPath = NoPath
  NoTrans = NoTrans
  Capacity = 2
  Needed = 2
  SplitUp = TRUE
  MaxFlags = 1
INVARIANTS
  Outstanding
  PredictionIsRight
  RewardsAreFresh
PROPERTIES
  WaitEnds
  RestartIsHeard
CHECK_DEADLOCK FALSE
