SPECIFICATION FairSpec
CONSTANTS
  n0 = n0
  n1 = n1
  n2 = n2
  goal = goal
  Node <- States
  NumActions = 2
  ProbDen = 2
  DiscountDen = 4
  Problems <- ScaledTracks
  DualPointBounds = TRUE
  QValUndefined <- Undefined
  TargetPrecision = 6
  InitMaxDepth = 70
  DepthCap = 6
  PrioScale = 256
  Horizon = 12
INVARIANTS PrioSound PolicyKeepsLowerBound
PROPERTIES RootPrecise
CHECK_DEADLOCK FALSE
