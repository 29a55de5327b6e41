SPECIFICATION FairSpec
CONSTANTS
  n0 = n0
  n1 = n1
  n2 = n2
  goal = goal
  Node <- States
  NumActions = 2
  ProbDen = 2
  DiscountDen = 4
  Problems <- SoundTracks
  DualPointBounds = TRUE
  QValUndefined <- Undefined
  TargetPrecision = 8
  Value <- Values
  Horizon = 12
INVARIANT Bracket
PROPERTIES RootPrecise
CHECK_DEADLOCK FALSE
