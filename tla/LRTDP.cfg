SPECIFICATION FairSpec
CONSTANTS
  n0 = n0
  n1 = n1
  n2 = n2
  goal = goal
  Node <- States
  NumActions = 2
  ProbDen = 2
  DiscountDen = 4
  Problems <- CyclicTracks
  DualPointBounds = FALSE
  QValUndefined <- Undefined
  TargetPrecision = 1
  MaxRepeats = 1
  Horizon = 12
INVARIANTS SolvedSound CheckSound PolicyStaysSolved RegretBounded
PROPERTIES ImplementsLabels RootSolved
CHECK_DEADLOCK FALSE
