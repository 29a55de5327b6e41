SPECIFICATION LoopSpec
CONSTANTS
  Node = {n0}
  NumActions = 3
  ProbDen = 2
  DiscountDen = 4
  Problems <- NoProblems
  DualPointBounds = FALSE
  QValUndefined <- Undefined
  Values <- FewValues
INVARIANT Exact
PROPERTY EndsAsUseCache
CHECK_DEADLOCK FALSE
