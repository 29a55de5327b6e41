SPECIFICATION RaceSpec
CONSTANTS
  NumActions = 9
  ProbDen = 80
  ErrorProb = 8
  DiscountDen = 2
  Unit = 1024
  Iterations = 14
  Problems <- DiscountedRacetracks
  Relaxed <- RelaxedValues
  MinusInfinity <- Minus
  TargetPrecision = 1
  MaxMove = 6
PROPERTY Ends
CHECK_DEADLOCK FALSE
