SPECIFICATION RaceSpec
CONSTANTS
  NumActions = 9
  ProbDen = 80
  ErrorProb = 8
  DiscountDen = 2
  Unit = 1
  Iterations = 14
  Problems <- Racetracks
  Relaxed <- RelaxedValues
  MinusInfinity <- Minus
  TargetPrecision = 1
  MaxMove = 6
INVARIANTS Enclosed LineExact
PROPERTIES Ends WayIsOpen
CHECK_DEADLOCK FALSE
