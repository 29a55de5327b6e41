SPECIFICATION FairSpec
CONSTANTS
  n0 = n0
  n1 = n1
  n2 = n2
  goal = goal
  Node <- States
  NumActions = 2
  ProbDen = 2
  DiscountDen = 4
  Problems <- ProgramProblems
  DualPointBounds = TRUE
  QValUndefined <- Undefined
  MaxRepeats = 1
  Horizon = 6
  EvaluationTrials = 7
  MaxBatches = 2
  MaxSteps = 3
  RewardUnit = 4096
  Settings <- AllCommands
  FirstSettings <- FirstCommands
  Follow <- NextCommands
  Simulators <- ProgramSimulators
  MaxBackups = 5
  MaxTime = 5
  EpochRatio = 2
  MaxProcesses = 3
INVARIANTS PolicyKept ReportsFinal ReplayExact ReweightingExact
PROPERTIES InterruptHonoured
CHECK_DEADLOCK FALSE
