SPECIFICATION Spec
CONSTANTS
  State <- States
  Belief <- GameBeliefs
  NumActions = 4
  Observation = {0, 1}
  NoBelief = NoBelief
  Den = 2
  Problems <- AllProblems
  Pomdps <- AllPomdps
  PruneIncrement = 1
  MaxIters = 40
  MaxBackups = 5
  Policies <- AllPolicies
  Horizon = 2
INVARIANTS NodesAreBacked UpperBoundSound
PROPERTIES BoundNeverRises
CHECK_DEADLOCK FALSE
