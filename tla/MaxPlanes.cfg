SPECIFICATION FairSpec
CONSTANTS
  State <- States
  Belief <- Beliefs
  NumActions = 4
  Observation = {0, 1}
  NoBelief = NoBelief
  Den = 2
  Problems <- AllProblems
  Pomdps <- AllPomdps
  Configs <- AllConfigs
  Ceiling <- AllCeilings
  Leftovers <- Ages
  PruneIncrement = 1
  MaxBackups = 4
  Horizon = 3
INVARIANTS HeapSound BoundIsKept CacheIsBest LowerBoundSound PolicyDelivers
PROPERTIES PruneEnds
CHECK_DEADLOCK FALSE
