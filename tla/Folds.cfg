\* Three arms in every finishing order; every stream of four proposals.
SPECIFICATION AllSpec
CONSTANTS
  MaxU32 = 8
  MaxU64 = 10
  CallsPerTurn = 2
  ArmName = {"reflect", "judge", "tune"}
  Arms <- MCArms
  Concluders = {1}
  Tuners = {3}
  Bases <- MCBases
  Moves <- MCMoves
  BoundsSets <- MCBoundsSets
  Budgets <- MCBudgets
  StartThresholds <- MCThresholds
  Proposals <- MCProposals
INVARIANTS
  OrderIndependent
  Linearizes
  ExclusiveNarrative
  WithinEveryBound
  NarrowNeverFails
  HistoryExplainsProfile
CHECK_DEADLOCK FALSE
