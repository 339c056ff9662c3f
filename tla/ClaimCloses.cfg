\* A re-plan states an open task as abandoned, and it stays open.
SPECIFICATION ClaimSpec
CONSTANTS
  Arm = {a1, a2}
  Brief = {"b1", "b2"}
  Role <- MCRole
  Delegates <- MCDelegates
  Registered <- MCRole
  Scripts <- MCScripts
  Extends <- MCExtends
  Batches <- MCBatches
  Capacity = 1
  MaxSpawns = 2
  TaskIds = {1, 2, 3}
  Statements = {"goal", "lemma", "bound"}
  Goal = "goal"
  Roster <- MCRoster
  Decompositions <- MCDecompositions
  PlanInterval = 2
  MaxPasses = 5
INVARIANT ReplanCloses
CHECK_DEADLOCK FALSE
