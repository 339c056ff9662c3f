\* Two arms and five names; five passes of a board over six decompositions.
SPECIFICATION AllSpec
CONSTANTS
  Arm = {a1, a2}
  Brief = {"b1", "b2"}
  Role <- MCRole
  Delegates <- MCDelegates
  Registered <- MCRole
  Scripts <- MCScripts
  Extends <- MCExtends
  Batches <- MCBatches
  Capacity = 1
  MaxSpawns = 2
  TaskIds = {1, 2, 3}
  Statements = {"goal", "lemma", "bound"}
  Goal = "goal"
  Roster <- MCRoster
  Decompositions <- MCDecompositions
  PlanInterval = 2
  MaxPasses = 5
INVARIANTS
  NthEntryForNthSpawn
  OneOutcomePerTicket
  TwinsAgree
  NoTaskWaits
PROPERTY PlanKeepsProgress
CHECK_DEADLOCK FALSE
