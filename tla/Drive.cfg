\* Four passes of the loop with the shipped tuner, over every history of six reports.
SPECIFICATION JournalSpec
CONSTANTS
  MaxU32 = 9
  MaxU64 = 9
  CallsPerTurn = 2
  ArmName = {"reflect", "judge", "tune"}
  Reports <- MCReports
  StartThresholds <- MCPatient
  Bounds <- MCBounds
  Budget <- MCShortBudget
  Tuner = "rules"
  HostChanges = {}
INVARIANTS
  Accounting
  StreaksMatchHistory
  ConclusionEarned
  StopsWhenTold
  RulesAskOnce
  PlanStaysFresh
  FoldAgrees
  OpenUnitsNameTheFailure
  
PROPERTIES
  Promise
  Finishes
CHECK_DEADLOCK FALSE
