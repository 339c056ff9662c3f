\* The last pass the budget allows solves the goal.
SPECIFICATION JournalSpec
CONSTANTS
  MaxU32 = 9
  MaxU64 = 9
  CallsPerTurn = 2
  ArmName = {"reflect", "judge", "tune"}
  Reports <- MCFewReports
  StartThresholds <- MCPatient
  Bounds <- MCNoBounds
  Budget <- MCShortBudget
  Tuner = "absent"
  HostChanges = {}
INVARIANT BoundedIsNeverSuccess
CHECK_DEADLOCK FALSE
