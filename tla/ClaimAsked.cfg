\* The shipped tuner, where no arm may be muted.
SPECIFICATION JournalSpec
CONSTANTS
  MaxU32 = 9
  MaxU64 = 9
  CallsPerTurn = 2
  ArmName = {"reflect", "judge", "tune"}
  Reports <- MCFewReports
  StartThresholds <- MCPatient
  Bounds <- MCNoMute
  Budget <- MCShortBudget
  Tuner = "rules"
  HostChanges = {}
INVARIANT NothingReasked
CHECK_DEADLOCK FALSE
