\* A streak goes on through a pass that should have broken it.
SPECIFICATION JournalSpec
CONSTANTS
  MaxU32 = 9
  MaxU64 = 9
  CallsPerTurn = 2
  ArmName = {"reflect", "judge", "tune"}
  Reports <- MCFewReports
  StartThresholds <- MCPatient
  Bounds <- MCNoBounds
  Budget <- MCShortBudget
  Tuner = "absent"
  HostChanges = {}
INVARIANT StreaksAreConsecutive
CHECK_DEADLOCK FALSE
