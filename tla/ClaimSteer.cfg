\* The steer a judge leaves is gone before the next briefs are written.
SPECIFICATION JournalSpec
CONSTANTS
  MaxU32 = 9
  MaxU64 = 9
  CallsPerTurn = 2
  ArmName = {"reflect", "judge", "tune"}
  Reports <- MCFewReports
  StartThresholds <- MCPatient
  Bounds <- MCNoBounds
  Budget <- MCShortBudget
  Tuner = "absent"
  HostChanges = {}
INVARIANT SteerReachesBriefs
CHECK_DEADLOCK FALSE
