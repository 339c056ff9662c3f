\* Three passes with a tuner a host wrote, which may propose what it likes.
SPECIFICATION Spec
CONSTANTS
  MaxU32 = 9
  MaxU64 = 9
  CallsPerTurn = 2
  ArmName = {"reflect", "judge", "tune"}
  Reports <- MCFewReports
  StartThresholds <- MCPatient
  Bounds <- MCHostBounds
  Budget <- MCTightBudget
  Tuner = "host"
  HostChanges <- MCHostChanges
INVARIANT VerdictHonest
PROPERTY AmendsAsSpecified
CHECK_DEADLOCK FALSE
