\* Two threads at each service; two posters of three notes against a mailbox of two.
SPECIFICATION AllSpec
CONSTANTS
  Poster = {p1, p2}
  Capacity = 2
  MaxPosts = 3
  MaxPasses = 3
  Limits = {0, 1, 2, 3, 4, 5}
  MaxBytes = 8
  MaxEntries = 4
  Author = {a1, a2}
  Path = {"notes", "plan"}
  MaxWrites = 2
  Caller = {c1, c2}
  ToolName = {"read", "shell"}
  Granted = {"read"}
  MaxRequeries = 1
  MaxCalls = 3
  Driver = "driver"
  Worker = {"node", "model"}
  MaxAnnounced = 2
  MaxEvents = 1
INVARIANTS
  NothingVanishes
  ReadInOrder
  BothEndsKept
  ForgottenOnce
  NoWriteLost
  RequeriesBounded
  FailuresAreMessages
  SpendCovers
  SinkFollows
  StampNearlyAnnounced
PROPERTY DropsReported
CHECK_DEADLOCK FALSE
