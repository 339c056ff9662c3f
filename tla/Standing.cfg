\* Meters against every small budget, conditions of up to four leaves, two writers in two scopes.
SPECIFICATION AllSpec
CONSTANTS
  MaxU32 = 5
  MaxU64 = 5
  CallsPerTurn = 2
  Spends = {0, 3}
  CapSets <- MCCapSets
  States <- MCStates
  MaxMoves = 3
  MaxJoins = 2
  Writer = {w1, w2}
  Scopes = {s1, s2}
  Ttl = 2
  MaxTime = 2
  MaxFlips = 1
INVARIANTS
  ToolCallsUnreachable
  OneEnding
  HeadAgrees
  BeliefBounded
PROPERTY TrippedStays
CHECK_DEADLOCK FALSE
