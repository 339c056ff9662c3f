\* One caller, one tool, one call.
SPECIFICATION Spec
CONSTANTS
  Caller = {"caller"}
  ToolName = {"read"}
  Granted = {"read"}
  MaxRequeries = 1
  MaxCalls = 2
INVARIANT CollectedMeansRan
CHECK_DEADLOCK FALSE
