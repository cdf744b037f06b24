SPECIFICATION FairSpec
CONSTANTS
  Keys = {k1, k2, k3}
  MaxCalls = 2
  MaxIterations = 3
  MaxTurns = 2
INVARIANTS RoundPaired ToolsOnce
PROPERTIES RoundEnds
CHECK_DEADLOCK FALSE
