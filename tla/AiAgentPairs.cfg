SPECIFICATION Spec
CONSTANTS
  Keys = {k1, k2}
  MaxCalls = 2
  MaxIterations = 2
  MaxTurns = 2
INVARIANTS PairsComplete
CHECK_DEADLOCK FALSE
