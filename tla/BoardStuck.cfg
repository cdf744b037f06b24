SPECIFICATION Spec
CONSTANTS
  HistoryLimit = 1
  alice = alice
  bob = bob
  Members = {alice, bob}
  Founders <- OneFounds
  Sessions = {1}
  Ops = {"Add", "Remove"}
  MaxId = 4
  MaxPieces = 2
  DistinctStamps = TRUE
  TurnTaking = FALSE
  None = None
INVARIANT NeverStuck
CHECK_DEADLOCK FALSE
