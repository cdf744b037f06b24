SPECIFICATION Spec
CONSTANTS
  HistoryLimit = 1
  alice = alice
  bob = bob
  Members = {alice, bob}
  Founders <- OneFounds
  Sessions = {1}
  Ops = {"Pen", "Erase"}
  MaxId = 4
  MaxPieces = 1
  DistinctStamps = TRUE
  TurnTaking = TRUE
  None = None
INVARIANT ElementsOnce
CHECK_DEADLOCK FALSE
