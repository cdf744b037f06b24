SPECIFICATION Spec
CONSTANTS
  HistoryLimit = 1
  alice = alice
  bob = bob
  Members = {alice, bob}
  Founders <- OneFounds
  Sessions = {1}
  Ops = {"Pen", "EraseRegion"}
  MaxId = 4
  MaxPieces = 2
  DistinctStamps = FALSE
  TurnTaking = FALSE
  None = None
INVARIANT NoDoubles
CHECK_DEADLOCK FALSE
