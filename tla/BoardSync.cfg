SPECIFICATION FairSpec
CONSTANTS
  HistoryLimit = 1
  alice = alice
  bob = bob
  Members = {alice, bob}
  Founders <- OneFounds
  Sessions = {1}
  Ops = {"Add", "Remove"}
  MaxId = 4
  MaxPieces = 2
  DistinctStamps = TRUE
  TurnTaking = FALSE
  None = None
INVARIANTS NoDoubles ContentsAgree
PROPERTIES JoinAnswered
CHECK_DEADLOCK FALSE
