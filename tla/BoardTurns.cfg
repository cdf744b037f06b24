SPECIFICATION Spec
CONSTANTS
  HistoryLimit = 1
  alice = alice
  bob = bob
  Members = {alice, bob}
  Founders <- BothFound
  Sessions = {1}
  Ops = {"Pen", "Erase", "EraseRegion", "Clear", "Add", "Remove", "RemoveMany", "Update", "UpdateQuietly", "Batch", "UndoRedo", "CreatePage", "SelectPage", "DeletePage", "CopyPage"}
  MaxId = 5
  MaxPieces = 2
  DistinctStamps = TRUE
  TurnTaking = TRUE
  None = None
VIEW WithoutNames
CONSTRAINT LightBoards
INVARIANTS HistoriesSound BoardsAgree NoDoubles
CHECK_DEADLOCK FALSE
