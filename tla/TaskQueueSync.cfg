SPECIFICATION FairSpec
CONSTANTS
  Tasks = {t1, t2}
  Workers = {w1}
  InUse = {"NORMAL"}
  MaxQueue = 1
  Outside = Outside
PROPERTIES SyncReturns
CHECK_DEADLOCK FALSE
