SPECIFICATION FairSpec
CONSTANTS
  Tasks = {t1, t2}
  Workers = {w1, w2}
  InUse = {"HIGH", "DROPABLE"}
  MaxQueue = 0
  Outside = Outside
INVARIANTS SerialInOrder ReturnedRan
PROPERTIES DelayKept TaskSettles
CHECK_DEADLOCK FALSE
