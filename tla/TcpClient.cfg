SPECIFICATION FairSpec
CONSTANTS
  Conns = {c1, c2}
  Threads = {t1, t2}
  None = None
INVARIANTS NoOrphanSession ConnectedIsWatched
PROPERTIES ConnectSettles QuitEnds ClosedIsReleased
CHECK_DEADLOCK FALSE
