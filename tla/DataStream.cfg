SPECIFICATION FairSpec
CONSTANTS
  MaxConns = 3
  MaxFrames = 2
INVARIANTS JoinedOnCurrent NoGhost NothingLeft
PROPERTIES JoinSent JoinedIsSeated
CHECK_DEADLOCK FALSE
