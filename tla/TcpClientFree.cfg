SPECIFICATION Spec
CONSTANTS
  Conns = {c1, c2}
  Threads = {t1}
  None = None
INVARIANTS FreedAfterClosed
CHECK_DEADLOCK FALSE
