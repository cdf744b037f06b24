SPECIFICATION Spec
CONSTANTS
  Conns = {c1, c2}
  Threads = {t1}
  None = None
INVARIANTS NothingAstray
CHECK_DEADLOCK FALSE
