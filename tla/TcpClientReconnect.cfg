SPECIFICATION Spec
CONSTANTS
  Conns = {c1, c2}
  Threads = {t1}
  None = None
PROPERTIES ReconnectKept
CHECK_DEADLOCK FALSE
