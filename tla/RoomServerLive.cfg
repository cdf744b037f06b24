SPECIFICATION FairSpec
CONSTANTS
  Conns = {c1, c2}
  Rooms = {r1, r2}
  Users = {u1}
  None = None
INVARIANTS MonitorAgrees StopSafe
PROPERTIES PlacesKept TcpKept StopCompletes ClosedMemberLeaves SilentMemberLeaves
CHECK_DEADLOCK FALSE
