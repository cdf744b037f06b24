SPECIFICATION Spec
CONSTANTS
  Conns = {c1, c2, c3}
  Rooms = {r1}
  Users = {u1, u2, u3}
  None = None
SYMMETRY Symmetry
VIEW StateWithoutOut
INVARIANTS JoinOrderLists RosterExact SeatsAgree
PROPERTIES AskedKnowsRoom
CHECK_DEADLOCK FALSE
