SPECIFICATION Spec
CONSTANTS
  Conns = {c1, c2}
  Rooms = {r1}
  Users = {u1, u2}
  None = None
SYMMETRY Symmetry
VIEW StateWithoutOut
PROPERTIES NewcomerAsked
CHECK_DEADLOCK FALSE
