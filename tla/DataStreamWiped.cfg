SPECIFICATION Spec
CONSTANTS
  MaxConns = 2
  MaxFrames = 2
PROPERTIES OnConnectedJoins
CHECK_DEADLOCK FALSE
