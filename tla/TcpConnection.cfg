SPECIFICATION FairSpec
CONSTANTS
  MaxFrame = 1
  w1 = w1
  w2 = w2
  Writers = {w1, w2}
  Closers = {k1}
  Payload <- Payloads
INVARIANTS NoStrandedFrame InOrder FramesRebuilt ClosedClean
PROPERTIES CloseCompletes FrameArrives
CHECK_DEADLOCK FALSE
