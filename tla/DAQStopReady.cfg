CONSTANTS
  NumThreads = 2
  MaxFrames = 1
  MaxStarts = 1
  EagerStart = FALSE
  MayStop = TRUE
  MayFail = FALSE
  OrderedFlags = TRUE
SPECIFICATION Spec

PROPERTIES StopReturnsReady
CHECK_DEADLOCK FALSE
