CONSTANTS
  NumThreads = 2
  MaxFrames = 3
  MaxStarts = 2
  EagerStart = TRUE
  MayStop = TRUE
  MayFail = TRUE
  OrderedFlags = FALSE
SPECIFICATION MCSpec
INVARIANTS TypeOK ReadsUnackedFrames AckAfterAllSent CarefulStopIsQuiet CarefulAckIsForward
PROPERTIES FailureStaysVisible CallsReturn FramesInOrder ImplementsAcquisition
CHECK_DEADLOCK FALSE
