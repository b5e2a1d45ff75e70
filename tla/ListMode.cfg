CONSTANTS
  a = a
  b = b
  Channels = {a, b}
  Script <- MCScript
  Sizes = {4}
  PacketsPerFrame = 2
  NumBuffers = 1
  MaxAcqs = 2
  MaxFlushes = 1
  Lossy = TRUE
  MayStop = TRUE
SPECIFICATION FairSpec
INVARIANTS TypeOK StreamOfKept FramesNumbered OneAcquisition
PROPERTIES Drains
CHECK_DEADLOCK FALSE
