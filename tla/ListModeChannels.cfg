CONSTANTS
  a = a
  b = b
  Channels = {a, b}
  Script <- MCScript
  Sizes = {4}
  PacketsPerFrame = 2
  NumBuffers = 1
  MaxAcqs = 1
  MaxFlushes = 1
  Lossy = FALSE
  MayStop = FALSE
SPECIFICATION Spec
INVARIANTS BadChannelRefused
CHECK_DEADLOCK FALSE
