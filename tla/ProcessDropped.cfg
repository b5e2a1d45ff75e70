CONSTANTS
  MaxFrames = 4
  MaxAcqs = 2
  Chunks = {2}
  MaxBlock = 3
  Shapes = {1}
  NumChannels = 2
  Procs = 2
  Rank = 1
  NumBuffers = 1
SPECIFICATION Spec
INVARIANTS BlockOfOneWindow
CHECK_DEADLOCK FALSE
