CONSTANTS
  MaxFrames = 3
  MaxAcqs = 2
  Chunks = {1, 2, 3}
  MaxBlock = 2
  Shapes = {1, 2}
  NumChannels = 2
  Procs = 2
  Rank = 1
  NumBuffers = 2
SPECIFICATION FairSpec
INVARIANTS TypeOK Labelled ScalarsConserved ScalarsMatchBlocks
PROPERTIES WritesLog AllWritten
CHECK_DEADLOCK FALSE
