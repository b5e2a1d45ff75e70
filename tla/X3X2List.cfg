SPECIFICATION FairSpec
CONSTANTS
  a = a
  b = b
  m = m
  Channels = {a, b}
  Others = {m}
  Script <- MCScript
  NumFields = 2
  Sizes = {1, 2}
  NumBuffers = 2
  PacketSize = 2
  MaxWire = 1
  Counts = {1,2}
  MaxAcqs = 2
  Drained = TRUE
  Racing = FALSE
CHECK_DEADLOCK FALSE
INVARIANTS TypeOK RowsAreEvents InStep CompleteMeansAll ClosedOnce
PROPERTIES QuietAfterEnd Closes
