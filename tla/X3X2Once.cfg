SPECIFICATION Spec
CONSTANTS
  a = a
  b = b
  m = m
  Channels = {a, b}
  Others = {m}
  Script <- MCScript
  NumFields = 2
  Sizes = {1, 2}
  NumBuffers = 2
  PacketSize = 2
  MaxWire = 1
  Counts = {1, 2}
  MaxAcqs = 2
  Drained = TRUE
  Racing = TRUE
INVARIANTS ClosedOnce
CHECK_DEADLOCK FALSE
