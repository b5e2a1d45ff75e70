CONSTANTS
  s = s
  t = t
  Senders = {s, t}
  First <- MCFirst
  Num <- MCNum
  NumChannels = 3
  PerChannel = 2
  NumFrames = 2
  MaxAcqs = 2
  MaxConfigs = 1
  MaxQueue = 6
  MaxLosses = 2
  MayOverlap = FALSE
SPECIFICATION FairSpec
INVARIANTS TypeOK RowsWhole RowsSurvive
PROPERTIES RowsAdded
CHECK_DEADLOCK FALSE
