SPECIFICATION Spec
CONSTANTS
  NumChannels = 2
  MaxValue = 1
  Saved <- SavedWindows
  SetsFail = TRUE
  ReadsFail = TRUE
  MaxTrouble = 1
  MaxRestores = 1
  Users = {u1}
  Poller = poller
  Ids = {1, 2, 3, 4, 5}
  Lists <- PutLists
  MaxPuts = 2
INVARIANTS AnswersMatch AckedWindowsHold
PROPERTIES TreeCatchesUp
