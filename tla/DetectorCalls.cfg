CONSTANTS
  NumCards = 2
  NumValues = 2
  Requests = {"set", "trigger_mode", "energy", "connect", "disconnect", "enable", "start", "stop", "trigger", "status"}
  Patient = TRUE
  Settled = TRUE
  MayFail = TRUE
  MaxQueue = 2
SPECIFICATION MCSpec
INVARIANTS FailureTold SoundStopReachesCards
PROPERTIES SoundCallsEnd
CHECK_DEADLOCK FALSE
