CONSTANTS
  NumCards = 2
  NumValues = 2
  Requests = {"set", "mca", "list", "trigger_mode", "energy", "connect", "disconnect", "enable", "start", "stop", "trigger", "status"}
  Patient = FALSE
  Settled = FALSE
  MayFail = TRUE
  MaxQueue = 1
SPECIFICATION Spec
INVARIANTS TypeOK ReconnectTold DaqMatchesConnection
CHECK_DEADLOCK FALSE
