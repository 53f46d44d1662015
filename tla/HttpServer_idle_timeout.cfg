SPECIFICATION Spec
CONSTANTS
  NULL = NULL
  Conn = {c1}
  IdleSweeps = 2
  Timed = TRUE
  Programs = {"ahttp_run"}
  Length = 2
  SendBuffer = 1
  MaxRequests = 1
  Pipelining = FALSE
PROPERTY IdleTimeoutCloses
