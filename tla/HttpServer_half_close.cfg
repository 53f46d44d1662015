SPECIFICATION Spec
CONSTANTS
  NULL = NULL
  Conn = {c1}
  IdleSweeps = 2
  Timed = FALSE
  Programs = {"main"}
  Length = 3
  SendBuffer = 1
  MaxRequests = 1
  Pipelining = FALSE
PROPERTY LastRequestRead
