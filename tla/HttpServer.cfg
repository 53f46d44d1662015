SPECIFICATION FairSpec
CONSTANTS
  NULL = NULL
  Conn = {c1, c2}
  IdleSweeps = 2
  Timed = TRUE
  Programs = {"ahttp_run", "main"}
  Length = 3
  SendBuffer = 1
  MaxRequests = 2
  Pipelining = FALSE
INVARIANTS
  TypeOK
  AnswersAreWhole
  OneAnswerEach
PROPERTIES
  AnswersComplete
  IdleIsClosed
