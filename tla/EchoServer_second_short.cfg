SPECIFICATION Spec
CONSTANTS
  NULL = NULL
  Conn = {c1}
  IdleSweeps = 1
  Timed = FALSE
  Block = {b1, b2}
  SendBuffer = 2
  LowWater = 1
  MaxMessage = 4
  MaxBytes = 4
  MaxPair = 8
  Leaving = {c1}
INVARIANT EchoInOrder
