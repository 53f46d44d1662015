SPECIFICATION Spec
CONSTANTS
  NULL = NULL
  Conn = {c1, c2}
  IdleSweeps = 1
  Timed = FALSE
  Block = {b1, b2}
  SendBuffer = 1
  LowWater = 1
  MaxMessage = 2
  MaxBytes = 2
  MaxPair = 4
  Leaving = {c1, c2}
INVARIANT BacklogsLive
