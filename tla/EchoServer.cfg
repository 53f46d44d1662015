SPECIFICATION FairSpec
CONSTANTS
  NULL = NULL
  Conn = {c1, c2}
  IdleSweeps = 2
  Timed = TRUE
  Block = {b1, b2, b3}
  SendBuffer = 1
  LowWater = 1
  MaxMessage = 3
  MaxBytes = 3
  MaxPair = 4
  Leaving = {c1}
INVARIANTS
  TypeOK
  EchoUntilCut
  BytesAccounted
  BacklogSized
  BacklogIsWritable
PROPERTIES
  OnlyBoringTimedOut
  BoringIsClosed
