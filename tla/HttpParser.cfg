SPECIFICATION Spec
CONSTANTS
  Char = {a, sp, NUL}
  SPACE = sp
  NUL = NUL
  UNSET = UNSET
  BufferLength = 5
  MemoryLength = 6
  MaxRequest = 4
INVARIANTS
  TypeOK
  UrlIsSecondField
  CompleteRequestsAreOwn
