SPECIFICATION Spec
CONSTANTS
  Char = {a, sp, NUL}
  SPACE = sp
  NUL = NUL
  UNSET = UNSET
  BufferLength = 4
  MemoryLength = 4
  MaxRequest = 3
INVARIANT FoundInRequest
