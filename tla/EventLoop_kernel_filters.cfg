SPECIFICATION Spec
CONSTANTS
  NULL = NULL
  CALLBACK = CALLBACK
  Addr = {a1}
  Fd = {f1}
  MaxReady = 1
  EagerApp = FALSE
  Adoption = "off"
INVARIANT
  PollsMatchKernel
