SPECIFICATION Spec
CONSTANTS
  NULL = NULL
  CALLBACK = CALLBACK
  Addr = {a1, a2}
  Fd = {f1}
  MaxReady = 1
  EagerApp = FALSE
  Adoption = "any"
INVARIANT
  KnotesTargetLive
