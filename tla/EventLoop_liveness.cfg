SPECIFICATION FairSpec
CONSTANTS
  NULL = NULL
  CALLBACK = CALLBACK
  Addr = {a1, a2}
  Fd = {f1, f2}
  MaxReady = 1
  EagerApp = TRUE
  Adoption = "off"
PROPERTIES
  ClosedIsFreed
  DrainedLoopReturns
