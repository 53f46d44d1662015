SPECIFICATION Spec
CONSTANTS
  NULL = NULL
  SWEEP = SWEEP
  WAKEUP = WAKEUP
  Addr = {a1}
  MaxSockets = 1
  Fallthrough = {FALSE}
  Disarms = TRUE
  MaxReady = 4
PROPERTY
  DisarmedStaysSilent
