SPECIFICATION Spec
CONSTANTS
  NULL = NULL
  SWEEP = SWEEP
  WAKEUP = WAKEUP
  Addr = {a1}
  MaxSockets = 1
  Fallthrough = {TRUE}
  Disarms = FALSE
  MaxReady = 4
INVARIANT
  NumPollsCounts
