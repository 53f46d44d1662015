SPECIFICATION FairSpec
CONSTANTS
  NULL = NULL
  SWEEP = SWEEP
  WAKEUP = WAKEUP
  Addr = {a1}
  MaxSockets = 1
  Fallthrough = {FALSE}
  Disarms = FALSE
  MaxReady = 4
INVARIANTS
  TypeOK
  CallbacksLive
  NumPollsCounts
  LoopWaits
PROPERTIES
  WakeupHeard
  SweepRecurs
