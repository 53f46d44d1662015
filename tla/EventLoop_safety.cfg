SPECIFICATION Spec
CONSTANTS
  NULL = NULL
  CALLBACK = CALLBACK
  Addr = {a1, a2, a3}
  Fd = {f1, f2}
  MaxReady = 2
  EagerApp = FALSE
  Adoption = "synced"
SYMMETRY Symmetry
VIEW View
INVARIANTS
  TypeOK
  PendingReadyLive
  KnotesTargetLive
  FdsOwned
  NumPollsExact
  HandlerPointersValid
  ListenersKeepPolling
  SemiEventsTellRole
PROPERTIES
  ImplementsLifecycle
