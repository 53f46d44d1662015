SPECIFICATION Spec
CONSTANTS
  NULL = NULL
  Addr = {a1}
  Ctx = {c1}
  Seconds = {262144}
PROPERTY
  TimeoutNotEarly
