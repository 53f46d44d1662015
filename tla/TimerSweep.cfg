SPECIFICATION FairSpec
CONSTANTS
  NULL = NULL
  Addr = {a1, a2, a3}
  Ctx = {c1, c2}
  Seconds = {0, 9}
INVARIANTS
  TypeOK
  ListsDoublyLinked
  WalkStaysInList
  ClosedListExact
PROPERTIES
  TimeoutNotEarly
  ImplementsTimeouts
  SweepEnds
  ArmedRunsOut
