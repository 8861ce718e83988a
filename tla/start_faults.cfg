SPECIFICATION FairSpec
CONSTANTS
  Callers = {c1, c2, c3}
  c1 = c1
  c2 = c2
  c3 = c3
  HealthFails = TRUE
  DbFails = TRUE
  StartFails = TRUE
\* a process that has crashed, or a stuck table, does nothing more
CHECK_DEADLOCK FALSE
INVARIANTS
  OneStart
PROPERTIES
  Implements
  LedFlightEnds
