SPECIFICATION FairSpec
CONSTANTS
  Sessions = {s1, s2}
  s1 = s1
  s2 = s2
  Sockets = {k1, k2, k3}
  k1 = k1
  k2 = k2
  k3 = k3
  Tls = TRUE
\* the process may exit, or be left with nothing to do
CHECK_DEADLOCK FALSE
INVARIANTS
  TablesAgree
  TimerFindsSession
  TrackedAreOpen
  NobodyDroppedSilently
PROPERTIES
  SessionDrains
