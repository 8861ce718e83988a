SPECIFICATION ApiFairSpec
CONSTANTS
  c1 = c1
  c2 = c2
  Callers = {c1, c2}
  MaySend <- MCMaySend
  MaxChanges = 2
  MaxRequests = 2
\* every request has been sent and answered
CHECK_DEADLOCK FALSE
INVARIANTS
  Served
  RefusedForCause
PROPERTIES
  EndsAnswered
