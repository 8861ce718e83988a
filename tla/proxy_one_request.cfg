SPECIFICATION Spec
CONSTANTS
  Tls = FALSE
  MaxChunks = 3
  PChunks = {}
  Pipelined = FALSE
  Room = 3
  MaxDeaths = 3
  LoginErrors = TRUE
\* a session that is over does nothing more
CHECK_DEADLOCK FALSE
INVARIANTS
  NothingLost
  InOrder
