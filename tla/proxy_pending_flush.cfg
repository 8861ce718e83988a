SPECIFICATION Spec
CONSTANTS
  Tls = TRUE
  MaxChunks = 2
  PChunks = {}
  Pipelined = TRUE
  Room = 2
  MaxDeaths = 1
  LoginErrors = FALSE
\* a session that is over does nothing more
CHECK_DEADLOCK FALSE
INVARIANTS
  NothingLost
