SPECIFICATION FairSpec
CONSTANTS
  Tls = TRUE
  MaxChunks = 3
  PChunks = {2}
  Pipelined = TRUE
  Room = 3
  MaxDeaths = 2
  LoginErrors = TRUE
\* a session that is over does nothing more
CHECK_DEADLOCK FALSE
INVARIANTS
  BufferedOnlyWhileHeld
  ForwardTargetAlive
  SilentReconnect
PROPERTIES
  SessionEnds
  CloseSocketsCompletes
  ReconnectEnds
  NoEarlyTraffic
