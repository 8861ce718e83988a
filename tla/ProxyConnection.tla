--------------------------- MODULE ProxyConnection ---------------------------
(***************************************************************************)
(* One session of the gateway's PostgreSQL proxy: class ProxyConnection of *)
(* gateway/lib/pg-proxy/proxy-connection.js, together with the part of the *)
(* TCP server that reacts to its sockets (registerConnection of            *)
(* gateway/lib/tcp-server/index.js).                                       *)
(*                                                                         *)
(* A session owns a client socket and, once the user is accepted, a server *)
(* socket to the PostgreSQL instance.  The proxy verifies the user's token *)
(* in place of the password, logs in to the instance by itself, forwards   *)
(* traffic, and, when the instance goes away under an idle client, keeps   *)
(* the client in sleep mode and logs in again when the client speaks.      *)
(*                                                                         *)
(* Every action is one run of the event loop: an event handler, or the     *)
(* code after an await.  Time is abstracted: the 5 s activity timer and    *)
(* the 100 ms close timers may fire at any later moment.                   *)
(***************************************************************************)
EXTENDS Naturals, Sequences, FiniteSets, SequencesExt

CONSTANTS
  Tls,          \* config.proxy.tls.enabled
  MaxChunks,    \* bound: data chunks the client sends after its login
  PChunks,      \* the chunks among them whose first byte is 0x70, 'p'
  Pipelined,    \* whether the client sends before the last answer is in
  Room,         \* writes a socket buffers before write() answers false
  MaxDeaths,    \* bound: how often the instance drops the server socket
  LoginErrors   \* whether the instance may refuse the login of the proxy

ASSUME ConstantsAssumption ==
  /\ Tls \in BOOLEAN /\ Pipelined \in BOOLEAN /\ LoginErrors \in BOOLEAN
  /\ MaxChunks \in Nat /\ MaxDeaths \in Nat
  /\ Room \in Nat \ {0} /\ Room >= MaxChunks
  /\ PChunks \subseteq 1 .. MaxChunks

\* Chunk 0 is the password message of a PUBLIC user, the only password the
\* proxy forwards; the chunks sent after the login are numbered from 1.
Chunks == 0 .. MaxChunks

VARIABLES
  cSock,        \* the client socket: "open", "ending" after end(), "closed"
  cView,        \* what the client knows of its login
  sent,         \* chunks the client has sent after its login
  replied,      \* answers the client has received
  paused,       \* clientSocket.pause() is in effect: nothing is read from it
  isClientSocketActive,
  secure,       \* isSecureSocket: the client socket was upgraded to TLS
  sslHandled,
  user,         \* which object pgFarmUser is: none, the one of the startup
                \* message, or the one handleJwt put in its place
  userType,     \* user_type of that object
  isAuthenticated, \* the user objects that carry the flag
  handlingJwtAuth,
  task,         \* what the login is awaiting
  pending,      \* pendingMessages
  unacked,      \* writes to the server socket whose callback has not run
  drainWait,    \* a writeAndWait of the server socket awaits 'drain'
  flushing,     \* that writeAndWait is in the loop of interceptServerAuth
  flushed,      \* chunks handed to the instance, in order
  awaitingReconnect, checkingPgInstStatus, sleepMode, autoCloseSockets,
  handlingServerSocketClose, shutdownMsg,
  reconnectTask, \* what reconnect() is awaiting
  clientRef, closingClientSocket,  \* clientSocket is not null; being ended
  serverRef, closingServerSocket,
  registered,   \* the sockets in the TCP server's table for this session
  closeTimers,  \* sockets that closed less than 100 ms ago
  sSock,        \* the server socket
  srv,          \* where the instance is in its login dialogue
  srvQ,         \* chunks the instance has received and not answered
  startUpMsgSent,
  startups,     \* startup messages written to the present server socket
  deaths

clientVars == <<cView, sent, replied>>
loginVars  == <<secure, sslHandled, user, userType, isAuthenticated>>
jwtVars    == <<handlingJwtAuth, task>>
bufVars    == <<pending, unacked, drainWait, flushing, flushed>>
modeVars   == <<awaitingReconnect, checkingPgInstStatus, sleepMode,
                autoCloseSockets, handlingServerSocketClose, reconnectTask>>
sockVars   == <<cSock, clientRef, closingClientSocket, sSock, serverRef,
                closingServerSocket, closeTimers>>
srvVars    == <<srv, srvQ, startups>>
restVars   == <<shutdownMsg, registered, startUpMsgSent, deaths>>
miscVars   == <<paused, isClientSocketActive, restVars>>
vars == <<clientVars, loginVars, jwtVars, bufVars, modeVars, sockVars,
          srvVars, miscVars>>

Views == {"new", "startup", "pwAsked", "pwSent", "ready", "refused",
          "confused"}
ClientStates == {"open", "ending", "closed"}
ServerStates == {"none", "connecting", "open", "ending", "closed"}

ClientTypes ==
  /\ cView \in Views /\ sent \in 0 .. MaxChunks /\ replied \in Nat
LoginTypes ==
  /\ secure \in BOOLEAN /\ sslHandled \in BOOLEAN
  /\ user \in {"none", "startup", "token"}
  /\ userType \in {"none", "PUBLIC", "USER"}
  /\ isAuthenticated \subseteq {"startup", "token"}
JwtTypes ==
  /\ handlingJwtAuth \in BOOLEAN
  /\ task \in {"none", "access", "verify", "start", "connect"}
BufTypes ==
  /\ pending \in Seq(Chunks) /\ unacked \in Seq(Chunks)
  /\ flushed \in Seq(Chunks) /\ drainWait \in BOOLEAN /\ flushing \in BOOLEAN
ModeTypes ==
  /\ awaitingReconnect \in BOOLEAN /\ checkingPgInstStatus \in BOOLEAN
  /\ sleepMode \in BOOLEAN /\ autoCloseSockets \in BOOLEAN
  /\ handlingServerSocketClose \in BOOLEAN
  /\ reconnectTask \in {"none", "waking", "connecting"}
SockTypes ==
  /\ cSock \in ClientStates /\ clientRef \in BOOLEAN
  /\ closingClientSocket \in BOOLEAN /\ sSock \in ServerStates
  /\ serverRef \in BOOLEAN /\ closingServerSocket \in BOOLEAN
  /\ closeTimers \subseteq {"client", "server"}
SrvTypes ==
  /\ srv \in {"none", "startup", "asked", "authing", "ready", "failed"}
  /\ srvQ \in Nat /\ startups \in Nat
RestTypes ==
  /\ shutdownMsg \in BOOLEAN /\ registered \subseteq {"client", "server"}
  /\ startUpMsgSent \in BOOLEAN /\ deaths \in 0 .. MaxDeaths
FlowTypes ==
  /\ paused \in BOOLEAN /\ isClientSocketActive \in BOOLEAN

TypeOK ==
  /\ ClientTypes /\ LoginTypes /\ JwtTypes /\ BufTypes /\ ModeTypes
  /\ SockTypes /\ SrvTypes /\ RestTypes /\ FlowTypes

\* The constructor of ProxyConnection, and _onIncomingConnection registering
\* the client socket.
Init ==
  /\ cSock = "open" /\ cView = "new" /\ sent = 0 /\ replied = 0
  /\ paused = FALSE /\ isClientSocketActive = FALSE
  /\ secure = FALSE /\ sslHandled = FALSE
  /\ user = "none" /\ userType = "none" /\ isAuthenticated = {}
  /\ handlingJwtAuth = FALSE /\ task = "none"
  /\ pending = <<>> /\ unacked = <<>> /\ flushed = <<>>
  /\ drainWait = FALSE /\ flushing = FALSE
  /\ awaitingReconnect = FALSE /\ checkingPgInstStatus = FALSE
  /\ sleepMode = FALSE /\ autoCloseSockets = TRUE
  /\ handlingServerSocketClose = FALSE /\ shutdownMsg = FALSE
  /\ reconnectTask = "none"
  /\ clientRef = TRUE /\ closingClientSocket = FALSE
  /\ serverRef = FALSE /\ closingServerSocket = FALSE
  /\ registered = {"client"} /\ closeTimers = {}
  /\ sSock = "none" /\ srv = "none" /\ srvQ = 0
  /\ startUpMsgSent = FALSE /\ startups = 0 /\ deaths = 0

-----------------------------------------------------------------------------
(* closeSockets: the client part, awaited, then the server part.           *)

EndClient ==
  /\ closingClientSocket' = TRUE
  /\ cSock' = IF cSock = "open" THEN "ending" ELSE cSock
  /\ UNCHANGED clientRef

\* variant: the server socket is forgotten
EndServerForgotten == UNCHANGED <<closingServerSocket, sSock, serverRef>>

EndServer ==
  /\ IF serverRef /\ ~closingServerSocket
     THEN /\ closingServerSocket' = TRUE
          /\ sSock' = IF sSock = "closed" THEN sSock ELSE "ending"
     ELSE UNCHANGED <<closingServerSocket, sSock>>
  /\ UNCHANGED serverRef

CloseSockets ==
  IF clientRef /\ ~closingClientSocket
  THEN EndClient /\ UNCHANGED <<closingServerSocket, sSock, serverRef>>
  ELSE EndServer /\ UNCHANGED <<closingClientSocket, cSock, clientRef>>

\* What every way of losing the server socket leaves behind: callbacks of
\* buffered writes see an error and leave pendingMessages alone, and whoever
\* waits for 'drain' or for 'connect' waits for ever.
ServerGone ==
  /\ sSock' = "closed"
  /\ unacked' = <<>> /\ drainWait' = FALSE /\ flushing' = FALSE
  /\ srv' = "none" /\ srvQ' = 0 /\ startups' = 0
  /\ task' = IF task = "connect" THEN "none" ELSE task
  /\ UNCHANGED <<pending, flushed, handlingJwtAuth>>

\* The client socket has finished: the callback of end() if closeSockets
\* called it, which goes on to the server part, or destroySoon's.
ClientEnded ==
  /\ cSock = "ending" \/ closingClientSocket
  /\ cSock' = "closed" /\ closingClientSocket' = FALSE
  /\ closeTimers' = closeTimers \union (IF cSock = "closed" THEN {}
                                        ELSE {"client"})
  /\ IF closingClientSocket
     THEN clientRef' = FALSE /\ EndServer
     ELSE UNCHANGED <<clientRef, sSock, serverRef, closingServerSocket>>
  /\ UNCHANGED <<clientVars, loginVars, jwtVars, bufVars, modeVars, srvVars,
                 miscVars>>

\* The server socket has finished, which takes every write before it.  The
\* client is not open by then, so _onServerSocketClose does nothing.
ServerEnded ==
  /\ \/ sSock = "ending" /\ unacked = <<>>
     \/ sSock = "closed" /\ closingServerSocket
  /\ ServerGone
  /\ closeTimers' = closeTimers \union (IF sSock = "closed" THEN {}
                                        ELSE {"server"})
  /\ serverRef' = (serverRef /\ ~closingServerSocket)
  /\ closingServerSocket' = FALSE
  /\ UNCHANGED <<cSock, clientRef, closingClientSocket, clientVars, loginVars,
                 modeVars, miscVars>>

-----------------------------------------------------------------------------
(* What writeAndWait and sendNotice do to the client: a write to a closed  *)
(* client socket answers false, and pausing a server socket that does not  *)
(* exist throws, which onClientSocketData answers with closeSockets.       *)

TellClient(view) ==
  /\ cView' = IF cSock = "open" THEN view ELSE cView
  /\ IF cSock = "open" \/ serverRef
     THEN UNCHANGED sockVars
     ELSE CloseSockets /\ UNCHANGED closeTimers
  /\ UNCHANGED <<sent, replied>>

\* The tail of _onServerSocketData: resetClientActive, then the write.
ProxyToClient(view) ==
  /\ isClientSocketActive' = TRUE
  /\ cView' = IF cSock = "open" THEN view ELSE cView

\* Chunks reach the instance: the password goes on with the login dialogue,
\* any other chunk is a request it will answer.
Deliver(chunks) ==
  /\ flushed' = flushed \o chunks
  /\ srvQ' = srvQ + Cardinality({i \in DOMAIN chunks : chunks[i] # 0})
  /\ UNCHANGED startups

\* variant: the status check does not hold traffic back
HeldNotByCheck == awaitingReconnect \/ handlingJwtAuth

\* variant: only in a first login
InterceptsFirstLogin == handlingJwtAuth

\* Whether _onServerSocketData hands a message to interceptServerAuth.
Intercepts == handlingJwtAuth \/ awaitingReconnect

\* Whether onClientSocketData keeps what it gets, outside of sleep mode.
Held == awaitingReconnect \/ handlingJwtAuth \/ checkingPgInstStatus

-----------------------------------------------------------------------------
(* The client: onClientSocketData and the handlers it calls.               *)

CanRead == cSock = "open" /\ ~paused

\* handlePreStartupMessage: an SSLRequest, answered with 'S' or 'N'.
SSLRequest ==
  /\ CanRead /\ cView = "new" /\ ~sslHandled
  /\ sslHandled' = TRUE /\ secure' = Tls
  /\ isClientSocketActive' = TRUE
  /\ UNCHANGED <<user, userType, isAuthenticated, paused, restVars,
                 clientVars, jwtVars, bufVars, modeVars, sockVars, srvVars>>

\* handleStartupMessage up to its first await: a clear text startup under
\* TLS, or a message that does not parse, closes the connection.
StartupMessage(valid) ==
  /\ CanRead /\ cView = "new"
  /\ isClientSocketActive' = TRUE
  /\ IF valid /\ (Tls => secure)
     THEN /\ cView' = "startup" /\ task' = "access"
          /\ UNCHANGED sockVars
     ELSE /\ cView' = "refused" /\ CloseSockets
          /\ UNCHANGED <<task, closeTimers>>
  /\ UNCHANGED <<sent, replied, handlingJwtAuth, paused, restVars, loginVars,
                 bufVars, modeVars, srvVars>>

\* checkUserAccess answers: the user is unknown or the instance neither runs
\* nor sleeps; a PUBLIC user; a user who must present a token.
AccessRefused ==
  /\ task = "access" /\ task' = "none"
  /\ cView' = IF cSock = "open" THEN "refused" ELSE cView
  /\ CloseSockets
  /\ UNCHANGED <<sent, replied, handlingJwtAuth, closeTimers, loginVars,
                 bufVars, modeVars, srvVars, miscVars>>

AccessPublic ==
  /\ task = "access" /\ task' = "start"
  /\ user' = "startup" /\ userType' = "PUBLIC"
  /\ UNCHANGED <<secure, sslHandled, isAuthenticated, handlingJwtAuth,
                 clientVars, bufVars, modeVars, sockVars, srvVars, miscVars>>

AccessUser ==
  /\ task = "access" /\ task' = "none"
  /\ user' = "startup" /\ userType' = "USER"
  /\ TellClient("pwAsked")
  /\ UNCHANGED <<secure, sslHandled, isAuthenticated, handlingJwtAuth,
                 bufVars, modeVars, srvVars, miscVars>>

\* variant: the chunk is dropped
HoldNothing(m) == UNCHANGED pending

\* pendingMessages.push
Hold(m) == pending' = Append(pending, m)

\* onClientSocketData in sleep mode: the chunk is kept and reconnect() runs
\* up to its first await, unless it is running already.
WhileAsleep(m) ==
  /\ sleepMode
  /\ Hold(m)
  /\ IF awaitingReconnect
     THEN UNCHANGED <<paused, awaitingReconnect, reconnectTask>>
     ELSE /\ paused' = TRUE /\ awaitingReconnect' = TRUE
          /\ reconnectTask' = "waking"
  /\ UNCHANGED <<checkingPgInstStatus, sleepMode, autoCloseSockets,
                 handlingServerSocketClose, unacked, drainWait, flushing,
                 flushed, isClientSocketActive, jwtVars, sockVars, srvVars>>

\* onClientSocketData while the login or the status check is under way.
WhileHeld(m) ==
  /\ ~sleepMode /\ Held
  /\ Hold(m)
  /\ UNCHANGED <<unacked, drainWait, flushing, flushed, paused,
                 isClientSocketActive, jwtVars, modeVars, sockVars, srvVars>>

\* A chunk that begins with 'p' goes to handleJwt unless the user object at
\* hand carries the flag.
TakenForPassword(startsWithP) ==
  startsWithP /\ userType # "PUBLIC" /\ user \notin isAuthenticated

\* variant: it forwards while it is reconnecting
MayForwardAlways(startsWithP) == ~TakenForPassword(startsWithP)

\* onClientSocketData forwards what it neither keeps nor takes.
MayForward(startsWithP) ==
  ~sleepMode /\ ~Held /\ ~TakenForPassword(startsWithP)

ToHandleJwt(startsWithP) ==
  /\ ~sleepMode /\ ~Held /\ TakenForPassword(startsWithP)
  /\ handlingJwtAuth' = TRUE /\ task' = "verify"
  /\ isClientSocketActive' = TRUE
  /\ UNCHANGED <<paused, bufVars, modeVars, sockVars, srvVars>>

\* writeAndWait on the server socket, when the kernel takes the chunk at once
\* (its callback takes it out of pendingMessages again) ...
ForwardNow(m, startsWithP) ==
  /\ MayForward(startsWithP)
  /\ serverRef /\ sSock = "open" /\ unacked = <<>>
  /\ Deliver(<<m>>)
  /\ srv' = IF m = 0 /\ srv = "asked" THEN "authing" ELSE srv
  /\ isClientSocketActive' = TRUE
  /\ UNCHANGED <<paused, pending, unacked, drainWait, flushing, jwtVars,
                 modeVars, sockVars>>

\* ... and when it stays in the buffer of the socket: the client is paused
\* once the buffer is full.
ForwardLater(m, startsWithP) ==
  /\ MayForward(startsWithP)
  /\ serverRef /\ sSock = "open"
  /\ pending' = Append(pending, m) /\ unacked' = Append(unacked, m)
  /\ drainWait' = (Len(unacked') >= Room)
  /\ paused' = (Len(unacked') >= Room)
  /\ isClientSocketActive' = TRUE
  /\ UNCHANGED <<flushing, flushed, jwtVars, modeVars, sockVars, srvVars>>

ClientSocketData(m, startsWithP) ==
  /\ \/ WhileAsleep(m)
     \/ WhileHeld(m)
     \/ ToHandleJwt(startsWithP)
     \/ ForwardNow(m, startsWithP)
     \/ ForwardLater(m, startsWithP)
  /\ UNCHANGED <<restVars, loginVars>>

\* The client answers the password request, and speaks once it is logged in.
PasswordMessage ==
  /\ CanRead /\ cView = "pwAsked" /\ cView' = "pwSent"
  /\ ClientSocketData(0, TRUE)
  /\ UNCHANGED <<sent, replied>>

ClientChunk ==
  /\ CanRead /\ cView = "ready" /\ sent < MaxChunks
  /\ Pipelined \/ replied = sent
  /\ sent' = sent + 1
  /\ ClientSocketData(sent', sent' \in PChunks)
  /\ UNCHANGED <<cView, replied>>

\* The client goes away.  A paused socket is not read, so its end is not seen.
ClientDisconnect ==
  /\ CanRead
  /\ cSock' = "closed" /\ closeTimers' = closeTimers \union {"client"}
  /\ UNCHANGED <<clientRef, closingClientSocket, sSock, serverRef,
                 closingServerSocket, clientVars, loginVars, jwtVars, bufVars,
                 modeVars, srvVars, miscVars>>

\* resetClientActive's timer: five seconds without traffic.
ClientIdle ==
  /\ isClientSocketActive /\ isClientSocketActive' = FALSE
  /\ UNCHANGED <<paused, restVars, clientVars, loginVars, jwtVars, bufVars,
                 modeVars, sockVars, srvVars>>

-----------------------------------------------------------------------------
(* handleJwt after the verification, and createServerSocket.               *)

\* The token cannot be verified, is not active, or its user is not in the
\* database: the client is told, the connection and the flag stay.
JwtRejected ==
  /\ task = "verify" /\ task' = "none"
  /\ TellClient("refused")
  /\ UNCHANGED <<handlingJwtAuth, loginVars, bufVars, modeVars, srvVars,
                 miscVars>>

\* The token is of another user: building the notice throws.
JwtMismatch ==
  /\ task = "verify" /\ task' = "none"
  /\ cView = "pwSent"
  /\ user' = "token"
  /\ CloseSockets
  /\ UNCHANGED <<clientVars, handlingJwtAuth, closeTimers, secure, sslHandled,
                 userType, isAuthenticated, bufVars, modeVars, srvVars,
                 miscVars>>

JwtAccepted ==
  /\ task = "verify" /\ task' = "start"
  /\ cView = "pwSent"
  /\ user' = "token"
  /\ UNCHANGED <<clientVars, handlingJwtAuth, secure, sslHandled, userType,
                 isAuthenticated, bufVars, modeVars, sockVars, srvVars,
                 miscVars>>

\* createProxyConnection: refused when the client socket has left the table.
CreateProxyConnection ==
  IF clientRef /\ "client" \in registered
  THEN /\ serverRef' = TRUE /\ sSock' = "connecting"
       /\ registered' = registered \union {"server"}
       /\ UNCHANGED <<cSock, clientRef, closingClientSocket,
                      closingServerSocket>>
  ELSE CloseSockets /\ UNCHANGED registered

\* admin.startInstance resolves in createServerSocket.
InstanceStarted ==
  /\ task = "start"
  /\ task' = IF clientRef /\ "client" \in registered THEN "connect" ELSE "none"
  /\ CreateProxyConnection
  /\ UNCHANGED <<handlingJwtAuth, closeTimers, paused, isClientSocketActive,
                 shutdownMsg, startUpMsgSent, deaths, clientVars, loginVars,
                 bufVars, modeVars, srvVars>>

\* admin.startInstance rejects: nobody handles the rejection of the promise's
\* executor, which ends the gateway process and this session with it.
InstanceStartFailed ==
  /\ task = "start" /\ task' = "none"
  /\ cSock' = "closed" /\ clientRef' = FALSE /\ closingClientSocket' = FALSE
  /\ registered' = {} /\ closeTimers' = {}
  /\ UNCHANGED <<sSock, serverRef, closingServerSocket, handlingJwtAuth,
                 paused, isClientSocketActive, shutdownMsg, startUpMsgSent,
                 deaths, clientVars, loginVars, bufVars, modeVars, srvVars>>

-----------------------------------------------------------------------------
(* The server socket.                                                      *)

\* The two writes of startUpMsg in _onServerSocketConnect.
StartupMessages ==
  (IF startUpMsgSent THEN 0 ELSE 1) + (IF awaitingReconnect THEN 1 ELSE 0)

\* _onServerSocketConnect, and the code that awaits createServerSocket:
\* onClientSocketData sets the flag on the user object it read before the
\* await, reconnect() resumes the client.
ServerConnect ==
  /\ sSock = "connecting" /\ sSock' = "open"
  /\ startups' = StartupMessages
  /\ startUpMsgSent' = TRUE /\ srv' = "startup" /\ srvQ' = 0
  /\ isAuthenticated' = IF task = "connect" /\ userType # "PUBLIC"
                        THEN isAuthenticated \union {"startup"}
                        ELSE isAuthenticated
  /\ task' = IF task = "connect" THEN "none" ELSE task
  /\ paused' = IF reconnectTask = "connecting" THEN FALSE ELSE paused
  /\ reconnectTask' = IF reconnectTask = "connecting" THEN "none"
                      ELSE reconnectTask
  /\ UNCHANGED <<awaitingReconnect, checkingPgInstStatus, sleepMode,
                 autoCloseSockets, handlingServerSocketClose, cSock,
                 clientRef, closingClientSocket, serverRef,
                 closingServerSocket, closeTimers, isClientSocketActive,
                 shutdownMsg, registered, deaths, secure, sslHandled, user,
                 userType, handlingJwtAuth, clientVars, bufVars>>

\* The instance asks for the password: interceptServerAuth answers for the
\* client; the request reaches only a client the proxy does not log in for.
ServerAskPwIntercepted ==
  /\ sSock = "open" /\ srv = "startup" /\ srv' = "authing"
  /\ Intercepts
  /\ UNCHANGED <<srvQ, startups, clientVars, loginVars, jwtVars, bufVars,
                 modeVars, sockVars, miscVars>>

ServerAskPwProxied ==
  /\ sSock = "open" /\ srv = "startup" /\ srv' = "asked"
  /\ ~Intercepts
  /\ ProxyToClient(IF cView = "startup" THEN "pwAsked" ELSE "confused")
  /\ UNCHANGED <<srvQ, startups, sent, replied, paused, restVars, loginVars,
                 jwtVars, bufVars, modeVars, sockVars>>

\* variant: sleepMode stays on
EndSleepStaysAsleep ==
  awaitingReconnect' = FALSE /\ UNCHANGED <<sleepMode, autoCloseSockets>>

\* A reconnect is over.
EndSleep ==
  awaitingReconnect' = FALSE /\ sleepMode' = FALSE /\ autoCloseSockets' = TRUE

\* What _onServerSocketData does once interceptServerAuth has answered true:
\* a reconnect ends in silence, a first login ends with the AuthenticationOk
\* message passed on to the client.
LoginDone ==
  /\ handlingJwtAuth' = FALSE
  /\ IF awaitingReconnect
     THEN /\ EndSleep
          /\ UNCHANGED <<isClientSocketActive, cView>>
     ELSE /\ ProxyToClient(IF cView = "pwSent" THEN "ready" ELSE "confused")
          /\ UNCHANGED <<awaitingReconnect, sleepMode, autoCloseSockets>>

\* The loop `for (let msg of this.pendingMessages)' runs over an array that
\* writeAndWait extends and the write callback shortens.  The callback of the
\* first write, which the new socket takes at once, runs before the loop goes
\* on, so the loop finds its second element where the third was; every later
\* iteration runs before any callback can, and finds what the one before it
\* appended, until the socket's buffer is full.
LoopWrites(rest) ==
  [j \in 1 .. Room |-> rest[2 + ((j - 1) % (Len(rest) - 1))]]

\* variant: what was sent stays in pendingMessages
PendingAfterFlushKept == pending

\* this.pendingMessages = [] after the loop.
PendingAfterFlush == <<>>

\* AuthenticationOk, with nothing pending, or with one message ...
ServerAuthOkFlush ==
  /\ sSock = "open" /\ srv = "authing" /\ srv' = "ready"
  /\ Intercepts
  /\ Len(pending) <= 1
  /\ Deliver(pending) /\ pending' = PendingAfterFlush
  /\ LoginDone
  /\ UNCHANGED <<unacked, drainWait, flushing, task, checkingPgInstStatus,
                 handlingServerSocketClose, reconnectTask, sent, replied,
                 paused, restVars, loginVars, sockVars>>

\* ... or with more: the loop runs until it has to wait for 'drain'.
ServerAuthOkFlushLoop ==
  /\ sSock = "open" /\ srv = "authing" /\ srv' = "ready"
  /\ Intercepts
  /\ Len(pending) > 1
  /\ Deliver(<<Head(pending)>>)
  /\ LET rest   == Append(Tail(pending), Head(pending))
         writes == LoopWrites(rest)
     IN  pending' = rest \o writes /\ unacked' = writes
  /\ drainWait' = TRUE /\ flushing' = TRUE /\ paused' = TRUE
  /\ UNCHANGED <<isClientSocketActive, restVars, clientVars, loginVars,
                 jwtVars, modeVars, sockVars>>

ServerAuthOkProxied ==
  /\ sSock = "open" /\ srv = "authing" /\ srv' = "ready"
  /\ ~Intercepts
  /\ ProxyToClient(IF cView = "pwSent" THEN "ready" ELSE "confused")
  /\ UNCHANGED <<srvQ, startups, sent, replied, paused, restVars, loginVars,
                 jwtVars, bufVars, modeVars, sockVars>>

\* The kernel takes the oldest buffered write: its callback runs, and the
\* last one lets go whoever waited for 'drain'.
WriteTaken ==
  /\ unacked # <<>> /\ unacked' = Tail(unacked)
  /\ Deliver(<<Head(unacked)>>)
  /\ srv' = IF Head(unacked) = 0 /\ srv = "asked" THEN "authing" ELSE srv
  /\ drainWait' = (drainWait /\ unacked' # <<>>)
  /\ paused' = (paused /\ ~(drainWait /\ unacked' = <<>>))

WriteCallback ==
  /\ WriteTaken /\ ~(flushing /\ unacked' = <<>>)
  /\ pending' = RemoveFirst(pending, Head(unacked))
  /\ UNCHANGED <<flushing, isClientSocketActive, restVars, clientVars,
                 loginVars, jwtVars, modeVars, sockVars>>

FlushEnd ==
  /\ WriteTaken /\ flushing /\ unacked' = <<>>
  /\ pending' = PendingAfterFlush /\ flushing' = FALSE
  /\ LoginDone
  /\ UNCHANGED <<task, checkingPgInstStatus, handlingServerSocketClose,
                 reconnectTask, sent, replied, restVars, loginVars, sockVars>>

\* The instance answers a chunk; while the proxy takes itself to be logging
\* in, interceptServerAuth sends the answer back to the instance.
ServerReply ==
  /\ sSock = "open" /\ srv = "ready" /\ srvQ > 0 /\ srvQ' = srvQ - 1
  /\ IF Intercepts
     THEN UNCHANGED <<isClientSocketActive, clientVars>>
     ELSE /\ ProxyToClient(cView)
          /\ replied' = IF cSock = "open" THEN replied + 1 ELSE replied
          /\ UNCHANGED sent
  /\ UNCHANGED <<srv, startups, paused, restVars, loginVars, jwtVars, bufVars,
                 modeVars, sockVars>>

\* The instance ends the dialogue with an ErrorResponse: it refuses the login
\* or, with code 57P01, shuts down.
ServerFatal(shutdown) ==
  /\ sSock = "open" /\ srv' = "failed"
  /\ IF shutdown THEN srv # "failed" /\ deaths < MaxDeaths
                 ELSE LoginErrors /\ srv = "authing"
  /\ \/ /\ handlingJwtAuth
        /\ cView' = IF cSock = "open" THEN "refused" ELSE cView
        /\ CloseSockets /\ UNCHANGED closeTimers
        /\ UNCHANGED <<isClientSocketActive, shutdownMsg>>
     \/ /\ ~handlingJwtAuth /\ shutdown /\ ~isClientSocketActive
        /\ shutdownMsg' = TRUE
        /\ UNCHANGED <<isClientSocketActive, cView, sockVars>>
     \/ /\ ~handlingJwtAuth /\ ~(shutdown /\ ~isClientSocketActive)
        /\ IF awaitingReconnect THEN UNCHANGED <<isClientSocketActive, cView>>
                                ELSE ProxyToClient("refused")
        /\ UNCHANGED <<shutdownMsg, sockVars>>
  /\ UNCHANGED <<srvQ, startups, sent, replied, paused, registered,
                 startUpMsgSent, deaths, loginVars, jwtVars, bufVars,
                 modeVars>>

\* _onServerSocketClose up to its await.
OnServerSocketClose ==
  \/ /\ handlingServerSocketClose \/ sleepMode \/ cSock # "open"
     /\ UNCHANGED <<handlingServerSocketClose, autoCloseSockets,
                    checkingPgInstStatus, cSock, clientRef,
                    closingClientSocket>>
  \/ /\ ~handlingServerSocketClose /\ ~sleepMode /\ cSock = "open"
     /\ isClientSocketActive
     /\ handlingServerSocketClose' = TRUE
     /\ EndClient
     /\ UNCHANGED <<autoCloseSockets, checkingPgInstStatus>>
  \/ /\ ~handlingServerSocketClose /\ ~sleepMode /\ cSock = "open"
     /\ ~isClientSocketActive
     /\ handlingServerSocketClose' = TRUE /\ autoCloseSockets' = FALSE
     /\ checkingPgInstStatus' = TRUE
     /\ UNCHANGED <<cSock, clientRef, closingClientSocket>>

\* The instance, its pod or the network drops the connection.
ServerDies ==
  /\ sSock \in {"connecting", "open", "ending"}
  /\ deaths < MaxDeaths /\ deaths' = deaths + 1
  /\ closeTimers' = closeTimers \union {"server"}
  /\ ServerGone
  /\ OnServerSocketClose
  /\ UNCHANGED <<serverRef, closingServerSocket, awaitingReconnect, sleepMode,
                 reconnectTask, paused, isClientSocketActive, shutdownMsg,
                 registered, startUpMsgSent, clientVars, loginVars>>

\* getInstanceStatus resolves with a context that has no state, which the
\* code takes for an instance that is not archived.
StatusChecked ==
  /\ checkingPgInstStatus /\ checkingPgInstStatus' = FALSE
  /\ sleepMode' = TRUE /\ handlingServerSocketClose' = FALSE
  /\ UNCHANGED <<awaitingReconnect, autoCloseSockets, reconnectTask,
                 clientVars, loginVars, jwtVars, bufVars, sockVars, srvVars,
                 miscVars>>

-----------------------------------------------------------------------------
(* reconnect() after its awaits.  waitUntil sleeps a second before it      *)
(* tries the port, so the close timer of the old socket has fired by then. *)

ReconnectReady ==
  /\ reconnectTask = "waking" /\ "server" \notin closeTimers
  /\ reconnectTask' = "connecting"
  /\ CreateProxyConnection
  /\ UNCHANGED <<awaitingReconnect, checkingPgInstStatus, sleepMode,
                 autoCloseSockets, handlingServerSocketClose, closeTimers,
                 paused, isClientSocketActive, shutdownMsg, startUpMsgSent,
                 deaths, clientVars, loginVars, jwtVars, bufVars, srvVars>>

ReconnectFailed ==
  /\ reconnectTask = "waking" /\ reconnectTask' = "none"
  /\ cView' = IF shutdownMsg /\ cSock = "open" THEN "refused" ELSE cView
  /\ CloseSockets
  /\ UNCHANGED <<awaitingReconnect, checkingPgInstStatus, sleepMode,
                 autoCloseSockets, handlingServerSocketClose, closeTimers,
                 sent, replied, loginVars, jwtVars, bufVars, srvVars,
                 miscVars>>

-----------------------------------------------------------------------------
(* registerConnection's close handler, 100 ms after the socket closed: the *)
(* socket leaves the table and, unless autoCloseSockets is off, the other  *)
(* one is told to finish and close (destroySoon).                          *)

\* variant: a server socket that is still connecting is overlooked
ServerToDestroyOpen ==
  autoCloseSockets /\ "server" \in registered /\ sSock = "open"

\* The other socket of the session is destroyed.
ServerToDestroy ==
  /\ autoCloseSockets /\ "server" \in registered
  /\ sSock \in {"connecting", "open"}

ClientCloseTimer ==
  /\ "client" \in closeTimers /\ closeTimers' = closeTimers \ {"client"}
  /\ registered' = registered \ {"client"}
  /\ sSock' = IF ServerToDestroy THEN "ending" ELSE sSock
  /\ UNCHANGED <<cSock, clientRef, closingClientSocket, serverRef,
                 closingServerSocket, paused, isClientSocketActive,
                 shutdownMsg, startUpMsgSent, deaths, clientVars, loginVars,
                 jwtVars, bufVars, modeVars, srvVars>>

ServerCloseTimer ==
  /\ "server" \in closeTimers /\ closeTimers' = closeTimers \ {"server"}
  /\ registered' = registered \ {"server"}
  /\ cSock' = IF autoCloseSockets /\ "client" \in registered
                 /\ cSock = "open"
              THEN "ending" ELSE cSock
  /\ UNCHANGED <<clientRef, closingClientSocket, sSock, serverRef,
                 closingServerSocket, paused, isClientSocketActive,
                 shutdownMsg, startUpMsgSent, deaths, clientVars, loginVars,
                 jwtVars, bufVars, modeVars, srvVars>>

-----------------------------------------------------------------------------
\* What the client, the instance and the network may do at any time.
Environment ==
  \/ SSLRequest \/ \E valid \in BOOLEAN : StartupMessage(valid)
  \/ PasswordMessage \/ ClientChunk \/ ClientDisconnect
  \/ ServerDies \/ \E shutdown \in BOOLEAN : ServerFatal(shutdown)
  \/ InstanceStartFailed

\* The proxy's own steps: timers, continuations of awaits, socket callbacks.
Proxy ==
  \/ AccessRefused \/ AccessPublic \/ AccessUser
  \/ JwtRejected \/ JwtMismatch \/ JwtAccepted
  \/ InstanceStarted \/ StatusChecked
  \/ ReconnectReady \/ ReconnectFailed
  \/ ClientEnded \/ ServerEnded \/ ClientCloseTimer \/ ServerCloseTimer
  \/ ClientIdle

\* The instance and the kernel on the other end of a healthy server socket.
Instance ==
  \/ ServerConnect \/ ServerAskPwIntercepted \/ ServerAskPwProxied
  \/ ServerAuthOkFlush \/ ServerAuthOkFlushLoop \/ ServerAuthOkProxied
  \/ WriteCallback \/ FlushEnd \/ ServerReply

Next == Environment \/ Proxy \/ Instance

Spec == Init /\ [][Next]_vars

-----------------------------------------------------------------------------
(* Fairness: a continuation whose promise settles is run, a timer fires, a *)
(* socket told to end ends, the instance and the kernel answer on a        *)
(* connection that is up.  Nothing makes the client speak or leave, and    *)
(* nothing makes a server die.                                             *)

ClosingFairness ==
  /\ WF_vars(ClientEnded) /\ WF_vars(ServerEnded)
  /\ WF_vars(ClientCloseTimer) /\ WF_vars(ServerCloseTimer)
  /\ WF_vars(WriteCallback) /\ WF_vars(FlushEnd)

ReconnectFairness ==
  /\ WF_vars(StatusChecked)
  /\ WF_vars(ReconnectReady \/ ReconnectFailed)
  /\ WF_vars(ServerConnect)
  /\ WF_vars(ServerAskPwIntercepted)
  /\ WF_vars(ServerAuthOkFlush \/ ServerAuthOkFlushLoop)

FairSpec == Spec /\ ClosingFairness /\ ReconnectFairness

-----------------------------------------------------------------------------
(* Properties.                                                             *)

\* The flags that reconnect(), _onServerSocketClose, getInstanceStatus and
\* _onServerSocketData set on either side of their awaits agree: a reconnect
\* runs only in sleep mode, the status check is over by then, and the TCP
\* server may close the session's sockets exactly in neither of the two.
ModeConsistent ==
  /\ awaitingReconnect => sleepMode
  /\ reconnectTask # "none" => awaitingReconnect
  /\ ~(sleepMode /\ checkingPgInstStatus)
  /\ autoCloseSockets <=> ~(sleepMode \/ checkingPgInstStatus)

\* pendingMessages holds a chunk that is not on its way to the instance only
\* while the proxy holds traffic back; a chunk left there in normal operation
\* would be sent out of order by a later reconnect.
BufferedOnlyWhileHeld ==
  cSock = "open" /\ ~sleepMode /\ ~Held => pending = unacked

\* Whenever onClientSocketData would forward a chunk of a logged-in client,
\* there is a server socket to write it to and the instance has accepted the
\* login: the session never forwards into a socket that died unnoticed.
ForwardTargetAlive ==
  cView = "ready" /\ cSock = "open" /\ ~sleepMode /\ ~Held
     => /\ serverRef /\ sSock = "open"
        /\ srv \in {"ready", "failed"}

\* No request of the client reaches an instance that has not accepted a login
\* on this very connection, whatever was buffered before.
NoEarlyTraffic ==
  [][\A i \in Len(flushed) + 1 .. Len(flushed') :
       flushed'[i] # 0 => srv' \in {"ready", "failed"}]_vars

\* The login dialogue of a reconnect stays hidden: a client that is logged in
\* never sees a password request or a second AuthenticationOk.
SilentReconnect == cView # "confused"

\* Every server socket carries exactly one startup message, although the
\* first one and that of a reconnect are sent by two different statements.
StartupOnce == sSock = "open" => startups = 1

\* closeSockets and the close timers end the server socket only after the
\* client socket, so _onServerSocketClose never takes a close of the proxy's
\* own for a loss of the instance.
ServerEndsAfterClient == sSock = "ending" => cSock # "open"

\* Every chunk the client has sent has been handed to the instance, is in the
\* socket's buffer or is held for the reconnect: none is dropped.
NothingLost ==
  cView = "ready" /\ cSock = "open"
     => \A m \in 1 .. sent : Contains(flushed \o pending, m)

\* Chunks reach the instance in the order the client sent them, each once.
InOrder ==
  \A i, j \in 1 .. Len(flushed) : i < j => flushed[i] < flushed[j]

\* The instance of a reconnect has refused the login or gone away again.
LostAgain ==
  /\ awaitingReconnect /\ reconnectTask # "waking"
  /\ sSock = "closed" \/ srv = "failed"

\* A reconnect ends with the session awake or with the client closed, unless
\* the instance refuses the login or goes away again in its course.
ReconnectEnds ==
  awaitingReconnect ~> (~sleepMode \/ cSock # "open" \/ LostAgain)

\* A client that leaves outside of sleep mode takes the session with it: the
\* server socket is closed and the TCP server's table is emptied, also when
\* the server socket is created between the close and its timer.
SessionEnds ==
  (cSock = "closed" /\ "client" \in closeTimers /\ autoCloseSockets)
     ~> (registered = {} /\ sSock \in {"none", "closed"})

\* closeSockets runs to its end, both references are given up, although its
\* client part and its server part may run in two calls at once.
CloseSocketsCompletes == closingClientSocket ~> (~clientRef /\ ~serverRef)
=============================================================================
