------------------------ MODULE ProxyConnection_proof ------------------------
(***************************************************************************)
(* What a proxy session never does, for any number of chunks, any socket   *)
(* buffer that holds them, any number of losses of the instance, with and  *)
(* without TLS, whether or not the client waits for its answers.           *)
(*                                                                         *)
(* None of the properties is inductive.  The inductive invariant IInv has  *)
(* five parts besides the types, in the order in which their proofs rest   *)
(* on one another:                                                         *)
(*   Phases        what the modes and the login's await say of the sockets *)
(*   StartupPhase  which server socket has had its startup message         *)
(*   Dialogue      client and instance are equally far in the login        *)
(*   Buffer        what is pending is on its way unless traffic is held    *)
(*   Unsent        a socket buffers no request before the login is over    *)
(*                                                                         *)
(* The last two sections are about the clients that the proxy treats as    *)
(* it should: one whose chunks do not begin with the byte of a password    *)
(* message (PChunks = {}) and, of these, one that waits for each answer    *)
(* before it speaks again (~Pipelined), which is what every client does    *)
(* that sends one query at a time.  For others the properties are false    *)
(* of the code.  OneAtATime is what such a client adds to IInv.            *)
(***************************************************************************)
EXTENDS ProxyConnection, TLAPS, FiniteSetTheorems, WellFoundedInduction

-----------------------------------------------------------------------------
(* Sequences: what Deliver, RemoveFirst and LoopWrites return.             *)

\* What Deliver adds to the queue of the instance is a number.
LEMMA RequestsCount ==
  ASSUME NEW c \in Seq(Chunks)
  PROVE  Cardinality({i \in DOMAIN c : c[i] # 0}) \in Nat
<1>1. IsFiniteSet(1 .. Len(c))
  BY FS_Interval
<1>2. IsFiniteSet({i \in DOMAIN c : c[i] # 0})
  BY <1>1, FS_Subset
<1> QED
  BY <1>2, FS_CardinalityType

\* Deliver keeps the types of what it changes.
LEMMA DeliverType ==
  ASSUME TypeOK, NEW c \in Seq(Chunks), Deliver(c)
  PROVE  flushed' \in Seq(Chunks) /\ srvQ' \in Nat /\ startups' = startups
  BY RequestsCount DEF TypeOK, BufTypes, SrvTypes, Deliver

\* Taking one element out of a sequence leaves a sequence.
LEMMA RemoveAtType ==
  ASSUME NEW S, NEW s \in Seq(S), NEW i \in 1 .. Len(s)
  PROVE  RemoveAt(s, i) \in Seq(S)
<1>1. SubSeq(s, 1, i - 1) \in Seq(S) /\ SubSeq(s, i + 1, Len(s)) \in Seq(S)
  OBVIOUS
<1> QED
  BY <1>1 DEF RemoveAt

\* A nonempty set of natural numbers has a least element, which Min chooses.
LEMMA MinIsLeast ==
  ASSUME NEW I \in SUBSET Nat, I # {}
  PROVE  Min(I) \in I /\ \A y \in I : Min(I) <= y
<1> DEFINE Less == {ss \in Nat \X Nat : ss[1] < ss[2]}
<1>1. OpToRel(<, Nat) = Less
  BY DEF OpToRel
<1>2. PICK m \in I : \A y \in I : <<y, m>> \notin Less
  BY <1>1, NatLessThanWellFounded, WFMin
<1>3. ASSUME NEW y \in I
      PROVE  m <= y
  <2> DEFINE p == <<y, m>>
  <2>1. p \in Nat \X Nat /\ p[1] = y /\ p[2] = m
    OBVIOUS
  <2>2. ~(p[1] < p[2])
    BY <1>2, <2>1
  <2> QED
    BY <2>1, <2>2
<1> QED
  BY <1>3 DEF Min

\* RemoveFirst takes out the first occurrence, at the least index.
LEMMA RemoveFirstIs ==
  ASSUME NEW S, NEW s \in Seq(S), NEW e, \E i \in 1 .. Len(s) : s[i] = e
  PROVE  RemoveFirst(s, e) = RemoveAt(s, Min({i \in 1 .. Len(s) : s[i] = e}))
  BY DEF RemoveFirst, SelectInSeq

\* pendingMessages stays a sequence of chunks in the write callback.
LEMMA RemoveFirstType ==
  ASSUME NEW S, NEW s \in Seq(S), NEW e
  PROVE  RemoveFirst(s, e) \in Seq(S)
<1>1. CASE \E i \in 1 .. Len(s) : s[i] = e
  <2> DEFINE I == {i \in 1 .. Len(s) : s[i] = e}
  <2>1. I # {} /\ I \in SUBSET Nat
    BY <1>1
  <2>2. Min(I) \in I
    BY <2>1, MinIsLeast
  <2>3. RemoveAt(s, Min(I)) \in Seq(S)
    BY <2>2, RemoveAtType
  <2> QED
    BY <1>1, <2>3, RemoveFirstIs
<1>2. CASE ~\E i \in 1 .. Len(s) : s[i] = e
  BY <1>2 DEF RemoveFirst
<1> QED
  BY <1>1, <1>2

\* The flush loop writes chunks of pendingMessages, Room of them.
LEMMA LoopWritesType ==
  ASSUME NEW rest \in Seq(Chunks), Len(rest) > 1
  PROVE  LoopWrites(rest) \in Seq(Chunks) /\ Len(LoopWrites(rest)) = Room
<1>1. ASSUME NEW j \in 1 .. Room
      PROVE  2 + ((j - 1) % (Len(rest) - 1)) \in 1 .. Len(rest)
  OBVIOUS
<1> QED
  BY <1>1, ConstantsAssumption DEF LoopWrites

-----------------------------------------------------------------------------
(* Types.                                                                  *)

\* What a step leaves alone keeps its type.
LEMMA Keeps ==
  ASSUME TypeOK
  PROVE  /\ UNCHANGED clientVars => ClientTypes'
         /\ UNCHANGED loginVars => LoginTypes'
         /\ UNCHANGED jwtVars => JwtTypes'
         /\ UNCHANGED bufVars => BufTypes'
         /\ UNCHANGED modeVars => ModeTypes'
         /\ UNCHANGED sockVars => SockTypes'
         /\ UNCHANGED srvVars => SrvTypes'
         /\ UNCHANGED restVars => RestTypes'
         /\ UNCHANGED miscVars => FlowTypes' /\ RestTypes'
<1>1. /\ UNCHANGED clientVars => ClientTypes'
      /\ UNCHANGED loginVars => LoginTypes'
      /\ UNCHANGED jwtVars => JwtTypes'
  BY DEF TypeOK, clientVars, ClientTypes, loginVars, LoginTypes, jwtVars,
         JwtTypes
<1>2. UNCHANGED bufVars => BufTypes'
  BY DEF TypeOK, bufVars, BufTypes
<1>3. UNCHANGED modeVars => ModeTypes'
  BY DEF TypeOK, modeVars, ModeTypes
<1>4. UNCHANGED sockVars => SockTypes'
  BY DEF TypeOK, sockVars, SockTypes
<1>5. /\ UNCHANGED srvVars => SrvTypes'
      /\ UNCHANGED restVars => RestTypes'
      /\ UNCHANGED miscVars => FlowTypes' /\ RestTypes'
  BY DEF TypeOK, srvVars, SrvTypes, restVars, RestTypes, miscVars, FlowTypes
<1> QED
  BY <1>1, <1>2, <1>3, <1>4, <1>5

\* Used where a buffer is emptied.
LEMMA NoChunks == <<>> \in Seq(Chunks)
  OBVIOUS

\* The server part of closeSockets.
LEMMA EndServerType ==
  ASSUME TypeOK, EndServer
  PROVE  /\ closingServerSocket' \in BOOLEAN /\ serverRef' \in BOOLEAN
         /\ sSock' \in ServerStates
  BY DEF TypeOK, SockTypes, EndServer, ServerStates

\* The client part of closeSockets.
LEMMA EndClientType ==
  ASSUME TypeOK, EndClient
  PROVE  /\ closingClientSocket' \in BOOLEAN /\ clientRef' \in BOOLEAN
         /\ cSock' \in ClientStates
  BY DEF TypeOK, SockTypes, EndClient, ClientStates

\* closeSockets as a whole.
LEMMA CloseSocketsType ==
  ASSUME TypeOK, CloseSockets, UNCHANGED closeTimers
  PROVE  SockTypes'
<1>1. CASE clientRef /\ ~closingClientSocket
  BY <1>1, EndClientType DEF TypeOK, SockTypes, CloseSockets
<1>2. CASE ~(clientRef /\ ~closingClientSocket)
  BY <1>2, EndServerType DEF TypeOK, SockTypes, CloseSockets
<1> QED
  BY <1>1, <1>2

\* sendNotice and writeAndWait to the client, with their closeSockets.
LEMMA TellClientType ==
  ASSUME TypeOK, NEW view \in Views, TellClient(view)
  PROVE  ClientTypes' /\ SockTypes'
<1>1. ClientTypes'
  BY DEF TypeOK, TellClient, ClientTypes
<1>2. SockTypes'
  BY CloseSocketsType, Keeps DEF TellClient
<1> QED
  BY <1>1, <1>2

\* The new server socket of a first login or a reconnect.
LEMMA CreateProxyConnectionType ==
  ASSUME TypeOK, CreateProxyConnection, UNCHANGED closeTimers
  PROVE  SockTypes' /\ registered' \subseteq {"client", "server"}
  BY CloseSocketsType
     DEF TypeOK, CreateProxyConnection, SockTypes, RestTypes, ServerStates

\* The end of interceptServerAuth.
LEMMA LoginDoneType ==
  ASSUME TypeOK, LoginDone
  PROVE  /\ handlingJwtAuth' \in BOOLEAN /\ isClientSocketActive' \in BOOLEAN
         /\ cView' \in Views /\ awaitingReconnect' \in BOOLEAN
         /\ sleepMode' \in BOOLEAN /\ autoCloseSockets' \in BOOLEAN
  BY DEF TypeOK, ClientTypes, ModeTypes, FlowTypes, LoginDone, EndSleep,
         ProxyToClient, Views

\* What the loss of the server socket does to the session.
LEMMA ServerGoneType ==
  ASSUME TypeOK, ServerGone
  PROVE  JwtTypes' /\ BufTypes' /\ SrvTypes' /\ sSock' = "closed"
<1>1. JwtTypes'
  BY DEF TypeOK, JwtTypes, ServerGone
<1>2. BufTypes'
  BY NoChunks DEF TypeOK, BufTypes, ServerGone
<1>3. SrvTypes' /\ sSock' = "closed"
  BY DEF SrvTypes, ServerGone
<1> QED
  BY <1>1, <1>2, <1>3

\* _onServerSocketClose in its three outcomes.
LEMMA OnServerSocketCloseType ==
  ASSUME TypeOK, OnServerSocketClose
  PROVE  /\ handlingServerSocketClose' \in BOOLEAN
         /\ autoCloseSockets' \in BOOLEAN /\ checkingPgInstStatus' \in BOOLEAN
         /\ closingClientSocket' \in BOOLEAN /\ clientRef' \in BOOLEAN
         /\ cSock' \in ClientStates
  BY EndClientType DEF TypeOK, ModeTypes, SockTypes, OnServerSocketClose

\* The kernel takes the oldest buffered write.
LEMMA WriteTakenType ==
  ASSUME TypeOK, WriteTaken
  PROVE  /\ SrvTypes' /\ flushed' \in Seq(Chunks) /\ unacked' \in Seq(Chunks)
         /\ drainWait' \in BOOLEAN /\ paused' \in BOOLEAN
<1>1. Deliver(<<Head(unacked)>>) /\ <<Head(unacked)>> \in Seq(Chunks)
  BY DEF WriteTaken, TypeOK, BufTypes
<1>2. SrvTypes' /\ flushed' \in Seq(Chunks)
  BY <1>1, DeliverType DEF WriteTaken, TypeOK, SrvTypes
<1> QED
  BY <1>2 DEF WriteTaken, TypeOK, BufTypes, FlowTypes

\* onClientSocketData in its five outcomes.
LEMMA ClientSocketDataType ==
  ASSUME TypeOK, NEW m \in Chunks, NEW p, ClientSocketData(m, p),
         ClientTypes'
  PROVE  TypeOK'
<1>0. RestTypes' /\ LoginTypes'
  BY Keeps DEF ClientSocketData
<1> SUFFICES JwtTypes' /\ BufTypes' /\ ModeTypes' /\ SockTypes' /\ SrvTypes'
             /\ FlowTypes'
  BY <1>0 DEF TypeOK
<1>1. CASE WhileAsleep(m)
  <2>1. BufTypes'
    BY <1>1 DEF WhileAsleep, Hold, TypeOK, BufTypes
  <2>2. ModeTypes'
    BY <1>1 DEF WhileAsleep, TypeOK, ModeTypes
  <2>3. FlowTypes'
    BY <1>1 DEF WhileAsleep, TypeOK, FlowTypes
  <2> QED
    BY <1>1, <2>1, <2>2, <2>3, Keeps DEF WhileAsleep
<1>2. CASE WhileHeld(m)
  BY <1>2, Keeps DEF WhileHeld, Hold, TypeOK, BufTypes, FlowTypes
<1>3. CASE ToHandleJwt(p)
  BY <1>3, Keeps DEF ToHandleJwt, TypeOK, JwtTypes, FlowTypes
<1>4. CASE ForwardNow(m, p)
  <2>1. Deliver(<<m>>) /\ <<m>> \in Seq(Chunks)
    BY <1>4 DEF ForwardNow
  <2>2. SrvTypes'
    BY <1>4, <2>1, DeliverType DEF ForwardNow, TypeOK, SrvTypes
  <2>3. BufTypes' /\ FlowTypes'
    BY <1>4, <2>1, DeliverType DEF ForwardNow, TypeOK, BufTypes, FlowTypes
  <2> QED
    BY <1>4, <2>2, <2>3, Keeps DEF ForwardNow
<1>5. CASE ForwardLater(m, p)
  BY <1>5, Keeps DEF ForwardLater, TypeOK, BufTypes, FlowTypes
<1> QED
  BY <1>1, <1>2, <1>3, <1>4, <1>5 DEF ClientSocketData

\* A new session has its types.
LEMMA InitTypeOK == Init => TypeOK
<1> SUFFICES ASSUME Init PROVE TypeOK
  OBVIOUS
<1>1. ClientTypes
  BY ConstantsAssumption DEF Init, ClientTypes, Views
<1>2. LoginTypes
  BY DEF Init, LoginTypes
<1>3. JwtTypes /\ SrvTypes
  BY DEF Init, JwtTypes, SrvTypes
<1>4. BufTypes
  BY NoChunks DEF Init, BufTypes
<1>5. ModeTypes /\ FlowTypes
  BY DEF Init, ModeTypes, FlowTypes
<1>6. SockTypes
  BY DEF Init, SockTypes, ClientStates, ServerStates
<1>7. RestTypes
  <2>1. registered \subseteq {"client", "server"}
    BY DEF Init
  <2>2. deaths \in 0 .. MaxDeaths
    BY ConstantsAssumption DEF Init
  <2> QED
    BY <2>1, <2>2 DEF Init, RestTypes
<1> QED
  BY <1>1, <1>2, <1>3, <1>4, <1>5, <1>6, <1>7 DEF TypeOK

\* Every step keeps the types.
LEMMA NextTypeOK ==
  ASSUME TypeOK, [Next]_vars
  PROVE  TypeOK'
<1>1. CASE SSLRequest
  BY <1>1, Keeps, ConstantsAssumption DEF SSLRequest, CanRead, TypeOK,
     LoginTypes, FlowTypes
<1>2. ASSUME NEW valid \in BOOLEAN, StartupMessage(valid)
      PROVE  TypeOK'
  <2>1. ClientTypes'
    BY <1>2, CloseSocketsType DEF StartupMessage, CanRead, TypeOK,
       ClientTypes, Views
  <2>2. JwtTypes'
    BY <1>2, CloseSocketsType DEF StartupMessage, CanRead, TypeOK, JwtTypes
  <2>3. SockTypes'
    BY <1>2, CloseSocketsType, Keeps DEF StartupMessage
  <2>4. FlowTypes'
    BY <1>2, CloseSocketsType DEF StartupMessage, CanRead, TypeOK, FlowTypes
  <2> QED
    BY <1>2, <2>1, <2>2, <2>3, <2>4, Keeps DEF StartupMessage, TypeOK
<1>3. CASE AccessRefused
  <2>1. ClientTypes' /\ JwtTypes'
    BY <1>3, CloseSocketsType DEF AccessRefused, TypeOK, ClientTypes, Views,
       JwtTypes
  <2>2. SockTypes'
    BY <1>3, CloseSocketsType DEF AccessRefused, TypeOK, SockTypes,
       ClientStates, ServerStates
  <2> QED
    BY <1>3, <2>1, <2>2, Keeps DEF AccessRefused, TypeOK
<1>4. CASE AccessPublic
  BY <1>4, Keeps DEF AccessPublic, TypeOK, LoginTypes, JwtTypes
<1>5. CASE AccessUser
  <2>1. ClientTypes'
    BY <1>5, TellClientType DEF AccessUser, Views
  <2>2. LoginTypes'
    BY <1>5, TellClientType DEF AccessUser, TypeOK, LoginTypes
  <2>3. JwtTypes'
    BY <1>5, TellClientType DEF AccessUser, TypeOK, JwtTypes
  <2>4. SockTypes'
    BY <1>5, TellClientType DEF AccessUser, Views
  <2> QED
    BY <1>5, <2>1, <2>2, <2>3, <2>4, Keeps DEF AccessUser, TypeOK
<1>6. CASE PasswordMessage
  <2>0. 0 \in Chunks
    BY ConstantsAssumption DEF Chunks
  <2>1. ClientSocketData(0, TRUE)
    BY <1>6 DEF PasswordMessage
  <2>2. ClientTypes'
    BY <1>6 DEF PasswordMessage, TypeOK, ClientTypes, Views
  <2> QED
    BY <2>0, <2>1, <2>2, ClientSocketDataType
<1>7. CASE ClientChunk
  <2>1. sent' \in 0 .. MaxChunks /\ sent' \in Chunks
    BY <1>7, ConstantsAssumption
       DEF ClientChunk, Chunks, TypeOK, ClientTypes
  <2>2. ClientSocketData(sent', sent' \in PChunks)
    BY <1>7 DEF ClientChunk
  <2>3. ClientTypes'
    BY <1>7, <2>1 DEF ClientChunk, TypeOK, ClientTypes
  <2> QED
    BY <2>1, <2>2, <2>3, ClientSocketDataType
<1>8. CASE ClientDisconnect
  BY <1>8, Keeps DEF ClientDisconnect, CanRead, TypeOK, SockTypes,
     ClientStates, ServerStates
<1>9. CASE ClientIdle
  BY <1>9, Keeps DEF ClientIdle, TypeOK, FlowTypes
<1>10. CASE JwtRejected
  BY <1>10, Keeps, TellClientType DEF JwtRejected, TypeOK, ClientTypes,
     Views, JwtTypes, SockTypes, ClientStates, ServerStates
<1>11. CASE JwtMismatch
  <2>1. LoginTypes' /\ JwtTypes'
    BY <1>11, CloseSocketsType DEF JwtMismatch, TypeOK, LoginTypes, JwtTypes
  <2>2. SockTypes'
    BY <1>11, CloseSocketsType DEF JwtMismatch, TypeOK, SockTypes,
       ClientStates, ServerStates
  <2> QED
    BY <1>11, <2>1, <2>2, Keeps DEF JwtMismatch, TypeOK
<1>12. CASE JwtAccepted
  BY <1>12, Keeps DEF JwtAccepted, TypeOK, LoginTypes, JwtTypes
<1>13. CASE InstanceStarted
  <2>1. JwtTypes'
    BY <1>13, CreateProxyConnectionType DEF InstanceStarted, TypeOK, JwtTypes
  <2>2. SockTypes'
    BY <1>13, CreateProxyConnectionType DEF InstanceStarted, TypeOK,
       SockTypes, ClientStates, ServerStates
  <2>3. RestTypes' /\ FlowTypes'
    BY <1>13, CreateProxyConnectionType DEF InstanceStarted, TypeOK,
       RestTypes, FlowTypes
  <2> QED
    BY <1>13, <2>1, <2>2, <2>3, Keeps DEF InstanceStarted, TypeOK
<1>14. CASE InstanceStartFailed
  <2>1. JwtTypes'
    BY <1>14 DEF InstanceStartFailed, TypeOK, JwtTypes
  <2>2. SockTypes'
    BY <1>14 DEF InstanceStartFailed, TypeOK, SockTypes, ClientStates,
       ServerStates
  <2>3. RestTypes' /\ FlowTypes'
    BY <1>14 DEF InstanceStartFailed, TypeOK, RestTypes, FlowTypes
  <2> QED
    BY <1>14, <2>1, <2>2, <2>3, Keeps DEF InstanceStartFailed, TypeOK
<1>15. CASE ServerConnect
  <2>1. LoginTypes' /\ JwtTypes'
    BY <1>15 DEF ServerConnect, StartupMessages, TypeOK, LoginTypes, JwtTypes
  <2>2. ModeTypes'
    BY <1>15 DEF ServerConnect, StartupMessages, TypeOK, ModeTypes
  <2>3. SockTypes'
    BY <1>15 DEF ServerConnect, StartupMessages, TypeOK, SockTypes,
       ClientStates, ServerStates
  <2>4. SrvTypes' /\ RestTypes'
    BY <1>15 DEF ServerConnect, StartupMessages, TypeOK, SrvTypes, RestTypes
  <2>5. FlowTypes'
    BY <1>15 DEF ServerConnect, StartupMessages, TypeOK, FlowTypes
  <2> QED
    BY <1>15, <2>1, <2>2, <2>3, <2>4, <2>5, Keeps DEF ServerConnect, TypeOK
<1>16. CASE ServerAskPwIntercepted
  BY <1>16, Keeps DEF ServerAskPwIntercepted, Intercepts, TypeOK, SrvTypes
<1>17. CASE ServerAskPwProxied
  BY <1>17, Keeps DEF ServerAskPwProxied, Intercepts, ProxyToClient, TypeOK,
     ClientTypes, Views, SrvTypes, FlowTypes
<1>18. CASE ServerAuthOkFlush
  <2>1. Deliver(pending) /\ pending \in Seq(Chunks)
    BY <1>18 DEF ServerAuthOkFlush, TypeOK, BufTypes
  <2>2. SrvTypes'
    BY <1>18, <2>1, DeliverType DEF ServerAuthOkFlush, TypeOK, SrvTypes
  <2>3. BufTypes'
    BY <1>18, <2>1, DeliverType
       DEF ServerAuthOkFlush, PendingAfterFlush, TypeOK, BufTypes
  <2>4. ClientTypes' /\ JwtTypes' /\ ModeTypes' /\ FlowTypes'
    BY <1>18, LoginDoneType
       DEF ServerAuthOkFlush, TypeOK, ClientTypes, JwtTypes, ModeTypes, FlowTypes
  <2> QED
    BY <1>18, <2>2, <2>3, <2>4, Keeps DEF ServerAuthOkFlush, TypeOK
<1>19. CASE ServerAuthOkFlushLoop
  <2> DEFINE rest == Append(Tail(pending), Head(pending))
  <2>1. Deliver(<<Head(pending)>>) /\ <<Head(pending)>> \in Seq(Chunks)
    BY <1>19 DEF ServerAuthOkFlushLoop, TypeOK, BufTypes
  <2>2. SrvTypes' /\ flushed' \in Seq(Chunks)
    BY <1>19, <2>1, DeliverType
       DEF ServerAuthOkFlushLoop, TypeOK, SrvTypes
  <2>3. rest \in Seq(Chunks) /\ Len(rest) > 1
    BY <1>19 DEF ServerAuthOkFlushLoop, TypeOK, BufTypes
  <2>4. LoopWrites(rest) \in Seq(Chunks)
    BY <2>3, LoopWritesType
  <2>5. BufTypes' /\ FlowTypes'
    BY <1>19, <2>2, <2>3, <2>4
       DEF ServerAuthOkFlushLoop, TypeOK, BufTypes, FlowTypes
  <2> QED
    BY <1>19, <2>2, <2>5, Keeps DEF ServerAuthOkFlushLoop, TypeOK
<1>20. CASE ServerAuthOkProxied
  BY <1>20, Keeps DEF ServerAuthOkProxied, ProxyToClient, TypeOK,
     ClientTypes, Views, SrvTypes, FlowTypes
<1>21. CASE WriteCallback
  BY <1>21, Keeps, WriteTakenType, RemoveFirstType DEF WriteCallback, TypeOK,
     BufTypes, SrvTypes, FlowTypes
<1>22. CASE FlushEnd
  <2>1. ClientTypes'
    BY <1>22, WriteTakenType, LoginDoneType DEF FlushEnd, PendingAfterFlush,
       TypeOK, ClientTypes, Views
  <2>2. JwtTypes'
    BY <1>22, WriteTakenType, LoginDoneType DEF FlushEnd, PendingAfterFlush,
       TypeOK, JwtTypes
  <2>3. BufTypes'
    BY <1>22, WriteTakenType, LoginDoneType DEF FlushEnd, PendingAfterFlush,
       TypeOK, BufTypes
  <2>4. ModeTypes'
    BY <1>22, WriteTakenType, LoginDoneType DEF FlushEnd, PendingAfterFlush,
       TypeOK, ModeTypes
  <2>5. SrvTypes'
    BY <1>22, WriteTakenType, LoginDoneType DEF FlushEnd, PendingAfterFlush,
       TypeOK, SrvTypes
  <2>6. FlowTypes'
    BY <1>22, WriteTakenType, LoginDoneType DEF FlushEnd, PendingAfterFlush,
       TypeOK, FlowTypes
  <2> QED
    BY <1>22, <2>1, <2>2, <2>3, <2>4, <2>5, <2>6, Keeps DEF FlushEnd, TypeOK
<1>23. CASE ServerReply
  <2>1. ClientTypes'
    <3>1. cView' = cView /\ sent' = sent /\ replied' \in {replied, replied + 1}
      BY <1>23 DEF ServerReply, ProxyToClient, clientVars
    <3> QED
      BY <3>1 DEF TypeOK, ClientTypes
  <2>2. SrvTypes'
    BY <1>23 DEF ServerReply, Intercepts, ProxyToClient, TypeOK, SrvTypes
  <2>3. FlowTypes'
    BY <1>23 DEF ServerReply, Intercepts, ProxyToClient, TypeOK, FlowTypes
  <2> QED
    BY <1>23, <2>1, <2>2, <2>3, Keeps DEF ServerReply, TypeOK
<1>24. ASSUME NEW shutdown \in BOOLEAN, ServerFatal(shutdown)
      PROVE  TypeOK'
  <2>1. ClientTypes'
    BY <1>24, CloseSocketsType DEF ServerFatal, ProxyToClient, TypeOK,
       ClientTypes, Views
  <2>2. SockTypes'
    BY <1>24, CloseSocketsType, Keeps DEF ServerFatal
  <2>3. SrvTypes'
    BY <1>24, CloseSocketsType DEF ServerFatal, ProxyToClient, TypeOK,
       SrvTypes
  <2>4. RestTypes'
    BY <1>24, CloseSocketsType DEF ServerFatal, ProxyToClient, TypeOK,
       RestTypes
  <2>5. FlowTypes'
    BY <1>24, CloseSocketsType DEF ServerFatal, ProxyToClient, TypeOK,
       FlowTypes
  <2> QED
    BY <1>24, <2>1, <2>2, <2>3, <2>4, <2>5, Keeps DEF ServerFatal, TypeOK
<1>25. CASE ServerDies
  <2>1. JwtTypes' /\ BufTypes' /\ SrvTypes' /\ sSock' = "closed"
    BY <1>25, ServerGoneType DEF ServerDies
  <2>2. /\ handlingServerSocketClose' \in BOOLEAN
        /\ autoCloseSockets' \in BOOLEAN /\ checkingPgInstStatus' \in BOOLEAN
        /\ closingClientSocket' \in BOOLEAN /\ clientRef' \in BOOLEAN
        /\ cSock' \in ClientStates
    BY <1>25, OnServerSocketCloseType DEF ServerDies
  <2>3. ModeTypes'
    BY <1>25, <2>2 DEF ServerDies, TypeOK, ModeTypes
  <2>4. SockTypes'
    BY <1>25, <2>1, <2>2 DEF ServerDies, TypeOK, SockTypes, ServerStates
  <2>5. deaths' \in 0 .. MaxDeaths
    BY <1>25, ConstantsAssumption DEF ServerDies, TypeOK, RestTypes
  <2>6. RestTypes' /\ FlowTypes'
    BY <1>25, <2>5 DEF ServerDies, TypeOK, RestTypes, FlowTypes
  <2> QED
    BY <1>25, <2>1, <2>3, <2>4, <2>6, Keeps DEF ServerDies, TypeOK
<1>26. CASE StatusChecked
  BY <1>26, Keeps DEF StatusChecked, TypeOK, ModeTypes
<1>27. CASE ReconnectReady
  <2>1. ModeTypes'
    BY <1>27, CreateProxyConnectionType DEF ReconnectReady, TypeOK, ModeTypes
  <2>2. SockTypes'
    BY <1>27, CreateProxyConnectionType DEF ReconnectReady, TypeOK,
       SockTypes, ClientStates, ServerStates
  <2>3. RestTypes' /\ FlowTypes'
    BY <1>27, CreateProxyConnectionType DEF ReconnectReady, TypeOK,
       RestTypes, FlowTypes
  <2> QED
    BY <1>27, <2>1, <2>2, <2>3, Keeps DEF ReconnectReady, TypeOK
<1>28. CASE ReconnectFailed
  <2>1. ClientTypes'
    BY <1>28, CloseSocketsType DEF ReconnectFailed, TypeOK, ClientTypes,
       Views
  <2>2. ModeTypes'
    BY <1>28, CloseSocketsType DEF ReconnectFailed, TypeOK, ModeTypes
  <2>3. SockTypes'
    BY <1>28, CloseSocketsType DEF ReconnectFailed, TypeOK, SockTypes,
       ClientStates, ServerStates
  <2> QED
    BY <1>28, <2>1, <2>2, <2>3, Keeps DEF ReconnectFailed, TypeOK
<1>29. CASE ClientEnded
  BY <1>29, Keeps, EndServerType DEF ClientEnded, TypeOK, SockTypes,
     ClientStates, ServerStates
<1>30. CASE ServerEnded
  <2>1. JwtTypes' /\ BufTypes'
    BY <1>30, ServerGoneType DEF ServerEnded, TypeOK, JwtTypes, BufTypes
  <2>2. SockTypes'
    BY <1>30, ServerGoneType DEF ServerEnded, TypeOK, SockTypes,
       ClientStates, ServerStates
  <2>3. SrvTypes'
    BY <1>30, ServerGoneType DEF ServerEnded, TypeOK, SrvTypes
  <2> QED
    BY <1>30, <2>1, <2>2, <2>3, Keeps DEF ServerEnded, TypeOK
<1>31. CASE ClientCloseTimer
  <2>1. SockTypes'
    BY <1>31 DEF ClientCloseTimer, ServerToDestroy, TypeOK, SockTypes,
       ClientStates, ServerStates
  <2>2. RestTypes' /\ FlowTypes'
    BY <1>31 DEF ClientCloseTimer, ServerToDestroy, TypeOK, RestTypes,
       FlowTypes
  <2> QED
    BY <1>31, <2>1, <2>2, Keeps DEF ClientCloseTimer, TypeOK
<1>32. CASE ServerCloseTimer
  <2>1. SockTypes'
    BY <1>32 DEF ServerCloseTimer, TypeOK, SockTypes, ClientStates,
       ServerStates
  <2>2. RestTypes' /\ FlowTypes'
    BY <1>32 DEF ServerCloseTimer, TypeOK, RestTypes, FlowTypes
  <2> QED
    BY <1>32, <2>1, <2>2, Keeps DEF ServerCloseTimer, TypeOK
<1>33. CASE UNCHANGED vars
  BY <1>33, Keeps DEF vars, TypeOK
<1> QED
  BY <1>1, <1>2, <1>3, <1>4, <1>5, <1>6, <1>7, <1>8, <1>9, <1>10, <1>11,
     <1>12, <1>13, <1>14, <1>15, <1>16, <1>17, <1>18, <1>19, <1>20, <1>21,
     <1>22, <1>23, <1>24, <1>25, <1>26, <1>27, <1>28, <1>29, <1>30, <1>31,
     <1>32, <1>33 DEF Next, Environment, Proxy, Instance

\* Traffic is no startup message.
LEMMA NoStartup ==
  ASSUME NEW c, Deliver(c)
  PROVE  startups' = startups
  BY DEF Deliver

-----------------------------------------------------------------------------
(* The inductive invariant.                                                *)

\* What the modes say of the server socket: it is gone when the session
\* falls asleep, and it is not open before a reconnect has its new one.
SocketPhase ==
  /\ sleepMode /\ ~awaitingReconnect => sSock = "closed"
  /\ checkingPgInstStatus => sSock = "closed"
  /\ reconnectTask = "waking" => sSock = "closed"
  /\ reconnectTask = "connecting" => sSock # "open" /\ unacked = <<>>
  /\ sSock \in {"none", "connecting", "closed"} =>
       unacked = <<>> /\ ~flushing /\ srv = "none"
  /\ flushing => srv \in {"ready", "failed"}
  /\ sSock = "none" => ~sleepMode /\ ~serverRef

\* How far the login is: no server socket exists before the first call of
\* createServerSocket goes through, which happens once.
LoginPhase ==
  /\ task \in {"access", "start"} => sSock = "none"
  /\ task = "verify" /\ cView = "pwSent" => sSock = "none"
  /\ task = "access" => userType = "none" /\ cView = "startup"
  /\ task = "verify" => userType = "USER"
  /\ userType = "none" =>
       /\ sSock = "none" /\ task \in {"none", "access"}
       /\ cView \in {"new", "startup", "refused"}
  /\ userType = "USER" /\ cView \in {"startup", "pwAsked"} =>
       sSock = "none" /\ task = "none"
  /\ cView = "new" => userType = "none" /\ task = "none"

\* Once closeSockets or a close timer is under way the client is not open.
ClientPhase ==
  /\ ~clientRef \/ closingClientSocket \/ closingServerSocket => cSock # "open"
  /\ "client" \in closeTimers => cSock = "closed"
  /\ ServerEndsAfterClient

Phases == ModeConsistent /\ SocketPhase /\ LoginPhase /\ ClientPhase

\* Every step keeps Phases.
LEMMA NextPhases ==
  ASSUME TypeOK, Phases, [Next]_vars
  PROVE  Phases'
<1> USE DEF Phases, ModeConsistent, SocketPhase, LoginPhase, ClientPhase,
            ServerEndsAfterClient, clientVars, loginVars, jwtVars, bufVars,
            modeVars, sockVars, srvVars, restVars, miscVars
<1>1. CASE SSLRequest
  BY <1>1 DEF SSLRequest, CanRead
<1>2. ASSUME NEW valid \in BOOLEAN, StartupMessage(valid)
      PROVE  Phases'
  BY <1>2 DEF StartupMessage, CanRead, CloseSockets, EndClient, EndServer
<1>3. CASE AccessRefused
  BY <1>3 DEF AccessRefused, CloseSockets, EndClient, EndServer, TypeOK,
     SockTypes
<1>4. CASE AccessPublic
  BY <1>4 DEF AccessPublic
<1>5. CASE AccessUser
  BY <1>5 DEF AccessUser, TellClient, CloseSockets, EndClient, EndServer
<1>6. CASE PasswordMessage
  <2> USE DEF CanRead
  <2>1. cSock = "open" /\ cView = "pwAsked" /\ cView' = "pwSent"
    BY <1>6 DEF PasswordMessage
  <2>2. UNCHANGED <<restVars, loginVars>>
    BY <1>6 DEF PasswordMessage, ClientSocketData
  <2>3. CASE WhileAsleep(0) \/ WhileHeld(0)
    BY <2>1, <2>2, <2>3 DEF WhileAsleep, WhileHeld, Held
  <2>4. CASE ToHandleJwt(TRUE)
    BY <2>1, <2>2, <2>4
       DEF ToHandleJwt, TakenForPassword, TypeOK, LoginTypes
  <2>5. CASE ForwardNow(0, TRUE)
    BY <2>1, <2>2, <2>5 DEF ForwardNow
  <2>6. CASE ForwardLater(0, TRUE)
    BY <2>1, <2>2, <2>6 DEF ForwardLater
  <2> QED
    BY <1>6, <2>3, <2>4, <2>5, <2>6 DEF PasswordMessage, ClientSocketData
<1>7. CASE ClientChunk
  <2> DEFINE m == sent'
             p == sent' \in PChunks
  <2>1. cSock = "open" /\ cView = "ready" /\ cView' = cView
    BY <1>7 DEF ClientChunk, CanRead
  <2>2. UNCHANGED <<restVars, loginVars>> /\ ClientSocketData(m, p)
    BY <1>7 DEF ClientChunk, ClientSocketData
  <2>3. CASE WhileAsleep(m) \/ WhileHeld(m)
    BY <2>1, <2>2, <2>3 DEF WhileAsleep, WhileHeld, Held
  <2>4. CASE ToHandleJwt(p)
    BY <2>1, <2>2, <2>4
       DEF ToHandleJwt, TakenForPassword, TypeOK, LoginTypes
  <2>5. CASE ForwardNow(m, p)
    BY <2>1, <2>2, <2>5 DEF ForwardNow
  <2>6. CASE ForwardLater(m, p)
    BY <2>1, <2>2, <2>6 DEF ForwardLater
  <2> QED
    BY <2>2, <2>3, <2>4, <2>5, <2>6 DEF ClientSocketData
<1>8. CASE ClientDisconnect
  BY <1>8 DEF ClientDisconnect, CanRead
<1>9. CASE ClientIdle
  BY <1>9 DEF ClientIdle
<1>10. CASE JwtRejected
  BY <1>10 DEF JwtRejected, TellClient, CloseSockets, EndClient, EndServer
<1>11. CASE JwtMismatch
  BY <1>11 DEF JwtMismatch, CloseSockets, EndClient, EndServer
<1>12. CASE JwtAccepted
  BY <1>12 DEF JwtAccepted
<1>13. CASE InstanceStarted
  BY <1>13 DEF InstanceStarted, CreateProxyConnection, CloseSockets,
     EndClient, EndServer
<1>14. CASE InstanceStartFailed
  BY <1>14 DEF InstanceStartFailed
<1>15. CASE ServerConnect
  BY <1>15 DEF ServerConnect, StartupMessages
<1>16. CASE ServerAskPwIntercepted
  BY <1>16 DEF ServerAskPwIntercepted, Intercepts
<1>17. CASE ServerAskPwProxied
  BY <1>17 DEF ServerAskPwProxied, Intercepts, ProxyToClient
<1>18. CASE ServerAuthOkFlush
  BY <1>18 DEF ServerAuthOkFlush, Intercepts, LoginDone, EndSleep,
     ProxyToClient, PendingAfterFlush, TypeOK, ModeTypes
<1>19. CASE ServerAuthOkFlushLoop
  BY <1>19 DEF ServerAuthOkFlushLoop, Intercepts
<1>20. CASE ServerAuthOkProxied
  BY <1>20 DEF ServerAuthOkProxied, ProxyToClient
<1>21. CASE WriteCallback
  BY <1>21 DEF WriteCallback, WriteTaken
<1>22. CASE FlushEnd
  BY <1>22 DEF FlushEnd, WriteTaken, LoginDone, EndSleep, ProxyToClient,
     PendingAfterFlush, TypeOK, ModeTypes, BufTypes
<1>23. CASE ServerReply
  BY <1>23 DEF ServerReply, Intercepts, ProxyToClient
<1>24. ASSUME NEW shutdown \in BOOLEAN, ServerFatal(shutdown)
      PROVE  Phases'
  BY <1>24 DEF ServerFatal, ProxyToClient, CloseSockets, EndClient, EndServer
<1>25. CASE ServerDies
  BY <1>25 DEF ServerDies, ServerGone, OnServerSocketClose, EndClient
<1>26. CASE StatusChecked
  BY <1>26 DEF StatusChecked
<1>27. CASE ReconnectReady
  BY <1>27 DEF ReconnectReady, CreateProxyConnection, CloseSockets,
     EndClient, EndServer
<1>28. CASE ReconnectFailed
  BY <1>28 DEF ReconnectFailed, CloseSockets, EndClient, EndServer
<1>29. CASE ClientEnded
  BY <1>29 DEF ClientEnded, EndServer, TypeOK, SockTypes
<1>30. CASE ServerEnded
  BY <1>30 DEF ServerEnded, ServerGone
<1>31. CASE ClientCloseTimer
  BY <1>31 DEF ClientCloseTimer, ServerToDestroy
<1>32. CASE ServerCloseTimer
  BY <1>32 DEF ServerCloseTimer
<1>33. CASE UNCHANGED vars
  BY <1>33 DEF vars
<1> QED
  BY <1>1, <1>2, <1>3, <1>4, <1>5, <1>6, <1>7, <1>8, <1>9, <1>10, <1>11,
     <1>12, <1>13, <1>14, <1>15, <1>16, <1>17, <1>18, <1>19, <1>20, <1>21,
     <1>22, <1>23, <1>24, <1>25, <1>26, <1>27, <1>28, <1>29, <1>30, <1>31,
     <1>32, <1>33 DEF Next, Environment, Proxy, Instance

-----------------------------------------------------------------------------
\* A server socket has had its startup message, and one that still connects
\* will get one: the first or that of a reconnect.
StartupPhase ==
  /\ StartupOnce
  /\ sSock = "open" => startUpMsgSent
  /\ sSock = "none" => ~startUpMsgSent
  /\ sSock = "connecting" => (startUpMsgSent <=> awaitingReconnect)
  /\ awaitingReconnect => startUpMsgSent
  /\ sSock # "none" /\ cView \in {"pwAsked", "ready"} => startUpMsgSent
  /\ cView = "ready" => sSock # "none"

\* Outside of a reconnect the client is as far in its login as the instance.
Dialogue ==
  /\ SilentReconnect
  /\ cSock = "open" /\ ~awaitingReconnect =>
       /\ sSock \in {"connecting", "open"} /\ srv \in {"none", "startup"} =>
            cView = IF handlingJwtAuth THEN "pwSent" ELSE "startup"
       /\ srv = "asked" => cView \in {"pwAsked", "pwSent"} /\ ~handlingJwtAuth
       /\ srv = "authing" => cView = "pwSent"
       /\ ~flushing
  /\ task = "start" => cView = IF handlingJwtAuth THEN "pwSent" ELSE "startup"
  /\ task = "verify" /\ cView = "pwSent" => handlingJwtAuth
  /\ cView \in {"new", "startup", "pwAsked"} => pending = <<>> /\ unacked = <<>>
  /\ cView = "pwSent" /\ userType = "USER" => pending = <<>> /\ unacked = <<>>
  /\ handlingJwtAuth => userType = "USER"
  /\ cView \in {"new", "startup", "pwAsked"} => ~handlingJwtAuth

\* Every step keeps StartupPhase; Dialogue tells who sends the startup.
LEMMA NextStartupPhase ==
  ASSUME TypeOK, Phases, StartupPhase, Dialogue, [Next]_vars
  PROVE  StartupPhase'
<1> USE DEF StartupPhase, StartupOnce, Dialogue, SilentReconnect, Phases,
            ModeConsistent, SocketPhase, LoginPhase, ClientPhase,
            ServerEndsAfterClient, clientVars, loginVars, jwtVars, bufVars,
            modeVars, sockVars, srvVars, restVars, miscVars
<1>1. CASE SSLRequest
  BY <1>1 DEF SSLRequest, CanRead
<1>2. ASSUME NEW valid \in BOOLEAN, StartupMessage(valid)
      PROVE  StartupPhase'
  BY <1>2 DEF StartupMessage, CanRead, CloseSockets, EndClient, EndServer
<1>3. CASE AccessRefused
  BY <1>3 DEF AccessRefused, CloseSockets, EndClient, EndServer
<1>4. CASE AccessPublic
  BY <1>4 DEF AccessPublic
<1>5. CASE AccessUser
  BY <1>5 DEF AccessUser, TellClient, CloseSockets, EndClient, EndServer
<1>6. CASE PasswordMessage
  BY <1>6, NoStartup DEF PasswordMessage, ClientSocketData, WhileAsleep,
     WhileHeld, ToHandleJwt, ForwardNow, ForwardLater, MayForward, Held,
     TakenForPassword, CanRead
<1>7. CASE ClientChunk
  BY <1>7, NoStartup DEF ClientChunk, ClientSocketData, WhileAsleep,
     WhileHeld, ToHandleJwt, ForwardNow, ForwardLater, MayForward, Held,
     TakenForPassword, CanRead
<1>8. CASE ClientDisconnect
  BY <1>8 DEF ClientDisconnect, CanRead
<1>9. CASE ClientIdle
  BY <1>9 DEF ClientIdle
<1>10. CASE JwtRejected
  BY <1>10 DEF JwtRejected, TellClient, CloseSockets, EndClient, EndServer
<1>11. CASE JwtMismatch
  BY <1>11 DEF JwtMismatch, CloseSockets, EndClient, EndServer
<1>12. CASE JwtAccepted
  BY <1>12 DEF JwtAccepted
<1>13. CASE InstanceStarted
  BY <1>13 DEF InstanceStarted, CreateProxyConnection, CloseSockets,
     EndClient, EndServer
<1>14. CASE InstanceStartFailed
  BY <1>14 DEF InstanceStartFailed
<1>15. CASE ServerConnect
  BY <1>15 DEF ServerConnect, StartupMessages
<1>16. CASE ServerAskPwIntercepted
  BY <1>16 DEF ServerAskPwIntercepted, Intercepts
<1>17. CASE ServerAskPwProxied
  BY <1>17 DEF ServerAskPwProxied, Intercepts, ProxyToClient
<1>18. CASE ServerAuthOkFlush
  BY <1>18, NoStartup DEF ServerAuthOkFlush, Intercepts, LoginDone, EndSleep,
     ProxyToClient, PendingAfterFlush
<1>19. CASE ServerAuthOkFlushLoop
  BY <1>19, NoStartup DEF ServerAuthOkFlushLoop, Intercepts
<1>20. CASE ServerAuthOkProxied
  BY <1>20 DEF ServerAuthOkProxied, ProxyToClient
<1>21. CASE WriteCallback
  BY <1>21, NoStartup DEF WriteCallback, WriteTaken
<1>22. CASE FlushEnd
  BY <1>22, NoStartup DEF FlushEnd, WriteTaken, LoginDone, EndSleep,
     ProxyToClient, PendingAfterFlush
<1>23. CASE ServerReply
  BY <1>23 DEF ServerReply, Intercepts, ProxyToClient
<1>24. ASSUME NEW shutdown \in BOOLEAN, ServerFatal(shutdown)
      PROVE  StartupPhase'
  BY <1>24 DEF ServerFatal, ProxyToClient, CloseSockets, EndClient, EndServer
<1>25. CASE ServerDies
  BY <1>25 DEF ServerDies, ServerGone, OnServerSocketClose, EndClient
<1>26. CASE StatusChecked
  BY <1>26 DEF StatusChecked
<1>27. CASE ReconnectReady
  BY <1>27 DEF ReconnectReady, CreateProxyConnection, CloseSockets,
     EndClient, EndServer
<1>28. CASE ReconnectFailed
  BY <1>28 DEF ReconnectFailed, CloseSockets, EndClient, EndServer
<1>29. CASE ClientEnded
  BY <1>29 DEF ClientEnded, EndServer
<1>30. CASE ServerEnded
  BY <1>30 DEF ServerEnded, ServerGone
<1>31. CASE ClientCloseTimer
  BY <1>31 DEF ClientCloseTimer, ServerToDestroy
<1>32. CASE ServerCloseTimer
  BY <1>32 DEF ServerCloseTimer
<1>33. CASE UNCHANGED vars
  BY <1>33 DEF vars
<1> QED
  BY <1>1, <1>2, <1>3, <1>4, <1>5, <1>6, <1>7, <1>8, <1>9, <1>10, <1>11,
     <1>12, <1>13, <1>14, <1>15, <1>16, <1>17, <1>18, <1>19, <1>20, <1>21,
     <1>22, <1>23, <1>24, <1>25, <1>26, <1>27, <1>28, <1>29, <1>30, <1>31,
     <1>32, <1>33 DEF Next, Environment, Proxy, Instance

\* Every step keeps Dialogue.
LEMMA NextDialogue ==
  ASSUME TypeOK, Phases, StartupPhase, Dialogue, [Next]_vars
  PROVE  Dialogue'
<1> USE DEF StartupPhase, StartupOnce, Dialogue, SilentReconnect, Phases,
            ModeConsistent, SocketPhase, LoginPhase, ClientPhase,
            ServerEndsAfterClient, clientVars, loginVars, jwtVars, bufVars,
            modeVars, sockVars, srvVars, restVars, miscVars
<1>1. CASE SSLRequest
  BY <1>1 DEF SSLRequest, CanRead
<1>2. ASSUME NEW valid \in BOOLEAN, StartupMessage(valid)
      PROVE  Dialogue'
  BY <1>2 DEF StartupMessage, CanRead, CloseSockets, EndClient, EndServer
<1>3. CASE AccessRefused
  BY <1>3 DEF AccessRefused, CloseSockets, EndClient, EndServer
<1>4. CASE AccessPublic
  BY <1>4 DEF AccessPublic
<1>5. CASE AccessUser
  BY <1>5 DEF AccessUser, TellClient, CloseSockets, EndClient, EndServer
<1>6. CASE PasswordMessage
  <2> USE DEF CanRead
  <2>1. cSock = "open" /\ cView = "pwAsked" /\ cView' = "pwSent"
    BY <1>6 DEF PasswordMessage
  <2>2. UNCHANGED <<restVars, loginVars>>
    BY <1>6 DEF PasswordMessage, ClientSocketData
  <2>3. CASE WhileAsleep(0) \/ WhileHeld(0)
    BY <2>1, <2>2, <2>3 DEF WhileAsleep, WhileHeld, Held
  <2>4. CASE ToHandleJwt(TRUE)
    <3>1. userType = "USER" /\ sSock = "none" /\ pending = <<>>
      BY <2>1, <2>4 DEF ToHandleJwt, TakenForPassword, TypeOK, LoginTypes
    <3> QED
      BY <2>1, <2>2, <2>4, <3>1 DEF ToHandleJwt
  <2>5. CASE ForwardNow(0, TRUE)
    BY <2>1, <2>2, <2>5, NoStartup DEF ForwardNow, MayForward, Held
  <2>6. CASE ForwardLater(0, TRUE)
    BY <2>1, <2>2, <2>6 DEF ForwardLater, MayForward, Held
  <2> QED
    BY <1>6, <2>3, <2>4, <2>5, <2>6 DEF PasswordMessage, ClientSocketData
<1>7. CASE ClientChunk
  BY <1>7, NoStartup DEF ClientChunk, ClientSocketData, WhileAsleep,
     WhileHeld, ToHandleJwt, ForwardNow, ForwardLater, MayForward, Held,
     TakenForPassword, CanRead, TypeOK, LoginTypes, PendingAfterFlush, Hold
<1>8. CASE ClientDisconnect
  BY <1>8 DEF ClientDisconnect, CanRead
<1>9. CASE ClientIdle
  BY <1>9 DEF ClientIdle
<1>10. CASE JwtRejected
  BY <1>10 DEF JwtRejected, TellClient, CloseSockets, EndClient, EndServer
<1>11. CASE JwtMismatch
  BY <1>11 DEF JwtMismatch, CloseSockets, EndClient, EndServer
<1>12. CASE JwtAccepted
  BY <1>12 DEF JwtAccepted
<1>13. CASE InstanceStarted
  BY <1>13 DEF InstanceStarted, CreateProxyConnection, CloseSockets,
     EndClient, EndServer
<1>14. CASE InstanceStartFailed
  BY <1>14 DEF InstanceStartFailed
<1>15. CASE ServerConnect
  BY <1>15 DEF ServerConnect, StartupMessages
<1>16. CASE ServerAskPwIntercepted
  BY <1>16 DEF ServerAskPwIntercepted, Intercepts
<1>17. CASE ServerAskPwProxied
  BY <1>17 DEF ServerAskPwProxied, Intercepts, ProxyToClient
<1>18. CASE ServerAuthOkFlush
  BY <1>18, NoStartup DEF ServerAuthOkFlush, Intercepts, LoginDone, EndSleep,
     ProxyToClient, PendingAfterFlush
<1>19. CASE ServerAuthOkFlushLoop
  BY <1>19, NoStartup DEF ServerAuthOkFlushLoop, Intercepts
<1>20. CASE ServerAuthOkProxied
  <2>1. /\ UNCHANGED <<jwtVars, bufVars, modeVars, sockVars, userType, startups,
                       startUpMsgSent>>
        /\ sSock = "open" /\ srv = "authing" /\ srv' = "ready"
    BY <1>20 DEF ServerAuthOkProxied
  <2>2. CASE cSock = "open"
    <3>1. cView = "pwSent" /\ cView' = "ready" /\ ~handlingJwtAuth
      BY <1>20, <2>2 DEF ServerAuthOkProxied, Intercepts, ProxyToClient
    <3> QED
      BY <2>1, <2>2, <3>1
  <2>3. CASE cSock # "open"
    BY <1>20, <2>1, <2>3 DEF ServerAuthOkProxied, ProxyToClient
  <2> QED
    BY <2>2, <2>3
<1>21. CASE WriteCallback
  <2>1. /\ UNCHANGED <<cView, userType, jwtVars, modeVars, sockVars, flushing>>
        /\ unacked # <<>>
    BY <1>21 DEF WriteCallback, WriteTaken
  <2>2. srv' = srv \/ (srv = "asked" /\ srv' = "authing")
    BY <1>21 DEF WriteCallback, WriteTaken
  <2>3. /\ cView \notin {"new", "startup", "pwAsked"}
        /\ ~(cView = "pwSent" /\ userType = "USER")
    BY <2>1
  <2> QED
    BY <2>1, <2>2, <2>3
<1>22. CASE FlushEnd
  BY <1>22, NoStartup DEF FlushEnd, WriteTaken, LoginDone, EndSleep,
     ProxyToClient, PendingAfterFlush
<1>23. CASE ServerReply
  BY <1>23 DEF ServerReply, Intercepts, ProxyToClient
<1>24. ASSUME NEW shutdown \in BOOLEAN, ServerFatal(shutdown)
      PROVE  Dialogue'
  BY <1>24 DEF ServerFatal, ProxyToClient, CloseSockets, EndClient, EndServer
<1>25. CASE ServerDies
  BY <1>25 DEF ServerDies, ServerGone, OnServerSocketClose, EndClient
<1>26. CASE StatusChecked
  BY <1>26 DEF StatusChecked
<1>27. CASE ReconnectReady
  BY <1>27 DEF ReconnectReady, CreateProxyConnection, CloseSockets,
     EndClient, EndServer
<1>28. CASE ReconnectFailed
  BY <1>28 DEF ReconnectFailed, CloseSockets, EndClient, EndServer
<1>29. CASE ClientEnded
  BY <1>29 DEF ClientEnded, EndServer
<1>30. CASE ServerEnded
  BY <1>30 DEF ServerEnded, ServerGone
<1>31. CASE ClientCloseTimer
  BY <1>31 DEF ClientCloseTimer, ServerToDestroy
<1>32. CASE ServerCloseTimer
  BY <1>32 DEF ServerCloseTimer
<1>33. CASE UNCHANGED vars
  BY <1>33 DEF vars
<1> QED
  BY <1>1, <1>2, <1>3, <1>4, <1>5, <1>6, <1>7, <1>8, <1>9, <1>10, <1>11,
     <1>12, <1>13, <1>14, <1>15, <1>16, <1>17, <1>18, <1>19, <1>20, <1>21,
     <1>22, <1>23, <1>24, <1>25, <1>26, <1>27, <1>28, <1>29, <1>30, <1>31,
     <1>32, <1>33 DEF Next, Environment, Proxy, Instance

-----------------------------------------------------------------------------
\* What is pending outside of the phases that hold traffic back is in the
\* socket's buffer, and the instance of a logged-in client is there.
Buffer ==
  /\ BufferedOnlyWhileHeld
  /\ cView = "ready" /\ cSock = "open" /\ ~sleepMode /\ ~checkingPgInstStatus =>
       sSock = "open" /\ srv \in {"ready", "failed"}
  /\ sSock \in {"connecting", "open"} => serverRef
  /\ handlingServerSocketClose /\ cSock = "open" => checkingPgInstStatus
  /\ awaitingReconnect =>
       srv # "asked" /\ (srv \in {"startup", "authing"} => unacked = <<>>)

\* The first occurrence of the head is the head.
LEMMA RemoveFirstHead ==
  ASSUME NEW S, NEW s \in Seq(S), s # <<>>
  PROVE  RemoveFirst(s, Head(s)) = Tail(s)
<1> DEFINE I == {i \in 1 .. Len(s) : s[i] = Head(s)}
<1>1. 1 \in I /\ I \in SUBSET Nat
  OBVIOUS
<1>2. Min(I) = 1
  <2>1. Min(I) \in I /\ Min(I) <= 1
    BY <1>1, MinIsLeast
  <2> QED
    BY <2>1
<1>3. RemoveFirst(s, Head(s)) = RemoveAt(s, 1)
  BY <1>1, <1>2, RemoveFirstIs
<1>4. SubSeq(s, 1, 0) = <<>> /\ SubSeq(s, 2, Len(s)) = Tail(s)
  OBVIOUS
<1> QED
  BY <1>3, <1>4 DEF RemoveAt

\* Every step keeps Buffer.
LEMMA NextBuffer ==
  ASSUME TypeOK, Phases, StartupPhase, Dialogue, Buffer, [Next]_vars
  PROVE  Buffer'
<1> USE DEF Buffer, BufferedOnlyWhileHeld, Held, StartupPhase, StartupOnce,
            Dialogue, SilentReconnect, Phases, ModeConsistent, SocketPhase,
            LoginPhase, ClientPhase, ServerEndsAfterClient, clientVars,
            loginVars, jwtVars, bufVars, modeVars, sockVars, srvVars,
            restVars, miscVars
<1>1. CASE SSLRequest
  BY <1>1 DEF SSLRequest, CanRead
<1>2. ASSUME NEW valid \in BOOLEAN, StartupMessage(valid)
      PROVE  Buffer'
  BY <1>2 DEF StartupMessage, CanRead, CloseSockets, EndClient, EndServer
<1>3. CASE AccessRefused
  BY <1>3 DEF AccessRefused, CloseSockets, EndClient, EndServer
<1>4. CASE AccessPublic
  BY <1>4 DEF AccessPublic
<1>5. CASE AccessUser
  BY <1>5 DEF AccessUser, TellClient, CloseSockets, EndClient, EndServer
<1>6. CASE PasswordMessage
  BY <1>6 DEF PasswordMessage, ClientSocketData, WhileAsleep, WhileHeld,
     ToHandleJwt, ForwardNow, ForwardLater, MayForward, Held,
     TakenForPassword, CanRead
<1>7. CASE ClientChunk
  BY <1>7 DEF ClientChunk, ClientSocketData, WhileAsleep, WhileHeld,
     ToHandleJwt, ForwardNow, ForwardLater, MayForward, Held,
     TakenForPassword, CanRead
<1>8. CASE ClientDisconnect
  BY <1>8 DEF ClientDisconnect, CanRead
<1>9. CASE ClientIdle
  BY <1>9 DEF ClientIdle
<1>10. CASE JwtRejected
  BY <1>10 DEF JwtRejected, TellClient, CloseSockets, EndClient, EndServer
<1>11. CASE JwtMismatch
  BY <1>11 DEF JwtMismatch, CloseSockets, EndClient, EndServer
<1>12. CASE JwtAccepted
  BY <1>12 DEF JwtAccepted
<1>13. CASE InstanceStarted
  BY <1>13 DEF InstanceStarted, CreateProxyConnection, CloseSockets,
     EndClient, EndServer
<1>14. CASE InstanceStartFailed
  BY <1>14 DEF InstanceStartFailed
<1>15. CASE ServerConnect
  BY <1>15 DEF ServerConnect, StartupMessages
<1>16. CASE ServerAskPwIntercepted
  BY <1>16 DEF ServerAskPwIntercepted, Intercepts
<1>17. CASE ServerAskPwProxied
  BY <1>17 DEF ServerAskPwProxied, Intercepts, ProxyToClient
<1>18. CASE ServerAuthOkFlush
  BY <1>18 DEF ServerAuthOkFlush, Intercepts, LoginDone, EndSleep,
     ProxyToClient, PendingAfterFlush
<1>19. CASE ServerAuthOkFlushLoop
  BY <1>19 DEF ServerAuthOkFlushLoop, Intercepts
<1>20. CASE ServerAuthOkProxied
  BY <1>20 DEF ServerAuthOkProxied, ProxyToClient
<1>21. CASE WriteCallback
  <2>1. /\ UNCHANGED <<cView, handlingJwtAuth, modeVars, sockVars>>
        /\ unacked # <<>> /\ unacked' = Tail(unacked)
        /\ pending' = RemoveFirst(pending, Head(unacked))
    BY <1>21 DEF WriteCallback, WriteTaken
  <2>2. srv' = srv \/ (srv = "asked" /\ srv' = "authing")
    BY <1>21 DEF WriteCallback, WriteTaken
  <2>3. pending = unacked => pending' = unacked'
    BY <2>1, RemoveFirstHead DEF TypeOK, BufTypes
  <2> QED
    BY <2>1, <2>2, <2>3
<1>22. CASE FlushEnd
  <2>1. /\ UNCHANGED <<checkingPgInstStatus, handlingServerSocketClose, sockVars>>
        /\ unacked' = <<>> /\ pending' = <<>>
    BY <1>22 DEF FlushEnd, PendingAfterFlush
  <2>2. srv \in {"ready", "failed"} /\ srv' = srv
    BY <1>22 DEF FlushEnd, WriteTaken
  <2>3. cSock = "open" => sSock = "open"
    BY <1>22 DEF FlushEnd, TypeOK, SockTypes, ServerStates
  <2> QED
    BY <2>1, <2>2, <2>3
<1>23. CASE ServerReply
  BY <1>23 DEF ServerReply, Intercepts, ProxyToClient
<1>24. ASSUME NEW shutdown \in BOOLEAN, ServerFatal(shutdown)
      PROVE  Buffer'
  <2>1. /\ UNCHANGED <<handlingJwtAuth, bufVars, modeVars>>
        /\ sSock = "open" /\ srv' = "failed"
    BY <1>24 DEF ServerFatal
  <2>2. CASE CloseSockets /\ handlingJwtAuth
    BY <2>1, <2>2 DEF CloseSockets, EndClient, EndServer
  <2>3. CASE UNCHANGED <<sockVars, cView>>
    BY <2>1, <2>3
  <2>4. CASE UNCHANGED sockVars /\ cView' = "refused"
    BY <2>1, <2>4
  <2> QED
    BY <1>24, <2>2, <2>3, <2>4 DEF ServerFatal, ProxyToClient
<1>25. CASE ServerDies
  BY <1>25 DEF ServerDies, ServerGone, OnServerSocketClose, EndClient
<1>26. CASE StatusChecked
  BY <1>26 DEF StatusChecked
<1>27. CASE ReconnectReady
  BY <1>27 DEF ReconnectReady, CreateProxyConnection, CloseSockets,
     EndClient, EndServer
<1>28. CASE ReconnectFailed
  BY <1>28 DEF ReconnectFailed, CloseSockets, EndClient, EndServer
<1>29. CASE ClientEnded
  BY <1>29 DEF ClientEnded, EndServer
<1>30. CASE ServerEnded
  BY <1>30 DEF ServerEnded, ServerGone
<1>31. CASE ClientCloseTimer
  BY <1>31 DEF ClientCloseTimer, ServerToDestroy
<1>32. CASE ServerCloseTimer
  BY <1>32 DEF ServerCloseTimer
<1>33. CASE UNCHANGED vars
  BY <1>33 DEF vars
<1> QED
  BY <1>1, <1>2, <1>3, <1>4, <1>5, <1>6, <1>7, <1>8, <1>9, <1>10, <1>11,
     <1>12, <1>13, <1>14, <1>15, <1>16, <1>17, <1>18, <1>19, <1>20, <1>21,
     <1>22, <1>23, <1>24, <1>25, <1>26, <1>27, <1>28, <1>29, <1>30, <1>31,
     <1>32, <1>33 DEF Next, Environment, Proxy, Instance

-----------------------------------------------------------------------------
\* What the socket's buffer holds before the instance has accepted the login
\* is the password.
Unsent ==
  srv \notin {"ready", "failed"} =>
    \A i \in 1 .. Len(unacked) : unacked[i] = 0

\* What a step hands to an instance that has not accepted the login is the
\* password.
OnlyPassword ==
  \A i \in Len(flushed) + 1 .. Len(flushed') :
    flushed'[i] # 0 => srv' \in {"ready", "failed"}

\* One chunk that may be handed over keeps OnlyPassword.
LEMMA DeliverOne ==
  ASSUME flushed \in Seq(Chunks), NEW m \in Chunks, Deliver(<<m>>),
         m = 0 \/ srv' \in {"ready", "failed"}
  PROVE  OnlyPassword
<1>1. flushed' = flushed \o <<m>>
  BY DEF Deliver
<1> QED
  BY <1>1 DEF OnlyPassword

\* A step that hands over nothing keeps OnlyPassword.
LEMMA DeliverNone ==
  ASSUME flushed \in Seq(Chunks), flushed' = flushed
  PROVE  OnlyPassword
  BY DEF OnlyPassword

\* What the kernel takes from the buffer was allowed into it.
LEMMA TakenUnsent ==
  ASSUME TypeOK, Unsent, WriteTaken
  PROVE  Unsent' /\ OnlyPassword
<1> DEFINE m == Head(unacked)
<1>1. /\ m \in Chunks /\ Deliver(<<m>>) /\ unacked' = Tail(unacked)
      /\ m = 0 \/ srv \in {"ready", "failed"}
      /\ srv' = srv \/ (m = 0 /\ srv = "asked")
  BY DEF WriteTaken, TypeOK, BufTypes, Unsent
<1>2. OnlyPassword
  BY <1>1, DeliverOne DEF TypeOK, BufTypes
<1>3. ASSUME srv \notin {"ready", "failed"}, NEW j \in 1 .. Len(Tail(unacked))
      PROVE  Tail(unacked)[j] = 0
  <2>1. j + 1 \in 1 .. Len(unacked) /\ Tail(unacked)[j] = unacked[j + 1]
    BY DEF WriteTaken, TypeOK, BufTypes
  <2> QED
    BY <1>3, <2>1 DEF Unsent
<1> QED
  BY <1>1, <1>2, <1>3 DEF Unsent

\* Every step keeps Unsent and hands over nothing early.
LEMMA NextUnsent ==
  ASSUME TypeOK, Phases, Dialogue, Buffer, Unsent, [Next]_vars
  PROVE  Unsent' /\ OnlyPassword
<1> USE DEF Phases, ModeConsistent, SocketPhase, Dialogue, Buffer, Unsent,
            OnlyPassword, TypeOK, BufTypes, bufVars, srvVars
<1>1. CASE SSLRequest
  BY <1>1, DeliverNone DEF SSLRequest
<1>2. ASSUME NEW valid \in BOOLEAN, StartupMessage(valid)
      PROVE  Unsent' /\ OnlyPassword
  BY <1>2, DeliverNone DEF StartupMessage
<1>3. CASE AccessRefused
  BY <1>3, DeliverNone DEF AccessRefused
<1>4. CASE AccessPublic
  BY <1>4, DeliverNone DEF AccessPublic
<1>5. CASE AccessUser
  BY <1>5, DeliverNone DEF AccessUser
<1>6. CASE PasswordMessage
  <2>0. 0 \in Chunks
    BY ConstantsAssumption DEF Chunks
  <2>1. /\ ClientSocketData(0, TRUE)
        /\ cSock = "open" /\ cView = "pwAsked"
    BY <1>6 DEF PasswordMessage, CanRead
  <2>2. CASE WhileAsleep(0)
    BY <2>2, DeliverNone DEF WhileAsleep
  <2>5. CASE WhileHeld(0)
    BY <2>5, DeliverNone DEF WhileHeld
  <2>6. CASE ToHandleJwt(TRUE)
    BY <2>6, DeliverNone DEF ToHandleJwt
  <2>3. CASE ForwardNow(0, TRUE)
    <3>1. /\ Deliver(<< 0 >>) /\ UNCHANGED unacked /\ unacked = <<>>
          /\ srv' = srv \/ 0 = 0
      BY <2>3 DEF ForwardNow
    <3> QED
      BY <2>0, <2>1, <3>1, DeliverOne
  <2>4. CASE ForwardLater(0, TRUE)
    <3>1. unacked' = Append(unacked, 0) /\ UNCHANGED <<srv, flushed>>
      BY <2>4 DEF ForwardLater
    <3>2. \A j \in 1 .. Len(unacked') :
            unacked'[j] = IF j <= Len(unacked) THEN unacked[j] ELSE 0
      BY <3>1
    <3> QED
      BY <3>1, <3>2, DeliverNone
  <2> QED
    BY <2>1, <2>2, <2>3, <2>4, <2>5, <2>6 DEF ClientSocketData
<1>7. CASE ClientChunk
  <2> DEFINE m == sent'
             p == sent' \in PChunks
  <2>1. /\ m \in Chunks /\ ClientSocketData(m, p)
        /\ cSock = "open" /\ cView = "ready"
    BY <1>7, ConstantsAssumption
       DEF ClientChunk, CanRead, Chunks, TypeOK, ClientTypes
  <2>2. CASE WhileAsleep(m)
    BY <2>2, DeliverNone DEF WhileAsleep
  <2>5. CASE WhileHeld(m)
    BY <2>5, DeliverNone DEF WhileHeld
  <2>6. CASE ToHandleJwt(p)
    BY <2>6, DeliverNone DEF ToHandleJwt
  <2>3. CASE ForwardNow(m, p)
    <3>1. /\ Deliver(<<m>>) /\ UNCHANGED unacked /\ unacked = <<>>
          /\ srv' = srv \/ m = 0
      BY <2>3 DEF ForwardNow
    <3>2. srv \in {"ready", "failed"}
      BY <2>1, <2>3 DEF ForwardNow, MayForward, Held
    <3> QED
      BY <2>1, <3>1, <3>2, DeliverOne
  <2>4. CASE ForwardLater(m, p)
    <3>1. unacked' = Append(unacked, m) /\ UNCHANGED <<srv, flushed>>
      BY <2>4 DEF ForwardLater
    <3>2. srv \in {"ready", "failed"}
      BY <2>1, <2>4 DEF ForwardLater, MayForward, Held
    <3> QED
      BY <3>1, <3>2, DeliverNone
  <2> QED
    BY <2>1, <2>2, <2>3, <2>4, <2>5, <2>6 DEF ClientSocketData
<1>8. CASE ClientDisconnect
  BY <1>8, DeliverNone DEF ClientDisconnect
<1>9. CASE ClientIdle
  BY <1>9, DeliverNone DEF ClientIdle
<1>10. CASE JwtRejected
  BY <1>10, DeliverNone DEF JwtRejected
<1>11. CASE JwtMismatch
  BY <1>11, DeliverNone DEF JwtMismatch
<1>12. CASE JwtAccepted
  BY <1>12, DeliverNone DEF JwtAccepted
<1>13. CASE InstanceStarted
  BY <1>13, DeliverNone DEF InstanceStarted
<1>14. CASE InstanceStartFailed
  BY <1>14, DeliverNone DEF InstanceStartFailed
<1>15. CASE ServerConnect
  BY <1>15, DeliverNone DEF ServerConnect
<1>16. CASE ServerAskPwIntercepted
  BY <1>16, DeliverNone DEF ServerAskPwIntercepted
<1>17. CASE ServerAskPwProxied
  BY <1>17, DeliverNone DEF ServerAskPwProxied
<1>18. CASE ServerAuthOkFlush
  BY <1>18 DEF ServerAuthOkFlush
<1>19. CASE ServerAuthOkFlushLoop
  BY <1>19 DEF ServerAuthOkFlushLoop
<1>20. CASE ServerAuthOkProxied
  BY <1>20 DEF ServerAuthOkProxied
<1>21. CASE WriteCallback
  BY <1>21, TakenUnsent DEF WriteCallback
<1>22. CASE FlushEnd
  BY <1>22, TakenUnsent DEF FlushEnd
<1>23. CASE ServerReply
  BY <1>23, DeliverNone DEF ServerReply
<1>24. ASSUME NEW shutdown \in BOOLEAN, ServerFatal(shutdown)
      PROVE  Unsent' /\ OnlyPassword
  BY <1>24, DeliverNone DEF ServerFatal
<1>25. CASE ServerDies
  BY <1>25, DeliverNone DEF ServerDies, ServerGone
<1>26. CASE StatusChecked
  BY <1>26, DeliverNone DEF StatusChecked
<1>27. CASE ReconnectReady
  BY <1>27, DeliverNone DEF ReconnectReady
<1>28. CASE ReconnectFailed
  BY <1>28, DeliverNone DEF ReconnectFailed
<1>29. CASE ClientEnded
  BY <1>29, DeliverNone DEF ClientEnded
<1>30. CASE ServerEnded
  BY <1>30, DeliverNone DEF ServerEnded, ServerGone
<1>31. CASE ClientCloseTimer
  BY <1>31, DeliverNone DEF ClientCloseTimer
<1>32. CASE ServerCloseTimer
  BY <1>32, DeliverNone DEF ServerCloseTimer
<1>33. CASE UNCHANGED vars
  BY <1>33, DeliverNone DEF vars
<1> QED
  BY <1>1, <1>2, <1>3, <1>4, <1>5, <1>6, <1>7, <1>8, <1>9, <1>10, <1>11,
     <1>12, <1>13, <1>14, <1>15, <1>16, <1>17, <1>18, <1>19, <1>20, <1>21,
     <1>22, <1>23, <1>24, <1>25, <1>26, <1>27, <1>28, <1>29, <1>30, <1>31,
     <1>32, <1>33 DEF Next, Environment, Proxy, Instance

-----------------------------------------------------------------------------
(* The theorems.                                                           *)

IInv == TypeOK /\ Phases /\ StartupPhase /\ Dialogue /\ Buffer /\ Unsent

\* IInv holds of a new session.
LEMMA InitIInv == Init => IInv
<1> SUFFICES ASSUME Init PROVE IInv
  OBVIOUS
<1>1. TypeOK
  BY InitTypeOK
<1>2. Phases
  BY DEF Init, Phases, ModeConsistent, SocketPhase, LoginPhase, ClientPhase,
         ServerEndsAfterClient
<1>3. StartupPhase /\ Dialogue
  BY DEF Init, StartupPhase, StartupOnce, Dialogue, SilentReconnect
<1>4. Buffer
  BY DEF Init, Buffer, BufferedOnlyWhileHeld
<1>5. Unsent
  BY DEF Init, Unsent
<1> QED
  BY <1>1, <1>2, <1>3, <1>4, <1>5 DEF IInv

\* Every step keeps IInv and hands over nothing early.
LEMMA NextIInv ==
  ASSUME IInv, [Next]_vars
  PROVE  IInv' /\ OnlyPassword
  BY NextTypeOK, NextPhases, NextStartupPhase, NextDialogue, NextBuffer,
     NextUnsent DEF IInv

\* IInv is inductive.
THEOREM Invariance == Spec => []IInv
<1>1. IInv /\ [Next]_vars => IInv'
  BY NextIInv
<1> QED
  BY <1>1, InitIInv, PTL DEF Spec

\* Every variable keeps its type: chunks stay chunks through the flush loop,
\* and no counter leaves its bound.
THEOREM TypeCorrect == Spec => []TypeOK
  BY Invariance, PTL DEF IInv

\* The flags set on either side of the awaits of reconnect() and of the
\* status check agree at every moment.
THEOREM ModesAgree == Spec => []ModeConsistent
<1>1. IInv => ModeConsistent
  BY DEF IInv, Phases
<1> QED
  BY <1>1, Invariance, PTL

\* closeSockets and the close timers never end a server socket under an open
\* client.
THEOREM ServerSocketEndsLast == Spec => []ServerEndsAfterClient
<1>1. IInv => ServerEndsAfterClient
  BY DEF IInv, Phases, ClientPhase
<1> QED
  BY <1>1, Invariance, PTL

\* Each server socket gets one startup message, from whichever of the two
\* places that send it.
THEOREM OneStartup == Spec => []StartupOnce
<1>1. IInv => StartupOnce
  BY DEF IInv, StartupPhase
<1> QED
  BY <1>1, Invariance, PTL

\* However often the instance is lost, a logged-in client sees no second
\* login dialogue.
THEOREM ReconnectIsSilent == Spec => []SilentReconnect
<1>1. IInv => SilentReconnect
  BY DEF IInv, Dialogue
<1> QED
  BY <1>1, Invariance, PTL

\* In normal operation pendingMessages is exactly what the socket buffers.
THEOREM NothingLeftBehind == Spec => []BufferedOnlyWhileHeld
<1>1. IInv => BufferedOnlyWhileHeld
  BY DEF IInv, Buffer
<1> QED
  BY <1>1, Invariance, PTL

\* Whenever the proxy would forward a chunk of a logged-in client, its server
\* socket is open and the instance has accepted the login.
THEOREM ForwardsToLiveInstance == Spec => []ForwardTargetAlive
<1>1. IInv => ForwardTargetAlive
  BY DEF IInv, Buffer, ForwardTargetAlive, Held
<1> QED
  BY <1>1, Invariance, PTL

\* No step hands a request to an instance that has not accepted the login.
THEOREM EarlyTrafficNever == Spec => NoEarlyTraffic
<1>1. IInv /\ [Next]_vars => [OnlyPassword]_vars
  BY NextIInv
<1> QED
  BY <1>1, Invariance, PTL DEF Spec, NoEarlyTraffic, OnlyPassword

-----------------------------------------------------------------------------
(* The client whose chunks do not begin with 'p'.                          *)

\* What the next section needs of such a client: once it is logged in, no chunk
\* of it is taken for a password.  Of other clients this is false: the flag that
\* would tell is set on the user object that handleJwt has replaced.
LoginOver == cView = "ready" => ~handlingJwtAuth

LEMMA NextLoginOver ==
  ASSUME PChunks = {}, LoginOver, [Next]_vars
  PROVE  LoginOver'
<1> USE DEF LoginOver
<1>1. CASE \/ SSLRequest \/ ClientDisconnect \/ ClientIdle \/ AccessPublic
           \/ JwtMismatch \/ JwtAccepted \/ InstanceStarted \/ InstanceStartFailed
           \/ ServerConnect \/ ServerAskPwIntercepted \/ ServerAuthOkFlushLoop
           \/ WriteCallback \/ ServerReply \/ StatusChecked \/ ReconnectReady
  <2>1. UNCHANGED <<cView, handlingJwtAuth>>
    BY <1>1
       DEF SSLRequest, ClientDisconnect, ClientIdle, AccessPublic, JwtMismatch,
           JwtAccepted, InstanceStarted, InstanceStartFailed, ServerConnect,
           ServerAskPwIntercepted, ServerAuthOkFlushLoop, WriteCallback,
           ServerReply, ProxyToClient, StatusChecked, ReconnectReady,
           clientVars, jwtVars
  <2> QED
    BY <2>1
<1>2. CASE \/ ClientEnded \/ ServerEnded \/ ClientCloseTimer
           \/ ServerCloseTimer \/ ServerDies \/ UNCHANGED vars
  <2>1. UNCHANGED <<cView, handlingJwtAuth>>
    BY <1>2
       DEF ClientEnded, ServerEnded, ClientCloseTimer, ServerCloseTimer,
           ServerDies, ServerGone, clientVars, jwtVars, vars
  <2> QED
    BY <2>1
<1>3. ASSUME NEW valid \in BOOLEAN, StartupMessage(valid)
      PROVE  LoginOver'
  BY <1>3 DEF StartupMessage
<1>4. CASE AccessRefused \/ AccessUser \/ JwtRejected \/ ReconnectFailed
  BY <1>4 DEF AccessRefused, AccessUser, JwtRejected, ReconnectFailed, TellClient,
     jwtVars
<1>5. CASE PasswordMessage
  BY <1>5 DEF PasswordMessage
<1>6. CASE ClientChunk
  <2>1. UNCHANGED <<cView, handlingJwtAuth>>
    BY <1>6 DEF ClientChunk, ClientSocketData, WhileAsleep, WhileHeld, ToHandleJwt,
       TakenForPassword, ForwardNow, ForwardLater, jwtVars
  <2> QED
    BY <2>1
<1>7. CASE ServerAskPwProxied \/ ServerAuthOkProxied
  BY <1>7 DEF ServerAskPwProxied, ServerAuthOkProxied, Intercepts, ProxyToClient, jwtVars
<1>8. CASE ServerAuthOkFlush \/ FlushEnd
  BY <1>8 DEF ServerAuthOkFlush, FlushEnd, LoginDone
<1>9. ASSUME NEW shutdown \in BOOLEAN, ServerFatal(shutdown)
      PROVE  LoginOver'
  BY <1>9 DEF ServerFatal, ProxyToClient, jwtVars
<1> QED
  BY <1>1, <1>2, <1>3, <1>4, <1>5, <1>6, <1>7, <1>8, <1>9
     DEF Next, Environment, Proxy, Instance

-----------------------------------------------------------------------------
(* The client that also waits for each answer before it speaks again.      *)

\* What the instance has got and what is pending are the password message of a
\* PUBLIC user, if it had to send one, and the client's chunks, in order.
Told ==
  \E k \in {0, 1} : /\ Len(flushed \o pending) = sent + k
                    /\ \A i \in 1 .. sent + k : (flushed \o pending)[i] = i - k

\* At most one message is under way.
OneAtATime ==
  /\ Told
  /\ Len(pending) <= 1 /\ unacked \in {<<>>, pending} /\ ~flushing
  /\ replied + srvQ + (IF pending \in {<<>>, << 0 >>} THEN 0 ELSE 1) <= sent
  /\ handlingJwtAuth => pending = <<>>
  /\ srv = "authing" /\ ~Intercepts => pending = <<>>
  /\ pending = << 0 >> => cView # "ready"
  /\ cView \in {"new", "startup", "pwAsked"} => flushed = <<>>
  /\ cView \in {"new", "startup", "pwAsked", "pwSent"} => sent = 0

\* How many requests Deliver adds to the queue of the instance.
LEMMA NoneCounts == Cardinality({i \in DOMAIN <<>> : <<>>[i] # 0}) = 0
<1>1. {i \in DOMAIN <<>> : <<>>[i] # 0} = {}
  OBVIOUS
<1> QED
  BY <1>1, FS_EmptySet

LEMMA OneCounts ==
  ASSUME NEW m \in Chunks
  PROVE  Cardinality({i \in DOMAIN <<m>> : <<m>>[i] # 0}) = IF m = 0 THEN 0 ELSE 1
<1>1. CASE m = 0
  <2>1. {i \in DOMAIN <<m>> : <<m>>[i] # 0} = {}
    BY <1>1
  <2> QED
    BY <1>1, <2>1, FS_EmptySet
<1>2. CASE m # 0
  <2>1. {i \in DOMAIN <<m>> : <<m>>[i] # 0} = {1}
    BY <1>2
  <2> QED
    BY <1>2, <2>1, FS_Singleton
<1> QED
  BY <1>1, <1>2

LEMMA OneElement ==
  ASSUME NEW S, NEW s \in Seq(S), Len(s) <= 1, s # <<>>
  PROVE  \E m \in S : s = <<m>>
<1>1. Len(s) = 1 /\ s[1] \in S
  OBVIOUS
<1>2. s = <<s[1]>>
  BY <1>1
<1> QED
  BY <1>1, <1>2

\* The kernel takes the only write, whose callback empties pendingMessages.
LEMMA OnlyWriteTaken ==
  ASSUME TypeOK, OneAtATime, WriteTaken
  PROVE  \E m \in Chunks :
           /\ pending = <<m>> /\ unacked = <<m>> /\ unacked' = <<>>
           /\ flushed' = flushed \o <<m>>
           /\ srvQ' = srvQ + (IF m = 0 THEN 0 ELSE 1)
           /\ RemoveFirst(pending, Head(unacked)) = <<>>
           /\ srv' = IF m = 0 /\ srv = "asked" THEN "authing" ELSE srv
<1>1. unacked # <<>> /\ unacked = pending /\ Len(pending) = 1 /\ pending \in Seq(Chunks)
  BY DEF WriteTaken, OneAtATime, TypeOK, BufTypes
<1>2. PICK m \in Chunks : pending = <<m>> /\ Head(unacked) = m /\ Tail(unacked) = <<>>
  <2>1. pending = <<pending[1]>> /\ pending[1] \in Chunks
    BY <1>1
  <2>2. Head(pending) = pending[1] /\ Tail(pending) = <<>>
    BY <1>1
  <2> QED
    BY <1>1, <2>1, <2>2
<1>3. RemoveFirst(pending, Head(unacked)) = <<>>
  BY <1>1, <1>2, RemoveFirstHead
<1> QED
  BY <1>1, <1>2, <1>3, OneCounts DEF WriteTaken, Deliver

\* What was pending has been handed over, and nothing else.
LEMMA ToldMoved ==
  ASSUME TypeOK, Told, flushed' = flushed \o pending, pending' = <<>>, sent' = sent
  PROVE  Told'
<1>1. flushed' \o pending' = flushed \o pending
  BY DEF TypeOK, BufTypes
<1> QED
  BY <1>1 DEF Told

LEMMA ToldKept ==
  ASSUME Told, UNCHANGED <<flushed, pending, sent>>
  PROVE  Told'
BY DEF Told

\* The next chunk has been put at the end of either.
LEMMA ToldMore ==
  ASSUME TypeOK, Told, pending = <<>>, sent' = sent + 1,
         \/ flushed' = flushed /\ pending' = <<sent'>>
         \/ flushed' = flushed \o <<sent'>> /\ pending' = <<>>
  PROVE  Told'
<1>1. PICK k \in {0, 1} : /\ Len(flushed \o pending) = sent + k
                          /\ \A i \in 1 .. sent + k : (flushed \o pending)[i] = i - k
  BY DEF Told
<1>2. flushed \in Seq(Chunks) /\ sent \in Nat /\ sent' \in Nat
  BY DEF TypeOK, BufTypes, ClientTypes
<1>3. flushed \o pending = flushed
  BY <1>2
<1>4. flushed' \o pending' = Append(flushed, sent')
  <2>1. CASE flushed' = flushed /\ pending' = <<sent'>>
    BY <1>2, <2>1
  <2>2. CASE flushed' = flushed \o <<sent'>> /\ pending' = <<>>
    BY <1>2, <2>2
  <2> QED
    BY <2>1, <2>2
<1>5. Len(Append(flushed, sent')) = sent' + k
  BY <1>1, <1>2, <1>3
<1>6. ASSUME NEW i \in 1 .. sent' + k PROVE Append(flushed, sent')[i] = i - k
  <2>1. CASE i \in 1 .. sent + k
    BY <1>1, <1>2, <1>3, <2>1
  <2>2. CASE i = sent + k + 1
    BY <1>1, <1>2, <1>3, <2>2
  <2>3. i \in 1 .. sent + k \/ i = sent + k + 1
    BY <1>2
  <2> QED
    BY <2>1, <2>2, <2>3
<1> QED
  BY <1>4, <1>5, <1>6 DEF Told

\* The password message of a PUBLIC user comes first.
LEMMA ToldPassword ==
  ASSUME flushed = <<>>, pending = <<>>, sent = 0, sent' = 0,
         \/ flushed' = <<>> /\ pending' = << 0 >>
         \/ flushed' = << 0 >> /\ pending' = <<>>
  PROVE  Told'
<1> DEFINE s == flushed' \o pending'
<1>1. Len(s) = 1 /\ s[1] = 0
  <2>1. << 0 >> \in Seq(Nat) /\ <<>> \in Seq(Nat)
    OBVIOUS
  <2>2. CASE flushed' = <<>> /\ pending' = << 0 >>
    BY <2>1, <2>2
  <2>3. CASE flushed' = << 0 >> /\ pending' = <<>>
    BY <2>1, <2>3
  <2> QED
    BY <2>2, <2>3
<1>2. \A i \in 1 .. sent' + 1 : i = 1
  OBVIOUS
<1> QED
  BY <1>1, <1>2 DEF Told

\* A step in which no message of the client is sent, held or handed over.
Aside ==
  /\ UNCHANGED <<sent, replied, pending, flushed, handlingJwtAuth, awaitingReconnect>>
  /\ unacked' \in {<<>>, unacked} /\ flushing' \in {FALSE, flushing}
  /\ srvQ' \in {0, srvQ}
  /\ srv' = "authing" => srv = "authing" \/ Intercepts
  /\ \/ cView' \in {cView, "refused", "confused"}
     \/ cView \in {"new", "startup"} /\ cView' \in {"startup", "pwAsked"}
     \/ cView = "pwSent" /\ pending = <<>> /\ cView' = "ready"

LEMMA AsideKeeps ==
  ASSUME TypeOK, OneAtATime, Aside
  PROVE  OneAtATime'
<1>1. Told'
  BY ToldKept DEF Aside, OneAtATime
<1>2. replied \in Nat /\ srvQ \in Nat /\ sent \in Nat
  BY DEF TypeOK, ClientTypes, SrvTypes
<1>3. replied' + srvQ' + (IF pending' \in {<<>>, << 0 >>} THEN 0 ELSE 1) <= sent'
  <2>1. PICK c \in {0, 1} : /\ c = IF pending \in {<<>>, << 0 >>} THEN 0 ELSE 1
                            /\ c = IF pending' \in {<<>>, << 0 >>} THEN 0 ELSE 1
    BY DEF Aside
  <2>2. replied + srvQ + c <= sent
    BY <2>1 DEF OneAtATime
  <2>3. replied' = replied /\ sent' = sent /\ (srvQ' = 0 \/ srvQ' = srvQ)
    BY DEF Aside
  <2>4. replied' + srvQ' + c <= sent'
    BY ONLY <1>2, <2>1, <2>2, <2>3
  <2> QED
    BY <2>1, <2>4
<1>4. srv' = "authing" /\ ~Intercepts' => pending' = <<>>
  BY DEF Aside, OneAtATime, Intercepts
<1>5. Len(pending') <= 1 /\ unacked' \in {<<>>, pending'} /\ ~flushing'
  <2>1. ~flushing /\ flushing' \in {FALSE, flushing}
    BY DEF Aside, OneAtATime
  <2>2. ~flushing'
    BY ONLY <2>1
  <2>3. pending' = pending /\ unacked' \in {<<>>, unacked}
    BY DEF Aside
  <2> QED
    BY <2>2, <2>3 DEF OneAtATime
<1> QED
  BY <1>1, <1>3, <1>4, <1>5 DEF Aside, OneAtATime

\* Every step keeps OneAtATime.
LEMMA NextOneAtATime ==
  ASSUME PChunks = {}, ~Pipelined, IInv, LoginOver, OneAtATime, [Next]_vars
  PROVE  OneAtATime'
<1> USE DEF IInv, clientVars, loginVars, jwtVars, bufVars, modeVars, sockVars,
            srvVars, restVars, miscVars
<1>0. /\ TypeOK /\ Told /\ pending \in Seq(Chunks) /\ sent \in Nat /\ replied \in Nat
      /\ srvQ \in Nat
  BY DEF OneAtATime, TypeOK, BufTypes, ClientTypes, SrvTypes
<1>2. CASE SSLRequest \/ ClientDisconnect \/ ClientIdle \/ AccessPublic
  BY AsideKeeps, <1>2, <1>0 DEF Aside, SSLRequest, ClientDisconnect, ClientIdle, AccessPublic
<1>3. ASSUME NEW valid \in BOOLEAN, StartupMessage(valid)
      PROVE  OneAtATime'
  BY AsideKeeps, <1>3, <1>0 DEF Aside, StartupMessage
<1>4. CASE AccessRefused \/ ReconnectFailed
  BY AsideKeeps, <1>4, <1>0 DEF Aside, AccessRefused, ReconnectFailed
<1>5. CASE AccessUser
  <2>1. cView = "startup"
    BY <1>5 DEF AccessUser, Phases, LoginPhase
  <2> QED
    BY AsideKeeps, <1>5, <2>1, <1>0 DEF Aside, AccessUser, TellClient
<1>6. CASE JwtRejected
  BY AsideKeeps, <1>6, <1>0 DEF Aside, JwtRejected, TellClient
<1>7. CASE JwtMismatch \/ JwtAccepted \/ InstanceStarted \/ InstanceStartFailed
  BY AsideKeeps, <1>7, <1>0
     DEF Aside, JwtMismatch, JwtAccepted, InstanceStarted, InstanceStartFailed
<1>8. CASE ServerConnect
  BY AsideKeeps, <1>8, <1>0 DEF Aside, ServerConnect
<1>9. CASE ServerAskPwIntercepted
  BY AsideKeeps, <1>9, <1>0 DEF Aside, ServerAskPwIntercepted
<1>10. CASE StatusChecked \/ ReconnectReady
  BY AsideKeeps, <1>10, <1>0 DEF Aside, StatusChecked, ReconnectReady
<1>11. CASE ClientEnded \/ ClientCloseTimer \/ ServerCloseTimer \/ UNCHANGED vars
  BY AsideKeeps, <1>11, <1>0 DEF Aside, ClientEnded, ClientCloseTimer, ServerCloseTimer, vars
<1>12. CASE ServerEnded
  BY AsideKeeps, <1>12, <1>0 DEF Aside, ServerEnded, ServerGone
<1>13. CASE ServerDies
  BY AsideKeeps, <1>13, <1>0 DEF Aside, ServerDies, ServerGone
<1>14. ASSUME NEW shutdown \in BOOLEAN, ServerFatal(shutdown)
       PROVE  OneAtATime'
  BY AsideKeeps, <1>14, <1>0 DEF Aside, ServerFatal, ProxyToClient
<1>15. CASE ServerAskPwProxied
  <2>1. ~handlingJwtAuth /\ ~awaitingReconnect /\ sSock = "open" /\ srv = "startup"
    BY <1>15 DEF ServerAskPwProxied, Intercepts
  <2>2. cView' = cView \/ (cView' = "pwAsked" /\ cView = "startup") \/ cView' = "confused"
    BY <1>15 DEF ServerAskPwProxied, ProxyToClient
  <2> QED
    BY AsideKeeps, <1>15, <2>2, <1>0 DEF Aside, ServerAskPwProxied
<1>16. CASE ServerAuthOkProxied
  <2>1. pending = <<>>
    BY <1>16 DEF ServerAuthOkProxied, OneAtATime
  <2>2. cView' = cView \/ (cView' = "ready" /\ cView = "pwSent") \/ cView' = "confused"
    BY <1>16 DEF ServerAuthOkProxied, ProxyToClient
  <2> QED
    BY AsideKeeps, <1>16, <2>1, <2>2, <1>0 DEF Aside, ServerAuthOkProxied
<1>17. CASE ServerReply
  <2>1. CASE Intercepts
    BY <1>0, <1>17, <2>1, ToldKept DEF ServerReply, OneAtATime, Intercepts
  <2>2. CASE ~Intercepts
    BY <1>0, <1>17, <2>2, ToldKept DEF ServerReply, OneAtATime, Intercepts, ProxyToClient
  <2> QED
    BY <2>1, <2>2
<1>18. CASE WriteCallback
  <2>1. PICK m \in Chunks :
           /\ pending = <<m>> /\ unacked = <<m>> /\ unacked' = <<>>
           /\ flushed' = flushed \o <<m>>
           /\ srvQ' = srvQ + (IF m = 0 THEN 0 ELSE 1)
           /\ RemoveFirst(pending, Head(unacked)) = <<>>
           /\ srv' = IF m = 0 /\ srv = "asked" THEN "authing" ELSE srv
    BY <1>0, <1>18, OnlyWriteTaken DEF WriteCallback
  <2>2. /\ pending' = <<>>
        /\ UNCHANGED <<flushing, sent, replied, cView, handlingJwtAuth, awaitingReconnect>>
    BY <1>18, <2>1 DEF WriteCallback
  <2>3. Told'
    BY <1>0, <2>1, <2>2, ToldMoved
  <2>4. cView \notin {"new", "startup", "pwAsked"}
    BY <2>1 DEF Dialogue
  <2>5. pending = << 0 >> <=> m = 0
    BY <2>1
  <2> QED
    BY <1>0, <2>1, <2>2, <2>3, <2>4, <2>5 DEF OneAtATime
<1>19. CASE FlushEnd
  BY <1>19 DEF FlushEnd, OneAtATime
<1>20. CASE ServerAuthOkFlushLoop
  BY <1>20 DEF ServerAuthOkFlushLoop, OneAtATime
<1>21. CASE ServerAuthOkFlush
  <2>1. /\ flushed' = flushed \o pending /\ pending' = <<>> /\ srv' = "ready"
        /\ handlingJwtAuth' = FALSE /\ Len(pending) <= 1 /\ srv = "authing" /\ sSock = "open"
        /\ srvQ' = srvQ + Cardinality({i \in DOMAIN pending : pending[i] # 0})
        /\ UNCHANGED <<unacked, flushing, sent, replied>>
    BY <1>21 DEF ServerAuthOkFlush, Deliver, PendingAfterFlush, LoginDone
  <2>2. /\ cView' = cView \/ (~awaitingReconnect /\ cView' = "ready" /\ cView = "pwSent")
                \/ cView' = "confused"
        /\ awaitingReconnect \/ handlingJwtAuth
    BY <1>21 DEF ServerAuthOkFlush, LoginDone, ProxyToClient, Intercepts
  <2>3. Told'
    BY <1>0, <2>1, ToldMoved
  <2>4. CASE pending = <<>>
    <3>1. srvQ' = srvQ /\ flushed' = flushed
      BY <1>0, <2>1, <2>4, NoneCounts DEF TypeOK, BufTypes
    <3>2. unacked = <<>>
      BY <2>4 DEF OneAtATime
    <3> QED
      BY <1>0, <2>1, <2>2, <2>3, <2>4, <3>1, <3>2 DEF OneAtATime
  <2>5. CASE pending # <<>>
    <3>1. awaitingReconnect /\ ~handlingJwtAuth
      BY <2>2, <2>5 DEF OneAtATime
    <3>2. unacked = <<>>
      BY <2>1, <3>1 DEF Buffer
    <3>3. PICK m \in Chunks : pending = <<m>>
      BY <1>0, <2>1, <2>5, OneElement
    <3>4. srvQ' = srvQ + (IF m = 0 THEN 0 ELSE 1)
      BY <2>1, <3>3, OneCounts
    <3>5. (pending = << 0 >> <=> m = 0) /\ pending # <<>>
      BY <3>3
    <3>6. cView \notin {"new", "startup", "pwAsked"}
      BY <2>5 DEF Dialogue
    <3>7. cView' \in {cView, "confused"}
      BY <2>2, <3>1
    <3> QED
      BY <1>0, <2>1, <2>3, <3>1, <3>2, <3>4, <3>5, <3>6, <3>7 DEF OneAtATime
  <2> QED
    BY <2>4, <2>5
<1>22. CASE PasswordMessage
  <2>1. /\ cView = "pwAsked" /\ cView' = "pwSent" /\ UNCHANGED <<sent, replied>>
        /\ ClientSocketData(0, TRUE) /\ cSock = "open"
    BY <1>22 DEF PasswordMessage, CanRead
  <2>2. /\ pending = <<>> /\ unacked = <<>> /\ flushed = <<>> /\ sent = 0
        /\ ~handlingJwtAuth
    BY <2>1 DEF Dialogue, OneAtATime
  <2>3. replied = 0 /\ srvQ = 0
    BY <1>0, <2>2 DEF OneAtATime
  <2>4. CASE WhileAsleep(0) \/ WhileHeld(0)
    <3>1. /\ pending' = << 0 >> /\ unacked' = <<>> /\ flushed' = flushed
          /\ UNCHANGED <<flushing, srvQ, srv, handlingJwtAuth>>
      BY <2>2, <2>4 DEF WhileAsleep, WhileHeld, Hold
    <3>2. srv' # "authing" \/ Intercepts'
      <4>1. CASE WhileAsleep(0)
        BY <3>1, <4>1 DEF WhileAsleep, Intercepts, Phases, SocketPhase
      <4>2. CASE WhileHeld(0)
        BY <2>1, <3>1, <4>2 DEF WhileHeld, Held, Intercepts, Phases, SocketPhase
      <4> QED
        BY <2>4, <4>1, <4>2
    <3>3. Told'
      BY <2>1, <2>2, <3>1, ToldPassword
    <3> QED
      BY <2>1, <2>2, <2>3, <3>1, <3>2, <3>3 DEF OneAtATime
  <2>5. CASE ToHandleJwt(TRUE)
    <3>1. UNCHANGED <<pending, flushed, unacked, flushing, srvQ>>
      BY <2>5 DEF ToHandleJwt
    <3>2. Told'
      BY <1>0, <2>1, <3>1, ToldKept
    <3> QED
      BY <2>1, <2>2, <2>3, <3>1, <3>2 DEF OneAtATime
  <2>6. CASE ForwardNow(0, TRUE)
    <3>1. /\ flushed' = flushed \o << 0 >> /\ UNCHANGED <<pending, unacked, flushing>>
          /\ srvQ' = srvQ + Cardinality({i \in DOMAIN << 0 >> : << 0 >>[i] # 0})
          /\ UNCHANGED handlingJwtAuth
      BY <2>6 DEF ForwardNow, Deliver
    <3>2. flushed' = << 0 >>
      BY <2>2, <3>1
    <3>3. srvQ' = 0
      BY <1>0, <2>3, <3>1, OneCounts, ConstantsAssumption DEF Chunks
    <3>4. Told'
      BY <2>1, <2>2, <3>1, <3>2, ToldPassword
    <3> QED
      BY <2>1, <2>2, <2>3, <3>1, <3>3, <3>4 DEF OneAtATime
  <2>7. CASE ForwardLater(0, TRUE)
    <3>1. /\ pending' = << 0 >> /\ unacked' = << 0 >>
          /\ UNCHANGED <<flushed, flushing, srvQ, srv, handlingJwtAuth>>
      BY <2>2, <2>7 DEF ForwardLater
    <3>2. ~awaitingReconnect /\ srv # "authing"
      BY <2>1, <2>7 DEF ForwardLater, MayForward, Held, Dialogue
    <3>3. Told'
      BY <2>1, <2>2, <3>1, ToldPassword
    <3> QED
      BY <2>1, <2>2, <2>3, <3>1, <3>2, <3>3 DEF OneAtATime
  <2> QED
    BY <2>1, <2>4, <2>5, <2>6, <2>7 DEF ClientSocketData
<1>23. CASE ClientChunk
  <2> DEFINE m == sent'
             p == sent' \in PChunks
  <2>1. /\ cView = "ready" /\ cView' = cView /\ replied' = replied
        /\ m = sent + 1 /\ replied = sent /\ sent < MaxChunks
        /\ ClientSocketData(m, p) /\ ~p /\ cSock = "open"
    BY <1>23 DEF ClientChunk, CanRead
  <2>a. m \in Chunks
    BY <1>0, <2>1, ConstantsAssumption DEF Chunks
  <2>2. /\ pending = <<>> /\ unacked = <<>> /\ srvQ = 0 /\ ~handlingJwtAuth
    BY <1>0, <2>1 DEF OneAtATime, LoginOver
  <2>3. m # 0 /\ <<m>> # << 0 >> /\ <<m>> # <<>>
    BY <1>0, <2>1
  <2>4. CASE WhileAsleep(m) \/ WhileHeld(m)
    <3>1. /\ pending' = <<m>> /\ unacked' = <<>> /\ flushed' = flushed
          /\ UNCHANGED <<flushing, srvQ, srv, handlingJwtAuth>>
      BY <2>2, <2>4 DEF WhileAsleep, WhileHeld, Hold
    <3>2. srv' # "authing" \/ Intercepts'
      <4>1. CASE WhileAsleep(m)
        BY <3>1, <4>1 DEF WhileAsleep, Intercepts, Phases, SocketPhase
      <4>2. CASE WhileHeld(m)
        BY <2>1, <2>2, <3>1, <4>2 DEF WhileHeld, Held, Intercepts, Phases, SocketPhase
      <4> QED
        BY <2>4, <4>1, <4>2
    <3>3. Told'
      BY <1>0, <2>1, <2>a, <2>2, <3>1, ToldMore
    <3> QED
      BY <1>0, <2>1, <2>2, <2>3, <3>1, <3>2, <3>3 DEF OneAtATime
  <2>5. CASE ToHandleJwt(p)
    BY <2>1, <2>5 DEF ToHandleJwt, TakenForPassword
  <2>6. CASE ForwardNow(m, p)
    <3>1. /\ flushed' = flushed \o <<m>> /\ UNCHANGED <<pending, unacked, flushing>>
          /\ srvQ' = srvQ + Cardinality({i \in DOMAIN <<m>> : <<m>>[i] # 0})
          /\ UNCHANGED handlingJwtAuth
      BY <2>6 DEF ForwardNow, Deliver
    <3>2. srvQ' = 1
      BY <2>1, <2>a, <2>2, <2>3, <3>1, OneCounts
    <3>3. Told'
      BY <1>0, <2>1, <2>a, <2>2, <3>1, ToldMore
    <3> QED
      BY <1>0, <2>1, <2>2, <3>1, <3>2, <3>3 DEF OneAtATime
  <2>7. CASE ForwardLater(m, p)
    <3>1. /\ pending' = <<m>> /\ unacked' = <<m>>
          /\ UNCHANGED <<flushed, flushing, srvQ, srv, handlingJwtAuth>>
      BY <2>2, <2>7 DEF ForwardLater
    <3>2. srv # "authing"
      BY <2>1, <2>7 DEF ForwardLater, MayForward, Held, Dialogue
    <3>3. Told'
      BY <1>0, <2>1, <2>a, <2>2, <3>1, ToldMore
    <3> QED
      BY <1>0, <2>1, <2>2, <2>3, <3>1, <3>2, <3>3 DEF OneAtATime
  <2> QED
    BY <2>1, <2>4, <2>5, <2>6, <2>7 DEF ClientSocketData
<1> QED
  BY <1>2, <1>3, <1>4, <1>5, <1>6, <1>7, <1>8, <1>9, <1>10, <1>11, <1>12, <1>13,
     <1>14, <1>15, <1>16, <1>17, <1>18, <1>19, <1>20, <1>21, <1>22, <1>23
     DEF Next, Environment, Proxy, Instance

\* OneAtATime holds of a new session.
LEMMA InitOneAtATime == Init => OneAtATime
<1> SUFFICES ASSUME Init PROVE OneAtATime
  OBVIOUS
<1>1. flushed = <<>> /\ pending = <<>> /\ sent = 0
  BY DEF Init
<1>2. Told
  <2>1. Len(flushed \o pending) = 0 + 0
    BY <1>1
  <2> QED
    BY <1>1, <2>1 DEF Told
<1> QED
  BY <1>2 DEF Init, OneAtATime, Intercepts

\* What OneAtATime is about, and all of its own invariant.
LEMMA TakesTurns == PChunks = {} /\ ~Pipelined /\ Spec => []OneAtATime
<1> SUFFICES ASSUME PChunks = {}, ~Pipelined PROVE Spec => []OneAtATime
  OBVIOUS
<1>1. Init => LoginOver /\ OneAtATime
  BY InitOneAtATime DEF Init, LoginOver
<1>2. IInv /\ LoginOver /\ OneAtATime /\ [Next]_vars => LoginOver' /\ OneAtATime'
  BY NextLoginOver, NextOneAtATime
<1> QED
  BY <1>1, <1>2, Invariance, PTL DEF Spec

\* A client that waits for each answer before it speaks again loses nothing to
\* the losses of the instance, however many there are: what it has said has been
\* handed over or is pending.  (The flush loop of interceptServerAuth, which
\* changes the array that it walks, is reached with one message at most.)
THEOREM WaitingClientLosesNothing ==
  PChunks = {} /\ ~Pipelined /\ Spec => []NothingLost
<1> SUFFICES ASSUME PChunks = {}, ~Pipelined PROVE Spec => []NothingLost
  OBVIOUS
<1>1. TypeOK /\ OneAtATime => NothingLost
  <2> SUFFICES ASSUME TypeOK, OneAtATime, NEW m \in 1 .. sent
               PROVE  Contains(flushed \o pending, m)
    BY DEF NothingLost
  <2>1. PICK k \in {0, 1} : /\ Len(flushed \o pending) = sent + k
                            /\ \A i \in 1 .. sent + k : (flushed \o pending)[i] = i - k
    BY DEF OneAtATime, Told
  <2>2. sent \in Nat /\ m + k \in 1 .. sent + k
    BY DEF TypeOK, ClientTypes
  <2>3. (flushed \o pending)[m + k] = m
    BY <2>1, <2>2
  <2> QED
    BY <2>1, <2>2, <2>3 DEF Contains
<1> QED
  BY <1>1, TakesTurns, TypeCorrect, PTL

\* And the instance gets what such a client says in the order in which it was
\* said, each message once, also what was pending when an instance went away.
THEOREM WaitingClientInOrder ==
  PChunks = {} /\ ~Pipelined /\ Spec => []InOrder
<1> SUFFICES ASSUME PChunks = {}, ~Pipelined PROVE Spec => []InOrder
  OBVIOUS
<1>1. TypeOK /\ OneAtATime => InOrder
  <2> SUFFICES ASSUME TypeOK, OneAtATime,
                      NEW i \in 1 .. Len(flushed), NEW j \in 1 .. Len(flushed), i < j
               PROVE  flushed[i] < flushed[j]
    BY DEF InOrder
  <2>1. PICK k \in {0, 1} : /\ Len(flushed \o pending) = sent + k
                            /\ \A x \in 1 .. sent + k : (flushed \o pending)[x] = x - k
    BY DEF OneAtATime, Told
  <2>2. /\ flushed \in Seq(Chunks) /\ pending \in Seq(Chunks) /\ sent \in Nat
    BY DEF TypeOK, BufTypes, ClientTypes
  <2>3. \A x \in 1 .. Len(flushed) :
           x \in 1 .. sent + k /\ (flushed \o pending)[x] = flushed[x]
    BY <2>1, <2>2
  <2>4. flushed[i] = i - k /\ flushed[j] = j - k
    BY <2>1, <2>3
  <2> QED
    BY <2>4
<1> QED
  BY <1>1, TakesTurns, TypeCorrect, PTL
=============================================================================
