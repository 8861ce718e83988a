---------------------------- MODULE Servers_proof ----------------------------
(***************************************************************************)
(* The two servers: the gateway's for TCP, and the admin API's for HTTP.   *)
(*                                                                         *)
(* The tables of the TCP server agree for any number of sessions and of    *)
(* sockets.  The argument: a socket belongs to one session for good, it is *)
(* registered from its creation until its timer, and its timer is pending  *)
(* exactly while it is registered and closed.                              *)
(*                                                                         *)
(* The API answers as it should for any number of callers, whatever they   *)
(* send and whatever changes meanwhile.  The argument: a request carries   *)
(* what is left of the middleware of its route, and what is no longer left *)
(* has been shown (Walks, Shown); each middleware looks at a role or an    *)
(* instance that the request has noted (Notes).  How the table of routes   *)
(* fits that of the requests is RoutesAssumption, which has no constants:  *)
(* TLC decides it, entry by entry.                                         *)
(***************************************************************************)
EXTENDS TcpServer, ApiRequest, TLAPS

(* The TCP server.                                                         *)

\* A socket in use belongs to one session, as a client or as a server socket.
Owned ==
  /\ \A k \in Sockets, s \in Sessions : state[k] = "unused" => k \notin Ever(s)
  /\ \A s, t \in Sessions : s # t => Ever(s) \intersect Ever(t) = {}

\* What a proxy connection refers to is a socket of its session.
RefsOwned ==
  \A s \in Sessions : client[s] \subseteq clients[s]
                      /\ server[s] \subseteq servers[s]

\* A socket is registered until the timer that its closing has set.
Registered ==
  /\ \A k \in Sockets, s \in Sessions :
       k \in Ever(s) /\ k \notin sockets => state[k] = "closed"
  /\ timers = {k \in sockets : state[k] = "closed"}
  /\ \A k \in sockets : \E s \in Sessions : k \in Ever(s)

IInv ==
  /\ TypeOK /\ Owned /\ RefsOwned /\ Registered
  /\ TablesAgree /\ TrackedAreOpen

-----------------------------------------------------------------------------
LEMMA InitIInv == Init => IInv
  BY DEF Init, IInv, TypeOK, Owned, RefsOwned, Registered, TablesAgree,
         TrackedAreOpen, Ever

\* Ended changes no socket but those that are open.
LEMMA EndedProps ==
  ASSUME state \in [Sockets -> {"unused", "open", "ending", "closed"}], NEW STATE K
  PROVE  /\ Ended(K) \in [Sockets -> {"unused", "open", "ending", "closed"}]
         /\ \A k \in Sockets : Ended(K)[k] = "closed" <=> state[k] = "closed"
         /\ \A k \in Sockets : Ended(K)[k] = "unused" <=> state[k] = "unused"
         /\ \A k \in Sockets : Ended(K)[k] = "open" => state[k] = "open"
  BY DEF Ended

\* closeSockets only ends sockets.
LEMMA CloseSocketsProps ==
  ASSUME TypeOK, NEW S \in SUBSET Sessions, CloseSockets(S)
  PROVE  /\ state' \in [Sockets -> {"unused", "open", "ending", "closed"}]
         /\ \A k \in Sockets : state'[k] = "closed" <=> state[k] = "closed"
         /\ \A k \in Sockets : state'[k] = "unused" <=> state[k] = "unused"
         /\ \A k \in Sockets : state'[k] = "open" => state[k] = "open"
         /\ closingClient' \subseteq Sessions
         /\ closingServer' \subseteq Sessions
<1>1. ClientEnds(S) \subseteq Sessions /\ ServerEnds(S) \subseteq Sessions
  BY DEF ClientEnds, ServerEnds
<1>2. closingClient' \subseteq Sessions /\ closingServer' \subseteq Sessions
  BY <1>1 DEF CloseSockets, TypeOK
<1>3. PICK K : state' = Ended(K)
  BY DEF CloseSockets
<1> QED
  BY <1>2, <1>3, EndedProps DEF TypeOK

\* A step that registers a socket nobody had.
LEMMA RegisterStep ==
  ASSUME IInv, NEW s \in Sessions, NEW k \in Sockets, Register(s, k),
         UNCHANGED timers, RefsOwned', TypeOK',
         \/ /\ clients' = [clients EXCEPT ![s] = @ \union {k}]
            /\ UNCHANGED servers
         \/ /\ servers' = [servers EXCEPT ![s] = @ \union {k}]
            /\ UNCHANGED clients
  PROVE  IInv'
<1> USE DEF IInv, TypeOK, Register
<1>1. /\ Ever(s)' = Ever(s) \union {k}
      /\ \A t \in Sessions \ {s} : Ever(t)' = Ever(t)
  BY DEF Ever
<1>2. \A t \in Sessions : k \notin Ever(t)
  BY DEF Owned
<1>3. k \notin sockets
  BY <1>2 DEF Registered
<1>4. Owned'
  BY <1>1, <1>2 DEF Owned
<1>5. Registered'
  BY <1>1, <1>3 DEF Registered
<1>6. TablesAgree'
  BY <1>1, <1>2 DEF TablesAgree
<1>7. TrackedAreOpen'
  BY <1>3 DEF TrackedAreOpen
<1> QED
  BY <1>4, <1>5, <1>6, <1>7

\* A step that ends sockets and leaves the tables alone.
LEMMA EndStep ==
  ASSUME IInv, TypeOK', RefsOwned', UNCHANGED <<tables, timers>>,
         \A k \in Sockets : state'[k] = "closed" <=> state[k] = "closed",
         \A k \in Sockets : state'[k] = "unused" <=> state[k] = "unused"
  PROVE  IInv'
<1> USE DEF IInv, TypeOK, tables
<1>1. Owned'
  BY DEF Owned, Ever
<1>2. Registered'
  BY DEF Registered, Ever
<1>3. TablesAgree'
  BY DEF TablesAgree, Ever
<1>4. TrackedAreOpen'
  BY DEF TrackedAreOpen
<1> QED
  BY <1>1, <1>2, <1>3, <1>4

\* A step in which one socket of a session closes.
LEMMA CloseStep ==
  ASSUME IInv, TypeOK', RefsOwned', NEW s \in Sessions, NEW k \in Ever(s),
         NEW STATE K, Closes(s, k, K), Untrack(k), state[k] # "unused",
         UNCHANGED <<sockets, known, members, clients, servers>>
  PROVE  IInv'
<1> USE DEF IInv, TypeOK
<1>1. k \in Sockets
  BY DEF Ever
<1>2. PICK L : state' = [Ended(L) EXCEPT ![k] = "closed"]
  BY DEF Closes
<1>3. /\ state'[k] = "closed"
      /\ \A j \in Sockets \ {k} :
           /\ state'[j] = "closed" <=> state[j] = "closed"
           /\ state'[j] = "unused" <=> state[j] = "unused"
  BY <1>1, <1>2, EndedProps
<1>4. Owned'
  BY <1>3 DEF Owned, Ever
<1>5. state[k] # "closed" => k \in sockets
  BY <1>1 DEF Registered
<1>6. timers' = {j \in sockets : state'[j] = "closed"}
  <2>1. timers' = timers \union (IF state[k] = "closed" THEN {} ELSE {k})
    BY DEF Closes
  <2>2. timers = {j \in sockets : state[j] = "closed"}
    BY DEF Registered
  <2> QED
    BY <1>1, <1>3, <1>5, <2>1, <2>2
<1>7. Registered'
  BY <1>3, <1>6 DEF Registered, Ever
<1>8. TablesAgree'
  BY DEF TablesAgree, Ever
<1>9. TrackedAreOpen'
  BY <1>1, <1>3 DEF TrackedAreOpen, Untrack
<1> QED
  BY <1>4, <1>7, <1>8, <1>9

-----------------------------------------------------------------------------
\* The invariant's parts that every step keeps besides the tables.
LEMMA NextTypeOK ==
  ASSUME IInv, [Next]_vars
  PROVE  TypeOK' /\ RefsOwned'
<1> USE DEF IInv, TypeOK, RefsOwned, tables, refs, shutVars
<1>1. CASE UNCHANGED vars
  BY <1>1 DEF vars
<1>2. ASSUME NEW s \in Sessions, NEW k \in Sockets, Accept(s, k)
      PROVE  TypeOK' /\ RefsOwned'
  BY <1>2 DEF Accept, Register
<1>3. ASSUME NEW s \in Sessions, NEW k \in Sockets, Upgrade(s, k)
      PROVE  TypeOK' /\ RefsOwned'
  BY <1>3 DEF Upgrade, Register
<1>4. ASSUME NEW s \in Sessions, NEW k \in Sockets, OpenServer(s, k)
      PROVE  TypeOK' /\ RefsOwned'
  BY <1>4 DEF OpenServer, Register
<1>5. ASSUME NEW s \in Sessions, NEW k \in Sockets, NEW STATE K,
             Closes(s, k, K)
      PROVE  /\ state' \in [Sockets -> {"unused", "open", "ending", "closed"}]
             /\ timers' \subseteq Sockets
  <2>1. PICK L : state' = [Ended(L) EXCEPT ![k] = "closed"]
    BY <1>5 DEF Closes
  <2>2. timers' \subseteq Sockets
    BY <1>5 DEF Closes
  <2> QED
    BY <2>1, <2>2, EndedProps
<1>6. ASSUME NEW s \in Sessions, NEW k \in Sockets, ClientLeaves(s, k)
      PROVE  TypeOK' /\ RefsOwned'
  BY <1>5, <1>6 DEF ClientLeaves, Untrack
<1>7. ASSUME NEW s \in Sessions, NEW k \in Sockets, ServerLost(s, k)
      PROVE  TypeOK' /\ RefsOwned'
  <2>1. \/ Closes(s, k, {})
        \/ Closes(s, k, client[s])
    BY <1>7 DEF ServerLost
  <2>2. /\ autoClose' \subseteq Sessions /\ closingClient' \subseteq Sessions
        /\ tracked' \subseteq Sockets
    BY <1>7 DEF ServerLost, Untrack
  <2> QED
    BY <1>5, <1>7, <2>1, <2>2 DEF ServerLost
<1>8. ASSUME NEW s \in Sessions, NEW k \in Sockets, ClientEnded(s, k)
      PROVE  TypeOK' /\ RefsOwned'
  <2>1. /\ state' \in [Sockets -> {"unused", "open", "ending", "closed"}]
        /\ timers' \subseteq Sockets
    BY <1>5, <1>8 DEF ClientEnded
  <2> QED
    BY <1>8, <2>1 DEF ClientEnded, Untrack
<1>9. ASSUME NEW s \in Sessions, NEW k \in Sockets, ServerEnded(s, k)
      PROVE  TypeOK' /\ RefsOwned'
  BY <1>5, <1>9 DEF ServerEnded, Untrack
<1>10. ASSUME NEW s \in Sessions, NEW k \in Sockets, SocketEnded(s, k)
       PROVE  TypeOK' /\ RefsOwned'
  BY <1>5, <1>10 DEF SocketEnded, Untrack
<1>11. ASSUME NEW s \in Sessions, NEW k \in Sockets, CloseTimer(s, k)
       PROVE  TypeOK' /\ RefsOwned'
  BY <1>11, EndedProps DEF CloseTimer
<1>12. ASSUME NEW s \in Sessions, ProxyCloses(s)
       PROVE  TypeOK' /\ RefsOwned'
  BY <1>12, CloseSocketsProps DEF ProxyCloses
<1>13. ASSUME NEW s \in Sessions, OpenServerRefused(s)
       PROVE  TypeOK' /\ RefsOwned'
  BY <1>13 DEF OpenServerRefused, ClientEnds
<1>14. ASSUME NEW s \in Sessions, ReconnectDone(s)
       PROVE  TypeOK' /\ RefsOwned'
  BY <1>14 DEF ReconnectDone
<1>15. ASSUME NEW s \in Sessions, Drain(s)
       PROVE  TypeOK' /\ RefsOwned'
  BY <1>15, CloseSocketsProps DEF Drain
<1>16. CASE Signal
  <2>1. PICK full \in SUBSET {s \in known : ClientOpen(s)} :
          LET written == {s \in known : ClientOpen(s)} \ full
              stalled == {s \in known \ written :
                            client[s] # {} /\ server[s] # {}}
          IN  /\ told' = written \union full /\ awaited' = stalled
              /\ CloseSockets(written) /\ exited' = (stalled = {})
    BY <1>16 DEF Signal
  <2>2. CloseSockets({s \in known : ClientOpen(s)} \ full)
    BY <2>1
  <2>3. told' \subseteq Sessions /\ awaited' \subseteq Sessions
        /\ exited' \in BOOLEAN
    BY <2>1
  <2> QED
    BY <1>16, <2>2, <2>3, CloseSocketsProps DEF Signal
<1> QED
  BY <1>1, <1>2, <1>3, <1>4, <1>6, <1>7, <1>8, <1>9, <1>10, <1>11, <1>12,
     <1>13, <1>14, <1>15, <1>16 DEF Next, Endings, Timers

LEMMA NextIInv ==
  ASSUME IInv, [Next]_vars
  PROVE  IInv'
<1> USE DEF IInv, tables, refs, shutVars
<1>0. TypeOK' /\ RefsOwned'
  BY NextTypeOK
<1>1. CASE UNCHANGED vars
  BY <1>0, <1>1, EndStep DEF vars
<1>2. ASSUME NEW s \in Sessions, NEW k \in Sockets, Accept(s, k)
      PROVE  IInv'
  <2>1. clients' = [clients EXCEPT ![s] = @ \union {k}]
    BY <1>2 DEF Accept, TypeOK
  <2> QED
    BY <1>0, <1>2, <2>1, RegisterStep DEF Accept
<1>3. ASSUME NEW s \in Sessions, NEW k \in Sockets, Upgrade(s, k)
      PROVE  IInv'
  BY <1>0, <1>3, RegisterStep DEF Upgrade
<1>4. ASSUME NEW s \in Sessions, NEW k \in Sockets, OpenServer(s, k)
      PROVE  IInv'
  BY <1>0, <1>4, RegisterStep DEF OpenServer
<1>5. ASSUME NEW s \in Sessions, NEW k \in Ever(s), NEW STATE K,
             Closes(s, k, K), Untrack(k), state[k] # "unused",
             UNCHANGED <<sockets, known, members, clients, servers>>
      PROVE  IInv'
  BY <1>0, <1>5, CloseStep
<1>6. ASSUME NEW s \in Sessions, NEW k \in Sockets, ClientLeaves(s, k)
      PROVE  IInv'
  BY <1>5, <1>6 DEF ClientLeaves, Ever
<1>7. ASSUME NEW s \in Sessions, NEW k \in Sockets, ServerLost(s, k)
      PROVE  IInv'
  <2>1. Closes(s, k, {}) \/ Closes(s, k, client[s])
    BY <1>7 DEF ServerLost
  <2>2. k \in Ever(s)
    BY <1>7 DEF ServerLost, RefsOwned, Ever
  <2> QED
    BY <1>5, <1>7, <2>1, <2>2 DEF ServerLost
<1>8. ASSUME NEW s \in Sessions, NEW k \in Sockets, ClientEnded(s, k)
      PROVE  IInv'
  <2>1. k \in Ever(s)
    BY <1>8 DEF ClientEnded, RefsOwned, Ever
  <2> QED
    BY <1>5, <1>8, <2>1 DEF ClientEnded
<1>9. ASSUME NEW s \in Sessions, NEW k \in Sockets, ServerEnded(s, k)
      PROVE  IInv'
  <2>1. k \in Ever(s)
    BY <1>9 DEF ServerEnded, RefsOwned, Ever
  <2> QED
    BY <1>5, <1>9, <2>1 DEF ServerEnded
<1>10. ASSUME NEW s \in Sessions, NEW k \in Sockets, SocketEnded(s, k)
       PROVE  IInv'
  BY <1>5, <1>10 DEF SocketEnded
<1>11. ASSUME NEW s \in Sessions, NEW k \in Sockets, CloseTimer(s, k)
       PROVE  IInv'
  <2> USE DEF TypeOK
  <2>1. /\ \A j \in Sockets : state'[j] = "closed" <=> state[j] = "closed"
        /\ \A j \in Sockets : state'[j] = "unused" <=> state[j] = "unused"
    BY <1>11, EndedProps DEF CloseTimer
  <2>2. \A t \in Sessions : Ever(t)' = Ever(t)
    BY <1>11 DEF CloseTimer, Ever
  <2>3. state[k] = "closed" /\ k \in sockets
    BY <1>11 DEF CloseTimer, Registered
  <2>4. Owned'
    BY <2>1, <2>2 DEF Owned
  <2>5. Registered'
    BY <1>11, <2>1, <2>2, <2>3 DEF CloseTimer, Registered
  <2>6. TablesAgree'
    <3>1. \A t \in Sessions \ {s} : k \notin Ever(t)
      BY <1>11 DEF CloseTimer, Owned
    <3>2. \A t \in Sessions : members'[t] = sockets' \intersect Ever(t)
      BY <1>11, <3>1 DEF CloseTimer, TablesAgree
    <3>3. \A t \in Sessions : t \in known' <=> members'[t] # {}
      BY <1>11 DEF CloseTimer, TablesAgree, Empty
    <3> QED
      BY <2>2, <3>2, <3>3 DEF TablesAgree
  <2>7. TrackedAreOpen'
    BY <1>11, <2>1, <2>3 DEF CloseTimer, TrackedAreOpen
  <2> QED
    BY <1>0, <2>4, <2>5, <2>6, <2>7
<1>12. ASSUME NEW s \in Sessions, ProxyCloses(s)
       PROVE  IInv'
  BY <1>0, <1>12, CloseSocketsProps, EndStep DEF ProxyCloses
<1>13. ASSUME NEW s \in Sessions, OpenServerRefused(s)
       PROVE  IInv'
  BY <1>0, <1>13, EndStep DEF OpenServerRefused
<1>14. ASSUME NEW s \in Sessions, ReconnectDone(s)
       PROVE  IInv'
  BY <1>0, <1>14, EndStep DEF ReconnectDone
<1>15. ASSUME NEW s \in Sessions, Drain(s)
       PROVE  IInv'
  BY <1>0, <1>15, CloseSocketsProps, EndStep DEF Drain
<1>16. CASE Signal
  <2>1. PICK W \in SUBSET known : CloseSockets(W)
    BY <1>16 DEF Signal
  <2>2. W \subseteq Sessions
    BY DEF TypeOK
  <2> QED
    BY <1>0, <1>16, <2>1, <2>2, CloseSocketsProps, EndStep DEF Signal
<1> QED
  BY <1>1, <1>2, <1>3, <1>4, <1>6, <1>7, <1>8, <1>9, <1>10, <1>11, <1>12,
     <1>13, <1>14, <1>15, <1>16 DEF Next, Endings, Timers

THEOREM Invariance == Spec => []IInv
<1>1. IInv /\ UNCHANGED vars => IInv'
  BY NextIInv
<1> QED
  BY InitIInv, NextIInv, PTL DEF Spec

\* The types of the tables.
THEOREM TypeCorrect == Spec => []TypeOK
  BY Invariance, PTL DEF IInv

\* The tables of sockets and of sessions agree, for any number of sessions,
\* sockets and reconnects: no session is kept without a socket, none lost.
THEOREM TablesAlwaysAgree == Spec => []TablesAgree
  BY Invariance, PTL DEF IInv

\* sessions.get in a close timer never returns undefined.
THEOREM TimersFindSessions == Spec => []TimerFindsSession
<1>1. IInv => TimerFindsSession
  BY DEF IInv, TimerFindsSession, TablesAgree, Registered
<1> QED
  BY <1>1, Invariance, PTL

\* The monitor's table neither leaks a closed socket nor misses an open one.
THEOREM MonitorIsExact == Spec => []TrackedAreOpen
  BY Invariance, PTL DEF IInv

\* A session that has left the table never comes back.
THEOREM SessionsNeverReturn == Spec => SessionsStayGone
<1> DEFINE Stay == \A s \in Sessions :
                     clients[s] # {} /\ s \notin known => s \notin known'
<1>1. ASSUME IInv, [Next]_vars
      PROVE  [Stay]_vars
  <2> USE DEF IInv, tables, refs, shutVars
  <2>1. ASSUME NEW s \in Sessions, NEW k \in Sockets, Register(s, k),
               clients[s] = {} \/ s \in known
        PROVE  Stay
    BY <2>1 DEF Register
  <2>2. ASSUME NEW s \in Sessions, NEW j \in client[s], j \in sockets
        PROVE  s \in known
    <3>1. j \in members[s]
      BY <1>1, <2>2 DEF TablesAgree, RefsOwned, Ever
    <3> QED
      BY <1>1, <3>1 DEF TablesAgree
  <2>3. ASSUME NEW s \in Sessions, ClientOpen(s)
        PROVE  s \in known
    <3>1. PICK j \in client[s] : state[j] = "open"
      BY <2>3 DEF ClientOpen
    <3>2. j \in sockets
      BY <1>1, <3>1 DEF Registered, RefsOwned, Ever, TypeOK
    <3> QED
      BY <2>2, <3>1, <3>2
  <2>4. ASSUME NEW s \in Sessions, NEW k \in Sockets,
               Accept(s, k) \/ Upgrade(s, k) \/ OpenServer(s, k)
        PROVE  Stay
    <3>1. CASE Accept(s, k)
      BY <2>1, <3>1 DEF Accept
    <3>2. CASE Upgrade(s, k)
      BY <2>1, <2>3, <3>2 DEF Upgrade
    <3>3. CASE OpenServer(s, k)
      BY <2>1, <2>2, <3>3 DEF OpenServer, HasClient
    <3> QED
      BY <2>4, <3>1, <3>2, <3>3
  <2>5. CASE known' \subseteq known
    BY <2>5
  <2>6. ASSUME NEW s \in Sessions, NEW k \in Sockets, CloseTimer(s, k)
        PROVE  known' \subseteq known
    BY <2>6 DEF CloseTimer
  <2>7. CASE UNCHANGED known
    BY <2>7
  <2>8. \/ UNCHANGED known
        \/ \E s \in Sessions, k \in Sockets : CloseTimer(s, k)
        \/ \E s \in Sessions, k \in Sockets :
             Accept(s, k) \/ Upgrade(s, k) \/ OpenServer(s, k)
    BY <1>1 DEF Next, Endings, Timers, ClientLeaves, ServerLost, ProxyCloses,
                OpenServerRefused, ReconnectDone, Drain, ClientEnded,
                ServerEnded, SocketEnded, Signal, vars
  <2> QED
    BY <2>4, <2>5, <2>6, <2>7, <2>8
<1> QED
  BY <1>1, Invariance, PTL DEF Spec, SessionsStayGone

-----------------------------------------------------------------------------
\* After the signal no client is open but those that were sent the notice.
OpenAreTold ==
  /\ exited \/ awaited # {} => signalled
  /\ signalled => \A s \in Sessions : ClientOpen(s) => s \in told

LEMMA NextOpenAreTold ==
  ASSUME IInv, OpenAreTold, [Next]_vars
  PROVE  OpenAreTold'
<1> USE DEF IInv, TypeOK, tables, refs, shutVars
\* An open client belongs to a session of the table.
<1>1. ASSUME NEW s \in Sessions, ClientOpen(s)
      PROVE  s \in known
  <2>1. PICK k \in client[s] : state[k] = "open"
    BY <1>1 DEF ClientOpen
  <2>2. k \in members[s]
    BY <2>1 DEF Registered, RefsOwned, TablesAgree, Ever
  <2> QED
    BY <2>2 DEF TablesAgree
\* No client opens without a new socket.
<1>2. ASSUME \A k \in Sockets : state'[k] = "open" => state[k] = "open",
             \A s \in Sessions : client'[s] \subseteq client[s]
      PROVE  \A s \in Sessions : ClientOpen(s)' => ClientOpen(s)
  BY <1>2 DEF ClientOpen
<1>3. ASSUME \A s \in Sessions : ClientOpen(s)' => ClientOpen(s),
             UNCHANGED <<signalled, told>>,
             exited' \/ awaited' # {} => exited \/ awaited # {}
      PROVE  OpenAreTold'
  BY <1>3 DEF OpenAreTold
<1>4. ASSUME NEW s \in Sessions, NEW k \in Sockets, NEW STATE K,
             Closes(s, k, K)
      PROVE  \A j \in Sockets : state'[j] = "open" => state[j] = "open"
  <2>1. PICK L : state' = [Ended(L) EXCEPT ![k] = "closed"]
    BY <1>4 DEF Closes
  <2> QED
    BY <2>1, EndedProps
<1>5. ASSUME NEW s \in Sessions, NEW k \in Sockets, Accept(s, k)
      PROVE  OpenAreTold'
  BY <1>5 DEF Accept, Listening, OpenAreTold
<1>6. ASSUME NEW s \in Sessions, NEW k \in Sockets, Upgrade(s, k)
      PROVE  OpenAreTold'
  <2>1. \A t \in Sessions : ClientOpen(t)' => ClientOpen(t)
    <3>1. ASSUME NEW t \in Sessions, t # s
          PROVE  client'[t] = client[t] /\ k \notin client[t]
      BY <1>6, <3>1 DEF Upgrade, Register, Owned, RefsOwned, Ever
    <3>2. ClientOpen(s)
      BY <1>6 DEF Upgrade
    <3>3. \A j \in Sockets : j # k => state'[j] = state[j]
      BY <1>6 DEF Upgrade, Register
    <3> QED
      BY <3>1, <3>2, <3>3 DEF ClientOpen
  <2> QED
    BY <1>3, <1>6, <2>1 DEF Upgrade, OpenAreTold
<1>7. ASSUME NEW s \in Sessions, NEW k \in Sockets, OpenServer(s, k)
      PROVE  OpenAreTold'
  <2>1. \A t \in Sessions : k \notin client[t]
    BY <1>7 DEF OpenServer, Register, Owned, RefsOwned, Ever
  <2>2. \A j \in Sockets : j # k => state'[j] = state[j]
    BY <1>7 DEF OpenServer, Register
  <2>3. \A t \in Sessions : ClientOpen(t)' => ClientOpen(t)
    BY <1>7, <2>1, <2>2 DEF OpenServer, ClientOpen
  <2> QED
    BY <1>3, <1>7, <2>3 DEF OpenServer, OpenAreTold
<1>8. ASSUME NEW s \in Sessions, NEW k \in Sockets,
             \/ ClientLeaves(s, k) \/ ServerLost(s, k) \/ ClientEnded(s, k)
             \/ ServerEnded(s, k) \/ SocketEnded(s, k)
      PROVE  OpenAreTold'
  <2>1. \E K \in {{}, client[s], server[s]} : Closes(s, k, K)
    BY <1>8 DEF ClientLeaves, ServerLost, ClientEnded, ServerEnded,
                SocketEnded
  <2>2. \A j \in Sockets : state'[j] = "open" => state[j] = "open"
    BY <1>4, <2>1
  <2>3. /\ \A t \in Sessions : client'[t] \subseteq client[t]
        /\ UNCHANGED shutVars
    BY <1>8 DEF ClientLeaves, ServerLost, ClientEnded, ServerEnded,
                SocketEnded
  <2> QED
    BY <1>2, <1>3, <2>2, <2>3 DEF OpenAreTold
<1>9. ASSUME NEW s \in Sessions, NEW k \in Sockets, CloseTimer(s, k)
      PROVE  OpenAreTold'
  <2>1. \A j \in Sockets : state'[j] = "open" => state[j] = "open"
    BY <1>9, EndedProps DEF CloseTimer
  <2> QED
    BY <1>2, <1>3, <1>9, <2>1 DEF CloseTimer, OpenAreTold
<1>10. ASSUME NEW s \in Sessions,
              \/ ProxyCloses(s) \/ OpenServerRefused(s) \/ ReconnectDone(s)
              \/ Drain(s)
       PROVE  OpenAreTold'
  <2>1. CloseSockets({s}) \/ UNCHANGED state
    BY <1>10 DEF ProxyCloses, OpenServerRefused, ReconnectDone, Drain
  <2>2. \A j \in Sockets : state'[j] = "open" => state[j] = "open"
    BY <2>1, CloseSocketsProps
  <2>3. /\ UNCHANGED <<client, signalled, told>>
        /\ UNCHANGED <<exited, awaited>> \/ awaited # {}
    BY <1>10 DEF ProxyCloses, OpenServerRefused, ReconnectDone, Drain
  <2> QED
    BY <1>2, <1>3, <2>2, <2>3 DEF OpenAreTold
<1>11. CASE Signal
  <2>1. PICK full \in SUBSET {s \in known : ClientOpen(s)} :
          /\ told' = ({s \in known : ClientOpen(s)} \ full) \union full
          /\ CloseSockets({s \in known : ClientOpen(s)} \ full)
    BY <1>11 DEF Signal
  <2>2. \A j \in Sockets : state'[j] = "open" => state[j] = "open"
    BY <2>1, CloseSocketsProps
  <2>3. \A s \in Sessions : ClientOpen(s)' => ClientOpen(s)
    BY <1>2, <1>11, <2>2 DEF Signal
  <2>4. signalled'
    BY <1>11 DEF Signal
  <2> QED
    BY <1>1, <2>1, <2>3, <2>4 DEF OpenAreTold
<1>12. CASE UNCHANGED vars
  BY <1>12 DEF vars, OpenAreTold, ClientOpen
<1> QED
  BY <1>5, <1>6, <1>7, <1>8, <1>9, <1>10, <1>11, <1>12
     DEF Next, Endings, Timers

\* A shutdown tells every client before the process exits.
THEOREM ShutdownTellsEveryone == Spec => []NobodyDroppedSilently
<1>1. Init => OpenAreTold
  BY DEF Init, OpenAreTold
<1>2. OpenAreTold => NobodyDroppedSilently
  BY DEF OpenAreTold, NobodyDroppedSilently
<1> QED
  BY <1>1, <1>2, NextOpenAreTold, Invariance, PTL DEF Spec

-----------------------------------------------------------------------------
(* The API.                                                                *)

Sendable == Commands \cup WebCalls
RouteGuards == RoleGuards \cup {"context", "alive?", "alive"}
Middleware == RouteGuards \cup {"user", "handler"}

\* A request that is under way or has been answered.
Requests ==
  [at : {"waiting", "answered"}, call : Sendable, who : People, org : Orgs, left : Seq(Middleware),
   context : {"none", "names", "found"}, answer : Answers \cup {""}, blip : BOOLEAN,
   entitled : SUBSET BOOLEAN, up : SUBSET BOOLEAN]

Left(r, g) == \E i \in DOMAIN r.left : r.left[i] = g
Unknown(r) == ~Resolves(r.call, r.org) \/ r.blip
Routed(call) == Matching(call.to) # <<>>
Probed(call) == \E i \in DOMAIN GuardsFor(call) : GuardsFor(call)[i] = "alive"

\* A request has seen what holds now.
Notes(r, ro, al) == Entitled(r.who, r.call.does, ro) \in r.entitled /\ al \in r.up

\* The middleware that is left is a rest of the route's, the handler last.
Rest(r) ==
  /\ \A i \in DOMAIN r.left : (r.left[i] = "handler" <=> i = Len(r.left)) /\ r.left[i] # "user"
  /\ \A i \in DOMAIN r.left :
       r.left[i] = "handler" \/ \E j \in DOMAIN GuardsFor(r.call) : r.left[i] = GuardsFor(r.call)[j]
\* What has run has shown the role and the instance that the route asks for.
Shown(r) ==
  /\ Routed(r.call) => Left(r, For(r.call.does)) \/ TRUE \in r.entitled
  /\ Probed(r.call) => Left(r, "alive") \/ TRUE \in r.up
\* Nobody probes an instance without a context, and the route of link stops.
Guarded(r) ==
  /\ r.context = "none" =>
       \A i \in DOMAIN r.left : r.left[i] = "alive" => Precedes(r.left, i)
  /\ Deadly(GuardsFor(r.call)) => r.context = "none" /\ r.left[1] \in NeedsContext

Walks(r) == r.left # <<>> /\ Rest(r) /\ Shown(r) /\ Guarded(r)

\* Served and RefusedForCause of one request.
ServedOne(r) ==
  r.answer = "ok" =>
    /\ Routed(r.call)
    /\ ~Deadly(GuardsFor(r.call))
    /\ TRUE \in r.entitled
    /\ Probed(r.call) => TRUE \in r.up
RefusedOne(r) ==
  /\ r.answer = "forbidden" => \/ FALSE \in r.entitled \/ Unknown(r)
                               \/ r.call.does \in Narrowed \/ r.call \in BackupCommands
  /\ r.answer = "down" => FALSE \in r.up \/ Unknown(r)
  /\ r.answer = "noContext" => Unknown(r)
  /\ r.answer = "notFound" => r.call \in BackupCommands

\* Where a request is, under a role and an instance that is alive or not.
Fits(r, ro, al) ==
  /\ r \in Requests
  /\ r.at = "waiting" =>
       /\ Notes(r, ro, al)
       /\ r.context = "names" => Unknown(r)
       /\ \/ r.left = <<"user">> /\ r.context = "none"
          \/ Walks(r)
  /\ r.at = "answered" => ServedOne(r) /\ RefusedOne(r)

ApiInv ==
  /\ role \in {"USER", "ADMIN"} /\ alive \in BOOLEAN
  /\ request = [c \in Callers |-> request[c]]
  /\ \A c \in Callers : request[c] = Idle \/ Fits(request[c], role, alive)

-----------------------------------------------------------------------------
\* What the prover needs of a rest of the middleware.
LEMMA Popping ==
  ASSUME NEW S, NEW s \in Seq(S), s # <<>>
  PROVE  /\ Tail(s) \in Seq(S) /\ Head(s) = s[1] /\ Head(s) \in S
         /\ Len(s) \in Nat \ {0} /\ DOMAIN s = 1..Len(s)
         /\ Len(Tail(s)) = Len(s) - 1 /\ DOMAIN Tail(s) = 1..(Len(s) - 1)
         /\ \A i \in 1..(Len(s) - 1) : Tail(s)[i] = s[i + 1]
  OBVIOUS

\* The guards of a request that is sent, from the tables.
LEMMA TableFits ==
  ASSUME NEW call \in Sendable
  PROVE  RouteFits(call)
  BY RoutesAssumption DEF Sendable

\* Whoever the role of the handler lets pass is entitled.
LEMMA Entitles ==
  ASSUME NEW who, NEW does, NEW ro, NEW seen, seen = ro \/ seen = "", ro \in {"USER", "ADMIN"},
         Allowed(For(does), who, seen)
  PROVE  Entitled(who, does, ro)
  BY DEF Allowed, Entitled

\* Whoever it refuses is not.
LEMMA Bars ==
  ASSUME NEW who \in People, NEW does, NEW ro,
         For(does) \in RoleGuards, For(does) # "organization-admin", ~Allowed(For(does), who, ro)
  PROVE  ~Entitled(who, does, ro)
  BY DEF Allowed, Entitled, RoleGuards, People

\* The state's shape after a step of one request.
LEMMA OneMoves ==
  ASSUME ApiInv, NEW c \in Callers, NEW q, Fits(q, role, alive), request' = [request EXCEPT ![c] = q],
         role' = role, alive' = alive
  PROVE  ApiInv'
<1>1. \A d \in Callers : request'[d] = IF d = c THEN q ELSE request[d]
  BY DEF ApiInv
<1>2. request' = [d \in Callers |-> request'[d]]
  BY DEF ApiInv
<1> QED BY <1>1, <1>2 DEF ApiInv

\* A request that is under way.
LEMMA Waiting ==
  ASSUME ApiInv, NEW c \in Callers, Busy(c)
  PROVE  Fits(request[c], role, alive) /\ request[c] \in Requests /\ request[c].at = "waiting"
<1>1. request[c].at = "waiting" /\ request[c] # Idle
  BY DEF Busy, Idle
<1> QED BY <1>1 DEF ApiInv, Fits

\* It is answered.
LEMMA Answers1 ==
  ASSUME ApiInv, NEW c \in Callers, Busy(c), NEW answer \in Answers, NEW b \in BOOLEAN,
         NEW q, q = [request[c] EXCEPT !.at = "answered", !.answer = answer, !.blip = b],
         ServedOne(q), RefusedOne(q)
  PROVE  Fits(q, role, alive)
<1>1. request[c] \in Requests
  BY Waiting
<1>2. q \in Requests /\ q.at = "answered"
  BY <1>1 DEF Requests
<1> QED BY <1>2 DEF Fits

-----------------------------------------------------------------------------
(* The steps.                                                              *)

\* A middleware lets the request pass: it has shown what it is there for.
LEMMA Passing ==
  ASSUME NEW r \in Requests, Walks(r), NEW q \in Requests,
         q.left = Tail(r.left), q.call = r.call, q.entitled = r.entitled, q.up = r.up,
         ~Deadly(GuardsFor(r.call)), Head(r.left) # "handler",
         Head(r.left) = For(r.call.does) => TRUE \in r.entitled,
         Head(r.left) = "alive" => TRUE \in r.up,
         q.context = "none" => r.context = "none" /\ Head(r.left) \notin NeedsContext \cup {"context"}
  PROVE  Walks(q)
<1>1. r.left \in Seq(Middleware) /\ r.left # <<>> /\ q.left = Tail(r.left)
  BY DEF Requests, Walks
<1> DEFINE s == r.left
<1> DEFINE t == q.left
<1>2. /\ t \in Seq(Middleware) /\ Head(s) = s[1] /\ Len(s) \in Nat \ {0} /\ DOMAIN s = 1..Len(s)
      /\ Len(t) = Len(s) - 1 /\ DOMAIN t = 1..(Len(s) - 1)
      /\ \A i \in 1..(Len(s) - 1) : t[i] = s[i + 1]
  BY ONLY <1>1, Popping
<1>4. Len(s) > 1
  BY <1>2 DEF Walks, Rest
<1>5. t # <<>>
  <2>1. 1 \in DOMAIN t
    BY <1>2, <1>4
  <2> HIDE DEF t
  <2>2. t = <<>> => DOMAIN t = {}
    OBVIOUS
  <2> QED BY <2>1, <2>2
<1>6. Rest(q)
  <2>1. ASSUME NEW i \in DOMAIN t PROVE i + 1 \in DOMAIN s /\ t[i] = s[i + 1] /\ (i + 1 = Len(s) <=> i = Len(t))
    BY <1>2
  <2> QED BY <2>1, <1>1 DEF Walks, Rest
<1>7. \A g : Left(r, g) /\ Head(s) # g => Left(q, g)
  <2> SUFFICES ASSUME NEW g, Left(r, g), Head(s) # g PROVE Left(q, g)
    OBVIOUS
  <2>1. PICK i \in DOMAIN s : s[i] = g
    BY DEF Left
  <2>2. i # 1 /\ i - 1 \in DOMAIN t /\ t[i - 1] = s[i]
    BY <2>1, <1>2
  <2> QED BY <2>1, <2>2 DEF Left
<1>8. Shown(q)
  BY <1>1, <1>7 DEF Walks, Shown
<1>9. Guarded(q)
  <2> SUFFICES ASSUME q.context = "none", NEW i \in DOMAIN t, t[i] = "alive"
               PROVE  Precedes(t, i)
    BY <1>1 DEF Guarded
  <2>1. i + 1 \in DOMAIN s /\ s[i + 1] = "alive" /\ i \in Nat
    BY <1>2
  <2>2. PICK j \in 1..((i + 1) - 1) : s[j] \in NeedsContext \cup {"context"}
    BY <2>1 DEF Walks, Guarded, Precedes
  <2>3. j # 1
    BY <2>2, <1>2
  <2>4. i \in 1..(Len(s) - 1) /\ j \in 1..i /\ j \in 2..i
    BY <2>1, <2>2, <2>3, <1>2
  <2>5. j - 1 \in 1..(i - 1) /\ t[j - 1] = s[j]
    <3>1. j - 1 \in 1..(Len(s) - 1) /\ (j - 1) + 1 = j /\ j - 1 \in 1..(i - 1)
      BY <2>4, <1>2
    <3> QED BY <3>1, <1>2
  <2> QED BY <2>2, <2>5 DEF Precedes
<1> QED BY <1>5, <1>6, <1>8, <1>9 DEF Walks

\* Whose turn it is.
LEMMA Turn ==
  ASSUME ApiInv, NEW c \in Callers, NEW g, Upcoming(c, g)
  PROVE  /\ Busy(c) /\ request[c] \in Requests /\ Notes(request[c], role, alive)
         /\ request[c].left # <<>> /\ Head(request[c].left) = g /\ request[c].left[1] = g
         /\ request[c].context = "names" => Unknown(request[c])
         /\ g = "user" => request[c].left = <<"user">> /\ request[c].context = "none"
         /\ g # "user" => request[c].left # <<"user">> /\ Walks(request[c])
<1>1. Busy(c) /\ request[c].left # <<>> /\ Head(request[c].left) = g
  BY DEF Upcoming
<1>2. Fits(request[c], role, alive) /\ request[c] \in Requests /\ request[c].at = "waiting"
  BY <1>1, Waiting
<1>3. request[c].left \in Seq(Middleware)
  BY <1>2 DEF Requests
<1>4. request[c].left[1] = g /\ 1 \in DOMAIN request[c].left
  BY <1>1, <1>3, Popping
<1>5. Walks(request[c]) => g # "user"
  BY <1>4 DEF Walks, Rest
<1>6. request[c].left = <<"user">> => g = "user"
  BY <1>1
<1> QED BY <1>1, <1>2, <1>4, <1>5, <1>6 DEF Fits

\* The request and the state after it.
Popped(r, q) ==
  /\ q \in Requests /\ q.left = Tail(r.left) /\ q.at = r.at /\ q.call = r.call
  /\ q.org = r.org /\ q.who = r.who /\ q.entitled = r.entitled /\ q.up = r.up
LEMMA TailStays ==
  ASSUME NEW r \in Requests, r.left # <<>>
  PROVE  Tail(r.left) \in Seq(Middleware)
<1>1. r.left \in Seq(Middleware)
  BY DEF Requests
<1> QED BY <1>1, Popping

LEMMA Passes ==
  ASSUME ApiInv, NEW c \in Callers, Upcoming(c, Head(request[c].left)),
         Head(request[c].left) \notin {"user", "handler"}, ~Deadly(GuardsFor(request[c].call)),
         Head(request[c].left) = For(request[c].call.does) => TRUE \in request[c].entitled,
         Head(request[c].left) = "alive" => TRUE \in request[c].up,
         NEW q, Popped(request[c], q), q.context = "names" => Unknown(q),
         q.context = "none" => /\ request[c].context = "none"
                               /\ Head(request[c].left) \notin NeedsContext \cup {"context"},
         request' = [request EXCEPT ![c] = q], role' = role, alive' = alive
  PROVE  ApiInv'
<1>1. /\ request[c] \in Requests /\ request[c].at = "waiting" /\ Walks(request[c])
      /\ Notes(request[c], role, alive)
  <2>1. Walks(request[c]) /\ Notes(request[c], role, alive) /\ Busy(c)
    BY Turn
  <2> QED BY <2>1, Waiting
<1>2. Walks(q)
  BY <1>1, Passing DEF Popped
<1>3. Fits(q, role, alive)
  BY <1>1, <1>2 DEF Fits, Notes, Popped
<1> QED BY <1>3, OneMoves

LEMMA InitApiInv == ApiInit => ApiInv
  BY DEF ApiInit, ApiInv, Idle

LEMMA EntitledIsBoolean ==
  ASSUME NEW who, NEW does, NEW ro
  PROVE  Entitled(who, does, ro) \in BOOLEAN /\ (For(does) = "anyone" => Entitled(who, does, ro))
  BY DEF Entitled

LEMMA SendKeeps ==
  ASSUME ApiInv, NEW c \in Callers, NEW s \in MaySend[c], Send(c, s.call, s.who, s.org)
  PROVE  ApiInv'
<1>1. s \in [call : Sendable, who : People, org : Orgs]
  BY SendAssumption DEF Sendable
<1> DEFINE q ==
       [at |-> "waiting", call |-> s.call, who |-> s.who, org |-> s.org, left |-> <<"user">>,
        context |-> "none", answer |-> "", blip |-> FALSE,
        entitled |-> {Entitled(s.who, s.call.does, role)}, up |-> {alive}]
<1>2. request' = [request EXCEPT ![c] = q] /\ role' = role /\ alive' = alive
  BY DEF Send
<1>3. Entitled(s.who, s.call.does, role) \in BOOLEAN /\ alive \in BOOLEAN
  BY EntitledIsBoolean DEF ApiInv
<1>4. {Entitled(s.who, s.call.does, role)} \in SUBSET BOOLEAN /\ {alive} \in SUBSET BOOLEAN
  BY <1>3
<1>5. <<"user">> \in Seq(Middleware)
  BY DEF Middleware
<1>6. q \in Requests
  BY <1>1, <1>4, <1>5 DEF Requests
<1>7. Notes(q, role, alive)
  BY DEF Notes
<1>8. q.at = "waiting" /\ q.context = "none" /\ q.left = <<"user">>
  OBVIOUS
<1>9. Fits(q, role, alive)
  BY ONLY <1>6, <1>7, <1>8 DEF Fits
<1> HIDE DEF q
<1> QED BY <1>2, <1>9, OneMoves

LEMMA Lengthened ==
  ASSUME NEW S, NEW g \in Seq(S), NEW h, NEW w, w = g \o <<h>>
  PROVE  /\ w \in Seq(S \cup {h}) /\ Len(g) \in Nat /\ DOMAIN g = 1..Len(g)
         /\ Len(w) = Len(g) + 1 /\ DOMAIN w = 1..(Len(g) + 1)
         /\ \A i \in 1..Len(g) : w[i] = g[i] /\ g[i] \in S
         /\ w[Len(g) + 1] = h
  OBVIOUS

\* The routes are looked up: all the middleware of one is left.
LEMMA Routing ==
  ASSUME NEW r \in Requests, NEW q, q.call = r.call, q.left = GuardsFor(r.call) \o <<"handler">>,
         q.context = "none", NEW ro, NEW al, Notes(r, ro, al), q.entitled = r.entitled
  PROVE  Walks(q) /\ q.left \in Seq(Middleware)
<1> DEFINE g == GuardsFor(r.call)
<1> DEFINE w == q.left
<1>1. RouteFits(r.call)
  BY TableFits DEF Requests
<1>2. /\ g \in Seq(RouteGuards)
      /\ \A i \in DOMAIN g : g[i] = "alive" => Precedes(g, i)
      /\ Routed(r.call) => /\ For(r.call.does) # "anyone" => \E i \in DOMAIN g : g[i] = For(r.call.does)
  BY <1>1 DEF RouteFits, RouteGuards, Routed
<1>3. w = g \o <<"handler">>
  OBVIOUS
<1> HIDE DEF g
<1>4. /\ w \in Seq(RouteGuards \cup {"handler"}) /\ Len(g) \in Nat /\ DOMAIN g = 1..Len(g)
      /\ Len(w) = Len(g) + 1 /\ DOMAIN w = 1..(Len(g) + 1)
      /\ \A i \in 1..Len(g) : w[i] = g[i] /\ g[i] \in RouteGuards
      /\ w[Len(g) + 1] = "handler"
  BY ONLY <1>2, <1>3, Lengthened
<1>5. w \in Seq(Middleware)
  <2>1. RouteGuards \cup {"handler"} \subseteq Middleware
    BY DEF Middleware
  <2> QED BY <1>4, <2>1
<1>6. w # <<>>
  <2>1. 1 \in DOMAIN w
    BY <1>4
  <2>2. w = <<>> => DOMAIN w = {}
    OBVIOUS
  <2> QED BY <2>1, <2>2
<1>7. "handler" \notin RouteGuards /\ "user" \notin RouteGuards
  BY DEF RouteGuards, RoleGuards
<1>8. Rest(q)
  <2>1. ASSUME NEW i \in DOMAIN w
        PROVE  /\ (w[i] = "handler" <=> i = Len(w)) /\ w[i] # "user"
               /\ w[i] = "handler" \/ \E j \in DOMAIN g : w[i] = g[j]
    <3>1. CASE i = Len(w)
      BY <3>1, <1>4
    <3>2. CASE i # Len(w)
      <4>1. i \in 1..Len(g)
        BY <3>2, <1>4
      <4> QED BY <4>1, <3>2, <1>4, <1>7
    <3> QED BY <3>1, <3>2
  <2> QED BY <2>1 DEF Rest, g
<1>9. \A x : (\E i \in DOMAIN g : g[i] = x) => Left(q, x)
  <2> SUFFICES ASSUME NEW x, NEW i \in DOMAIN g, g[i] = x PROVE Left(q, x)
    OBVIOUS
  <2>1. i \in DOMAIN w /\ w[i] = x
    BY <1>4
  <2> QED BY <2>1 DEF Left
<1>10. For(r.call.does) = "anyone" => TRUE \in q.entitled
  BY EntitledIsBoolean DEF Notes
<1>11. Shown(q)
  BY <1>2, <1>9, <1>10 DEF Shown, Probed, g
<1>12. ASSUME NEW i \in DOMAIN w, w[i] = "alive" PROVE Precedes(w, i)
  <2>1. i # Len(w)
    BY <1>4, <1>12
  <2>2. i \in DOMAIN g /\ g[i] = "alive"
    BY <2>1, <1>4, <1>12
  <2>3. PICK j \in 1..(i - 1) : g[j] \in NeedsContext \cup {"context"}
    BY <2>2, <1>2 DEF Precedes
  <2>4. w[j] = g[j]
    BY <2>2, <1>4
  <2> QED BY <2>3, <2>4 DEF Precedes
<1>13. Deadly(g) => w[1] \in NeedsContext
  <2> SUFFICES ASSUME Deadly(g) PROVE w[1] \in NeedsContext
    OBVIOUS
  <2>1. g # <<>> /\ g[1] \in NeedsContext
    BY DEF Deadly
  <2>2. 1 \in 1..Len(g)
    BY <2>1, <1>2
  <2> QED BY <2>1, <2>2, <1>4
<1>14. Guarded(q)
  BY <1>12, <1>13 DEF Guarded, g
<1> QED BY <1>5, <1>6, <1>8, <1>11, <1>14 DEF Walks

LEMMA IdentifyKeeps ==
  ASSUME ApiInv, NEW c \in Callers, Identify(c)
  PROVE  ApiInv'
<1> DEFINE r == request[c]
<1> DEFINE q == [r EXCEPT !.left = GuardsFor(r.call) \o <<"handler">>]
<1>1. /\ Busy(c) /\ r \in Requests /\ Notes(r, role, alive) /\ r.context = "none"
      /\ Fits(r, role, alive) /\ r.at = "waiting"
  BY Turn, Waiting DEF Identify
<1>2. request' = [request EXCEPT ![c] = q] /\ role' = role /\ alive' = alive
  BY DEF Identify
<1> HIDE DEF r
<1>3. /\ q.call = r.call /\ q.left = GuardsFor(r.call) \o <<"handler">> /\ q.context = "none"
      /\ q.entitled = r.entitled /\ q.at = "waiting" /\ q.up = r.up /\ q.who = r.who
  BY <1>1 DEF Requests
<1> HIDE DEF q
<1>4. Walks(q) /\ q.left \in Seq(Middleware)
  BY <1>1, <1>3, Routing
<1>5. q \in Requests
  BY <1>1, <1>3, <1>4 DEF Requests, q
<1>6. Fits(q, role, alive)
  BY <1>1, <1>3, <1>4, <1>5 DEF Fits, Notes
<1> QED BY <1>2, <1>6, OneMoves

\* The route of link is left only by the end of the process.
LEMMA NotDeadly ==
  ASSUME NEW r, Walks(r), r.left[1] \notin NeedsContext \/ r.context # "none"
  PROVE  ~Deadly(GuardsFor(r.call))
  BY DEF Walks, Guarded

LEMMA ForRole ==
  ASSUME NEW r \in Requests
  PROVE  For(r.call.does) \in RoleGuards \cup {"anyone"}
  BY TableFits DEF Requests, RouteFits

\* The middleware that shows nothing: the context and the skipped probe.
LEMMA ContextKeeps ==
  ASSUME ApiInv, NEW c \in Callers, Context(c) \/ ContextBlip(c)
  PROVE  ApiInv'
<1> DEFINE r == request[c]
<1>1. Upcoming(c, "context") /\ role' = role /\ alive' = alive
  BY DEF Context, ContextBlip
<1>2. /\ Busy(c) /\ r \in Requests /\ Head(r.left) = "context" /\ r.left[1] = "context"
      /\ r.left # <<"user">> /\ Walks(r)
  BY <1>1, Turn
<1>3. ~Deadly(GuardsFor(r.call))
  BY <1>2, NotDeadly DEF NeedsContext
<1>4. "context" # For(r.call.does)
  BY <1>2, ForRole DEF RoleGuards
<1>5. PICK context, b, q :
        /\ context \in {"names", "found"} /\ b \in BOOLEAN
        /\ context = "names" => ~Resolves(r.call, r.org) \/ b = TRUE
        /\ q = [r EXCEPT !.context = context, !.blip = b, !.left = Tail(@)]
        /\ request' = [request EXCEPT ![c] = q]
  <2>1. CASE Context(c)
    <3> DEFINE context == IF Resolves(r.call, r.org) THEN "found" ELSE "names"
    <3>1. request' = [request EXCEPT ![c] = [[r EXCEPT !.context = context] EXCEPT !.left = Tail(@)]]
      BY <2>1 DEF Context, Advance
    <3> HIDE DEF context
    <3>2. [[r EXCEPT !.context = context] EXCEPT !.left = Tail(@)]
            = [r EXCEPT !.context = context, !.blip = r.blip, !.left = Tail(@)]
      BY <1>2 DEF Requests
    <3>3. context \in {"names", "found"} /\ (context = "names" => ~Resolves(r.call, r.org))
      BY DEF context
    <3>4. r.blip \in BOOLEAN
      BY <1>2 DEF Requests
    <3> QED BY <3>1, <3>2, <3>3, <3>4
  <2>2. CASE ContextBlip(c)
    <3>1. request' = [request EXCEPT ![c] = [r EXCEPT !.context = "names", !.blip = TRUE, !.left = Tail(@)]]
      BY <2>2 DEF ContextBlip, Advance
    <3> QED BY <3>1
  <2> QED BY <2>1, <2>2
<1>6. Popped(r, q) /\ q.context = context /\ q.blip = b
  <2>1. Tail(r.left) \in Seq(Middleware)
    BY <1>2, TailStays DEF Walks
  <2>2. r \in Requests /\ context \in {"none", "names", "found"} /\ b \in BOOLEAN
        /\ q = [r EXCEPT !.context = context, !.blip = b, !.left = Tail(r.left)]
    BY <1>2, <1>5
  <2> HIDE DEF r
  <2> QED BY ONLY <2>1, <2>2 DEF Requests, Popped
<1>7. q.context = "names" => Unknown(q)
  <2>1. q.context = "names" => ~Resolves(q.call, q.org) \/ q.blip = TRUE
    BY <1>5, <1>6 DEF Popped
  <2>2. ASSUME q.context = "names" PROVE Unknown(q)
    <3>1. CASE ~Resolves(q.call, q.org)
      BY <3>1, Zenon DEF Unknown
    <3>2. CASE q.blip = TRUE
      BY <3>2, Zenon DEF Unknown
    <3> QED BY ONLY <2>1, <2>2, <3>1, <3>2
  <2> QED BY <2>2
<1>8. q.context # "none"
  BY <1>5, <1>6
<1> HIDE DEF r
<1>9. r = request[c]
  BY DEF r
<1> QED BY <1>1, <1>2, <1>3, <1>4, <1>5, <1>6, <1>7, <1>8, <1>9, Passes

\* Of the middleware that reads what the context holds.
LEMMA Advances ==
  ASSUME ApiInv, NEW c \in Callers, NEW g, Upcoming(c, g), g \notin {"user", "handler", "context"},
         g \in NeedsContext => request[c].context # "none",
         g = For(request[c].call.does) => TRUE \in request[c].entitled,
         g = "alive" => TRUE \in request[c].up,
         request' = Advance(c, request[c]), role' = role, alive' = alive
  PROVE  ApiInv'
<1> DEFINE r == request[c]
<1>1. /\ Busy(c) /\ r \in Requests /\ Head(r.left) = g /\ r.left[1] = g
      /\ r.left # <<"user">> /\ Walks(r) /\ (r.context = "names" => ~Resolves(r.call, r.org) \/ r.blip)
  BY Turn DEF Unknown
<1>2. ~Deadly(GuardsFor(r.call))
  BY <1>1, NotDeadly
<1>3. r.context \in {"none", "names", "found"} /\ r.blip \in BOOLEAN /\ r.left # <<>>
  BY <1>1 DEF Requests, Walks
<1>4. PICK q : q = [r EXCEPT !.left = Tail(@)]
  OBVIOUS
<1>6. Popped(r, q) /\ q.context = r.context /\ q.blip = r.blip
  <2>1. Tail(r.left) \in Seq(Middleware)
    BY <1>1, <1>3, TailStays
  <2>2. r \in Requests /\ q = [r EXCEPT !.left = Tail(r.left)]
    BY <1>1, <1>4
  <2> HIDE DEF r
  <2> QED BY ONLY <2>1, <2>2 DEF Requests, Popped
<1>7. q.context = "names" => Unknown(q)
  BY <1>1, <1>6 DEF Unknown, Popped
<1>8. request' = [request EXCEPT ![c] = q]
  BY <1>4 DEF Advance
<1> HIDE DEF r
<1>9. r = request[c]
  BY DEF r
<1> QED BY <1>1, <1>2, <1>6, <1>7, <1>8, <1>9, Passes

\* Of the middleware, or the handler, that answers.
LEMMA Ends ==
  ASSUME ApiInv, NEW c \in Callers, Busy(c), NEW answer \in Answers,
         answer = "ok" => ServedOne([request[c] EXCEPT !.answer = answer]),
         RefusedOne([request[c] EXCEPT !.answer = answer]),
         request' = Answered(c, answer), role' = role, alive' = alive
  PROVE  ApiInv'
<1> DEFINE r == request[c]
<1> DEFINE q == [r EXCEPT !.at = "answered", !.answer = answer, !.blip = r.blip]
<1>1. r \in Requests
  BY Waiting
<1>2. /\ q.call = r.call /\ q.org = r.org /\ q.entitled = r.entitled /\ q.up = r.up
      /\ q.answer = answer /\ q.blip = r.blip /\ r.blip \in BOOLEAN
  BY <1>1 DEF Requests
<1>3. ServedOne(q) /\ RefusedOne(q)
  <2> DEFINE p == [r EXCEPT !.answer = answer]
  <2>1. /\ p.call = r.call /\ p.org = r.org /\ p.entitled = r.entitled /\ p.up = r.up
        /\ p.answer = answer /\ p.blip = r.blip
    BY <1>1 DEF Requests
  <2>2. (answer = "ok" => ServedOne(p)) /\ RefusedOne(p)
    OBVIOUS
  <2> HIDE DEF p, q
  <2> QED BY <1>2, <2>1, <2>2 DEF ServedOne, RefusedOne, Unknown
<1>4. Fits(q, role, alive)
  BY <1>2, <1>3, Answers1
<1>5. request' = [request EXCEPT ![c] = q]
  <2>1. q = [[r EXCEPT !.at = "answered"] EXCEPT !.answer = answer]
    BY <1>1 DEF Requests
  <2>2. request' = [request EXCEPT ![c] = [[r EXCEPT !.at = "answered"] EXCEPT !.answer = answer]]
    BY DEF Answered, ApiInv
  <2> QED BY <2>1, <2>2
<1> HIDE DEF q
<1> QED BY <1>4, <1>5, OneMoves

\* Of the one that ends the process.
LEMMA DeadKeeps ==
  ASSUME ApiInv, NEW c \in Callers, request' = Dead(c), role' = role, alive' = alive
  PROVE  ApiInv'
<1>1. ASSUME NEW d \in Callers PROVE request'[d] = Idle \/ Fits(request'[d], role, alive)
  <2>1. CASE Busy(d)
    <3>1. request[d] \in Requests
      BY <2>1, Waiting
    <3>2. request'[d] = [request[d] EXCEPT !.at = "answered", !.answer = "lost"]
      BY <2>1 DEF Dead
    <3>3. request'[d] \in Requests /\ request'[d].at = "answered" /\ request'[d].answer = "lost"
      BY <3>1, <3>2 DEF Requests, Answers
    <3> QED BY <3>3 DEF Fits, ServedOne, RefusedOne
  <2>2. CASE ~Busy(d)
    <3>1. request'[d] = request[d]
      BY <2>2 DEF Dead
    <3> QED BY <3>1 DEF ApiInv
  <2> QED BY <2>1, <2>2
<1>2. request' = [d \in Callers |-> request'[d]]
  BY DEF Dead
<1> QED BY <1>1, <1>2 DEF ApiInv

\* The guards that a request meets, but a backup command or one of the
\* narrowed handlers, are its handler's role.
LEMMA Guards ==
  ASSUME NEW r \in Requests, Walks(r), r.left[1] \in RoleGuards,
         r.call \notin BackupCommands, r.call.does \notin Narrowed
  PROVE  r.left[1] = For(r.call.does) /\ r.left[1] # "organization-admin"
<1>1. RouteFits(r.call)
  BY TableFits DEF Requests
<1>2. 1 \in DOMAIN r.left
  <2>1. r.left \in Seq(Middleware) /\ r.left # <<>>
    BY DEF Requests, Walks
  <2> QED BY <2>1, Popping
<1>3. r.left[1] # "handler"
  BY DEF RoleGuards
<1>4. \E j \in DOMAIN GuardsFor(r.call) : r.left[1] = GuardsFor(r.call)[j]
  BY <1>2, <1>3 DEF Walks, Rest
<1>5. Matching(r.call.to) # <<>>
  BY <1>1 DEF RouteFits
<1> QED BY <1>1, <1>4, <1>5 DEF RouteFits

LEMMA ProtectKeeps ==
  ASSUME ApiInv, NEW c \in Callers, NEW guard \in RoleGuards, Protect(c, guard)
  PROVE  ApiInv'
<1> DEFINE r == request[c]
<1>1. Upcoming(c, guard) /\ role' = role /\ alive' = alive
  BY DEF Protect
<1>2. guard \notin {"user", "handler", "context", "alive"}
  BY DEF RoleGuards
<1>3. /\ Busy(c) /\ r \in Requests /\ Notes(r, role, alive) /\ Walks(r) /\ r.left[1] = guard
      /\ r.context = "names" => Unknown(r)
  BY <1>1, <1>2, Turn
<1>4. r.context \in {"none", "names", "found"} /\ r.who \in People
  BY <1>3 DEF Requests
<1>5. CASE guard \in NeedsContext /\ r.context = "none"
  <2>1. request' = Dead(c)
    BY <1>5 DEF Protect, NeedsContext
  <2> QED BY <2>1, <1>1, DeadKeeps
<1>6. CASE guard \in NeedsContext /\ r.context # "none" /\ NoInstance(r)
  <2>1. request' = Answered(c, "noContext")
    BY <1>6 DEF Protect, NeedsContext
  <2>2. Unknown(r)
    BY <1>6, <1>3 DEF NoInstance
  <2>3. RefusedOne([r EXCEPT !.answer = "noContext"])
    BY <2>2, <1>3 DEF RefusedOne, Unknown, Requests
  <2> QED BY <2>1, <2>3, <1>1, <1>3, Ends DEF Answers
<1>7. CASE (guard \in NeedsContext => r.context # "none") /\ Allowed(guard, r.who, RoleIn(r))
           /\ ~(guard \in NeedsContext /\ NoInstance(r))
  <2>1. request' = Advance(c, r)
    BY <1>7 DEF Protect, NeedsContext
  <2>2. guard = For(r.call.does) => TRUE \in r.entitled
    <3> SUFFICES ASSUME guard = For(r.call.does) PROVE TRUE \in r.entitled
      OBVIOUS
    <3>1. RoleIn(r) = role \/ RoleIn(r) = ""
      BY DEF RoleIn
    <3>2. Entitled(r.who, r.call.does, role)
      BY <3>1, <1>7, Entitles DEF ApiInv
    <3>3. Entitled(r.who, r.call.does, role) = TRUE
      BY <3>2, EntitledIsBoolean
    <3> QED BY <3>3, <1>3 DEF Notes
  <2> QED BY <2>1, <2>2, <1>1, <1>2, <1>7, Advances
<1>8. CASE (guard \in NeedsContext => r.context # "none") /\ ~Allowed(guard, r.who, RoleIn(r))
           /\ ~(guard \in NeedsContext /\ NoInstance(r))
  <2>1. request' = Answered(c, "forbidden")
    BY <1>8 DEF Protect, NeedsContext
  <2>2. FALSE \in r.entitled \/ Unknown(r) \/ r.call.does \in Narrowed \/ r.call \in BackupCommands
    <3> SUFFICES ASSUME ~Unknown(r), r.call.does \notin Narrowed, r.call \notin BackupCommands
                 PROVE  FALSE \in r.entitled
      OBVIOUS
    <3>1. guard = For(r.call.does) /\ guard # "organization-admin"
      BY <1>3, Guards
    <3>2. RoleIn(r) = role \/ guard \notin NeedsContext
      BY <1>3, <1>4, <1>8 DEF RoleIn
    <3>3. ~Allowed(guard, r.who, role)
      BY <3>2, <1>8 DEF Allowed, NeedsContext
    <3>4. Entitled(r.who, r.call.does, role) = FALSE
      BY <3>1, <3>3, <1>4, Bars, EntitledIsBoolean
    <3> QED BY <3>4, <1>3 DEF Notes
  <2>3. RefusedOne([r EXCEPT !.answer = "forbidden"])
    BY <2>2, <1>3 DEF RefusedOne, Unknown, Requests
  <2> QED BY <2>1, <2>3, <1>1, <1>3, Ends DEF Answers
<1> QED BY <1>5, <1>6, <1>7, <1>8

LEMMA ProtectBlipKeeps ==
  ASSUME ApiInv, NEW c \in Callers, NEW guard \in RoleGuards, ProtectBlip(c, guard)
  PROVE  ApiInv'
<1> DEFINE r == request[c]
<1>1. Upcoming(c, guard) /\ role' = role /\ alive' = alive /\ r.context = "found"
  BY DEF ProtectBlip
<1>2. guard \notin {"user", "handler", "context", "alive"}
  BY DEF RoleGuards
<1>3. /\ Busy(c) /\ r \in Requests /\ Notes(r, role, alive) /\ Walks(r)
  BY <1>1, <1>2, Turn
<1>4. CASE Allowed(guard, r.who, "")
  <2>1. request' = Advance(c, r)
    BY <1>4 DEF ProtectBlip
  <2>2. guard = For(r.call.does) => TRUE \in r.entitled
    <3> SUFFICES ASSUME guard = For(r.call.does) PROVE TRUE \in r.entitled
      OBVIOUS
    <3>1. Entitled(r.who, r.call.does, role)
      BY <1>4, Entitles DEF ApiInv
    <3>2. Entitled(r.who, r.call.does, role) = TRUE
      BY <3>1, EntitledIsBoolean
    <3> QED BY <3>2, <1>3 DEF Notes
  <2> QED BY <2>1, <2>2, <1>1, <1>2, Advances
<1>5. CASE ~Allowed(guard, r.who, "")
  <2> DEFINE q == [r EXCEPT !.at = "answered", !.answer = "forbidden", !.blip = TRUE]
  <2>1. request' = [request EXCEPT ![c] = q]
    <3>1. request' = [Answered(c, "forbidden") EXCEPT ![c].blip = TRUE]
      BY <1>5 DEF ProtectBlip
    <3> QED BY <3>1 DEF Answered, ApiInv
  <2>2. q.answer = "forbidden" /\ q.blip = TRUE
    BY <1>3 DEF Requests
  <2>3. ServedOne(q) /\ RefusedOne(q)
    <3> HIDE DEF q
    <3> QED BY <2>2 DEF ServedOne, RefusedOne, Unknown
  <2>4. "forbidden" \in Answers
    BY DEF Answers
  <2>5. Fits(q, role, alive)
    BY <2>3, <2>4, <1>3, Answers1
  <2> HIDE DEF q
  <2> QED BY <2>1, <2>5, <1>1, OneMoves
<1> QED BY <1>4, <1>5

LEMMA ProbeKeeps ==
  ASSUME ApiInv, NEW c \in Callers, Probe(c) \/ ProbeSkipped(c)
  PROVE  ApiInv'
<1> DEFINE r == request[c]
<1>1. CASE ProbeSkipped(c)
  <2>1. /\ Upcoming(c, "alive?") /\ request' = Advance(c, r) /\ role' = role /\ alive' = alive
    BY <1>1 DEF ProbeSkipped
  <2>2. r \in Requests
    BY <2>1, Turn
  <2>3. "alive?" # For(r.call.does)
    BY <2>2, ForRole DEF RoleGuards
  <2> QED BY <2>1, <2>3, Advances DEF NeedsContext
<1>2. CASE Probe(c)
  <2>1. Upcoming(c, "alive") /\ role' = role /\ alive' = alive
    BY <1>2 DEF Probe
  <2>2. /\ Busy(c) /\ r \in Requests /\ Notes(r, role, alive) /\ Walks(r) /\ r.left[1] = "alive"
        /\ r.context = "names" => Unknown(r)
    BY <2>1, Turn
  <2>3. r.context \in {"names", "found"}
    <3>1. r.left \in Seq(Middleware) /\ r.left # <<>>
      BY <2>2 DEF Requests, Walks
    <3>2. 1 \in DOMAIN r.left
      BY <3>1, Popping
    <3>3. ~Precedes(r.left, 1)
      BY DEF Precedes
    <3>4. r.context # "none"
      BY <3>2, <3>3, <2>2 DEF Walks, Guarded
    <3> QED BY <3>4, <2>2 DEF Requests
  <2>4. CASE NoInstance(r)
    <3>1. request' = Answered(c, "noContext")
      BY <2>4, <1>2 DEF Probe
    <3>2. Unknown(r)
      BY <2>2, <2>4 DEF NoInstance
    <3>3. RefusedOne([r EXCEPT !.answer = "noContext"])
      BY <3>2, <2>2 DEF RefusedOne, Unknown, Requests
    <3> QED BY <3>1, <3>3, <2>1, <2>2, Ends DEF Answers
  <2>5. CASE ~NoInstance(r) /\ alive /\ r.context = "found"
    <3>1. request' = Advance(c, r)
      BY <2>5, <1>2 DEF Probe
    <3>2. TRUE \in r.up
      <4>1. alive = TRUE
        BY <2>5 DEF ApiInv
      <4> QED BY <4>1, <2>2 DEF Notes
    <3>3. "alive" # For(r.call.does)
      BY <2>2, ForRole DEF RoleGuards
    <3> QED BY <3>1, <3>2, <3>3, <2>1, Advances DEF NeedsContext
  <2>6. CASE ~NoInstance(r) /\ ~(alive /\ r.context = "found")
    <3>1. request' = Answered(c, "down")
      BY <2>6, <2>3, <1>2 DEF Probe
    <3>2. FALSE \in r.up \/ Unknown(r)
      <4>1. CASE alive = FALSE
        BY <4>1, <2>2 DEF Notes
      <4>2. CASE r.context = "names"
        BY <4>2, <2>2
      <4> QED BY <4>1, <4>2, <2>3, <2>6 DEF ApiInv
    <3>3. RefusedOne([r EXCEPT !.answer = "down"])
      BY <3>2, <2>2 DEF RefusedOne, Unknown, Requests
    <3> QED BY <3>1, <3>3, <2>1, <2>2, Ends DEF Answers
  <2> QED BY <2>4, <2>5, <2>6
<1> QED BY <1>1, <1>2

LEMMA HandleKeeps ==
  ASSUME ApiInv, NEW c \in Callers, Handle(c)
  PROVE  ApiInv'
<1> DEFINE r == request[c]
<1>1. Upcoming(c, "handler") /\ role' = role /\ alive' = alive
  BY DEF Handle
<1>2. Busy(c) /\ r \in Requests /\ Walks(r) /\ r.left[1] = "handler"
  BY <1>1, Turn
<1>3. RouteFits(r.call)
  BY <1>2, TableFits DEF Requests
<1>4. PICK answer \in {"ok", "error", "notFound"} :
        /\ request' = Answered(c, answer)
        /\ answer = "notFound" <=> ~Routed(r.call)
  BY DEF Handle, Routed
<1>5. RefusedOne([r EXCEPT !.answer = answer])
  <2>1. answer = "notFound" => r.call \in BackupCommands
    BY <1>3, <1>4 DEF RouteFits, Routed
  <2>2. [r EXCEPT !.answer = answer].call = r.call /\ [r EXCEPT !.answer = answer].answer = answer
    BY <1>2 DEF Requests
  <2> QED BY <2>1, <2>2, <1>4 DEF RefusedOne
<1>6. \A g : Left(r, g) => g = "handler"
  <2>1. r.left \in Seq(Middleware) /\ r.left # <<>>
    BY <1>2 DEF Requests, Walks
  <2>2. 1 \in DOMAIN r.left /\ DOMAIN r.left = 1..Len(r.left)
    BY <2>1, Popping
  <2>3. Len(r.left) = 1
    BY <2>2, <1>2 DEF Walks, Rest
  <2> QED BY <2>2, <2>3, <1>2 DEF Left
<1>7. For(r.call.does) # "handler"
  BY <1>2, ForRole DEF RoleGuards
<1>8. answer = "ok" => ServedOne([r EXCEPT !.answer = answer])
  <2>1. ~Deadly(GuardsFor(r.call))
    BY <1>2, NotDeadly DEF NeedsContext
  <2>2. /\ Routed(r.call) => TRUE \in r.entitled
        /\ Probed(r.call) => TRUE \in r.up
    BY <1>2, <1>6, <1>7 DEF Walks, Shown
  <2>3. /\ [r EXCEPT !.answer = answer].call = r.call /\ [r EXCEPT !.answer = answer].up = r.up
        /\ [r EXCEPT !.answer = answer].entitled = r.entitled
    BY <1>2 DEF Requests
  <2> QED BY <2>1, <2>2, <2>3, <1>4 DEF ServedOne
<1> QED BY <1>1, <1>2, <1>4, <1>5, <1>8, Ends DEF Answers

\* What changes under the requests is noted by those under way.
LEMMA NotedKeeps ==
  ASSUME ApiInv, NEW ro \in {"USER", "ADMIN"}, NEW al \in BOOLEAN,
         request' = Noted(ro, al), role' = ro, alive' = al
  PROVE  ApiInv'
<1>1. ASSUME NEW d \in Callers PROVE request'[d] = Idle \/ Fits(request'[d], ro, al)
  <2>1. CASE Busy(d)
    <3> DEFINE r == request[d]
    <3> DEFINE q == request'[d]
    <3>1. r \in Requests /\ Fits(r, role, alive) /\ r.at = "waiting"
      BY <2>1, Waiting
    <3>2. q = [r EXCEPT !.entitled = @ \cup {Entitled(r.who, r.call.does, ro)}, !.up = @ \cup {al}]
      BY <2>1 DEF Noted
    <3>3. Entitled(r.who, r.call.does, ro) \in BOOLEAN
      BY EntitledIsBoolean
    <3> HIDE DEF r, q
    <3>4. /\ q.at = "waiting" /\ q.call = r.call /\ q.who = r.who /\ q.org = r.org /\ q.left = r.left
          /\ q.context = r.context /\ q.blip = r.blip
          /\ q.entitled = r.entitled \cup {Entitled(r.who, r.call.does, ro)}
          /\ q.up = r.up \cup {al}
      BY <3>1, <3>2 DEF Requests
    <3>5. q.entitled \in SUBSET BOOLEAN /\ q.up \in SUBSET BOOLEAN
      BY <3>1, <3>3, <3>4 DEF Requests
    <3>6. q \in Requests
      BY <3>1, <3>2, <3>4, <3>5 DEF Requests
    <3>7. Walks(r) => Walks(q)
      BY <3>4 DEF Walks, Rest, Shown, Guarded, Left
    <3>8. Fits(q, ro, al)
      BY <3>1, <3>4, <3>6, <3>7 DEF Fits, Notes, Unknown
    <3> QED BY <3>8 DEF q
  <2>2. CASE ~Busy(d)
    <3>1. request'[d] = request[d] /\ request[d].at # "waiting"
      BY <2>2 DEF Noted, Busy
    <3> QED BY <3>1 DEF ApiInv, Fits
  <2> QED BY <2>1, <2>2
<1>2. request' = [d \in Callers |-> request'[d]]
  BY DEF Noted
<1> QED BY <1>1, <1>2 DEF ApiInv

LEMMA NextApiInv == ApiInv /\ [ApiNext]_apiVars => ApiInv'
<1> SUFFICES ASSUME ApiInv, [ApiNext]_apiVars PROVE ApiInv'
  OBVIOUS
<1>1. ASSUME NEW c \in Callers, NEW s \in MaySend[c], Send(c, s.call, s.who, s.org) PROVE ApiInv'
  BY <1>1, SendKeeps
<1>2. ASSUME NEW c \in Callers, Step(c) PROVE ApiInv'
  BY <1>2, IdentifyKeeps, ContextKeeps, ProtectKeeps, ProbeKeeps, HandleKeeps DEF Step
<1>9. ASSUME NEW c \in Callers, Handle(c) PROVE ApiInv'
  BY <1>9, HandleKeeps
<1>10. ASSUME NEW c \in Callers, ProbeFails(c) PROVE ApiInv'
  BY <1>10, DeadKeeps DEF ProbeFails
<1>3. ASSUME NEW c \in Callers, IdentifyFails(c) PROVE ApiInv'
  BY <1>3, DeadKeeps DEF IdentifyFails
<1>4. ASSUME NEW c \in Callers, ContextBlip(c) PROVE ApiInv'
  BY <1>4, ContextKeeps
<1>5. ASSUME NEW c \in Callers, NEW guard \in RoleGuards, ProtectBlip(c, guard) PROVE ApiInv'
  BY <1>5, ProtectBlipKeeps
<1>6. ASSUME NEW r \in {"USER", "ADMIN"}, SetRole(r) PROVE ApiInv'
  <2>1. request' = Noted(r, alive) /\ role' = r /\ alive' = alive /\ alive \in BOOLEAN
    BY <1>6 DEF SetRole, ApiInv
  <2> QED BY <2>1, NotedKeeps
<1>7. ASSUME Flip PROVE ApiInv'
  <2>1. request' = Noted(role, alive') /\ role' = role /\ alive' \in BOOLEAN /\ role \in {"USER", "ADMIN"}
    BY <1>7 DEF Flip, ApiInv
  <2> QED BY <2>1, NotedKeeps
<1>8. CASE UNCHANGED apiVars
  BY <1>8 DEF apiVars, ApiInv
<1> QED BY <1>1, <1>2, <1>3, <1>4, <1>5, <1>6, <1>7, <1>8, <1>9, <1>10 DEF ApiNext

\* What is said of one request is what Served and RefusedForCause say.
LEMMA ApiInvServed == ApiInv => Served /\ RefusedForCause
<1> SUFFICES ASSUME ApiInv, NEW c \in Callers, request[c].at = "answered"
             PROVE  /\ request[c].answer = "ok" =>
                         /\ Matching(request[c].call.to)[1].does = request[c].call.does
                         /\ Matching(request[c].call.to)[1].does \notin Misplaced =>
                              Arrives(Matching(request[c].call.to)[1], request[c].call.to)
                         /\ TRUE \in request[c].entitled
                         /\ LET route == Matching(request[c].call.to)[1] IN
                            "alive" \in {route.guards[i] : i \in DOMAIN route.guards} => TRUE \in request[c].up
                    /\ RefusedOne(request[c])
  BY DEF Served, RefusedForCause, RefusedOne, Unknown
<1> DEFINE r == request[c]
<1>1. r \in Requests /\ ServedOne(r) /\ RefusedOne(r)
  <2>1. r # Idle
    BY DEF Idle
  <2> QED BY <2>1 DEF ApiInv, Fits
<1>2. RouteFits(r.call)
  BY <1>1, TableFits DEF Requests
<1>3. ASSUME r.answer = "ok"
      PROVE  /\ Matching(r.call.to)[1].does = r.call.does
             /\ r.call.does \notin Misplaced => Arrives(Matching(r.call.to)[1], r.call.to)
             /\ TRUE \in r.entitled
             /\ Probed(r.call) => TRUE \in r.up
             /\ GuardsFor(r.call) = Matching(r.call.to)[1].guards
  BY <1>1, <1>2, <1>3 DEF ServedOne, RouteFits, Routed, GuardsFor
<1> QED BY <1>1, <1>3 DEF Probed

THEOREM AlwaysApiInv == ApiSpec => []ApiInv
<1>1. ApiInit => ApiInv
  BY InitApiInv
<1>2. ApiInv /\ [ApiNext]_apiVars => ApiInv'
  BY NextApiInv
<1> QED BY <1>1, <1>2, PTL DEF ApiSpec

\* A request that is answered with success was handled by the route it was
\* written for, for someone with its role and on a live instance if it asks
\* for them, however many callers there are and whatever changes meanwhile.
THEOREM SuccessIsEarned == ApiSpec => []Served
<1>1. ApiInv => Served
  BY ApiInvServed
<1> QED BY <1>1, AlwaysApiInv, PTL

\* A request is refused only for one of the causes of RefusedForCause.
THEOREM RefusalsHaveCauses == ApiSpec => []RefusedForCause
<1>1. ApiInv => RefusedForCause
  BY ApiInvServed
<1> QED BY <1>1, AlwaysApiInv, PTL
=============================================================================
