------------------------------ MODULE TcpServer ------------------------------
(***************************************************************************)
(* Class PgFarmTcpServer of gateway/lib/tcp-server/index.js: the tables of *)
(* sockets and sessions, the timers that clean them up 100 ms after a      *)
(* socket has closed, and the shutdown.  monitor.js of the same directory  *)
(* keeps a third table of the sockets that are open.                       *)
(*                                                                         *)
(* Of a session's ProxyConnection only what the server sees of it is here: *)
(* its sockets, its autoCloseSockets flag and closeSockets; its dialogue   *)
(* is in ProxyConnection.                                                  *)
(*                                                                         *)
(* A session is named by its id; the sockets that ever belonged to it are  *)
(* what the close handlers hold in their closures.  An optional value is a *)
(* set of at most one element.                                             *)
(***************************************************************************)
EXTENDS Naturals, FiniteSets

CONSTANTS
  Sessions,   \* ids that getSessionId may return, each of them once
  Sockets,    \* bound: the sockets the gateway may ever have
  Tls         \* config.proxy.tls.enabled

ASSUME TlsAssumption == Tls \in BOOLEAN

VARIABLES
  sockets,    \* the keys of this.sockets
  known,      \* the keys of this.sessions
  members,    \* sessions.get(s).sockets
  tracked,    \* the keys of the monitor's socketsProperties
  timers,     \* closed sockets whose 100 ms timer has not fired
  clients,    \* the incoming sockets that ever belonged to a session
  servers,    \* the outgoing ones
  state,      \* of every socket
  client,     \* pgConnection.clientSocket
  server,     \* pgConnection.serverSocket
  closingClient, closingServer,  \* sessions whose closeSockets awaits end()
  autoClose,  \* sessions with pgConnection.autoCloseSockets
  signalled,  \* SIGTERM or SIGINT has been received: the server is closed
  told,       \* sessions whose client was sent the notice of the shutdown
  awaited,    \* sessions whose notice has not been written yet
  exited      \* process.exit

tables   == <<sockets, known, members, tracked, clients, servers>>
refs     == <<client, server, closingClient, closingServer>>
shutVars == <<signalled, told, awaited, exited>>
vars     == <<tables, timers, state, refs, autoClose, shutVars>>

Ever(s) == clients[s] \union servers[s]

TypeOK ==
  /\ sockets \subseteq Sockets /\ known \subseteq Sessions
  /\ members \in [Sessions -> SUBSET Sockets]
  /\ tracked \subseteq Sockets /\ timers \subseteq Sockets
  /\ clients \in [Sessions -> SUBSET Sockets]
  /\ servers \in [Sessions -> SUBSET Sockets]
  /\ state \in [Sockets -> {"unused", "open", "ending", "closed"}]
  /\ client \in [Sessions -> SUBSET Sockets]
  /\ server \in [Sessions -> SUBSET Sockets]
  /\ closingClient \subseteq Sessions /\ closingServer \subseteq Sessions
  /\ autoClose \subseteq Sessions
  /\ signalled \in BOOLEAN /\ exited \in BOOLEAN
  /\ told \subseteq Sessions /\ awaited \subseteq Sessions

Init ==
  /\ sockets = {} /\ known = {} /\ tracked = {} /\ timers = {}
  /\ members = [s \in Sessions |-> {}]
  /\ clients = [s \in Sessions |-> {}] /\ servers = [s \in Sessions |-> {}]
  /\ state = [k \in Sockets |-> "unused"]
  /\ client = [s \in Sessions |-> {}] /\ server = [s \in Sessions |-> {}]
  /\ closingClient = {} /\ closingServer = {} /\ autoClose = Sessions
  /\ signalled = FALSE /\ told = {} /\ awaited = {} /\ exited = FALSE

ClientOpen(s) == \E k \in client[s] : state[k] = "open"

-----------------------------------------------------------------------------
(* registerConnection.                                                     *)

Register(s, k) ==
  /\ state[k] = "unused" /\ state' = [state EXCEPT ![k] = "open"]
  /\ sockets' = sockets \union {k} /\ known' = known \union {s}
  /\ members' = [members EXCEPT ![s] = @ \union {k}]
  /\ tracked' = tracked \union {k}

\* variant: the listening socket stays open after the signal
ListeningAlways == TRUE

Listening == ~signalled

\* _onIncomingConnection: a new session with its raw client socket.
Accept(s, k) ==
  /\ ~exited /\ Listening /\ clients[s] = {}
  /\ Register(s, k)
  /\ clients' = [clients EXCEPT ![s] = {k}]
  /\ client' = [client EXCEPT ![s] = {k}]
  /\ UNCHANGED <<servers, timers, server, closingClient, closingServer,
                 autoClose, shutVars>>

\* handleSSLRequest: a TLS socket around the raw one takes its place.
Upgrade(s, k) ==
  /\ ~exited /\ Tls /\ ClientOpen(s) /\ client[s] = clients[s]
  /\ Register(s, k)
  /\ clients' = [clients EXCEPT ![s] = @ \union {k}]
  /\ client' = [client EXCEPT ![s] = {k}]
  /\ UNCHANGED <<servers, timers, server, closingClient, closingServer,
                 autoClose, shutVars>>

-----------------------------------------------------------------------------
(* ProxyConnection.closeSockets for the sessions S: the client socket is   *)
(* ended and awaited before the server socket is.                          *)

ClientEnds(S) == {s \in S : client[s] # {} /\ s \notin closingClient}
ServerEnds(S) ==
  {s \in S \ ClientEnds(S) : server[s] # {} /\ s \notin closingServer}

Ended(K) ==
  [k \in Sockets |-> IF k \in K /\ state[k] = "open" THEN "ending"
                     ELSE state[k]]

CloseSockets(S) ==
  /\ closingClient' = closingClient \union ClientEnds(S)
  /\ closingServer' = closingServer \union ServerEnds(S)
  /\ state' = Ended(UNION {client[s] : s \in ClientEnds(S)} \union
                    UNION {server[s] : s \in ServerEnds(S)})

\* It is called for a refused login, a failed start and the like.
ProxyCloses(s) ==
  /\ ~exited /\ client[s] \union server[s] # {} /\ CloseSockets({s})
  /\ UNCHANGED <<tables, timers, client, server, autoClose, shutVars>>

\* A socket has closed: its timer is set.  A raw socket and the TLS socket
\* around it take each other down.
Closes(s, k, alsoEnd) ==
  /\ state' = [Ended(alsoEnd \union IF k \in clients[s] THEN clients[s]
                                    ELSE {}) EXCEPT ![k] = "closed"]
  /\ timers' = timers \union (IF state[k] = "closed" THEN {} ELSE {k})

\* variant: the monitor keeps the socket
UntrackNot(k) == UNCHANGED tracked
Untrack(k) == tracked' = tracked \ {k}

\* The socket that closeSockets awaits is gone, or was gone already.
ClientEnded(s, k) ==
  /\ ~exited /\ s \in closingClient /\ k \in client[s]
  /\ state[k] \in {"ending", "closed"}
  /\ Closes(s, k, IF s \in closingServer THEN {} ELSE server[s])
  /\ Untrack(k)
  /\ closingServer' = closingServer \union
                        (IF server[s] # {} THEN {s} ELSE {})
  /\ client' = [client EXCEPT ![s] = {}]
  /\ closingClient' = closingClient \ {s}
  /\ UNCHANGED <<sockets, known, members, clients, servers, server,
                 autoClose, shutVars>>

ServerEnded(s, k) ==
  /\ ~exited /\ s \in closingServer /\ k \in server[s]
  /\ state[k] \in {"ending", "closed"}
  /\ Closes(s, k, {}) /\ Untrack(k)
  /\ server' = [server EXCEPT ![s] = {}]
  /\ closingServer' = closingServer \ {s}
  /\ UNCHANGED <<sockets, known, members, clients, servers, client,
                 closingClient, autoClose, shutVars>>

\* Any other socket that destroySoon has ended.
SocketEnded(s, k) ==
  /\ ~exited /\ k \in Ever(s) /\ state[k] = "ending"
  /\ ~(s \in closingClient /\ k \in client[s])
  /\ ~(s \in closingServer /\ k \in server[s])
  /\ Closes(s, k, {}) /\ Untrack(k)
  /\ UNCHANGED <<sockets, known, members, clients, servers, refs, autoClose,
                 shutVars>>

-----------------------------------------------------------------------------
(* The peers, and what the proxy connection does to the tables.            *)

\* The client goes, or its connection fails.
ClientLeaves(s, k) ==
  /\ ~exited /\ k \in clients[s] /\ state[k] = "open"
  /\ Closes(s, k, {}) /\ Untrack(k)
  /\ UNCHANGED <<sockets, known, members, clients, servers, refs, autoClose,
                 shutVars>>

HasClient(s) == client[s] # {} /\ client[s] \subseteq sockets

\* createServerSocket runs at the login and at a reconnect, which comes more
\* than a second after the old server socket closed.
MayOpenServer(s) ==
  /\ \A k \in server[s] : state[k] = "closed" /\ k \notin timers
  /\ s \notin closingServer

OpenServer(s, k) ==
  /\ ~exited /\ MayOpenServer(s) /\ HasClient(s)
  /\ Register(s, k)
  /\ servers' = [servers EXCEPT ![s] = @ \union {k}]
  /\ server' = [server EXCEPT ![s] = {k}]
  /\ UNCHANGED <<clients, timers, client, closingClient, closingServer,
                 autoClose, shutVars>>

\* createProxyConnection does not find the client socket and returns nothing.
OpenServerRefused(s) ==
  /\ ~exited /\ MayOpenServer(s) /\ clients[s] # {} /\ ~HasClient(s)
  /\ server' = [server EXCEPT ![s] = {}]
  /\ closingClient' = closingClient \union ClientEnds({s})
  /\ UNCHANGED <<tables, timers, state, client, closingServer, autoClose,
                 shutVars>>

\* The instance goes: under an open client the session is put to sleep, or
\* closed if the client is active.
ServerLost(s, k) ==
  /\ ~exited /\ k \in server[s] /\ state[k] = "open"
  /\ Untrack(k)
  /\ \/ /\ ClientOpen(s) => s \notin autoClose
        /\ Closes(s, k, {}) /\ UNCHANGED <<autoClose, closingClient>>
     \/ /\ ClientOpen(s) /\ s \in autoClose
        /\ Closes(s, k, {}) /\ autoClose' = autoClose \ {s}
        /\ UNCHANGED closingClient
     \/ /\ ClientOpen(s) /\ s \in autoClose /\ s \notin closingClient
        /\ Closes(s, k, client[s]) /\ closingClient' = closingClient \union {s}
        /\ UNCHANGED autoClose
  /\ UNCHANGED <<sockets, known, members, clients, servers, client, server,
                 closingServer, shutVars>>

\* The instance has accepted the login of a reconnect.
ReconnectDone(s) ==
  /\ ~exited /\ s \notin autoClose /\ \E k \in server[s] : state[k] = "open"
  /\ autoClose' = autoClose \union {s}
  /\ UNCHANGED <<tables, timers, state, refs, shutVars>>

-----------------------------------------------------------------------------
(* The timer of registerConnection's close handler.                        *)

\* variant: a session goes with its client socket
EmptyWithClient(s, k) == members[s] \ {k} = {} \/ k \in clients[s]

\* variant: the session is looked at before the socket is taken out of it
EmptyBefore(s, k) == members[s] = {}

Empty(s, k) == members[s] \ {k} = {}

\* variant: the other sockets are left to themselves
LeftoversNone(s, k) == {}

Leftovers(s, k) == IF s \in autoClose THEN members[s] \ {k} ELSE {}

CloseTimer(s, k) ==
  /\ ~exited /\ k \in timers /\ k \in Ever(s)
  /\ timers' = timers \ {k} /\ sockets' = sockets \ {k}
  /\ members' = [members EXCEPT ![s] = @ \ {k}]
  /\ known' = IF Empty(s, k) THEN known \ {s} ELSE known
  /\ state' = Ended(Leftovers(s, k))
  /\ UNCHANGED <<tracked, clients, servers, refs, autoClose, shutVars>>

-----------------------------------------------------------------------------
(* SIGTERM and SIGINT: the server stops listening and every session's      *)
(* onShutdown writes a notice to its client, then calls closeSockets.      *)

\* A write to a client that is not open, or whose buffer is full, waits for
\* 'drain' if there is a server socket to pause, and throws if there is not.
Signal ==
  /\ ~exited /\ ~signalled /\ signalled' = TRUE
  /\ \E full \in SUBSET {s \in known : ClientOpen(s)} :
       LET written == {s \in known : ClientOpen(s)} \ full
           stalled == {s \in known \ written :
                         client[s] # {} /\ server[s] # {}}
       IN  /\ told' = written \union full /\ awaited' = stalled
           /\ CloseSockets(written) /\ exited' = (stalled = {})
  /\ UNCHANGED <<tables, timers, client, server, autoClose>>

\* A client with a full buffer reads again.
Drain(s) ==
  /\ ~exited /\ s \in awaited /\ ClientOpen(s)
  /\ awaited' = awaited \ {s} /\ exited' = (awaited = {s})
  /\ CloseSockets({s})
  /\ UNCHANGED <<tables, timers, client, server, autoClose, signalled, told>>

-----------------------------------------------------------------------------
Endings ==
  \E s \in Sessions, k \in Sockets :
    ClientEnded(s, k) \/ ServerEnded(s, k) \/ SocketEnded(s, k)

Timers == \E s \in Sessions, k \in Sockets : CloseTimer(s, k)

Next ==
  \/ \E s \in Sessions, k \in Sockets :
       \/ Accept(s, k) \/ Upgrade(s, k) \/ OpenServer(s, k)
       \/ ClientLeaves(s, k) \/ ServerLost(s, k)
  \/ \E s \in Sessions : ProxyCloses(s) \/ OpenServerRefused(s)
                         \/ ReconnectDone(s) \/ Drain(s)
  \/ Endings \/ Timers \/ Signal

Spec == Init /\ [][Next]_vars

\* Timers fire, and a socket that was ended closes.  Nothing is asked of the
\* clients, the instances or the signal.
FairSpec ==
  /\ Spec
  /\ \A s \in Sessions, k \in Sockets :
       /\ WF_vars(ClientEnded(s, k)) /\ WF_vars(ServerEnded(s, k))
       /\ WF_vars(SocketEnded(s, k)) /\ WF_vars(CloseTimer(s, k))

-----------------------------------------------------------------------------
\* The two tables of the server say the same of every socket, and a session
\* is in its table exactly as long as it has a socket.
TablesAgree ==
  \A s \in Sessions :
    /\ members[s] = sockets \intersect Ever(s)
    /\ s \in known <=> members[s] # {}

\* When a close timer fires its session is still in the table: otherwise
\* taking the result of sessions.get apart would throw and end the process.
TimerFindsSession ==
  \A k \in timers, s \in Sessions :
    k \in Ever(s) => s \in known /\ k \in members[s]

\* The monitor counts exactly the registered sockets that have not closed.
TrackedAreOpen == tracked = {k \in sockets : state[k] # "closed"}

\* A session that has left the table never comes back, however late an
\* instance start or a reconnect opens its server socket.
SessionsStayGone ==
  [][\A s \in Sessions :
       clients[s] # {} /\ s \notin known => s \notin known']_vars

\* The process does not exit under a client that was told nothing.
NobodyDroppedSilently ==
  exited => \A s \in Sessions : ClientOpen(s) => s \in told

\* When a client has gone and its session was not told to keep its sockets,
\* every socket of the session closes and the session leaves the table, also
\* one opened after the client had gone.
SessionDrains ==
  \A s \in Sessions :
    (s \in autoClose /\ timers \intersect clients[s] # {})
      ~> (s \notin known \/ exited)
=============================================================================
