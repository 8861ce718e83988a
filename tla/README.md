# A verification project for PG Farm

PG Farm runs PostgreSQL instances in Kubernetes for many organizations. A
gateway accepts PostgreSQL and HTTP connections, checks who the user is, starts
the instance if it sleeps and forwards the traffic. Instances that nobody uses
are put to sleep and are started again when a client speaks. An administration
server creates databases, keeps the accounts and grants of their users, and is
driven by a web client and a command line tool. This directory holds TLA+ models
of the parts of the system that are concurrent or that fail half way, the TLC
runs that check them, and machine-checked proofs about them.

Paths below are relative to `src/services`, except those under `tools`, which
are relative to `src`. `PROJECT.json` maps each definition to the lines it was
translated from.

## 1. The system

| Component | State it keeps | Operations | What is hard | Modelled in |
|---|---|---|---|---|
| PostgreSQL proxy connection (`gateway/lib/pg-proxy/proxy-connection.js`) | two sockets, a dozen flags, the chunks held back | login with a token or as the public user, forward, sleep, reconnect, close | handlers interleave at every `await`; the instance may go away at any time, also during a reconnect; arrays used across callbacks | `ProxyConnection` |
| TCP server (`gateway/lib/tcp-server/`) | table of sockets, table of sessions, the monitor's table, timers | accept, TLS upgrade, open a server socket, close timers, shutdown | a socket opened while its session is being removed; SIGTERM at any moment | `TcpServer` |
| `startInstance` (`models/admin.js`) | `instancesStarting` | start, join a start, answer | rejections at every `await`, promises that nobody awaits | `StartInstance`, `SingleFlight` |
| instance lifecycle (`models/instance.js`, `models/health-probe.js`, `models/admin.js`, `lib/kubectl.js`) | the row of the admin database, objects in Kubernetes, the probe's cache | create, start, stop, restore, sleep, repair | several processes and no lock; restarts; errors that are passed over | `InstanceLifecycle`, `Creation` |
| instance resources and the sleep sweep (`lib/instance-resources.js`, `models/admin.js`) | priority in the row, class of the pod | list, put to sleep, change the priority | a page of rows read before many awaits; a row and a pod written one after the other; thresholds | `InstanceResources`, `Sweep` |
| PostgREST service (`models/pg-rest.js`) | a Deployment and a Service per database, roles in the instance | start, stop, initDb | runs beside the start of its instance, with a password read when it starts | in the lifecycle, the accounts and the creation |
| users and passwords (`models/user.js`, `models/instance.js`) | rows of the admin database, roles of the instance | create, retype, delete, synchronise, initialise | two databases, no transaction across them, passwords with which the other requests connect | `Accounts` |
| grants (`lib/grant-definitions.js`, `models/user.js`) | privileges in the instance | grant, revoke, level of a role | lists of statements with no transaction around them | `Access` |
| databases and organizations (`models/database.js`, `models/organization.js`, `models/admin.js`) | rows, the featured list, databases of the instance | ensureDatabase, features of the list | six things made one after the other; names that are cleaned in some places | `Creation`, `Featured` |
| request context, Keycloak client (`lib/context.js`, `lib/keycloak.js`) | the context of a request, a token cache | lookups, `setUser`, `protect` | lookups that fail and leave a name | `ApiRequest` |
| admin API (`administration/src`) | none | some sixty routes with their middleware | the order of the routes; role, context and health read one after the other | `ApiRoutes`, `ApiRequest` |
| client library (`tools/lib`) | stores of answers by key | a method per request | what two questions share, and what a write must forget | `ClientMethods`, `ClientCache`, `ApiRoutes` |
| administration pages (`client/dev`) | rows, selections, dialogs, the loader | change a grant, by dropdown, form or in bulk | pages that listen while hidden, answers that overlap | `AdminPages` |
| command line tool (`tools/cli`) | none | one request each | | `ApiRoutes` |
| backup, archive, restore (`models/backup.js`, `pg-helpers/`) | dump files, the row | backup, archive, restore | every operation throws at its first lookup | entry of restore only |
| connection log (`gateway/lib/pg-proxy/monitor.js`, `schema/006-connection.sql`) | rows per session | open, close, event | statements that do not wait for each other | time of the last event, in `Sweep` |
| login, HTTP side of the gateway, configuration, metrics, logging, mail, deployment files, connection tests | none | | little | no |

How they interact. A PostgreSQL client reaches the TCP server, which creates a
ProxyConnection for its session. That one asks `startInstance` for a running
instance, and the TCP server for a socket to it. `startInstance` asks the
health probe, over HTTP, whether the instance runs, and otherwise applies it
with kubectl and waits for its port. The health probe, a process of its own,
tries the ports of every service each ten seconds and starts what should run
and does not. The admin process stops instances, by request or by a nightly
sweep. The gateways, the probe and the admin process share the row of the
instance and its objects in Kubernetes, and nothing else.

A page or a command calls a model of the client library, which looks in a store
and sends a request if it has to. The admin API builds the context of the
request from the admin database, checks the role and the health it needs, and
calls one model of the server, which writes the admin database and the instance
one statement after the other.

## 2. The modules

| Module | What it is |
|---|---|
| `ProxyConnection` | one session: client, proxy, instance, and what the TCP server does with its sockets |
| `TcpServer` | all sessions of one gateway process: the tables, the timers, the monitor, the shutdown |
| `StartInstance` | `startInstance` for one instance in one process, with all of its callers |
| `SingleFlight` | the abstract promise of `startInstance`: a caller waits until it is answered, and two starts never overlap |
| `InstanceLifecycle` | one instance across all processes: the row, the objects, the probe |
| `InstanceResources` | the priority an instance deserves, as a function of its level and idle time |
| `Sweep` | `sleepInstances` over several instances, extends `InstanceResources` |
| `Accounts` | rows, roles and grants of one instance, in two databases |
| `Creation` | `ensureDatabase`, from the organization to PostgREST |
| `Featured` | edits of the featured list, extends `Creation`; both are checked together, as the requests of one server |
| `Access` | grants and revocations as lists of statements |
| `AdminPages` | three pages of the web client over `Access` |
| `ApiRoutes` | the routes of the admin API, and the requests of the client library and the command line tool |
| `ApiRequest` | requests on their way through the middleware, extends `ApiRoutes` |
| `ClientMethods` | the methods of the client library, a row each: store, key, fields, handler |
| `ClientCache` | the caches while requests and answers overlap, extends `ClientMethods` |
| `ProxyConnection_proof`, `StartInstance_proof`, `Sweep_proof`, `ClientCache_proof`, `Accounts_proof`, `AdminPages_proof` | theorems about the module each is named after |
| `Catalog_proof` | theorems about `Creation` and `Featured` together |
| `Servers_proof` | theorems about the two servers, `TcpServer` and `ApiRequest` |
| `MC_*` | what TLC instantiates; the `.cfg` files are named after their runs |

A comment "variant: ..." marks a variant of the definition below it with a bug
such code could have; each property has one that breaks it (`PROJECT.json`,
`mutants`).

### ProxyConnection

The variables carry the names of the fields of the class. `cSock` and `sSock`
are the two sockets, `cView` is what the client has seen of its login, `srv` is
how far the instance is in its login dialogue, and `task` and `reconnectTask`
name the `await` at which a login or a reconnect is suspended. An action is one
run of the event loop: a handler up to its first `await`, or the code after one.

- A chunk is a number. Chunk 0 is the password of a public user, the only one
  that is forwarded. `PChunks` are the chunks whose first byte is `p`.
- `unacked` holds the writes that the kernel has not taken. A write is either
  taken at once or stays there; `Room` of them make `write()` answer false.
  The proxy's own startup and password messages are taken at once, and back
  pressure towards the client is left out.
- `AuthenticationOk` up to `ReadyForQuery` is one message.
- Time is abstract. The five-second activity timer and the 100 ms close timers
  fire at any later moment. One order is kept: `waitUntil` sleeps a second
  before its first attempt, so `ReconnectReady` comes after the close timer of
  the old socket.
- The client follows the protocol: it starts up, gives a password when asked,
  and sends chunks once it is logged in, waiting for each answer or not
  (`Pipelined`). A paused client socket is not read, so its end is not seen.
- `getInstanceStatus` resolves with a context that has no `state`, so that the
  branch for archived instances is never taken (`StatusChecked`).
- A failed start ends the process, by the unhandled rejection of the async
  executor in `createServerSocket` (`InstanceStartFailed`).

### TcpServer

`sockets` and `members` are the two tables, `known` the sessions that have an
entry, `tracked` the monitor's table, `timers` the sockets that closed less
than 100 ms ago. `clients` and `servers` remember which sockets a session ever
had. A proxy connection is reduced to what the TCP server sees of it: its
sockets, `autoCloseSockets`, and the two parts of `closeSockets`. A client over
TLS is two sockets, of which either takes the other down. The `timeout` handler
never runs, since no session socket has a timeout. A session has one server
socket at a time: the next one is opened more than a second after the last one
closed.

### StartInstance and SingleFlight

`entry` says whether `instancesStarting[iid]` exists; `work` and `rest` are the
two promises of the last flight; `caller` is what each caller awaits, or how it
was answered. A step is one promise settling with every reaction to it. The
kinds of callers are those in the code: the PostgreSQL proxy (no PostgREST, it
awaits the instance), the HTTP proxy (it awaits PostgREST) and the admin API
(it does not wait). The promise of PostgREST may be fulfilled while the start is still
under way (`RestUp`): `waitForPgRestDb` (`admin.js:564`) tries ten times and then
returns as if it had connected, so that the HTTP proxy goes on (`served`) and may meet
a PostgREST that does not answer. `Implements` is the refinement: `INSTANCE SingleFlight WITH
call <- ..., starting <- starts > 0`.

### InstanceLifecycle

`row` is `instance.state`; `statefulset`, `service`, `ready` and `rest` are what
exists in Kubernetes; `step` is where each process is in its operation, and
`tcpStatus` is the probe's cache. The processes are the `Gateways`, which only
start, the `Admins`, which also stop, restore and run `sleepInstances`, and the
`Probe`. A step is the code between two awaits of other processes' state.
`MaxFaults` bounds the kubectl calls that fail (with or without their effect,
since the wrapper also throws when kubectl wrote to stderr), the restarts, and
the pods that go down.

- PostgREST is one object, for one database.
- Of the other instances the probe's list is what matters: `ensureRunning` takes ten
  rows in the order of their names (`pg-admin-client.js:221`), so that this instance may
  not be among them (`Crowded`), and an error of one before it ends the loop
  (`OthersFail`, `LoopEnds`). `ReachInstance` is the loop coming to this one.
- What `sleepInstances` decides from the last event of the database is a free
  choice. An instance that is ALWAYS available is one that is always kept.
- One `checkAlive` is one step, its effect being that of the ports tried.
- ARCHIVING and ARCHIVE do not occur: `backup.archive` and `remoteArchive` pass
  two strings to `getInstance`, which takes a context, and throw before they
  change anything. So does the helper's `restore`.
- The branch without Kubernetes (`k8s.enabled` false) is left out.
- Several flights of one process are in `StartInstance`; here a worker runs one
  operation at a time.

### InstanceResources and Sweep

`getResources` reads the table `STATES` as functions from priority to age.
`state` and `prio` are the row of an instance, `pod` is the class of its pod,
`age` the hours since its last event. A sweep (`sweeper`) keeps the rows it
listed and goes on from await to await: `Decide` reads the event, `Stop` and `Write`
change the row, `Compute` and `Apply` are the two awaits of `instance.apply`, and
`Fail` is an error at any of them. Beside it instances are queried, requests of
`Callers` start one or change its priority, which applies it as well, and hours pass.
`kube` holds what each of them has computed and not yet applied, and whether another
apply of the instance has landed meanwhile. `calm` remembers that nothing touched a
sweep, `used` that an instance was queried since its class was computed.

- The rows listed are a set, taken in the order of their names (`Turn`).
- An instance that was put to sleep comes back by `Start`, which gives it the
  highest priority in the row and the deserved one in the pod. An apply that lands after a
  stop brings the pod back, while the row says SLEEP.
- The states STOPPING and STARTING are left to `InstanceLifecycle`.

### Accounts

`row` is `instance_user`, `role` the login roles of the instance, `member` those
granted to the authenticator, `privs` what a role owns that keeps it from being
dropped, `rest` the password PostgREST started with. A worker is a request; its
`step` is the statement it comes to. A password is a number; `Fixed` is the
one from the configuration. Connections remember the password of the admin user
they were made from (`con`), so that a change of it is seen by the next
connection only. Each statement may fail before or after its effect, and a
process may end between any two.

- Deletions and synchronisations that overlap another request are marked
  (`raced`): no code orders them, and the properties leave them out.
- `orphans` remembers the names whose row was deleted while the role stayed
  (`user.js:203`): a later creation of such an account makes a new password for
  the row only, and `AgreeAtRest` leaves it out.
- Profiles from UC Davis IAM and the parents of service accounts are left out.

### Creation and Featured

`orgs`, `instances`, `rows` and `users` are the tables of the admin database;
`cluster` and `schemas` are the databases of the instances and their `api`
schemas, `roles` the roles there; `served` holds the hostnames PostgREST is deployed
under. A password is a number, the initial one 0: `saved` is that in the row of an
instance's postgres, `actual` the one it has. Every creation gives postgres a new one, the
role first (`ResetRole`) and the row in the next statement (`SavePassword`); `cut` remembers
the instances where a fault came between. A connection is made with the password that was
read before (`con`, `key`), so another creation in between makes it fail, which
`ensurePgDatabase` logs and `initDb` answers with. The passwords of the public user and
the authenticator decide nothing here. A request is
where it is in `ensureDatabase` (`pc`) and the context it changes on the way. Each query
may fail (`Fault`), and the process may end (`Crash`). A name is a sequence of
words, since hostnames are names put one after the other, and cleaning maps
words to words; the code cleans a name in some places and uses it as it was
asked in others, and so do the actions. `Featured` adds the list: an edit reads
it, changes it in memory and writes one position per query. `overlaps`, `hit`
and `neighbour` remember the causes for which a request may fail.

### Access and AdminPages

A grant is a list of statements, each over a set of privileges `<<user, kind,
name, action>>`; `Level` is what the registry of grants makes of them. The
database has one schema. What PUBLIC holds is left out. A bulk change is one request:
its entries are written as requests that follow each other, of which none is sent once
one has failed.

`AdminPages` has the page of a user, the page of a table and the list of the
users; all of them stay in the document and go on listening when another is in
view. `loads` are handlers of a location, suspended at a request; `changes` are
the changes of access under way, each a list of requests and the statements
left of the one at the server; `timers` are the pages that will be displayed
200 ms later; `loader` is `app-loader` with its two animations. A failure is a
statement or an answer that fails, or an instance that sleeps.

- The filters of the tables, texts and links are left out. The pages for
  instances, metadata and featured lists are not modelled.

### ApiRoutes and ApiRequest

A route is its verb, its path with slots, its guards in order, what it reads of
query and body, and the method of the client library it was written for. The
routes are in the order in which express tries them, so that `Matching` may find
another one than was meant. A request goes through `left`, the middleware and
handler of its route: `Identify` (`setUser`), `Context`, `Protect`, `Probe`,
`Handle`. Beside it the role of its sender and the health of the instance
change, and each query of the middleware may fail. A rejection that nobody
handles ends the process with all its requests (`Dead`).

- How the routes fit the requests is `RoutesAssumption`: a request finds the route it
  was written for, with its fields, and no middleware of that route comes before one it
  relies on. It speaks of the two tables and of no constant.
- `entitled` and `up` collect what the role and the health were while the
  request was under way.
- The model behind a handler answers or fails, and in three handlers may wait for ever
  (`MayHang`); what it does is in the other modules. The probe may end the process instead
  of answering, if kubectl cannot be initialised (`ProbeFails`).

### ClientMethods and ClientCache

A row of `ClientMethods` says in which store a method looks, under which key,
which fields go into the request, and which handler takes the answer. `cache`
holds the entries, `requests` what was sent, `calls` who asked for what and the
answer they were given. The server is a version that each write advances;
`floor` is the version of the last write that outdated a store, `across` marks
a request that was under way then. Answers come in any order, or fail. A late
answer of a request that was `across` may replace the entry of the request sent
after the write, so that a third caller asks once more: `OneRequest` leaves that
case out.

## 3. The runs

Passing runs:

| Run | Instance | What it shows |
|---|---|---|
| `proxy_session` | TLS, 3 chunks, pipelining client, a chunk that begins with `p`, 2 deaths, refused logins; 40,621 states | What is held back is never left behind (`BufferedOnlyWhileHeld`); chunks go to a live instance that has accepted the login on this connection (`ForwardTargetAlive`, `NoEarlyTraffic`); a reconnect is invisible (`SilentReconnect`) and ends unless the instance fails again (`ReconnectEnds`); sockets are closed completely, and the table is emptied (`CloseSocketsCompletes`, `SessionEnds`). |
| `proxy_one_request` | no TLS, 3 chunks, one at a time, 3 deaths | A client that waits for each answer loses nothing, and nothing is repeated or reordered (`NothingLost`, `InOrder`). |
| `tcp_server` | 2 sessions, 3 sockets, TLS; 60,290 states | The tables, the timers and the monitor agree (`TablesAgree`, `TimerFindsSession`, `TrackedAreOpen`); nobody is dropped without a notice at shutdown (`NobodyDroppedSilently`); a session whose client has gone loses all its sockets and its entry (`SessionDrains`). |
| `start_faults` | 3 callers, all faults; 94,783 states | Starts do not overlap (`OneStart`), `SingleFlight` is implemented (`Implements`), and a leader that got its answers sees to it that its joiners are answered (`LedFlightEnds`). |
| `lifecycle_repair` | a gateway, an admin, the probe, which may miss the instance or end early, 1 fault; 416,915 states | What the row says should run, and the probe reaches again and again, is brought back, with PostgREST, after every race and the fault (`RunIsRepaired`, `RestIsRepaired`); a wait for its port ends while the row says RUN (`WaitEnds`). |
| `sweep` | levels ALWAYS, LOW and MEDIUM, pages of 2, two sweeps, a request, one use, one fault; 407,075 states | A pod's class rises only after a query, unless an apply lands that another one has overtaken (`PriorityFollowsUse`); a sweep nobody disturbs leaves what it listed as it should be (`SweepSettles`); who is not used is put to sleep, unless it is off the page for ever (`IdleSleeps`). |
| `accounts` | 1 user, 1 database besides `postgres`, 2 workers, 3 requests, 1 fault; 4.35 million states | Requests that overlap leave no account whose password is refused (`AgreeAtRest`); success means what it says after any earlier failure (`Ready`, `DeleteForgets`); a synchronisation repairs what failures left (`SyncRepairs`). |
| `catalog` | 3 creations, on a shared instance, by a title, with a hostname that is taken; 4 edits; 2 workers (alike), 3 requests, 1 fault; 2.08 million states | A creation fails only for a cause, and what an earlier one left is none, but a password of postgres that was never saved (`FailsForCause`); one that succeeds has made everything, unless another one overlapped it on its instance (`CreatedIsServed`); an edit of the featured list does what it says (`EditsTakeEffect`). |
| `api` | one caller sends any request as anyone, another one the request that ends the process; 2 changes or faults; 387,059 states | Success means the right handler, with the fields, for someone entitled, on a live instance (`Served`); a refusal has a cause (`RefusedForCause`); every request ends, unless it waits in one of three handlers for an instance (`EndsAnswered`). |
| `client_cache` | any two calls, three of the deep methods, 2 values; 1.52 million states | What a caller is given answers its own question (`OwnAnswer`), the same question is not asked twice at a time (`OneRequest`), and after a write the public caches hold nothing older (`FreshAfterWrite`). |
| `pages` | 2 roles, 1 table; a move and a change, two changes, a change and a fault, two moves and a fault; 2.44 million states | A change that nothing disturbed reached what it was asked to (`Settled`); a page at rest shows the truth (`ShownIsTrue`); the loader does not stay (`LoaderClears`). |

The run that TLC finds violated, a disagreement between the code and what it
says of itself (quoted in `PROJECT.json` under `findings`):

| Run | Property | What happens |
|---|---|---|
| `proxy_pending_flush` | `NothingLost` | Two chunks held during a reconnect: the flush loop, over an array that changes under it, sends the first again and drops the second. |

Other behaviours of the code that the models have, and that the properties
above are stated around, each with its place:

- A chunk that arrives while `getInstanceStatus` is awaited is kept, but wakes
  nobody; the next one does (`proxy-connection.js:262`).
- The client leaves during a reconnect: nothing closes the new server socket
  but the instance (`tcp-server/index.js:173`).
- The health probe does not answer a start: the entry stays in
  `instancesStarting`, and later callers wait for ever (`admin.js:436`).
- A start fails with no second caller: an unhandled rejection ends the process
  (`admin.js:538`).
- The probe, or a sweep, acts on an old list and applies what a stop has
  deleted: pods outlive the SLEEP row (`health-probe.js:228`).
- An instance beyond the tenth running one by name is not looked at by a sweep
  while the ten before it stay (`pg-admin-client.js:221`), and not by the probe either,
  although a comment says that all instances in RUN are made to run
  (`health-probe.js:219`, `:228`); nor is one behind an instance that always fails (`:256`).
- After its login, a chunk of a client that begins with the byte `p` is taken for a
  password, since the flag that would tell is set on an object that has been replaced
  (`proxy-connection.js:286`). A later piece of a message that TCP has split may begin with
  any byte.
- Creating a database, starting and restoring an instance wait for it without a limit
  (`admin.js:138`, `:423`, `:207`): these requests may never be answered.
- A failure between the two statements that change the password of postgres leaves one that
  nobody knows. Later resets are refused, and every later creation on the instance ends with
  an error (`user.js:299`), although `ensureDatabase` is there to be run again
  (`admin.js:96`). And a creation beside another on its instance may succeed without its
  database, as a refused connection is only logged (`database.js:262`).
- Of two applies of an instance the older may land last (`instance.js:339`, `:390`), and
  raise the class of its pod or bring the pod back after a stop.
- A start writes the highest priority into the row and gives the pod the one it
  deserves (`instance.js:271`); an instance that was started by hand may be put
  to sleep before its first query (`instance-resources.js:217`), and one
  without any event never is.
- A user row is removed even if the role survives (`user.js:203`); a second
  `PUT` without a type makes an ADMIN a USER again.
- A move in the featured list is ignored if the position stored in the entry,
  which may not be its place, is the one asked for (`database.js:223`).
- Routes for `/search` and the like are reached by administrators only, since
  the roles of an organization are never read; `POST /organization` and
  `POST /instance` always fail; the `link` route ends the process if its
  organization cannot be looked up; the backup commands of the command line
  tool post to URLs that no route has.
- A hidden page whose rows are selected takes the confirmation given on another
  page for its own (`admin-database-user-table-access-table.js:151`).
- The session is not in the key of the connection log, and `getSchemaTables`
  looks in a store that nothing writes (`tools/lib`).

Why the bounds are enough. The flush loop behaves alike for two chunks and for
more; three give it more than one shape, and two deaths let the instance fail
in the middle of a reconnect, which is the deepest nesting the flags have. The
sessions of the TCP server share nothing but the tables, where each looks up its
own key (the proofs are for any number); two of them let a shutdown
wait for one client while another arrives, and three sockets let one session
have TLS and a server, or a server opened while another closes. Three callers are one leader, one
joiner, and one leader of an earlier flight. A race of the lifecycle has at
most a start, a stop and a repair in it; one fault falls between any two steps.
A sweep disturbs another through one instance at a time; of three instances one
is off a page of two, the levels are one that is never stopped and two with
different tables, and the ages lie before, between and after their thresholds (that of the
instance which is never stopped does not matter, and starts as one: `MCSpec`).
Two requests about accounts, creations or the list overlap in pairs, and a third
one meets what they left; one user is enough, since no statement is about two. The
one fault of a creation may be the cut between role and row, or what leaves any part of it
undone; the workers of `catalog` are alike, so TLC looks at one of each pair of states
that differ by their names.
An API request meets at most a change of role and one of health. Of a store,
two values tell an entry from its neighbour, and a read, a write and a second
read are the shortest way to a stale entry. A change of access meets a second
one, a move or a failure; each pair is one of the `Budgets`.

Deadlock is checked in `lifecycle_repair`. The other systems may really stop: a
session that is over, a process that has exited, a table that is stuck, a server
that has answered everything that was asked of it do nothing more.

`TypeOK` is defined in most modules. It is proved for `ProxyConnection`,
`StartInstance`, `TcpServer` and `Accounts`; the runs spend their time on the
properties above.

## 4. Fairness

- `ProxyConnection`: continuations whose promise settles, close timers, sockets
  told to end, write callbacks, and an instance that is up and answers. Node runs
  all of these. Nothing makes the client speak or leave, a server die, or
  `startInstance` resolve.
- `TcpServer`: sockets told to end end, timers fire, a reconnect under way goes on.
- `StartInstance`: `WF(Progress)`: a promise that can settle does. Nobody has to call.
- `InstanceLifecycle`: each process goes on with its operation, `checkAlive`
  comes again and again (`setInterval`), `ensureRunning` goes on, pods become
  ready. Requests and faults are never forced. That `ensureRunning` reaches the instance
  again and again is no fairness but the hypothesis of each property (`[]<>Reached`): the
  ten rows and the errors of other instances may keep it from it for ever.
- `Sweep`: the cron job comes again and its awaits settle; hours pass. A sweep
  that was asked for, queries, starts and errors are free.
- `ApiRequest`: queries and probes end, well or not, and so do the handlers, but for the three
  that wait for an instance without a limit (`Unlimited`).
- `AdminPages`: the server answers, statements go on, timers fire, animations
  end. A user need not act.

The other specifications have none: their properties are about what is answered.

## 5. What is proved

`tlapm` checks all of it, for all values of the constants that satisfy the
named assumptions (`FaultsAssumption` and `TlsAssumption`: flags are Booleans;
`ConstantsAssumption`: flags are Booleans, the bounds are natural numbers,
`PChunks` are chunks, and a socket buffer has room for all of them;
`SweepAssumption`: any number of instances with any levels, any page size, any
set of sweeps, ages that include 0; `CallsAssumption`: there is a value, and the
deep methods are methods; `BoundsAssumption`, `NamesAssumption` and
`RowsAssumption`: the bounds are natural numbers, the names of the system's own
accounts are not those of users, and no row is the value that stands for none;
`AskedAssumption` and `CleaningAssumption`: what is asked for has an organization,
a database and an instance, and cleaning what is clean changes nothing;
`EditsAssumption`: an edit adds or removes a database and has a natural number for its
position, and the lists the model starts from are finite; in `Access`,
another `NamesAssumption`: there are finitely many users and tables, some of each, and
no table has the name the model gives to the schema, to the database, or to an object
without a name; `BudgetsAssumption`: the bounds are natural numbers; `SendAssumption`:
callers send requests of the library or of the tool). `RoutesAssumption` has no
constants: every run of `api` decides it.

**ProxyConnection_proof.** Eight properties, none of which is inductive, follow
from one inductive invariant. Each part of it speaks of what the part before it
leaves open:

- `Phases`: the modes agree (`ModeConsistent`), and they tell where the sockets
  are: a session asleep has a closed server socket and nothing buffered, one
  that has not been started has none, and whatever has begun to close the
  session has begun with the client. A new server socket is created only at
  two awaits, of the login and of the reconnect; `LoginPhase` says how often the
  first is passed. From it: `ModesAgree`, `ServerSocketEndsLast`.
- `StartupPhase`: which of the two statements sends the startup message of a
  socket that connects; it needs to know whether a reconnect is under way.
  From it: `OneStartup`.
- `Dialogue`: outside of a reconnect the client's login is as far as that of
  the instance. This is what makes a proxied `AuthenticationOk` come when the
  client expects it. From it: `ReconnectIsSilent`.
- `Buffer`: `pendingMessages` and the socket's buffer are equal when no traffic
  is held, and a logged-in client has a live instance. Write callbacks take out
  the first equal chunk; that it is the right one rests on the equality.
  From it: `NothingLeftBehind`, `ForwardsToLiveInstance`.
- `Unsent`: before the instance accepts the login the socket's buffer holds
  no request. From it the action property `EarlyTrafficNever`.

Two more are about clients that wait for each answer, and whose chunks never begin with
`p`, the byte of a password message (`~Pipelined`, `PChunks = {}`):
`WaitingClientLosesNothing` and `WaitingClientInOrder`. Other clients may lose a message,
one way as the run `proxy_pending_flush` shows, or because a chunk is taken for a
password. For these clients it is not: the flag that makes the proxy look for a
password is taken back before they can be logged in (`NextLoginOver`).
`OneAtATime` is what such a client adds to the
invariant: at most one message is under way, so that the flush loop, which changes
the array that it walks, is reached with one element; and what the instance has
got, followed by what is pending, is what the client has said, in order (`Told`).

Lemmas about the community modules' `RemoveFirst` and about the flush loop come
first; that the minimum `Min` of a nonempty set of numbers exists is taken
from the library's theorem that `<` is well founded.

**StartInstance_proof.** The inductive invariant is `TypeOK`, `LeaderStatus`
(a caller that waits for the health probe has the entry and no work yet; one
that reads the databases has the entry, work, and nobody attached; a joiner has
the entry), `FlightOrder` (a flight's parts come in the order entry, work,
attached, rest; `starts` is 1 exactly while its work is starting, and then the
entry is there) and `FlightInTable`. `OneStart` alone is not inductive: a new
leader may begin a start only because the entry of the earlier flight is
removed no sooner than its start has ended, which is what `FlightOrder` says.
From it follow `TypeCorrect`, `StartsNeverOverlap`, `FlightsAreInTable` and
`Refinement`, the last by step simulation: every action of `StartInstance` is a
Call, a Begin, an Answer, or a stutter of `SingleFlight`. That PostgREST may be given up while
the start goes on is one of the steps; who waits for it is then answered, and the start is not over.

**Servers_proof: the TCP server.** The inductive invariant is `TypeOK`, `Owned` (no session has
an unused socket, and no two have one in common), `RefsOwned` (what a proxy
connection refers to is its own), `Registered` (a socket that has left the table
is closed, the pending timers are those of registered sockets that have closed,
and every registered socket has its session), `TablesAgree` and
`TrackedAreOpen`. The properties `TimerFindsSession` and `SessionsStayGone`
follow from `Registered`: the entry of a session goes only with its last socket,
and a server socket is opened only while the client socket is registered.
`ShutdownTellsEveryone` has a strengthening of its own, `OpenAreTold`: once the
signal has come, every session whose client is open has been told. Theorems:
`TypeCorrect`, `TablesAlwaysAgree`, `TimersFindSessions`, `MonitorIsExact`,
`SessionsNeverReturn`, `ShutdownTellsEveryone`.

**Servers_proof: the admin API.** `SuccessIsEarned` and `RefusalsHaveCauses`, for any
number of callers, requests and changes of the role and the instance. The tables are
concrete, and TLC decides what is said of them alone (`RoutesAssumption`); what happens to
a request under way is proved from that. `ApiInv` says of each: what is left of its
middleware is a rest of that of its route, the handler last (`Rest`); a guard that is no
longer left has seen a role that entitles, or an instance that is alive (`Shown`);
nobody probes an instance before there is a context (`Guarded`); and what the role and
the instance are at any moment is noted in the request (`Notes`), so that what a guard
saw can be told from what holds when the answer is sent.

**Sweep_proof.** `PodsRiseAfterUse`: however sweeps, starts, queries and requests
for a priority interleave, the class of a pod rises only after a query, or by an apply
that another one overtook. The
argument is in two parts. `PriorityFalls` is about the table of
`InstanceResources`: for every level, an instance that has been idle longer
never deserves a higher priority, and a sleeping one is below them all
(`Extremes` gives the least and the greatest element of a set of priorities,
and the case of each level looks at its thresholds). `PodJustified` is the
invariant: a pod that has not been used since its class was set has at least
the class its instance deserves now. `KubeJustified` says the same of each class that was
computed and not yet applied. It is equal when it is computed, the passing of hours can
only lower what is deserved, and a query marks the pod and all that is computed; so an
apply that nobody overtook finds a pod of at least its own class.

`SweepsSettle`: an undisturbed sweep leaves what it listed settled, for any number
of instances, sweeps and page size. The property speaks of the last step of a
sweep only; the invariant (`RowsFit`, `CalmRows`) says of every step before that
each instance listed is settled or has a row left which agrees with the table, and that
what the sweep is about to do is what the instance deserves. It rests on a calm sweep
being the only one that changes anything, which `DisturbedSweeps` and
`BesideKeeps` establish for every other step.

**ClientCache_proof.** Three properties, for any number of calls, of any methods
with any arguments, with answers in any order.

`CachesAreFresh`: `PurgedIsOutdated` says that a write empties the stores it outdates and
no other. The invariant adds to `FreshAfterWrite` that no request is ahead of the server
(`Behind`), that an entry belongs to a request of its own slot which is over if the
entry is loaded (`Fits`), and that an answer still on its way is as new as the last
write, or marked as crossed by it (`ServedFresh`), without which the delivery of a late
answer could not be told from a stale one.

`AnswersAreOwn` and `RequestsAreShared` rest on facts about the table of the methods
(`MethodsTold`, by the rows of each service): a store that methods share has one
owner per action, which looks where it writes, under all that it sends. So whoever
finds an entry finds what it would have asked itself (`OwnRequest`), and while a
request may be joined the entry of its slot is its own (`Latched`), unless a write
emptied the store meanwhile.

**Accounts_proof.** `PasswordsAgree`, `CreatedIsReady`, `SyncAlwaysRepairs`,
`DeletionForgets` and the types (`AlwaysTyped`), for any number of users, databases,
requests, failures and crashes. Two kinds of claims, two parts of the invariant:

- `Calm`, for the runs in which nothing failed and no sync or delete met another
  request. A row and its role may differ only while a sync is between the two, or
  while an initialisation is about to save the password it gave the admin role; two
  of those may overlap, and never carry the same password (`Apart`). So they agree
  when all are idle. `AgreeAtRest` alone says nothing of the time in between.
- `Company` and `Alone`, for a request that had the instance to itself, on tables that
  earlier failures may have left in any state: it is the only one under way, and at
  each of its steps it has established what its answer will say. `Kept`, the claims
  themselves, stays true until another request begins.

`DeletionForgets` is for instances with one database, as is the property: with more the
code may leave the role. That is a hypothesis of the theorem, not an assumption of
the module.

**Catalog_proof.** `CreationsFailForCause` and `SuccessIsServed`, for the
specification the run checks: creations of any number of workers beside any edits, any
number of faults and crashes. The invariant has a part on passwords and a part on each
request.

- `Guarded`: whoever has given postgres a new password and not saved it yet is alone
  in knowing it (`Secret`; `Bounded` says that passwords are numbered in order), so nobody
  else can give it another; hence the row and the role agree but during that step, or on an
  instance in `cut` (`Sound`).
- `Facts` of a creation. No table ever loses a row, so what a request has found, or made,
  stays (`Placed`, `Peopled`, `Made`, `Targeted`). What it has not found must stay absent until
  it inserts it (`Missing`): the tables grow only under the clean name of the organization a
  request is about, and two under way about the same one have noticed each other
  (`Noticed`). A password it has read is the one in the row as long as it is the only one
  at work there (`Trusted`), and where that is the one of the role too (`Known`) its
  connections succeed; otherwise the instance is in `cut`. `Answered` is what follows for the
  answer.

A step of one worker may be a step on the tables of every other, and keeps their facts
(`FactsKept`, `FactsStay`); what a step establishes of its own request is the lemma named
after it.

`EditsDo` is about lists of any length, which `Listed` may start from and edits and
failures may leave with gaps and repeated positions. The invariant is `ListInv`: the
entries have keys of their own (`Stored`), and an edit whose list nobody disturbs
(`Undisturbed`: it was told of no other, and read no database twice) knows what it has
planned and how far it has come. `Planned` is that the list in memory is what was asked
for, from the lemmas on `Added` (`AddedIs`, over `InsertedAt`, `RemovedAt` and
`SplicedIn`). `SoFar` ties the table to that list: every entry is one of the list's, the
first ones have the position of their place, and only the one that is to be inserted, or
that was deleted, is missing. One query takes `SoFar` one place further
(`UpdateGoesOn`, `InsertGoesOn`, after `ReadGoesOn` or `DeleteGoesOn`), so no induction
over the list is needed: the steps of the edit are the induction. At the end all
positions are written and differ, and the table has one order (`OneOrder`,
`WrittenOut`), the planned one (`TargetIsAsked`). That an edit writes beside
another only if both were told is the `Noticed` of the creations.

**AdminPages_proof.** `ChangesReach` and `PagesShowTruth`, for any number of users,
tables, moves, changes and failures, from one inductive invariant (`AlwaysInv`). Two
ideas carry it:

- A change under way is judged by the statements it has left. A privilege will be held
  if it is held and nothing left takes it away, or if a statement left gives it and none
  after that takes it away (`WillHave`; `WillLack` likewise). What a change was asked for is
  so of its statements when it begins: `SetReaches` for one pair, by the case of each
  list of statements; `BulkReaches` for any set of pairs, because no entry of a bulk change
  undoes another's, in whatever order they come. A statement keeps it of the rest
  (`StatementKeeps`), and of an empty rest it is the truth (`ReachDone`). `OnlyOne` says that
  no other change runs beside one that is marked as alone.
- `Calm` is about a page that nothing disturbs. Either one load is under way, for the page
  of the location, whose answer is still true since no change is; or one change
  is; or neither. Once the page is loaded each row is true, but the row whose dropdown
  is being applied, which shows what the level will be when the last statement is done: here
  the second part needs the first.

**Model-checked only.**

- Every liveness property: the prover has no rules for ENABLED and fairness.
- That the table of the routes fits that of the requests (`RoutesAssumption`).
- `InstanceLifecycle`, whose properties are all about liveness.

## 6. The plan

1. Done: the gateway (`ProxyConnection`, `TcpServer`), starting and sleeping
   (`StartInstance` over `SingleFlight`, `InstanceLifecycle`, `Sweep`), what
   administrators change (`Accounts`, `Creation`, `Featured`, `Access`), and the way
   from a page to the server (`AdminPages`, `ClientCache`, `ApiRequest`); the
   proofs above.
2. An abstract `Session` (chunks in, chunks out, once, in order) that
   `ProxyConnection` implements for clients that wait for each answer.
3. `ConnectionLog`: open, close and events over a pool that reorders them.
4. Backup, archive and restore, once their lookups no longer throw.

## 7. Not modelled, and why

- Backup, archive and restore: each operation passes two strings where
  `getInstance` takes a context, and throws before it changes anything. The
  RESTORING state that `restoreInstance` leaves when it fails (`backup.js:140`)
  is in `InstanceLifecycle`.
- The connection log: statements that write what only reports read.
- The login: a redirect to Keycloak and back, held by the library. The cache of
  tokens (`lib/keycloak.js:107`), which is never emptied although a comment says
  thirty seconds, only shortens a call whose verdict the models leave free.
- The initialisation of kubectl (`lib/kubectl.js:33`), which keeps a rejected
  promise: every later call of the process fails. Calls that fail are in the models, and so is
  the one place where the rejection is not caught (`ProbeFails`); that they go on failing is not.
- In the proxy, back pressure towards the client, and with it `writeAndWait` that
  waits for a `drain` that a closed client never sends (`proxy-connection.js:1304`).
  Extended queries count neither as use nor as traffic for the idle time
  (`proxy-connection.js:291`).
- What PostgREST answers to a caller that was told it is ready and it is not: after
  `waitForPgRestDb` has given up (`admin.js:564`), or for one that joins a flight whose leader
  asked for no PostgREST (`admin.js:424`). Both flights are modelled.
- The start that `restoreInstance` makes (`admin.js:201`) without an entry in
  `instancesStarting`. `InstanceLifecycle` has it as an operation of its process; `StartInstance`,
  which is about the table, does not.
- The eviction of the least recently used entries of the client library's stores, so that a question
  may be asked once more. In the pages, a bulk change without a level, which is sent and refused by
  the server (`table-access-table.js:164`), and picking the level that is already shown.
- Updates of metadata, where the last of two writers wins, searches, links to
  remote databases, and the install scripts of PostgREST's schema.
- The public pages of the web client, its instance, metadata and featured forms,
  the dialogs that create and delete users; rendering.
- Configuration, metrics, logs, mail, icons, deployment files and the scripts that
  test connections carry no protocol. The length fields and texts of the
  PostgreSQL wire format do not steer the session apart from the message types.
- Keycloak, Kubernetes and PostgreSQL are environments, modelled from how the
  code uses them.

## 8. How to run

    tlc -config proxy_session.cfg MC_ProxyConnection.tla
    tlc -config accounts.cfg MC_Accounts.tla
    tlapm StartInstance_proof.tla
