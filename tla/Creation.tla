------------------------------ MODULE Creation ------------------------------
(***************************************************************************)
(* admin.ensureDatabase: a database is created with whatever it needs, its *)
(* organization and its instance first.  Every step asks whether something *)
(* exists before it makes it; an error counts as absence in some steps, is *)
(* logged and forgotten in others, and is the answer in the rest.  Every   *)
(* creation resets the password of the instance's postgres: the role gets  *)
(* a new one, then its row, and whoever read the row before cannot connect *)
(* any more.                                                               *)
(*                                                                         *)
(* A name is a sequence of words, so that the hostnames of a-b/c and a/b-c *)
(* are the same; the words of a title are cleaned to words of a name.      *)
(***************************************************************************)
EXTENDS Naturals, Sequences, FiniteSets

CONSTANTS
  Workers,     \* the requests that can be under way at once
  Asked,       \* the creations an administrator asks for: [org, db, instance]
  Cleaned,     \* the words that cleaning changes, and what it makes of them
  MaxFaults,   \* bound: how many queries fail, and how often the process ends
  MaxRequests  \* bound: how many requests are sent

Nobody == <<>>
Word(w) == IF w \in DOMAIN Cleaned THEN Cleaned[w] ELSE w
Clean(name) == [i \in DOMAIN name |-> Word(name[i])]
IsClean(name) == Clean(name) = name

\* What is asked for has an organization, a database and an instance.
ASSUME AskedAssumption ==
  \A a \in Asked : a = [org |-> a.org, db |-> a.db, instance |-> a.instance]
\* Cleaning what is clean changes nothing.
ASSUME CleaningAssumption == \A w \in DOMAIN Cleaned : Cleaned[w] \notin DOMAIN Cleaned

VARIABLES
  orgs,       \* the organizations of the admin database, by name
  instances,  \* its instances: [name, org]
  rows,       \* its databases: [name, org, instance, host]
  users,      \* its rows of users: [instance, user]
  saved,      \* by instance: the password in the row of its postgres, if there is
              \* one, 0 for the initial password
  actual,     \* by instance: the password postgres really has
  roles,      \* the other roles there are: [instance, user]
  resets,     \* how many passwords were made: each is a number
  cut,        \* the instances where a fault came between the role and the row
  cluster,    \* the databases there are, beside postgres: [instance, name]
  schemas,    \* those with an api schema
  served,     \* the hostnames PostgREST is deployed under
  request,    \* the request of each worker
  sent, faults

accounts == <<users, saved, actual, roles, resets, cut>>
tables == <<orgs, instances, rows, accounts, cluster, schemas, served>>
creationVars == <<tables, request, sent, faults>>

Idle == [pc |-> "idle"]
Under(w, pc) == request[w].pc = pc
Busy(w) == request[w].pc \notin {"idle", "created", "error", "lost", "listed", "refused"}

HostOf(instance) == instance.org \o instance.name
RowsOf(org, db) == {row \in rows : row.org = org /\ row.name = db}

Init ==
  /\ orgs = {} /\ instances = {} /\ rows = {}
  /\ users = {} /\ roles = {} /\ resets = 0 /\ cut = {}
  /\ saved = [i \in instances |-> 0] /\ actual = [i \in instances |-> 0]
  /\ cluster = {} /\ schemas = {} /\ served = {}
  /\ request = [w \in Workers |-> Idle]
  /\ sent = 0 /\ faults = 0

-----------------------------------------------------------------------------
\* The request moves to another step; its context changes with it.
Goes(w, pc, r) == request' = [request EXCEPT ![w] = [r EXCEPT !.pc = pc]]
Go(w, pc) == Goes(w, pc, request[w])

\* A fault is remembered by the request it hits.
Fault == faults < MaxFaults /\ faults' = faults + 1
Hit(r) == [r EXCEPT !.hit = TRUE]
NoFault == faults' = faults

\* A request arrives; those about the same thing that are under way with it
\* overlap.
Receive(w, r) ==
  LET others == {o \in Workers \ {w} : Busy(o) /\ request[o].about = r.about} IN
  /\ ~Busy(w)
  /\ sent < MaxRequests
  /\ sent' = sent + 1
  /\ request' = [o \in Workers |->
       IF o = w THEN [r EXCEPT !.overlaps = others # {}]
       ELSE IF o \in others THEN [request[o] EXCEPT !.overlaps = TRUE] ELSE request[o]]

Send(w, asked) ==
  /\ Receive(w, [pc |-> "context", about |-> Clean(asked.org), hit |-> FALSE, overlaps |-> FALSE,
                 asked |-> asked, instance |-> Nobody, row |-> Nobody, neighbour |-> FALSE,
                 user |-> "postgres", con |-> 0, target |-> Nobody, key |-> 0])
  /\ UNCHANGED <<tables, faults>>

\* The lookups of the context: a database that exists brings its instance,
\* unless the request names one.  What is not found stays a name.
Context(w) ==
  LET r == request[w]
      found == RowsOf(r.asked.org, r.asked.db)
      named == {i \in instances : i.name = r.asked.instance /\ i.org = r.asked.org} IN
  /\ Under(w, "context")
  /\ \/ NoFault /\ Goes(w, "organization", [r EXCEPT
          !.row = IF found = {} THEN @ ELSE CHOOSE row \in found : TRUE,
          !.instance = IF r.asked.instance # Nobody
                         THEN IF named = {} THEN @ ELSE CHOOSE i \in named : TRUE
                         ELSE IF found = {} THEN @ ELSE (CHOOSE row \in found : TRUE).instance])
     \/ Fault /\ Goes(w, "organization", Hit(r))
  /\ UNCHANGED <<tables, sent>>

\* organization.exists: an error counts as absence.
OrganizationExists(w) ==
  /\ Under(w, "organization")
  /\ \/ NoFault /\ Go(w, IF request[w].asked.org \in orgs THEN "instance" ELSE "newOrganization")
     \/ Fault /\ Goes(w, "newOrganization", Hit(request[w]))
  /\ UNCHANGED <<tables, sent>>

\* The name is cleaned in place, and unique; its own check for existence
\* asks without a context, and finds nothing.
CreateOrganization(w) ==
  LET r == request[w]  name == Clean(r.asked.org) IN
  /\ Under(w, "newOrganization")
  /\ IF name \in orgs
       THEN NoFault /\ Go(w, "error") /\ UNCHANGED orgs
       ELSE \/ /\ NoFault /\ Goes(w, "instance", [r EXCEPT !.asked.org = name])
               /\ orgs' = orgs \cup {name}
            \/ Fault /\ Goes(w, "error", Hit(r)) /\ orgs' \in {orgs, orgs \cup {name}}
  /\ UNCHANGED <<instances, rows, accounts, cluster, schemas, served, sent>>

\* The name a new instance gets: the one asked for, or that of the database.
InstanceName(r) == Clean(IF r.asked.instance # Nobody THEN r.asked.instance ELSE r.asked.db)
InstanceAsked(r) ==
  IF r.instance # Nobody THEN r.instance
  ELSE [name |-> IF r.asked.instance # Nobody THEN r.asked.instance ELSE Clean(r.asked.db),
        org |-> r.asked.org]

InstanceExists(w) ==
  LET r == request[w] IN
  /\ Under(w, "instance")
  /\ \/ /\ NoFault
        /\ IF InstanceAsked(r) \in instances
             THEN Goes(w, "start", [r EXCEPT !.instance = InstanceAsked(r)])
             ELSE Go(w, "newInstance")
     \/ Fault /\ Goes(w, "newInstance", Hit(r))
  /\ UNCHANGED <<tables, sent>>

\* The name and the hostname of an instance are unique.  Its postgres starts
\* with the initial password.
CreateInstance(w) ==
  LET r == request[w]  new == [name |-> InstanceName(r), org |-> r.asked.org] IN
  /\ Under(w, "newInstance")
  /\ IF \E i \in instances : i = new \/ HostOf(i) = HostOf(new)
       THEN NoFault /\ Go(w, "error") /\ UNCHANGED instances
       ELSE \/ /\ NoFault /\ Goes(w, "start", [r EXCEPT !.instance = new])
               /\ instances' = instances \cup {new}
            \/ Fault /\ Goes(w, "error", Hit(r)) /\ instances' \in {instances, instances \cup {new}}
  /\ saved' = [i \in instances' |-> IF i \in instances THEN saved[i] ELSE 0]
  /\ actual' = [i \in instances' |-> IF i \in instances THEN actual[i] ELSE 0]
  /\ UNCHANGED <<orgs, rows, users, roles, resets, cut, cluster, schemas, served, sent>>

\* startInstance, to its end.
StartInstance(w) ==
  /\ Under(w, "start")
  /\ \/ NoFault /\ Go(w, "user")
     \/ Fault /\ Goes(w, "error", Hit(request[w]))
  /\ UNCHANGED <<tables, sent>>

-----------------------------------------------------------------------------
(* user.create: initInstanceDb makes postgres and the public user, and logs *)
(* what fails; initDb makes the authenticator, and its error is the answer. *)

UserOf(r) == [instance |-> r.instance, user |-> r.user]
\* The user is made; or it is not.
Goal(w, r) ==
  Goes(w, CASE r.user = "postgres" -> "user" [] r.user = "public" -> "database" [] OTHER -> "schema",
       [r EXCEPT !.user = "public", !.con = 0])
GiveUp(w, r) ==
  Goes(w, CASE r.user = "postgres" -> "user" [] r.user = "public" -> "database" [] OTHER -> "error",
       [r EXCEPT !.user = "public", !.con = 0])

\* user.exists: an error counts as absence; instance.exists before it, and
\* updateType after it, end the attempt.
FindUser(w) ==
  LET r == request[w] IN
  /\ Under(w, "user")
  /\ \/ NoFault /\ Go(w, IF UserOf(r) \in users THEN "connect" ELSE "newUser")
     \/ Fault /\ (Goes(w, "newUser", Hit(r)) \/ GiveUp(w, Hit(r)))
  /\ UNCHANGED <<tables, sent>>

\* createInstanceUser: an instance has one row for a user.
InsertUser(w) ==
  LET r == request[w] IN
  /\ Under(w, "newUser")
  /\ IF UserOf(r) \in users
       THEN NoFault /\ GiveUp(w, r) /\ UNCHANGED users
       ELSE \/ NoFault /\ Go(w, "connect") /\ users' = users \cup {UserOf(r)}
            \/ Fault /\ GiveUp(w, Hit(r)) /\ users' \in {users, users \cup {UserOf(r)}}
  /\ UNCHANGED <<orgs, instances, rows, saved, actual, roles, resets, cut, cluster, schemas, served, sent>>

\* instance.getConnection: the password in the row of postgres, the initial one
\* if it cannot be read.
Connects(w, next) ==
  LET r == request[w] IN
  /\ \/ NoFault /\ Goes(w, next, [r EXCEPT !.con = saved[r.instance]])
     \/ Fault /\ Goes(w, next, [Hit(r) EXCEPT !.con = 0])
  /\ UNCHANGED <<tables, sent>>
Opens(r) == r.con = actual[r.instance]

ConnectUser(w) == Under(w, "connect") /\ Connects(w, IF request[w].user = "postgres" THEN "reset" ELSE "role")

\* resetPassword, of postgres: the role gets the new password first.
ResetRole(w) ==
  LET r == request[w]
      reset == actual' = [actual EXCEPT ![r.instance] = resets + 1] IN
  /\ Under(w, "reset")
  /\ \/ NoFault /\ ~Opens(r) /\ GiveUp(w, r) /\ UNCHANGED <<actual, resets, cut>>
     \/ /\ NoFault /\ Opens(r) /\ Goes(w, "save", [r EXCEPT !.con = resets + 1])
        /\ reset /\ resets' = resets + 1 /\ UNCHANGED cut
     \/ /\ Fault /\ GiveUp(w, Hit(r))
        /\ \/ UNCHANGED <<actual, resets, cut>>
           \/ Opens(r) /\ reset /\ resets' = resets + 1 /\ cut' = cut \cup {r.instance}
  /\ UNCHANGED <<orgs, instances, rows, users, saved, roles, cluster, schemas, served, sent>>

\* Then its row.
SavePassword(w) ==
  LET r == request[w]
      save == saved' = [saved EXCEPT ![r.instance] = r.con] IN
  /\ Under(w, "save")
  /\ \/ NoFault /\ Goal(w, r) /\ save /\ UNCHANGED cut
     \/ /\ Fault /\ GiveUp(w, Hit(r))
        /\ \/ save /\ UNCHANGED cut
           \/ UNCHANGED saved /\ cut' = cut \cup {r.instance}
  /\ UNCHANGED <<orgs, instances, rows, users, actual, roles, resets, cluster, schemas, served, sent>>

\* createOrUpdatePgUser, of the others, whose passwords do not matter here.
EnsureRole(w) ==
  LET r == request[w] IN
  /\ Under(w, "role")
  /\ \/ NoFault /\ ~Opens(r) /\ GiveUp(w, r) /\ UNCHANGED roles
     \/ NoFault /\ Opens(r) /\ Goal(w, r) /\ roles' = roles \cup {UserOf(r)}
     \/ /\ Fault /\ GiveUp(w, Hit(r))
        /\ roles' \in {roles} \cup (IF Opens(r) THEN {roles \cup {UserOf(r)}} ELSE {})
  /\ UNCHANGED <<orgs, instances, rows, users, saved, actual, resets, cut, cluster, schemas, served, sent>>

CreateUser(w) ==
  FindUser(w) \/ InsertUser(w) \/ ConnectUser(w) \/ ResetRole(w) \/ SavePassword(w) \/ EnsureRole(w)

-----------------------------------------------------------------------------
(* The database.                                                           *)

DatabaseExists(w) ==
  LET r == request[w]  found == RowsOf(r.asked.org, r.asked.db) IN
  /\ Under(w, "database")
  /\ \/ /\ NoFault
        /\ IF found = {} THEN Go(w, "newRow")
           ELSE Goes(w, "found", [r EXCEPT !.row = CHOOSE row \in found : TRUE])
     \/ Fault /\ Goes(w, "newRow", Hit(r))
  /\ UNCHANGED <<tables, sent>>

\* database.create: the row has the clean name, its hostname and everything
\* after it the name as it was asked.  What the table refuses is only logged;
\* the organization is read first, and that error is the answer.
InsertRow(w) ==
  LET r == request[w]
      new == [name |-> Clean(r.asked.db), org |-> r.asked.org, instance |-> r.instance,
              host |-> r.asked.org \o r.asked.db]
      refused == \E row \in rows : \/ row.instance = new.instance /\ row.name = new.name
                                   \/ row.host = new.host IN
  /\ Under(w, "newRow")
  /\ \/ /\ NoFault /\ Go(w, "newDatabase")
        /\ rows' = IF refused THEN rows ELSE rows \cup {new}
     \/ Fault /\ UNCHANGED rows /\ (Goes(w, "error", Hit(r)) \/ Goes(w, "newDatabase", Hit(r)))
  /\ UNCHANGED <<orgs, instances, accounts, cluster, schemas, served, sent>>

\* ensurePgDatabase on the instance of the context connects with the password
\* it has read; an error is logged.
MakesDatabase(w, next) ==
  LET r == request[w]
      done == [r EXCEPT !.con = 0]
      with == cluster \cup {[instance |-> r.instance, name |-> r.asked.db]} IN
  /\ \/ NoFault /\ Goes(w, next, done) /\ cluster' = IF Opens(r) THEN with ELSE cluster
     \/ /\ Fault /\ Goes(w, next, Hit(done))
        /\ cluster' \in {cluster} \cup (IF Opens(r) THEN {with} ELSE {})
  /\ UNCHANGED <<orgs, instances, rows, accounts, schemas, served, sent>>
CreateDatabase(w) == \/ Under(w, "newDatabase") /\ Connects(w, "create")
                     \/ Under(w, "create") /\ MakesDatabase(w, "readBack")
\* variant: a database with a row is there.
TrustRow(w) == Under(w, "found") /\ Go(w, "target") /\ NoFault /\ UNCHANGED <<tables, sent>>
\* variant: a database with a row has its schema.
EnsureOnly(w) == \/ Under(w, "found") /\ Connects(w, "ensure")
                 \/ Under(w, "ensure") /\ MakesDatabase(w, "rest")
EnsureDatabase(w) == \/ Under(w, "found") /\ Connects(w, "ensure")
                     \/ Under(w, "ensure") /\ MakesDatabase(w, "target")

\* database.get, by the name as it was asked.
ReadBack(w) ==
  LET r == request[w]  found == RowsOf(r.asked.org, r.asked.db) IN
  /\ Under(w, "readBack")
  /\ \/ /\ NoFault
        /\ IF found = {} THEN Go(w, "error")
           ELSE Goes(w, "target", [r EXCEPT !.row = CHOOSE row \in found : TRUE])
     \/ Fault /\ Goes(w, "error", Hit(r))
  /\ UNCHANGED <<tables, sent>>

\* pgRest.initDb connects as the postgres of the instance, to the database the
\* view of users shows with it: any database of the instance.
Postgres == <<"postgres">>
Present(database) == database \in cluster \/ database.name = Postgres
SchemaTargets(instance) ==
  IF \E row \in rows : row.instance = instance
    THEN {[instance |-> instance, name |-> row.name] : row \in {x \in rows : x.instance = instance}}
    ELSE {[instance |-> instance, name |-> Postgres]}
ConnectRest(w) ==
  LET r == request[w] IN
  /\ Under(w, "target")
  /\ \/ /\ NoFault
        /\ IF [instance |-> r.instance, user |-> "postgres"] \notin users THEN Go(w, "error")
           ELSE \E target \in SchemaTargets(r.instance) :
                  Goes(w, "user", [r EXCEPT !.target = target, !.key = saved[r.instance],
                                            !.user = "authenticator"])
     \/ Fault /\ Goes(w, "error", Hit(r))
  /\ UNCHANGED <<tables, sent>>

\* The schema, and then what the public user may do with it, on connections
\* with the password that was read before the authenticator was made.
EnsureSchema(w) ==
  LET r == request[w]
      missing == ~Present(r.target)
      opens == r.key = actual[r.instance] /\ ~missing IN
  /\ Under(w, "schema")
  /\ \/ NoFault /\ opens /\ Go(w, "grant") /\ schemas' = schemas \cup {r.target}
     \/ /\ NoFault /\ ~opens /\ UNCHANGED schemas
        /\ Goes(w, "error", [r EXCEPT !.neighbour = missing /\ r.target.name # r.row.name])
     \/ /\ Fault /\ Goes(w, "error", Hit(r))
        /\ schemas' \in {schemas} \cup (IF opens THEN {schemas \cup {r.target}} ELSE {})
  /\ UNCHANGED <<orgs, instances, rows, accounts, cluster, served, sent>>
GrantRest(w) ==
  LET r == request[w]
      granted == {[instance |-> r.instance, user |-> u] : u \in {"public", "authenticator"}} IN
  /\ Under(w, "grant")
  /\ \/ NoFault /\ Go(w, IF r.key = actual[r.instance] /\ granted \subseteq roles THEN "rest" ELSE "error")
     \/ Fault /\ Goes(w, "error", Hit(r))
  /\ UNCHANGED <<tables, sent>>

StartRest(w) ==
  LET r == request[w] IN
  /\ Under(w, "rest")
  /\ \/ NoFault /\ Go(w, "created") /\ served' = served \cup {r.row.host}
     \/ Fault /\ Goes(w, "error", Hit(r)) /\ UNCHANGED served
  /\ UNCHANGED <<orgs, instances, rows, accounts, cluster, schemas, sent>>

\* The process ends, on a rejection nobody handles or from outside.
Crash ==
  /\ Fault
  /\ request' = [w \in Workers |-> IF Busy(w) THEN [pc |-> "lost"] ELSE request[w]]
  /\ cut' = cut \cup {request[w].instance : w \in {x \in Workers : Under(x, "save")}}
  /\ UNCHANGED <<orgs, instances, rows, users, saved, actual, roles, resets, cluster, schemas, served, sent>>

Create(w) ==
  \/ Context(w)
  \/ OrganizationExists(w) \/ CreateOrganization(w)
  \/ InstanceExists(w) \/ CreateInstance(w)
  \/ StartInstance(w) \/ CreateUser(w)
  \/ DatabaseExists(w) \/ InsertRow(w) \/ CreateDatabase(w) \/ EnsureDatabase(w) \/ ReadBack(w)
  \/ ConnectRest(w) \/ EnsureSchema(w) \/ GrantRest(w) \/ StartRest(w)

Next ==
  \/ \E w \in Workers, asked \in Asked : Send(w, asked)
  \/ \E w \in Workers : Create(w)
  \/ Crash

Spec == Init /\ [][Next]_creationVars

-----------------------------------------------------------------------------
(* Properties                                                              *)

\* A request whose names cleaning does not change.
Plain(r) == IsClean(r.asked.org) /\ IsClean(r.asked.db) /\ IsClean(r.asked.instance)

\* Another pair of names has the hostname of this one's database or instance.
Clashes(r) ==
  \/ \E row \in rows : row.host = r.asked.org \o r.asked.db
                        /\ (row.org # r.asked.org \/ row.name # r.asked.db)
  \/ \E i \in instances : HostOf(i) = r.asked.org \o InstanceName(r)
                           /\ i # [name |-> InstanceName(r), org |-> r.asked.org]

\* A creation fails only for a cause: a fault that hit it, another creation in
\* the same organization at the same time, a name that cleaning changes, a
\* hostname that is taken, a neighbour on its instance that was left without a
\* database, or a fault that once came between the role and the row of the
\* instance's postgres, after which nobody can connect as postgres.  Whatever
\* else an earlier creation of the same database left behind when it failed or
\* was lost, or two of them that overlapped, is no cause: asking again completes it.
FailsForCause ==
  \A w \in Workers : Under(w, "error") =>
    LET r == request[w] IN
    r.hit \/ r.overlaps \/ ~Plain(r) \/ Clashes(r) \/ r.neighbour \/ r.instance \in cut

\* A creation that is answered with success, and that no fault hit, has left
\* its database in the admin database and deployed it; and, on the instance it
\* has a row for, unless another instance was asked for, with its schema if it
\* is alone there, and in any case if no other creation overlapped: one that
\* resets the password meanwhile may leave a success without a database.
CreatedIsServed ==
  \A w \in Workers : Under(w, "created") /\ ~request[w].hit =>
    LET r == request[w]
        there == [instance |-> r.row.instance, name |-> r.row.name] IN
    /\ r.row \in rows /\ r.row.host \in served
    /\ r.instance = r.row.instance =>
         /\ ~r.overlaps => Present(there)
         /\ SchemaTargets(r.row.instance) = {there} => Present(there) /\ there \in schemas
=============================================================================
