------------------------------- MODULE Accounts -------------------------------
(***************************************************************************)
(* The accounts of one instance: the rows of pgfarm.instance_user, the     *)
(* login roles of the instance itself, and the grants to the PostgREST     *)
(* authenticator.  The two databases are written one statement after the   *)
(* other, by requests that may overlap, fail at any statement, or vanish   *)
(* with their process.  A password is a number; Fixed stands for those     *)
(* that come from the configuration.                                       *)
(***************************************************************************)
EXTENDS Naturals

CONSTANTS Users,           \* ordinary user names
          Databases,       \* the databases of the instance, `postgres' apart
          Postgres,        \* the database every instance begins with
          Workers,         \* requests under way at the same time
          Admin, Public, Authenticator,   \* the reserved names
          None,
          MaxRequests,     \* bound on the requests
          MaxPasswords,    \* bound on the passwords generated
          MaxFaults        \* bound on failed statements and crashes

ASSUME BoundsAssumption ==
  /\ MaxRequests \in Nat /\ MaxPasswords \in Nat /\ MaxFaults \in Nat /\ None \notin Nat
ASSUME NamesAssumption ==
  /\ Admin # Public /\ Admin # Authenticator /\ Public # Authenticator
  /\ {Admin, Public, Authenticator} \cap Users = {}
  /\ Postgres \notin Databases
  /\ None \notin Users \cup {Admin, Public, Authenticator}

Reserved == {Admin, Public, Authenticator}
Names == Users \cup Reserved
Fixed == 0
Passwords == Fixed .. MaxPasswords
Types == {"USER", "ADMIN", "SERVICE_ACCOUNT", "PUBLIC", "PGREST"}
Privileges == Databases \X {"schemas", "database"}
Rows == [type : Types, password : Passwords]

ASSUME RowsAssumption == None \notin Rows

VARIABLES row,        \* instance_user: the row of a name, or None
          role,       \* the instance: the password of a role, or None
          member,     \* the roles granted to the authenticator
          privs,      \* what a role holds: in the schemas of a database, or on it
          rest,       \* the password in the configuration PostgREST started with
          worker,     \* what each worker does
          started,    \* requests so far
          fresh,      \* passwords generated so far
          faults,
          raced,      \* a sync or a delete has overlapped another request
          orphans,    \* the names whose row was deleted and whose role was not
          settled     \* the request that has just ended, alone, or None

vars == <<row, role, member, privs, rest, worker, started, fresh, faults, raced, orphans, settled>>

Steps == {"lookup", "write", "connect", "probe", "apply", "save", "reconnect", "member",
          "open", "read", "retype", "list", "pick", "restart",
          "databases", "revoke", "drop", "forget"}
Idle == [kind |-> "idle", user |-> None, type |-> "USER", step |-> "lookup",
         left |-> {}, dbs |-> {}, pw |-> Fixed, con |-> Fixed, dbCon |-> Fixed, found |-> FALSE,
         update |-> FALSE, hard |-> FALSE, clean |-> TRUE, alone |-> TRUE]
Busy == {w \in Workers : worker[w].kind # "idle"}

\* A new instance: no rows, and the role its container starts with.
Init ==
  /\ row = [u \in Names |-> None]
  /\ role = [u \in Names |-> IF u = Admin THEN Fixed ELSE None]
  /\ member = {} /\ privs = [u \in Names |-> {}]
  /\ rest = None
  /\ worker = [w \in Workers |-> Idle]
  /\ started = 0 /\ fresh = 0 /\ faults = 0 /\ raced = FALSE /\ orphans = {} /\ settled = None

-----------------------------------------------------------------------------
(* What single statements do.                                              *)

HasRow(u) == row[u] # None
HasRole(u) == role[u] # None

\* instance.getConnection: the admin password of the row, or the initial one.
AdminPassword == IF HasRow(Admin) THEN row[Admin].password ELSE Fixed

\* A connection opens with the password that the admin role has now.
Opens(con) == role[Admin] = con

\* UPDATEs: without a row they change nothing.
SavePasswordNot(u, p) == UNCHANGED row
SavePassword(u, p) ==
  row' = IF HasRow(u) THEN [row EXCEPT ![u].password = p] ELSE row
SaveType(u, t) ==
  row' = IF HasRow(u) THEN [row EXCEPT ![u].type = t] ELSE row

\* ALTER USER fails without the role, CREATE ROLE with it.
ApplyPasswordIfNew(u, found, p) ==
  /\ found = HasRole(u)
  /\ role' = IF found THEN role ELSE [role EXCEPT ![u] = p]
ApplyPassword(u, found, p) ==
  /\ found = HasRole(u)
  /\ role' = [role EXCEPT ![u] = p]

Generate == fresh < MaxPasswords /\ fresh' = fresh + 1

At(w, kinds, step) == worker[w].kind \in kinds /\ worker[w].step = step
Becomes(w, r) == worker' = [worker EXCEPT ![w] = r]
Goto(w, step) == Becomes(w, [worker[w] EXCEPT !.step = step])

\* A call to create returns, and its locals are gone.
Returned(r, u, step) ==
  [r EXCEPT !.user = u, !.step = step, !.found = FALSE, !.pw = Fixed, !.con = Fixed]

-----------------------------------------------------------------------------
(* The requests.                                                           *)

\* Whoever is busy when another request comes is not alone any more.
Accompanied == [v \in Workers |-> [worker[v] EXCEPT !.alone = worker[v].kind = "idle"]]
\* A request begins.
Start(w, r) ==
  /\ worker[w] = Idle
  /\ started < MaxRequests /\ started' = started + 1
  /\ worker' = [Accompanied EXCEPT ![w] = [r EXCEPT !.alone = Busy = {}]]
  /\ raced' = (raced \/ (Busy # {} /\
       ({r.kind} \cup {worker[v].kind : v \in Busy}) \cap {"sync", "delete"} # {}))
  /\ settled' = None
  /\ UNCHANGED <<row, role, member, privs, rest, fresh, faults, orphans>>

PutUser(w) == \E u \in Users, t \in {"USER", "SERVICE_ACCOUNT"} :
  Start(w, [Idle EXCEPT !.kind = "put", !.user = u, !.type = t])
PatchUser(w) == \E u \in Users, t \in {"USER", "ADMIN"} :
  Start(w, [Idle EXCEPT !.kind = "patch", !.user = u, !.type = t, !.step = "read"])
DeleteUser(w) == \E u \in Users :
  Start(w, [Idle EXCEPT !.kind = "delete", !.user = u, !.step = "open"])
SyncUsers(w) == \E u, h \in BOOLEAN :
  Start(w, [Idle EXCEPT !.kind = "sync", !.step = "list", !.update = u, !.hard = h])
InitDb(w) == Start(w, [Idle EXCEPT !.kind = "init", !.user = Admin])

\* The answer: a request that was alone is remembered until the next one.
Remembered(r) ==
  IF r.alone THEN [kind |-> r.kind, user |-> r.user, type |-> r.type,
                   update |-> r.update, hard |-> r.hard, clean |-> r.clean]
  ELSE None
End(w) ==
  /\ worker' = [worker EXCEPT ![w] = Idle]
  /\ settled' = Remembered(worker[w])

\* initInstanceDb catches what becomes of its two accounts, delete what becomes
\* of one database and of the row; otherwise the request answers an error.
NextDatabase(r, d) ==
  LET others == r.dbs \ {d} IN
  [r EXCEPT !.dbs = others, !.step = IF others = {} THEN "forget" ELSE "revoke"]
Reject(w, clean) ==
  LET r == [worker[w] EXCEPT !.clean = worker[w].clean /\ clean] IN
  \/ /\ r.kind = "init" /\ r.user = Admin
     /\ Becomes(w, Returned(r, Public, "lookup"))
     /\ UNCHANGED settled
  \/ /\ r.kind = "init" /\ r.user = Public /\ r.step \notin {"open", "member"}
     /\ Becomes(w, Returned(r, Public, "open"))
     /\ UNCHANGED settled
  \/ /\ r.kind = "delete" /\ r.step \in {"revoke", "drop"}
     /\ \E d \in r.dbs : Becomes(w, NextDatabase(r, d))
     /\ UNCHANGED settled
  \/ /\ r.kind = "delete" /\ r.step = "forget"
     /\ Becomes(w, Idle)
     /\ settled' = Remembered(r)
  \/ /\ ~ (r.kind = "init" /\ r.user = Admin)
     /\ ~ (r.kind = "init" /\ r.user = Public /\ r.step \notin {"open", "member"})
     /\ ~ (r.kind = "delete" /\ r.step \in {"revoke", "drop", "forget"})
     /\ Becomes(w, Idle)
     /\ UNCHANGED settled

-----------------------------------------------------------------------------
(* user.create                                                             *)

\* exists(), and the choice of the password.
Lookup(w) ==
  LET u == worker[w].user IN
  /\ At(w, {"put", "init"}, "lookup")
  /\ \/ /\ u \in {Admin, Public}
        /\ Becomes(w, [worker[w] EXCEPT !.found = HasRow(u), !.pw = Fixed, !.step = "write"])
        /\ UNCHANGED fresh
     \/ /\ u \notin {Admin, Public} /\ HasRow(u)
        /\ Becomes(w, [worker[w] EXCEPT !.found = TRUE, !.pw = row[u].password, !.step = "write"])
        /\ UNCHANGED fresh
     \/ /\ u \notin {Admin, Public} /\ ~HasRow(u)
        /\ Generate
        /\ Becomes(w, [worker[w] EXCEPT !.found = FALSE, !.pw = fresh', !.step = "write"])
  /\ UNCHANGED <<row, role, member, privs, rest, started, faults, raced, settled, orphans>>

TypeOf(r) == IF r.user = Admin THEN "ADMIN" ELSE IF r.user = Public THEN "PUBLIC"
             ELSE IF r.user = Authenticator THEN "PGREST" ELSE r.type

\* The trigger on the table: only an account that has a parent may become one.
MayBecome(u, t) ==
  t = "SERVICE_ACCOUNT" /\ HasRow(u) => row[u].type = "SERVICE_ACCOUNT"

\* createInstanceUser (UNIQUE) or updateType; the admin then gets a new password.
Write(w) ==
  LET r == worker[w] IN
  /\ At(w, {"put", "init"}, "write")
  /\ IF r.found THEN MayBecome(r.user, TypeOf(r)) /\ SaveType(r.user, TypeOf(r))
     ELSE /\ ~HasRow(r.user)
          /\ row' = [row EXCEPT ![r.user] = [type |-> TypeOf(r), password |-> r.pw]]
  /\ \/ r.user = Admin /\ Generate /\ Becomes(w, [r EXCEPT !.pw = fresh', !.step = "connect"])
     \/ r.user # Admin /\ Goto(w, "connect") /\ UNCHANGED fresh
  /\ UNCHANGED <<role, member, privs, rest, started, faults, raced, settled, orphans>>
DuplicateRow(w) ==
  /\ At(w, {"put", "init"}, "write") /\ ~worker[w].found /\ HasRow(worker[w].user)
  /\ Reject(w, TRUE)
  /\ UNCHANGED <<row, role, member, privs, rest, fresh, started, faults, raced, orphans>>

Connect(w) ==
  /\ At(w, {"put", "init"}, "connect")
  /\ Becomes(w, [worker[w] EXCEPT !.con = AdminPassword, !.step = "probe"])
  /\ UNCHANGED <<row, role, member, privs, rest, fresh, started, faults, raced, settled, orphans>>

\* createOrUpdatePgUser: a query, and a statement that depends on its answer,
\* over TCP with the password in con, or (in a sync) over the helper's socket.
Reaches(r) == r.kind = "sync" \/ Opens(r.con)
Probe(w) ==
  /\ At(w, {"put", "init", "sync"}, "probe") /\ Reaches(worker[w])
  /\ Becomes(w, [worker[w] EXCEPT !.found = HasRole(worker[w].user), !.step = "apply"])
  /\ UNCHANGED <<row, role, member, privs, rest, fresh, started, faults, raced, settled, orphans>>
Apply(w) ==
  LET r == worker[w] IN
  /\ At(w, {"put", "init", "sync"}, "apply") /\ Reaches(r)
  /\ ApplyPassword(r.user, r.found, r.pw)
  /\ IF r.kind = "sync"
     THEN Becomes(w, Returned(r, r.user, IF r.user \in {Admin, Authenticator}
                                         THEN "restart" ELSE "member"))
     ELSE Becomes(w, [r EXCEPT !.step = "save", !.found = FALSE, !.con = Fixed])
  /\ UNCHANGED <<row, member, privs, rest, fresh, started, faults, raced, settled, orphans>>

\* setInstanceUserPassword, and what the caller of create goes on with.
Save(w) ==
  LET r == worker[w] IN
  /\ At(w, {"put", "init"}, "save")
  /\ SavePassword(r.user, r.pw)
  /\ \/ /\ r.kind = "put" /\ r.type \in {"USER", "ADMIN"}
        /\ Becomes(w, Returned(r, r.user, "reconnect")) /\ UNCHANGED settled
     \/ /\ r.kind = "put" /\ r.type = "SERVICE_ACCOUNT"
        /\ End(w)
     \/ /\ r.kind = "init" /\ r.user = Admin
        /\ Becomes(w, Returned(r, Public, "lookup")) /\ UNCHANGED settled
     \/ /\ r.kind = "init" /\ r.user = Public
        /\ Becomes(w, Returned(r, Public, "open")) /\ UNCHANGED settled
     \/ /\ r.kind = "init" /\ r.user = Authenticator
        /\ Becomes(w, [Returned(r, Public, "member") EXCEPT !.con = r.dbCon])
        /\ UNCHANGED settled
  /\ UNCHANGED <<role, member, privs, rest, fresh, started, faults, raced, orphans>>

\* grantUserAccess: a connection of its own, unless it is given one.
Reconnect(w) ==
  /\ At(w, {"put"}, "reconnect")
  /\ Becomes(w, [worker[w] EXCEPT !.con = AdminPassword, !.step = "member"])
  /\ UNCHANGED <<row, role, member, privs, rest, fresh, started, faults, raced, settled, orphans>>
Impersonate(w) ==
  LET r == worker[w] IN
  /\ At(w, {"put", "init", "sync"}, "member") /\ Reaches(r)
  /\ HasRole(r.user) /\ HasRole(Authenticator)
  /\ member' = member \cup {r.user}
  /\ IF r.kind = "sync" THEN Goto(w, "restart") /\ UNCHANGED settled ELSE End(w)
  /\ UNCHANGED <<row, role, privs, rest, fresh, started, faults, raced, orphans>>

\* pgRest.initDb opens its own connection before it creates the authenticator.
Open(w) ==
  /\ At(w, {"init"}, "open") /\ HasRow(Admin)
  /\ Becomes(w, [worker[w] EXCEPT !.dbCon = AdminPassword, !.user = Authenticator,
                                  !.step = "lookup"])
  /\ UNCHANGED <<row, role, member, privs, rest, fresh, started, faults, raced, settled, orphans>>

-----------------------------------------------------------------------------
(* admin.updateUser                                                        *)

Read(w) ==
  /\ At(w, {"patch"}, "read")
  /\ HasRow(worker[w].user) /\ row[worker[w].user].type \in {"USER", "ADMIN"}
  /\ Goto(w, "retype")
  /\ UNCHANGED <<row, role, member, privs, rest, fresh, started, faults, raced, settled, orphans>>
Retype(w) ==
  /\ At(w, {"patch"}, "retype")
  /\ SaveType(worker[w].user, worker[w].type)
  /\ End(w)
  /\ UNCHANGED <<role, member, privs, rest, fresh, started, faults, raced, orphans>>

-----------------------------------------------------------------------------
(* instance.remoteSyncUsers, and syncUser in the helper                    *)

\* The accounts that are not passed over.
ListedWithoutAuthenticator(r) ==
  {u \in Names : HasRow(u) /\ row[u].type \in {"ADMIN", "PUBLIC", "USER"}}
Listed(r) ==
  {u \in Names : HasRow(u) /\ (row[u].type \in {"ADMIN", "PUBLIC", "USER"}
                               \/ (row[u].type = "PGREST" /\ (r.update \/ r.hard)))}

\* getInstanceUsers: the passwords are those of this moment.
List(w) ==
  LET r == worker[w] IN
     /\ At(w, {"sync"}, "list")
     /\ Becomes(w, [r EXCEPT !.step = "pick",
                             !.left = {<<u, row[u].password>> : u \in Listed(r)}])
     /\ UNCHANGED <<row, role, member, privs, rest, fresh, started, faults, raced, settled, orphans>>

\* resetPassword writes the row first; the helper is asked afterwards.
Pick(w) ==
  LET r == worker[w] IN
  /\ At(w, {"sync"}, "pick")
  /\ \E t \in r.left :
       LET u == t[1]
           Posts(p) == /\ SavePassword(u, p)
                       /\ Becomes(w, [r EXCEPT !.user = u, !.pw = p, !.step = "probe",
                                               !.left = r.left \ {t}])
       IN \/ u = Public /\ Posts(Fixed) /\ UNCHANGED fresh
          \/ u # Public /\ ~r.update /\ Posts(t[2]) /\ UNCHANGED fresh
          \/ u # Public /\ r.update /\ Generate /\ Posts(fresh')
  /\ UNCHANGED <<role, member, privs, rest, started, faults, raced, settled, orphans>>
Synced(w) ==
  /\ At(w, {"sync"}, "pick") /\ worker[w].left = {}
  /\ End(w)
  /\ UNCHANGED <<row, role, member, privs, rest, fresh, started, faults, raced, orphans>>

\* A hard reset restarts PostgREST, which reads the row as it starts.
RestartRest(w) ==
  LET r == worker[w] IN
  /\ At(w, {"sync"}, "restart")
  /\ rest' = IF r.update /\ r.hard /\ r.user = Authenticator /\ HasRow(Authenticator)
             THEN row[Authenticator].password ELSE rest
  /\ Becomes(w, Returned(r, None, "pick"))
  /\ UNCHANGED <<row, role, member, privs, fresh, started, faults, raced, settled, orphans>>

\* pgRest.start, or a new pod at any other time.
RestStarts ==
  /\ HasRow(Authenticator)
  /\ rest' = row[Authenticator].password
  /\ UNCHANGED <<row, role, member, privs, worker, fresh, started, faults, raced, settled, orphans>>

-----------------------------------------------------------------------------
(* user.delete                                                             *)

OpenForDelete(w) ==
  /\ At(w, {"delete"}, "open")
  /\ Becomes(w, [worker[w] EXCEPT !.con = AdminPassword, !.step = "databases"])
  /\ UNCHANGED <<row, role, member, privs, rest, fresh, started, faults, raced, settled, orphans>>
ListDatabases(w) ==
  /\ At(w, {"delete"}, "databases") /\ Opens(worker[w].con)
  /\ Becomes(w, [worker[w] EXCEPT !.dbs = Databases \cup {Postgres}, !.step = "revoke"])
  /\ UNCHANGED <<row, role, member, privs, rest, fresh, started, faults, raced, settled, orphans>>

\* For each database: revoke the schemas of the database that getConnection
\* finds for the instance, whichever that is; then what is held on the database
\* itself, and drop the role, which fails as long as anything is left.
RevokeNothing(w) ==
  LET r == worker[w] IN
  /\ At(w, {"delete"}, "revoke") /\ Opens(r.con) /\ HasRole(r.user) /\ HasRow(Admin)
  /\ Goto(w, "drop")
  /\ UNCHANGED <<row, role, member, privs, rest, fresh, started, faults, raced, settled, orphans>>
Revoke(w) ==
  LET r == worker[w] IN
  /\ At(w, {"delete"}, "revoke") /\ Opens(r.con) /\ HasRole(r.user) /\ HasRow(Admin)
  /\ \E c \in Databases : privs' = [privs EXCEPT ![r.user] = privs[r.user] \ {<<c, "schemas">>}]
  /\ Goto(w, "drop")
  /\ UNCHANGED <<row, role, member, rest, fresh, started, faults, raced, settled, orphans>>
Drop(w) ==
  LET r == worker[w] IN
  /\ At(w, {"delete"}, "drop") /\ Opens(r.con) /\ HasRole(r.user)
  /\ \E d \in r.dbs :
       LET left == privs[r.user] \ {<<d, "database">>} IN
       /\ privs' = [privs EXCEPT ![r.user] = left]
       /\ IF left = {} THEN /\ role' = [role EXCEPT ![r.user] = None]
                            /\ member' = member \ {r.user}
          ELSE UNCHANGED <<role, member>>
       /\ Becomes(w, NextDatabase(r, d))
  /\ UNCHANGED <<row, rest, fresh, started, faults, raced, settled, orphans>>
Forget(w) ==
  /\ At(w, {"delete"}, "forget")
  /\ row' = [row EXCEPT ![worker[w].user] = None]
  /\ orphans' = IF HasRole(worker[w].user) THEN orphans \cup {worker[w].user} ELSE orphans
  /\ End(w)
  /\ UNCHANGED <<role, member, privs, rest, fresh, started, faults, raced>>

\* A grant, which another request makes through a connection of the admin.
\* Bound: it comes before or during deletions only.
Grant(u, p) ==
  /\ \A w \in Busy : worker[w].kind = "delete"
  /\ HasRole(u) /\ HasRow(Admin) /\ Opens(AdminPassword)
  /\ privs' = [privs EXCEPT ![u] = privs[u] \cup {p}]
  /\ worker' = Accompanied
  /\ settled' = None
  /\ UNCHANGED <<row, role, member, rest, fresh, started, faults, raced, orphans>>

-----------------------------------------------------------------------------
(* What goes wrong.                                                        *)

\* The statement is refused: by the password, the role, or the row it meets.
Refused(w) ==
  LET r == worker[w] IN
  /\ \/ r.step = "write" /\ r.found /\ ~MayBecome(r.user, TypeOf(r))
     \/ r.step \in {"probe", "apply"} /\ r.kind \in {"put", "init", "sync"} /\ ~Reaches(r)
     \/ r.step = "apply" /\ r.kind \in {"put", "init", "sync"} /\ r.found # HasRole(r.user)
     \/ r.step = "member" /\ r.kind \in {"put", "init", "sync"}
        /\ ~ (Reaches(r) /\ HasRole(r.user) /\ HasRole(Authenticator))
     \/ r.kind = "init" /\ r.step = "open" /\ ~HasRow(Admin)
     \/ r.kind = "patch" /\ r.step = "read"
        /\ ~ (HasRow(r.user) /\ row[r.user].type \in {"USER", "ADMIN"})
     \/ r.kind = "delete" /\ r.step = "databases" /\ ~Opens(r.con)
     \/ r.kind = "delete" /\ r.step = "revoke"
        /\ ~ (Opens(r.con) /\ HasRole(r.user) /\ HasRow(Admin))
     \/ r.kind = "delete" /\ r.step = "drop"
        /\ ~ (Opens(r.con) /\ HasRole(r.user))
  /\ Reject(w, TRUE)
  /\ UNCHANGED <<row, role, member, privs, rest, fresh, started, faults, raced, orphans>>

\* The connection or the database fails, before the statement has any effect.
Fail(w) ==
  /\ worker[w].kind # "idle" /\ faults < MaxFaults
  /\ faults' = faults + 1
  /\ Reject(w, FALSE)
  /\ UNCHANGED <<row, role, member, privs, rest, fresh, started, raced, orphans>>

\* The process is gone; so is its answer when the effect had been made.
Crash(w) ==
  /\ worker[w].kind # "idle" /\ faults < MaxFaults
  /\ faults' = faults + 1
  /\ Becomes(w, Idle)
  /\ UNCHANGED <<row, role, member, privs, rest, fresh, started, raced, settled, orphans>>

Create(w) == Lookup(w) \/ Write(w) \/ DuplicateRow(w) \/ Connect(w) \/ Probe(w) \/ Apply(w)
             \/ Save(w) \/ Reconnect(w) \/ Impersonate(w) \/ Open(w)
Sync(w) == List(w) \/ Pick(w) \/ Synced(w) \/ RestartRest(w)
Delete(w) == OpenForDelete(w) \/ ListDatabases(w) \/ Revoke(w) \/ Drop(w) \/ Forget(w)

Next ==
  \/ \E w \in Workers :
       \/ PutUser(w) \/ PatchUser(w) \/ DeleteUser(w) \/ SyncUsers(w) \/ InitDb(w)
       \/ Create(w) \/ Read(w) \/ Retype(w) \/ Sync(w) \/ Delete(w)
       \/ Refused(w) \/ Fail(w) \/ Crash(w)
  \/ \E u \in Users, p \in Privileges : Grant(u, p)
  \/ RestStarts

Spec == Init /\ [][Next]_vars

-----------------------------------------------------------------------------
(* Properties.                                                             *)

Workings == [kind : {"idle", "put", "patch", "delete", "sync", "init"},
             user : Names \cup {None}, type : Types, step : Steps,
             left : SUBSET (Names \X Passwords), dbs : SUBSET (Databases \cup {Postgres}),
             pw : Passwords, con : Passwords, dbCon : Passwords, found : BOOLEAN,
             update : BOOLEAN, hard : BOOLEAN, clean : BOOLEAN, alone : BOOLEAN]

Answers == [kind : {"put", "patch", "delete", "sync", "init"}, user : Names \cup {None},
            type : Types, update : BOOLEAN, hard : BOOLEAN, clean : BOOLEAN]

\* Every row, role and request is one the code can hold.
TypeOK ==
  /\ row \in [Names -> Rows \cup {None}]
  /\ role \in [Names -> Passwords \cup {None}]
  /\ member \subseteq Names /\ privs \in [Names -> SUBSET Privileges]
  /\ rest \in Passwords \cup {None}
  /\ worker \in [Workers -> Workings] /\ settled \in Answers \cup {None}
  /\ started \in 0 .. MaxRequests /\ fresh \in 0 .. MaxPasswords /\ faults \in 0 .. MaxFaults
  /\ raced \in BOOLEAN /\ orphans \subseteq Users

Agrees(u) == HasRow(u) /\ HasRole(u) /\ row[u].password = role[u]
Settled(kind) == settled # None /\ settled.kind = kind

\* Creations, initialisations and type changes may overlap in any way: when they
\* are over and nothing has failed, no account is left with a password in its row
\* that the instance does not accept (user.js, create and resetPassword).
AgreeAtRest ==
  Busy = {} /\ ~raced /\ faults = 0 =>
    \A u \in Names \ orphans : HasRow(u) /\ HasRole(u) => Agrees(u)

\* Whatever failures came before: a creation that is answered with success leaves
\* the account with its password, and a USER open to PostgREST; an initialisation
\* without a failure of its own leaves the three reserved accounts (admin.js,
\* createUser; instance.js, initInstanceDb; pg-rest.js, initDb).
Ready ==
  /\ Settled("put") => /\ Agrees(settled.user)
                       /\ settled.type = "USER" => settled.user \in member
  /\ Settled("init") /\ settled.clean => (\A u \in Reserved : Agrees(u)) /\ Public \in member

\* A sync that is answered with success has repaired whatever failures and races
\* had left: every account it lists is accepted with the password of its row, and
\* after a hard reset PostgREST has the new one (instance.js, remoteSyncUsers).
SyncRepairs ==
  Settled("sync") =>
    \A u \in Names : HasRow(u) =>
      /\ row[u].type \in {"ADMIN", "PUBLIC", "USER"} => Agrees(u)
      /\ u = Authenticator /\ settled.hard => Agrees(u)
      /\ u = Authenticator /\ settled.hard /\ settled.update => rest = role[u]

\* On an initialised instance with one database a deletion that met no failure leaves
\* neither the row nor the role, nor a way in through PostgREST (user.js, delete).
DeleteForgets ==
  Settled("delete") /\ settled.clean /\ HasRow(Admin) =>
    ~HasRow(settled.user) /\ ~HasRole(settled.user) /\ settled.user \notin member
=============================================================================
