---------------------------- MODULE Accounts_proof ----------------------------
(***************************************************************************)
(* Four properties of the accounts, for any number of users, databases,    *)
(* requests, failures and crashes.                                         *)
(*                                                                         *)
(* AgreeAtRest speaks of the runs in which nothing failed and no sync or   *)
(* delete met another request; Calm is what holds in them (a row and its   *)
(* role may differ only while a sync is between the two, or while an       *)
(* initialisation is about to save the password it gave the admin role,    *)
(* and two of these never carry the same password).                        *)
(*                                                                         *)
(* The other three speak of a request that had the instance to itself from *)
(* its first statement to its answer, on tables that earlier failures may  *)
(* have left in any state: Company says that such a request is the only    *)
(* one under way, and Alone what it has established at each of its steps.  *)
(* Kept is the claims themselves: they are made of the answer, and stay    *)
(* true until another request begins.                                      *)
(*                                                                         *)
(* There is one lemma for each action, which shows the whole invariant     *)
(* after it.                                                               *)
(***************************************************************************)
EXTENDS Accounts, TLAPS

-----------------------------------------------------------------------------
(* The inductive invariant.                                                *)

Creating(r, steps) == r.kind \in {"put", "init"} /\ r.step \in steps
Syncing(r, steps) == r.kind = "sync" /\ r.step \in steps
OnAdmin(r, steps) == r.kind = "init" /\ r.user = Admin /\ r.step \in steps
Late == {"connect", "probe", "apply", "save"}
InSync == {"pick", "probe", "apply", "member", "restart"}

\* The requests by their kind.
FormOk(r) ==
  /\ r.kind = "put" => /\ r.user \in Users /\ r.type \in {"USER", "SERVICE_ACCOUNT"}
                       /\ r.step \in {"lookup", "write", "reconnect", "member"} \cup Late
  /\ r.kind = "init" => /\ r.user \in Reserved
                        /\ r.step \in {"lookup", "write", "open", "member"} \cup Late
                        /\ r.step \in {"open", "member"} => r.user = Public
  /\ r.kind = "sync" => /\ r.step \in {"list"} \cup InSync
                        /\ r.step \in {"probe", "apply", "member", "restart"} => r.user \in Names
  /\ r.kind = "patch" => r.user \in Users /\ r.step \in {"read", "retype"}
  /\ r.kind = "delete" => /\ r.user \in Users
                          /\ r.step \in {"open", "databases", "revoke", "drop", "forget"}
  /\ r.kind = "idle" => r.step = "lookup"
  /\ Creating(r, {"write"}) /\ r.user \in {Admin, Public} => r.pw = Fixed

\* No password is ahead of the last one generated.
WorkerOk(r) ==
  /\ r \in Workings /\ FormOk(r)
  /\ r.pw <= fresh /\ r.con <= fresh /\ r.dbCon <= fresh
  /\ \A t \in r.left : t[2] <= fresh
TablesOk ==
  /\ row \in [Names -> Rows \cup {None}]
  /\ role \in [Names -> Passwords \cup {None}]
  /\ member \subseteq Names /\ privs \in [Names -> SUBSET Privileges]
  /\ rest \in Passwords \cup {None}
  /\ started \in 0 .. MaxRequests /\ fresh \in 0 .. MaxPasswords /\ faults \in 0 .. MaxFaults
  /\ raced \in BOOLEAN /\ orphans \subseteq Users
  /\ \A u \in Names : HasRow(u) => row[u].password <= fresh
  /\ HasRow(Authenticator) => row[Authenticator].type = "PGREST"
  /\ HasRole(Admin)
  /\ \A u \in member : HasRole(u)
Typed ==
  /\ TablesOk
  /\ worker \in [Workers -> Workings] /\ \A w \in Workers : WorkerOk(worker[w])
  /\ settled \in Answers \cup {None}

\* Who is alone is alone, and an answer is remembered while all are idle.
Company ==
  /\ \A w \in Busy : worker[w].alone => Busy = {w}
  /\ settled # None => Busy = {}

\* Without failures and races.
CalmWorker(r) ==
  /\ Creating(r, Late) \/ (Creating(r, {"write"}) /\ r.found) =>
       HasRow(r.user) /\ (r.user # Admin => row[r.user].password = r.pw)
  /\ OnAdmin(r, Late) => r.pw # Fixed /\ row[Admin].password # r.pw
  /\ OnAdmin(r, {"save"}) => role[Admin] = r.pw
  /\ Syncing(r, {"probe", "apply"}) => HasRow(r.user) /\ row[r.user].password = r.pw
  /\ Syncing(r, {"apply"}) => r.found = HasRole(r.user)
  /\ Syncing(r, InSync) => \A t \in r.left : HasRow(t[1])
Probing(u) == \E w \in Workers : Syncing(worker[w], {"probe", "apply"}) /\ worker[w].user = u
Saving == \E w \in Workers : OnAdmin(worker[w], {"save"})
CalmState ==
  /\ HasRow(Public) => row[Public].password = Fixed
  /\ \A u \in Names \ (orphans \cup {Admin}) :
        HasRole(u) /\ ~ Probing(u) => HasRow(u) /\ row[u].password = role[u]
  /\ ~ Saving /\ ~ Probing(Admin) => AdminPassword = role[Admin]
\* Two initialisations that set the password of the admin.
Apart(r, s) ==
  OnAdmin(r, Late) /\ OnAdmin(s, Late) =>
     /\ r.pw # s.pw
     /\ r.step \in {"probe", "apply"} => r.con # s.pw
CalmPairs == \A v, w \in Workers : v # w => Apart(worker[v], worker[w])
Separate == \A w \in Busy : worker[w].kind \in {"sync", "delete"} => Busy = {w}
Calm == faults = 0 /\ ~ raced =>
  /\ Separate /\ CalmState /\ CalmPairs
  /\ \A w \in Workers : CalmWorker(worker[w])

\* Alone, whatever came before.
AloneCreating(r) ==
  r.kind \in {"put", "init"} =>
    /\ r.step = "write" => r.found = HasRow(r.user)
    /\ r.step \in Late => HasRow(r.user)
    /\ r.step \in {"probe", "apply"} => r.con = AdminPassword
    /\ r.step = "apply" => Opens(r.con) /\ r.found = HasRole(r.user)
    /\ r.step = "save" => role[r.user] = r.pw /\ (r.user # Admin => Opens(AdminPassword))
AlonePut(r) == r.kind = "put" /\ r.step \in {"reconnect", "member"} => Agrees(r.user)
AloneInit(r) ==
  r.kind = "init" /\ r.clean =>
    /\ r.step = "open" => Agrees(Public) \/ ~ Opens(AdminPassword)
    /\ r.user = Authenticator => HasRow(Admin) /\ (Agrees(Public) \/ ~ Opens(AdminPassword))
    /\ r.step = "member" => \A u \in Reserved : Agrees(u)
Left(r, u) == \E t \in r.left : t[1] = u
AloneSync(r) ==
  Syncing(r, InSync) =>
    /\ \A t \in r.left : HasRow(t[1])
    /\ r.step \in {"probe", "apply"} => HasRow(r.user) /\ row[r.user].password = r.pw
    /\ r.step = "apply" => r.found = HasRole(r.user)
    /\ \A u \in Names : u \in Listed(r) =>
         Agrees(u) \/ Left(r, u) \/ (r.step \in {"probe", "apply"} /\ r.user = u)
    /\ r.hard /\ r.update /\ HasRow(Authenticator) =>
         \/ rest = role[Authenticator] \/ Left(r, Authenticator)
         \/ r.step \in {"probe", "apply", "restart"} /\ r.user = Authenticator
AloneDelete(r) ==
  \A d : Databases = {d} /\ r.kind = "delete" /\ r.clean /\ HasRow(Admin) =>
    /\ r.step = "revoke" => Opens(r.con) /\ (HasRole(r.user) => d \in r.dbs)
    /\ r.step = "drop" => /\ Opens(r.con) /\ HasRole(r.user) /\ d \in r.dbs
                          /\ <<d, "schemas">> \notin privs[r.user]
    /\ r.step = "forget" => ~ HasRole(r.user)
AloneOk(r) ==
  AloneCreating(r) /\ AlonePut(r) /\ AloneInit(r) /\ AloneSync(r) /\ AloneDelete(r)
Alone == \A w \in Busy : worker[w].alone => AloneOk(worker[w])

\* What is claimed of the answer that is remembered.
Kept == Ready /\ SyncRepairs /\ ((\E d : Databases = {d}) => DeleteForgets)

IInv == Typed /\ Company /\ Calm /\ Alone /\ Kept

-----------------------------------------------------------------------------
(* What a step of one request leaves to be shown.                          *)

LEMMA NameFacts ==
  /\ Users \subseteq Names /\ Reserved \subseteq Names /\ None \notin Names
  /\ Admin \in Names /\ Public \in Names /\ Authenticator \in Names
  /\ Admin # Public /\ Admin # Authenticator /\ Public # Authenticator
  /\ Admin \notin Users /\ Public \notin Users /\ Authenticator \notin Users
  /\ Reserved = {Admin, Public, Authenticator}
BY NamesAssumption DEF Names, Reserved

LEMMA PasswordFacts ==
  /\ Fixed \in Passwords /\ None \notin Passwords /\ None \notin Rows
  /\ \A p \in Passwords : p \in Nat
BY BoundsAssumption, RowsAssumption DEF Passwords, Fixed

LEMMA IdleFacts ==
  /\ Idle \in Workings /\ FormOk(Idle) /\ Idle.kind = "idle" /\ Idle.left = {}
  /\ Idle.pw = Fixed /\ Idle.con = Fixed /\ Idle.dbCon = Fixed
  /\ Idle.found = FALSE /\ Idle.clean = TRUE /\ Idle.alone = TRUE
  /\ Idle.step = "lookup" /\ Idle.user = None
BY BoundsAssumption
DEF Idle, Workings, FormOk, Creating, Steps, Types, Passwords, Fixed

LEMMA Moved ==
  ASSUME worker \in [Workers -> Workings], NEW w \in Workers, NEW n \in Workings, Becomes(w, n)
  PROVE  /\ worker' \in [Workers -> Workings] /\ worker'[w] = n
         /\ \A v \in Workers : v # w => worker'[v] = worker[v]
BY DEF Becomes

LEMMA RememberedType ==
  ASSUME NEW r \in Workings, r.kind # "idle"
  PROVE  /\ Remembered(r) \in Answers \cup {None}
         /\ Remembered(r) # None => r.alone
BY DEF Remembered, Workings, Answers

LEMMA StepTyped ==
  ASSUME Typed, NEW w \in Workers, NEW n \in Workings, Becomes(w, n),
         WorkerOk(n)', TablesOk', fresh <= fresh', settled' \in Answers \cup {None}
  PROVE  Typed'
<1>1. ASSUME NEW v \in Workers PROVE WorkerOk(worker[v])'
  <2>1. CASE v = w
    BY <2>1, Moved DEF Typed, WorkerOk
  <2>2. CASE v # w
    <3>1. worker'[v] = worker[v]
      BY <2>2, Moved DEF Typed
    <3>2. PICK r : r = worker[v]
      OBVIOUS
    <3>3. WorkerOk(r) /\ r = worker'[v]
      BY <3>1, <3>2 DEF Typed
    <3>4. fresh \in Nat /\ fresh' \in Nat
      BY BoundsAssumption DEF Typed, TablesOk
    <3>5. r.pw \in Nat /\ r.con \in Nat /\ r.dbCon \in Nat /\ (\A t \in r.left : t[2] \in Nat)
      BY <3>3, PasswordFacts DEF WorkerOk, Workings
    <3>6. WorkerOk(r)'
      BY <3>3, <3>4, <3>5 DEF WorkerOk
    <3> QED BY <3>3, <3>6
  <2> QED BY <2>1, <2>2
<1> QED BY <1>1, Moved DEF Typed

LEMMA StepCompany ==
  ASSUME Typed, Company, NEW w \in Workers, NEW n \in Workings, Becomes(w, n),
         NEW r, r = worker[w], r.kind # "idle",
         n.kind = "idle" \/ n.alone = r.alone,
         settled' = settled \/ (n.kind = "idle" /\ (settled' # None => r.alone))
  PROVE  Company' /\ (settled' = settled => settled' = None)
<1>1. settled = None /\ w \in Busy
  BY DEF Company, Busy
<1>2. /\ worker'[w] = n
      /\ \A v \in Workers : v # w => worker'[v] = worker[v]
  BY Moved DEF Typed
<1>3. r.alone => Busy = {w}
  BY <1>1 DEF Company
<1>4. Busy' \subseteq Busy
  BY <1>1, <1>2 DEF Busy
<1>5. ASSUME NEW v \in Busy', worker'[v].alone PROVE Busy' = {v}
  <2>1. CASE v = w
    BY <2>1, <1>2, <1>3, <1>4, <1>5 DEF Busy
  <2>2. CASE v # w
    BY <2>2, <1>1, <1>2, <1>4, <1>5 DEF Company, Busy
  <2> QED BY <2>1, <2>2
<1>6. ASSUME settled' # None PROVE Busy' = {}
  BY <1>1, <1>2, <1>3, <1>4, <1>6 DEF Busy
<1> QED BY <1>1, <1>5, <1>6 DEF Company

LEMMA StepAlone ==
  ASSUME Typed, Company, NEW w \in Workers, NEW n \in Workings, Becomes(w, n),
         NEW r, r = worker[w], r.kind # "idle",
         n.kind # "idle" /\ n.alone => AloneOk(n)'
  PROVE  Alone'
<1>1. w \in Busy
  BY DEF Busy
<1>2. /\ worker'[w] = n
      /\ \A v \in Workers : v # w => worker'[v] = worker[v]
  BY Moved DEF Typed
<1>3. ASSUME NEW v \in Busy', worker'[v].alone PROVE AloneOk(worker[v])'
  <2>1. CASE v = w
    BY <2>1, <1>2, <1>3 DEF Busy
  <2>2. CASE v # w
    BY <2>2, <1>1, <1>2, <1>3 DEF Company, Busy
  <2> QED BY <2>1, <2>2
<1> QED BY <1>3 DEF Alone

LEMMA NothingKept == ASSUME settled' = None PROVE Kept'
BY DEF Kept, Ready, SyncRepairs, DeleteForgets, Settled

-----------------------------------------------------------------------------
(* A step while nothing has failed and nothing was raced.                  *)

LEMMA StepSeparate ==
  ASSUME Typed, Separate, NEW w \in Workers, NEW n \in Workings, Becomes(w, n),
         NEW r, r = worker[w], r.kind # "idle", n.kind \in {"idle", r.kind}
  PROVE  Separate'
<1>1. /\ worker'[w] = n
      /\ \A v \in Workers : v # w => worker'[v] = worker[v]
  BY Moved DEF Typed
<1>2. Busy' \subseteq Busy /\ w \in Busy
  BY <1>1 DEF Busy
<1>3. ASSUME NEW v \in Busy', worker'[v].kind \in {"sync", "delete"} PROVE Busy' = {v}
  <2>1. worker[v].kind \in {"sync", "delete"} /\ v \in Busy
    BY <1>1, <1>2, <1>3 DEF Busy
  <2> QED BY <2>1, <1>2 DEF Separate
<1> QED BY <1>3 DEF Separate

\* Of the others only the pairs with the one that moves change.
LEMMA StepPairs ==
  ASSUME Typed, CalmPairs, NEW w \in Workers, NEW n \in Workings, Becomes(w, n),
         \A v \in Workers : v # w => Apart(n, worker[v]) /\ Apart(worker[v], n)
  PROVE  CalmPairs'
<1>1. /\ worker'[w] = n
      /\ \A v \in Workers : v # w => worker'[v] = worker[v]
  BY Moved DEF Typed
<1>2. ASSUME NEW v \in Workers, NEW x \in Workers, v # x
      PROVE  Apart(worker'[v], worker'[x])
  BY <1>1, <1>2 DEF CalmPairs
<1> QED BY <1>2 DEF CalmPairs, Apart, OnAdmin, Late

\* Who did not set the password of the admin is apart from everyone.
LEMMA NotOnAdmin ==
  ASSUME NEW n, ~ OnAdmin(n, Late), NEW s
  PROVE  Apart(n, s) /\ Apart(s, n)
BY DEF Apart

\* Nor does a step change anything that keeps to its password and its connection.
LEMMA SameOnAdmin ==
  ASSUME NEW r, NEW n, NEW s, Apart(r, s), Apart(s, r),
         OnAdmin(n, Late) => OnAdmin(r, Late) /\ n.pw = r.pw,
         OnAdmin(n, {"probe", "apply"}) =>
           (r.step \in {"probe", "apply"} /\ n.con = r.con) \/ (OnAdmin(s, Late) => n.con # s.pw)
  PROVE  Apart(n, s) /\ Apart(s, n)
<1>1. CASE ~ OnAdmin(n, Late)
  BY <1>1, NotOnAdmin
<1>2. CASE OnAdmin(n, Late)
  <2>1. OnAdmin(r, Late) /\ n.pw = r.pw
    BY <1>2
  <2>2. Apart(s, n)
    BY <2>1 DEF Apart
  <2>3. n.step \in {"probe", "apply"} => OnAdmin(n, {"probe", "apply"})
    BY <1>2 DEF OnAdmin
  <2>4. Apart(n, s)
    BY <2>1, <2>3 DEF Apart
  <2> QED BY <2>2, <2>4
<1> QED BY <1>1, <1>2

\* Rows that keep their passwords.
LEMMA CalmWorkerKept ==
  ASSUME NEW s \in Workings, CalmWorker(s), role' = role, Typed,
         \A u \in Names : HasRow(u) => HasRow(u)' /\ row'[u].password = row[u].password,
         FormOk(s)
  PROVE  CalmWorker(s)'
<1>1. OnAdmin(s, Late) => Creating(s, Late) /\ s.user = Admin
  BY DEF OnAdmin, Creating
<1>2. Creating(s, Late) \/ (Creating(s, {"write"}) /\ s.found) => s.user \in Names
  BY NameFacts DEF Creating, FormOk, Late
<1>3. Creating(s, Late) \/ (Creating(s, {"write"}) /\ s.found) =>
        HasRow(s.user)' /\ (s.user # Admin => row'[s.user].password = s.pw)
  BY <1>2 DEF CalmWorker
<1>4. OnAdmin(s, Late) => s.pw # Fixed /\ row'[Admin].password # s.pw
  <2> SUFFICES ASSUME OnAdmin(s, Late) PROVE s.pw # Fixed /\ row'[Admin].password # s.pw
    OBVIOUS
  <2>1. HasRow(Admin)
    BY <1>1 DEF CalmWorker
  <2> QED BY <2>1, NameFacts DEF CalmWorker
<1>5. OnAdmin(s, {"save"}) => role'[Admin] = s.pw
  BY DEF CalmWorker
<1>6. Syncing(s, {"probe", "apply"}) => s.user \in Names
  BY DEF Syncing, FormOk
<1>7. Syncing(s, {"probe", "apply"}) => HasRow(s.user)' /\ row'[s.user].password = s.pw
  BY <1>6 DEF CalmWorker
<1>8. Syncing(s, {"apply"}) => s.found = HasRole(s.user)'
  BY DEF CalmWorker, HasRole
<1>9. Syncing(s, InSync) => \A t \in s.left : HasRow(t[1])'
  BY DEF CalmWorker, Workings
<1> QED BY <1>3, <1>4, <1>5, <1>7, <1>8, <1>9 DEF CalmWorker, Creating, OnAdmin, Syncing

\* The others see no difference when the passwords stay as they are.
LEMMA StepWorkers ==
  ASSUME Typed, \A v \in Workers : CalmWorker(worker[v]),
         NEW w \in Workers, NEW n \in Workings, Becomes(w, n), role' = role,
         \A u \in Names : HasRow(u) => HasRow(u)' /\ row'[u].password = row[u].password,
         CalmWorker(n)'
  PROVE  \A v \in Workers : CalmWorker(worker[v])'
<1>1. /\ worker'[w] = n
      /\ \A v \in Workers : v # w => worker'[v] = worker[v]
  BY Moved DEF Typed
<1>2. ASSUME NEW v \in Workers PROVE CalmWorker(worker[v])'
  <2>1. CASE v = w
    BY <1>1, <2>1
  <2>2. CASE v # w
    <3>1. PICK s : s = worker[v]
      OBVIOUS
    <3>2. s \in Workings /\ CalmWorker(s) /\ FormOk(s)
      BY <3>1 DEF Typed, WorkerOk
    <3>3. CalmWorker(s)'
      BY <3>2, CalmWorkerKept
    <3> QED BY <1>1, <2>2, <3>1, <3>3
  <2> QED BY <2>1, <2>2
<1> QED BY <1>2

\* What is asked of a step from r to n that changes neither a row nor a role.
CalmStep(r, n) ==
  /\ CalmWorker(n)
  /\ Syncing(r, {"probe", "apply"}) => Syncing(n, {"probe", "apply"}) /\ n.user = r.user
  /\ OnAdmin(n, Late) => OnAdmin(r, Late) /\ n.pw = r.pw
  /\ OnAdmin(n, {"probe", "apply"}) =>
       \/ r.step \in {"probe", "apply"} /\ n.con = r.con
       \/ \A v \in Workers : OnAdmin(worker[v], Late) => n.con # worker[v].pw
  /\ OnAdmin(r, {"save"}) => OnAdmin(n, {"save"})

\* Who reads and tells: neither a row nor a role changes.
LEMMA QuietCalm ==
  ASSUME Typed, Calm, NEW w \in Workers, NEW n \in Workings, Becomes(w, n),
         NEW r, r = worker[w], r.kind # "idle", n.kind \in {"idle", r.kind},
         row' = row, role' = role, orphans' = orphans, faults' = faults, raced' = raced,
         faults = 0 /\ ~ raced => CalmStep(r, n)
  PROVE  Calm'
<1> SUFFICES ASSUME faults = 0, ~ raced
             PROVE  Separate' /\ CalmState' /\ CalmPairs'
                    /\ \A v \in Workers : CalmWorker(worker[v])'
  BY DEF Calm
<1>1. /\ worker'[w] = n
      /\ \A v \in Workers : v # w => worker'[v] = worker[v]
  BY Moved DEF Typed
<1>2. Separate /\ CalmState /\ CalmPairs /\ \A v \in Workers : CalmWorker(worker[v])
  BY DEF Calm
<1>3. Separate'
  BY <1>2, StepSeparate
<1>4. CalmWorker(n)'
  BY DEF CalmStep, CalmWorker, Creating, OnAdmin, Syncing, HasRow, HasRole
<1>5. \A v \in Workers : CalmWorker(worker[v])'
  <2>1. \A u \in Names : HasRow(u) => HasRow(u)' /\ row'[u].password = row[u].password
    BY DEF HasRow
  <2> QED BY <1>2, <1>4, <2>1, StepWorkers
<1>6. CalmPairs'
  <2>1. ASSUME NEW v \in Workers, v # w PROVE Apart(n, worker[v]) /\ Apart(worker[v], n)
    <3>1. Apart(r, worker[v]) /\ Apart(worker[v], r)
      BY <1>2, <2>1 DEF CalmPairs
    <3>2. OnAdmin(n, {"probe", "apply"}) =>
            (r.step \in {"probe", "apply"} /\ n.con = r.con)
            \/ (OnAdmin(worker[v], Late) => n.con # worker[v].pw)
      BY <2>1 DEF CalmStep
    <3> QED BY <3>1, <3>2, SameOnAdmin DEF CalmStep
  <2> QED BY <1>2, <2>1, StepPairs
<1>7. \A u : Probing(u) => Probing(u)'
  <2> SUFFICES ASSUME NEW u, NEW v \in Workers,
                      Syncing(worker[v], {"probe", "apply"}), worker[v].user = u
               PROVE  Syncing(worker'[v], {"probe", "apply"}) /\ worker'[v].user = u
    BY DEF Probing, Syncing
  <2> QED BY <1>1 DEF CalmStep
<1>8. Saving => Saving'
  <2> SUFFICES ASSUME NEW v \in Workers, OnAdmin(worker[v], {"save"})
               PROVE  OnAdmin(worker'[v], {"save"})
    BY DEF Saving, OnAdmin
  <2> QED BY <1>1 DEF CalmStep
<1>9. CalmState'
  BY <1>2, <1>7, <1>8 DEF CalmState, HasRow, HasRole, AdminPassword
<1> QED BY <1>3, <1>5, <1>6, <1>9

LEMMA QuietTables ==
  ASSUME TablesOk, UNCHANGED <<row, role, member, rest, started, faults, raced, orphans>>,
         privs' \in [Names -> SUBSET Privileges], fresh' \in 0 .. MaxPasswords, fresh <= fresh'
  PROVE  TablesOk'
<1>1. \A u \in Names : HasRow(u) => row[u].password <= fresh'
  <2> SUFFICES ASSUME NEW u \in Names, HasRow(u) PROVE row[u].password <= fresh'
    OBVIOUS
  <2>1. row[u] \in Rows
    BY DEF TablesOk, HasRow
  <2>2. row[u].password \in Nat
    BY <2>1, PasswordFacts DEF Rows
  <2>3. row[u].password <= fresh /\ fresh \in Nat /\ fresh' \in Nat
    BY BoundsAssumption DEF TablesOk
  <2> QED BY <2>2, <2>3
<1> QED BY <1>1 DEF TablesOk, HasRow, HasRole

\* A step of w from r to n that changes no table but those of the privileges.
LEMMA QuietStep ==
  ASSUME IInv, NEW w \in Workers, NEW n, Becomes(w, n),
         NEW r, r = worker[w], r.kind # "idle", n.kind \in {"idle", r.kind},
         n.kind = "idle" \/ n.alone = r.alone,
         UNCHANGED <<row, role, member, rest, started, faults, raced, settled, orphans>>,
         privs' \in [Names -> SUBSET Privileges], fresh' \in 0 .. MaxPasswords, fresh <= fresh',
         WorkerOk(n)',
         faults = 0 /\ ~ raced => CalmStep(r, n),
         r.alone /\ n.kind # "idle" => AloneOk(n)'
  PROVE  IInv'
<1>0. n \in Workings
  BY DEF WorkerOk
<1>1. Typed'
  <2>1. TablesOk'
    BY QuietTables DEF IInv, Typed
  <2> QED BY <1>0, <2>1, StepTyped DEF IInv, Typed
<1>2. Company' /\ settled' = None
  BY <1>0, StepCompany DEF IInv
<1>3. Calm'
  BY <1>0, QuietCalm DEF IInv
<1>4. Alone'
  BY <1>0, StepAlone DEF IInv
<1>5. Kept'
  BY <1>2, NothingKept
<1> QED BY <1>1, <1>2, <1>3, <1>4, <1>5 DEF IInv

\* What is known of a request before it moves.
LEMMA Before ==
  ASSUME IInv, NEW w \in Workers, NEW r, r = worker[w]
  PROVE  /\ r \in Workings /\ WorkerOk(r) /\ FormOk(r)
         /\ r.kind # "idle" /\ r.alone => AloneOk(r) /\ Busy = {w}
         /\ faults = 0 /\ ~ raced => CalmWorker(r) /\ CalmState /\ CalmPairs /\ Separate
         /\ faults = 0 /\ ~ raced => \A v \in Workers : CalmWorker(worker[v])
         /\ fresh \in Nat /\ fresh \in 0 .. MaxPasswords /\ TablesOk
         /\ privs \in [Names -> SUBSET Privileges]
<1>1. r \in Workings /\ WorkerOk(r) /\ FormOk(r)
  BY DEF IInv, Typed, WorkerOk
<1>2. r.kind # "idle" /\ r.alone => AloneOk(r) /\ Busy = {w}
  BY DEF IInv, Alone, Company, Busy
<1>3. fresh \in Nat /\ fresh \in 0 .. MaxPasswords /\ TablesOk
  BY BoundsAssumption DEF IInv, Typed, TablesOk
<1> QED BY <1>1, <1>2, <1>3 DEF IInv, Calm, TablesOk

LEMMA LookupStep ==
  ASSUME IInv, NEW w \in Workers, Lookup(w)
  PROVE  IInv'
<1>1. PICK r : r = worker[w]
  OBVIOUS
<1>2. /\ r.kind \in {"put", "init"} /\ r.step = "lookup"
      /\ UNCHANGED <<row, role, member, privs, rest, started, faults, raced, settled, orphans>>
  BY <1>1 DEF Lookup, At
<1>3. /\ r \in Workings /\ WorkerOk(r) /\ FormOk(r)
      /\ fresh \in Nat /\ fresh \in 0 .. MaxPasswords /\ TablesOk
      /\ r.user \in Names
  <2>1. r.user \in Names
    BY <1>1, <1>2, Before, NameFacts DEF FormOk
  <2> QED BY <1>1, Before, <2>1
<1>4. \E f \in BOOLEAN, p \in Passwords :
        /\ f = HasRow(r.user)
        /\ Becomes(w, [r EXCEPT !.found = f, !.pw = p, !.step = "write"])
        /\ r.user \in {Admin, Public} => p = Fixed
        /\ r.user \notin {Admin, Public} /\ f => p = row[r.user].password
        /\ fresh' \in 0 .. MaxPasswords /\ fresh <= fresh' /\ p <= fresh'
  <2>1. HasRow(r.user) \in BOOLEAN
    BY DEF HasRow
  <2>2. CASE r.user \in {Admin, Public}
    <3>1. /\ Becomes(w, [r EXCEPT !.found = HasRow(r.user), !.pw = Fixed, !.step = "write"])
          /\ fresh' = fresh
      BY <1>1, <2>2 DEF Lookup
    <3>2. fresh' \in 0 .. MaxPasswords /\ fresh <= fresh' /\ Fixed <= fresh'
      BY <1>3, <3>1 DEF Fixed
    <3> QED BY <2>1, <2>2, <3>1, <3>2, PasswordFacts
  <2>3. CASE r.user \notin {Admin, Public} /\ HasRow(r.user)
    <3>1. row[r.user] \in Rows /\ row[r.user].password <= fresh
      BY <1>3, <2>3 DEF TablesOk, HasRow
    <3>2. row[r.user].password \in Passwords
      BY <3>1 DEF Rows
    <3>3. /\ Becomes(w, [r EXCEPT !.found = TRUE, !.pw = row[r.user].password, !.step = "write"])
          /\ fresh' = fresh
      BY <1>1, <2>3 DEF Lookup
    <3>4. fresh' \in 0 .. MaxPasswords /\ fresh <= fresh' /\ row[r.user].password <= fresh'
      BY <1>3, <3>1, <3>3
    <3>5. HasRow(r.user) = TRUE
      BY <2>1, <2>3
    <3> QED BY <2>3, <3>2, <3>3, <3>4, <3>5
  <2>4. CASE r.user \notin {Admin, Public} /\ ~ HasRow(r.user)
    <3>1. fresh' \in Passwords /\ fresh' = fresh + 1 /\ fresh' \in 0 .. MaxPasswords
      BY <1>1, <1>3, <2>4, BoundsAssumption DEF Lookup, Generate, Passwords, Fixed
    <3>2. Becomes(w, [r EXCEPT !.found = FALSE, !.pw = fresh', !.step = "write"])
      BY <1>1, <2>4 DEF Lookup
    <3>3. fresh <= fresh' /\ fresh' <= fresh'
      BY <1>3, <3>1
    <3>4. HasRow(r.user) = FALSE
      BY <2>1, <2>4
    <3> QED BY <2>4, <3>1, <3>2, <3>3, <3>4
  <2> QED BY <2>2, <2>3, <2>4
<1>5. PICK f, p, n :
        /\ f \in BOOLEAN /\ p \in Passwords
        /\ f = HasRow(r.user)
        /\ Becomes(w, n) /\ n = [r EXCEPT !.found = f, !.pw = p, !.step = "write"]
        /\ r.user \in {Admin, Public} => p = Fixed
        /\ r.user \notin {Admin, Public} /\ f => p = row[r.user].password
        /\ fresh' \in 0 .. MaxPasswords /\ fresh <= fresh' /\ p <= fresh'
  BY <1>4
<1>6. /\ n \in Workings
      /\ n.kind = r.kind /\ n.user = r.user /\ n.type = r.type /\ n.step = "write"
      /\ n.left = r.left /\ n.pw = p /\ n.con = r.con /\ n.dbCon = r.dbCon /\ n.found = f
      /\ n.clean = r.clean /\ n.alone = r.alone
  BY <1>3, <1>5 DEF Workings, Steps
<1>7. WorkerOk(n)'
  <2>1. FormOk(n)
    BY <1>2, <1>3, <1>5, <1>6 DEF FormOk, Creating, Late
  <2>2. /\ r.con \in Nat /\ r.dbCon \in Nat /\ r.con <= fresh /\ r.dbCon <= fresh
        /\ \A t \in r.left : t[2] \in Nat /\ t[2] <= fresh
    BY <1>3, PasswordFacts DEF WorkerOk, Workings
  <2> QED BY <1>3, <1>5, <1>6, <2>1, <2>2 DEF WorkerOk
<1>8. ASSUME faults = 0, ~ raced PROVE CalmStep(r, n)
  <2>1. HasRow(Public) => row[Public].password = Fixed
    BY <1>1, <1>8, Before DEF CalmState
  <2>2. CalmWorker(n)
    BY <1>2, <1>5, <1>6, <2>1 DEF CalmWorker, Creating, OnAdmin, Syncing, Late
  <2> QED BY <1>2, <1>6, <2>2 DEF CalmStep, OnAdmin, Syncing, Late
<1>9. ASSUME r.alone PROVE AloneOk(n)'
  <2>1. AloneOk(r)
    BY <1>1, <1>2, <1>9, Before
  <2>2. AloneCreating(n)' /\ AlonePut(n)' /\ AloneSync(n)' /\ AloneDelete(n)'
    BY <1>2, <1>5, <1>6
    DEF AloneCreating, AlonePut, AloneSync, AloneDelete, Syncing, Late, HasRow
  <2>3. AloneInit(n)'
    BY <1>2, <1>6, <2>1 DEF AloneOk, AloneInit, Agrees, HasRow, HasRole, Opens, AdminPassword
  <2> QED BY <2>2, <2>3 DEF AloneOk
<1> QED BY ONLY IInv, w \in Workers, <1>1, <1>2, <1>3, <1>5, <1>6, <1>7, <1>8, <1>9,
        QuietStep, Before

LEMMA AdminPasswordType ==
  ASSUME TablesOk
  PROVE  AdminPassword \in Passwords /\ AdminPassword <= fresh
<1>1. CASE HasRow(Admin)
  <2>1. row[Admin] \in Rows /\ row[Admin].password <= fresh
    BY <1>1, NameFacts DEF TablesOk, HasRow
  <2> QED BY <1>1, <2>1 DEF AdminPassword, Rows
<1>2. CASE ~ HasRow(Admin)
  BY <1>2, PasswordFacts, BoundsAssumption DEF TablesOk, AdminPassword, Fixed
<1> QED BY <1>1, <1>2

\* A step that generates no password keeps to those it has.
LEMMA KeepsBounds ==
  ASSUME NEW r, WorkerOk(r), NEW n \in Workings, FormOk(n), fresh' = fresh, TablesOk,
         n.pw \in {r.pw, Fixed}, n.con \in {r.con, r.dbCon, Fixed, AdminPassword},
         n.dbCon \in {r.dbCon, Fixed, AdminPassword}, n.left \subseteq r.left
  PROVE  WorkerOk(n)'
<1>1. AdminPassword <= fresh /\ fresh \in Nat /\ Fixed <= fresh
  BY AdminPasswordType, BoundsAssumption DEF TablesOk, Fixed
<1> QED BY <1>1 DEF WorkerOk

LEMMA ConnectStep ==
  ASSUME IInv, NEW w \in Workers, Connect(w)
  PROVE  IInv'
<1>1. PICK r, n : /\ r = worker[w]
                  /\ n = [worker[w] EXCEPT !.con = AdminPassword, !.step = "probe"]
  OBVIOUS
<1>2. /\ r.kind \in {"put", "init"} /\ r.step = "connect" /\ Becomes(w, n)
      /\ UNCHANGED <<row, role, member, privs, rest, fresh, started, faults, raced,
                     settled, orphans>>
  BY <1>1 DEF Connect, At
<1>3. /\ r \in Workings /\ WorkerOk(r) /\ FormOk(r)
      /\ fresh \in Nat /\ fresh \in 0 .. MaxPasswords /\ TablesOk
      /\ privs \in [Names -> SUBSET Privileges]
  BY <1>1, Before
<1>4. AdminPassword \in Passwords
  BY <1>3, AdminPasswordType
<1>5. n = [r EXCEPT !.con = AdminPassword, !.step = "probe"]
  BY <1>1
<1>6. /\ n \in Workings
      /\ n.kind = r.kind /\ n.user = r.user /\ n.type = r.type /\ n.step = "probe"
      /\ n.left = r.left /\ n.pw = r.pw /\ n.con = AdminPassword /\ n.dbCon = r.dbCon
      /\ n.clean = r.clean /\ n.alone = r.alone
  BY <1>3, <1>4, <1>5 DEF Workings, Steps
<1>7. WorkerOk(n)'
  <2>1. FormOk(n)
    BY <1>2, <1>3, <1>6 DEF FormOk, Creating, Late
  <2> QED BY <1>2, <1>3, <1>6, <2>1, KeepsBounds
<1>8. ASSUME faults = 0, ~ raced PROVE CalmStep(r, n)
  <2>1. CalmWorker(r) /\ \A v \in Workers : CalmWorker(worker[v])
    BY <1>1, <1>8, Before
  <2>2. CalmWorker(n)
    BY <1>2, <1>6, <2>1 DEF CalmWorker, Creating, OnAdmin, Syncing, Late
  <2>3. ASSUME NEW v \in Workers, OnAdmin(worker[v], Late) PROVE n.con # worker[v].pw
    <3>1. HasRow(Admin) /\ row[Admin].password # worker[v].pw
      BY <2>1, <2>3 DEF CalmWorker, OnAdmin, Creating
    <3> QED BY <1>6, <3>1 DEF AdminPassword
  <2> QED BY <1>2, <1>6, <2>2, <2>3 DEF CalmStep, OnAdmin, Syncing, Late
<1>9. ASSUME r.alone PROVE AloneOk(n)'
  <2>1. AloneOk(r)
    BY <1>1, <1>2, <1>9, Before
  <2>2. AloneCreating(n)' /\ AlonePut(n)' /\ AloneSync(n)' /\ AloneDelete(n)'
    BY <1>2, <1>6, <2>1
    DEF AloneOk, AloneCreating, AlonePut, AloneSync, AloneDelete, Syncing, Late, HasRow,
        AdminPassword
  <2>3. AloneInit(n)'
    BY <1>2, <1>6, <2>1 DEF AloneOk, AloneInit, Agrees, HasRow, HasRole, Opens, AdminPassword
  <2> QED BY <2>2, <2>3 DEF AloneOk
<1>10. fresh <= fresh'
  BY <1>2, <1>3
<1> QED BY ONLY IInv, w \in Workers, <1>1, <1>2, <1>3, <1>6, <1>7, <1>8, <1>9, <1>10, QuietStep

LEMMA ProbeStep ==
  ASSUME IInv, NEW w \in Workers, Probe(w)
  PROVE  IInv'
<1>1. PICK r, n : /\ r = worker[w]
                  /\ n = [worker[w] EXCEPT !.found = HasRole(worker[w].user), !.step = "apply"]
  OBVIOUS
<1>2. /\ r.kind \in {"put", "init", "sync"} /\ r.step = "probe" /\ Becomes(w, n) /\ Reaches(r)
      /\ UNCHANGED <<row, role, member, privs, rest, fresh, started, faults, raced,
                     settled, orphans>>
  BY <1>1 DEF Probe, At
<1>3. /\ r \in Workings /\ WorkerOk(r) /\ FormOk(r)
      /\ fresh \in Nat /\ fresh \in 0 .. MaxPasswords /\ TablesOk
      /\ privs \in [Names -> SUBSET Privileges]
  BY <1>1, Before
<1>4. HasRole(r.user) \in BOOLEAN
  BY DEF HasRole
<1>5. n = [r EXCEPT !.found = HasRole(r.user), !.step = "apply"]
  BY <1>1
<1>6. /\ n \in Workings
      /\ n.kind = r.kind /\ n.user = r.user /\ n.type = r.type /\ n.step = "apply"
      /\ n.left = r.left /\ n.pw = r.pw /\ n.con = r.con /\ n.dbCon = r.dbCon
      /\ n.found = HasRole(r.user) /\ n.clean = r.clean /\ n.alone = r.alone
      /\ n.update = r.update /\ n.hard = r.hard
  BY <1>3, <1>4, <1>5 DEF Workings, Steps
<1>7. WorkerOk(n)'
  <2>1. FormOk(n)
    BY <1>2, <1>3, <1>6 DEF FormOk, Creating, Late, InSync
  <2> QED BY <1>2, <1>3, <1>6, <2>1, KeepsBounds
<1>8. ASSUME faults = 0, ~ raced PROVE CalmStep(r, n)
  <2>1. CalmWorker(r)
    BY <1>1, <1>8, Before
  <2>2. CalmWorker(n)
    BY <1>2, <1>6, <2>1 DEF CalmWorker, Creating, OnAdmin, Syncing, Late, InSync
  <2> QED BY <1>2, <1>6, <2>2 DEF CalmStep, OnAdmin, Syncing, Late
<1>9. ASSUME r.alone PROVE AloneOk(n)'
  <2>1. AloneOk(r)
    BY <1>1, <1>2, <1>9, Before
  <2>2. AloneCreating(n)' /\ AlonePut(n)' /\ AloneDelete(n)'
    BY <1>2, <1>6, <2>1
    DEF AloneOk, AloneCreating, AlonePut, AloneDelete, Late, HasRow, HasRole, Opens, Reaches,
        AdminPassword
  <2>3. AloneInit(n)'
    BY <1>2, <1>6, <2>1 DEF AloneOk, AloneInit, Agrees, HasRow, HasRole, Opens, AdminPassword
  <2>4. AloneSync(n)'
    BY <1>2, <1>6, <2>1
    DEF AloneOk, AloneSync, Syncing, InSync, Agrees, HasRow, HasRole, Listed, Left
  <2> QED BY <2>2, <2>3, <2>4 DEF AloneOk
<1>10. fresh <= fresh'
  BY <1>2, <1>3
<1> QED BY ONLY IInv, w \in Workers, <1>1, <1>2, <1>3, <1>6, <1>7, <1>8, <1>9, <1>10, QuietStep

\* A step of w from r to n that changes no table at all.
LEMMA TellStep ==
  ASSUME IInv, NEW w \in Workers, NEW n \in Workings, Becomes(w, n),
         NEW r, r = worker[w], r.kind # "idle", n.kind \in {"idle", r.kind},
         n.kind = "idle" \/ n.alone = r.alone,
         UNCHANGED <<row, role, member, privs, rest, fresh, started, faults, raced,
                     settled, orphans>>,
         FormOk(n), n.pw \in {r.pw, Fixed}, n.con \in {r.con, r.dbCon, Fixed, AdminPassword},
         n.dbCon \in {r.dbCon, Fixed, AdminPassword}, n.left \subseteq r.left,
         faults = 0 /\ ~ raced /\ CalmWorker(r) => CalmStep(r, n),
         r.alone /\ AloneOk(r) /\ n.kind # "idle" => AloneOk(n)'
  PROVE  IInv'
<1>1. /\ WorkerOk(r) /\ TablesOk /\ fresh \in Nat /\ fresh \in 0 .. MaxPasswords
      /\ privs \in [Names -> SUBSET Privileges]
  BY Before
<1>2. WorkerOk(n)'
  BY <1>1, KeepsBounds
<1>3. faults = 0 /\ ~ raced => CalmStep(r, n)
  BY Before
<1>4. r.alone /\ n.kind # "idle" => AloneOk(n)'
  BY Before
<1>5. fresh <= fresh'
  BY <1>1
<1> QED BY <1>1, <1>2, <1>3, <1>4, <1>5, QuietStep

LEMMA ReconnectStep ==
  ASSUME IInv, NEW w \in Workers, Reconnect(w)
  PROVE  IInv'
<1>1. PICK r, n : /\ r = worker[w]
                  /\ n = [worker[w] EXCEPT !.con = AdminPassword, !.step = "member"]
  OBVIOUS
<1>2. /\ r.kind = "put" /\ r.step = "reconnect" /\ Becomes(w, n)
      /\ UNCHANGED <<row, role, member, privs, rest, fresh, started, faults, raced,
                     settled, orphans>>
  BY <1>1 DEF Reconnect, At
<1>3. r \in Workings /\ FormOk(r) /\ TablesOk
  BY <1>1, Before
<1>4. AdminPassword \in Passwords /\ n = [r EXCEPT !.con = AdminPassword, !.step = "member"]
  BY <1>1, <1>3, AdminPasswordType
<1>5. /\ n \in Workings /\ n.kind = r.kind /\ n.user = r.user /\ n.type = r.type
      /\ n.step = "member" /\ n.left = r.left /\ n.pw = r.pw /\ n.con = AdminPassword
      /\ n.dbCon = r.dbCon /\ n.alone = r.alone
  BY <1>3, <1>4 DEF Workings, Steps
<1>6. FormOk(n)
  BY <1>2, <1>3, <1>5 DEF FormOk, Creating
<1>7. CalmStep(r, n)
  BY <1>2, <1>5 DEF CalmStep, CalmWorker, Creating, OnAdmin, Syncing, Late
<1>8. AloneOk(r) => AloneOk(n)'
  BY <1>2, <1>5
  DEF AloneOk, AloneCreating, AlonePut, AloneInit, AloneSync, AloneDelete, Syncing, Late,
      Agrees, HasRow, HasRole
<1> QED BY ONLY IInv, w \in Workers, <1>1, <1>2, <1>5, <1>6, <1>7, <1>8, TellStep

LEMMA OpenStep ==
  ASSUME IInv, NEW w \in Workers, Open(w)
  PROVE  IInv'
<1>1. PICK r, n :
        /\ r = worker[w]
        /\ n = [worker[w] EXCEPT !.dbCon = AdminPassword, !.user = Authenticator,
                                 !.step = "lookup"]
  OBVIOUS
<1>2. /\ r.kind = "init" /\ r.step = "open" /\ HasRow(Admin) /\ Becomes(w, n)
      /\ UNCHANGED <<row, role, member, privs, rest, fresh, started, faults, raced,
                     settled, orphans>>
  BY <1>1 DEF Open, At
<1>3. r \in Workings /\ FormOk(r) /\ TablesOk
  BY <1>1, Before
<1>4. /\ AdminPassword \in Passwords
      /\ n = [r EXCEPT !.dbCon = AdminPassword, !.user = Authenticator, !.step = "lookup"]
  BY <1>1, <1>3, AdminPasswordType
<1>5. /\ n \in Workings /\ n.kind = r.kind /\ n.user = Authenticator /\ n.type = r.type
      /\ n.step = "lookup" /\ n.left = r.left /\ n.pw = r.pw /\ n.con = r.con
      /\ n.dbCon = AdminPassword /\ n.clean = r.clean /\ n.alone = r.alone
  BY <1>3, <1>4, NameFacts DEF Workings, Steps
<1>6. FormOk(n)
  BY <1>2, <1>3, <1>5 DEF FormOk, Creating, Reserved
<1>7. CalmStep(r, n)
  BY <1>2, <1>5 DEF CalmStep, CalmWorker, Creating, OnAdmin, Syncing, Late
<1>8. AloneOk(r) => AloneOk(n)'
  BY <1>2, <1>5
  DEF AloneOk, AloneCreating, AlonePut, AloneInit, AloneSync, AloneDelete, Syncing, Late,
      Agrees, HasRow, HasRole, Opens, AdminPassword
<1> QED BY ONLY IInv, w \in Workers, <1>1, <1>2, <1>5, <1>6, <1>7, <1>8, TellStep

LEMMA ReadStep ==
  ASSUME IInv, NEW w \in Workers, Read(w)
  PROVE  IInv'
<1>1. PICK r, n : r = worker[w] /\ n = [worker[w] EXCEPT !.step = "retype"]
  OBVIOUS
<1>2. /\ r.kind = "patch" /\ r.step = "read" /\ Becomes(w, n)
      /\ UNCHANGED <<row, role, member, privs, rest, fresh, started, faults, raced,
                     settled, orphans>>
  BY <1>1 DEF Read, At, Goto
<1>3. r \in Workings /\ FormOk(r) /\ n = [r EXCEPT !.step = "retype"]
  BY <1>1, Before
<1>4. /\ n \in Workings /\ n.kind = r.kind /\ n.user = r.user /\ n.type = r.type
      /\ n.step = "retype" /\ n.left = r.left /\ n.pw = r.pw /\ n.con = r.con
      /\ n.dbCon = r.dbCon /\ n.alone = r.alone
  BY <1>3 DEF Workings, Steps
<1>5. FormOk(n)
  BY <1>2, <1>3, <1>4 DEF FormOk, Creating
<1>6. CalmStep(r, n)
  BY <1>2, <1>4 DEF CalmStep, CalmWorker, Creating, OnAdmin, Syncing
<1>7. AloneOk(n)'
  BY <1>2, <1>4
  DEF AloneOk, AloneCreating, AlonePut, AloneInit, AloneSync, AloneDelete, Syncing
<1> QED BY ONLY IInv, w \in Workers, <1>1, <1>2, <1>4, <1>5, <1>6, <1>7, TellStep

LEMMA OpenForDeleteStep ==
  ASSUME IInv, NEW w \in Workers, OpenForDelete(w)
  PROVE  IInv'
<1>1. PICK r, n : /\ r = worker[w]
                  /\ n = [worker[w] EXCEPT !.con = AdminPassword, !.step = "databases"]
  OBVIOUS
<1>2. /\ r.kind = "delete" /\ r.step = "open" /\ Becomes(w, n)
      /\ UNCHANGED <<row, role, member, privs, rest, fresh, started, faults, raced,
                     settled, orphans>>
  BY <1>1 DEF OpenForDelete, At
<1>3. r \in Workings /\ FormOk(r) /\ TablesOk
  BY <1>1, Before
<1>4. AdminPassword \in Passwords /\ n = [r EXCEPT !.con = AdminPassword, !.step = "databases"]
  BY <1>1, <1>3, AdminPasswordType
<1>5. /\ n \in Workings /\ n.kind = r.kind /\ n.user = r.user /\ n.type = r.type
      /\ n.step = "databases" /\ n.left = r.left /\ n.pw = r.pw /\ n.con = AdminPassword
      /\ n.dbCon = r.dbCon /\ n.alone = r.alone
  BY <1>3, <1>4 DEF Workings, Steps
<1>6. FormOk(n)
  BY <1>2, <1>3, <1>5 DEF FormOk, Creating
<1>7. CalmStep(r, n)
  BY <1>2, <1>5 DEF CalmStep, CalmWorker, Creating, OnAdmin, Syncing
<1>8. AloneOk(n)'
  BY <1>2, <1>5
  DEF AloneOk, AloneCreating, AlonePut, AloneInit, AloneSync, AloneDelete, Syncing
<1> QED BY ONLY IInv, w \in Workers, <1>1, <1>2, <1>5, <1>6, <1>7, <1>8, TellStep

LEMMA ListDatabasesStep ==
  ASSUME IInv, NEW w \in Workers, ListDatabases(w)
  PROVE  IInv'
<1>1. PICK r, n :
        /\ r = worker[w]
        /\ n = [worker[w] EXCEPT !.dbs = Databases \cup {Postgres}, !.step = "revoke"]
  OBVIOUS
<1>2. /\ r.kind = "delete" /\ r.step = "databases" /\ Becomes(w, n) /\ Opens(r.con)
      /\ UNCHANGED <<row, role, member, privs, rest, fresh, started, faults, raced,
                     settled, orphans>>
  BY <1>1 DEF ListDatabases, At
<1>3. /\ r \in Workings /\ FormOk(r)
      /\ n = [r EXCEPT !.dbs = Databases \cup {Postgres}, !.step = "revoke"]
  BY <1>1, Before
<1>4. /\ n \in Workings /\ n.kind = r.kind /\ n.user = r.user /\ n.type = r.type
      /\ n.step = "revoke" /\ n.left = r.left /\ n.pw = r.pw /\ n.con = r.con
      /\ n.dbCon = r.dbCon /\ n.alone = r.alone /\ n.dbs = Databases \cup {Postgres}
  BY <1>3 DEF Workings, Steps
<1>5. FormOk(n)
  BY <1>2, <1>3, <1>4 DEF FormOk, Creating
<1>6. CalmStep(r, n)
  BY <1>2, <1>4 DEF CalmStep, CalmWorker, Creating, OnAdmin, Syncing
<1>7. AloneOk(n)'
  <2>1. AloneDelete(n)'
    BY <1>2, <1>4 DEF AloneDelete, Opens, HasRole
  <2> QED BY <1>2, <1>4, <2>1
    DEF AloneOk, AloneCreating, AlonePut, AloneInit, AloneSync, Syncing
<1> QED BY ONLY IInv, w \in Workers, <1>1, <1>2, <1>4, <1>5, <1>6, <1>7, TellStep

LEMMA ListStep ==
  ASSUME IInv, NEW w \in Workers, List(w)
  PROVE  IInv'
<1>1. PICK r, L, n :
        /\ r = worker[w] /\ L = {<<u, row[u].password>> : u \in Listed(r)}
        /\ n = [r EXCEPT !.step = "pick", !.left = L]
  OBVIOUS
<1>2. /\ r.kind = "sync" /\ r.step = "list" /\ Becomes(w, n)
      /\ UNCHANGED <<row, role, member, privs, rest, fresh, started, faults, raced,
                     settled, orphans>>
  BY <1>1 DEF List, At
<1>3. /\ r \in Workings /\ WorkerOk(r) /\ FormOk(r) /\ TablesOk
      /\ fresh \in Nat /\ fresh \in 0 .. MaxPasswords /\ privs \in [Names -> SUBSET Privileges]
  BY <1>1, Before
<1>4. /\ L \in SUBSET (Names \X Passwords) /\ \A t \in L : t[2] <= fresh /\ HasRow(t[1])
      /\ \A u \in Listed(r) : \E t \in L : t[1] = u
  <2>1. ASSUME NEW u \in Listed(r)
        PROVE  u \in Names /\ HasRow(u) /\ row[u].password \in Passwords
               /\ row[u].password <= fresh
    <3>1. u \in Names /\ HasRow(u)
      BY DEF Listed
    <3>2. row[u] \in Rows /\ row[u].password <= fresh
      BY <1>3, <3>1 DEF TablesOk, HasRow
    <3> QED BY <3>1, <3>2 DEF Rows
  <2>2. ASSUME NEW t \in L
        PROVE  t \in Names \X Passwords /\ t[2] <= fresh /\ HasRow(t[1])
    <3>1. PICK u \in Listed(r) : t = <<u, row[u].password>>
      BY <1>1
    <3> QED BY <2>1, <3>1
  <2>3. ASSUME NEW u \in Listed(r) PROVE \E t \in L : t[1] = u
    <3>1. <<u, row[u].password>> \in L
      BY <1>1
    <3> QED BY <3>1
  <2> QED BY <2>2, <2>3
<1>5. /\ n \in Workings /\ n.kind = r.kind /\ n.user = r.user /\ n.type = r.type
      /\ n.step = "pick" /\ n.left = L /\ n.pw = r.pw /\ n.con = r.con
      /\ n.dbCon = r.dbCon /\ n.alone = r.alone /\ n.update = r.update /\ n.hard = r.hard
  <2>1. n = [r EXCEPT !.step = "pick", !.left = L] /\ L \in SUBSET (Names \X Passwords)
    BY <1>1, <1>4
  <2> QED BY <1>3, <2>1 DEF Workings, Steps
<1>6. WorkerOk(n)'
  <2>1. FormOk(n)
    BY <1>2, <1>3, <1>5 DEF FormOk, Creating, InSync
  <2> QED BY <1>2, <1>3, <1>4, <1>5, <2>1 DEF WorkerOk
<1>7. CalmStep(r, n)
  BY <1>2, <1>4, <1>5 DEF CalmStep, CalmWorker, Creating, OnAdmin, Syncing
<1>8. AloneOk(n)'
  <2>1. \A t \in n.left : HasRow(t[1])'
    BY <1>2, <1>4, <1>5 DEF HasRow
  <2>2. \A u \in Names : (u \in Listed(n))' => Left(n, u)
    BY <1>2, <1>4, <1>5 DEF Listed, HasRow, Left
  <2>3. r.hard /\ HasRow(Authenticator) => Left(n, Authenticator)
    <3>1. r.hard /\ HasRow(Authenticator) => Authenticator \in Listed(r)
      BY <1>3, NameFacts DEF Listed, TablesOk
    <3> QED BY <1>4, <1>5, <3>1 DEF Left
  <2>4. AloneSync(n)'
    BY <1>2, <1>5, <2>1, <2>2, <2>3 DEF AloneSync, HasRow, Left
  <2> QED BY <1>2, <1>5, <2>4
    DEF AloneOk, AloneCreating, AlonePut, AloneInit, AloneDelete
<1>9. fresh <= fresh'
  BY <1>2, <1>3
<1> QED BY ONLY IInv, w \in Workers, <1>1, <1>2, <1>3, <1>5, <1>6, <1>7, <1>8, <1>9, QuietStep

LEMMA RevokeStep ==
  ASSUME IInv, NEW w \in Workers, Revoke(w)
  PROVE  IInv'
<1>1. PICK r, n, c : /\ r = worker[w] /\ n = [r EXCEPT !.step = "drop"] /\ c \in Databases
                     /\ privs' = [privs EXCEPT ![r.user] = privs[r.user] \ {<<c, "schemas">>}]
  BY DEF Revoke
<1>2. /\ r.kind = "delete" /\ r.step = "revoke" /\ Becomes(w, n)
      /\ Opens(r.con) /\ HasRole(r.user) /\ HasRow(Admin)
      /\ UNCHANGED <<row, role, member, rest, fresh, started, faults, raced, settled, orphans>>
  BY <1>1 DEF Revoke, At, Goto
<1>3. /\ r \in Workings /\ WorkerOk(r) /\ FormOk(r) /\ TablesOk
      /\ fresh \in Nat /\ fresh \in 0 .. MaxPasswords /\ privs \in [Names -> SUBSET Privileges]
  BY <1>1, Before
<1>4. /\ n \in Workings /\ n.kind = r.kind /\ n.user = r.user /\ n.type = r.type
      /\ n.step = "drop" /\ n.left = r.left /\ n.pw = r.pw /\ n.con = r.con
      /\ n.dbCon = r.dbCon /\ n.alone = r.alone /\ n.dbs = r.dbs /\ n.clean = r.clean
  BY <1>1, <1>3 DEF Workings, Steps
<1>5. WorkerOk(n)'
  <2>1. FormOk(n)
    BY <1>2, <1>3, <1>4 DEF FormOk, Creating
  <2> QED BY <1>2, <1>3, <1>4, <2>1, KeepsBounds
<1>6. r.user \in Names /\ privs' \in [Names -> SUBSET Privileges]
      /\ privs'[r.user] = privs[r.user] \ {<<c, "schemas">>}
  BY <1>1, <1>2, <1>3, NameFacts DEF FormOk
<1>7. CalmStep(r, n)
  BY <1>2, <1>4 DEF CalmStep, CalmWorker, Creating, OnAdmin, Syncing
<1>8. ASSUME r.alone PROVE AloneOk(n)'
  <2>1. AloneDelete(r)
    BY <1>1, <1>2, <1>8, Before DEF AloneOk
  <2>2. AloneDelete(n)'
    <3> SUFFICES ASSUME NEW d, Databases = {d}, n.clean
                 PROVE  Opens(n.con)' /\ HasRole(n.user)' /\ d \in n.dbs
                        /\ <<d, "schemas">> \notin privs'[n.user]
      BY <1>4 DEF AloneDelete
    <3>1. c = d
      BY <1>1
    <3>2. d \in r.dbs
      BY <1>2, <1>4, <2>1 DEF AloneDelete
    <3> QED BY <1>2, <1>4, <1>6, <3>1, <3>2 DEF Opens, HasRole
  <2> QED BY <1>2, <1>4, <2>2
    DEF AloneOk, AloneCreating, AlonePut, AloneInit, AloneSync, Syncing
<1>9. fresh <= fresh'
  BY <1>2, <1>3
<1> QED BY ONLY IInv, w \in Workers, <1>1, <1>2, <1>3, <1>4, <1>5, <1>6, <1>7, <1>8, <1>9, QuietStep

-----------------------------------------------------------------------------
(* What goes wrong.                                                        *)

\* A request that ends, or a failure that ends one: its worker is idle again.
LEMMA IdleWorker ==
  ASSUME TablesOk, fresh' = fresh
  PROVE  WorkerOk(Idle)' /\ CalmWorker(Idle)
<1>1. fresh \in Nat /\ Fixed <= fresh
  BY BoundsAssumption DEF TablesOk, Fixed
<1>2. WorkerOk(Idle)'
  BY <1>1, IdleFacts DEF WorkerOk
<1>3. CalmWorker(Idle)
  BY IdleFacts DEF CalmWorker, Creating, OnAdmin, Syncing
<1> QED BY <1>2, <1>3

\* After a failure nothing is calm, and an answer tells of the failure.
LEMMA FaultStep ==
  ASSUME IInv, NEW w \in Workers, NEW n, Becomes(w, n),
         NEW r, r = worker[w], r.kind # "idle",
         n.kind = "idle" \/ n.alone = r.alone,
         UNCHANGED <<row, role, member, privs, rest, fresh, started, raced, orphans>>,
         faults < MaxFaults, faults' = faults + 1,
         WorkerOk(n)',
         r.alone /\ n.kind # "idle" => AloneOk(n)',
         \/ settled' = settled
         \/ /\ n.kind = "idle" /\ settled' \in Answers \cup {None}
            /\ settled' # None => r.alone /\ Kept'
  PROVE  IInv'
<1>1. n \in Workings /\ faults \in Nat /\ fresh \in Nat
  BY BoundsAssumption DEF WorkerOk, IInv, Typed, TablesOk
<1>2. Typed'
  <2>1. TablesOk'
    BY <1>1, BoundsAssumption DEF IInv, Typed, TablesOk, HasRow, HasRole
  <2>2. settled' \in Answers \cup {None}
    BY DEF IInv, Typed
  <2>3. fresh <= fresh'
    BY <1>1
  <2> QED BY <1>1, <2>1, <2>2, <2>3, StepTyped DEF IInv
<1>3. Company' /\ (settled' = settled => settled' = None)
  BY <1>1, StepCompany DEF IInv
<1>4. Calm'
  BY <1>1 DEF Calm
<1>5. Alone'
  BY <1>1, StepAlone DEF IInv
<1>6. Kept'
  BY <1>3, NothingKept
<1> QED BY <1>2, <1>3, <1>4, <1>5, <1>6 DEF IInv

\* Where Reject leads from r to n.
Rejected(r, n) ==
  \/ n = Idle /\ settled' = settled
  \/ /\ r.kind = "init" /\ n.kind = "init" /\ n.user = Public /\ settled' = settled
     /\ r.user = Admin /\ n.step = "lookup"
  \/ /\ r.kind = "init" /\ n.kind = "init" /\ n.user = Public /\ settled' = settled
     /\ r.user = Public /\ r.step \notin {"open", "member"} /\ n.step = "open"
  \/ /\ r.kind = "delete" /\ n.kind = "delete" /\ n.user = r.user /\ settled' = settled
     /\ r.step \in {"revoke", "drop"} /\ n.step \in {"revoke", "forget"} /\ n.con = r.con

\* The branches of Reject, for a request s whose failures are counted.
Branches(w, s) ==
  \/ /\ s.kind = "init" /\ s.user = Admin
     /\ Becomes(w, Returned(s, Public, "lookup")) /\ settled' = settled
  \/ /\ s.kind = "init" /\ s.user = Public /\ s.step \notin {"open", "member"}
     /\ Becomes(w, Returned(s, Public, "open")) /\ settled' = settled
  \/ /\ s.kind = "delete" /\ s.step \in {"revoke", "drop"}
     /\ \E d \in s.dbs : Becomes(w, NextDatabase(s, d))
     /\ settled' = settled
  \/ /\ s.kind = "delete" /\ s.step = "forget"
     /\ Becomes(w, Idle) /\ settled' = Remembered(s)
  \/ Becomes(w, Idle) /\ settled' = settled

LEMMA RejectShape ==
  ASSUME NEW w \in Workers, NEW s \in Workings, Branches(w, s), FormOk(s), s.kind # "idle"
  PROVE  \E n \in Workings :
           /\ Becomes(w, n) /\ FormOk(n) /\ n.kind \in {"idle", s.kind}
           /\ n.pw \in {s.pw, Fixed} /\ n.con \in {s.con, Fixed}
           /\ n.dbCon \in {s.dbCon, Fixed} /\ n.left \subseteq s.left
           /\ n.kind = "idle" \/ (n.alone = s.alone /\ n.clean = s.clean)
           /\ \/ Rejected(s, n)
              \/ /\ n = Idle /\ s.kind = "delete" /\ s.step = "forget"
                 /\ settled' = Remembered(s)
<1>7. ASSUME NEW step \in {"lookup", "open"}, s.kind = "init",
             Becomes(w, Returned(s, Public, step))
      PROVE  \E n \in Workings :
               /\ Becomes(w, n) /\ n.kind = "init" /\ n.user = Public /\ n.step = step
               /\ FormOk(n) /\ n.pw = Fixed /\ n.con = Fixed /\ n.dbCon = s.dbCon
               /\ n.left = s.left /\ n.alone = s.alone /\ n.clean = s.clean
  <2>1. PICK n : n = [s EXCEPT !.user = Public, !.step = step, !.found = FALSE,
                               !.pw = Fixed, !.con = Fixed]
    OBVIOUS
  <2>2. /\ n \in Workings /\ n.kind = "init" /\ n.user = Public /\ n.step = step
        /\ n.pw = Fixed /\ n.con = Fixed /\ n.dbCon = s.dbCon
        /\ n.left = s.left /\ n.alone = s.alone /\ n.clean = s.clean
    BY <1>7, <2>1, NameFacts, PasswordFacts DEF Workings, Steps
  <2>3. FormOk(n)
    BY <1>7, <2>2, NameFacts DEF FormOk, Creating
  <2>4. Becomes(w, n)
    BY <1>7, <2>1 DEF Returned
  <2> QED BY <2>2, <2>3, <2>4
<1>8. CASE s.kind = "init" /\ s.user = Admin
           /\ Becomes(w, Returned(s, Public, "lookup")) /\ settled' = settled
  BY <1>7, <1>8 DEF Rejected
<1>9. CASE s.kind = "init" /\ s.user = Public /\ s.step \notin {"open", "member"}
           /\ Becomes(w, Returned(s, Public, "open")) /\ settled' = settled
  BY <1>7, <1>9 DEF Rejected
<1>10. CASE s.kind = "delete" /\ s.step \in {"revoke", "drop"} /\ settled' = settled
            /\ \E d \in s.dbs : Becomes(w, NextDatabase(s, d))
  <2>1. PICK d, D, step, n :
          /\ d \in s.dbs /\ D = s.dbs \ {d} /\ step = (IF D = {} THEN "forget" ELSE "revoke")
          /\ n = [s EXCEPT !.dbs = D, !.step = step] /\ Becomes(w, n)
    BY <1>10 DEF NextDatabase
  <2>2. D \in SUBSET (Databases \cup {Postgres})
    BY <2>1 DEF Workings
  <2>3. step \in {"forget", "revoke"} /\ step \in Steps
    BY <2>1 DEF Steps
  <2>4. n = [s EXCEPT !.dbs = D, !.step = step]
    BY <2>1
  <2>5. /\ n \in Workings /\ n.kind = s.kind /\ n.user = s.user /\ n.step = step
        /\ n.pw = s.pw /\ n.con = s.con /\ n.dbCon = s.dbCon
        /\ n.left = s.left /\ n.alone = s.alone /\ n.clean = s.clean
    BY <2>2, <2>3, <2>4 DEF Workings
  <2>6. FormOk(n)
    BY <1>10, <2>3, <2>5 DEF FormOk, Creating
  <2>7. Rejected(s, n)
    BY <1>10, <2>3, <2>5 DEF Rejected
  <2> QED BY ONLY <2>1, <2>5, <2>6, <2>7
<1>11. CASE s.kind = "delete" /\ s.step = "forget" /\ Becomes(w, Idle)
            /\ settled' = Remembered(s)
  BY <1>11, IdleFacts
<1>12. CASE Becomes(w, Idle) /\ settled' = settled
  BY <1>12, IdleFacts DEF Rejected
<1> QED BY <1>8, <1>9, <1>10, <1>11, <1>12 DEF Branches

\* A refusal that is nobody's fault.
LEMMA RefusalStep ==
  ASSUME IInv, NEW w \in Workers, Reject(w, TRUE),
         NEW r, r = worker[w], r.kind # "idle",
         UNCHANGED <<row, role, member, privs, rest, fresh, started, faults, raced, orphans>>,
         r.step \notin {"save", "forget"},
         faults = 0 /\ ~ raced /\ CalmWorker(r) => ~ Syncing(r, {"probe", "apply"}),
         r.alone /\ AloneOk(r) /\ r.kind = "init" /\ r.clean /\ r.user = Public
           /\ r.step \notin {"open", "member"} => Agrees(Public) \/ ~ Opens(AdminPassword),
         \A d : r.alone /\ AloneOk(r) /\ Databases = {d} /\ r.kind = "delete" /\ r.clean
           /\ r.step \in {"revoke", "drop"} /\ HasRow(Admin) => Opens(r.con) /\ ~ HasRole(r.user)
  PROVE  IInv'
<1>1. r \in Workings /\ FormOk(r)
  BY Before
<1>2. PICK n \in Workings :
        /\ Becomes(w, n) /\ FormOk(n) /\ n.kind \in {"idle", r.kind}
        /\ n.pw \in {r.pw, Fixed} /\ n.con \in {r.con, Fixed}
        /\ n.dbCon \in {r.dbCon, Fixed} /\ n.left \subseteq r.left
        /\ n.kind = "idle" \/ (n.alone = r.alone /\ n.clean = r.clean)
        /\ Rejected(r, n)
  <2>1. PICK s : s = [worker[w] EXCEPT !.clean = worker[w].clean /\ TRUE]
    OBVIOUS
  <2>2. r = s
    <3>1. r.clean \in BOOLEAN
      BY <1>1 DEF Workings
    <3>2. (r.clean /\ TRUE) = r.clean
      BY <3>1
    <3>3. s = [r EXCEPT !.clean = r.clean]
      BY <2>1, <3>2
    <3> QED BY <1>1, <3>3 DEF Workings
  <2>3. Branches(w, s)
    BY <2>1, Zenon DEF Reject, Branches
  <2> QED BY <1>1, <2>2, <2>3, RejectShape
<1>3. settled' = settled
  BY <1>2 DEF Rejected
<1>4. /\ n.kind \in {"put", "init"} => n.kind = "init" /\ n.step \in {"lookup", "open"}
      /\ n.kind \notin {"sync", "patch"}
  BY <1>2, IdleFacts DEF Rejected
<1>5. ASSUME faults = 0, ~ raced, CalmWorker(r) PROVE CalmStep(r, n)
  BY <1>4, <1>5 DEF CalmStep, CalmWorker, Creating, OnAdmin, Syncing, Late
<1>6. ASSUME r.alone, AloneOk(r), n.kind # "idle" PROVE AloneOk(n)'
  <2>1. AloneInit(n)'
    <3> SUFFICES ASSUME n.kind = "init", n.clean PROVE AloneInit(n)'
      BY DEF AloneInit
    <3>1. n.user = Public /\ n.step \in {"lookup", "open"}
      BY <1>2, <1>6, IdleFacts DEF Rejected
    <3>2. n.step = "open" => Agrees(Public) \/ ~ Opens(AdminPassword)
      BY <1>2, <1>6, IdleFacts DEF Rejected
    <3> QED BY <3>1, <3>2, NameFacts
      DEF AloneInit, Agrees, HasRow, HasRole, Opens, AdminPassword
  <2>2. AloneDelete(n)'
    <3> SUFFICES ASSUME NEW d, Databases = {d}, n.kind = "delete", n.clean, HasRow(Admin)
                 PROVE  Opens(n.con) /\ ~ HasRole(n.user) /\ n.step \in {"revoke", "forget"}
      BY DEF AloneDelete, Opens, HasRole, HasRow
    <3>1. /\ r.kind = "delete" /\ r.step \in {"revoke", "drop"} /\ r.clean
          /\ n.con = r.con /\ n.user = r.user /\ n.step \in {"revoke", "forget"}
      BY <1>2, <1>6, IdleFacts DEF Rejected
    <3> QED BY <1>6, <3>1
  <2> QED BY <1>4, <2>1, <2>2 DEF AloneOk, AloneCreating, AlonePut, AloneSync, Syncing, Late
<1> QED BY ONLY IInv, w \in Workers, r = worker[w], r.kind # "idle",
  UNCHANGED <<row, role, member, privs, rest, fresh, started, faults, raced, orphans>>,
  <1>2, <1>3, <1>5, <1>6, TellStep

LEMMA DuplicateRowStep ==
  ASSUME IInv, NEW w \in Workers, DuplicateRow(w)
  PROVE  IInv'
<1>1. PICK r : r = worker[w]
  OBVIOUS
<1>2. /\ r.kind \in {"put", "init"} /\ r.step = "write" /\ ~ r.found /\ HasRow(r.user)
      /\ Reject(w, TRUE)
      /\ UNCHANGED <<row, role, member, privs, rest, fresh, started, faults, raced, orphans>>
  BY <1>1 DEF DuplicateRow, At
<1>3. ~ Syncing(r, {"probe", "apply"})
  BY <1>2 DEF Syncing
<1>4. ~ AloneOk(r)
  BY <1>2 DEF AloneOk, AloneCreating
<1> QED BY ONLY IInv, w \in Workers, <1>1, <1>2, <1>3, <1>4, RefusalStep

LEMMA RefusedStep ==
  ASSUME IInv, NEW w \in Workers, Refused(w)
  PROVE  IInv'
<1>1. PICK r : r = worker[w] /\ r.kind # "idle"
  <2>1. worker[w].step # "lookup"
    BY DEF Refused
  <2> QED BY <2>1, Before DEF FormOk
<1>2. /\ Reject(w, TRUE)
      /\ UNCHANGED <<row, role, member, privs, rest, fresh, started, faults, raced, orphans>>
  BY DEF Refused
<1>3. r \in Workings /\ FormOk(r)
  BY <1>1, Before
<1>4. \/ r.step = "write" /\ r.found /\ ~ MayBecome(r.user, TypeOf(r))
      \/ r.step \in {"probe", "apply"} /\ r.kind \in {"put", "init", "sync"} /\ ~ Reaches(r)
      \/ r.step = "apply" /\ r.kind \in {"put", "init", "sync"} /\ r.found # HasRole(r.user)
      \/ r.step \in {"member", "open", "read", "databases"}
      \/ r.kind = "delete" /\ r.step = "revoke"
         /\ ~ (Opens(r.con) /\ HasRole(r.user) /\ HasRow(Admin))
      \/ r.kind = "delete" /\ r.step = "drop" /\ ~ (Opens(r.con) /\ HasRole(r.user))
  BY <1>1 DEF Refused
<1>5. r.step \notin {"save", "forget"}
  BY <1>4
<1>6. CalmWorker(r) => ~ Syncing(r, {"probe", "apply"})
  BY <1>3, <1>4 DEF CalmWorker, Syncing, Reaches
<1>7. ASSUME AloneOk(r), r.kind = "init", r.user = Public, r.step \notin {"open", "member"}
      PROVE  Agrees(Public) \/ ~ Opens(AdminPassword)
  <2>1. r.step \notin {"read", "databases", "revoke", "drop"}
    BY <1>3, <1>7 DEF FormOk, Late
  <2>2. MayBecome(r.user, TypeOf(r))
    BY <1>7, NameFacts DEF MayBecome, TypeOf
  <2>3. r.step = "apply" => r.found = HasRole(r.user) /\ Reaches(r)
    BY <1>7 DEF AloneOk, AloneCreating, Reaches
  <2>4. r.step = "probe" /\ ~ Reaches(r)
    BY <1>4, <1>7, <2>1, <2>2, <2>3
  <2> QED BY <1>7, <2>4 DEF AloneOk, AloneCreating, Reaches
<1>8. ASSUME NEW d, AloneOk(r), Databases = {d}, r.kind = "delete", r.clean,
             r.step \in {"revoke", "drop"}, HasRow(Admin)
      PROVE  Opens(r.con) /\ ~ HasRole(r.user)
  BY <1>4, <1>8 DEF AloneOk, AloneDelete
<1> QED BY ONLY IInv, w \in Workers, <1>1, <1>2, <1>5, <1>6, <1>7, <1>8, RefusalStep

LEMMA FailStep ==
  ASSUME IInv, NEW w \in Workers, Fail(w)
  PROVE  IInv'
<1>1. PICK r, s : /\ r = worker[w] /\ s = [worker[w] EXCEPT !.clean = worker[w].clean /\ FALSE]
  OBVIOUS
<1>2. /\ r.kind # "idle" /\ faults < MaxFaults /\ faults' = faults + 1 /\ Reject(w, FALSE)
      /\ UNCHANGED <<row, role, member, privs, rest, fresh, started, raced, orphans>>
  BY <1>1 DEF Fail
<1>3. r \in Workings /\ WorkerOk(r) /\ FormOk(r) /\ TablesOk
  BY <1>1, Before
<1>4. s = [r EXCEPT !.clean = FALSE]
  BY <1>1
<1>5. /\ s \in Workings /\ s.kind = r.kind /\ s.user = r.user /\ s.type = r.type
      /\ s.step = r.step /\ s.left = r.left /\ s.dbs = r.dbs /\ s.pw = r.pw /\ s.con = r.con
      /\ s.dbCon = r.dbCon /\ s.clean = FALSE /\ s.alone = r.alone /\ s.found = r.found
  BY <1>3, <1>4 DEF Workings
<1>6. FormOk(s)
  BY <1>3, <1>5 DEF FormOk, Creating
<1>7. Branches(w, s)
  BY <1>1, <1>2, Zenon DEF Reject, Branches
<1>8. PICK n \in Workings :
        /\ Becomes(w, n) /\ FormOk(n) /\ n.kind \in {"idle", s.kind}
        /\ n.pw \in {s.pw, Fixed} /\ n.con \in {s.con, Fixed}
        /\ n.dbCon \in {s.dbCon, Fixed} /\ n.left \subseteq s.left
        /\ n.kind = "idle" \/ (n.alone = s.alone /\ n.clean = s.clean)
        /\ \/ Rejected(s, n)
           \/ /\ n = Idle /\ s.kind = "delete" /\ s.step = "forget"
              /\ settled' = Remembered(s)
  BY <1>2, <1>5, <1>6, <1>7, RejectShape
<1>9. WorkerOk(n)'
  BY <1>2, <1>3, <1>5, <1>8, KeepsBounds
<1>10. ASSUME n.kind # "idle" PROVE AloneOk(n)' /\ n.alone = r.alone
  <2>1. /\ n.kind \in {"put", "init"} => n.step \in {"lookup", "open"} /\ n.kind # "put"
        /\ n.kind \notin {"sync", "patch"} /\ n.clean = FALSE
    BY <1>5, <1>8, <1>10, IdleFacts DEF Rejected
  <2> QED BY <1>5, <1>8, <1>10, <2>1
    DEF AloneOk, AloneCreating, AlonePut, AloneInit, AloneSync, AloneDelete, Syncing, Late
<1>11. \/ settled' = settled
       \/ /\ n.kind = "idle" /\ settled' \in Answers \cup {None}
          /\ settled' # None => r.alone /\ Kept'
  <2>1. CASE Rejected(s, n)
    BY <2>1 DEF Rejected
  <2>2. CASE n = Idle /\ s.kind = "delete" /\ s.step = "forget" /\ settled' = Remembered(s)
    <3>1. settled' \in Answers \cup {None} /\ (settled' # None => s.alone)
      BY <1>5, <2>2, RememberedType
    <3>2. settled' # None => settled'.kind = "delete" /\ settled'.clean = FALSE
      BY <1>5, <2>2 DEF Remembered
    <3>3. Kept'
      BY <3>2 DEF Kept, Ready, SyncRepairs, DeleteForgets, Settled
    <3> QED BY <1>5, <2>2, <3>1, <3>3, IdleFacts
  <2> QED BY <1>8, <2>1, <2>2
<1> QED BY ONLY IInv, w \in Workers, <1>1, <1>2, <1>8, <1>9, <1>10, <1>11, FaultStep

LEMMA CrashStep ==
  ASSUME IInv, NEW w \in Workers, Crash(w)
  PROVE  IInv'
<1>1. PICK r : r = worker[w]
  OBVIOUS
<1>2. /\ r.kind # "idle" /\ faults < MaxFaults /\ faults' = faults + 1 /\ Becomes(w, Idle)
      /\ UNCHANGED <<row, role, member, privs, rest, fresh, started, raced, settled, orphans>>
  BY <1>1 DEF Crash
<1>3. WorkerOk(Idle)' /\ Idle.kind = "idle"
  BY <1>2, IdleWorker, IdleFacts DEF IInv, Typed
<1>4. PICK n : n = Idle
  OBVIOUS
<1>5. Becomes(w, n) /\ WorkerOk(n)' /\ n.kind = "idle"
  BY <1>2, <1>3, <1>4 DEF WorkerOk
<1> QED BY ONLY IInv, w \in Workers, <1>1, <1>2, <1>5, FaultStep

-----------------------------------------------------------------------------
(* Steps that change the tables.                                           *)

LEMMA FullStep ==
  ASSUME IInv, NEW w \in Workers, NEW n, Becomes(w, n),
         NEW r, r = worker[w], r.kind # "idle",
         n.kind = "idle" \/ n.alone = r.alone,
         TablesOk', fresh <= fresh', WorkerOk(n)', Calm',
         \/ settled' = settled
         \/ n.kind = "idle" /\ settled' = Remembered(r) /\ (r.alone => Kept'),
         r.alone /\ n.kind # "idle" => AloneOk(n)'
  PROVE  IInv'
<1>1. n \in Workings /\ r \in Workings
  BY Before DEF WorkerOk
<1>2. /\ Remembered(r) \in Answers \cup {None}
      /\ Remembered(r) # None => r.alone
      /\ ~ r.alone => Remembered(r) = None
  BY <1>1, RememberedType DEF Remembered
<1>3. Typed'
  <2>1. settled' \in Answers \cup {None}
    BY <1>2 DEF IInv, Typed
  <2> QED BY <1>1, <2>1, StepTyped DEF IInv
<1>4. Company' /\ (settled' = settled => settled' = None)
  BY <1>1, <1>2, StepCompany DEF IInv
<1>5. Alone'
  BY <1>1, StepAlone DEF IInv
<1>6. Kept'
  BY <1>2, <1>4, NothingKept
<1> QED BY <1>3, <1>4, <1>5, <1>6 DEF IInv

LEMMA WriteCalm ==
  ASSUME IInv, Calm, NEW w \in Workers, NEW n \in Workings, NEW r, r = worker[w], Becomes(w, n),
         r.kind \in {"put", "init"}, r.step = "write",
         n.kind = r.kind, n.user = r.user, n.step = "connect",
         role' = role, orphans' = orphans, faults' = faults, raced' = raced,
         r.user = Admin => n.pw = fresh + 1,
         r.user # Admin => n.pw = r.pw,
         HasRow(r.user)',
         ~ r.found => ~ HasRow(r.user) /\ row'[r.user].password = r.pw,
         \A u \in Names : HasRow(u) => HasRow(u)' /\ row'[u].password = row[u].password,
         \A u \in Names : u # r.user => row'[u] = row[u]
  PROVE  Calm'
<1> SUFFICES ASSUME faults = 0, ~ raced
             PROVE  Separate' /\ CalmState' /\ CalmPairs'
                    /\ \A v \in Workers : CalmWorker(worker[v])'
  BY DEF Calm
<1>1. /\ worker'[w] = n
      /\ \A v \in Workers : v # w => worker'[v] = worker[v]
  BY Moved DEF IInv, Typed
<1>2. Separate /\ CalmState /\ CalmPairs /\ \A v \in Workers : CalmWorker(worker[v])
  BY DEF Calm
<1>3. r \in Workings /\ WorkerOk(r) /\ FormOk(r) /\ fresh \in Nat /\ TablesOk /\ Typed
  BY Before DEF IInv
<1>4. r.user \in Names /\ (r.user \in {Admin, Public} => r.pw = Fixed)
  BY <1>3, NameFacts DEF FormOk, Creating
<1>5. Separate'
  BY <1>2, <1>3, StepSeparate
<1>6. \A v \in Workers : worker[v].kind # "sync"
  BY <1>2 DEF Separate, Busy
<1>7. \A u : ~ Probing(u) /\ ~ Probing(u)'
  <2>1. \A v \in Workers : worker'[v].kind # "sync"
    BY <1>1, <1>6
  <2> QED BY <1>6, <2>1 DEF Probing, Syncing
<1>8. Saving => Saving'
  <2> SUFFICES ASSUME NEW v \in Workers, OnAdmin(worker[v], {"save"})
               PROVE  OnAdmin(worker'[v], {"save"})
    BY DEF Saving, OnAdmin
  <2> QED BY <1>1 DEF OnAdmin
<1>9. r.user = Admin => /\ n.pw # Fixed /\ row'[Admin].password # n.pw
                        /\ row'[Admin].password <= fresh
  <2> SUFFICES ASSUME r.user = Admin PROVE row'[Admin].password <= fresh /\ fresh + 1 # Fixed
                                           /\ row'[Admin].password # fresh + 1
    OBVIOUS
  <2>1. r.pw \in Nat /\ r.pw <= fresh
    BY <1>3, PasswordFacts DEF WorkerOk, Workings
  <2>2. HasRow(Admin) => row[Admin].password \in Nat /\ row[Admin].password <= fresh
    <3>1. HasRow(Admin) => row[Admin] \in Rows /\ row[Admin].password <= fresh
      BY <1>3, NameFacts DEF TablesOk, HasRow
    <3> QED BY <3>1, PasswordFacts DEF Rows
  <2>3. row'[Admin].password \in Nat /\ row'[Admin].password <= fresh
    <3>1. CASE HasRow(Admin)
      BY <2>2, <3>1, NameFacts
    <3>2. CASE ~ HasRow(Admin)
      <4>1. ~ r.found
        BY <1>2, <3>2 DEF CalmWorker, Creating
      <4> QED BY <2>1, <4>1
    <3> QED BY <3>1, <3>2
  <2> QED BY <1>3, <2>3 DEF Fixed
<1>10. r.user # Admin => row'[r.user].password = n.pw
  <2>1. CASE r.found
    <3>1. r.user # Admin => HasRow(r.user) /\ row[r.user].password = r.pw
      BY <1>2, <2>1 DEF CalmWorker, Creating
    <3> QED BY <1>4, <3>1
  <2>2. CASE ~ r.found
    BY <2>2
  <2> QED BY <2>1, <2>2
<1>11. CalmWorker(n)'
  BY <1>9, <1>10 DEF CalmWorker, Creating, OnAdmin, Syncing, Late, HasRow
<1>12. \A v \in Workers : CalmWorker(worker[v])'
  BY <1>2, <1>3, <1>11, StepWorkers
<1>13. CalmPairs'
  <2>1. ASSUME NEW v \in Workers, v # w PROVE Apart(n, worker[v]) /\ Apart(worker[v], n)
    <3>1. CASE r.user = Admin
      <4>1. worker[v] \in Workings /\ WorkerOk(worker[v])
        BY <1>3 DEF Typed
      <4>2. /\ worker[v].pw \in Nat /\ worker[v].pw <= fresh
            /\ worker[v].con \in Nat /\ worker[v].con <= fresh
        BY <4>1, PasswordFacts DEF WorkerOk, Workings
      <4>3. n.pw = fresh + 1 /\ n.step = "connect"
        BY <3>1
      <4>4. n.pw # worker[v].pw /\ n.pw # worker[v].con
        BY <1>3, <4>2, <4>3
      <4> QED BY <4>3, <4>4 DEF Apart
    <3>2. CASE r.user # Admin
      <4>1. ~ OnAdmin(n, Late)
        BY <3>2 DEF OnAdmin
      <4> QED BY <4>1, NotOnAdmin
    <3> QED BY <3>1, <3>2
  <2> QED BY <1>2, <1>3, <2>1, StepPairs
<1>14. CalmState'
  <2>1. HasRow(Public)' => row'[Public].password = Fixed
    <3>1. CASE HasRow(Public)
      BY <1>2, <3>1, NameFacts DEF CalmState
    <3>2. CASE ~ HasRow(Public) /\ r.user # Public
      BY <3>2, NameFacts DEF HasRow
    <3>3. CASE ~ HasRow(Public) /\ r.user = Public
      <4>1. ~ r.found
        BY <1>2, <3>3 DEF CalmWorker, Creating
      <4> QED BY <1>4, <3>3, <4>1
    <3> QED BY <3>1, <3>2, <3>3
  <2>2. ASSUME NEW u \in Names \ (orphans' \cup {Admin}), HasRole(u)'
        PROVE  HasRow(u)' /\ row'[u].password = role'[u]
    <3>1. HasRow(u) /\ row[u].password = role[u]
      BY <1>2, <1>7, <2>2 DEF CalmState, HasRole
    <3> QED BY <3>1
  <2>3. AdminPassword' = AdminPassword
    <3>1. CASE HasRow(Admin)
      BY <3>1, NameFacts DEF AdminPassword, HasRow
    <3>2. CASE ~ HasRow(Admin) /\ r.user # Admin
      BY <3>2, NameFacts DEF AdminPassword, HasRow
    <3>3. CASE ~ HasRow(Admin) /\ r.user = Admin
      <4>1. ~ r.found
        BY <1>2, <3>3 DEF CalmWorker, Creating
      <4> QED BY <1>4, <3>3, <4>1 DEF AdminPassword, HasRow
    <3> QED BY <3>1, <3>2, <3>3
  <2>4. ~ Saving' => AdminPassword' = role'[Admin]
    BY <1>2, <1>7, <1>8, <2>3 DEF CalmState
  <2> QED BY <2>1, <2>2, <2>4 DEF CalmState
<1> QED BY <1>5, <1>12, <1>13, <1>14

\* What createInstanceUser and updateType do to the table.
LEMMA WriteRow ==
  ASSUME TablesOk, NEW r \in Workings, r.user \in Names, r.pw <= fresh,
         r.found = TRUE => MayBecome(r.user, TypeOf(r)) /\ SaveType(r.user, TypeOf(r)),
         r.found = FALSE => /\ ~ HasRow(r.user)
                            /\ row' = [row EXCEPT ![r.user] =
                                            [type |-> TypeOf(r), password |-> r.pw]]
  PROVE  /\ row' \in [Names -> Rows \cup {None}]
         /\ \A u \in Names : HasRow(u) => HasRow(u)' /\ row'[u].password = row[u].password
         /\ \A u \in Names : u # r.user => row'[u] = row[u]
         /\ r.found \/ HasRow(r.user) => (HasRow(r.user)' <=> HasRow(r.user))
         /\ ~ r.found => HasRow(r.user)' /\ row'[r.user].password = r.pw
         /\ row'[r.user] # row[r.user] => row'[r.user].type = TypeOf(r)
         /\ \A u \in Names : row'[u] # row[u] => u = r.user /\ row'[u] \in Rows
<1>1. TypeOf(r) \in Types /\ r.pw \in Passwords
  BY DEF TypeOf, Types, Workings
<1>2. CASE r.found = TRUE
  <2>1. CASE HasRow(r.user)
    <3>1. row[r.user] \in Rows
      BY <2>1 DEF TablesOk, HasRow
    <3>2. PICK t, x : t = TypeOf(r) /\ x = [row[r.user] EXCEPT !.type = t]
      OBVIOUS
    <3>3. x \in Rows /\ x.type = t /\ x.password = row[r.user].password
      BY <1>1, <3>1, <3>2 DEF Rows
    <3>4. row' = [row EXCEPT ![r.user] = x]
      BY <1>2, <2>1, <3>2 DEF SaveType
    <3>5. row'[r.user] = x /\ \A u \in Names : u # r.user => row'[u] = row[u]
      BY <3>4 DEF TablesOk
    <3>6. row' \in [Names -> Rows \cup {None}]
      BY <3>3, <3>4 DEF TablesOk
    <3> QED BY <1>2, <2>1, <3>2, <3>3, <3>5, <3>6, PasswordFacts DEF HasRow
  <2>2. CASE ~ HasRow(r.user)
    <3>1. row' = row
      BY <1>2, <2>2 DEF SaveType
    <3> QED BY <1>2, <2>2, <3>1 DEF TablesOk, HasRow
  <2> QED BY <2>1, <2>2
<1>3. CASE r.found = FALSE
  <2>1. PICK x : x = [type |-> TypeOf(r), password |-> r.pw]
    OBVIOUS
  <2>2. x \in Rows /\ x.type = TypeOf(r) /\ x.password = r.pw
    BY <1>1, <2>1 DEF Rows
  <2>3. row' = [row EXCEPT ![r.user] = x] /\ ~ HasRow(r.user)
    BY <1>3, <2>1
  <2>4. row'[r.user] = x /\ \A u \in Names : u # r.user => row'[u] = row[u]
    BY <2>3 DEF TablesOk
  <2>5. row' \in [Names -> Rows \cup {None}]
    BY <2>2, <2>3 DEF TablesOk
  <2> QED BY <1>3, <2>2, <2>3, <2>4, <2>5, PasswordFacts DEF HasRow
<1>4. r.found \in BOOLEAN
  BY DEF Workings
<1> QED BY <1>2, <1>3, <1>4

LEMMA WriteStep ==
  ASSUME IInv, NEW w \in Workers, Write(w)
  PROVE  IInv'
<1>1. PICK r : r = worker[w]
  OBVIOUS
<1>2. /\ r.kind \in {"put", "init"} /\ r.step = "write"
      /\ UNCHANGED <<role, member, privs, rest, started, faults, raced, settled, orphans>>
      /\ r.found = TRUE => MayBecome(r.user, TypeOf(r)) /\ SaveType(r.user, TypeOf(r))
      /\ r.found = FALSE =>
           /\ ~ HasRow(r.user)
           /\ row' = [row EXCEPT ![r.user] =
                                            [type |-> TypeOf(r), password |-> r.pw]]
      /\ \/ /\ r.user = Admin /\ fresh < MaxPasswords /\ fresh' = fresh + 1
            /\ Becomes(w, [r EXCEPT !.pw = fresh', !.step = "connect"])
         \/ /\ r.user # Admin /\ fresh' = fresh
            /\ Becomes(w, [r EXCEPT !.step = "connect"])
  BY <1>1, Zenon DEF Write, At, Generate, Goto
<1>3. /\ r \in Workings /\ WorkerOk(r) /\ FormOk(r) /\ TablesOk
      /\ fresh \in Nat /\ fresh \in 0 .. MaxPasswords
  BY <1>1, Before
<1>4. r.user \in Names /\ r.pw <= fresh
  BY <1>2, <1>3, NameFacts DEF FormOk, WorkerOk
<1>5. PICK p, n :
        /\ p \in Passwords /\ Becomes(w, n) /\ n = [r EXCEPT !.pw = p, !.step = "connect"]
        /\ fresh' \in 0 .. MaxPasswords /\ fresh <= fresh' /\ p <= fresh'
        /\ r.user = Admin => p = fresh + 1
        /\ r.user # Admin => p = r.pw
  <2>1. CASE r.user = Admin
    <3>1. fresh' \in Passwords /\ fresh' = fresh + 1 /\ fresh' \in 0 .. MaxPasswords
          /\ fresh <= fresh' /\ fresh' <= fresh'
      BY <1>2, <1>3, <2>1, BoundsAssumption DEF Passwords, Fixed
    <3>2. Becomes(w, [r EXCEPT !.pw = fresh', !.step = "connect"])
      BY <1>2, <2>1
    <3>3. PICK p : p = fresh'
      OBVIOUS
    <3> QED BY <2>1, <3>1, <3>2, <3>3
  <2>2. CASE r.user # Admin
    <3>1. PICK n : n = [r EXCEPT !.step = "connect"] /\ Becomes(w, n)
      BY <1>2, <2>2
    <3>2. n = [r EXCEPT !.pw = r.pw, !.step = "connect"]
      BY <1>3, <3>1 DEF Workings
    <3>3. r.pw \in Passwords
      BY <1>3 DEF Workings
    <3>4. fresh' \in 0 .. MaxPasswords /\ fresh <= fresh' /\ r.pw <= fresh'
      BY <1>2, <1>3, <1>4, <2>2
    <3> QED BY <2>2, <3>1, <3>2, <3>3, <3>4
  <2> QED BY <2>1, <2>2
<1>6. /\ n \in Workings
      /\ n.kind = r.kind /\ n.user = r.user /\ n.type = r.type /\ n.step = "connect"
      /\ n.left = r.left /\ n.pw = p /\ n.con = r.con /\ n.dbCon = r.dbCon
      /\ n.clean = r.clean /\ n.alone = r.alone
  <2>1. p \in Passwords /\ n = [r EXCEPT !.pw = p, !.step = "connect"]
    BY <1>5
  <2> QED BY <1>3, <2>1 DEF Workings, Steps
<1>7. /\ row' \in [Names -> Rows \cup {None}]
      /\ \A u \in Names : HasRow(u) => HasRow(u)' /\ row'[u].password = row[u].password
      /\ \A u \in Names : u # r.user => row'[u] = row[u]
      /\ r.found \/ HasRow(r.user) => (HasRow(r.user)' <=> HasRow(r.user))
      /\ ~ r.found => HasRow(r.user)' /\ row'[r.user].password = r.pw
      /\ row'[r.user] # row[r.user] => row'[r.user].type = TypeOf(r)
      /\ \A u \in Names : row'[u] # row[u] => u = r.user /\ row'[u] \in Rows
  BY ONLY <1>2, <1>3, <1>4, WriteRow
<1>8. WorkerOk(n)'
  <2>1. FormOk(n)
    BY <1>2, <1>3, <1>6 DEF FormOk, Creating, Late
  <2>2. /\ r.con \in Nat /\ r.dbCon \in Nat /\ r.con <= fresh /\ r.dbCon <= fresh
        /\ \A t \in r.left : t[2] \in Nat /\ t[2] <= fresh
    BY <1>3, PasswordFacts DEF WorkerOk, Workings
  <2> QED BY <1>3, <1>5, <1>6, <2>1, <2>2 DEF WorkerOk
<1>9. TablesOk'
  <2>1. ASSUME NEW u \in Names, HasRow(u)' PROVE row'[u].password <= fresh'
    <3>1. CASE HasRow(u)
      <4>1. row[u] \in Rows /\ row[u].password <= fresh
        BY <1>3, <3>1 DEF TablesOk, HasRow
      <4>2. row[u].password \in Nat
        BY <4>1, PasswordFacts DEF Rows
      <4> QED BY <1>3, <1>5, <1>7, <3>1, <4>1, <4>2
    <3>2. CASE ~ HasRow(u)
      <4>1. u = r.user
        BY <1>7, <2>1, <3>2 DEF HasRow
      <4>2. ~ r.found
        BY <1>7, <2>1, <3>2, <4>1
      <4>3. r.pw \in Nat
        BY <1>3, PasswordFacts DEF Workings
      <4> QED BY <1>3, <1>4, <1>5, <1>7, <4>1, <4>2, <4>3
    <3> QED BY <3>1, <3>2
  <2>2. HasRow(Authenticator)' => row'[Authenticator].type = "PGREST"
    <3>1. CASE row'[Authenticator] = row[Authenticator]
      BY <1>3, <3>1 DEF TablesOk, HasRow
    <3>2. CASE row'[Authenticator] # row[Authenticator]
      BY <1>7, <3>2, NameFacts DEF TypeOf
    <3> QED BY <3>1, <3>2
  <2> QED BY <1>2, <1>3, <1>5, <1>7, <2>1, <2>2 DEF TablesOk, HasRole
<1>10. ASSUME faults = 0, ~ raced PROVE HasRow(r.user)' /\ Calm
  <2>1. CalmWorker(r)
    BY <1>1, <1>10, Before
  <2> QED BY <1>2, <1>4, <1>7, <2>1 DEF IInv, CalmWorker, Creating
<1>11. Calm'
  <2> SUFFICES ASSUME faults = 0, ~ raced PROVE Calm'
    BY <1>2 DEF Calm
  <2>1. ~ r.found => ~ HasRow(r.user) /\ row'[r.user].password = r.pw
    BY <1>2, <1>3, <1>7 DEF Workings
  <2>2. /\ r.user = Admin => n.pw = fresh + 1
        /\ r.user # Admin => n.pw = r.pw
    BY <1>5, <1>6
  <2>3. HasRow(r.user)' /\ Calm
    BY <1>10
  <2>4. role' = role /\ orphans' = orphans /\ faults' = faults /\ raced' = raced
    BY <1>2
  <2>5. /\ r.kind \in {"put", "init"} /\ r.step = "write" /\ n.kind = r.kind
        /\ n.user = r.user /\ n.step = "connect" /\ n \in Workings /\ Becomes(w, n)
    BY <1>2, <1>5, <1>6
  <2>6. /\ \A u \in Names : HasRow(u) => HasRow(u)' /\ row'[u].password = row[u].password
        /\ \A u \in Names : u # r.user => row'[u] = row[u]
    BY <1>7
  <2> QED BY ONLY IInv, w \in Workers, <1>1, <2>1, <2>2, <2>3, <2>4, <2>5, <2>6, WriteCalm
<1>12. ASSUME r.alone PROVE AloneOk(n)'
  <2>1. AloneOk(r)
    BY <1>1, <1>2, <1>12, Before
  <2>2. HasRow(r.user)'
    BY <1>2, <1>7, <2>1 DEF AloneOk, AloneCreating
  <2>3. AloneCreating(n)' /\ AlonePut(n)' /\ AloneSync(n)' /\ AloneDelete(n)'
    BY <1>2, <1>6, <2>2
    DEF AloneCreating, AlonePut, AloneSync, AloneDelete, Syncing, Late, HasRow
  <2>4. AloneInit(n)'
    <3> SUFFICES ASSUME n.kind = "init", n.clean, n.user = Authenticator
                 PROVE  HasRow(Admin)' /\ (Agrees(Public)' \/ ~ Opens(AdminPassword)')
      BY <1>6 DEF AloneInit
    <3>1. HasRow(Admin) /\ (Agrees(Public) \/ ~ Opens(AdminPassword))
      BY <1>6, <2>1 DEF AloneOk, AloneInit
    <3>2. row'[Admin] = row[Admin] /\ row'[Public] = row[Public]
      BY <1>6, <1>7, NameFacts
    <3> QED BY <1>2, <3>1, <3>2 DEF Agrees, HasRow, HasRole, Opens, AdminPassword
  <2> QED BY <2>3, <2>4 DEF AloneOk
<1> QED BY ONLY IInv, w \in Workers, <1>1, <1>2, <1>5, <1>6, <1>8, <1>9, <1>11, <1>12, FullStep

LEMMA ApplyCreateCalm ==
  ASSUME IInv, NEW w \in Workers, NEW n \in Workings, NEW r, r = worker[w], Becomes(w, n),
         r.kind \in {"put", "init"}, r.step = "apply", Opens(r.con),
         n.kind = r.kind, n.user = r.user, n.pw = r.pw, n.step = "save", n.con = Fixed,
         role' = [role EXCEPT ![r.user] = r.pw],
         row' = row, orphans' = orphans, faults' = faults, raced' = raced
  PROVE  Calm'
<1> SUFFICES ASSUME faults = 0, ~ raced
             PROVE  Separate' /\ CalmState' /\ CalmPairs'
                    /\ \A v \in Workers : CalmWorker(worker[v])'
  BY DEF Calm
<1>1. /\ worker'[w] = n
      /\ \A v \in Workers : v # w => worker'[v] = worker[v]
  BY Moved DEF IInv, Typed
<1>2. Separate /\ CalmState /\ CalmPairs /\ \A v \in Workers : CalmWorker(worker[v])
  BY DEF IInv, Calm
<1>3. r \in Workings /\ FormOk(r) /\ TablesOk /\ Typed
  BY Before DEF IInv
<1>4. /\ r.user \in Names /\ role \in [Names -> Passwords \cup {None}]
      /\ role'[r.user] = r.pw
      /\ \A u \in Names : u # r.user => role'[u] = role[u]
  BY <1>3, NameFacts DEF FormOk, TablesOk
<1>5. HasRow(r.user) /\ (r.user # Admin => row[r.user].password = r.pw)
      /\ (r.user = Admin => r.kind = "init" /\ r.pw # Fixed /\ row[Admin].password # r.pw)
  BY <1>2, <1>3, NameFacts DEF CalmWorker, Creating, OnAdmin, Late, FormOk
<1>6. Separate'
  BY <1>2, <1>3, StepSeparate
<1>7. \A v \in Workers : worker[v].kind # "sync" /\ worker'[v].kind # "sync"
  BY <1>1, <1>2 DEF Separate, Busy
<1>8. \A u : ~ Probing(u) /\ ~ Probing(u)'
  BY <1>7 DEF Probing, Syncing
<1>9. r.user = Admin => \A v \in Workers : v # w => ~ OnAdmin(worker[v], {"save"})
  <2> SUFFICES ASSUME r.user = Admin, NEW v \in Workers, v # w, OnAdmin(worker[v], {"save"})
               PROVE  FALSE
    OBVIOUS
  <2>1. Apart(r, worker[v]) /\ CalmWorker(worker[v])
    BY <1>2 DEF CalmPairs
  <2>2. r.con # worker[v].pw
    BY <1>5, <2>1 DEF Apart, OnAdmin, Late
  <2>3. role[Admin] = worker[v].pw
    BY <2>1 DEF CalmWorker
  <2> QED BY <2>2, <2>3 DEF Opens
<1>10. CalmWorker(n)'
  BY <1>4, <1>5 DEF CalmWorker, Creating, OnAdmin, Syncing, Late, HasRow
<1>11. ASSUME NEW v \in Workers PROVE CalmWorker(worker[v])'
  <2>1. CASE v = w
    BY <1>1, <1>10, <2>1
  <2>2. CASE v # w
    <3>1. PICK s : s = worker[v]
      OBVIOUS
    <3>2. s \in Workings /\ CalmWorker(s) /\ s.kind # "sync" /\ s = worker'[v]
      BY <1>1, <1>2, <1>3, <1>7, <2>2, <3>1 DEF Typed
    <3>3. OnAdmin(s, {"save"}) => role'[Admin] = s.pw
      BY <1>4, <1>9, <2>2, <3>1, <3>2, NameFacts DEF CalmWorker
    <3>4. CalmWorker(s)'
      BY <3>2, <3>3 DEF CalmWorker, Creating, OnAdmin, Syncing, HasRow
    <3> QED BY <3>2, <3>4
  <2> QED BY <2>1, <2>2
<1>12. CalmPairs'
  <2>1. ASSUME NEW v \in Workers, v # w PROVE Apart(n, worker[v]) /\ Apart(worker[v], n)
    <3>1. Apart(r, worker[v]) /\ Apart(worker[v], r)
      BY <1>2, <2>1 DEF CalmPairs
    <3>2. OnAdmin(n, Late) => OnAdmin(r, Late)
      BY DEF OnAdmin, Late
    <3>3. ~ OnAdmin(n, {"probe", "apply"})
      BY DEF OnAdmin
    <3> QED BY <3>1, <3>2, <3>3, SameOnAdmin
  <2> QED BY <1>2, <1>3, <2>1, StepPairs
<1>13. CalmState'
  <2>1. ASSUME NEW u \in Names \ (orphans' \cup {Admin}), HasRole(u)'
        PROVE  HasRow(u)' /\ row'[u].password = role'[u]
    BY <1>2, <1>4, <1>5, <1>8, <2>1 DEF CalmState, HasRole, HasRow
  <2>2. ~ Saving' => AdminPassword' = role'[Admin]
    <3> SUFFICES ASSUME ~ Saving' PROVE AdminPassword' = role'[Admin]
      OBVIOUS
    <3>1. r.user # Admin
      <4> SUFFICES ASSUME r.user = Admin PROVE OnAdmin(worker'[w], {"save"})
        BY DEF Saving, OnAdmin
      <4> QED BY <1>1, <1>5 DEF OnAdmin
    <3>2. ~ Saving
      <4> SUFFICES ASSUME NEW v \in Workers, OnAdmin(worker[v], {"save"})
                   PROVE  OnAdmin(worker'[v], {"save"})
        BY DEF Saving, OnAdmin
      <4> QED BY <1>1 DEF OnAdmin
    <3> QED BY <1>2, <1>4, <1>8, <3>1, <3>2, NameFacts DEF CalmState, AdminPassword, HasRow
  <2> QED BY <1>2, <2>1, <2>2 DEF CalmState, HasRow
<1> QED BY <1>6, <1>11, <1>12, <1>13

LEMMA ApplySyncCalm ==
  ASSUME IInv, NEW w \in Workers, NEW n \in Workings, NEW r, r = worker[w], Becomes(w, n),
         r.kind = "sync", r.step = "apply",
         n.kind = "sync", n.left = r.left, n.step \in {"restart", "member"},
         role' = [role EXCEPT ![r.user] = r.pw],
         row' = row, orphans' = orphans, faults' = faults, raced' = raced
  PROVE  Calm'
<1> SUFFICES ASSUME faults = 0, ~ raced
             PROVE  Separate' /\ CalmState' /\ CalmPairs'
                    /\ \A v \in Workers : CalmWorker(worker[v])'
  BY DEF Calm
<1>1. /\ worker'[w] = n
      /\ \A v \in Workers : v # w => worker'[v] = worker[v]
  BY Moved DEF IInv, Typed
<1>2. Separate /\ CalmState /\ CalmPairs /\ CalmWorker(r)
  BY DEF IInv, Calm
<1>3. r \in Workings /\ FormOk(r) /\ TablesOk /\ Typed
  BY Before DEF IInv
<1>4. /\ r.user \in Names /\ role \in [Names -> Passwords \cup {None}]
      /\ role'[r.user] = r.pw
      /\ \A u \in Names : u # r.user => role'[u] = role[u]
  BY <1>3, NameFacts DEF FormOk, TablesOk
<1>5. HasRow(r.user) /\ row[r.user].password = r.pw /\ \A t \in r.left : HasRow(t[1])
  BY <1>2 DEF CalmWorker, Syncing, InSync
<1>6. Separate'
  BY <1>2, <1>3, StepSeparate
<1>7. \A v \in Workers : v # w => worker[v].kind = "idle" /\ worker'[v].kind = "idle"
  BY <1>1, <1>2 DEF Separate, Busy
<1>8. \A u : u # r.user => ~ Probing(u)
  BY <1>7 DEF Probing, Syncing
<1>9. ~ Saving
  BY <1>7 DEF Saving, OnAdmin
<1>10. CalmWorker(n)'
  BY <1>5 DEF CalmWorker, Creating, OnAdmin, Syncing, InSync, HasRow
<1>11. \A v \in Workers : CalmWorker(worker[v])'
  BY <1>1, <1>7, <1>10 DEF CalmWorker, Creating, OnAdmin, Syncing
<1>12. CalmPairs'
  BY <1>1, <1>7 DEF CalmPairs, Apart, OnAdmin
<1>13. CalmState'
  <2>1. ASSUME NEW u \in Names \ (orphans' \cup {Admin}), HasRole(u)'
        PROVE  HasRow(u)' /\ row'[u].password = role'[u]
    BY <1>2, <1>4, <1>5, <1>8, <2>1 DEF CalmState, HasRole, HasRow
  <2>2. AdminPassword' = role'[Admin]
    BY <1>2, <1>4, <1>5, <1>8, <1>9, NameFacts DEF CalmState, AdminPassword, HasRow
  <2> QED BY <1>2, <2>1, <2>2 DEF CalmState, HasRow
<1> QED BY <1>6, <1>11, <1>12, <1>13

LEMMA ApplyStep ==
  ASSUME IInv, NEW w \in Workers, Apply(w)
  PROVE  IInv'
<1>1. PICK r : r = worker[w]
  OBVIOUS
<1>2. /\ r.kind \in {"put", "init", "sync"} /\ r.step = "apply" /\ Reaches(r)
      /\ r.found = HasRole(r.user) /\ role' = [role EXCEPT ![r.user] = r.pw]
      /\ UNCHANGED <<row, member, privs, rest, fresh, started, faults, raced, settled, orphans>>
      /\ r.kind = "sync" =>
           \E step \in {"restart", "member"} :
             /\ Becomes(w, Returned(r, r.user, step))
             /\ r.user = Authenticator => step = "restart"
      /\ r.kind # "sync" => Becomes(w, [r EXCEPT !.step = "save", !.found = FALSE, !.con = Fixed])
  BY <1>1, Zenon DEF Apply, At, ApplyPassword
<1>3. /\ r \in Workings /\ WorkerOk(r) /\ FormOk(r) /\ TablesOk
      /\ fresh \in Nat
  BY <1>1, Before
<1>4. r.user \in Names /\ r.pw \in Passwords
  BY <1>2, <1>3, NameFacts DEF FormOk, Workings
<1>5. PICK n :
        /\ Becomes(w, n) /\ n \in Workings /\ n.kind = r.kind /\ n.user = r.user
        /\ n.type = r.type /\ n.left = r.left /\ n.con = Fixed /\ n.dbCon = r.dbCon
        /\ n.clean = r.clean /\ n.alone = r.alone /\ n.update = r.update /\ n.hard = r.hard
        /\ n.pw \in {r.pw, Fixed}
        /\ r.kind # "sync" => n.step = "save" /\ n.pw = r.pw
        /\ r.kind = "sync" => /\ n.step \in {"restart", "member"}
                              /\ r.user = Authenticator => n.step = "restart"
  <2>1. CASE r.kind = "sync"
    <3>1. PICK step \in {"restart", "member"} :
            /\ Becomes(w, Returned(r, r.user, step))
            /\ r.user = Authenticator => step = "restart"
      BY <1>2, <2>1
    <3>2. PICK n : n = [r EXCEPT !.user = r.user, !.step = step, !.found = FALSE,
                                 !.pw = Fixed, !.con = Fixed]
      OBVIOUS
    <3>3. Becomes(w, n)
      BY <3>1, <3>2 DEF Returned
    <3>4. /\ n \in Workings /\ n.kind = r.kind /\ n.user = r.user
          /\ n.type = r.type /\ n.left = r.left /\ n.con = Fixed /\ n.dbCon = r.dbCon
          /\ n.clean = r.clean /\ n.alone = r.alone /\ n.update = r.update /\ n.hard = r.hard
          /\ n.pw = Fixed /\ n.step = step
      BY <1>3, <3>2, PasswordFacts DEF Workings, Steps
    <3> QED BY <2>1, <3>1, <3>3, <3>4
  <2>2. CASE r.kind # "sync"
    <3>1. PICK n : /\ n = [r EXCEPT !.step = "save", !.found = FALSE, !.con = Fixed]
                   /\ Becomes(w, n)
      BY <1>2, <2>2
    <3>2. /\ n \in Workings /\ n.kind = r.kind /\ n.user = r.user
          /\ n.type = r.type /\ n.left = r.left /\ n.con = Fixed /\ n.dbCon = r.dbCon
          /\ n.clean = r.clean /\ n.alone = r.alone /\ n.update = r.update /\ n.hard = r.hard
          /\ n.pw = r.pw /\ n.step = "save"
      BY <1>3, <3>1, PasswordFacts DEF Workings, Steps
    <3> QED BY <2>2, <3>1, <3>2
  <2> QED BY <2>1, <2>2
<1>6. /\ role \in [Names -> Passwords \cup {None}] /\ role'[r.user] = r.pw
      /\ \A u \in Names : u # r.user => role'[u] = role[u]
  BY <1>2, <1>3, <1>4 DEF TablesOk
<1>7. \A u \in Names : HasRole(u) => HasRole(u)'
  BY <1>4, <1>6, PasswordFacts DEF HasRole
<1>8. WorkerOk(n)'
  <2>1. FormOk(n)
    BY <1>2, <1>3, <1>4, <1>5 DEF FormOk, Creating, Late, InSync
  <2> QED BY <1>2, <1>3, <1>5, <2>1, KeepsBounds
<1>9. TablesOk' /\ fresh <= fresh'
  BY <1>2, <1>3, <1>4, <1>7, NameFacts DEF TablesOk, HasRow
<1>10. Calm'
  <2>0. row' = row /\ orphans' = orphans /\ faults' = faults /\ raced' = raced
    BY <1>2
  <2>1. CASE r.kind = "sync"
    BY ONLY IInv, w \in Workers, <1>1, <1>2, <1>5, <2>0, <2>1, ApplySyncCalm
  <2>2. CASE r.kind # "sync"
    <3>1. Opens(r.con)
      BY <1>2, <2>2 DEF Reaches
    <3> QED BY ONLY IInv, w \in Workers, <1>1, <1>2, <1>5, <2>0, <2>2, <3>1, ApplyCreateCalm
  <2> QED BY <2>1, <2>2
<1>11. ASSUME r.alone PROVE AloneOk(n)'
  <2>1. AloneOk(r)
    BY <1>1, <1>2, <1>11, Before
  <2>2. AloneCreating(n)'
    <3> SUFFICES ASSUME r.kind \in {"put", "init"}
                 PROVE  /\ HasRow(n.user)' /\ role'[n.user] = n.pw
                        /\ n.user # Admin => Opens(AdminPassword)'
      BY <1>5 DEF AloneCreating
    <3>1. HasRow(r.user) /\ r.con = AdminPassword /\ Opens(r.con)
      BY <1>2, <2>1 DEF AloneOk, AloneCreating, Late
    <3>2. r.user # Admin => Opens(AdminPassword)'
      BY <1>2, <1>6, <3>1, NameFacts DEF Opens, AdminPassword, HasRow
    <3> QED BY <1>2, <1>5, <1>6, <3>1, <3>2 DEF HasRow
  <2>3. AlonePut(n)' /\ AloneDelete(n)'
    BY <1>2, <1>5 DEF AlonePut, AloneDelete
  <2>4. AloneInit(n)'
    <3> SUFFICES ASSUME n.kind = "init", n.clean, n.user = Authenticator
                 PROVE  HasRow(Admin)' /\ (Agrees(Public)' \/ ~ Opens(AdminPassword)')
      BY <1>5 DEF AloneInit
    <3>1. HasRow(Admin) /\ (Agrees(Public) \/ ~ Opens(AdminPassword))
      BY <1>5, <2>1 DEF AloneOk, AloneInit
    <3>2. role'[Admin] = role[Admin] /\ role'[Public] = role[Public]
      BY <1>5, <1>6, NameFacts
    <3> QED BY <1>2, <3>1, <3>2 DEF Agrees, HasRow, HasRole, Opens, AdminPassword
  <2>5. AloneSync(n)'
    <3> SUFFICES ASSUME r.kind = "sync" PROVE AloneSync(n)'
      BY <1>5 DEF AloneSync, Syncing
    <3>1. /\ \A t \in r.left : HasRow(t[1])
          /\ HasRow(r.user) /\ row[r.user].password = r.pw
          /\ \A u \in Names : u \in Listed(r) => Agrees(u) \/ Left(r, u) \/ r.user = u
          /\ r.hard /\ r.update /\ HasRow(Authenticator) =>
               rest = role[Authenticator] \/ Left(r, Authenticator) \/ r.user = Authenticator
      BY <1>2, <2>1 DEF AloneOk, AloneSync, Syncing, InSync
    <3>2. \A u \in Names : (u \in Listed(n))' <=> u \in Listed(r)
      BY <1>2, <1>5 DEF Listed, HasRow
    <3>3. \A u : Left(n, u) <=> Left(r, u)
      BY <1>5 DEF Left
    <3>4. Agrees(r.user)'
      BY <1>2, <1>4, <1>6, <3>1, PasswordFacts DEF Agrees, HasRow, HasRole
    <3>5. \A u \in Names : Agrees(u) => Agrees(u)'
      BY <1>2, <1>6, <3>4 DEF Agrees, HasRow, HasRole
    <3>6. \A u \in Names : (u \in Listed(n))' => Agrees(u)' \/ Left(n, u)
      BY <3>1, <3>2, <3>3, <3>4, <3>5
    <3>7. n.hard /\ n.update /\ HasRow(Authenticator)' =>
            \/ rest' = role'[Authenticator] \/ Left(n, Authenticator)
            \/ n.step = "restart" /\ n.user = Authenticator
      BY <1>2, <1>5, <1>6, <3>1, <3>3, NameFacts DEF HasRow
    <3> QED BY <1>2, <1>5, <3>1, <3>6, <3>7 DEF AloneSync, Syncing, InSync, HasRow, Left
  <2> QED BY <2>2, <2>3, <2>4, <2>5 DEF AloneOk
<1> QED BY ONLY IInv, w \in Workers, <1>1, <1>2, <1>5, <1>8, <1>9, <1>10, <1>11, FullStep

\* Changes of a password or of a type where there is a row.
LEMMA SavedRow ==
  ASSUME TablesOk, NEW u \in Names, NEW p \in Passwords, SavePassword(u, p)
  PROVE  /\ row' \in [Names -> Rows \cup {None}]
         /\ \A x \in Names : HasRow(x)' <=> HasRow(x)
         /\ \A x \in Names : x # u => row'[x] = row[x]
         /\ \A x \in Names : HasRow(x) => row'[x].type = row[x].type
         /\ HasRow(u) => row'[u].password = p
         /\ HasRow(u) /\ row[u].password = p => row' = row
<1>1. CASE HasRow(u)
  <2>1. row[u] \in Rows
    BY <1>1 DEF TablesOk, HasRow
  <2>2. PICK x : x = [row[u] EXCEPT !.password = p]
    OBVIOUS
  <2>3. x \in Rows /\ x.password = p /\ x.type = row[u].type
        /\ (row[u].password = p => x = row[u])
    BY <2>1, <2>2 DEF Rows
  <2>4. row' = [row EXCEPT ![u] = x]
    BY <1>1, <2>2 DEF SavePassword
  <2>5. row'[u] = x /\ \A y \in Names : y # u => row'[y] = row[y]
    BY <2>4 DEF TablesOk
  <2>6. row' \in [Names -> Rows \cup {None}] /\ (x = row[u] => row' = row)
    BY <2>3, <2>4 DEF TablesOk
  <2> QED BY <1>1, <2>3, <2>5, <2>6, PasswordFacts DEF HasRow
<1>2. CASE ~ HasRow(u)
  BY <1>2 DEF SavePassword, TablesOk, HasRow
<1> QED BY <1>1, <1>2

LEMMA SavedType ==
  ASSUME TablesOk, NEW u \in Names, NEW t \in Types, SaveType(u, t)
  PROVE  /\ row' \in [Names -> Rows \cup {None}]
         /\ \A x \in Names : HasRow(x)' <=> HasRow(x)
         /\ \A x \in Names : x # u => row'[x] = row[x]
         /\ \A x \in Names : HasRow(x) => row'[x].password = row[x].password
<1>1. CASE HasRow(u)
  <2>1. row[u] \in Rows
    BY <1>1 DEF TablesOk, HasRow
  <2>2. PICK x : x = [row[u] EXCEPT !.type = t]
    OBVIOUS
  <2>3. x \in Rows /\ x.password = row[u].password
    BY <2>1, <2>2 DEF Rows
  <2>4. row' = [row EXCEPT ![u] = x]
    BY <1>1, <2>2 DEF SaveType
  <2>5. row'[u] = x /\ \A y \in Names : y # u => row'[y] = row[y]
    BY <2>4 DEF TablesOk
  <2>6. row' \in [Names -> Rows \cup {None}]
    BY <2>3, <2>4 DEF TablesOk
  <2> QED BY <1>1, <2>3, <2>5, <2>6, PasswordFacts DEF HasRow
<1>2. CASE ~ HasRow(u)
  BY <1>2 DEF SaveType, TablesOk, HasRow
<1> QED BY <1>1, <1>2

\* The tables after a password has been saved.
LEMMA SavedTables ==
  ASSUME TablesOk, NEW u \in Names, NEW p \in Passwords, SavePassword(u, p), p <= fresh',
         fresh' \in 0 .. MaxPasswords, fresh <= fresh',
         UNCHANGED <<role, member, privs, rest, started, faults, raced, orphans>>
  PROVE  TablesOk'
<1>1. /\ row' \in [Names -> Rows \cup {None}]
      /\ \A x \in Names : HasRow(x)' <=> HasRow(x)
      /\ \A x \in Names : x # u => row'[x] = row[x]
      /\ \A x \in Names : HasRow(x) => row'[x].type = row[x].type
      /\ HasRow(u) => row'[u].password = p
  BY SavedRow
<1>2. ASSUME NEW x \in Names, HasRow(x)' PROVE row'[x].password <= fresh'
  <2>1. CASE x = u
    BY <1>1, <1>2, <2>1
  <2>2. CASE x # u
    <3>1. row[x] \in Rows /\ row[x].password <= fresh /\ row'[x] = row[x]
      BY <1>1, <1>2, <2>2 DEF TablesOk, HasRow
    <3>2. row[x].password \in Nat /\ fresh \in Nat /\ fresh' \in Nat
      BY <3>1, PasswordFacts, BoundsAssumption DEF Rows, TablesOk
    <3> QED BY <3>1, <3>2
  <2> QED BY <2>1, <2>2
<1>3. HasRow(Authenticator)' => row'[Authenticator].type = "PGREST"
  BY <1>1, NameFacts DEF TablesOk
<1> QED BY <1>1, <1>2, <1>3 DEF TablesOk, HasRole

LEMMA SaveCalm ==
  ASSUME IInv, NEW w \in Workers, NEW n \in Workings, NEW r, r = worker[w], Becomes(w, n),
         r.kind \in {"put", "init"}, r.step = "save", SavePassword(r.user, r.pw),
         n.kind \in {"idle", r.kind}, n.step \in {"lookup", "open", "member", "reconnect"},
         role' = role, orphans' = orphans, faults' = faults, raced' = raced
  PROVE  Calm'
<1> SUFFICES ASSUME faults = 0, ~ raced
             PROVE  Separate' /\ CalmState' /\ CalmPairs'
                    /\ \A v \in Workers : CalmWorker(worker[v])'
  BY DEF Calm
<1>1. /\ worker'[w] = n
      /\ \A v \in Workers : v # w => worker'[v] = worker[v]
  BY Moved DEF IInv, Typed
<1>2. Separate /\ CalmState /\ CalmPairs /\ \A v \in Workers : CalmWorker(worker[v])
  BY DEF IInv, Calm
<1>3. r \in Workings /\ FormOk(r) /\ TablesOk /\ Typed
  BY Before DEF IInv
<1>4. r.user \in Names /\ r.pw \in Passwords
  BY <1>3, NameFacts DEF FormOk, Workings
<1>5. HasRow(r.user) /\ (r.user # Admin => row[r.user].password = r.pw)
      /\ (r.user = Admin => r.kind = "init" /\ role[Admin] = r.pw)
  BY <1>2, <1>3, NameFacts DEF CalmWorker, Creating, OnAdmin, Late, FormOk
<1>6. Separate'
  BY <1>2, <1>3, StepSeparate
<1>7. \A u : ~ Probing(u) /\ ~ Probing(u)'
  <2>1. \A v \in Workers : worker[v].kind # "sync" /\ worker'[v].kind # "sync"
    BY <1>1, <1>2 DEF Separate, Busy
  <2> QED BY <2>1 DEF Probing, Syncing
<1>8. ~ OnAdmin(n, Late) /\ CalmWorker(n)'
  BY DEF CalmWorker, Creating, OnAdmin, Syncing, Late
<1>9. CalmPairs'
  BY <1>2, <1>3, <1>8, NotOnAdmin, StepPairs
<1>10. CASE r.user # Admin
  <2>1. row' = row
    BY <1>3, <1>4, <1>5, <1>10, SavedRow
  <2>2. \A v \in Workers : CalmWorker(worker[v])'
    <3>1. \A u \in Names : HasRow(u) => HasRow(u)' /\ row'[u].password = row[u].password
      BY <2>1 DEF HasRow
    <3> QED BY <1>2, <1>3, <1>8, <3>1, StepWorkers
  <2>3. Saving => Saving'
    <3> SUFFICES ASSUME NEW v \in Workers, OnAdmin(worker[v], {"save"})
                 PROVE  OnAdmin(worker'[v], {"save"})
      BY DEF Saving, OnAdmin
    <3> QED BY <1>1, <1>10 DEF OnAdmin
  <2>4. CalmState'
    BY <1>2, <1>7, <2>1, <2>3 DEF CalmState, HasRow, HasRole, AdminPassword
  <2> QED BY <1>6, <1>9, <2>2, <2>4
<1>11. CASE r.user = Admin
  <2>1. /\ HasRow(Admin) /\ HasRow(Admin)' /\ row'[Admin].password = r.pw
        /\ \A u \in Names : u # Admin => row'[u] = row[u]
    BY <1>3, <1>4, <1>5, <1>11, SavedRow
  <2>2. ASSUME NEW v \in Workers, v # w, OnAdmin(worker[v], Late)
        PROVE  worker[v].pw # r.pw /\ worker[v].step # "save"
    <3>1. worker[v].pw # r.pw
      BY <1>2, <1>5, <1>11, <2>2 DEF CalmPairs, Apart, OnAdmin, Late
    <3>2. worker[v].step # "save"
      BY <1>2, <1>5, <1>11, <2>2, <3>1 DEF CalmWorker, OnAdmin
    <3> QED BY <3>1, <3>2
  <2>3. ASSUME NEW v \in Workers PROVE CalmWorker(worker[v])'
    <3>1. CASE v = w
      BY <1>1, <1>8, <3>1
    <3>2. CASE v # w
      <4>1. PICK s : s = worker[v]
        OBVIOUS
      <4>2. s \in Workings /\ FormOk(s) /\ CalmWorker(s) /\ s = worker'[v] /\ s.kind # "sync"
        <5>1. worker[v].kind # "sync"
          BY <1>2 DEF Separate, Busy
        <5> QED BY <1>1, <1>2, <1>3, <3>2, <4>1, <5>1 DEF Typed, WorkerOk
      <4>3. OnAdmin(s, Late) => s.pw # Fixed /\ row'[Admin].password # s.pw
        BY <2>1, <2>2, <3>2, <4>1, <4>2 DEF CalmWorker
      <4>4. Creating(s, Late) \/ (Creating(s, {"write"}) /\ s.found) =>
              HasRow(s.user)' /\ (s.user # Admin => row'[s.user].password = s.pw)
        <5> SUFFICES ASSUME Creating(s, Late) \/ (Creating(s, {"write"}) /\ s.found)
                     PROVE HasRow(s.user)' /\ (s.user # Admin => row'[s.user].password = s.pw)
          OBVIOUS
        <5>1. s.user \in Names
          BY <4>2, NameFacts DEF FormOk, Creating
        <5>2. HasRow(s.user) /\ (s.user # Admin => row[s.user].password = s.pw)
          BY <4>2 DEF CalmWorker
        <5> QED BY <2>1, <5>1, <5>2 DEF HasRow
      <4>5. OnAdmin(s, {"save"}) => role'[Admin] = s.pw
        BY <4>2 DEF CalmWorker
      <4>6. CalmWorker(s)'
        BY <4>2, <4>3, <4>4, <4>5 DEF CalmWorker, Syncing, Creating, OnAdmin
      <4> QED BY <4>2, <4>6
    <3> QED BY <3>1, <3>2
  <2>4. CalmState'
    <3>1. HasRow(Public)' => row'[Public].password = Fixed
      BY <1>2, <2>1, NameFacts DEF CalmState, HasRow
    <3>2. ASSUME NEW u \in Names \ (orphans' \cup {Admin}), HasRole(u)'
          PROVE  HasRow(u)' /\ row'[u].password = role'[u]
      BY <1>2, <1>7, <2>1, <3>2 DEF CalmState, HasRow, HasRole
    <3>3. AdminPassword' = role'[Admin]
      BY <1>5, <1>11, <2>1 DEF AdminPassword
    <3> QED BY <3>1, <3>2, <3>3 DEF CalmState
  <2> QED BY <1>6, <1>9, <2>3, <2>4
<1> QED BY <1>10, <1>11

\* A call to create returns: what is kept of the request.
LEMMA ReturnedShape ==
  ASSUME NEW r \in Workings, NEW u \in Names \cup {None}, NEW step \in Steps,
         NEW n, n = Returned(r, u, step)
  PROVE  /\ n \in Workings /\ n.kind = r.kind /\ n.user = u /\ n.step = step
         /\ n.type = r.type /\ n.pw = Fixed /\ n.con = Fixed /\ n.dbCon = r.dbCon
         /\ n.left = r.left /\ n.alone = r.alone /\ n.clean = r.clean
         /\ n.update = r.update /\ n.hard = r.hard
<1>1. n = [r EXCEPT !.user = u, !.step = step, !.found = FALSE, !.pw = Fixed, !.con = Fixed]
  BY DEF Returned
<1> QED BY ONLY <1>1, r \in Workings, u \in Names \cup {None}, step \in Steps, PasswordFacts
  DEF Workings

\* What the caller of create goes on with, from r to n.
Continues(r, n) ==
  \/ r.kind = "put" /\ n.kind = "put" /\ n.user = r.user /\ n.step = "reconnect"
  \/ r.kind = "init" /\ n.kind = "init" /\ n.user = Public
     /\ \/ r.user = Admin /\ n.step = "lookup"
        \/ r.user = Public /\ n.step = "open"
        \/ r.user = Authenticator /\ n.step = "member"

LEMMA SaveShape ==
  ASSUME IInv, NEW w \in Workers, Save(w), NEW r, r = worker[w]
  PROVE  \E n \in Workings :
           /\ Becomes(w, n) /\ FormOk(n) /\ n.pw \in {r.pw, Fixed}
           /\ n.con \in {r.con, r.dbCon, Fixed}
           /\ n.dbCon \in {r.dbCon, Fixed} /\ n.left \subseteq r.left
           /\ \/ /\ Continues(r, n) /\ settled' = settled
                 /\ n.alone = r.alone /\ n.clean = r.clean
              \/ /\ n = Idle /\ r.kind = "put" /\ r.type = "SERVICE_ACCOUNT"
                 /\ settled' = Remembered(r)
<1>1. /\ r.kind \in {"put", "init"} /\ r.step = "save"
      /\ \/ /\ r.kind = "put" /\ r.type \in {"USER", "ADMIN"}
            /\ Becomes(w, Returned(r, r.user, "reconnect")) /\ settled' = settled
         \/ /\ r.kind = "put" /\ r.type = "SERVICE_ACCOUNT"
            /\ Becomes(w, Idle) /\ settled' = Remembered(r)
         \/ /\ r.kind = "init" /\ r.user = Admin
            /\ Becomes(w, Returned(r, Public, "lookup")) /\ settled' = settled
         \/ /\ r.kind = "init" /\ r.user = Public
            /\ Becomes(w, Returned(r, Public, "open")) /\ settled' = settled
         \/ /\ r.kind = "init" /\ r.user = Authenticator
            /\ Becomes(w, [Returned(r, Public, "member") EXCEPT !.con = r.dbCon])
            /\ settled' = settled
  BY Zenon DEF Save, At, End, Becomes
<1>2. r \in Workings /\ FormOk(r)
  BY Before
<1>3. ASSUME NEW u \in Names, NEW step \in {"lookup", "open", "reconnect", "member"},
             NEW n, n = Returned(r, u, step)
      PROVE  /\ n \in Workings /\ n.kind = r.kind /\ n.user = u /\ n.step = step
             /\ n.type = r.type /\ n.pw = Fixed /\ n.con = Fixed /\ n.dbCon = r.dbCon
             /\ n.left = r.left /\ n.alone = r.alone /\ n.clean = r.clean
  <2>1. r \in Workings /\ u \in Names \cup {None} /\ step \in Steps
    BY <1>2 DEF Steps
  <2>2. PICK m : m = Returned(r, u, step)
    OBVIOUS
  <2>3. /\ m \in Workings /\ m.kind = r.kind /\ m.user = u /\ m.step = step
        /\ m.type = r.type /\ m.pw = Fixed /\ m.con = Fixed /\ m.dbCon = r.dbCon
        /\ m.left = r.left /\ m.alone = r.alone /\ m.clean = r.clean
    BY ONLY <2>1, <2>2, ReturnedShape
  <2> QED BY <1>3, <2>2, <2>3
<1>4. CASE r.kind = "put" /\ r.type \in {"USER", "ADMIN"}
           /\ Becomes(w, Returned(r, r.user, "reconnect")) /\ settled' = settled
  <2>1. PICK n : n = Returned(r, r.user, "reconnect") /\ Becomes(w, n)
    BY <1>4
  <2>2. r.user \in Names
    BY <1>2, <1>4, NameFacts DEF FormOk
  <2>3. /\ n \in Workings /\ n.kind = r.kind /\ n.user = r.user /\ n.step = "reconnect"
        /\ n.type = r.type /\ n.pw = Fixed /\ n.con = Fixed /\ n.dbCon = r.dbCon
        /\ n.left = r.left /\ n.alone = r.alone /\ n.clean = r.clean
    BY <1>3, <2>1, <2>2
  <2>4. FormOk(n)
    BY <1>2, <1>4, <2>3 DEF FormOk, Creating
  <2> QED BY <1>4, <2>1, <2>3, <2>4 DEF Continues
<1>5. CASE r.kind = "put" /\ r.type = "SERVICE_ACCOUNT" /\ Becomes(w, Idle)
           /\ settled' = Remembered(r)
  BY <1>5, IdleFacts
<1>6. CASE r.kind = "init" /\ r.user = Admin
           /\ Becomes(w, Returned(r, Public, "lookup")) /\ settled' = settled
  <2>1. PICK n : n = Returned(r, Public, "lookup") /\ Becomes(w, n)
    BY <1>6
  <2>2. /\ n \in Workings /\ n.kind = r.kind /\ n.user = Public /\ n.step = "lookup"
        /\ n.type = r.type /\ n.pw = Fixed /\ n.con = Fixed /\ n.dbCon = r.dbCon
        /\ n.left = r.left /\ n.alone = r.alone /\ n.clean = r.clean
    BY <1>3, <2>1, NameFacts
  <2>3. FormOk(n)
    BY <1>6, <2>2, NameFacts DEF FormOk, Creating
  <2> QED BY <1>6, <2>1, <2>2, <2>3 DEF Continues
<1>7. CASE r.kind = "init" /\ r.user = Public
           /\ Becomes(w, Returned(r, Public, "open")) /\ settled' = settled
  <2>1. PICK n : n = Returned(r, Public, "open") /\ Becomes(w, n)
    BY <1>7
  <2>2. /\ n \in Workings /\ n.kind = r.kind /\ n.user = Public /\ n.step = "open"
        /\ n.type = r.type /\ n.pw = Fixed /\ n.con = Fixed /\ n.dbCon = r.dbCon
        /\ n.left = r.left /\ n.alone = r.alone /\ n.clean = r.clean
    BY <1>3, <2>1, NameFacts
  <2>3. FormOk(n)
    BY <1>7, <2>2, NameFacts DEF FormOk, Creating
  <2> QED BY <1>7, <2>1, <2>2, <2>3 DEF Continues
<1>8. CASE r.kind = "init" /\ r.user = Authenticator
           /\ Becomes(w, [Returned(r, Public, "member") EXCEPT !.con = r.dbCon])
           /\ settled' = settled
  <2>1. PICK m, n : /\ m = Returned(r, Public, "member") /\ n = [m EXCEPT !.con = r.dbCon]
                    /\ Becomes(w, n)
    BY <1>8
  <2>2. /\ m \in Workings /\ m.kind = r.kind /\ m.user = Public /\ m.step = "member"
        /\ m.type = r.type /\ m.pw = Fixed /\ m.dbCon = r.dbCon
        /\ m.left = r.left /\ m.alone = r.alone /\ m.clean = r.clean
    BY <1>3, <2>1, NameFacts
  <2>3. r.dbCon \in Passwords /\ n = [m EXCEPT !.con = r.dbCon]
    BY <1>2, <2>1 DEF Workings
  <2>4. /\ n \in Workings /\ n.kind = r.kind /\ n.user = Public /\ n.step = "member"
        /\ n.type = r.type /\ n.pw = Fixed /\ n.con = r.dbCon /\ n.dbCon = r.dbCon
        /\ n.left = r.left /\ n.alone = r.alone /\ n.clean = r.clean
    BY <2>2, <2>3 DEF Workings
  <2>5. FormOk(n)
    BY <1>8, <2>4, NameFacts DEF FormOk, Creating
  <2> QED BY <1>8, <2>1, <2>4, <2>5 DEF Continues
<1> QED BY <1>1, <1>4, <1>5, <1>6, <1>7, <1>8

LEMMA SaveStep ==
  ASSUME IInv, NEW w \in Workers, Save(w)
  PROVE  IInv'
<1>1. PICK r : r = worker[w]
  OBVIOUS
<1>2. /\ r.kind \in {"put", "init"} /\ r.step = "save" /\ SavePassword(r.user, r.pw)
      /\ UNCHANGED <<role, member, privs, rest, fresh, started, faults, raced, orphans>>
  BY <1>1 DEF Save, At
<1>3. PICK n \in Workings :
        /\ Becomes(w, n) /\ FormOk(n) /\ n.pw \in {r.pw, Fixed}
           /\ n.con \in {r.con, r.dbCon, Fixed}
        /\ n.dbCon \in {r.dbCon, Fixed} /\ n.left \subseteq r.left
        /\ \/ /\ Continues(r, n) /\ settled' = settled
              /\ n.alone = r.alone /\ n.clean = r.clean
           \/ /\ n = Idle /\ r.kind = "put" /\ r.type = "SERVICE_ACCOUNT"
              /\ settled' = Remembered(r)
  BY <1>1, SaveShape
<1>4. /\ r \in Workings /\ WorkerOk(r) /\ FormOk(r) /\ TablesOk /\ fresh \in Nat
      /\ fresh \in 0 .. MaxPasswords /\ r.user \in Names /\ r.pw \in Passwords /\ r.pw <= fresh
  <2>1. r \in Workings /\ WorkerOk(r) /\ FormOk(r) /\ TablesOk /\ fresh \in Nat
        /\ fresh \in 0 .. MaxPasswords
    BY <1>1, Before
  <2> QED BY <1>2, <2>1, NameFacts DEF FormOk, Workings, WorkerOk
<1>5. /\ \A x \in Names : HasRow(x)' <=> HasRow(x)
      /\ \A x \in Names : x # r.user => row'[x] = row[x]
      /\ HasRow(r.user) => row'[r.user].password = r.pw
  BY <1>2, <1>4, SavedRow
<1>6. WorkerOk(n)'
  BY <1>2, <1>3, <1>4, KeepsBounds
<1>7. TablesOk' /\ fresh <= fresh'
  <2>1. r.pw <= fresh' /\ fresh' \in 0 .. MaxPasswords /\ fresh <= fresh'
    BY <1>2, <1>4
  <2> QED BY <1>2, <1>4, <2>1, SavedTables
<1>8. /\ n.kind \in {"idle", r.kind}
      /\ n.step \in {"lookup", "open", "member", "reconnect"}
  BY <1>3, IdleFacts DEF Continues
<1>9. Calm'
  <2>1. role' = role /\ orphans' = orphans /\ faults' = faults /\ raced' = raced
    BY <1>2
  <2> QED BY ONLY IInv, w \in Workers, <1>1, <1>2, <1>3, <1>8, <2>1, SaveCalm
<1>10. ASSUME r.alone
       PROVE  /\ HasRow(r.user) /\ role[r.user] = r.pw /\ Agrees(r.user)'
              /\ r.user # Admin => Opens(AdminPassword)
              /\ AloneOk(r)
  <2>1. AloneOk(r)
    BY <1>1, <1>2, <1>10, Before
  <2>2. HasRow(r.user) /\ role[r.user] = r.pw /\ (r.user # Admin => Opens(AdminPassword))
    BY <1>2, <2>1 DEF AloneOk, AloneCreating, Late
  <2> QED BY <1>2, <1>4, <1>5, <2>1, <2>2, PasswordFacts DEF Agrees, HasRole
<1>11. ASSUME r.alone, n.kind # "idle" PROVE AloneOk(n)'
  <2>1. Continues(r, n) /\ n.clean = r.clean
    BY <1>3, <1>11, IdleFacts
  <2>2. AloneCreating(n)' /\ AloneSync(n)' /\ AloneDelete(n)'
    BY <1>2, <1>8, <1>11
    DEF AloneCreating, AloneSync, AloneDelete, Syncing, Late
  <2>3. AlonePut(n)'
    BY <1>10, <1>11, <2>1 DEF AlonePut, Continues
  <2>4. AloneInit(n)'
    <3>1. n.kind = "init" /\ n.step = "open" => Agrees(Public)'
      BY <1>10, <1>11, <2>1, NameFacts DEF Continues
    <3>2. n.kind = "init" => n.user = Public
      BY <1>2, <1>11, <2>1 DEF Continues
    <3>3. ASSUME n.kind = "init", n.step = "member", n.clean
          PROVE  \A u \in Reserved : Agrees(u)'
      <4>1. r.user = Authenticator /\ r.kind = "init" /\ r.clean
        BY <2>1, <3>3 DEF Continues
      <4>2. HasRow(Admin) /\ (Agrees(Public) \/ ~ Opens(AdminPassword)) /\ Opens(AdminPassword)
        BY <1>10, <1>11, <4>1, NameFacts DEF AloneOk, AloneInit
      <4>3. HasRole(Admin)
        BY <1>4 DEF TablesOk
      <4>4. Agrees(Admin) /\ Agrees(Public)
        BY <4>2, <4>3 DEF Agrees, Opens, AdminPassword
      <4>5. Agrees(Admin)' /\ Agrees(Public)'
        BY <1>2, <1>5, <4>1, <4>4, NameFacts DEF Agrees, HasRow, HasRole
      <4> QED BY <1>10, <1>11, <4>1, <4>5, NameFacts
    <3> QED BY <3>1, <3>2, <3>3, NameFacts DEF AloneInit
  <2> QED BY <2>2, <2>3, <2>4 DEF AloneOk
<1>12. \/ settled' = settled
       \/ n.kind = "idle" /\ settled' = Remembered(r) /\ (r.alone => Kept')
  <2>1. CASE settled' = settled
    BY <2>1
  <2>2. CASE settled' = Remembered(r) /\ n = Idle /\ r.kind = "put" /\ r.type = "SERVICE_ACCOUNT"
    <3>1. ASSUME r.alone PROVE Kept'
      <4>1. settled'.kind = "put" /\ settled'.user = r.user /\ settled'.type = "SERVICE_ACCOUNT"
        BY <2>2, <3>1 DEF Remembered
      <4>2. Agrees(settled.user)'
        <5>1. PICK u : u = r.user /\ Agrees(u)' /\ u = settled'.user
          BY <1>10, <3>1, <4>1
        <5> QED BY <5>1 DEF Agrees, HasRow, HasRole
      <4> QED BY <4>1, <4>2 DEF Kept, Ready, SyncRepairs, DeleteForgets, Settled
    <3> QED BY <2>2, <3>1, IdleFacts
  <2> QED BY <1>3, <2>1, <2>2
<1>13. r.kind # "idle" /\ (n.kind = "idle" \/ n.alone = r.alone)
  BY <1>2, <1>3, IdleFacts
<1> QED BY ONLY IInv, w \in Workers, <1>1, <1>3, <1>6, <1>7, <1>9, <1>11, <1>12, <1>13, FullStep

LEMMA ImpersonateStep ==
  ASSUME IInv, NEW w \in Workers, Impersonate(w)
  PROVE  IInv'
<1>1. PICK r : r = worker[w]
  OBVIOUS
<1>2. /\ r.kind \in {"put", "init", "sync"} /\ r.step = "member"
      /\ HasRole(r.user) /\ member' = member \cup {r.user}
      /\ UNCHANGED <<row, role, privs, rest, fresh, started, faults, raced, orphans>>
      /\ \/ /\ r.kind = "sync" /\ Becomes(w, [r EXCEPT !.step = "restart"])
            /\ settled' = settled
         \/ r.kind # "sync" /\ Becomes(w, Idle) /\ settled' = Remembered(r)
  BY <1>1, Zenon DEF Impersonate, At, Goto, End, Becomes
<1>3. /\ r \in Workings /\ WorkerOk(r) /\ FormOk(r) /\ TablesOk /\ fresh \in Nat
  BY <1>1, Before
<1>4. r.user \in Names
  BY <1>2, <1>3, NameFacts DEF FormOk
<1>5. PICK n \in Workings :
        /\ Becomes(w, n) /\ FormOk(n) /\ n.pw \in {r.pw, Fixed} /\ n.con \in {r.con, Fixed}
        /\ n.dbCon \in {r.dbCon, Fixed} /\ n.left \subseteq r.left
        /\ \/ /\ r.kind = "sync" /\ n.kind = "sync" /\ n.step = "restart" /\ settled' = settled
              /\ n.alone = r.alone /\ n.left = r.left /\ n.user = r.user
              /\ n.update = r.update /\ n.hard = r.hard
           \/ r.kind # "sync" /\ n = Idle /\ settled' = Remembered(r)
  <2>1. CASE r.kind = "sync"
    <3>1. PICK n : n = [r EXCEPT !.step = "restart"] /\ Becomes(w, n) /\ settled' = settled
      BY <1>2, <2>1
    <3>2. /\ n \in Workings /\ n.kind = "sync" /\ n.step = "restart" /\ n.alone = r.alone
          /\ n.left = r.left /\ n.user = r.user /\ n.update = r.update /\ n.hard = r.hard
          /\ n.pw = r.pw /\ n.con = r.con /\ n.dbCon = r.dbCon
      BY <1>3, <2>1, <3>1 DEF Workings, Steps
    <3>3. FormOk(n)
      BY <1>3, <1>4, <2>1, <3>2 DEF FormOk, Creating, InSync
    <3> QED BY <2>1, <3>1, <3>2, <3>3
  <2>2. CASE r.kind # "sync"
    BY <1>2, <2>2, IdleFacts
  <2> QED BY <2>1, <2>2
<1>6. WorkerOk(n)'
  BY <1>2, <1>3, <1>5, KeepsBounds
<1>7. TablesOk' /\ fresh <= fresh'
  BY <1>2, <1>3, <1>4 DEF TablesOk, HasRow, HasRole
<1>8. Calm'
  <2>1. CalmStep(r, n) \/ faults # 0 \/ raced
    <3>1. faults = 0 /\ ~ raced => CalmWorker(r)
      BY <1>1, Before
    <3> QED BY <1>2, <1>5, <3>1, IdleFacts
      DEF CalmStep, CalmWorker, Creating, OnAdmin, Syncing, InSync, Late
  <2>2. r.kind # "idle" /\ n.kind \in {"idle", r.kind} /\ row' = row /\ role' = role
        /\ orphans' = orphans /\ faults' = faults /\ raced' = raced
    BY <1>2, <1>5, IdleFacts
  <2>3. Typed /\ Calm
    BY DEF IInv
  <2> QED BY ONLY w \in Workers, <1>1, <1>5, <2>1, <2>2, <2>3, QuietCalm
<1>9. ASSUME r.alone PROVE AloneOk(r)
  BY <1>1, <1>2, <1>9, Before
<1>10. ASSUME r.alone, n.kind # "idle" PROVE AloneOk(n)'
  <2>1. /\ r.kind = "sync" /\ n.kind = "sync" /\ n.step = "restart" /\ n.left = r.left
        /\ n.user = r.user /\ n.update = r.update /\ n.hard = r.hard
    BY <1>5, <1>10, IdleFacts
  <2>2. AloneSync(r)
    BY <1>9, <1>10 DEF AloneOk
  <2>3. AloneSync(n)'
    BY <1>2, <2>1, <2>2
    DEF AloneSync, Syncing, InSync, Agrees, HasRow, HasRole, Listed, Left
  <2> QED BY <2>1, <2>3 DEF AloneOk, AloneCreating, AlonePut, AloneInit, AloneDelete
<1>11. \/ settled' = settled
       \/ n.kind = "idle" /\ settled' = Remembered(r) /\ (r.alone => Kept')
  <2>1. CASE r.kind = "sync"
    BY <1>5, <2>1
  <2>2. CASE r.kind # "sync"
    <3>1. ASSUME r.alone PROVE Kept'
      <4>1. /\ settled' = Remembered(r) /\ settled'.kind = r.kind
            /\ settled'.user = r.user /\ settled'.type = r.type /\ settled'.clean = r.clean
        <5>1. settled' = Remembered(r)
          BY <1>5, <2>2
        <5>2. Remembered(r) = [kind |-> r.kind, user |-> r.user, type |-> r.type,
                               update |-> r.update, hard |-> r.hard, clean |-> r.clean]
          BY <3>1 DEF Remembered
        <5> QED BY <5>1, <5>2
      <4>2. r.kind = "put" => Agrees(r.user)'
        BY <1>2, <1>9, <3>1 DEF AloneOk, AlonePut, Agrees, HasRow, HasRole
      <4>3. r.kind = "init" /\ r.clean => (\A u \in Reserved : Agrees(u)') /\ r.user = Public
        <5>1. r.kind = "init" /\ r.clean => \A u \in Reserved : Agrees(u)
          BY <1>2, <1>9, <3>1 DEF AloneOk, AloneInit
        <5> QED BY <1>2, <1>3, <5>1 DEF FormOk, Agrees, HasRow, HasRole
      <4>4. r.user \in member'
        BY <1>2
      <4>5. PICK u : u = r.user
        OBVIOUS
      <4>6. Ready'
        <5>1. Settled("put")' => Agrees(settled.user)'
          <6>1. Settled("put")' => Agrees(u)' /\ u = settled'.user
            BY <4>1, <4>2, <4>5 DEF Settled
          <6> QED BY <6>1 DEF Agrees, HasRow, HasRole
        <5>2. settled'.user \in member'
          BY <4>1, <4>4
        <5>3. Settled("init")' /\ settled'.clean =>
                (\A x \in Reserved : Agrees(x))' /\ Public \in member'
          BY <4>1, <4>3, <4>4 DEF Settled
        <5> QED BY <5>1, <5>2, <5>3 DEF Ready
      <4>7. SyncRepairs' /\ DeleteForgets'
        BY <1>2, <2>2, <4>1 DEF SyncRepairs, DeleteForgets, Settled
      <4> QED BY <4>6, <4>7 DEF Kept
    <3> QED BY <1>5, <2>2, <3>1, IdleFacts
  <2> QED BY <2>1, <2>2
<1>12. r.kind # "idle" /\ (n.kind = "idle" \/ n.alone = r.alone)
  BY <1>2, <1>5, IdleFacts
<1> QED BY ONLY IInv, w \in Workers, <1>1, <1>5, <1>6, <1>7, <1>8, <1>10, <1>11, <1>12, FullStep

LEMMA RetypeStep ==
  ASSUME IInv, NEW w \in Workers, Retype(w)
  PROVE  IInv'
<1>1. PICK r : r = worker[w]
  OBVIOUS
<1>2. /\ r.kind = "patch" /\ r.step = "retype" /\ SaveType(r.user, r.type)
      /\ Becomes(w, Idle) /\ settled' = Remembered(r)
      /\ UNCHANGED <<role, member, privs, rest, fresh, started, faults, raced, orphans>>
  BY <1>1 DEF Retype, At, End, Becomes
<1>3. /\ r \in Workings /\ WorkerOk(r) /\ FormOk(r) /\ TablesOk /\ fresh \in Nat
  BY <1>1, Before
<1>4. r.user \in Users /\ r.user \in Names /\ r.type \in Types
  BY <1>2, <1>3, NameFacts DEF FormOk, Workings
<1>5. /\ row' \in [Names -> Rows \cup {None}]
      /\ \A x \in Names : HasRow(x)' <=> HasRow(x)
      /\ \A x \in Names : x # r.user => row'[x] = row[x]
      /\ \A x \in Names : HasRow(x) => row'[x].password = row[x].password
  BY <1>2, <1>3, <1>4, SavedType
<1>6. PICK n : n = Idle
  OBVIOUS
<1>7. n \in Workings /\ n.kind = "idle" /\ Becomes(w, n)
  BY <1>2, <1>6, IdleFacts
<1>8. WorkerOk(n)' /\ CalmWorker(n)'
  <2>1. WorkerOk(n)'
    <3>1. WorkerOk(Idle)'
      BY <1>2, <1>3, IdleWorker
    <3> QED BY <1>6, <3>1 DEF WorkerOk
  <2> QED BY <1>7, <2>1 DEF CalmWorker, Creating, OnAdmin, Syncing
<1>9. TablesOk' /\ fresh <= fresh'
  <2>1. \A u \in Names : HasRow(u)' => row'[u].password <= fresh'
    BY <1>2, <1>3, <1>5 DEF TablesOk
  <2>2. HasRow(Authenticator)' => row'[Authenticator].type = "PGREST"
    <3>1. row'[Authenticator] = row[Authenticator]
      BY <1>4, <1>5, NameFacts
    <3> QED BY <1>3, <3>1 DEF TablesOk, HasRow
  <2> QED BY <1>2, <1>3, <1>5, <2>1, <2>2 DEF TablesOk, HasRole
<1>10. Calm'
  <2> SUFFICES ASSUME faults = 0, ~ raced
               PROVE  Separate' /\ CalmState' /\ CalmPairs'
                      /\ \A v \in Workers : CalmWorker(worker[v])'
    BY <1>2 DEF Calm
  <2>1. /\ worker'[w] = n
        /\ \A v \in Workers : v # w => worker'[v] = worker[v]
    BY <1>7, Moved DEF IInv, Typed
  <2>2. Separate /\ CalmState /\ CalmPairs /\ \A v \in Workers : CalmWorker(worker[v])
    BY DEF IInv, Calm
  <2>3. Typed
    BY DEF IInv
  <2>4. Separate'
    BY <1>1, <1>2, <1>7, <2>2, <2>3, StepSeparate
  <2>5. \A v \in Workers : CalmWorker(worker[v])'
    <3>1. role' = role
      BY <1>2
    <3> QED BY ONLY w \in Workers, <1>5, <1>7, <1>8, <2>2, <2>3, <3>1, StepWorkers
  <2>6. CalmPairs'
    <3>1. ~ OnAdmin(n, Late)
      BY <1>7 DEF OnAdmin
    <3> QED BY <1>7, <2>2, <2>3, <3>1, NotOnAdmin, StepPairs
  <2>7. \A u : Probing(u) => Probing(u)'
    <3> SUFFICES ASSUME NEW u, NEW v \in Workers,
                        Syncing(worker[v], {"probe", "apply"}), worker[v].user = u
                 PROVE  Syncing(worker'[v], {"probe", "apply"}) /\ worker'[v].user = u
      BY DEF Probing, Syncing
    <3> QED BY <1>1, <1>2, <2>1 DEF Syncing
  <2>8. Saving => Saving'
    <3> SUFFICES ASSUME NEW v \in Workers, OnAdmin(worker[v], {"save"})
                 PROVE  OnAdmin(worker'[v], {"save"})
      BY DEF Saving, OnAdmin
    <3> QED BY <1>1, <1>2, <2>1 DEF OnAdmin
  <2>9. AdminPassword' = AdminPassword
    BY <1>5, NameFacts DEF AdminPassword
  <2>10. CalmState'
    <3>1. HasRow(Public)' => row'[Public].password = Fixed
      BY <1>5, <2>2, NameFacts DEF CalmState
    <3>2. ASSUME NEW u \in Names \ (orphans' \cup {Admin}), HasRole(u)', ~ Probing(u)'
          PROVE  HasRow(u)' /\ row'[u].password = role'[u]
      BY <1>2, <1>5, <2>2, <2>7, <3>2 DEF CalmState, HasRole
    <3>3. ~ Saving' /\ ~ Probing(Admin)' => AdminPassword' = role'[Admin]
      BY <1>2, <2>2, <2>7, <2>8, <2>9 DEF CalmState
    <3> QED BY <3>1, <3>2, <3>3 DEF CalmState
  <2> QED BY <2>4, <2>5, <2>6, <2>10
<1>11. ASSUME r.alone PROVE Kept'
  <2>1. settled'.kind = "patch"
    BY <1>2, <1>11 DEF Remembered
  <2> QED BY <2>1 DEF Kept, Ready, SyncRepairs, DeleteForgets, Settled
<1>12. r.kind # "idle" /\ n.kind = "idle"
       /\ (n.kind = "idle" /\ settled' = Remembered(r) /\ (r.alone => Kept'))
  BY <1>2, <1>7, <1>11
<1> QED BY ONLY IInv, w \in Workers, <1>1, <1>7, <1>8, <1>9, <1>10, <1>12, FullStep

LEMMA SyncedStep ==
  ASSUME IInv, NEW w \in Workers, Synced(w)
  PROVE  IInv'
<1>1. PICK r, n : r = worker[w] /\ n = Idle
  OBVIOUS
<1>2. /\ r.kind = "sync" /\ r.step = "pick" /\ r.left = {}
      /\ Becomes(w, n) /\ settled' = Remembered(r)
      /\ UNCHANGED <<row, role, member, privs, rest, fresh, started, faults, raced, orphans>>
  BY <1>1 DEF Synced, At, End, Becomes
<1>3. /\ r \in Workings /\ WorkerOk(r) /\ FormOk(r) /\ TablesOk /\ fresh \in Nat
      /\ fresh \in 0 .. MaxPasswords /\ privs \in [Names -> SUBSET Privileges]
  BY <1>1, Before
<1>4. n \in Workings /\ n.kind = "idle"
  BY <1>1, IdleFacts
<1>5. WorkerOk(n)'
  <2>1. WorkerOk(Idle)'
    BY <1>2, <1>3, IdleWorker
  <2> QED BY <1>1, <2>1 DEF WorkerOk
<1>6. TablesOk' /\ fresh <= fresh'
  BY <1>2, <1>3, QuietTables
<1>7. Calm'
  <2>1. CalmStep(r, n)
    BY <1>2, <1>4 DEF CalmStep, CalmWorker, Creating, OnAdmin, Syncing
  <2>2. r.kind # "idle" /\ n.kind \in {"idle", r.kind} /\ row' = row /\ role' = role
        /\ orphans' = orphans /\ faults' = faults /\ raced' = raced /\ Becomes(w, n)
    BY <1>2, <1>4
  <2>3. Typed /\ Calm
    BY DEF IInv
  <2> QED BY ONLY w \in Workers, <1>1, <1>4, <2>1, <2>2, <2>3, QuietCalm
<1>8. ASSUME r.alone PROVE Kept'
  <2>1. AloneSync(r)
    BY <1>1, <1>2, <1>8, Before DEF AloneOk
  <2>2. \A u : ~ Left(r, u)
    BY <1>2 DEF Left
  <2>3. /\ \A u \in Names : u \in Listed(r) => Agrees(u)
        /\ r.hard /\ r.update /\ HasRow(Authenticator) => rest = role[Authenticator]
    BY <1>2, <2>1, <2>2 DEF AloneSync, Syncing, InSync
  <2>4. settled'.kind = "sync" /\ settled'.hard = r.hard /\ settled'.update = r.update
    BY <1>2, <1>8 DEF Remembered
  <2>5. ASSUME NEW u \in Names, HasRow(u)
        PROVE  /\ row[u].type \in {"ADMIN", "PUBLIC", "USER"} => Agrees(u)
               /\ u = Authenticator /\ r.hard => Agrees(u)
               /\ u = Authenticator /\ r.hard /\ r.update => rest = role[u]
    <3>1. row[u].type \in {"ADMIN", "PUBLIC", "USER"} => u \in Listed(r)
      BY <2>5 DEF Listed
    <3>2. u = Authenticator /\ r.hard => u \in Listed(r)
      BY <1>3, <2>5 DEF Listed, TablesOk
    <3> QED BY <2>3, <2>5, <3>1, <3>2
  <2>6. SyncRepairs'
    <3>1. ASSUME NEW u \in Names, HasRow(u)'
          PROVE  /\ row'[u].type \in {"ADMIN", "PUBLIC", "USER"} => Agrees(u)'
                 /\ u = Authenticator /\ settled'.hard => Agrees(u)'
                 /\ u = Authenticator /\ settled'.hard /\ settled'.update => rest' = role'[u]
      BY <1>2, <2>4, <2>5, <3>1 DEF Agrees, HasRow, HasRole
    <3> QED BY <3>1 DEF SyncRepairs
  <2>7. Ready' /\ DeleteForgets'
    BY <2>4 DEF Ready, DeleteForgets, Settled
  <2> QED BY <2>6, <2>7 DEF Kept
<1>9. r.kind # "idle"
      /\ (n.kind = "idle" /\ settled' = Remembered(r) /\ (r.alone => Kept'))
  BY <1>2, <1>4, <1>8
<1> QED BY ONLY IInv, w \in Workers, <1>1, <1>2, <1>4, <1>5, <1>6, <1>7, <1>9, FullStep

LEMMA PickCalm ==
  ASSUME IInv, NEW w \in Workers, NEW n \in Workings, NEW r, r = worker[w], Becomes(w, n),
         r.kind = "sync", r.step = "pick", NEW u \in Names, NEW p \in Passwords,
         SavePassword(u, p), u = Public => p = Fixed, Left(r, u),
         n.kind = "sync", n.step = "probe", n.user = u, n.pw = p, n.left \subseteq r.left,
         role' = role, orphans' = orphans, faults' = faults, raced' = raced
  PROVE  Calm'
<1> SUFFICES ASSUME faults = 0, ~ raced
             PROVE  Separate' /\ CalmState' /\ CalmPairs'
                    /\ \A v \in Workers : CalmWorker(worker[v])'
  BY DEF Calm
<1>1. /\ worker'[w] = n
      /\ \A v \in Workers : v # w => worker'[v] = worker[v]
  BY Moved DEF IInv, Typed
<1>2. Separate /\ CalmState /\ CalmPairs /\ CalmWorker(r)
  BY DEF IInv, Calm
<1>3. r \in Workings /\ TablesOk /\ Typed
  BY Before DEF IInv
<1>4. \A t \in r.left : t[1] \in Names /\ HasRow(t[1])
  BY <1>2, <1>3 DEF CalmWorker, Syncing, InSync, Workings
<1>5. HasRow(u)
  BY <1>4 DEF Left
<1>6. /\ \A x \in Names : HasRow(x)' <=> HasRow(x)
      /\ \A x \in Names : x # u => row'[x] = row[x]
      /\ row'[u].password = p
  BY <1>3, <1>5, SavedRow
<1>7. Separate'
  BY <1>2, <1>3, StepSeparate
<1>8. \A v \in Workers : v # w => worker[v].kind = "idle" /\ worker'[v].kind = "idle"
  BY <1>1, <1>2 DEF Separate, Busy
<1>9. (\A x : ~ Probing(x)) /\ ~ Saving /\ Probing(u)'
  <2>1. Probing(u)'
    BY <1>1 DEF Probing, Syncing
  <2> QED BY <1>8, <2>1 DEF Probing, Saving, Syncing, OnAdmin
<1>10. CalmWorker(n)'
  BY <1>4, <1>5, <1>6 DEF CalmWorker, Creating, OnAdmin, Syncing
<1>11. \A v \in Workers : CalmWorker(worker[v])'
  BY <1>1, <1>8, <1>10 DEF CalmWorker, Creating, OnAdmin, Syncing
<1>12. CalmPairs'
  BY <1>1, <1>8 DEF CalmPairs, Apart, OnAdmin
<1>13. CalmState'
  <2>1. HasRow(Public)' => row'[Public].password = Fixed
    BY <1>2, <1>6, NameFacts DEF CalmState
  <2>2. ASSUME NEW x \in Names \ (orphans' \cup {Admin}), HasRole(x)', ~ Probing(x)'
        PROVE  HasRow(x)' /\ row'[x].password = role'[x]
    <3>1. x # u
      BY <1>9, <2>2
    <3> QED BY <1>2, <1>6, <1>9, <2>2, <3>1 DEF CalmState, HasRole
  <2>3. ~ Probing(Admin)' => AdminPassword' = role'[Admin]
    <3> SUFFICES ASSUME ~ Probing(Admin)' PROVE AdminPassword' = role'[Admin]
      OBVIOUS
    <3>1. u # Admin
      BY <1>9
    <3> QED BY <1>2, <1>6, <1>9, <3>1, NameFacts DEF CalmState, AdminPassword
  <2> QED BY <2>1, <2>2, <2>3 DEF CalmState
<1> QED BY <1>7, <1>11, <1>12, <1>13

LEMMA PickStep ==
  ASSUME IInv, NEW w \in Workers, Pick(w)
  PROVE  IInv'
<1>1. PICK r : r = worker[w]
  OBVIOUS
<1>2. /\ r.kind = "sync" /\ r.step = "pick"
      /\ UNCHANGED <<role, member, privs, rest, started, faults, raced, settled, orphans>>
  BY <1>1 DEF Pick, At
<1>3. /\ r \in Workings /\ WorkerOk(r) /\ FormOk(r) /\ TablesOk /\ fresh \in Nat
      /\ fresh \in 0 .. MaxPasswords
  BY <1>1, Before
<1>4. PICK t \in r.left :
        \/ /\ t[1] = Public /\ SavePassword(t[1], Fixed) /\ fresh' = fresh
           /\ Becomes(w, [r EXCEPT !.user = t[1], !.pw = Fixed, !.step = "probe",
                                   !.left = r.left \ {t}])
        \/ /\ t[1] # Public /\ SavePassword(t[1], t[2]) /\ fresh' = fresh
           /\ Becomes(w, [r EXCEPT !.user = t[1], !.pw = t[2], !.step = "probe",
                                   !.left = r.left \ {t}])
        \/ /\ t[1] # Public /\ SavePassword(t[1], fresh')
           /\ fresh < MaxPasswords /\ fresh' = fresh + 1
           /\ Becomes(w, [r EXCEPT !.user = t[1], !.pw = fresh', !.step = "probe",
                                   !.left = r.left \ {t}])
  BY <1>1, Zenon DEF Pick, Generate
<1>5. t[1] \in Names /\ t[2] \in Passwords /\ t[2] <= fresh
  BY <1>3 DEF Workings, WorkerOk
<1>a. PICK p \in Passwords, u \in Names : \E L, n :
        /\ u = t[1] /\ L = r.left \ {t}
        /\ u = Public => p = Fixed
        /\ SavePassword(u, p) /\ p <= fresh' /\ fresh' \in 0 .. MaxPasswords /\ fresh <= fresh'
        /\ Becomes(w, n)
        /\ n = [r EXCEPT !.user = u, !.pw = p, !.step = "probe", !.left = L]
  <2>1. CASE t[1] = Public /\ SavePassword(t[1], Fixed) /\ fresh' = fresh
             /\ Becomes(w, [r EXCEPT !.user = t[1], !.pw = Fixed, !.step = "probe",
                                     !.left = r.left \ {t}])
    <3>1. Fixed <= fresh' /\ fresh' \in 0 .. MaxPasswords /\ fresh <= fresh'
      BY <1>3, <2>1 DEF Fixed
    <3> QED BY <1>5, <2>1, <3>1, PasswordFacts
  <2>2. CASE t[1] # Public /\ SavePassword(t[1], t[2]) /\ fresh' = fresh
             /\ Becomes(w, [r EXCEPT !.user = t[1], !.pw = t[2], !.step = "probe",
                                     !.left = r.left \ {t}])
    <3>1. t[2] <= fresh' /\ fresh' \in 0 .. MaxPasswords /\ fresh <= fresh'
      BY <1>3, <1>5, <2>2
    <3> QED BY <1>5, <2>2, <3>1
  <2>3. CASE t[1] # Public /\ SavePassword(t[1], fresh')
             /\ fresh < MaxPasswords /\ fresh' = fresh + 1
             /\ Becomes(w, [r EXCEPT !.user = t[1], !.pw = fresh', !.step = "probe",
                                     !.left = r.left \ {t}])
    <3>1. fresh' \in Passwords /\ fresh' <= fresh' /\ fresh' \in 0 .. MaxPasswords
          /\ fresh <= fresh'
      BY <1>3, <2>3, BoundsAssumption DEF Passwords, Fixed
    <3>2. PICK p : p = fresh'
      OBVIOUS
    <3> QED BY <1>5, <2>3, <3>1, <3>2
  <2> QED BY <1>4, <2>1, <2>2, <2>3
<1>6. PICK L, n :
        /\ u = t[1] /\ L = r.left \ {t}
        /\ u = Public => p = Fixed
        /\ SavePassword(u, p) /\ p <= fresh' /\ fresh' \in 0 .. MaxPasswords /\ fresh <= fresh'
        /\ Becomes(w, n)
        /\ n = [r EXCEPT !.user = u, !.pw = p, !.step = "probe", !.left = L]
  BY <1>a
<1>7. /\ n \in Workings /\ n.kind = "sync" /\ n.step = "probe" /\ n.user = u /\ n.pw = p
      /\ n.left = L /\ n.con = r.con /\ n.dbCon = r.dbCon /\ n.alone = r.alone
      /\ n.update = r.update /\ n.hard = r.hard
  <2>1. L \in SUBSET (Names \X Passwords)
    BY <1>3, <1>6 DEF Workings
  <2>2. n = [r EXCEPT !.user = u, !.pw = p, !.step = "probe", !.left = L]
    BY <1>6
  <2> QED BY <1>2, <1>3, <2>1, <2>2 DEF Workings, Steps
<1>8. WorkerOk(n)'
  <2>1. FormOk(n)
    BY <1>7 DEF FormOk, Creating, InSync
  <2>2. /\ r.con \in Nat /\ r.dbCon \in Nat /\ r.con <= fresh /\ r.dbCon <= fresh
        /\ \A x \in r.left : x[2] \in Nat /\ x[2] <= fresh
    BY <1>3, PasswordFacts DEF WorkerOk, Workings
  <2> QED BY <1>3, <1>6, <1>7, <2>1, <2>2 DEF WorkerOk
<1>9. TablesOk'
  BY <1>2, <1>3, <1>6, SavedTables
<1>10. Calm'
  <2>1. Left(r, u)
    BY <1>6 DEF Left
  <2>2. n.left \subseteq r.left
    BY <1>6, <1>7
  <2>3. role' = role /\ orphans' = orphans /\ faults' = faults /\ raced' = raced
    BY <1>2
  <2>4. Becomes(w, n) /\ SavePassword(u, p) /\ (u = Public => p = Fixed)
    BY <1>6
  <2> QED BY ONLY IInv, w \in Workers, u \in Names, p \in Passwords,
        <1>1, <1>2, <1>7, <2>1, <2>2, <2>3, <2>4, PickCalm
<1>11. ASSUME r.alone PROVE AloneOk(n)'
  <2>1. AloneSync(r)
    BY <1>1, <1>2, <1>11, Before DEF AloneOk
  <2>2. /\ \A x \in r.left : HasRow(x[1])
        /\ \A x \in Names : x \in Listed(r) => Agrees(x) \/ Left(r, x)
        /\ r.hard /\ r.update /\ HasRow(Authenticator) =>
             rest = role[Authenticator] \/ Left(r, Authenticator)
    BY <1>2, <2>1 DEF AloneSync, Syncing, InSync
  <2>3. HasRow(u)
    BY <1>6, <2>2
  <2>4. /\ \A x \in Names : HasRow(x)' <=> HasRow(x)
        /\ \A x \in Names : x # u => row'[x] = row[x]
        /\ \A x \in Names : HasRow(x) => row'[x].type = row[x].type
        /\ row'[u].password = p
    BY <1>3, <1>6, <2>3, SavedRow
  <2>5. \A x : Left(r, x) => x = u \/ Left(n, x)
    <3> SUFFICES ASSUME NEW x, NEW y \in r.left, y[1] = x, x # u PROVE y \in n.left
      BY DEF Left
    <3> QED BY <1>6, <1>7
  <2>6. ASSUME NEW x \in Names, (x \in Listed(n))' PROVE Agrees(x)' \/ Left(n, x) \/ u = x
    <3>1. x \in Listed(r)
      BY <1>7, <2>4, <2>6 DEF Listed
    <3> QED BY <1>2, <2>2, <2>4, <2>5, <3>1 DEF Agrees, HasRole, HasRow
  <2>7. \A x \in n.left : HasRow(x[1])'
    <3>1. \A x \in r.left : x[1] \in Names
      BY <1>3 DEF Workings
    <3> QED BY <1>6, <1>7, <2>2, <2>4, <3>1
  <2>8. n.hard /\ n.update /\ HasRow(Authenticator)' =>
          rest' = role'[Authenticator] \/ Left(n, Authenticator) \/ n.user = Authenticator
    BY <1>2, <1>7, <2>2, <2>4, <2>5, NameFacts
  <2>9. AloneSync(n)'
    BY <1>7, <2>3, <2>4, <2>6, <2>7, <2>8 DEF AloneSync, Syncing, InSync, Left
  <2> QED BY <1>7, <2>9 DEF AloneOk, AloneCreating, AlonePut, AloneInit, AloneDelete
<1>12. settled' = settled /\ r.kind # "idle" /\ n.alone = r.alone /\ fresh <= fresh'
       /\ Becomes(w, n)
  BY <1>2, <1>6, <1>7
<1> QED BY ONLY IInv, w \in Workers, <1>1, <1>8, <1>9, <1>10, <1>11, <1>12, FullStep

LEMMA RestartRestStep ==
  ASSUME IInv, NEW w \in Workers, RestartRest(w)
  PROVE  IInv'
<1>1. PICK r, n : r = worker[w] /\ n = Returned(r, None, "pick")
  OBVIOUS
<1>2. /\ r.kind = "sync" /\ r.step = "restart" /\ Becomes(w, n)
      /\ rest' = IF r.update /\ r.hard /\ r.user = Authenticator /\ HasRow(Authenticator)
                 THEN row[Authenticator].password ELSE rest
      /\ UNCHANGED <<row, role, member, privs, fresh, started, faults, raced, settled, orphans>>
  BY <1>1 DEF RestartRest, At
<1>3. /\ r \in Workings /\ WorkerOk(r) /\ FormOk(r) /\ TablesOk /\ fresh \in Nat
      /\ fresh \in 0 .. MaxPasswords /\ privs \in [Names -> SUBSET Privileges]
  BY <1>1, Before
<1>4. /\ n \in Workings /\ n.kind = r.kind /\ n.user = None /\ n.step = "pick"
      /\ n.type = r.type /\ n.pw = Fixed /\ n.con = Fixed /\ n.dbCon = r.dbCon
      /\ n.left = r.left /\ n.alone = r.alone /\ n.clean = r.clean
      /\ n.update = r.update /\ n.hard = r.hard
  <2>1. PICK step, u : step = "pick" /\ u = None
    OBVIOUS
  <2>2. n = Returned(r, u, step) /\ step \in Steps /\ u \in Names \cup {None} /\ r \in Workings
    BY <1>1, <1>3, <2>1 DEF Steps
  <2>3. /\ n \in Workings /\ n.kind = r.kind /\ n.user = u /\ n.step = step
        /\ n.type = r.type /\ n.pw = Fixed /\ n.con = Fixed /\ n.dbCon = r.dbCon
        /\ n.left = r.left /\ n.alone = r.alone /\ n.clean = r.clean
        /\ n.update = r.update /\ n.hard = r.hard
    BY ONLY <2>2, ReturnedShape
  <2> QED BY <2>1, <2>3
<1>5. WorkerOk(n)'
  <2>1. FormOk(n)
    BY <1>2, <1>4 DEF FormOk, Creating, InSync
  <2> QED BY <1>2, <1>3, <1>4, <2>1, KeepsBounds
<1>6. TablesOk' /\ fresh <= fresh'
  <2>1. HasRow(Authenticator) => row[Authenticator].password \in Passwords
    BY <1>3, NameFacts DEF TablesOk, HasRow, Rows
  <2> QED BY <1>2, <1>3, <2>1 DEF TablesOk, HasRow, HasRole
<1>7. Calm'
  <2>1. CalmStep(r, n) \/ faults # 0 \/ raced
    <3>1. faults = 0 /\ ~ raced => CalmWorker(r)
      BY <1>1, Before
    <3> QED BY <1>2, <1>4, <3>1
      DEF CalmStep, CalmWorker, Creating, OnAdmin, Syncing, InSync, Late
  <2>2. r.kind # "idle" /\ n.kind \in {"idle", r.kind} /\ row' = row /\ role' = role
        /\ orphans' = orphans /\ faults' = faults /\ raced' = raced /\ Becomes(w, n)
    BY <1>2, <1>4
  <2>3. Typed /\ Calm
    BY DEF IInv
  <2>4. r = worker[w] /\ n \in Workings
    BY <1>1, <1>4
  <2> QED BY ONLY w \in Workers, <2>1, <2>2, <2>3, <2>4, QuietCalm
<1>8. ASSUME r.alone PROVE AloneOk(n)'
  <2>1. AloneSync(r)
    BY <1>1, <1>2, <1>8, Before DEF AloneOk
  <2>2. /\ \A x \in r.left : HasRow(x[1])
        /\ \A x \in Names : x \in Listed(r) => Agrees(x) \/ Left(r, x)
        /\ r.hard /\ r.update /\ HasRow(Authenticator) =>
             rest = role[Authenticator] \/ Left(r, Authenticator) \/ r.user = Authenticator
    BY <1>2, <2>1 DEF AloneSync, Syncing, InSync
  <2>3. r.hard /\ HasRow(Authenticator) => Agrees(Authenticator) \/ Left(r, Authenticator)
    <3>1. r.hard /\ HasRow(Authenticator) => Authenticator \in Listed(r)
      BY <1>3, NameFacts DEF Listed, TablesOk
    <3> QED BY <2>2, <3>1, NameFacts
  <2>4. n.hard /\ n.update /\ HasRow(Authenticator)' =>
          rest' = role'[Authenticator] \/ Left(n, Authenticator)
    <3> SUFFICES ASSUME r.hard, r.update, HasRow(Authenticator), ~ Left(r, Authenticator)
                 PROVE  rest' = role[Authenticator]
      BY <1>2, <1>4 DEF HasRow, Left
    <3>1. Agrees(Authenticator)
      BY <2>3
    <3>2. CASE r.user = Authenticator
      BY <1>2, <3>1, <3>2 DEF Agrees
    <3>3. CASE r.user # Authenticator
      BY <1>2, <2>2, <3>3
    <3> QED BY <3>2, <3>3
  <2>5. \A x \in Names : (x \in Listed(n))' => Agrees(x)' \/ Left(n, x)
    BY <1>2, <1>4, <2>2 DEF Listed, Agrees, HasRow, HasRole, Left
  <2>6. \A x \in n.left : HasRow(x[1])'
    BY <1>2, <1>4, <2>2 DEF HasRow
  <2>7. AloneSync(n)'
    BY <1>2, <1>4, <2>4, <2>5, <2>6 DEF AloneSync, Syncing, InSync, Left
  <2> QED BY <1>2, <1>4, <2>7 DEF AloneOk, AloneCreating, AlonePut, AloneInit, AloneDelete
<1>9. settled' = settled /\ r.kind # "idle" /\ n.alone = r.alone /\ r = worker[w]
      /\ Becomes(w, n)
  BY <1>1, <1>2, <1>4
<1> QED BY ONLY IInv, w \in Workers, <1>5, <1>6, <1>7, <1>8, <1>9, FullStep

LEMMA DropStep ==
  ASSUME IInv, NEW w \in Workers, Drop(w)
  PROVE  IInv'
<1>1. PICK r : r = worker[w]
  OBVIOUS
<1>2. PICK d, rest1, D, step, n :
        /\ r.kind = "delete" /\ r.step = "drop" /\ Opens(r.con) /\ HasRole(r.user)
        /\ d \in r.dbs /\ rest1 = privs[r.user] \ {<<d, "database">>}
        /\ privs' = [privs EXCEPT ![r.user] = rest1]
        /\ rest1 = {} => role' = [role EXCEPT ![r.user] = None] /\ member' = member \ {r.user}
        /\ rest1 # {} => role' = role /\ member' = member
        /\ D = r.dbs \ {d} /\ step = (IF D = {} THEN "forget" ELSE "revoke")
        /\ n = [r EXCEPT !.dbs = D, !.step = step] /\ Becomes(w, n)
        /\ UNCHANGED <<row, rest, fresh, started, faults, raced, settled, orphans>>
  BY <1>1, Zenon DEF Drop, At, NextDatabase
<1>3. /\ r \in Workings /\ WorkerOk(r) /\ FormOk(r) /\ TablesOk /\ fresh \in Nat
  BY <1>1, Before
<1>4. r.user \in Users /\ r.user \in Names /\ r.user \notin {Admin, Public, Authenticator}
  BY <1>2, <1>3, NameFacts DEF FormOk
<1>5. /\ n \in Workings /\ n.kind = "delete" /\ n.user = r.user /\ n.step = step /\ n.dbs = D
      /\ n.pw = r.pw /\ n.con = r.con /\ n.dbCon = r.dbCon /\ n.left = r.left
      /\ n.alone = r.alone /\ n.clean = r.clean /\ step \in {"forget", "revoke"}
  <2>1. step \in {"forget", "revoke"} /\ step \in Steps /\ D \in SUBSET (Databases \cup {Postgres})
    BY <1>2, <1>3 DEF Workings, Steps
  <2>2. n = [r EXCEPT !.dbs = D, !.step = step] /\ r.kind = "delete"
    BY <1>2
  <2> QED BY <1>3, <2>1, <2>2 DEF Workings
<1>6. WorkerOk(n)'
  <2>1. FormOk(n)
    BY <1>3, <1>4, <1>5 DEF FormOk, Creating
  <2> QED BY <1>2, <1>3, <1>5, <2>1, KeepsBounds
<1>7. /\ role' \in [Names -> Passwords \cup {None}]
      /\ \A u \in Names : u # r.user => role'[u] = role[u]
      /\ rest1 = {} => role'[r.user] = None
      /\ rest1 # {} => role' = role
      /\ \A u \in Names : HasRole(u)' => HasRole(u) /\ role'[u] = role[u]
  <2>1. CASE rest1 = {}
    BY <1>2, <1>3, <1>4, <2>1 DEF TablesOk, HasRole
  <2>2. CASE rest1 # {}
    BY <1>2, <1>3, <2>2 DEF TablesOk, HasRole
  <2> QED BY <2>1, <2>2
<1>8. TablesOk' /\ fresh <= fresh'
  <2>1. privs' \in [Names -> SUBSET Privileges]
    BY <1>2, <1>3, <1>4 DEF TablesOk
  <2>2. member' \subseteq Names /\ \A u \in member' : HasRole(u)'
    <3>1. CASE rest1 = {}
      BY <1>2, <1>3, <1>7, <3>1 DEF TablesOk, HasRole
    <3>2. CASE rest1 # {}
      BY <1>2, <1>3, <3>2 DEF TablesOk, HasRole
    <3> QED BY <3>1, <3>2
  <2>3. HasRole(Admin)'
    BY <1>3, <1>4, <1>7, NameFacts DEF TablesOk, HasRole
  <2> QED BY <1>2, <1>3, <1>7, <2>1, <2>2, <2>3 DEF TablesOk, HasRow
<1>9. Calm'
  <2> SUFFICES ASSUME faults = 0, ~ raced
               PROVE  Separate' /\ CalmState' /\ CalmPairs'
                      /\ \A v \in Workers : CalmWorker(worker[v])'
    BY <1>2 DEF Calm
  <2>1. /\ worker'[w] = n
        /\ \A v \in Workers : v # w => worker'[v] = worker[v]
    BY <1>2, <1>5, Moved DEF IInv, Typed
  <2>2. Separate /\ CalmState
    BY DEF IInv, Calm
  <2>3. \A v \in Workers : v # w => worker[v].kind = "idle" /\ worker'[v].kind = "idle"
    BY <1>1, <1>2, <2>1, <2>2 DEF Separate, Busy
  <2>4. Separate'
    BY <2>1, <2>3 DEF Separate, Busy
  <2>5. \A v \in Workers : CalmWorker(worker[v])'
    BY <1>5, <2>1, <2>3 DEF CalmWorker, Creating, OnAdmin, Syncing
  <2>6. CalmPairs'
    BY <2>1, <2>3 DEF CalmPairs, Apart, OnAdmin
  <2>7. (\A u : ~ Probing(u)) /\ ~ Saving
    BY <1>1, <1>2, <2>3 DEF Probing, Saving, Syncing, OnAdmin
  <2>8. ASSUME NEW u \in Names \ (orphans' \cup {Admin}), HasRole(u)'
        PROVE  HasRow(u)' /\ row'[u].password = role'[u]
    BY <1>2, <1>7, <2>2, <2>7, <2>8 DEF CalmState, HasRow
  <2>9. AdminPassword' = role'[Admin]
    BY <1>2, <1>4, <1>7, <2>2, <2>7, NameFacts DEF CalmState, AdminPassword, HasRow
  <2>10. CalmState'
    BY <1>2, <2>2, <2>8, <2>9 DEF CalmState, HasRow
  <2> QED BY <2>4, <2>5, <2>6, <2>10
<1>10. ASSUME r.alone PROVE AloneOk(n)'
  <2>1. AloneDelete(r)
    BY <1>1, <1>2, <1>10, Before DEF AloneOk
  <2>2. AloneDelete(n)'
    <3> SUFFICES ASSUME NEW e, Databases = {e}, r.clean, HasRow(Admin)
                 PROVE  /\ step = "revoke" => Opens(r.con)' /\ (HasRole(r.user)' => e \in D)
                        /\ step = "forget" => ~ HasRole(r.user)'
      BY <1>2, <1>5 DEF AloneDelete, HasRow
    <3>1. Opens(r.con)' /\ e \in r.dbs /\ <<e, "schemas">> \notin privs[r.user]
      BY <1>2, <1>4, <1>7, <2>1, NameFacts DEF AloneDelete, Opens
    <3>2. CASE d = e
      <4>1. privs[r.user] \subseteq Privileges
        BY <1>3, <1>4 DEF TablesOk
      <4>2. rest1 = {}
        BY <1>2, <3>1, <3>2, <4>1 DEF Privileges
      <4> QED BY <1>7, <3>1, <4>2 DEF HasRole
    <3>3. CASE d # e
      BY <1>2, <3>1, <3>3
    <3> QED BY <3>2, <3>3
  <2> QED BY <1>5, <2>2 DEF AloneOk, AloneCreating, AlonePut, AloneInit, AloneSync, Syncing
<1>11. settled' = settled /\ r.kind # "idle" /\ n.alone = r.alone /\ Becomes(w, n)
  BY <1>2, <1>5
<1> QED BY ONLY IInv, w \in Workers, <1>1, <1>6, <1>8, <1>9, <1>10, <1>11, FullStep

LEMMA ForgetStep ==
  ASSUME IInv, NEW w \in Workers, Forget(w)
  PROVE  IInv'
<1>1. PICK r, n : r = worker[w] /\ n = Idle
  OBVIOUS
<1>2. /\ r.kind = "delete" /\ r.step = "forget" /\ row' = [row EXCEPT ![r.user] = None]
      /\ orphans' = IF HasRole(r.user) THEN orphans \cup {r.user} ELSE orphans
      /\ Becomes(w, n) /\ settled' = Remembered(r)
      /\ UNCHANGED <<role, member, privs, rest, fresh, started, faults, raced>>
  BY <1>1 DEF Forget, At, End, Becomes
<1>3. /\ r \in Workings /\ WorkerOk(r) /\ FormOk(r) /\ TablesOk /\ fresh \in Nat
  BY <1>1, Before
<1>4. r.user \in Users /\ r.user \in Names /\ r.user \notin {Admin, Public, Authenticator}
  BY <1>2, <1>3, NameFacts DEF FormOk
<1>5. n \in Workings /\ n.kind = "idle"
  BY <1>1, IdleFacts
<1>6. WorkerOk(n)' /\ CalmWorker(n)'
  <2>1. WorkerOk(Idle)'
    BY <1>2, <1>3, IdleWorker
  <2>2. WorkerOk(n)'
    BY <1>1, <2>1 DEF WorkerOk
  <2> QED BY <1>5, <2>2 DEF CalmWorker, Creating, OnAdmin, Syncing
<1>7. /\ row' \in [Names -> Rows \cup {None}] /\ row'[r.user] = None
      /\ \A u \in Names : u # r.user => row'[u] = row[u]
  BY <1>2, <1>3, <1>4 DEF TablesOk
<1>8. TablesOk' /\ fresh <= fresh'
  <2>1. \A u \in Names : HasRow(u)' => HasRow(u) /\ row'[u] = row[u]
    BY <1>7 DEF HasRow
  <2>2. orphans' \subseteq Users
    BY <1>2, <1>3, <1>4 DEF TablesOk
  <2>3. \A u \in Names : HasRow(u)' => row'[u].password <= fresh'
    BY <1>2, <1>3, <2>1 DEF TablesOk
  <2>4. HasRow(Authenticator)' => row'[Authenticator].type = "PGREST"
    BY <1>3, <2>1, NameFacts DEF TablesOk
  <2> QED BY <1>2, <1>3, <1>7, <2>2, <2>3, <2>4 DEF TablesOk, HasRole
<1>9. Calm'
  <2> SUFFICES ASSUME faults = 0, ~ raced
               PROVE  Separate' /\ CalmState' /\ CalmPairs'
                      /\ \A v \in Workers : CalmWorker(worker[v])'
    BY <1>2 DEF Calm
  <2>1. /\ worker'[w] = n
        /\ \A v \in Workers : v # w => worker'[v] = worker[v]
    BY <1>2, <1>5, Moved DEF IInv, Typed
  <2>2. Separate /\ CalmState
    BY DEF IInv, Calm
  <2>3. \A v \in Workers : worker'[v].kind = "idle" /\ (v # w => worker[v].kind = "idle")
    BY <1>1, <1>2, <1>5, <2>1, <2>2 DEF Separate, Busy
  <2>4. Separate' /\ CalmPairs' /\ \A v \in Workers : CalmWorker(worker[v])'
    BY <2>3 DEF Separate, Busy, CalmPairs, Apart, CalmWorker, Creating, OnAdmin, Syncing
  <2>5. (\A u : ~ Probing(u)) /\ ~ Saving
    BY <1>1, <1>2, <2>3 DEF Probing, Saving, Syncing, OnAdmin
  <2>6. ASSUME NEW u \in Names \ (orphans' \cup {Admin}), HasRole(u)'
        PROVE  HasRow(u)' /\ row'[u].password = role'[u]
    <3>1. u # r.user /\ u \notin orphans
      BY <1>2, <2>6 DEF HasRole
    <3> QED BY <1>2, <1>7, <2>2, <2>5, <2>6, <3>1 DEF CalmState, HasRow, HasRole
  <2>7. AdminPassword' = role'[Admin]
    BY <1>2, <1>4, <1>7, <2>2, <2>5, NameFacts DEF CalmState, AdminPassword, HasRow
  <2>8. HasRow(Public)' => row'[Public].password = Fixed
    BY <1>4, <1>7, <2>2, NameFacts DEF CalmState, HasRow
  <2> QED BY <2>4, <2>6, <2>7, <2>8 DEF CalmState
<1>10. ASSUME r.alone PROVE Kept'
  <2>1. settled'.kind = "delete" /\ settled'.user = r.user /\ settled'.clean = r.clean
    BY <1>2, <1>10 DEF Remembered
  <2>2. AloneDelete(r)
    BY <1>1, <1>2, <1>10, Before DEF AloneOk
  <2>3. ASSUME NEW d, Databases = {d} PROVE DeleteForgets'
    <3> SUFFICES ASSUME r.clean, HasRow(Admin)'
                 PROVE  ~ HasRow(r.user)' /\ ~ HasRole(r.user)' /\ r.user \notin member'
      <4>1. ASSUME ~ HasRow(r.user)', ~ HasRole(r.user)'
            PROVE  ~ HasRow(settled.user)' /\ ~ HasRole(settled.user)'
        BY <2>1, <4>1 DEF HasRow, HasRole
      <4> QED BY <2>1, <4>1 DEF DeleteForgets
    <3>1. HasRow(Admin)
      BY <1>4, <1>7, NameFacts DEF HasRow
    <3>2. ~ HasRole(r.user)
      BY <1>2, <2>2, <2>3, <3>1 DEF AloneDelete
    <3>3. r.user \notin member
      BY <1>3, <3>2 DEF TablesOk
    <3> QED BY <1>2, <1>7, <3>2, <3>3 DEF HasRow, HasRole
  <2> QED BY <2>1, <2>3 DEF Kept, Ready, SyncRepairs, Settled
<1>11. r.kind # "idle" /\ Becomes(w, n)
       /\ (n.kind = "idle" /\ settled' = Remembered(r) /\ (r.alone => Kept'))
  BY <1>2, <1>5, <1>10
<1> QED BY ONLY IInv, w \in Workers, <1>1, <1>5, <1>6, <1>8, <1>9, <1>11, FullStep

-----------------------------------------------------------------------------
(* Requests that begin, and what happens beside the requests.              *)

\* Only the mark of being alone changes.
LEMMA AccompaniedFacts ==
  ASSUME Typed
  PROVE  /\ Accompanied \in [Workers -> Workings]
         /\ \A v \in Workers : \E s \in Workings :
              /\ s = Accompanied[v] /\ WorkerOk(s)
              /\ s.kind = worker[v].kind /\ s.user = worker[v].user /\ s.step = worker[v].step
              /\ s.found = worker[v].found /\ s.pw = worker[v].pw /\ s.con = worker[v].con
              /\ s.left = worker[v].left
              /\ s.kind # "idle" => ~ s.alone
<1>1. ASSUME NEW v \in Workers
      PROVE  \E s \in Workings :
              /\ s = Accompanied[v] /\ WorkerOk(s)
              /\ s.kind = worker[v].kind /\ s.user = worker[v].user /\ s.step = worker[v].step
              /\ s.found = worker[v].found /\ s.pw = worker[v].pw /\ s.con = worker[v].con
              /\ s.left = worker[v].left
              /\ s.kind # "idle" => ~ s.alone
  <2>1. PICK r, b, s : r = worker[v] /\ b = (r.kind = "idle") /\ s = [r EXCEPT !.alone = b]
    OBVIOUS
  <2>2. r \in Workings /\ WorkerOk(r) /\ b \in BOOLEAN /\ (r.kind # "idle" => b = FALSE)
    BY <2>1 DEF Typed
  <2>3. s = [r EXCEPT !.alone = b]
    BY <2>1
  <2>4. /\ s \in Workings /\ s.kind = r.kind /\ s.user = r.user /\ s.step = r.step
        /\ s.type = r.type /\ s.found = r.found /\ s.pw = r.pw /\ s.con = r.con
        /\ s.dbCon = r.dbCon /\ s.left = r.left /\ s.alone = b
    BY ONLY <2>2, <2>3 DEF Workings
  <2>5. WorkerOk(s)
    BY <2>2, <2>4 DEF WorkerOk, FormOk, Creating
  <2>6. s = Accompanied[v]
    BY <2>1 DEF Accompanied
  <2>7. s.kind # "idle" => ~ s.alone
    BY <2>2, <2>4
  <2> QED BY <2>1, <2>4, <2>5, <2>6, <2>7
<1>2. Accompanied \in [Workers -> Workings]
  BY <1>1 DEF Accompanied
<1> QED BY <1>1, <1>2

\* What the others are, when another request begins or a grant is made.
SameWork(s, r) ==
  /\ s.kind = r.kind /\ s.user = r.user /\ s.step = r.step
  /\ s.found = r.found /\ s.pw = r.pw /\ s.con = r.con /\ s.left = r.left

LEMMA SameWorkIsCalm ==
  ASSUME NEW s, NEW r, SameWork(s, r), CalmWorker(r), row' = row, role' = role
  PROVE  CalmWorker(s)'
BY DEF SameWork, CalmWorker, Creating, OnAdmin, Syncing, HasRow, HasRole

LEMMA BeginStep ==
  ASSUME IInv, NEW w \in Workers, NEW r \in Workings, Start(w, r), FormOk(r),
         r.kind # "idle", r.pw = Fixed, r.con = Fixed, r.dbCon = Fixed, r.left = {},
         r.step \in {"lookup", "read", "open", "list"},
         r.kind \in {"put", "init"} => r.step = "lookup" /\ r.user # Authenticator,
         r.kind = "sync" => r.step = "list"
  PROVE  IInv'
<1>1. PICK b, n : b = (Busy = {}) /\ n = [r EXCEPT !.alone = b]
  OBVIOUS
<1>2. /\ worker[w] = Idle /\ started < MaxRequests /\ started' = started + 1
      /\ worker' = [Accompanied EXCEPT ![w] = n] /\ settled' = None
      /\ UNCHANGED <<row, role, member, privs, rest, fresh, faults, orphans>>
      /\ raced' = (raced \/ (Busy # {} /\
           ({r.kind} \cup {worker[v].kind : v \in Busy}) \cap {"sync", "delete"} # {}))
  BY <1>1 DEF Start
<1>3. Typed /\ TablesOk /\ Company /\ Calm /\ fresh \in Nat
  BY BoundsAssumption DEF IInv, Typed, TablesOk
<1>4. /\ n \in Workings /\ n.kind = r.kind /\ n.user = r.user /\ n.step = r.step
      /\ n.pw = Fixed /\ n.con = Fixed /\ n.dbCon = Fixed /\ n.left = {}
      /\ n.alone = b /\ n.type = r.type /\ b \in BOOLEAN
  <2>1. b \in BOOLEAN /\ n = [r EXCEPT !.alone = b]
    BY <1>1
  <2> QED BY <2>1 DEF Workings
<1>5. WorkerOk(n)'
  <2>1. FormOk(n)
    BY <1>4 DEF FormOk, Creating
  <2> QED BY <1>2, <1>3, <1>4, <2>1 DEF WorkerOk, Fixed
<1>6. /\ Accompanied \in [Workers -> Workings]
      /\ \A v \in Workers : \E s \in Workings :
              /\ s = Accompanied[v] /\ WorkerOk(s) /\ SameWork(s, worker[v])
              /\ s.kind # "idle" => ~ s.alone
  BY <1>3, AccompaniedFacts DEF SameWork
<1>7. /\ worker' \in [Workers -> Workings] /\ worker'[w] = n
      /\ \A v \in Workers : v # w => worker'[v] = Accompanied[v]
  BY <1>2, <1>4, <1>6
<1>8. ASSUME NEW v \in Workers, v # w
      PROVE  \E s \in Workings :
              /\ s = worker'[v] /\ WorkerOk(s)' /\ SameWork(s, worker[v])
              /\ s.kind # "idle" => ~ s.alone
  <2>1. PICK s \in Workings :
              /\ s = Accompanied[v] /\ WorkerOk(s) /\ SameWork(s, worker[v])
              /\ s.kind # "idle" => ~ s.alone
    BY <1>6
  <2>2. WorkerOk(s)'
    BY <1>2, <2>1 DEF WorkerOk
  <2> QED BY <1>7, <1>8, <2>1, <2>2
<1>9. raced' \in BOOLEAN
  BY <1>2, <1>3 DEF TablesOk
<1>10. Typed'
  <2>1. TablesOk'
    BY <1>2, <1>3, <1>9, BoundsAssumption DEF TablesOk, HasRow, HasRole
  <2>2. ASSUME NEW v \in Workers PROVE WorkerOk(worker[v])'
    <3>1. CASE v = w
      BY <1>5, <1>7, <3>1
    <3>2. CASE v # w
      BY <1>8, <3>2
    <3> QED BY <3>1, <3>2
  <2> QED BY <1>2, <1>7, <2>1, <2>2 DEF Typed
<1>11. Idle.kind = "idle"
  BY IdleFacts
<1>12. w \notin Busy /\ Busy' = Busy \cup {w}
  <2>1. \A v \in Workers : v # w => (worker'[v].kind = worker[v].kind)
    BY <1>8 DEF SameWork
  <2> QED BY <1>2, <1>4, <1>7, <1>11, <2>1 DEF Busy
<1>13. ASSUME NEW v \in Busy', worker'[v].alone PROVE v = w /\ Busy' = {w}
  <2>1. v = w
    BY <1>8, <1>13 DEF Busy
  <2> QED BY <1>1, <1>4, <1>7, <1>12, <1>13, <2>1
<1>14. Company'
  BY <1>2, <1>13 DEF Company
<1>15. Alone'
  <2>1. AloneOk(n)'
    BY <1>4, NameFacts
    DEF AloneOk, AloneCreating, AlonePut, AloneInit, AloneSync, AloneDelete, Syncing, InSync, Late
  <2> QED BY <1>7, <1>13, <2>1 DEF Alone
<1>16. Kept'
  BY <1>2, NothingKept
<1>17. Calm'
  <2> SUFFICES ASSUME faults = 0, ~ raced'
               PROVE  Separate' /\ CalmState' /\ CalmPairs'
                      /\ \A v \in Workers : CalmWorker(worker[v])'
    BY <1>2 DEF Calm
  <2>1. ~ raced /\ (Busy = {} \/ (r.kind \notin {"sync", "delete"}
                                  /\ \A v \in Busy : worker[v].kind \notin {"sync", "delete"}))
    BY <1>2
  <2>2. Separate /\ CalmState /\ CalmPairs /\ \A v \in Workers : CalmWorker(worker[v])
    BY <1>3, <2>1 DEF Calm
  <2>3. Separate'
    <3> SUFFICES ASSUME NEW v \in Busy', worker'[v].kind \in {"sync", "delete"}
                 PROVE  Busy' = {v}
      BY DEF Separate
    <3>1. CASE v = w
      BY <1>4, <1>7, <1>12, <2>1, <3>1
    <3>2. CASE v # w
      <4>1. v \in Busy /\ worker[v].kind \in {"sync", "delete"}
        BY <1>8, <1>12, <3>2 DEF SameWork, Busy
      <4> QED BY <2>1, <4>1
    <3> QED BY <3>1, <3>2
  <2>4. CalmWorker(n)' /\ ~ OnAdmin(n, Late)
    BY <1>4 DEF CalmWorker, Creating, OnAdmin, Syncing, Late, InSync
  <2>5. ASSUME NEW v \in Workers PROVE CalmWorker(worker[v])'
    <3>1. CASE v = w
      BY <1>7, <2>4, <3>1
    <3>2. CASE v # w
      <4>1. PICK s \in Workings : s = worker'[v] /\ SameWork(s, worker[v])
        BY <1>8, <3>2
      <4>2. PICK x : x = worker[v] /\ CalmWorker(x) /\ SameWork(s, x)
        BY <2>2, <4>1
      <4>3. row' = row /\ role' = role
        BY <1>2
      <4>4. CalmWorker(s)'
        BY ONLY <4>2, <4>3, SameWorkIsCalm
      <4> QED BY <4>1, <4>4
    <3> QED BY <3>1, <3>2
  <2>6. CalmPairs'
    <3>1. ASSUME NEW v \in Workers, NEW x \in Workers, v # x
          PROVE  Apart(worker'[v], worker'[x])
      <4>1. CASE v = w \/ x = w
        BY <1>7, <2>4, <4>1, NotOnAdmin
      <4>2. CASE v # w /\ x # w
        <5>1. SameWork(worker'[v], worker[v]) /\ SameWork(worker'[x], worker[x])
          BY <1>8, <4>2
        <5> QED BY <2>2, <3>1, <5>1 DEF CalmPairs, Apart, OnAdmin, SameWork
      <4> QED BY <4>1, <4>2
    <3> QED BY <3>1 DEF CalmPairs, Apart, OnAdmin, Late
  <2>7. \A u : Probing(u) => Probing(u)'
    <3> SUFFICES ASSUME NEW u, NEW v \in Workers,
                        Syncing(worker[v], {"probe", "apply"}), worker[v].user = u
                 PROVE  Syncing(worker'[v], {"probe", "apply"}) /\ worker'[v].user = u
      BY DEF Probing, Syncing
    <3>1. v # w
      BY <1>2, <1>11 DEF Syncing
    <3> QED BY <1>8, <3>1 DEF SameWork, Syncing
  <2>8. Saving => Saving'
    <3> SUFFICES ASSUME NEW v \in Workers, OnAdmin(worker[v], {"save"})
                 PROVE  OnAdmin(worker'[v], {"save"})
      BY DEF Saving, OnAdmin
    <3>1. v # w
      BY <1>2, <1>11 DEF OnAdmin
    <3> QED BY <1>8, <3>1 DEF SameWork, OnAdmin
  <2>9. CalmState'
    BY <1>2, <2>2, <2>7, <2>8 DEF CalmState, HasRow, HasRole, AdminPassword
  <2> QED BY <2>3, <2>5, <2>6, <2>9
<1> QED BY <1>10, <1>14, <1>15, <1>16, <1>17 DEF IInv

LEMMA GrantStep ==
  ASSUME IInv, NEW u \in Users, NEW p \in Privileges, Grant(u, p)
  PROVE  IInv'
<1>1. /\ worker' = Accompanied /\ settled' = None
      /\ privs' = [privs EXCEPT ![u] = privs[u] \cup {p}]
      /\ UNCHANGED <<row, role, member, rest, fresh, started, faults, raced, orphans>>
      /\ \A w \in Busy : worker[w].kind = "delete"
  BY DEF Grant
<1>2. Typed /\ TablesOk /\ Company /\ Calm /\ u \in Names
  BY NameFacts DEF IInv, Typed
<1>3. /\ worker' \in [Workers -> Workings]
      /\ \A v \in Workers : \E s \in Workings :
              /\ s = worker'[v] /\ WorkerOk(s) /\ SameWork(s, worker[v])
              /\ s.kind # "idle" => ~ s.alone
  BY <1>1, <1>2, AccompaniedFacts DEF SameWork
<1>4. Typed'
  <2>1. TablesOk'
    BY <1>1, <1>2 DEF TablesOk, HasRow, HasRole
  <2>2. ASSUME NEW v \in Workers PROVE WorkerOk(worker[v])'
    <3>1. PICK s \in Workings : s = worker'[v] /\ WorkerOk(s)
      BY <1>3
    <3>2. WorkerOk(s)'
      BY <1>1, <3>1 DEF WorkerOk
    <3> QED BY <3>1, <3>2
  <2> QED BY <1>1, <1>3, <2>1, <2>2 DEF Typed
<1>5. Busy' = Busy /\ \A v \in Busy' : ~ worker'[v].alone
  BY <1>3 DEF Busy, SameWork
<1>6. Company' /\ Alone' /\ Kept'
  BY <1>1, <1>5, NothingKept DEF Company, Alone
<1>7. Calm'
  <2> SUFFICES ASSUME faults = 0, ~ raced
               PROVE  Separate' /\ CalmState' /\ CalmPairs'
                      /\ \A v \in Workers : CalmWorker(worker[v])'
    BY <1>1 DEF Calm
  <2>1. Separate /\ CalmState /\ CalmPairs /\ \A v \in Workers : CalmWorker(worker[v])
    BY <1>2 DEF Calm
  <2>2. \A v \in Workers : worker[v].kind \in {"idle", "delete"}
                           /\ worker'[v].kind \in {"idle", "delete"}
    BY <1>1, <1>3 DEF SameWork, Busy
  <2>3. Separate'
    BY <1>3, <1>5, <2>1 DEF Separate, SameWork, Busy
  <2>4. CalmPairs' /\ \A v \in Workers : CalmWorker(worker[v])'
    BY <2>2 DEF CalmPairs, Apart, CalmWorker, Creating, OnAdmin, Syncing
  <2>5. (\A x : ~ Probing(x)) /\ ~ Saving
    BY <2>2 DEF Probing, Saving, Syncing, OnAdmin
  <2>6. CalmState'
    BY <1>1, <2>1, <2>5 DEF CalmState, HasRow, HasRole, AdminPassword
  <2> QED BY <2>3, <2>4, <2>6
<1> QED BY <1>4, <1>6, <1>7 DEF IInv

LEMMA RestStartsStep ==
  ASSUME IInv, RestStarts
  PROVE  IInv'
<1>1. /\ HasRow(Authenticator) /\ rest' = row[Authenticator].password
      /\ UNCHANGED <<row, role, member, privs, worker, fresh, started, faults, raced,
                     settled, orphans>>
  BY DEF RestStarts
<1>2. Typed /\ TablesOk /\ Company /\ Calm /\ Alone /\ Kept
  BY DEF IInv, Typed
<1>3. rest' \in Passwords
  BY <1>1, <1>2, NameFacts DEF TablesOk, HasRow, Rows
<1>4. Typed'
  BY <1>1, <1>2, <1>3 DEF Typed, TablesOk, WorkerOk, HasRow, HasRole
<1>5. Company' /\ Calm'
  BY <1>1, <1>2
  DEF Company, Calm, Busy, Separate, CalmState, CalmPairs, CalmWorker, Saving, Probing,
      HasRow, HasRole, AdminPassword, Creating, OnAdmin, Syncing, Apart
<1>6. ASSUME NEW w \in Busy, worker[w].alone PROVE AloneOk(worker[w])'
  <2>1. PICK r : r = worker[w] /\ r = worker'[w]
    BY <1>1
  <2>2. AloneOk(r) /\ w \in Workers
    BY <1>2, <1>6, <2>1 DEF Alone, Busy
  <2>3. AloneCreating(r)' /\ AlonePut(r)' /\ AloneInit(r)' /\ AloneDelete(r)'
    BY <1>1, <2>2
    DEF AloneOk, AloneCreating, AlonePut, AloneInit, AloneDelete, HasRow, HasRole, Agrees,
        Opens, AdminPassword
  <2>4. AloneSync(r)'
    <3> SUFFICES ASSUME Syncing(r, InSync) PROVE AloneSync(r)'
      BY DEF AloneSync, Syncing
    <3>1. /\ \A t \in r.left : HasRow(t[1])
          /\ r.step \in {"probe", "apply"} => HasRow(r.user) /\ row[r.user].password = r.pw
          /\ r.step = "apply" => r.found = HasRole(r.user)
          /\ \A u \in Names : u \in Listed(r) =>
               Agrees(u) \/ Left(r, u) \/ (r.step \in {"probe", "apply"} /\ r.user = u)
      BY <2>2 DEF AloneOk, AloneSync
    <3>2. r.hard => Authenticator \in Listed(r)
      BY <1>1, <1>2, NameFacts DEF Listed, TablesOk
    <3>3. r.hard => \/ rest' = role[Authenticator] \/ Left(r, Authenticator)
                    \/ r.step \in {"probe", "apply"} /\ r.user = Authenticator
      BY <1>1, <3>1, <3>2, NameFacts DEF Agrees
    <3>4. \A u \in Names : (u \in Listed(r))' =>
            Agrees(u)' \/ Left(r, u) \/ (r.step \in {"probe", "apply"} /\ r.user = u)
      BY <1>1, <3>1 DEF Listed, Agrees, HasRow, HasRole
    <3> QED BY <1>1, <3>1, <3>3, <3>4 DEF AloneSync, HasRow, HasRole, Left
  <2> QED BY <2>1, <2>3, <2>4 DEF AloneOk
<1>7. Alone'
  BY <1>1, <1>6 DEF Alone, Busy
<1>8. Kept'
  <2>1. Ready' /\ (DeleteForgets => DeleteForgets')
    BY <1>1, <1>2 DEF Kept, Ready, DeleteForgets, Settled, Agrees, HasRow, HasRole
  <2>2. SyncRepairs'
    BY <1>1, <1>2, NameFacts DEF Kept, SyncRepairs, Settled, Agrees, HasRow, HasRole
  <2> QED BY <1>2, <2>1, <2>2 DEF Kept
<1> QED BY <1>4, <1>5, <1>7, <1>8 DEF IInv

\* The five ways a request begins.
LEMMA PutUserStep ==
  ASSUME IInv, NEW w \in Workers, PutUser(w)
  PROVE  IInv'
<1>1. PICK u \in Users, t \in {"USER", "SERVICE_ACCOUNT"} :
        Start(w, [Idle EXCEPT !.kind = "put", !.user = u, !.type = t])
  BY DEF PutUser
<1>2. PICK i, r : i = Idle /\ r = [i EXCEPT !.kind = "put", !.user = u, !.type = t]
  OBVIOUS
<1>3. Start(w, r)
  BY <1>1, <1>2
<1>4. /\ i \in Workings /\ i.step = "lookup" /\ i.left = {}
      /\ i.pw = Fixed /\ i.con = Fixed /\ i.dbCon = Fixed
  BY <1>2, IdleFacts
<1>5. u \in Names /\ u # Authenticator /\ t \in Types
  BY NameFacts DEF Types
<1>6. /\ r \in Workings /\ r.kind = "put" /\ r.user = u /\ r.type = t /\ r.step = "lookup"
      /\ r.left = {} /\ r.pw = Fixed /\ r.con = Fixed /\ r.dbCon = Fixed
  BY ONLY <1>2, <1>4, <1>5 DEF Workings
<1>7. FormOk(r)
  BY ONLY <1>6, t \in {"USER", "SERVICE_ACCOUNT"}, u \in Users DEF FormOk, Creating
<1>8. /\ r.kind # "idle" /\ r.step \in {"lookup", "read", "open", "list"}
      /\ r.kind \in {"put", "init"} => r.step = "lookup" /\ r.user # Authenticator
      /\ r.kind = "sync" => r.step = "list"
  BY <1>5, <1>6
<1> QED BY <1>3, <1>6, <1>7, <1>8, BeginStep

LEMMA PatchUserStep ==
  ASSUME IInv, NEW w \in Workers, PatchUser(w)
  PROVE  IInv'
<1>1. PICK u \in Users, t \in {"USER", "ADMIN"} :
        Start(w, [Idle EXCEPT !.kind = "patch", !.user = u, !.type = t, !.step = "read"])
  BY DEF PatchUser
<1>2. PICK i, r : /\ i = Idle
                  /\ r = [i EXCEPT !.kind = "patch", !.user = u, !.type = t, !.step = "read"]
  OBVIOUS
<1>3. Start(w, r)
  BY <1>1, <1>2
<1>4. /\ i \in Workings /\ i.left = {}
      /\ i.pw = Fixed /\ i.con = Fixed /\ i.dbCon = Fixed
  BY <1>2, IdleFacts
<1>5. u \in Names /\ t \in Types
  BY NameFacts DEF Types
<1>6. /\ r \in Workings /\ r.kind = "patch" /\ r.user = u /\ r.step = "read"
      /\ r.left = {} /\ r.pw = Fixed /\ r.con = Fixed /\ r.dbCon = Fixed
  BY ONLY <1>2, <1>4, <1>5 DEF Workings, Steps
<1>7. FormOk(r)
  BY ONLY <1>6, u \in Users DEF FormOk, Creating
<1>8. /\ r.kind # "idle" /\ r.step \in {"lookup", "read", "open", "list"}
      /\ r.kind \in {"put", "init"} => r.step = "lookup" /\ r.user # Authenticator
      /\ r.kind = "sync" => r.step = "list"
  BY <1>6
<1> QED BY <1>3, <1>6, <1>7, <1>8, BeginStep

LEMMA DeleteUserStep ==
  ASSUME IInv, NEW w \in Workers, DeleteUser(w)
  PROVE  IInv'
<1>1. PICK u \in Users : Start(w, [Idle EXCEPT !.kind = "delete", !.user = u, !.step = "open"])
  BY DEF DeleteUser
<1>2. PICK i, r : i = Idle /\ r = [i EXCEPT !.kind = "delete", !.user = u, !.step = "open"]
  OBVIOUS
<1>3. Start(w, r)
  BY <1>1, <1>2
<1>4. /\ i \in Workings /\ i.left = {}
      /\ i.pw = Fixed /\ i.con = Fixed /\ i.dbCon = Fixed
  BY <1>2, IdleFacts
<1>5. u \in Names
  BY NameFacts
<1>6. /\ r \in Workings /\ r.kind = "delete" /\ r.user = u /\ r.step = "open"
      /\ r.left = {} /\ r.pw = Fixed /\ r.con = Fixed /\ r.dbCon = Fixed
  BY ONLY <1>2, <1>4, <1>5 DEF Workings, Steps
<1>7. FormOk(r)
  BY ONLY <1>6, u \in Users DEF FormOk, Creating
<1>8. /\ r.kind # "idle" /\ r.step \in {"lookup", "read", "open", "list"}
      /\ r.kind \in {"put", "init"} => r.step = "lookup" /\ r.user # Authenticator
      /\ r.kind = "sync" => r.step = "list"
  BY <1>6
<1> QED BY <1>3, <1>6, <1>7, <1>8, BeginStep

LEMMA SyncUsersStep ==
  ASSUME IInv, NEW w \in Workers, SyncUsers(w)
  PROVE  IInv'
<1>1. PICK u \in BOOLEAN, h \in BOOLEAN :
        Start(w, [Idle EXCEPT !.kind = "sync", !.step = "list", !.update = u, !.hard = h])
  BY DEF SyncUsers
<1>2. PICK i, r : /\ i = Idle
                  /\ r = [i EXCEPT !.kind = "sync", !.step = "list", !.update = u, !.hard = h]
  OBVIOUS
<1>3. Start(w, r)
  BY <1>1, <1>2
<1>4. /\ i \in Workings /\ i.left = {}
      /\ i.pw = Fixed /\ i.con = Fixed /\ i.dbCon = Fixed
  BY <1>2, IdleFacts
<1>5. /\ r \in Workings /\ r.kind = "sync" /\ r.step = "list"
      /\ r.left = {} /\ r.pw = Fixed /\ r.con = Fixed /\ r.dbCon = Fixed
  <2>1. r = [i EXCEPT !.kind = "sync", !.step = "list", !.update = u, !.hard = h]
    BY <1>2
  <2>2. u \in BOOLEAN /\ h \in BOOLEAN
    OBVIOUS
  <2> QED BY ONLY <1>4, <2>1, <2>2 DEF Workings, Steps
<1>6. FormOk(r)
  BY ONLY <1>5 DEF FormOk, Creating, InSync
<1>7. /\ r.kind # "idle" /\ r.step \in {"lookup", "read", "open", "list"}
      /\ r.kind \in {"put", "init"} => r.step = "lookup" /\ r.user # Authenticator
      /\ r.kind = "sync" => r.step = "list"
  BY <1>5
<1> QED BY <1>3, <1>5, <1>6, <1>7, BeginStep

LEMMA InitDbStep ==
  ASSUME IInv, NEW w \in Workers, InitDb(w)
  PROVE  IInv'
<1>1. PICK i, r : i = Idle /\ r = [i EXCEPT !.kind = "init", !.user = Admin]
  OBVIOUS
<1>2. Start(w, r)
  BY <1>1 DEF InitDb
<1>3. /\ i \in Workings /\ i.step = "lookup" /\ i.left = {}
      /\ i.pw = Fixed /\ i.con = Fixed /\ i.dbCon = Fixed
  BY <1>1, IdleFacts
<1>4. Admin \in Names /\ Admin # Authenticator /\ Admin \in Reserved
  BY NameFacts
<1>5. /\ r \in Workings /\ r.kind = "init" /\ r.user = Admin /\ r.step = "lookup"
      /\ r.left = {} /\ r.pw = Fixed /\ r.con = Fixed /\ r.dbCon = Fixed
  BY ONLY <1>1, <1>3, <1>4 DEF Workings
<1>6. FormOk(r)
  BY ONLY <1>4, <1>5 DEF FormOk, Creating
<1>7. /\ r.kind # "idle" /\ r.step \in {"lookup", "read", "open", "list"}
      /\ r.kind \in {"put", "init"} => r.step = "lookup" /\ r.user # Authenticator
      /\ r.kind = "sync" => r.step = "list"
  BY <1>4, <1>5
<1> QED BY <1>2, <1>5, <1>6, <1>7, BeginStep

-----------------------------------------------------------------------------
(* The invariant holds, and what it says.                                  *)

LEMMA InitIInv == Init => IInv
<1> SUFFICES ASSUME Init PROVE IInv
  OBVIOUS
<1>1. PICK i : /\ i = Idle /\ i \in Workings /\ FormOk(i) /\ i.kind = "idle" /\ i.left = {}
               /\ i.pw = Fixed /\ i.con = Fixed /\ i.dbCon = Fixed
  BY IdleFacts
<1>2. \A w \in Workers : worker[w] = i
  BY <1>1 DEF Init
<1>3. /\ row = [u \in Names |-> None]
      /\ role = [u \in Names |-> IF u = Admin THEN Fixed ELSE None]
      /\ member = {} /\ privs = [u \in Names |-> {}] /\ rest = None /\ settled = None
      /\ started = 0 /\ fresh = 0 /\ faults = 0 /\ raced = FALSE /\ orphans = {}
  BY DEF Init
<1>4. /\ \A u \in Names : ~ HasRow(u)
      /\ \A u \in Names : HasRole(u) => u = Admin
      /\ role[Admin] = Fixed /\ HasRole(Admin)
  BY <1>3, NameFacts, PasswordFacts DEF HasRow, HasRole
<1>5. Typed
  <2>1. TablesOk
    <3>1. row \in [Names -> Rows \cup {None}] /\ role \in [Names -> Passwords \cup {None}]
      BY <1>3, PasswordFacts
    <3>2. privs \in [Names -> SUBSET Privileges]
      BY <1>3
    <3>3. 0 \in 0 .. MaxRequests /\ 0 \in 0 .. MaxPasswords /\ 0 \in 0 .. MaxFaults
      BY BoundsAssumption
    <3> QED BY <1>3, <1>4, <3>1, <3>2, <3>3, NameFacts DEF TablesOk
  <2>2. WorkerOk(i)
    BY <1>1, <1>3 DEF WorkerOk, Fixed
  <2>3. worker \in [Workers -> Workings]
    BY <1>1 DEF Init
  <2> QED BY <1>2, <1>3, <2>1, <2>2, <2>3 DEF Typed
<1>6. Busy = {}
  BY <1>1, <1>2 DEF Busy
<1>7. Company /\ Alone
  BY <1>3, <1>6 DEF Company, Alone
<1>8. Calm
  <2>1. Separate
    BY <1>6 DEF Separate
  <2>2. CalmState
    BY <1>3, <1>4, NameFacts DEF CalmState, AdminPassword
  <2>3. ~ Creating(i, Late) /\ ~ Creating(i, {"write"}) /\ ~ OnAdmin(i, Late)
        /\ ~ OnAdmin(i, {"save"}) /\ ~ Syncing(i, InSync)
        /\ ~ Syncing(i, {"probe", "apply"}) /\ ~ Syncing(i, {"apply"})
    BY <1>1 DEF Creating, OnAdmin, Syncing
  <2>4. CalmPairs /\ \A w \in Workers : CalmWorker(worker[w])
    BY <1>2, <2>3 DEF CalmPairs, Apart, CalmWorker
  <2> QED BY <2>1, <2>2, <2>4 DEF Calm
<1>9. Kept
  BY <1>3 DEF Kept, Ready, SyncRepairs, DeleteForgets, Settled
<1> QED BY <1>5, <1>7, <1>8, <1>9 DEF IInv

LEMMA StutterIInv ==
  ASSUME IInv, UNCHANGED vars
  PROVE  IInv'
<1>1. UNCHANGED <<row, role, member, privs, rest, worker, started, fresh, faults, raced,
                  orphans, settled>>
  BY DEF vars
<1>2. Typed' /\ Company'
  BY <1>1 DEF IInv, Typed, TablesOk, WorkerOk, HasRow, HasRole, Company, Busy
<1>3. Calm'
  BY <1>1
  DEF IInv, Calm, Busy, Separate, CalmState, CalmPairs, CalmWorker, Saving, Probing,
      HasRow, HasRole, AdminPassword, Creating, OnAdmin, Syncing, Apart
<1>4. ASSUME NEW w \in Busy, worker[w].alone PROVE AloneOk(worker[w])'
  <2>1. PICK r : r = worker[w] /\ r = worker'[w]
    BY <1>1
  <2>2. AloneOk(r)
    BY <1>4, <2>1 DEF IInv, Alone
  <2>3. AloneCreating(r)' /\ AlonePut(r)' /\ AloneInit(r)' /\ AloneDelete(r)'
    BY <1>1, <2>2
    DEF AloneOk, AloneCreating, AlonePut, AloneInit, AloneDelete, HasRow, HasRole, Agrees,
        Opens, AdminPassword
  <2>4. AloneSync(r)'
    BY <1>1, <2>2 DEF AloneOk, AloneSync, Listed, Agrees, HasRow, HasRole
  <2> QED BY <2>1, <2>3, <2>4 DEF AloneOk
<1>5. Alone'
  BY <1>1, <1>4 DEF Alone, Busy
<1>6. Kept'
  BY <1>1
  DEF IInv, Kept, Ready, SyncRepairs, DeleteForgets, Settled, Agrees, HasRow, HasRole
<1> QED BY <1>2, <1>3, <1>5, <1>6 DEF IInv

LEMMA NextIInv ==
  ASSUME IInv, [Next]_vars
  PROVE  IInv'
<1>1. CASE UNCHANGED vars
  BY <1>1, StutterIInv
<1>2. ASSUME NEW w \in Workers,
             PutUser(w) \/ PatchUser(w) \/ DeleteUser(w) \/ SyncUsers(w) \/ InitDb(w)
      PROVE  IInv'
  BY <1>2, PutUserStep, PatchUserStep, DeleteUserStep, SyncUsersStep, InitDbStep
<1>3. ASSUME NEW w \in Workers, Create(w) PROVE IInv'
  <2>1. CASE Lookup(w) \/ Write(w) \/ DuplicateRow(w) \/ Connect(w) \/ Probe(w)
    BY <2>1, LookupStep, WriteStep, DuplicateRowStep, ConnectStep, ProbeStep
  <2>2. CASE Apply(w) \/ Save(w) \/ Reconnect(w) \/ Impersonate(w) \/ Open(w)
    BY <2>2, ApplyStep, SaveStep, ReconnectStep, ImpersonateStep, OpenStep
  <2> QED BY <1>3, <2>1, <2>2 DEF Create
<1>4. ASSUME NEW w \in Workers, Read(w) \/ Retype(w) PROVE IInv'
  BY <1>4, ReadStep, RetypeStep
<1>5. ASSUME NEW w \in Workers, Sync(w) PROVE IInv'
  BY <1>5, ListStep, PickStep, SyncedStep, RestartRestStep DEF Sync
<1>6. ASSUME NEW w \in Workers, Delete(w) PROVE IInv'
  BY <1>6, OpenForDeleteStep, ListDatabasesStep, RevokeStep, DropStep, ForgetStep DEF Delete
<1>7. ASSUME NEW w \in Workers, Refused(w) \/ Fail(w) \/ Crash(w) PROVE IInv'
  BY <1>7, RefusedStep, FailStep, CrashStep
<1>8. ASSUME NEW u \in Users, NEW p \in Privileges, Grant(u, p) PROVE IInv'
  BY <1>8, GrantStep
<1>9. CASE RestStarts
  BY <1>9, RestStartsStep
<1> QED BY <1>1, <1>2, <1>3, <1>4, <1>5, <1>6, <1>7, <1>8, <1>9 DEF Next

\* The inductive invariant holds in every state, whatever requests overlap, fail or
\* vanish, in any number and for any number of users and databases.
THEOREM AlwaysIInv == Spec => []IInv
<1>1. IInv /\ [Next]_vars => IInv'
  BY NextIInv
<1> QED BY InitIInv, <1>1, PTL DEF Spec

\* Tables, requests and answers keep their types.
THEOREM AlwaysTyped == Spec => []TypeOK
<1>1. IInv => TypeOK
  BY DEF IInv, Typed, TablesOk, TypeOK
<1> QED BY <1>1, AlwaysIInv, PTL

\* However creations, initialisations and type changes overlap (user.js, create and
\* resetPassword; instance.js, initInstanceDb), when all requests are over and none
\* failed, every row and role of an account agree on its password.
THEOREM PasswordsAgree == Spec => []AgreeAtRest
<1>1. ASSUME IInv, Busy = {}, ~ raced, faults = 0,
             NEW u \in Names \ orphans, HasRow(u), HasRole(u)
      PROVE  Agrees(u)
  <2>1. CalmState
    BY <1>1 DEF IInv, Calm
  <2>2. \A w \in Workers : worker[w].kind = "idle"
    BY <1>1 DEF Busy
  <2>3. (\A x : ~ Probing(x)) /\ ~ Saving
    BY <2>2 DEF Probing, Saving, Syncing, OnAdmin
  <2>4. CASE u = Admin
    BY <1>1, <2>1, <2>3, <2>4 DEF CalmState, AdminPassword, Agrees
  <2>5. CASE u # Admin
    BY <1>1, <2>1, <2>3, <2>5 DEF CalmState, Agrees
  <2> QED BY <2>4, <2>5
<1>2. IInv => AgreeAtRest
  BY <1>1 DEF AgreeAtRest
<1> QED BY <1>2, AlwaysIInv, PTL

\* Whatever failed or was raced before, a creation that had the instance to itself and
\* is answered with success leaves its accounts usable (admin.js, createUser;
\* instance.js, initInstanceDb; pg-rest.js, initDb).
THEOREM CreatedIsReady == Spec => []Ready
<1>1. IInv => Ready
  BY DEF IInv, Kept
<1> QED BY <1>1, AlwaysIInv, PTL

\* A sync that is answered with success repairs whatever the passwords of the rows and
\* of the roles were before it (instance.js, remoteSyncUsers).
THEOREM SyncAlwaysRepairs == Spec => []SyncRepairs
<1>1. IInv => SyncRepairs
  BY DEF IInv, Kept
<1> QED BY <1>1, AlwaysIInv, PTL

\* On an instance with one database a deletion that met no failure removes the account
\* from both sides (user.js, delete); with more databases the code may leave the role.
THEOREM DeletionForgets == (\E d : Databases = {d}) /\ Spec => []DeleteForgets
<1> SUFFICES ASSUME \E d : Databases = {d} PROVE Spec => []DeleteForgets
  OBVIOUS
<1>1. IInv => DeleteForgets
  BY DEF IInv, Kept
<1> QED BY <1>1, AlwaysIInv, PTL
====
