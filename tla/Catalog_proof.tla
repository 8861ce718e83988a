--------------------------- MODULE Catalog_proof ---------------------------
(***************************************************************************)
(* Why a creation fails only for a cause, and what one that succeeds has   *)
(* left, for any number of requests and workers, beside any edits of the   *)
(* list of featured databases.                                             *)
(*                                                                         *)
(* No table ever loses a row, so what a request has found, or made, stays  *)
(* found.  What it has not found stays absent too, unless a request about  *)
(* the same organization puts it there: the tables grow, and passwords     *)
(* change, only under the clean name of the organization a request is      *)
(* about, and two requests under way with the same one have noticed each   *)
(* other (Noticed).  So what is true of a request (Facts) is kept by every *)
(* step of the others, and each of its own steps says what is true next.   *)
(*                                                                         *)
(* Passwords need an argument of their own (Guarded).  Whoever has given   *)
(* postgres a new password and not saved it yet is alone in knowing it     *)
(* (Secret): nobody else can connect, so nobody gives it another, and when *)
(* it is saved the row is right.  So row and role differ only while such a *)
(* request is at work, or where a fault came between the two (Sound).      *)
(*                                                                         *)
(* Then why an edit of the list takes effect.  The entries have keys of    *)
(* their own; two edits under way have noticed each other; and an edit     *)
(* that nobody disturbs knows how far it has written the list it planned   *)
(* (SoFar), so that with its last query the entries have one order, the    *)
(* planned one.                                                            *)
(***************************************************************************)
EXTENDS Featured, TLAPS, FiniteSetTheorems

Orgs == {a.org : a \in Asked} \cup {Clean(a.org) : a \in Asked}
Labels == {a.db : a \in Asked} \cup {a.instance : a \in Asked}
           \cup {Clean(a.db) : a \in Asked} \cup {Clean(a.instance) : a \in Asked}
Hosts == UNION {{org \o name : name \in Labels} : org \in Orgs}
Instances == [name : Labels, org : Orgs]
Rows == [name : Labels, org : Orgs, instance : Instances, host : Hosts]

\* The steps of a request: before its instance runs, of a user, of the
\* database, and of PostgREST.
Early == {"context", "organization", "newOrganization", "instance", "newInstance", "start"}
UserSteps == {"user", "newUser", "connect", "reset", "save", "role"}
DatabaseSteps == {"database", "newRow", "newDatabase", "create", "found", "ensure", "readBack", "target"}
RestSteps == {"schema", "grant", "rest"}
Steps == Early \cup UserSteps \cup DatabaseSteps \cup RestSteps \cup {"created", "error"}
Creations ==
  [pc : Steps, about : Orgs, hit : BOOLEAN, overlaps : BOOLEAN,
   asked : [org : Orgs, db : Labels, instance : Labels],
   instance : Instances \cup {Nobody}, row : Rows \cup {Nobody}, neighbour : BOOLEAN,
   user : {"postgres", "public", "authenticator"}, con : Nat, key : Nat,
   target : [instance : Instances, name : Labels \cup {Postgres}] \cup {Nobody}]

\* The steps of a request that knows its organization is there, and its instance.
OnInstance == {"start"} \cup UserSteps \cup DatabaseSteps \cup RestSteps
InOrganization == OnInstance \cup {"instance", "newInstance"}

\* The tables refer to what is there, and organizations have clean names.
\* Every instance has its two passwords.
Consistent ==
  /\ orgs \subseteq Orgs /\ instances \subseteq Instances /\ rows \subseteq Rows
  /\ \A org \in orgs : IsClean(org)
  /\ \A i \in instances : i.org \in orgs
  /\ \A row \in rows : row.instance \in instances /\ row.instance.org = row.org
  /\ saved \in [instances -> Nat] /\ actual \in [instances -> Nat] /\ resets \in Nat

\* A worker has a creation, an edit under way, or nothing left to do.
Editing(r) == {"pc", "about", "overlaps"} \subseteq DOMAIN r /\ r.pc \in {"read", "delete", "write"}
Over(r) == r.pc \in {"idle", "lost", "listed", "refused"}
TypeOK ==
  /\ request = [w \in Workers |-> request[w]]
  /\ \A w \in Workers : request[w] \in Creations \/ Editing(request[w]) \/ Over(request[w])

\* Requests that are about the same organization, and under way, have noticed.
Noticed ==
  \A w, o \in Workers :
    w # o /\ Busy(w) /\ Busy(o) /\ request[w].about = request[o].about => request[w].overlaps

\* The passwords that were made are the numbers up to resets.
Bounded ==
  /\ \A i \in instances : saved[i] <= resets
  /\ \A w \in Workers : request[w].pc \in Steps => request[w].con <= resets
\* Who has given postgres a new password and has not saved it yet is alone in
\* knowing it, so that nobody else can give it another.
Secret(w) ==
  LET password == request[w].con IN
  /\ password # 0 /\ password = actual[request[w].instance]
  /\ \A i \in instances : saved[i] # password
  /\ \A o \in Workers \ {w} : request[o].pc \in Steps => request[o].con # password
\* The row of an instance's postgres has its password, unless a fault has come
\* between them, or the row is about to be written.
Sound ==
  \A i \in instances :
    saved[i] = actual[i] \/ i \in cut \/ \E w \in Workers : Under(w, "save") /\ request[w].instance = i
Guarded == Bounded /\ (\A w \in Workers : Under(w, "save") => Secret(w)) /\ Sound

\* Nothing but its own steps bears on what the request looks for.
Quiet(r) == ~r.hit /\ ~r.overlaps
Alone(r) == Quiet(r) /\ Plain(r)
\* The instance a request makes.
New(r) == [name |-> InstanceName(r), org |-> r.asked.org]
\* Its database, on the instance of its context.
Database(r) == [instance |-> r.instance, name |-> r.asked.db]
User(r, user) == [instance |-> r.instance, user |-> user]
\* The row of postgres, on that instance, has its password.
Known(r) == saved[r.instance] = actual[r.instance]

\* Where a request stands: what it has tried to make, or chosen.
HasTarget(r) == r.pc \in RestSteps \/ (r.pc \in UserSteps /\ r.user = "authenticator")
HasRow(r) == HasTarget(r) \/ r.pc \in {"found", "ensure", "target", "created"}
PastDatabase(r) == HasTarget(r) \/ r.pc \in {"readBack", "target"}
PastPublic(r) == HasTarget(r) \/ r.pc \in DatabaseSteps
PastPostgres(r) == PastPublic(r) \/ (r.pc \in UserSteps /\ r.user = "public")

\* Where a request is about, whatever has hit it.
Placed(r) ==
  /\ r.about = Clean(r.asked.org)
  /\ r.instance = Nobody \/ (r.instance \in instances /\ r.instance.org = r.asked.org)
  /\ r.pc \in InOrganization => r.asked.org \in orgs
  /\ r.pc \in OnInstance => r.instance \in instances /\ r.instance.org = r.asked.org
  /\ r.pc \in Early \cup {"reset", "save"} => r.user = "postgres"
  /\ r.pc = "role" => r.user # "postgres"

\* What is missing before it is made.
Missing(r) ==
  /\ r.pc = "newOrganization" /\ Alone(r) => r.asked.org \notin orgs
  /\ r.pc = "newInstance" /\ ~r.hit => r.instance = Nobody
  /\ r.pc = "newInstance" /\ Alone(r) => New(r) \notin instances
  /\ r.pc = "newUser" /\ Quiet(r) => UserOf(r) \notin users
  /\ r.pc = "newRow" /\ Alone(r) => RowsOf(r.asked.org, r.asked.db) = {}

\* The users that are there after they were found or made: their rows, and
\* their roles if one could connect.
Peopled(r) ==
  Quiet(r) =>
    /\ r.pc \in {"connect", "reset", "save", "role"} => UserOf(r) \in users
    /\ PastPostgres(r) => User(r, "postgres") \in users
    /\ PastPublic(r) /\ Known(r) => User(r, "public") \in roles
    /\ r.pc \in RestSteps /\ Known(r) => User(r, "authenticator") \in roles

\* The passwords a request has read, or given.
Trusted(r) ==
  Quiet(r) =>
    /\ r.pc \in {"reset", "role", "create", "ensure"} => r.con = saved[r.instance]
    /\ r.pc = "save" => r.con = actual[r.instance]
    /\ HasTarget(r) => r.key = saved[r.instance]

\* The database, and where the schema goes.
Made(r) ==
  /\ r.pc \in {"newDatabase", "create", "readBack"} /\ Alone(r)
       => RowsOf(r.asked.org, r.asked.db) # {} \/ Clashes(r)
  /\ HasRow(r) /\ ~r.hit => r.row \in rows /\ r.row.name = r.asked.db
  /\ PastDatabase(r) /\ Quiet(r) /\ Known(r) => Database(r) \in cluster
  /\ r.pc \in {"grant", "rest", "created"} /\ Quiet(r) => Database(r) \in cluster
Targeted(r) ==
  /\ (HasTarget(r) \/ r.pc = "created") /\ ~r.hit
       => /\ r.target \in [instance : Instances, name : Labels \cup {Postgres}]
          /\ r.target.instance = r.instance
          /\ r.instance = r.row.instance =>
               \E row \in rows : row.instance = r.instance /\ row.name = r.target.name
  /\ r.pc \in {"grant", "rest", "created"} /\ ~r.hit
       => r.target \in schemas /\ Present(r.target)

\* What the answer says.
Answered(r) ==
  /\ r.pc = "created" /\ ~r.hit => r.row.host \in served
  /\ r.pc = "error" /\ Alone(r) => Clashes(r) \/ r.neighbour \/ r.instance \in cut

Facts(r) ==
  Placed(r) /\ Missing(r) /\ Peopled(r) /\ Trusted(r) /\ Made(r) /\ Targeted(r) /\ Answered(r)

Held == \A w \in Workers : \A r \in {request[w]} \cap Creations : Facts(r)

IInv == TypeOK /\ Consistent /\ Noticed /\ Guarded /\ Held

-----------------------------------------------------------------------------
(* Labels and records.                                                      *)

\* Cleaning a clean name changes nothing.
LEMMA CleanTwice ==
  ASSUME NEW name
  PROVE  Clean(Clean(name)) = Clean(name) /\ IsClean(Clean(name))
<1>1. \A w : Word(Word(w)) = Word(w)
  BY CleaningAssumption DEF Word
<1> QED  BY <1>1 DEF Clean, IsClean

\* The names of the model are those asked for, and what cleaning makes of them.
LEMMA AskedTyped ==
  /\ \A a \in Asked : a \in [org : Orgs, db : Labels, instance : Labels]
  /\ \A org \in Orgs : Clean(org) \in Orgs
  /\ \A name \in Labels : Clean(name) \in Labels
<1>1. \A a \in Asked : a \in [org : Orgs, db : Labels, instance : Labels]
  BY AskedAssumption DEF Orgs, Labels
<1>2. \A org \in Orgs : Clean(org) \in Orgs
  BY CleanTwice DEF Orgs
<1>3. \A name \in Labels : Clean(name) \in Labels
  BY CleanTwice DEF Labels
<1> QED  BY <1>1, <1>2, <1>3

\* n is what r becomes at another step, with another user and another password.
Becomes(n, r, pc, user, con) ==
  /\ n \in Creations /\ n.pc = pc /\ n.user = user /\ n.con = con
  /\ n.about = r.about /\ n.hit = r.hit /\ n.overlaps = r.overlaps /\ n.asked = r.asked
  /\ n.instance = r.instance /\ n.row = r.row /\ n.neighbour = r.neighbour
  /\ n.target = r.target /\ n.key = r.key

\* The same when a fault hits it.
Suffers(n, r, pc, user, con) ==
  /\ n \in Creations /\ n.pc = pc /\ n.user = user /\ n.con = con
  /\ n.about = r.about /\ n.hit = TRUE /\ n.overlaps = r.overlaps /\ n.asked = r.asked
  /\ n.instance = r.instance

LEMMA ToStep ==
  ASSUME NEW r \in Creations, NEW pc \in Steps
  PROVE  /\ Becomes([r EXCEPT !.pc = pc], r, pc, r.user, r.con)
         /\ Suffers([[r EXCEPT !.hit = TRUE] EXCEPT !.pc = pc], r, pc, r.user, r.con)
<1>1. ASSUME NEW n, n = [r EXCEPT !.pc = pc] PROVE Becomes(n, r, pc, r.user, r.con)
  BY <1>1 DEF Creations, Becomes
<1>2. ASSUME NEW n, n = [[r EXCEPT !.hit = TRUE] EXCEPT !.pc = pc] PROVE Suffers(n, r, pc, r.user, r.con)
  BY <1>2 DEF Creations, Suffers
<1> QED BY <1>1, <1>2

LEMMA ToPassword ==
  ASSUME NEW r \in Creations, NEW pc \in Steps, NEW con \in Nat
  PROVE  /\ Becomes([[r EXCEPT !.con = con] EXCEPT !.pc = pc], r, pc, r.user, con)
         /\ Suffers([[[r EXCEPT !.hit = TRUE] EXCEPT !.con = con] EXCEPT !.pc = pc], r, pc, r.user, con)
         /\ Suffers([[[r EXCEPT !.con = con] EXCEPT !.hit = TRUE] EXCEPT !.pc = pc], r, pc, r.user, con)
<1>1. ASSUME NEW n, n = [[r EXCEPT !.con = con] EXCEPT !.pc = pc] PROVE Becomes(n, r, pc, r.user, con)
  BY <1>1 DEF Creations, Becomes
<1>2. ASSUME NEW n, n = [[[r EXCEPT !.hit = TRUE] EXCEPT !.con = con] EXCEPT !.pc = pc]
      PROVE  Suffers(n, r, pc, r.user, con)
  BY <1>2 DEF Creations, Suffers
<1>3. ASSUME NEW n, n = [[[r EXCEPT !.con = con] EXCEPT !.hit = TRUE] EXCEPT !.pc = pc]
      PROVE  Suffers(n, r, pc, r.user, con)
  BY <1>3 DEF Creations, Suffers
<1> QED BY <1>1, <1>2, <1>3

LEMMA ToPublic ==
  ASSUME NEW r \in Creations, NEW pc \in Steps
  PROVE  /\ Becomes([[r EXCEPT !.user = "public", !.con = 0] EXCEPT !.pc = pc], r, pc, "public", 0)
         /\ Suffers([[[r EXCEPT !.hit = TRUE] EXCEPT !.user = "public", !.con = 0] EXCEPT !.pc = pc],
                    r, pc, "public", 0)
<1>1. ASSUME NEW n, n = [[r EXCEPT !.user = "public", !.con = 0] EXCEPT !.pc = pc]
      PROVE  Becomes(n, r, pc, "public", 0)
  BY <1>1 DEF Creations, Becomes
<1>2. ASSUME NEW n, n = [[[r EXCEPT !.hit = TRUE] EXCEPT !.user = "public", !.con = 0] EXCEPT !.pc = pc]
      PROVE  Suffers(n, r, pc, "public", 0)
  BY <1>2 DEF Creations, Suffers
<1> QED BY <1>1, <1>2

\* A worker at a step of a creation works on one, whose facts hold.
LEMMA Working ==
  ASSUME IInv, NEW w \in Workers, request[w].pc \in Steps
  PROVE  request[w] \in Creations /\ Facts(request[w])
<1>1. request[w] \in Creations
  BY DEF IInv, TypeOK, Editing, Over, Steps, Early, UserSteps, DatabaseSteps, RestSteps
<1> QED  BY <1>1 DEF IInv, Held

\* A worker under way at a step works on a creation whose facts hold.
LEMMA UnderWay ==
  ASSUME IInv, NEW w \in Workers, NEW pc, Under(w, pc),
         pc \in Steps \ {"created", "error"}
  PROVE  request[w] \in Creations /\ request[w].pc = pc /\ Busy(w) /\ Facts(request[w])
<1>1. request[w].pc = pc /\ Busy(w)
  BY DEF Under, Busy, Steps, Early, UserSteps, DatabaseSteps, RestSteps
<1> QED  BY <1>1, Working

\* The organization a request has found is the one it is about.
LEMMA AboutAsked ==
  ASSUME Consistent, NEW r, Placed(r), r.pc \in InOrganization
  PROVE  /\ r.asked.org = r.about /\ r.asked.org \in orgs
         /\ r.pc \in OnInstance => r.instance \in instances /\ r.instance.org = r.about
  BY DEF Consistent, IsClean, Placed

-----------------------------------------------------------------------------
(* What the others do: the tables grow, under the organization of whoever  *)
(* moves, and only there do passwords change.                              *)

Grows(about) ==
  /\ orgs \subseteq orgs' /\ \A org \in orgs' \ orgs : org = about
  /\ instances \subseteq instances' /\ \A i \in instances' \ instances : i.org = about
  /\ rows \subseteq rows' /\ \A row \in rows' \ rows : row.org = about
  /\ users \subseteq users' /\ \A user \in users' \ users : user.instance.org = about
  /\ \A i \in instances : i.org # about => saved'[i] = saved[i] /\ actual'[i] = actual[i]
  /\ roles \subseteq roles' /\ cut \subseteq cut' /\ cluster \subseteq cluster'
  /\ schemas \subseteq schemas' /\ served \subseteq served'

LEMMA ClashesKept ==
  ASSUME NEW r, NEW about, Grows(about), Clashes(r)
  PROVE  Clashes(r)'
  BY DEF Clashes, Grows, HostOf, InstanceName

\* The facts of a request are kept by whoever is about another organization,
\* or has been noticed; and of one that is over, by anybody.
LEMMA FactsKept ==
  ASSUME Consistent, NEW r, NEW about, Grows(about), Facts(r),
         r.pc \in {"created", "error"} \/ about # r.about \/ r.overlaps
  PROVE  Facts(r)'
<1>1. Placed(r) /\ Placed(r)'
  BY DEF Facts, Placed, Grows
<1>2. (Quiet(r)' <=> Quiet(r)) /\ (Alone(r)' <=> Alone(r))
  BY DEF Quiet, Alone, Plain
<1>3. (Alone(r) => r.about = r.asked.org) /\ (Alone(r) => Quiet(r))
  BY <1>1 DEF Alone, Plain, IsClean, Placed
<1>4. Quiet(r) /\ r.pc \notin {"created", "error"} => about # r.about
  BY DEF Quiet
<1>5. Quiet(r) /\ r.pc \in OnInstance =>
        /\ r.instance \in instances /\ r.instance.org # about
        /\ saved'[r.instance] = saved[r.instance] /\ actual'[r.instance] = actual[r.instance]
  <2>1. r.pc \in OnInstance => r.pc \in InOrganization /\ r.pc \notin {"created", "error"}
    BY DEF OnInstance, InOrganization, UserSteps, DatabaseSteps, RestSteps
  <2> QED BY <2>1, <1>1, <1>4, AboutAsked DEF Grows
<1>6. /\ HasTarget(r) => r.pc \in OnInstance
      /\ PastPublic(r) => r.pc \in OnInstance
      /\ PastPostgres(r) => r.pc \in OnInstance
      /\ PastDatabase(r) => r.pc \in OnInstance
      /\ r.pc \in RestSteps \cup UserSteps \cup {"create", "ensure"} => r.pc \in OnInstance
  BY DEF HasTarget, PastPublic, PastPostgres, PastDatabase, OnInstance, UserSteps, DatabaseSteps, RestSteps
<1>7. /\ HasTarget(r)' <=> HasTarget(r)
      /\ PastPublic(r)' <=> PastPublic(r)
      /\ PastPostgres(r)' <=> PastPostgres(r)
      /\ PastDatabase(r)' <=> PastDatabase(r)
      /\ HasRow(r)' <=> HasRow(r)
      /\ UserOf(r)' = UserOf(r) /\ Database(r)' = Database(r) /\ New(r)' = New(r)
      /\ User(r, "postgres")' = User(r, "postgres") /\ User(r, "public")' = User(r, "public")
      /\ User(r, "authenticator")' = User(r, "authenticator")
  BY DEF HasTarget, PastPublic, PastPostgres, PastDatabase, HasRow, UserOf, Database, New, InstanceName, User
<1>8. Quiet(r) /\ r.pc \in OnInstance => (Known(r)' <=> Known(r))
  BY <1>5 DEF Known
<1>9. Missing(r)'
  <2>1. r.pc = "newOrganization" /\ Alone(r) => r.asked.org \notin orgs'
    BY <1>3, <1>4 DEF Facts, Missing, Grows
  <2>2. r.pc = "newInstance" /\ Alone(r) => New(r) \notin instances'
    <3>1. New(r).org = r.asked.org
      BY DEF New
    <3> QED BY <3>1, <1>3, <1>4 DEF Facts, Missing, Grows
  <2>3. r.pc = "newUser" /\ Quiet(r) => UserOf(r) \notin users'
    <3>1. UserOf(r).instance = r.instance
      BY DEF UserOf
    <3>2. r.pc = "newUser" => r.pc \in OnInstance
      BY DEF OnInstance, UserSteps
    <3> QED BY <3>1, <3>2, <1>5 DEF Facts, Missing, Grows
  <2>4. r.pc = "newRow" /\ Alone(r) => RowsOf(r.asked.org, r.asked.db)' = {}
    BY <1>3, <1>4 DEF Facts, Missing, Grows, RowsOf
  <2> QED BY <1>2, <1>7, <2>1, <2>2, <2>3, <2>4 DEF Missing, Facts
<1>10. Peopled(r)'
  <2> SUFFICES ASSUME Quiet(r)
               PROVE  /\ r.pc \in {"connect", "reset", "save", "role"} => UserOf(r) \in users'
                      /\ PastPostgres(r) => User(r, "postgres") \in users'
                      /\ PastPublic(r) /\ Known(r)' => User(r, "public") \in roles'
                      /\ r.pc \in RestSteps /\ Known(r)' => User(r, "authenticator") \in roles'
    BY <1>2, <1>7 DEF Peopled
  <2> QED BY <1>6, <1>8 DEF Facts, Peopled, Grows
<1>11. Trusted(r)'
  <2> SUFFICES ASSUME Quiet(r)
               PROVE  /\ r.pc \in {"reset", "role", "create", "ensure"} => r.con = saved'[r.instance]
                      /\ r.pc = "save" => r.con = actual'[r.instance]
                      /\ HasTarget(r) => r.key = saved'[r.instance]
    BY <1>2, <1>7 DEF Trusted
  <2>1. r.pc \in {"reset", "role", "save", "create", "ensure"} => r.pc \in OnInstance
    BY DEF OnInstance, UserSteps, DatabaseSteps
  <2> QED BY <2>1, <1>5, <1>6 DEF Facts, Trusted
<1>12. Made(r)'
  <2>1. Clashes(r) => Clashes(r)'
    BY ClashesKept
  <2>2. RowsOf(r.asked.org, r.asked.db) # {} => RowsOf(r.asked.org, r.asked.db)' # {}
    BY DEF RowsOf, Grows
  <2>3. /\ HasRow(r) /\ ~r.hit => r.row \in rows'
        /\ PastDatabase(r) /\ Quiet(r) /\ Known(r)' => Database(r) \in cluster'
        /\ r.pc \in {"grant", "rest", "created"} /\ Quiet(r) => Database(r) \in cluster'
    BY <1>6, <1>8 DEF Facts, Made, Grows
  <2> QED BY <1>2, <1>7, <2>1, <2>2, <2>3 DEF Facts, Made
<1>13. Targeted(r)'
  <2>1. Present(r.target) => Present(r.target)'
    BY DEF Present, Grows
  <2> QED BY <1>7, <2>1 DEF Facts, Targeted, Grows
<1>14. Answered(r)'
  BY <1>2, ClashesKept DEF Facts, Answered, Grows
<1> QED  BY <1>1, <1>9, <1>10, <1>11, <1>12, <1>13, <1>14 DEF Facts

\* What leaves the tables alone leaves them consistent, and the facts as they are.
LEMMA TablesStay ==
  ASSUME Consistent, UNCHANGED tables, NEW about
  PROVE  Grows(about) /\ Consistent'
  BY DEF tables, accounts, Grows, Consistent

LEMMA FactsStay ==
  ASSUME Consistent, NEW r, UNCHANGED tables, Facts(r)
  PROVE  Facts(r)'
<1>1. PICK about : about # r.about
  <2>1. 0 # r.about \/ 1 # r.about
    OBVIOUS
  <2> QED BY <2>1
<1> QED BY <1>1, TablesStay, FactsKept

-----------------------------------------------------------------------------
(* Passwords.                                                              *)

\* Of a request that nobody disturbs, postgres has the password of its row,
\* or there was a fault between them: nobody else is about to write the row.
LEMMA CutOrKnown ==
  ASSUME IInv, NEW w \in Workers, NEW r, r = request[w], Busy(w), Facts(r),
         r.pc \in OnInstance \ {"save"}, Quiet(r), ~Known(r)
  PROVE  r.instance \in cut
<1>1. r.pc \in InOrganization /\ r.instance \in instances /\ r.instance.org = r.about
  BY AboutAsked DEF IInv, Facts, InOrganization, OnInstance
<1>2. ASSUME NEW o \in Workers, Under(o, "save"), request[o].instance = r.instance PROVE FALSE
  <2>1. PICK q : q = request[o] /\ q.pc = "save" /\ Busy(o) /\ Facts(q)
    BY <1>2, UnderWay DEF Steps, UserSteps
  <2>2. q.about = r.about
    BY <1>1, <1>2, <2>1, AboutAsked DEF IInv, Facts, InOrganization, OnInstance, UserSteps
  <2>3. o # w
    BY <2>1
  <2> QED BY <2>1, <2>2, <2>3 DEF IInv, Noticed, Quiet
<1> QED BY <1>1, <1>2 DEF IInv, Guarded, Sound, Known

\* The instances keep their passwords; new ones have the initial one.
KeepsPasswords ==
  /\ resets' = resets /\ cut' = cut /\ instances \subseteq instances'
  /\ \A i \in instances : saved'[i] = saved[i] /\ actual'[i] = actual[i]
  /\ \A i \in instances' \ instances : saved'[i] = 0 /\ actual'[i] = 0

\* A step that gives no password, of a request that then has one it had, one
\* it has read, or none.
Discreet(w, n) ==
  /\ n.pc # "save" /\ request[w].pc # "save"
  /\ n.con = 0 \/ n.con = request[w].con \/ \E i \in instances : n.con = saved[i]

LEMMA StaysGuarded ==
  ASSUME IInv, NEW w \in Workers, request[w].pc \in Steps, NEW n \in Creations,
         request' = [request EXCEPT ![w] = n], KeepsPasswords, Discreet(w, n)
  PROVE  Guarded'
<1>1. \A o \in Workers : request'[o] = IF o = w THEN n ELSE request[o]
  BY DEF IInv, TypeOK
<1>2. \A o \in Workers : Under(o, "save")' => o # w /\ Under(o, "save") /\ request'[o] = request[o]
  BY <1>1 DEF Under, Discreet
<1>3. ASSUME NEW o \in Workers, Under(o, "save")
      PROVE  o # w /\ request'[o] = request[o] /\ Under(o, "save")' /\ request[o].instance \in instances
  <2>1. o # w
    BY <1>3 DEF Under, Discreet
  <2>2. request'[o] = request[o]
    BY <1>1, <2>1
  <2>3. request[o].pc = "save" /\ Facts(request[o])
    BY <1>3, UnderWay DEF Steps, UserSteps
  <2> QED BY <1>3, <2>1, <2>2, <2>3 DEF Facts, Placed, OnInstance, UserSteps, Under
<1>4. Bounded'
  <2>1. n.con <= resets
    <3>1. resets \in Nat /\ \A i \in instances : saved[i] \in Nat
      BY DEF IInv, Consistent
    <3> QED BY <3>1 DEF IInv, Guarded, Bounded, Discreet
  <2>2. \A i \in instances' : saved'[i] <= resets
    BY DEF KeepsPasswords, IInv, Guarded, Bounded, Consistent
  <2> QED BY <1>1, <2>1, <2>2 DEF KeepsPasswords, IInv, Guarded, Bounded
<1>5. ASSUME NEW o \in Workers, Under(o, "save")'
      PROVE  Secret(o)'
  <2>1. /\ o # w /\ Under(o, "save") /\ request'[o] = request[o] /\ Secret(o)
        /\ request[o].instance \in instances
    BY <1>2, <1>3, <1>5 DEF IInv, Guarded
  <2>2. n.con # request[o].con
    BY <2>1 DEF Discreet, Secret
  <2>3. \A q \in Workers \ {o} : request'[q].pc \in Steps => request'[q].con # request[o].con
    BY <1>1, <2>1, <2>2 DEF Secret
  <2>4. \A i \in instances' : saved'[i] # request[o].con
    BY <2>1 DEF KeepsPasswords, Secret
  <2> QED BY <2>1, <2>3, <2>4 DEF Secret, KeepsPasswords
<1>6. Sound'
  BY <1>3 DEF IInv, Guarded, Sound, KeepsPasswords
<1> QED BY <1>4, <1>5, <1>6 DEF Guarded

-----------------------------------------------------------------------------
(* A step of a request.                                                    *)

\* It keeps the invariant if the tables stay consistent and grow only under
\* its organization, passwords stay guarded, and its own facts hold.
LEMMA Moved ==
  ASSUME IInv, NEW w \in Workers, NEW n \in Creations, Busy(w),
         request' = [request EXCEPT ![w] = n],
         n.about = request[w].about, n.overlaps = request[w].overlaps,
         Grows(n.about), Consistent', Guarded', Facts(n)'
  PROVE  IInv'
<1>1. \A o \in Workers : request'[o] = IF o = w THEN n ELSE request[o]
  BY DEF IInv, TypeOK
<1>2. TypeOK'
  BY <1>1 DEF IInv, TypeOK
<1>3. \A o \in Workers : Busy(o)' => Busy(o)
  BY <1>1 DEF Busy
<1>4. \A o \in Workers : request'[o].about = request[o].about /\ request'[o].overlaps = request[o].overlaps
  BY <1>1
<1>5. Noticed'
  BY <1>3, <1>4 DEF IInv, Noticed
<1>6. ASSUME NEW o \in Workers, NEW r \in Creations, request'[o] = r
      PROVE  Facts(r)'
  <2>1. CASE o = w
    BY <2>1, <1>1, <1>6
  <2>2. CASE o # w
    <3>1. request[o] = r /\ Facts(r)
      BY <2>2, <1>1, <1>6 DEF IInv, Held
    <3>2. r.pc \notin {"created", "error"} => Busy(o)
      BY <3>1 DEF Busy, Creations, Steps, Early, UserSteps, DatabaseSteps, RestSteps
    <3>3. Busy(o) => n.about # r.about \/ r.overlaps
      BY <2>2, <3>1 DEF IInv, Noticed
    <3> QED  BY <3>1, <3>2, <3>3, FactsKept DEF IInv
  <2> QED  BY <2>1, <2>2
<1>7. Held'
  BY <1>6 DEF Held
<1> QED  BY <1>2, <1>5, <1>7 DEF IInv

\* A step without a fault that gives no password.
LEMMA Moves ==
  ASSUME IInv, NEW w \in Workers, NEW r, request[w].pc \in Steps, Busy(w), NEW n, NEW pc, NEW user, NEW con,
         Becomes(n, r, pc, user, con), request' = [request EXCEPT ![w] = n],
         r.about = request[w].about, r.overlaps = request[w].overlaps,
         KeepsPasswords, Discreet(w, n), Grows(r.about), Consistent', Facts(n)'
  PROVE  IInv'
  BY StaysGuarded, Moved DEF Becomes

\* The same of a step that leaves the tables alone.
LEMMA MovesOnly ==
  ASSUME IInv, NEW w \in Workers, NEW r, request[w].pc \in Steps, Busy(w), NEW n, NEW pc, NEW user, NEW con,
         Becomes(n, r, pc, user, con), request' = [request EXCEPT ![w] = n],
         r.about = request[w].about, r.overlaps = request[w].overlaps,
         UNCHANGED tables, Discreet(w, n), Facts(n)
  PROVE  IInv'
<1>1. Consistent
  BY DEF IInv
<1>2. Grows(r.about) /\ Consistent' /\ Facts(n)'
  BY <1>1, TablesStay, FactsStay
<1>3. KeepsPasswords
  BY DEF tables, accounts, KeepsPasswords
<1> QED BY <1>2, <1>3, Moves

\* What a fault leaves of the facts is where the request is.
LEMMA HitFacts ==
  ASSUME NEW r, Facts(r), NEW n, NEW pc, NEW user, NEW con, Suffers(n, r, pc, user, con), Grows(r.about),
         pc \in InOrganization => r.pc \in InOrganization, pc \in OnInstance => r.pc \in OnInstance,
         pc \in Early \cup {"reset", "save"} => user = "postgres", pc = "role" => user # "postgres"
  PROVE  Facts(n)'
<1>1. Placed(n)'
  BY DEF Suffers, Facts, Placed, Grows
<1>2. ~Quiet(n)' /\ ~Alone(n)' /\ n.hit
  BY DEF Suffers, Quiet, Alone
<1> QED BY <1>1, <1>2 DEF Facts, Missing, Peopled, Trusted, Made, Targeted, Answered

\* A fault, after which the tables may have grown.
LEMMA Hurts ==
  ASSUME IInv, NEW w \in Workers, NEW r, r = request[w], r.pc \in Steps, Facts(r), Busy(w),
         NEW n, NEW pc, NEW user, NEW con,
         Suffers(n, r, pc, user, con), request' = [request EXCEPT ![w] = n],
         pc \in InOrganization => r.pc \in InOrganization, pc \in OnInstance => r.pc \in OnInstance,
         pc \in Early \cup {"reset", "save"} => user = "postgres", pc = "role" => user # "postgres",
         Discreet(w, n), KeepsPasswords, Grows(r.about), Consistent'
  PROVE  IInv'
<1>1. Facts(n)'
  BY HitFacts
<1>2. Guarded'
  BY StaysGuarded DEF Suffers
<1> QED  BY <1>1, <1>2, Moved DEF Suffers

\* The faults that leave the password and the user alone.
LEMMA GoesHit ==
  ASSUME IInv, NEW w \in Workers, NEW r, r = request[w], r \in Creations, Facts(r), Busy(w),
         NEW pc \in Steps, Goes(w, pc, Hit(r)),
         pc \in InOrganization => r.pc \in InOrganization, pc \in OnInstance => r.pc \in OnInstance,
         pc \in Early => r.pc \in Early, pc \notin {"reset", "role", "save"}, r.pc # "save",
         KeepsPasswords, Grows(r.about), Consistent'
  PROVE  IInv'
<1>1. PICK n : n = [[r EXCEPT !.hit = TRUE] EXCEPT !.pc = pc] /\ request' = [request EXCEPT ![w] = n]
  BY Zenon DEF Goes, Hit
<1>2. Suffers(n, r, pc, r.user, r.con) /\ r.pc \in Steps
  BY <1>1, ToStep DEF Creations
<1>3. Discreet(w, n)
  BY <1>2 DEF Discreet, Suffers
<1>4. pc \in Early \cup {"reset", "save"} => r.user = "postgres"
  BY DEF Facts, Placed
<1> QED BY <1>1, <1>2, <1>3, <1>4, Hurts

\* The same of one that leaves the tables alone.
LEMMA GoesHitOnly ==
  ASSUME IInv, NEW w \in Workers, NEW r, r = request[w], r \in Creations, Facts(r), Busy(w),
         NEW pc \in Steps, Goes(w, pc, Hit(r)),
         pc \in InOrganization => r.pc \in InOrganization, pc \in OnInstance => r.pc \in OnInstance,
         pc \in Early => r.pc \in Early, pc \notin {"reset", "role", "save"}, r.pc # "save", UNCHANGED tables
  PROVE  IInv'
<1>1. KeepsPasswords /\ Consistent
  BY DEF tables, accounts, KeepsPasswords, IInv
<1>2. Grows(r.about) /\ Consistent'
  BY <1>1, TablesStay
<1> QED BY <1>1, <1>2, GoesHit

\* A step without a fault, of which the next facts are known.
LEMMA GoesOn ==
  ASSUME IInv, NEW w \in Workers, request[w].pc \in Steps \ {"save"}, Busy(w), NEW m \in Creations,
         m.about = request[w].about, m.overlaps = request[w].overlaps, m.con = request[w].con,
         NEW pc \in Steps \ {"save"}, Goes(w, pc, m), UNCHANGED tables,
         \A n : Becomes(n, m, pc, m.user, m.con) => Facts(n)
  PROVE  IInv'
<1>1. PICK n : n = [m EXCEPT !.pc = pc] /\ request' = [request EXCEPT ![w] = n]
  BY Zenon DEF Goes
<1>2. Becomes(n, m, pc, m.user, m.con)
  BY <1>1, ToStep
<1>3. Discreet(w, n)
  BY <1>2 DEF Discreet, Becomes
<1> QED BY <1>1, <1>2, <1>3, MovesOnly

\* The same of a step that adds to the tables.
LEMMA GoesGrown ==
  ASSUME IInv, NEW w \in Workers, request[w].pc \in Steps \ {"save"}, Busy(w), NEW m \in Creations,
         m.about = request[w].about, m.overlaps = request[w].overlaps, m.con = request[w].con,
         NEW pc \in Steps \ {"save"}, Goes(w, pc, m), KeepsPasswords, Grows(m.about), Consistent',
         \A n : Becomes(n, m, pc, m.user, m.con) => Facts(n)'
  PROVE  IInv'
<1>1. PICK n : n = [m EXCEPT !.pc = pc] /\ request' = [request EXCEPT ![w] = n]
  BY Zenon DEF Goes
<1>2. Becomes(n, m, pc, m.user, m.con)
  BY <1>1, ToStep
<1>3. Discreet(w, n)
  BY <1>2 DEF Discreet, Becomes
<1> QED BY <1>1, <1>2, <1>3, Moves

\* What the facts say is the same for a request that goes elsewhere.
LEMMA BecomesSame ==
  ASSUME NEW n, NEW r, NEW pc, NEW user, NEW con, Becomes(n, r, pc, user, con)
  PROVE  /\ (Alone(n) <=> Alone(r)) /\ (Quiet(n) <=> Quiet(r))
         /\ (Clashes(n) <=> Clashes(r)) /\ (Known(n) <=> Known(r))
         /\ New(n) = New(r) /\ Database(n) = Database(r)
         /\ UserOf(n) = User(r, user) /\ User(n, "postgres") = User(r, "postgres")
         /\ User(n, "public") = User(r, "public") /\ User(n, "authenticator") = User(r, "authenticator")
<1>1. n.asked = r.asked /\ n.hit = r.hit /\ n.overlaps = r.overlaps /\ n.instance = r.instance /\ n.user = user
  BY DEF Becomes
<1>2. InstanceName(n) = InstanceName(r)
  BY <1>1 DEF InstanceName
<1>3. Clashes(n) <=> Clashes(r)
  BY <1>1, <1>2 DEF Clashes
<1> QED  BY <1>1, <1>2, <1>3 DEF Alone, Quiet, Plain, Known, New, Database, UserOf, User

-----------------------------------------------------------------------------
(* The steps before the users.                                             *)

\* At an early step a request knows nothing of users and databases.
LEMMA EarlyFacts ==
  ASSUME NEW n, n.pc \in Early, Placed(n), Missing(n)
  PROVE  Facts(n)
  BY DEF Facts, Peopled, Trusted, Made, Targeted, Answered, HasTarget, HasRow, PastDatabase, PastPublic,
         PastPostgres, Early, UserSteps, DatabaseSteps, RestSteps

\* An answer is an error for a cause.
LEMMA ErrorFacts ==
  ASSUME NEW n, n.pc = "error", Placed(n), Alone(n) => Clashes(n) \/ n.neighbour \/ n.instance \in cut
  PROVE  Facts(n)
  BY DEF Facts, Missing, Peopled, Trusted, Made, Targeted, Answered, HasTarget, HasRow, PastDatabase, PastPublic,
         PastPostgres, UserSteps, DatabaseSteps, RestSteps

LEMMA NextContext ==
  ASSUME IInv, NEW w \in Workers, Context(w)
  PROVE  IInv'
<1>1. PICK r \in Creations : r = request[w] /\ r.pc = "context" /\ Busy(w) /\ Facts(r)
  BY UnderWay DEF Context, Steps, Early
<1>2. UNCHANGED tables
  BY DEF Context
<1>3. CASE Goes(w, "organization", Hit(r))
  BY <1>1, <1>2, <1>3, GoesHitOnly DEF Steps, Early, InOrganization, OnInstance, UserSteps, DatabaseSteps, RestSteps
<1>4. CASE ~Goes(w, "organization", Hit(r))
  <2>1. PICK n \in Creations :
          /\ Goes(w, "organization", n)
          /\ n.about = r.about /\ n.overlaps = r.overlaps /\ n.asked = r.asked
          /\ n.con = r.con /\ n.user = r.user
          /\ n.instance = Nobody \/ (n.instance \in instances /\ n.instance.org = r.asked.org)
    <3> PICK found : found = RowsOf(r.asked.org, r.asked.db)
      OBVIOUS
    <3> PICK named : named = {i \in instances : i.name = r.asked.instance /\ i.org = r.asked.org}
      OBVIOUS
    <3> PICK row : row = (IF found = {} THEN r.row ELSE CHOOSE x \in found : TRUE)
      OBVIOUS
    <3> PICK instance :
          instance = (IF r.asked.instance # Nobody
                        THEN IF named = {} THEN r.instance ELSE CHOOSE i \in named : TRUE
                        ELSE IF found = {} THEN r.instance ELSE (CHOOSE x \in found : TRUE).instance)
      OBVIOUS
    <3>1. PICK n : n = [r EXCEPT !.row = row, !.instance = instance] /\ Goes(w, "organization", n)
      BY <1>1, <1>4 DEF Context
    <3>2. row \in Rows \cup {Nobody}
      BY DEF IInv, Consistent, RowsOf, Creations
    <3>3. instance = Nobody \/ (instance \in instances /\ instance.org = r.asked.org)
      BY <1>1 DEF IInv, Consistent, RowsOf, Facts, Placed
    <3>4. instance \in Instances \cup {Nobody}
      BY <3>3 DEF IInv, Consistent
    <3>5. /\ n \in Creations /\ n.instance = instance /\ n.con = r.con /\ n.user = r.user
          /\ n.about = r.about /\ n.overlaps = r.overlaps /\ n.asked = r.asked
      BY ONLY <3>1, <3>2, <3>4, r \in Creations DEF Creations
    <3> QED  BY <3>1, <3>3, <3>5
  <2>2. ASSUME NEW m, Becomes(m, n, "organization", n.user, n.con)
        PROVE  Facts(m)
    <3>1. Placed(m)
      BY <1>1, <2>1, <2>2
      DEF Facts, Placed, Becomes, Early, InOrganization, OnInstance, UserSteps, DatabaseSteps, RestSteps
    <3> QED  BY <3>1, <2>2, EarlyFacts DEF Missing, Becomes, Early
  <2> QED  BY <1>1, <1>2, <2>1, <2>2, GoesOn DEF Steps, Early
<1> QED  BY <1>3, <1>4

LEMMA NextOrganizationExists ==
  ASSUME IInv, NEW w \in Workers, OrganizationExists(w)
  PROVE  IInv'
<1>1. PICK r \in Creations : r = request[w] /\ r.pc = "organization" /\ Busy(w) /\ Facts(r)
  BY UnderWay DEF OrganizationExists, Steps, Early
<1>2. UNCHANGED tables
  BY DEF OrganizationExists
<1>3. CASE Goes(w, "newOrganization", Hit(r))
  BY <1>1, <1>2, <1>3, GoesHitOnly DEF Steps, Early, InOrganization, OnInstance, UserSteps, DatabaseSteps, RestSteps
<1>4. CASE r.asked.org \in orgs /\ Goes(w, "instance", r)
  <2>1. ASSUME NEW n, Becomes(n, r, "instance", r.user, r.con)
        PROVE  Facts(n)
    <3>1. Placed(n) /\ Missing(n)
      BY <1>1, <1>4, <2>1
      DEF Facts, Placed, Missing, Becomes, Early, InOrganization, OnInstance, UserSteps, DatabaseSteps, RestSteps
    <3> QED BY <2>1, <3>1, EarlyFacts DEF Becomes, Early
  <2> QED  BY <1>1, <1>2, <1>4, <2>1, GoesOn DEF Steps, Early
<1>5. CASE r.asked.org \notin orgs /\ Goes(w, "newOrganization", r)
  <2>1. ASSUME NEW n, Becomes(n, r, "newOrganization", r.user, r.con)
        PROVE  Facts(n)
    <3>1. Placed(n) /\ Missing(n)
      BY <1>1, <1>5, <2>1
      DEF Facts, Placed, Missing, Becomes, Early, InOrganization, OnInstance, UserSteps, DatabaseSteps, RestSteps
    <3> QED BY <2>1, <3>1, EarlyFacts DEF Becomes, Early
  <2> QED  BY <1>1, <1>2, <1>5, <2>1, GoesOn DEF Steps, Early
<1> QED  BY <1>1, <1>3, <1>4, <1>5 DEF OrganizationExists, Go

LEMMA NextCreateOrganization ==
  ASSUME IInv, NEW w \in Workers, CreateOrganization(w)
  PROVE  IInv'
<1>1. PICK r \in Creations : r = request[w] /\ r.pc = "newOrganization" /\ Busy(w) /\ Facts(r)
  BY UnderWay DEF CreateOrganization, Steps, Early
<1> PICK name : name = Clean(r.asked.org)
  OBVIOUS
<1>2. /\ name \in Orgs /\ IsClean(name) /\ name = r.about
      /\ Clean(name) = name
  BY <1>1, CleanTwice, AskedTyped DEF Facts, Placed, Creations
<1>3. UNCHANGED <<instances, rows, accounts, cluster, schemas, served>>
  BY DEF CreateOrganization
<1>4. orgs' = orgs \/ orgs' = orgs \cup {name}
  BY <1>1 DEF CreateOrganization
<1>5. Grows(r.about) /\ KeepsPasswords
  BY <1>2, <1>3, <1>4 DEF Grows, KeepsPasswords, accounts
<1>6. Consistent'
  BY <1>2, <1>3, <1>4 DEF IInv, Consistent, accounts
<1>7. CASE Goes(w, "error", Hit(r))
  BY <1>1, <1>5, <1>6, <1>7, GoesHit DEF Steps, Early, InOrganization, OnInstance, UserSteps, DatabaseSteps, RestSteps
<1>8. CASE name \in orgs /\ Goes(w, "error", r) /\ UNCHANGED orgs
  <2>1. ASSUME NEW n, Becomes(n, r, "error", r.user, r.con)
        PROVE  Facts(n)
    <3>1. ~Alone(r)
      BY <1>1, <1>8 DEF Facts, Missing, Alone, Plain, IsClean
    <3>2. Placed(n)
      BY <1>1, <2>1
      DEF Facts, Placed, Becomes, Early, InOrganization, OnInstance, UserSteps, DatabaseSteps, RestSteps
    <3> QED  BY <2>1, <3>1, <3>2, BecomesSame, ErrorFacts DEF Becomes
  <2>2. UNCHANGED tables
    BY <1>3, <1>8 DEF tables
  <2> QED  BY <1>1, <1>8, <2>1, <2>2, GoesOn DEF Steps, Early
<1>9. CASE /\ name \notin orgs /\ orgs' = orgs \cup {name}
           /\ Goes(w, "instance", [r EXCEPT !.asked.org = name])
  <2>1. PICK m : m = [r EXCEPT !.asked.org = name] /\ Goes(w, "instance", m)
    BY <1>9
  <2>2. /\ m \in Creations /\ m.about = r.about /\ m.overlaps = r.overlaps /\ m.instance = r.instance
        /\ m.asked.org = name /\ m.con = r.con /\ m.user = r.user
    BY ONLY <2>1, <1>2, r \in Creations DEF Creations
  <2>3. r.instance = Nobody \/ (r.instance \in instances /\ r.instance.org = name)
    BY <1>1 DEF Facts, Placed, IInv, Consistent, IsClean
  <2>4. ASSUME NEW n, Becomes(n, m, "instance", m.user, m.con)
        PROVE  Facts(n)'
    <3>1. Placed(n)'
      BY <1>1, <1>2, <1>3, <1>9, <2>2, <2>3, <2>4
      DEF Facts, Placed, Becomes, Early, OnInstance, UserSteps, DatabaseSteps, RestSteps
    <3>2. n.pc = "instance"
      BY <2>4 DEF Becomes
    <3> QED BY <3>1, <3>2 DEF Facts, Missing, Peopled, Trusted, Made, Targeted, Answered, HasTarget, HasRow,
                              PastDatabase, PastPublic, PastPostgres, UserSteps, DatabaseSteps, RestSteps
  <2> QED  BY <1>1, <1>5, <1>6, <2>1, <2>2, <2>4, GoesGrown DEF Steps, Early
<1> QED  BY <1>1, <1>7, <1>8, <1>9 DEF CreateOrganization, Go

LEMMA NextInstanceExists ==
  ASSUME IInv, NEW w \in Workers, InstanceExists(w)
  PROVE  IInv'
<1>1. PICK r \in Creations : r = request[w] /\ r.pc = "instance" /\ Busy(w) /\ Facts(r)
  BY UnderWay DEF InstanceExists, Steps, Early
<1>2. UNCHANGED tables
  BY DEF InstanceExists
<1>3. CASE Goes(w, "newInstance", Hit(r))
  BY <1>1, <1>2, <1>3, GoesHitOnly DEF Steps, Early, InOrganization, OnInstance, UserSteps, DatabaseSteps, RestSteps
<1>4. CASE InstanceAsked(r) \in instances /\ Goes(w, "start", [r EXCEPT !.instance = InstanceAsked(r)])
  <2>1. PICK asked : asked = InstanceAsked(r)
    OBVIOUS
  <2>2. PICK n : n = [r EXCEPT !.instance = asked] /\ Goes(w, "start", n)
    BY <1>4, <2>1
  <2>3. asked \in instances /\ asked.org = r.asked.org /\ asked \in Instances
    BY <1>1, <1>4, <2>1 DEF InstanceAsked, Facts, Placed, IInv, Consistent
  <2>4. /\ n \in Creations /\ n.instance = asked /\ n.con = r.con /\ n.user = r.user
        /\ n.about = r.about /\ n.overlaps = r.overlaps /\ n.asked = r.asked
    BY ONLY <2>2, <2>3, r \in Creations DEF Creations
  <2>5. ASSUME NEW m, Becomes(m, n, "start", n.user, n.con)
        PROVE  Facts(m)
    <3>1. Placed(m) /\ Missing(m)
      BY <1>1, <2>3, <2>4, <2>5
      DEF Facts, Placed, Missing, Becomes, Early, InOrganization, OnInstance, UserSteps, DatabaseSteps, RestSteps
    <3> QED  BY <3>1, <2>5, EarlyFacts DEF Becomes, Early
  <2>6. Goes(w, "start", n) /\ n.about = request[w].about /\ n.overlaps = request[w].overlaps /\ n.con = request[w].con
    BY <1>1, <2>2, <2>4
  <2>7. "start" \in Steps \ {"save"} /\ n \in Creations /\ Busy(w) /\ request[w].pc \in Steps \ {"save"}
    BY <1>1, <2>4 DEF Steps, Early
  <2> QED  BY ONLY IInv, w \in Workers, <1>2, <2>5, <2>6, <2>7, GoesOn
<1>5. CASE InstanceAsked(r) \notin instances /\ Goes(w, "newInstance", r)
  <2>1. r.instance = Nobody
    BY <1>1, <1>5 DEF InstanceAsked, Facts, Placed
  <2>2. Alone(r) => New(r) \notin instances
    BY <1>5, <2>1 DEF InstanceAsked, Alone, Plain, IsClean, New, InstanceName
  <2>3. ASSUME NEW n, Becomes(n, r, "newInstance", r.user, r.con)
        PROVE  Facts(n)
    <3>1. Placed(n)
      BY <1>1, <2>3
      DEF Facts, Placed, Becomes, Early, InOrganization, OnInstance, UserSteps, DatabaseSteps, RestSteps
    <3>2. Missing(n)
      BY <2>1, <2>2, <2>3, BecomesSame DEF Missing, Becomes
    <3> QED  BY <2>3, <3>1, <3>2, EarlyFacts DEF Becomes, Early
  <2> QED  BY <1>1, <1>2, <1>5, <2>3, GoesOn DEF Steps, Early
<1> QED  BY <1>1, <1>3, <1>4, <1>5 DEF InstanceExists, Go

LEMMA NextCreateInstance ==
  ASSUME IInv, NEW w \in Workers, CreateInstance(w)
  PROVE  IInv'
<1>1. PICK r \in Creations : r = request[w] /\ r.pc = "newInstance" /\ Busy(w) /\ Facts(r)
  BY UnderWay DEF CreateInstance, Steps, Early
<1>2. r.asked.org = r.about /\ r.asked.org \in orgs
  BY <1>1, AboutAsked DEF InOrganization, IInv, Facts
<1> PICK new : new = New(r)
  OBVIOUS
<1>3. new \in Instances /\ new.org = r.asked.org
  <2>1. InstanceName(r) \in Labels
    BY AskedTyped DEF InstanceName, Creations
  <2> QED  BY <2>1 DEF New, Creations, Instances
<1>4. UNCHANGED <<orgs, rows, users, roles, resets, cut, cluster, schemas, served>>
  BY DEF CreateInstance
<1>5. /\ CreateInstance(w)
      /\ new = [name |-> InstanceName(r), org |-> r.asked.org]
  BY DEF New
<1>6. instances' = instances \/ instances' = instances \cup {new}
  BY <1>1, <1>5 DEF CreateInstance
<1>7. /\ saved' \in [instances' -> Nat] /\ actual' \in [instances' -> Nat]
      /\ \A i \in instances : saved'[i] = saved[i] /\ actual'[i] = actual[i]
      /\ \A i \in instances' \ instances : saved'[i] = 0 /\ actual'[i] = 0
  BY <1>6 DEF CreateInstance, IInv, Consistent
<1>8. Grows(r.about) /\ KeepsPasswords
  BY <1>2, <1>3, <1>4, <1>6, <1>7 DEF Grows, KeepsPasswords
<1>9. Consistent'
  BY <1>2, <1>3, <1>4, <1>6, <1>7 DEF IInv, Consistent
<1>10. CASE Goes(w, "error", Hit(r))
  BY <1>1, <1>8, <1>9, <1>10, GoesHit DEF Steps, Early, InOrganization, OnInstance, UserSteps, DatabaseSteps, RestSteps
<1>11. CASE /\ \E i \in instances : i = new \/ HostOf(i) = HostOf(new)
            /\ Goes(w, "error", r) /\ UNCHANGED instances
  <2>1. Alone(r) => Clashes(r)
    <3>1. HostOf(new) = r.asked.org \o InstanceName(r)
      BY <1>5 DEF HostOf
    <3>2. Alone(r) => new \notin instances
      BY <1>1 DEF Facts, Missing
    <3> QED  BY <1>5, <1>11, <3>1, <3>2 DEF Clashes
  <2>2. ASSUME NEW n, Becomes(n, r, "error", r.user, r.con)
        PROVE  Facts(n)'
    <3>1. (Alone(n) => Clashes(n)) /\ n.pc = "error"
      BY <2>1, <2>2, BecomesSame DEF Becomes
    <3>2. Placed(n)
      BY <1>1, <2>2
      DEF Facts, Placed, Becomes, Early, InOrganization, OnInstance, UserSteps, DatabaseSteps, RestSteps
    <3>3. Facts(n)
      BY <3>1, <3>2, ErrorFacts
    <3> QED  BY <3>1, <3>3, <1>8, FactsKept DEF IInv
  <2> QED  BY <1>1, <1>8, <1>9, <1>11, <2>2, GoesGrown DEF Steps, Early
<1>12. CASE instances' = instances \cup {new} /\ Goes(w, "start", [r EXCEPT !.instance = new])
  <2>1. PICK m : m = [r EXCEPT !.instance = new] /\ Goes(w, "start", m)
    BY <1>12
  <2>2. /\ m \in Creations /\ m.instance = new /\ m.con = r.con /\ m.user = r.user
        /\ m.about = r.about /\ m.overlaps = r.overlaps /\ m.asked = r.asked
    BY ONLY <2>1, <1>3, r \in Creations DEF Creations
  <2>3. ASSUME NEW n, Becomes(n, m, "start", m.user, m.con)
        PROVE  Facts(n)'
    <3>1. Placed(n)'
      BY <1>1, <1>2, <1>3, <1>4, <1>12, <2>2, <2>3
      DEF Facts, Placed, Becomes, Early, InOrganization, OnInstance, UserSteps, DatabaseSteps, RestSteps
    <3>2. n.pc = "start"
      BY <2>3 DEF Becomes
    <3> QED BY <3>1, <3>2 DEF Facts, Missing, Peopled, Trusted, Made, Targeted, Answered, HasTarget, HasRow,
                              PastDatabase, PastPublic, PastPostgres, UserSteps, DatabaseSteps, RestSteps
  <2>4. /\ Goes(w, "start", m) /\ m.about = request[w].about /\ m.overlaps = request[w].overlaps
        /\ m.con = request[w].con /\ Grows(m.about)
    BY <1>1, <1>8, <2>1, <2>2
  <2>5. "start" \in Steps \ {"save"} /\ m \in Creations /\ Busy(w) /\ request[w].pc \in Steps \ {"save"}
    BY <1>1, <2>2 DEF Steps, Early
  <2> QED  BY ONLY IInv, w \in Workers, <1>8, <1>9, <2>3, <2>4, <2>5, GoesGrown
<1> QED  BY <1>1, <1>5, <1>10, <1>11, <1>12 DEF CreateInstance, Go

LEMMA NextStartInstance ==
  ASSUME IInv, NEW w \in Workers, StartInstance(w)
  PROVE  IInv'
<1>1. PICK r \in Creations : r = request[w] /\ r.pc = "start" /\ Busy(w) /\ Facts(r)
  BY UnderWay DEF StartInstance, Steps, Early
<1>2. UNCHANGED tables
  BY DEF StartInstance
<1>3. CASE Goes(w, "error", Hit(r))
  BY <1>1, <1>2, <1>3, GoesHitOnly DEF Steps, Early, InOrganization, OnInstance, UserSteps, DatabaseSteps, RestSteps
<1>4. CASE Goes(w, "user", r)
  <2>1. ASSUME NEW n, Becomes(n, r, "user", r.user, r.con)
        PROVE  Facts(n)
    <3>1. Placed(n) /\ n.pc = "user" /\ n.user = "postgres"
      BY <1>1, <2>1
      DEF Facts, Placed, Becomes, Early, InOrganization, OnInstance, UserSteps, DatabaseSteps, RestSteps
    <3> QED BY <3>1 DEF Facts, Missing, Peopled, Trusted, Made, Targeted, Answered, HasTarget, HasRow,
                        PastDatabase, PastPublic, PastPostgres, UserSteps, DatabaseSteps, RestSteps
  <2> QED  BY <1>1, <1>2, <1>4, <2>1, GoesOn DEF Steps, Early, UserSteps
<1> QED  BY <1>1, <1>3, <1>4 DEF StartInstance, Go

-----------------------------------------------------------------------------
(* The users.                                                              *)

\* Whoever has done with a user goes on as the public user.
LEMMA GivesUp ==
  ASSUME NEW w \in Workers, NEW r \in Creations
  PROVE  /\ GiveUp(w, r) => \E n, pc :
              /\ Becomes(n, r, pc, "public", 0) /\ request' = [request EXCEPT ![w] = n]
              /\ pc = CASE r.user = "postgres" -> "user" [] r.user = "public" -> "database" [] OTHER -> "error"
         /\ GiveUp(w, Hit(r)) => \E n, pc :
              /\ Suffers(n, r, pc, "public", 0) /\ request' = [request EXCEPT ![w] = n]
              /\ pc \in {"user", "database", "error"}
         /\ Goal(w, r) => \E n, pc :
              /\ Becomes(n, r, pc, "public", 0) /\ request' = [request EXCEPT ![w] = n]
              /\ pc = CASE r.user = "postgres" -> "user" [] r.user = "public" -> "database" [] OTHER -> "schema"
<1>1. {"user", "database", "error", "schema"} \subseteq Steps
  BY DEF Steps, UserSteps, DatabaseSteps, RestSteps
<1>2. ASSUME NEW pc \in {"user", "database", "error", "schema"},
             Goes(w, pc, [r EXCEPT !.user = "public", !.con = 0])
      PROVE  \E n : Becomes(n, r, pc, "public", 0) /\ request' = [request EXCEPT ![w] = n]
  <2>1. PICK n : n = [[r EXCEPT !.user = "public", !.con = 0] EXCEPT !.pc = pc]
                 /\ request' = [request EXCEPT ![w] = n]
    BY <1>2, Zenon DEF Goes
  <2> QED BY <1>1, <2>1, ToPublic
<1>3. ASSUME NEW pc \in {"user", "database", "error"},
             Goes(w, pc, [[r EXCEPT !.hit = TRUE] EXCEPT !.user = "public", !.con = 0])
      PROVE  \E n : Suffers(n, r, pc, "public", 0) /\ request' = [request EXCEPT ![w] = n]
  <2>1. PICK n : n = [[[r EXCEPT !.hit = TRUE] EXCEPT !.user = "public", !.con = 0] EXCEPT !.pc = pc]
                 /\ request' = [request EXCEPT ![w] = n]
    BY <1>3, Zenon DEF Goes
  <2> QED BY <1>1, <2>1, ToPublic
<1>4. GiveUp(w, r) => \E pc \in {"user", "database", "error"} :
        /\ Goes(w, pc, [r EXCEPT !.user = "public", !.con = 0])
        /\ pc = CASE r.user = "postgres" -> "user" [] r.user = "public" -> "database" [] OTHER -> "error"
  <2>1. (CASE r.user = "postgres" -> "user" [] r.user = "public" -> "database" [] OTHER -> "error")
          \in {"user", "database", "error"}
    OBVIOUS
  <2> QED BY <2>1, Zenon DEF GiveUp
<1>5. Goal(w, r) => \E pc \in {"user", "database", "schema"} :
        /\ Goes(w, pc, [r EXCEPT !.user = "public", !.con = 0])
        /\ pc = CASE r.user = "postgres" -> "user" [] r.user = "public" -> "database" [] OTHER -> "schema"
  <2>1. (CASE r.user = "postgres" -> "user" [] r.user = "public" -> "database" [] OTHER -> "schema")
          \in {"user", "database", "schema"}
    OBVIOUS
  <2> QED BY <2>1, Zenon DEF Goal
<1>6. GiveUp(w, Hit(r)) => \E pc \in {"user", "database", "error"} :
        Goes(w, pc, [[r EXCEPT !.hit = TRUE] EXCEPT !.user = "public", !.con = 0])
  <2>1. PICK m : m = Hit(r)
    OBVIOUS
  <2>2. (CASE m.user = "postgres" -> "user" [] m.user = "public" -> "database" [] OTHER -> "error")
          \in {"user", "database", "error"}
    OBVIOUS
  <2>3. GiveUp(w, m) => \E pc \in {"user", "database", "error"} :
          Goes(w, pc, [m EXCEPT !.user = "public", !.con = 0])
    BY <2>2, Zenon DEF GiveUp
  <2> QED BY <2>1, <2>3, Zenon DEF Hit
<1> QED BY <1>2, <1>3, <1>4, <1>5, <1>6

\* Where a request goes on a fault of a user.
LEMMA UserHit ==
  ASSUME IInv, NEW w \in Workers, NEW r, r = request[w], r \in Creations, r.pc \in UserSteps \ {"save"},
         Facts(r), Busy(w), GiveUp(w, Hit(r)), KeepsPasswords, Grows(r.about), Consistent'
  PROVE  IInv'
<1>1. PICK n, pc : /\ Suffers(n, r, pc, "public", 0) /\ request' = [request EXCEPT ![w] = n]
                   /\ pc \in {"user", "database", "error"}
  BY GivesUp
<1>2. r.pc \in OnInstance /\ r.pc \in InOrganization /\ r.pc \in Steps
  BY DEF Steps, OnInstance, InOrganization
<1>3. Discreet(w, n)
  BY <1>1 DEF Discreet, Suffers
<1> QED BY <1>1, <1>2, <1>3, Hurts DEF Early

\* The facts of a request that goes on with the public user, with its database,
\* or with an error.
LEMMA ToUserFacts ==
  ASSUME NEW r, Facts(r), r.pc \in UserSteps, NEW n, Becomes(n, r, "user", "public", 0),
         instances \subseteq instances', orgs \subseteq orgs', Quiet(r) => User(r, "postgres") \in users'
  PROVE  Facts(n)'
<1>1. Placed(n)'
  BY DEF Facts, Placed, Becomes, OnInstance, InOrganization, Early, UserSteps
<1>2. Peopled(n)'
  BY DEF Becomes, Peopled, Quiet, User, PastPostgres, PastPublic, HasTarget, UserSteps, DatabaseSteps, RestSteps
<1> QED BY <1>1, <1>2 DEF Becomes, Facts, Missing, Trusted, Made, Targeted, Answered, HasTarget, HasRow,
                         PastDatabase, UserSteps, RestSteps

LEMMA ToDatabaseFacts ==
  ASSUME NEW r, Facts(r), r.pc \in UserSteps, NEW n, Becomes(n, r, "database", "public", 0),
         instances \subseteq instances', orgs \subseteq orgs',
         Quiet(r) => User(r, "postgres") \in users' /\ (Known(r)' => User(r, "public") \in roles')
  PROVE  Facts(n)'
<1>1. Placed(n)'
  BY DEF Facts, Placed, Becomes, OnInstance, InOrganization, Early, UserSteps
<1>2. Peopled(n)'
  BY DEF Becomes, Peopled, Quiet, Known, User, PastPostgres, PastPublic, HasTarget, UserSteps, DatabaseSteps, RestSteps
<1> QED BY <1>1, <1>2 DEF Becomes, Facts, Missing, Trusted, Made, Targeted, Answered, HasTarget, HasRow,
                         PastDatabase, UserSteps, RestSteps

LEMMA ToErrorFacts ==
  ASSUME NEW r, Facts(r), r.pc \in UserSteps \cup DatabaseSteps \cup RestSteps,
         NEW n, NEW user, NEW con, Becomes(n, r, "error", user, con),
         Alone(r) => Clashes(r) \/ r.neighbour \/ r.instance \in cut
  PROVE  Facts(n)
<1>1. Placed(n)
  BY DEF Facts, Placed, Becomes, OnInstance, InOrganization, Early, UserSteps
<1>2. Alone(n) => Clashes(n) \/ n.neighbour \/ n.instance \in cut
  BY BecomesSame DEF Becomes
<1> QED BY <1>1, <1>2, ErrorFacts DEF Becomes

\* The facts of a request that goes on with the same user.
LEMMA SameUserFacts ==
  ASSUME NEW r, Facts(r), r.pc \in UserSteps, NEW n, NEW pc, NEW con, Becomes(n, r, pc, r.user, con),
         pc \in UserSteps \ {"save"}, users \subseteq users',
         UNCHANGED <<orgs, instances, rows, saved, actual, roles, cut, cluster, schemas, served>>,
         pc = "reset" => r.user = "postgres", pc = "role" => r.user # "postgres",
         Quiet(r) => /\ pc \in {"connect", "reset", "role"} => UserOf(r) \in users'
                     /\ pc = "newUser" => UserOf(r) \notin users'
                     /\ pc \in {"reset", "role"} => con = saved[r.instance]
  PROVE  Facts(n)'
<1>1. Placed(n)'
  BY DEF Facts, Placed, Becomes, OnInstance, InOrganization, Early, UserSteps
<1>2. /\ n.pc = pc /\ pc \notin {"newOrganization", "newInstance", "newRow", "save", "created", "error"}
      /\ pc \notin {"newDatabase", "create", "readBack", "ensure", "grant", "rest"} /\ pc \notin RestSteps
      /\ (HasTarget(n)' <=> HasTarget(r)) /\ (HasRow(n)' <=> HasTarget(r)) /\ (PastDatabase(n)' <=> HasTarget(r))
      /\ (PastPublic(n)' <=> HasTarget(r)) /\ (PastPostgres(n)' <=> PastPostgres(r))
      /\ (HasTarget(r) => HasRow(r) /\ PastDatabase(r) /\ PastPublic(r))
  BY DEF Becomes, HasTarget, HasRow, PastDatabase, PastPublic, PastPostgres, UserSteps, DatabaseSteps, RestSteps
<1>3. /\ (Quiet(n)' <=> Quiet(r)) /\ (Known(n)' <=> Known(r)) /\ Database(n)' = Database(r)
      /\ UserOf(n)' = UserOf(r) /\ User(n, "postgres")' = User(r, "postgres")
      /\ User(n, "public")' = User(r, "public")
  BY DEF Becomes, Quiet, Known, Database, UserOf, User
<1>4. Missing(n)'
  BY <1>2, <1>3 DEF Missing
<1>5. Peopled(n)'
  BY <1>2, <1>3 DEF Facts, Peopled
<1>6. Trusted(n)'
  BY <1>2, <1>3 DEF Facts, Trusted, Becomes
<1>7. Made(n)'
  BY <1>2, <1>3 DEF Facts, Made, Becomes
<1>8. Targeted(n)'
  BY <1>2 DEF Facts, Targeted, Becomes
<1>9. Answered(n)'
  BY <1>2 DEF Answered
<1> QED BY <1>1, <1>4, <1>5, <1>6, <1>7, <1>8, <1>9 DEF Facts

LEMMA NextFindUser ==
  ASSUME IInv, NEW w \in Workers, FindUser(w)
  PROVE  IInv'
<1>1. PICK r \in Creations : r = request[w] /\ r.pc = "user" /\ Busy(w) /\ Facts(r)
  BY UnderWay DEF FindUser, Steps, UserSteps
<1>2. UNCHANGED tables
  BY DEF FindUser
<1>3. KeepsPasswords /\ Grows(r.about) /\ Consistent'
  BY <1>2, TablesStay DEF IInv, KeepsPasswords, tables, accounts
<1>4. CASE Goes(w, "newUser", Hit(r))
  BY <1>1, <1>2, <1>4, GoesHitOnly DEF Steps, Early, InOrganization, OnInstance, UserSteps
<1>5. CASE GiveUp(w, Hit(r))
  BY <1>1, <1>3, <1>5, UserHit DEF UserSteps
<1>6. ASSUME NEW pc \in {"connect", "newUser"}, Goes(w, pc, r),
             pc = "connect" => UserOf(r) \in users, pc = "newUser" => UserOf(r) \notin users
      PROVE  IInv'
  <2>1. ASSUME NEW n, Becomes(n, r, pc, r.user, r.con)
        PROVE  Facts(n)'
    BY <1>1, <1>2, <1>6, <2>1, SameUserFacts DEF UserSteps, tables, accounts
  <2> QED BY <1>1, <1>3, <1>6, <2>1, GoesGrown DEF Steps, UserSteps
<1> QED BY <1>1, <1>4, <1>5, <1>6 DEF FindUser, Go

LEMMA NextInsertUser ==
  ASSUME IInv, NEW w \in Workers, InsertUser(w)
  PROVE  IInv'
<1>1. PICK r \in Creations : r = request[w] /\ r.pc = "newUser" /\ Busy(w) /\ Facts(r)
  BY UnderWay DEF InsertUser, Steps, UserSteps
<1>2. UNCHANGED <<orgs, instances, rows, saved, actual, roles, resets, cut, cluster, schemas, served>>
  BY DEF InsertUser
<1>3. r.instance \in instances /\ r.instance.org = r.about
  BY <1>1, AboutAsked DEF IInv, Facts, InOrganization, OnInstance, UserSteps
<1>4. users' = users \/ users' = users \cup {UserOf(r)}
  BY <1>1 DEF InsertUser
<1>5. KeepsPasswords /\ Grows(r.about) /\ Consistent'
  BY <1>2, <1>3, <1>4 DEF IInv, KeepsPasswords, Grows, Consistent, UserOf
<1>6. CASE GiveUp(w, Hit(r))
  BY <1>1, <1>5, <1>6, UserHit DEF UserSteps
<1>7. CASE Goes(w, "connect", r) /\ users' = users \cup {UserOf(r)}
  <2>1. ASSUME NEW n, Becomes(n, r, "connect", r.user, r.con)
        PROVE  Facts(n)'
    BY <1>1, <1>2, <1>7, <2>1, SameUserFacts DEF UserSteps
  <2> QED BY <1>1, <1>5, <1>7, <2>1, GoesGrown DEF Steps, UserSteps
<1>8. CASE UserOf(r) \in users /\ GiveUp(w, r) /\ UNCHANGED users
  <2>1. PICK n, pc :
          /\ Becomes(n, r, pc, "public", 0) /\ request' = [request EXCEPT ![w] = n]
          /\ pc = CASE r.user = "postgres" -> "user" [] r.user = "public" -> "database" [] OTHER -> "error"
    BY <1>8, GivesUp
  <2>2. ~Quiet(r) /\ ~Alone(r)
    BY <1>1, <1>8 DEF Facts, Missing, Alone
  <2>3. Facts(n)'
    <3>1. CASE pc = "user"
      BY <1>1, <1>2, <2>1, <2>2, <3>1, ToUserFacts DEF UserSteps
    <3>2. CASE pc = "database"
      BY <1>1, <1>2, <2>1, <2>2, <3>2, ToDatabaseFacts DEF UserSteps
    <3>3. CASE pc = "error"
      <4>1. Facts(n)
        BY <1>1, <2>1, <2>2, <3>3, ToErrorFacts DEF UserSteps
      <4>2. UNCHANGED tables /\ Consistent
        BY <1>2, <1>8 DEF tables, accounts, IInv
      <4> QED BY <4>1, <4>2, FactsStay
    <3> QED BY <2>1, <3>1, <3>2, <3>3
  <2>4. Discreet(w, n)
    BY <1>1, <2>1 DEF Discreet, Becomes
  <2> QED BY <1>1, <1>5, <2>1, <2>3, <2>4, Moves DEF Steps, UserSteps
<1> QED BY <1>1, <1>6, <1>7, <1>8 DEF InsertUser, Go

\* Connecting to an instance reads the password in its row, or takes the
\* initial one.
LEMMA NextConnects ==
  ASSUME IInv, NEW w \in Workers, NEW r \in Creations, r = request[w], Busy(w), Facts(r),
         r.pc \in OnInstance \ {"save"}, NEW next \in {"reset", "role", "create", "ensure"}, Connects(w, next),
         next = "reset" => r.user = "postgres", next = "role" => r.user # "postgres",
         \A n : Becomes(n, r, next, r.user, saved[r.instance]) => Facts(n)
  PROVE  IInv'
<1>1. UNCHANGED tables
  BY DEF Connects
<1>2. KeepsPasswords /\ Grows(r.about) /\ Consistent'
  BY <1>1, TablesStay DEF IInv, KeepsPasswords, tables, accounts
<1>3. r.instance \in instances /\ saved[r.instance] \in Nat
  BY DEF IInv, Consistent, Facts, Placed
<1>4. next \in Steps /\ r.pc \in Steps /\ r.pc \in InOrganization /\ next \notin Early
  BY DEF Steps, InOrganization, OnInstance, Early, UserSteps, DatabaseSteps
<1>5. CASE Goes(w, next, [r EXCEPT !.con = saved[r.instance]])
  <2>1. PICK con : con = saved[r.instance]
    OBVIOUS
  <2>2. PICK n : n = [[r EXCEPT !.con = con] EXCEPT !.pc = next] /\ request' = [request EXCEPT ![w] = n]
    BY <1>5, <2>1, Zenon DEF Goes
  <2>3. Becomes(n, r, next, r.user, con)
    BY <1>3, <1>4, <2>1, <2>2, ToPassword
  <2>4. Discreet(w, n)
    BY <1>3, <2>1, <2>3 DEF Discreet, Becomes
  <2> QED BY <1>1, <1>4, <2>1, <2>2, <2>3, <2>4, MovesOnly
<1>6. CASE Goes(w, next, [Hit(r) EXCEPT !.con = 0])
  <2>1. PICK n : n = [[[r EXCEPT !.hit = TRUE] EXCEPT !.con = 0] EXCEPT !.pc = next]
                 /\ request' = [request EXCEPT ![w] = n]
    BY <1>6, Zenon DEF Goes, Hit
  <2>2. Suffers(n, r, next, r.user, 0)
    BY <1>4, <2>1, ToPassword
  <2>3. Discreet(w, n)
    BY <2>2 DEF Discreet, Suffers
  <2> QED BY <1>2, <1>4, <2>1, <2>2, <2>3, Hurts
<1> QED BY <1>5, <1>6 DEF Connects

LEMMA NextConnectUser ==
  ASSUME IInv, NEW w \in Workers, ConnectUser(w)
  PROVE  IInv'
<1>1. PICK r \in Creations : r = request[w] /\ r.pc = "connect" /\ Busy(w) /\ Facts(r)
  BY UnderWay DEF ConnectUser, Steps, UserSteps
<1>2. PICK next : next = IF r.user = "postgres" THEN "reset" ELSE "role"
  OBVIOUS
<1>3. Connects(w, next) /\ UNCHANGED tables
  BY <1>1, <1>2 DEF ConnectUser, Connects
<1>4. ASSUME NEW n, Becomes(n, r, next, r.user, saved[r.instance])
      PROVE  Facts(n)
  <2>1. Placed(n)
    BY <1>1, <1>2, <1>4 DEF Facts, Placed, Becomes, OnInstance, InOrganization, Early, UserSteps
  <2>2. /\ n.pc = next /\ next \in {"reset", "role"}
        /\ (HasTarget(n) <=> HasTarget(r)) /\ (HasRow(n) <=> HasTarget(r)) /\ (PastDatabase(n) <=> HasTarget(r))
        /\ (PastPublic(n) <=> HasTarget(r)) /\ (PastPostgres(n) <=> PastPostgres(r))
        /\ (HasTarget(r) => HasRow(r) /\ PastDatabase(r) /\ PastPublic(r))
    BY <1>1, <1>2, <1>4
    DEF Becomes, HasTarget, HasRow, PastDatabase, PastPublic, PastPostgres, UserSteps, DatabaseSteps, RestSteps
  <2>3. UserOf(r) = User(r, r.user)
    BY DEF UserOf, User
  <2>4. Missing(n) /\ Answered(n)
    BY <2>2 DEF Missing, Answered
  <2>5. Peopled(n)
    BY <1>1, <1>4, <2>2, <2>3, BecomesSame DEF Facts, Peopled, RestSteps
  <2>6. Trusted(n)
    BY <1>1, <1>4, <2>2, BecomesSame DEF Facts, Trusted, Becomes
  <2>7. Made(n)
    BY <1>1, <1>4, <2>2, BecomesSame DEF Facts, Made, Becomes
  <2>8. Targeted(n)
    BY <1>1, <1>4, <2>2 DEF Facts, Targeted, Becomes
  <2> QED BY <2>1, <2>4, <2>5, <2>6, <2>7, <2>8 DEF Facts
<1>5. r.pc \in OnInstance \ {"save"} /\ next \in {"reset", "role", "create", "ensure"}
  BY <1>1, <1>2 DEF OnInstance, UserSteps
<1> QED BY <1>1, <1>2, <1>3, <1>4, <1>5, NextConnects

\* A new password is known to whoever gave it alone, unless it is lost.
LEMMA ResetGuarded ==
  ASSUME IInv, NEW w \in Workers, NEW r, r = request[w], r.pc = "reset", r.instance \in instances, Opens(r),
         NEW n \in Creations, request' = [request EXCEPT ![w] = n], n.instance = r.instance,
         instances' = instances, saved' = saved, resets' = resets + 1,
         actual' = [actual EXCEPT ![r.instance] = resets + 1],
         \/ n.pc = "save" /\ n.con = resets + 1 /\ cut' = cut
         \/ n.pc # "save" /\ n.con = 0 /\ cut' = cut \cup {r.instance}
  PROVE  Guarded'
<1>1. \A o \in Workers : request'[o] = IF o = w THEN n ELSE request[o]
  BY DEF IInv, TypeOK
<1>2. /\ resets \in Nat /\ \A i \in instances : saved[i] \in Nat /\ saved[i] <= resets
      /\ \A i \in instances : actual'[i] = IF i = r.instance THEN resets + 1 ELSE actual[i]
  BY DEF IInv, Consistent, Guarded, Bounded
<1>3. \A o \in Workers : request[o].pc \in Steps => request[o].con \in Nat /\ request[o].con <= resets
  BY Working DEF Creations, IInv, Guarded, Bounded
<1>4. Bounded'
  BY <1>1, <1>2, <1>3 DEF Bounded
<1>5. ASSUME NEW o \in Workers, Under(o, "save")'
      PROVE  Secret(o)'
  <2>1. CASE o = w
    <3>1. n.con = resets + 1
      BY <1>1, <1>5, <2>1 DEF Under
    <3> QED BY <1>1, <1>2, <1>3, <2>1, <3>1 DEF Secret
  <2>2. CASE o # w
    <3>1. request'[o] = request[o] /\ Under(o, "save") /\ Secret(o)
      BY <1>1, <1>5, <2>2 DEF Under, IInv, Guarded
    <3>2. PICK q : q = request[o] /\ q.pc = "save" /\ Facts(q)
      BY <3>1, UnderWay DEF Steps, UserSteps
    <3>3. q.con \in Nat /\ q.con <= resets /\ q.instance \in instances
      BY <1>3, <3>2 DEF Facts, Placed, OnInstance, UserSteps, Steps
    <3>4. r.con # q.con
      BY <2>2, <3>1, <3>2 DEF Secret, Steps, UserSteps
    <3>5. q.instance # r.instance
      BY <3>1, <3>2, <3>4 DEF Secret, Opens
    <3>6. n.con # q.con
      BY <1>2, <3>1, <3>2, <3>3 DEF Secret
    <3> QED BY <1>1, <1>2, <2>2, <3>1, <3>2, <3>3, <3>5, <3>6 DEF Secret
  <2> QED BY <2>1, <2>2
<1>6. Sound'
  <2> SUFFICES ASSUME NEW i \in instances
               PROVE  \/ saved[i] = actual'[i] \/ i \in cut'
                      \/ \E o \in Workers : Under(o, "save")' /\ request'[o].instance = i
    BY DEF Sound
  <2>1. CASE i = r.instance
    BY <1>1, <2>1 DEF Under
  <2>2. CASE i # r.instance
    <3>1. \A o \in Workers : Under(o, "save") => Under(o, "save")' /\ request'[o] = request[o]
      BY <1>1 DEF Under
    <3> QED BY <1>2, <2>2, <3>1 DEF IInv, Guarded, Sound
  <2> QED BY <2>1, <2>2
<1> QED BY <1>4, <1>5, <1>6 DEF Guarded

LEMMA NextResetRole ==
  ASSUME IInv, NEW w \in Workers, ResetRole(w)
  PROVE  IInv'
<1>1. PICK r \in Creations : r = request[w] /\ r.pc = "reset" /\ Busy(w) /\ Facts(r)
  BY UnderWay DEF ResetRole, Steps, UserSteps
<1>2. UNCHANGED <<orgs, instances, rows, users, saved, roles, cluster, schemas, served>>
  BY DEF ResetRole
<1>3. /\ r.instance \in instances /\ r.instance.org = r.about /\ r.user = "postgres"
      /\ r.pc \in UserSteps /\ r.pc \in OnInstance /\ r.pc \in InOrganization /\ r.pc \in Steps
  BY <1>1, AboutAsked DEF IInv, Facts, Placed, Steps, InOrganization, OnInstance, UserSteps
<1>4. resets \in Nat /\ actual \in [instances -> Nat]
  BY DEF IInv, Consistent
<1>5. CASE ~Opens(r) /\ GiveUp(w, r) /\ UNCHANGED <<actual, resets, cut>>
  <2>1. PICK n : Becomes(n, r, "user", "public", 0) /\ request' = [request EXCEPT ![w] = n]
    BY <1>3, <1>5, GivesUp
  <2>2. Quiet(r) => User(r, "postgres") \in users'
    BY <1>1, <1>2, <1>3 DEF Facts, Peopled, UserOf, User
  <2>3. Facts(n)'
    BY <1>1, <1>2, <1>3, <2>1, <2>2, ToUserFacts
  <2>4. UNCHANGED tables
    BY <1>2, <1>5 DEF tables, accounts
  <2>5. Discreet(w, n) /\ KeepsPasswords /\ Grows(r.about) /\ Consistent'
    BY <1>1, <2>1, <2>4, TablesStay DEF Discreet, Becomes, KeepsPasswords, tables, accounts, IInv
  <2> QED BY <1>1, <1>3, <2>1, <2>3, <2>5, Moves
<1>6. ASSUME NEW n \in Creations, request' = [request EXCEPT ![w] = n], Opens(r), resets' = resets + 1,
             actual' = [actual EXCEPT ![r.instance] = resets + 1], cut \subseteq cut', Facts(n)',
             n.instance = r.instance, n.about = r.about, n.overlaps = r.overlaps,
             \/ n.pc = "save" /\ n.con = resets + 1 /\ cut' = cut
             \/ n.pc # "save" /\ n.con = 0 /\ cut' = cut \cup {r.instance}
      PROVE  IInv'
  <2>1. Guarded'
    BY <1>1, <1>2, <1>3, <1>6, ResetGuarded
  <2>2. Consistent'
    <3>1. PICK next \in Nat : next = resets + 1
      BY <1>4
    <3>2. actual' = [actual EXCEPT ![r.instance] = next] /\ resets' = next
      BY <1>6, <3>1
    <3>3. actual' \in [instances -> Nat]
      BY ONLY <1>4, <3>1, <3>2
    <3> QED BY <1>2, <3>2, <3>3 DEF IInv, Consistent
  <2>3. Grows(r.about)
    BY <1>2, <1>3, <1>4, <1>6 DEF Grows
  <2> QED BY <1>1, <1>6, <2>1, <2>2, <2>3, Moved
<1>7. CASE /\ Opens(r) /\ Goes(w, "save", [r EXCEPT !.con = resets + 1])
           /\ actual' = [actual EXCEPT ![r.instance] = resets + 1] /\ resets' = resets + 1 /\ UNCHANGED cut
  <2>1. PICK con \in Nat : con = resets + 1
    BY <1>4
  <2>2. PICK n : n = [[r EXCEPT !.con = con] EXCEPT !.pc = "save"] /\ request' = [request EXCEPT ![w] = n]
    BY <1>7, <2>1, Zenon DEF Goes
  <2>3. Becomes(n, r, "save", r.user, con)
    BY <2>2, ToPassword DEF Steps, UserSteps
  <2>4. Facts(n)'
    <3>1. Placed(n)'
      BY <1>1, <1>2, <1>3, <2>3 DEF Facts, Placed, Becomes, OnInstance, InOrganization, Early, UserSteps
    <3>2. n.pc = "save" /\ n.user = "postgres" /\ n.con = actual'[n.instance]
      BY <1>3, <1>4, <1>7, <2>1, <2>3 DEF Becomes
    <3>3. Quiet(n)' => UserOf(n)' \in users'
      BY <1>1, <1>2, <2>3 DEF Facts, Peopled, UserOf, Becomes, Quiet
    <3> QED BY <3>1, <3>2, <3>3
            DEF Facts, Missing, Peopled, Trusted, Made, Targeted, Answered, HasTarget, HasRow, PastDatabase,
                PastPublic, PastPostgres, UserSteps, DatabaseSteps, RestSteps
  <2> QED BY <1>6, <1>7, <2>1, <2>2, <2>3, <2>4 DEF Becomes
<1>8. CASE GiveUp(w, Hit(r)) /\ UNCHANGED <<actual, resets, cut>>
  <2>1. UNCHANGED tables
    BY <1>2, <1>8 DEF tables, accounts
  <2>2. KeepsPasswords /\ Grows(r.about) /\ Consistent'
    BY <2>1, TablesStay DEF KeepsPasswords, tables, accounts, IInv
  <2> QED BY <1>1, <1>8, <2>2, UserHit DEF UserSteps
<1>9. CASE /\ GiveUp(w, Hit(r)) /\ Opens(r) /\ cut' = cut \cup {r.instance}
           /\ actual' = [actual EXCEPT ![r.instance] = resets + 1] /\ resets' = resets + 1
  <2>1. PICK n, pc : /\ Suffers(n, r, pc, "public", 0) /\ request' = [request EXCEPT ![w] = n]
                     /\ pc \in {"user", "database", "error"}
    BY <1>9, GivesUp
  <2>2. Grows(r.about)
    BY <1>2, <1>3, <1>4, <1>9 DEF Grows
  <2>3. Facts(n)'
    BY <1>1, <1>3, <2>1, <2>2, HitFacts DEF Early
  <2> QED BY <1>6, <1>9, <2>1, <2>3 DEF Suffers
<1> QED BY <1>1, <1>5, <1>7, <1>8, <1>9 DEF ResetRole

\* Who saves the password it has given makes the row sound again.
LEMMA SaveGuarded ==
  ASSUME IInv, NEW w \in Workers, NEW r, r = request[w], r.pc = "save", r.instance \in instances,
         NEW n \in Creations, request' = [request EXCEPT ![w] = n], n.pc # "save", n.con = 0,
         instances' = instances, actual' = actual, resets' = resets,
         \/ saved' = [saved EXCEPT ![r.instance] = r.con] /\ cut' = cut
         \/ saved' = saved /\ cut' = cut \cup {r.instance}
  PROVE  Guarded'
<1>1. \A o \in Workers : request'[o] = IF o = w THEN n ELSE request[o]
  BY DEF IInv, TypeOK
<1>2. Secret(w)
  BY DEF IInv, Guarded, Under
<1>3. /\ resets \in Nat /\ \A i \in instances : saved[i] \in Nat /\ saved[i] <= resets
      /\ \A i \in instances : saved'[i] = saved[i] \/ (i = r.instance /\ saved'[i] = r.con)
  BY DEF IInv, Consistent, Guarded, Bounded
<1>4. \A o \in Workers : request[o].pc \in Steps => request[o].con \in Nat /\ request[o].con <= resets
  BY Working DEF Creations, IInv, Guarded, Bounded
<1>5. r.pc \in Steps
  BY DEF Steps, UserSteps
<1>6. Bounded'
  BY <1>1, <1>3, <1>4, <1>5 DEF Bounded
<1>7. ASSUME NEW o \in Workers, Under(o, "save")'
      PROVE  Secret(o)'
  <2>1. o # w /\ request'[o] = request[o] /\ Under(o, "save") /\ Secret(o)
    BY <1>1, <1>7 DEF Under, IInv, Guarded
  <2>2. r.con # request[o].con /\ n.con # request[o].con
    BY <1>5, <2>1 DEF Secret
  <2> QED BY <1>1, <1>3, <2>1, <2>2 DEF Secret
<1>8. Sound'
  <2> SUFFICES ASSUME NEW i \in instances
               PROVE  \/ saved'[i] = actual[i] \/ i \in cut'
                      \/ \E o \in Workers : Under(o, "save")' /\ request'[o].instance = i
    BY DEF Sound
  <2>1. CASE i = r.instance
    BY <1>2, <2>1 DEF Secret, IInv, Consistent
  <2>2. CASE i # r.instance
    <3>1. \A o \in Workers : Under(o, "save") /\ request[o].instance = i
                               => Under(o, "save")' /\ request'[o] = request[o]
      BY <1>1, <2>2 DEF Under
    <3> QED BY <1>3, <2>2, <3>1 DEF IInv, Guarded, Sound
  <2> QED BY <2>1, <2>2
<1> QED BY <1>6, <1>7, <1>8 DEF Guarded

LEMMA NextSavePassword ==
  ASSUME IInv, NEW w \in Workers, SavePassword(w)
  PROVE  IInv'
<1>1. PICK r \in Creations : r = request[w] /\ r.pc = "save" /\ Busy(w) /\ Facts(r)
  BY UnderWay DEF SavePassword, Steps, UserSteps
<1>2. UNCHANGED <<orgs, instances, rows, users, actual, roles, resets, cluster, schemas, served>>
  BY DEF SavePassword
<1>3. /\ r.instance \in instances /\ r.instance.org = r.about /\ r.user = "postgres" /\ r.con \in Nat
      /\ r.pc \in UserSteps /\ r.pc \in OnInstance /\ r.pc \in InOrganization
  BY <1>1, AboutAsked DEF IInv, Facts, Placed, Creations, InOrganization, OnInstance, UserSteps
<1>4. \/ saved' = [saved EXCEPT ![r.instance] = r.con] /\ cut' = cut
      \/ saved' = saved /\ cut' = cut \cup {r.instance}
  BY <1>1 DEF SavePassword
<1>5. Consistent' /\ Grows(r.about)
  BY <1>2, <1>3, <1>4 DEF IInv, Consistent, Grows
<1>6. ASSUME NEW n \in Creations, request' = [request EXCEPT ![w] = n], n.pc # "save", n.con = 0, Facts(n)',
             n.about = r.about, n.overlaps = r.overlaps
      PROVE  IInv'
  <2>1. Guarded'
    BY <1>1, <1>2, <1>3, <1>4, <1>6, SaveGuarded
  <2> QED BY <1>1, <1>5, <1>6, <2>1, Moved
<1>7. CASE Goal(w, r)
  <2>1. PICK n : Becomes(n, r, "user", "public", 0) /\ request' = [request EXCEPT ![w] = n]
    BY <1>3, <1>7, GivesUp
  <2>2. Quiet(r) => User(r, "postgres") \in users'
    BY <1>1, <1>2, <1>3 DEF Facts, Peopled, UserOf, User
  <2>3. Facts(n)'
    BY <1>1, <1>2, <1>3, <2>1, <2>2, ToUserFacts
  <2> QED BY <1>6, <2>1, <2>3 DEF Becomes
<1>8. CASE GiveUp(w, Hit(r))
  <2>1. PICK n, pc : /\ Suffers(n, r, pc, "public", 0) /\ request' = [request EXCEPT ![w] = n]
                     /\ pc \in {"user", "database", "error"}
    BY <1>8, GivesUp
  <2>2. Facts(n)'
    BY <1>1, <1>3, <1>5, <2>1, HitFacts DEF Early
  <2> QED BY <1>6, <2>1, <2>2 DEF Suffers
<1> QED BY <1>1, <1>7, <1>8 DEF SavePassword

LEMMA NextEnsureRole ==
  ASSUME IInv, NEW w \in Workers, EnsureRole(w)
  PROVE  IInv'
<1>1. PICK r \in Creations : r = request[w] /\ r.pc = "role" /\ Busy(w) /\ Facts(r)
  BY UnderWay DEF EnsureRole, Steps, UserSteps
<1>2. UNCHANGED <<orgs, instances, rows, users, saved, actual, resets, cut, cluster, schemas, served>>
  BY DEF EnsureRole
<1>3. /\ r.instance \in instances /\ r.user \in {"public", "authenticator"}
      /\ r.pc \in UserSteps /\ r.pc \in OnInstance \ {"save"} /\ r.pc \in Steps
  BY <1>1 DEF Facts, Placed, Creations, Steps, OnInstance, UserSteps
<1>4. roles' = roles \/ roles' = roles \cup {UserOf(r)}
  BY <1>1 DEF EnsureRole
<1>5. KeepsPasswords /\ Grows(r.about) /\ Consistent'
  BY <1>2, <1>4 DEF IInv, KeepsPasswords, Grows, Consistent
<1>6. CASE GiveUp(w, Hit(r))
  BY <1>1, <1>3, <1>5, <1>6, UserHit
<1>7. Quiet(r) => /\ User(r, "postgres") \in users'
                  /\ r.user = "authenticator" /\ Known(r) => User(r, "public") \in roles'
                  /\ (Opens(r) <=> Known(r))
  <2>1. PastPostgres(r) /\ (r.user = "authenticator" => PastPublic(r))
    BY <1>1, <1>3 DEF PastPostgres, PastPublic, HasTarget
  <2> QED BY <1>1, <1>2, <1>4, <2>1 DEF Facts, Peopled, Trusted, Opens, Known
<1>8. ASSUME NEW n, NEW pc, Becomes(n, r, pc, "public", 0), request' = [request EXCEPT ![w] = n], pc # "save",
             Facts(n)'
      PROVE  IInv'
  <2>1. Discreet(w, n)
    BY <1>1, <1>8 DEF Discreet, Becomes
  <2> QED BY <1>1, <1>3, <1>5, <1>8, <2>1, Moves
<1>9. CASE ~Opens(r) /\ GiveUp(w, r) /\ UNCHANGED roles
  <2>1. PICK n, pc : /\ Becomes(n, r, pc, "public", 0) /\ request' = [request EXCEPT ![w] = n]
                     /\ pc = IF r.user = "public" THEN "database" ELSE "error"
    BY <1>3, <1>9, GivesUp
  <2>2. UNCHANGED tables /\ (Known(r)' <=> Known(r))
    BY <1>2, <1>9 DEF tables, accounts, Known
  <2>3. CASE pc = "database"
    <3>1. Facts(n)'
      BY <1>1, <1>2, <1>3, <1>7, <1>9, <2>1, <2>2, <2>3, ToDatabaseFacts
    <3> QED BY <1>8, <2>1, <2>3, <3>1
  <2>4. CASE pc = "error"
    <3>1. Alone(r) => r.instance \in cut
      BY <1>1, <1>3, <1>7, <1>9, CutOrKnown DEF Alone
    <3>2. Facts(n)
      BY <1>1, <1>3, <2>1, <2>4, <3>1, ToErrorFacts
    <3>3. Facts(n)'
      BY <2>2, <3>2, FactsStay DEF IInv
    <3> QED BY <1>8, <2>1, <2>4, <3>3
  <2> QED BY <2>1, <2>3, <2>4
<1>10. CASE Opens(r) /\ Goal(w, r) /\ roles' = roles \cup {UserOf(r)}
  <2>1. PICK n, pc : /\ Becomes(n, r, pc, "public", 0) /\ request' = [request EXCEPT ![w] = n]
                     /\ pc = IF r.user = "public" THEN "database" ELSE "schema"
    BY <1>3, <1>10, GivesUp
  <2>2. User(r, r.user) \in roles' /\ (Known(r)' <=> Known(r))
    BY <1>2, <1>10 DEF UserOf, User, Known
  <2>3. CASE pc = "database"
    <3>1. r.user = "public"
      BY <2>1, <2>3
    <3>2. Facts(n)'
      BY <1>1, <1>2, <1>3, <1>7, <2>1, <2>2, <2>3, <3>1, ToDatabaseFacts
    <3> QED BY <1>8, <2>1, <2>3, <3>2
  <2>4. CASE pc = "schema"
    <3>1. r.user = "authenticator" /\ HasTarget(r) /\ HasRow(r) /\ PastDatabase(r)
      BY <1>3, <2>1, <2>4 DEF HasTarget, HasRow, PastDatabase
    <3>2. /\ n.pc = "schema" /\ (Quiet(n)' <=> Quiet(r)) /\ (Known(n)' <=> Known(r)) /\ Database(n)' = Database(r)
          /\ User(n, "postgres")' = User(r, "postgres") /\ User(n, "public")' = User(r, "public")
          /\ User(n, "authenticator")' = User(r, "authenticator")
          /\ HasTarget(n)' /\ HasRow(n)' /\ PastDatabase(n)'
      BY <1>2, <2>1, <2>4 DEF Becomes, Quiet, Known, Database, User, HasTarget, HasRow, PastDatabase, RestSteps
    <3>3. Placed(n)'
      BY <1>1, <1>2, <2>1, <2>4
      DEF Facts, Placed, Becomes, OnInstance, InOrganization, Early, UserSteps, RestSteps
    <3>4. Peopled(n)'
      BY <1>7, <2>2, <3>1, <3>2 DEF Peopled
    <3>5. Trusted(n)'
      BY <1>1, <1>2, <2>1, <3>1, <3>2 DEF Facts, Trusted, Becomes
    <3>6. Made(n)'
      BY <1>1, <1>2, <2>1, <3>1, <3>2 DEF Facts, Made, Becomes
    <3>7. Targeted(n)'
      BY <1>1, <1>2, <2>1, <3>1, <3>2 DEF Facts, Targeted, Becomes
    <3>8. Missing(n)' /\ Answered(n)'
      BY <3>2 DEF Missing, Answered
    <3>9. Facts(n)'
      BY <3>3, <3>4, <3>5, <3>6, <3>7, <3>8 DEF Facts
    <3> QED BY <1>8, <2>1, <2>4, <3>9
  <2> QED BY <2>1, <2>3, <2>4
<1> QED BY <1>1, <1>6, <1>9, <1>10 DEF EnsureRole

-----------------------------------------------------------------------------
(* The database.                                                           *)

\* From one step of the database to the next, the users are what they were.
LEMMA DatabaseStepFacts ==
  ASSUME NEW r, Facts(r), r.pc \in DatabaseSteps, NEW n, n.pc \in DatabaseSteps,
         n.about = r.about, n.hit = r.hit, n.overlaps = r.overlaps, n.asked = r.asked, n.instance = r.instance,
         UNCHANGED <<orgs, instances, users, saved, actual, roles>>
  PROVE  /\ Placed(n)' /\ Peopled(n)' /\ Answered(n)' /\ Targeted(n)'
         /\ ~HasTarget(n)' /\ ~HasTarget(r)
         /\ (Quiet(n)' <=> Quiet(r)) /\ (Alone(n)' <=> Alone(r)) /\ (Known(n)' <=> Known(r))
         /\ Database(n)' = Database(r)
<1>1. Placed(n)'
  BY DEF Facts, Placed, OnInstance, InOrganization, Early, DatabaseSteps
<1>2. /\ (Quiet(n)' <=> Quiet(r)) /\ (Alone(n)' <=> Alone(r)) /\ (Known(n)' <=> Known(r))
      /\ Database(n)' = Database(r)
      /\ User(n, "postgres")' = User(r, "postgres") /\ User(n, "public")' = User(r, "public")
  BY DEF Quiet, Alone, Plain, Known, Database, User
<1>3. /\ ~HasTarget(n)' /\ ~HasTarget(r) /\ PastPublic(r) /\ PastPostgres(r)
      /\ n.pc \notin {"connect", "reset", "save", "role", "grant", "rest", "created", "error"}
      /\ n.pc \notin RestSteps
  BY DEF HasTarget, PastPublic, PastPostgres, UserSteps, DatabaseSteps, RestSteps
<1>4. Peopled(n)'
  BY <1>2, <1>3 DEF Facts, Peopled
<1>5. Answered(n)' /\ Targeted(n)'
  BY <1>3 DEF Answered, Targeted
<1> QED BY <1>1, <1>2, <1>3, <1>4, <1>5

LEMMA NextDatabaseExists ==
  ASSUME IInv, NEW w \in Workers, DatabaseExists(w)
  PROVE  IInv'
<1>1. PICK r \in Creations : r = request[w] /\ r.pc = "database" /\ Busy(w) /\ Facts(r)
  BY UnderWay DEF DatabaseExists, Steps, DatabaseSteps
<1>2. UNCHANGED tables
  BY DEF DatabaseExists
<1>3. KeepsPasswords /\ Grows(r.about) /\ Consistent'
  BY <1>2, TablesStay DEF KeepsPasswords, tables, accounts, IInv
<1>4. CASE Goes(w, "newRow", Hit(r))
  BY <1>1, <1>2, <1>4, GoesHitOnly DEF Steps, Early, InOrganization, OnInstance, UserSteps, DatabaseSteps
<1>5. CASE RowsOf(r.asked.org, r.asked.db) = {} /\ Goes(w, "newRow", r)
  <2>1. ASSUME NEW n, Becomes(n, r, "newRow", r.user, r.con)
        PROVE  Facts(n)'
    <3>1. Placed(n)' /\ Peopled(n)' /\ Answered(n)' /\ Targeted(n)' /\ ~HasTarget(n)'
      BY <1>1, <1>2, <2>1, DatabaseStepFacts DEF Becomes, DatabaseSteps, tables, accounts
    <3>2. RowsOf(n.asked.org, n.asked.db)' = {}
      BY <1>2, <1>5, <2>1 DEF Becomes, RowsOf, tables
    <3>3. n.pc = "newRow"
      BY <2>1 DEF Becomes
    <3> QED BY <3>1, <3>2, <3>3 DEF Facts, Missing, Trusted, Made, HasRow, PastDatabase
  <2> QED  BY <1>1, <1>3, <1>5, <2>1, GoesGrown DEF Steps, DatabaseSteps
<1>6. ASSUME RowsOf(r.asked.org, r.asked.db) # {},
             NEW row, row = (CHOOSE x \in RowsOf(r.asked.org, r.asked.db) : TRUE),
             NEW m, m = [r EXCEPT !.row = row], Goes(w, "found", m)
      PROVE  IInv'
  <2>1. row \in rows /\ row.name = r.asked.db /\ row \in Rows
    BY <1>6 DEF RowsOf, IInv, Consistent
  <2>2. /\ m \in Creations /\ m.row = row /\ m.hit = r.hit /\ m.instance = r.instance /\ m.con = r.con
        /\ m.about = r.about /\ m.overlaps = r.overlaps /\ m.asked = r.asked
    BY ONLY <1>6, <2>1, r \in Creations DEF Creations
  <2>3. ASSUME NEW n, Becomes(n, m, "found", m.user, m.con)
        PROVE  Facts(n)'
    <3>1. Placed(n)' /\ Peopled(n)' /\ Answered(n)' /\ Targeted(n)' /\ ~HasTarget(n)'
      BY <1>1, <1>2, <2>2, <2>3, DatabaseStepFacts DEF Becomes, DatabaseSteps, tables, accounts
    <3>2. n.row \in rows' /\ n.row.name = n.asked.db /\ n.pc = "found"
      BY <1>2, <2>1, <2>2, <2>3 DEF Becomes, tables
    <3> QED BY <3>1, <3>2 DEF Facts, Missing, Trusted, Made, HasRow, PastDatabase
  <2>4. /\ m.about = request[w].about /\ m.overlaps = request[w].overlaps /\ m.con = request[w].con
        /\ "found" \in Steps \ {"save"} /\ request[w].pc \in Steps \ {"save"} /\ Grows(m.about)
    BY <1>1, <1>3, <2>2 DEF Steps, DatabaseSteps
  <2> QED  BY ONLY IInv, w \in Workers, <1>1, <1>3, <1>6, <2>2, <2>3, <2>4, GoesGrown
<1> QED
  <2>1. CASE Goes(w, "newRow", Hit(r))
    BY <2>1, <1>4
  <2>2. CASE RowsOf(r.asked.org, r.asked.db) = {} /\ Goes(w, "newRow", r)
    BY <2>2, <1>5
  <2>3. CASE /\ RowsOf(r.asked.org, r.asked.db) # {}
             /\ Goes(w, "found", [r EXCEPT !.row = CHOOSE x \in RowsOf(r.asked.org, r.asked.db) : TRUE])
    BY <2>3, <1>6
  <2> QED  BY <1>1, <2>1, <2>2, <2>3 DEF DatabaseExists, Go

\* A row that the table refuses has its like, or clashes with another.
LEMMA RowRefused ==
  ASSUME IInv, NEW r \in Creations, Facts(r), r.pc = "newRow", Alone(r), NEW row \in rows,
         \/ row.instance = r.instance /\ row.name = Clean(r.asked.db)
         \/ row.host = r.asked.org \o r.asked.db
  PROVE  Clashes(r)
<1>1. RowsOf(r.asked.org, r.asked.db) = {} /\ Clean(r.asked.db) = r.asked.db
  BY DEF Facts, Missing, Alone, Plain, IsClean
<1>2. row.instance.org = row.org /\ r.instance.org = r.asked.org
  BY DEF IInv, Consistent, Facts, Placed, OnInstance, DatabaseSteps
<1>3. row.org # r.asked.org \/ row.name # r.asked.db
  BY <1>1 DEF RowsOf
<1>4. row.host = r.asked.org \o r.asked.db
  BY <1>1, <1>2, <1>3
<1> QED  BY <1>3, <1>4 DEF Clashes

LEMMA NextInsertRow ==
  ASSUME IInv, NEW w \in Workers, InsertRow(w)
  PROVE  IInv'
<1>1. PICK r \in Creations : r = request[w] /\ r.pc = "newRow" /\ Busy(w) /\ Facts(r)
  BY UnderWay DEF InsertRow, Steps, DatabaseSteps
<1>2. /\ r.asked.org = r.about /\ r.asked.org \in orgs
      /\ r.instance \in instances /\ r.instance.org = r.asked.org
  BY <1>1, AboutAsked DEF InOrganization, OnInstance, DatabaseSteps, IInv, Facts
<1> PICK new : new = [name |-> Clean(r.asked.db), org |-> r.asked.org, instance |-> r.instance,
                      host |-> r.asked.org \o r.asked.db]
  OBVIOUS
<1>3. /\ new.name = Clean(r.asked.db) /\ new.org = r.asked.org /\ new.instance = r.instance
      /\ new.host = r.asked.org \o r.asked.db
  OBVIOUS
<1>4. new \in Rows
  <2>1. r.asked.org \in Orgs /\ r.asked.db \in Labels /\ Clean(r.asked.db) \in Labels
    BY AskedTyped DEF Creations
  <2>2. r.instance \in Instances
    BY <1>2 DEF IInv, Consistent
  <2>3. r.asked.org \o r.asked.db \in Hosts
    <3>1. PICK org \in Orgs, name \in Labels : org = r.asked.org /\ name = r.asked.db
      BY <2>1
    <3>2. org \o name \in {org \o x : x \in Labels}
      BY Zenon
    <3>3. {org \o x : x \in Labels} \in {{y \o x : x \in Labels} : y \in Orgs}
      BY Zenon
    <3>4. org \o name \in Hosts
      BY <3>2, <3>3, Zenon DEF Hosts
    <3> QED  BY <3>1, <3>4
  <2> QED  BY <2>1, <2>2, <2>3 DEF Rows
<1> PICK refused \in BOOLEAN :
      refused <=> \E row \in rows : \/ row.instance = new.instance /\ row.name = new.name
                                    \/ row.host = new.host
  OBVIOUS
<1>5. UNCHANGED <<orgs, instances, accounts, cluster, schemas, served>>
  BY DEF InsertRow
<1>6. \/ /\ Goes(w, "newDatabase", r)
         /\ rows' = IF refused THEN rows ELSE rows \cup {new}
      \/ UNCHANGED rows /\ (Goes(w, "error", Hit(r)) \/ Goes(w, "newDatabase", Hit(r)))
  BY <1>1 DEF InsertRow, Go
<1>7. rows' = rows \/ rows' = rows \cup {new}
  BY <1>6
<1>8. Grows(r.about) /\ KeepsPasswords
  BY <1>2, <1>3, <1>5, <1>7 DEF Grows, KeepsPasswords, accounts
<1>9. Consistent'
  BY <1>2, <1>3, <1>4, <1>5, <1>7 DEF IInv, Consistent, accounts
<1>10. CASE Goes(w, "error", Hit(r)) \/ Goes(w, "newDatabase", Hit(r))
  BY <1>1, <1>8, <1>9, <1>10, GoesHit DEF Steps, Early, InOrganization, OnInstance, UserSteps, DatabaseSteps, RestSteps
<1>11. CASE /\ Goes(w, "newDatabase", r)
            /\ rows' = IF refused THEN rows ELSE rows \cup {new}
  <2>1. Alone(r) => RowsOf(r.asked.org, r.asked.db)' # {} \/ Clashes(r)'
    <3> SUFFICES ASSUME Alone(r)
                 PROVE  RowsOf(r.asked.org, r.asked.db)' # {} \/ Clashes(r)'
      OBVIOUS
    <3>1. CASE refused
      <4>1. Clashes(r)
        BY <1>1, <1>3, <3>1, RowRefused
      <4> QED  BY <4>1, <1>8, ClashesKept
    <3>2. CASE ~refused
      <4>1. new \in rows' /\ new.org = r.asked.org /\ new.name = r.asked.db
        BY <1>3, <1>11, <3>2 DEF Alone, Plain, IsClean
      <4> QED  BY <4>1 DEF RowsOf
    <3> QED  BY <3>1, <3>2
  <2>2. ASSUME NEW n, Becomes(n, r, "newDatabase", r.user, r.con)
        PROVE  Facts(n)'
    <3>1. /\ Placed(n)' /\ Peopled(n)' /\ Answered(n)' /\ Targeted(n)' /\ ~HasTarget(n)'
          /\ (Alone(n)' <=> Alone(r))
      BY <1>1, <1>5, <2>2, DatabaseStepFacts DEF Becomes, DatabaseSteps, accounts
    <3>2. Clashes(r)' => Clashes(n)'
      BY <2>2 DEF Becomes, Clashes, InstanceName
    <3>3. n.pc = "newDatabase" /\ n.asked = r.asked
      BY <2>2 DEF Becomes
    <3>4. Made(n)'
      BY <2>1, <3>1, <3>2, <3>3 DEF Made, HasRow, PastDatabase
    <3> QED  BY <3>1, <3>3, <3>4 DEF Facts, Missing, Trusted
  <2> QED  BY <1>1, <1>8, <1>9, <1>11, <2>2, GoesGrown DEF Steps, DatabaseSteps
<1> QED  BY <1>6, <1>10, <1>11

\* The connection that makes a database, and the database: with the password
\* that was read, it is made if postgres still has it.
LEMMA NextConnectDatabase ==
  ASSUME IInv, NEW w \in Workers, NEW pc, NEW next, Under(w, pc), Connects(w, next),
         (pc = "newDatabase" /\ next = "create") \/ (pc = "found" /\ next = "ensure")
  PROVE  IInv'
<1>1. /\ Connects(w, next) /\ Under(w, pc)
      /\ (pc = "newDatabase" /\ next = "create") \/ (pc = "found" /\ next = "ensure")
  OBVIOUS
<1>2. PICK r \in Creations : r = request[w] /\ r.pc = pc /\ Busy(w) /\ Facts(r)
  BY <1>1, UnderWay DEF Steps, DatabaseSteps
<1>3. UNCHANGED tables
  BY <1>1 DEF Connects
<1>4. ASSUME NEW n, Becomes(n, r, next, r.user, saved[r.instance])
      PROVE  Facts(n)
  <2>1. /\ n.pc = next /\ n.row = r.row /\ n.asked = r.asked /\ n.hit = r.hit /\ n.instance = r.instance
        /\ n.con = saved[r.instance]
    BY <1>4 DEF Becomes
  <2>2. Placed(n)
    BY <1>1, <1>2, <1>4 DEF Facts, Placed, Becomes, OnInstance, InOrganization, Early, UserSteps, DatabaseSteps
  <2>3. /\ ~HasTarget(n) /\ ~HasTarget(r) /\ PastPublic(r) /\ PastPostgres(r)
        /\ n.pc \notin {"connect", "reset", "save", "role", "grant", "rest", "created", "error"}
        /\ n.pc \notin RestSteps
    BY <1>1, <1>2, <2>1 DEF HasTarget, PastPublic, PastPostgres, UserSteps, DatabaseSteps, RestSteps
  <2>4. Peopled(n)
    BY <1>2, <1>4, <2>3, BecomesSame DEF Facts, Peopled
  <2>5. Trusted(n)
    BY <1>1, <2>1, <2>3 DEF Trusted
  <2>6. Made(n)
    BY <1>1, <1>2, <1>4, <2>1, <2>3, BecomesSame DEF Facts, Made, HasRow, PastDatabase
  <2>7. Missing(n) /\ Targeted(n) /\ Answered(n)
    BY <1>1, <2>1, <2>3 DEF Missing, Targeted, Answered
  <2> QED BY <2>2, <2>4, <2>5, <2>6, <2>7 DEF Facts
<1>5. r.pc \in OnInstance \ {"save"} /\ next \in {"reset", "role", "create", "ensure"}
  BY <1>1, <1>2 DEF OnInstance, DatabaseSteps
<1> QED BY <1>1, <1>2, <1>4, <1>5, NextConnects

LEMMA NextMakesDatabase ==
  ASSUME IInv, NEW w \in Workers, NEW pc, NEW next, Under(w, pc), MakesDatabase(w, next),
         (pc = "create" /\ next = "readBack") \/ (pc = "ensure" /\ next = "target")
  PROVE  IInv'
<1>1. /\ MakesDatabase(w, next) /\ Under(w, pc)
      /\ (pc = "create" /\ next = "readBack") \/ (pc = "ensure" /\ next = "target")
  OBVIOUS
<1>2. PICK r \in Creations : r = request[w] /\ r.pc = pc /\ Busy(w) /\ Facts(r)
  BY <1>1, UnderWay DEF Steps, DatabaseSteps
<1>3. UNCHANGED <<orgs, instances, rows, accounts, schemas, served>>
  BY <1>1 DEF MakesDatabase
<1>4. cluster' = cluster \/ cluster' = cluster \cup {Database(r)}
  BY <1>1, <1>2 DEF MakesDatabase, Database
<1>5. KeepsPasswords /\ Grows(r.about) /\ Consistent'
  BY <1>3, <1>4 DEF IInv, KeepsPasswords, Grows, Consistent, accounts
<1>6. /\ next \in Steps /\ r.pc \in Steps /\ r.pc \in OnInstance /\ r.pc \in InOrganization
      /\ next \notin Early /\ next \notin {"reset", "save", "role"} /\ next # "save" /\ r.pc # "save"
  BY <1>1, <1>2 DEF Steps, InOrganization, OnInstance, Early, UserSteps, DatabaseSteps
<1>7. CASE Goes(w, next, Hit([r EXCEPT !.con = 0]))
  <2>1. PICK n : n = [[[r EXCEPT !.con = 0] EXCEPT !.hit = TRUE] EXCEPT !.pc = next]
                 /\ request' = [request EXCEPT ![w] = n]
    BY <1>7, Zenon DEF Goes, Hit
  <2>2. Suffers(n, r, next, r.user, 0)
    BY <1>6, <2>1, ToPassword
  <2>3. Discreet(w, n)
    BY <1>2, <1>6, <2>2 DEF Discreet, Suffers
  <2> QED BY <1>2, <1>5, <1>6, <2>1, <2>2, <2>3, Hurts
<1>8. CASE Goes(w, next, [r EXCEPT !.con = 0]) /\ (Opens(r) => cluster' = cluster \cup {Database(r)})
  <2>1. PICK n : n = [[r EXCEPT !.con = 0] EXCEPT !.pc = next] /\ request' = [request EXCEPT ![w] = n]
    BY <1>8, Zenon DEF Goes
  <2>2. Becomes(n, r, next, r.user, 0)
    BY <1>6, <2>1, ToPassword
  <2>3. /\ n.pc = next /\ n.row = r.row /\ n.asked = r.asked /\ n.hit = r.hit /\ n.instance = r.instance
    BY <2>2 DEF Becomes
  <2>4. /\ Placed(n)' /\ Peopled(n)' /\ Answered(n)' /\ Targeted(n)' /\ ~HasTarget(n)'
        /\ (Quiet(n)' <=> Quiet(r)) /\ (Alone(n)' <=> Alone(r)) /\ (Known(n)' <=> Known(r))
        /\ Database(n)' = Database(r)
    BY <1>1, <1>2, <1>3, <2>2, DatabaseStepFacts DEF Becomes, DatabaseSteps, accounts
  <2>5. Quiet(r) /\ Known(r) => Database(r) \in cluster'
    <3>1. Quiet(r) => r.con = saved[r.instance]
      BY <1>1, <1>2 DEF Facts, Trusted
    <3> QED BY <1>8, <3>1 DEF Opens, Known
  <2>6. Clashes(r) => Clashes(n)'
    BY <1>3, <2>3 DEF Clashes, InstanceName, HostOf
  <2>7. RowsOf(n.asked.org, n.asked.db)' = RowsOf(r.asked.org, r.asked.db)
    BY <1>3, <2>3 DEF RowsOf
  <2>8. Made(n)'
    BY <1>1, <1>2, <1>3, <2>3, <2>4, <2>5, <2>6, <2>7 DEF Facts, Made, HasRow, PastDatabase
  <2>9. Facts(n)'
    BY <1>1, <2>3, <2>4, <2>8 DEF Facts, Missing, Trusted
  <2>10. Discreet(w, n)
    BY <1>2, <1>6, <2>2 DEF Discreet, Becomes
  <2> QED BY <1>2, <1>5, <1>6, <2>1, <2>2, <2>9, <2>10, Moves
<1> QED BY <1>1, <1>2, <1>7, <1>8 DEF MakesDatabase, Database

LEMMA NextReadBack ==
  ASSUME IInv, NEW w \in Workers, ReadBack(w)
  PROVE  IInv'
<1>1. PICK r \in Creations : r = request[w] /\ r.pc = "readBack" /\ Busy(w) /\ Facts(r)
  BY UnderWay DEF ReadBack, Steps, DatabaseSteps
<1>2. UNCHANGED tables
  BY DEF ReadBack
<1>3. KeepsPasswords /\ Grows(r.about) /\ Consistent'
  BY <1>2, TablesStay DEF KeepsPasswords, tables, accounts, IInv
<1>4. CASE Goes(w, "error", Hit(r))
  BY <1>1, <1>2, <1>4, GoesHitOnly DEF Steps, Early, InOrganization, OnInstance, UserSteps, DatabaseSteps, RestSteps
<1>5. CASE RowsOf(r.asked.org, r.asked.db) = {} /\ Goes(w, "error", r)
  <2>1. ASSUME NEW n, Becomes(n, r, "error", r.user, r.con)
        PROVE  Facts(n)
    <3>1. Alone(r) => Clashes(r)
      BY <1>1, <1>5 DEF Facts, Made
    <3> QED  BY <1>1, <2>1, <3>1, ToErrorFacts DEF DatabaseSteps
  <2> QED  BY <1>1, <1>2, <1>5, <2>1, GoesOn DEF Steps, DatabaseSteps
<1>6. ASSUME RowsOf(r.asked.org, r.asked.db) # {},
             NEW row, row = (CHOOSE x \in RowsOf(r.asked.org, r.asked.db) : TRUE),
             NEW m, m = [r EXCEPT !.row = row], Goes(w, "target", m)
      PROVE  IInv'
  <2>1. row \in rows /\ row.name = r.asked.db /\ row \in Rows
    BY <1>6 DEF RowsOf, IInv, Consistent
  <2>2. /\ m \in Creations /\ m.row = row /\ m.hit = r.hit /\ m.instance = r.instance /\ m.con = r.con
        /\ m.about = r.about /\ m.overlaps = r.overlaps /\ m.asked = r.asked
    BY ONLY <1>6, <2>1, r \in Creations DEF Creations
  <2>3. ASSUME NEW n, Becomes(n, m, "target", m.user, m.con)
        PROVE  Facts(n)'
    <3>1. /\ Placed(n)' /\ Peopled(n)' /\ Answered(n)' /\ Targeted(n)' /\ ~HasTarget(n)'
          /\ (Quiet(n)' <=> Quiet(r)) /\ (Known(n)' <=> Known(r)) /\ Database(n)' = Database(r)
      BY <1>1, <1>2, <2>2, <2>3, DatabaseStepFacts DEF Becomes, DatabaseSteps, tables, accounts
    <3>2. n.row \in rows' /\ n.row.name = n.asked.db /\ n.pc = "target"
      BY <1>2, <2>1, <2>2, <2>3 DEF Becomes, tables
    <3>3. Quiet(r) /\ Known(r) => Database(r) \in cluster'
      BY <1>1, <1>2 DEF Facts, Made, PastDatabase, tables
    <3> QED BY <3>1, <3>2, <3>3 DEF Facts, Missing, Trusted, Made
  <2>4. /\ m.about = request[w].about /\ m.overlaps = request[w].overlaps /\ m.con = request[w].con
        /\ "target" \in Steps \ {"save"} /\ request[w].pc \in Steps \ {"save"} /\ Grows(m.about)
    BY <1>1, <1>3, <2>2 DEF Steps, DatabaseSteps
  <2> QED  BY ONLY IInv, w \in Workers, <1>1, <1>3, <1>6, <2>2, <2>3, <2>4, GoesGrown
<1> QED
  <2>1. CASE Goes(w, "error", Hit(r))
    BY <2>1, <1>4
  <2>2. CASE RowsOf(r.asked.org, r.asked.db) = {} /\ Goes(w, "error", r)
    BY <2>2, <1>5
  <2>3. CASE /\ RowsOf(r.asked.org, r.asked.db) # {}
             /\ Goes(w, "target", [r EXCEPT !.row = CHOOSE x \in RowsOf(r.asked.org, r.asked.db) : TRUE])
    BY <2>3, <1>6
  <2> QED  BY <1>1, <2>1, <2>2, <2>3 DEF ReadBack, Go

-----------------------------------------------------------------------------
(* PostgREST.                                                              *)

LEMMA NextConnectRest ==
  ASSUME IInv, NEW w \in Workers, ConnectRest(w)
  PROVE  IInv'
<1>1. PICK r \in Creations : r = request[w] /\ r.pc = "target" /\ Busy(w) /\ Facts(r)
  BY UnderWay DEF ConnectRest, Steps, DatabaseSteps
<1>2. UNCHANGED tables
  BY DEF ConnectRest
<1>3. /\ r.instance \in instances /\ r.instance \in Instances /\ saved[r.instance] \in Nat
      /\ PastPublic(r) /\ PastPostgres(r) /\ PastDatabase(r) /\ HasRow(r)
  BY <1>1
  DEF Facts, Placed, OnInstance, DatabaseSteps, IInv, Consistent, PastPublic, PastPostgres, PastDatabase, HasRow
<1>4. CASE Goes(w, "error", Hit(r))
  BY <1>1, <1>2, <1>4, GoesHitOnly DEF Steps, Early, InOrganization, OnInstance, UserSteps, DatabaseSteps, RestSteps
<1>5. CASE User(r, "postgres") \notin users /\ Goes(w, "error", r)
  <2>1. ~Alone(r)
    BY <1>1, <1>3, <1>5 DEF Facts, Peopled, Alone
  <2>2. ASSUME NEW n, Becomes(n, r, "error", r.user, r.con)
        PROVE  Facts(n)
    BY <1>1, <2>1, <2>2, ToErrorFacts DEF DatabaseSteps
  <2> QED  BY <1>1, <1>2, <1>5, <2>2, GoesOn DEF Steps, DatabaseSteps
<1>6. ASSUME NEW target \in SchemaTargets(r.instance), NEW key, key = saved[r.instance],
             NEW m, m = [r EXCEPT !.target = target, !.key = key, !.user = "authenticator"], Goes(w, "user", m)
      PROVE  IInv'
  <2>1. /\ target \in [instance : Instances, name : Labels \cup {Postgres}]
        /\ target.instance = r.instance
        /\ (\E row \in rows : row.instance = r.instance)
             => \E row \in rows : row.instance = r.instance /\ row.name = target.name
    BY <1>3 DEF SchemaTargets, IInv, Consistent, Rows
  <2>2. /\ m \in Creations /\ m.row = r.row /\ m.hit = r.hit /\ m.instance = r.instance /\ m.con = r.con
        /\ m.about = r.about /\ m.overlaps = r.overlaps /\ m.asked = r.asked
        /\ m.user = "authenticator" /\ m.key = key /\ m.target = target
    BY ONLY <1>3, <1>6, <2>1, r \in Creations DEF Creations
  <2>3. ASSUME NEW n, Becomes(n, m, "user", m.user, m.con)
        PROVE  Facts(n)
    <3>1. /\ n.pc = "user" /\ n.user = "authenticator" /\ n.key = key /\ n.target = target /\ n.row = r.row
          /\ n.hit = r.hit /\ n.overlaps = r.overlaps /\ n.instance = r.instance /\ n.asked = r.asked
          /\ n.about = r.about
      BY <2>2, <2>3 DEF Becomes
    <3>2. Placed(n)
      BY <1>1, <3>1 DEF Facts, Placed, OnInstance, InOrganization, Early, UserSteps, DatabaseSteps
    <3>3. /\ (Quiet(n) <=> Quiet(r)) /\ (Known(n) <=> Known(r)) /\ Database(n) = Database(r)
          /\ User(n, "postgres") = User(r, "postgres") /\ User(n, "public") = User(r, "public")
      BY <3>1 DEF Quiet, Known, Database, User
    <3>4. Peopled(n)
      BY <1>1, <1>3, <3>1, <3>3 DEF Facts, Peopled, RestSteps
    <3>5. Trusted(n)
      BY <1>6, <3>1 DEF Trusted
    <3>6. Made(n)
      BY <1>1, <1>3, <3>1, <3>3 DEF Facts, Made
    <3>7. Targeted(n)
      BY <1>1, <1>3, <2>1, <3>1 DEF Facts, Made, Targeted
    <3>8. Missing(n) /\ Answered(n)
      BY <3>1 DEF Missing, Answered
    <3> QED BY <3>2, <3>4, <3>5, <3>6, <3>7, <3>8 DEF Facts
  <2>4. /\ m.about = request[w].about /\ m.overlaps = request[w].overlaps /\ m.con = request[w].con
        /\ "user" \in Steps \ {"save"} /\ request[w].pc \in Steps \ {"save"}
    BY <1>1, <2>2 DEF Steps, UserSteps, DatabaseSteps
  <2> QED  BY ONLY IInv, w \in Workers, <1>1, <1>2, <1>6, <2>2, <2>3, <2>4, GoesOn
<1>7. \/ Goes(w, "error", Hit(r))
      \/ User(r, "postgres") \notin users /\ Goes(w, "error", r)
      \/ \E target \in SchemaTargets(r.instance) :
           Goes(w, "user", [r EXCEPT !.target = target, !.key = saved[r.instance], !.user = "authenticator"])
  BY <1>1, Zenon DEF ConnectRest, Go, User
<1> QED BY <1>4, <1>5, <1>6, <1>7

\* From one step of PostgREST to the next, or its end.
LEMMA RestStepFacts ==
  ASSUME NEW r, Facts(r), r.pc \in RestSteps, NEW n, NEW pc, Becomes(n, r, pc, r.user, r.con),
         pc \in {"grant", "rest", "created"},
         UNCHANGED <<orgs, instances, rows, users, saved, actual, roles, cluster>>, schemas \subseteq schemas',
         Quiet(r) => Database(r) \in cluster,
         ~r.hit => r.target \in schemas' /\ Present(r.target),
         pc = "created" /\ ~r.hit => r.row.host \in served'
  PROVE  Facts(n)'
<1>1. /\ n.pc = pc /\ n.key = r.key /\ n.target = r.target /\ n.row = r.row
      /\ n.hit = r.hit /\ n.overlaps = r.overlaps /\ n.instance = r.instance /\ n.asked = r.asked
      /\ n.about = r.about /\ n.user = r.user
  BY DEF Becomes
<1>2. Placed(n)'
  BY <1>1 DEF Facts, Placed, OnInstance, InOrganization, Early, UserSteps, RestSteps
<1>3. /\ (Quiet(n)' <=> Quiet(r)) /\ (Known(n)' <=> Known(r)) /\ Database(n)' = Database(r)
      /\ User(n, "postgres")' = User(r, "postgres") /\ User(n, "public")' = User(r, "public")
      /\ User(n, "authenticator")' = User(r, "authenticator") /\ Present(n.target)' = Present(r.target)
  BY <1>1 DEF Quiet, Known, Database, User, Present
<1>4. HasTarget(r) /\ HasRow(r) /\ PastDatabase(r) /\ PastPublic(r) /\ PastPostgres(r)
  BY DEF HasTarget, HasRow, PastDatabase, PastPublic, PastPostgres
<1>5. Peopled(n)'
  BY <1>1, <1>3, <1>4 DEF Facts, Peopled
<1>6. Trusted(n)'
  BY <1>1, <1>3, <1>4 DEF Facts, Trusted
<1>7. Made(n)'
  BY <1>1, <1>3, <1>4 DEF Facts, Made
<1>8. Targeted(n)'
  BY <1>1, <1>3, <1>4 DEF Facts, Targeted
<1>9. Missing(n)' /\ Answered(n)'
  BY <1>1 DEF Missing, Answered
<1> QED BY <1>2, <1>5, <1>6, <1>7, <1>8, <1>9 DEF Facts

LEMMA NextEnsureSchema ==
  ASSUME IInv, NEW w \in Workers, EnsureSchema(w)
  PROVE  IInv'
<1>1. PICK r \in Creations : r = request[w] /\ r.pc = "schema" /\ Busy(w) /\ Facts(r)
  BY UnderWay DEF EnsureSchema, Steps, RestSteps
<1>2. UNCHANGED <<orgs, instances, rows, accounts, cluster, served>>
  BY DEF EnsureSchema
<1>3. schemas' = schemas \/ schemas' = schemas \cup {r.target}
  BY <1>1 DEF EnsureSchema
<1>4. KeepsPasswords /\ Grows(r.about) /\ Consistent'
  BY <1>2, <1>3 DEF IInv, KeepsPasswords, Grows, Consistent, accounts
<1>5. HasTarget(r) /\ HasRow(r) /\ PastDatabase(r) /\ r.pc \in OnInstance \ {"save"} /\ r.pc \in Steps
  BY <1>1 DEF HasTarget, HasRow, PastDatabase, OnInstance, Steps, RestSteps
<1>6. Quiet(r) => r.key = saved[r.instance]
  BY <1>1, <1>5 DEF Facts, Trusted
<1>7. CASE Goes(w, "error", Hit(r))
  BY <1>1, <1>4, <1>7, GoesHit DEF Steps, Early, InOrganization, OnInstance, UserSteps, DatabaseSteps, RestSteps
<1>8. CASE /\ r.key = actual[r.instance] /\ Present(r.target)
           /\ Goes(w, "grant", r) /\ schemas' = schemas \cup {r.target}
  <2>1. Quiet(r) => Database(r) \in cluster
    BY <1>1, <1>5, <1>6, <1>8 DEF Facts, Made, Known
  <2>2. ASSUME NEW n, Becomes(n, r, "grant", r.user, r.con)
        PROVE  Facts(n)'
    BY <1>1, <1>2, <1>8, <2>1, <2>2, RestStepFacts DEF RestSteps, accounts
  <2> QED BY <1>1, <1>4, <1>8, <2>2, GoesGrown DEF Steps, RestSteps
<1>9. ASSUME ~(r.key = actual[r.instance] /\ Present(r.target)), UNCHANGED schemas, NEW neighbour \in BOOLEAN,
             neighbour <=> ~Present(r.target) /\ r.target.name # r.row.name,
             NEW m, m = [r EXCEPT !.neighbour = neighbour], Goes(w, "error", m)
      PROVE  IInv'
  <2>1. UNCHANGED tables
    BY <1>2, <1>9 DEF tables
  <2>2. /\ m \in Creations /\ m.neighbour = neighbour /\ m.hit = r.hit /\ m.con = r.con
        /\ m.instance = r.instance /\ m.about = r.about /\ m.overlaps = r.overlaps /\ m.asked = r.asked
    BY ONLY <1>9, r \in Creations DEF Creations
  <2>3. Quiet(r) /\ Known(r) => neighbour
    <3> SUFFICES ASSUME Quiet(r), Known(r), ~neighbour
                 PROVE  FALSE
      BY <1>9
    <3>1. ~Present(r.target) /\ r.target.name = r.row.name
      BY <1>6, <1>9 DEF Known
    <3>2. r.row.name = r.asked.db /\ Database(r) \in cluster /\ r.target.instance = r.instance
      BY <1>1, <1>5 DEF Facts, Made, Targeted, Quiet
    <3>3. r.target \in [instance : Instances, name : Labels \cup {Postgres}]
      BY <1>1, <1>5 DEF Facts, Targeted, Quiet
    <3>4. r.target = Database(r)
      BY <3>1, <3>2, <3>3 DEF Database
    <3> QED BY <3>1, <3>2, <3>4 DEF Present
  <2>4. Quiet(r) /\ ~Known(r) => r.instance \in cut
    BY <1>1, <1>5, CutOrKnown
  <2>5. ASSUME NEW n, Becomes(n, m, "error", m.user, m.con)
        PROVE  Facts(n)
    <3>1. Placed(n)
      BY <1>1, <2>2, <2>5
      DEF Facts, Placed, Becomes, OnInstance, InOrganization, Early, UserSteps, DatabaseSteps, RestSteps
    <3>2. Alone(n) => n.neighbour \/ n.instance \in cut
      BY <2>2, <2>3, <2>4, <2>5 DEF Becomes, Alone, Quiet
    <3> QED BY <2>5, <3>1, <3>2, ErrorFacts DEF Becomes
  <2>6. /\ m.about = request[w].about /\ m.overlaps = request[w].overlaps /\ m.con = request[w].con
        /\ "error" \in Steps \ {"save"} /\ request[w].pc \in Steps \ {"save"}
    BY <1>1, <2>2 DEF Steps, RestSteps
  <2> QED  BY ONLY IInv, w \in Workers, <1>1, <1>9, <2>1, <2>2, <2>5, <2>6, GoesOn
<1>10. \/ Goes(w, "error", Hit(r))
       \/ /\ r.key = actual[r.instance] /\ Present(r.target)
          /\ Goes(w, "grant", r) /\ schemas' = schemas \cup {r.target}
       \/ /\ ~(r.key = actual[r.instance] /\ Present(r.target)) /\ UNCHANGED schemas
          /\ Goes(w, "error", [r EXCEPT !.neighbour = ~Present(r.target) /\ r.target.name # r.row.name])
  BY <1>1 DEF EnsureSchema, Go
<1> QED BY <1>7, <1>8, <1>9, <1>10

LEMMA NextGrantRest ==
  ASSUME IInv, NEW w \in Workers, GrantRest(w)
  PROVE  IInv'
<1>1. PICK r \in Creations : r = request[w] /\ r.pc = "grant" /\ Busy(w) /\ Facts(r)
  BY UnderWay DEF GrantRest, Steps, RestSteps
<1>2. UNCHANGED tables
  BY DEF GrantRest
<1>3. KeepsPasswords /\ Grows(r.about) /\ Consistent'
  BY <1>2, TablesStay DEF KeepsPasswords, tables, accounts, IInv
<1>4. HasTarget(r) /\ PastPublic(r) /\ r.pc \in OnInstance \ {"save"} /\ r.pc \in RestSteps
  BY <1>1 DEF HasTarget, PastPublic, OnInstance, RestSteps
<1>5. CASE Goes(w, "error", Hit(r))
  BY <1>1, <1>2, <1>5, GoesHitOnly DEF Steps, Early, InOrganization, OnInstance, UserSteps, DatabaseSteps, RestSteps
<1>6. CASE Goes(w, "rest", r)
  <2>1. ASSUME NEW n, Becomes(n, r, "rest", r.user, r.con)
        PROVE  Facts(n)'
    <3>1. /\ Quiet(r) => Database(r) \in cluster
          /\ ~r.hit => r.target \in schemas /\ Present(r.target)
      BY <1>1 DEF Facts, Made, Targeted
    <3> QED BY <1>1, <1>2, <2>1, <3>1, RestStepFacts DEF RestSteps, tables, accounts
  <2> QED BY <1>1, <1>3, <1>6, <2>1, GoesGrown DEF Steps, RestSteps
<1>7. CASE /\ ~(r.key = actual[r.instance] /\ {User(r, u) : u \in {"public", "authenticator"}} \subseteq roles)
           /\ Goes(w, "error", r)
  <2>1. Quiet(r) => ~Known(r)
    BY <1>1, <1>4, <1>7 DEF Facts, Peopled, Trusted, Known
  <2>2. Alone(r) => r.instance \in cut
    BY <1>1, <1>4, <2>1, CutOrKnown DEF Alone
  <2>3. ASSUME NEW n, Becomes(n, r, "error", r.user, r.con)
        PROVE  Facts(n)
    BY <1>1, <1>4, <2>2, <2>3, ToErrorFacts
  <2> QED BY <1>1, <1>2, <1>7, <2>3, GoesOn DEF Steps, RestSteps
<1> QED BY <1>1, <1>5, <1>6, <1>7 DEF GrantRest, Go, User

LEMMA NextStartRest ==
  ASSUME IInv, NEW w \in Workers, StartRest(w)
  PROVE  IInv'
<1>1. PICK r \in Creations : r = request[w] /\ r.pc = "rest" /\ Busy(w) /\ Facts(r)
  BY UnderWay DEF StartRest, Steps, RestSteps
<1>2. UNCHANGED <<orgs, instances, rows, accounts, cluster, schemas>>
  BY DEF StartRest
<1>3. served' = served \/ served' = served \cup {r.row.host}
  BY <1>1 DEF StartRest
<1>4. KeepsPasswords /\ Grows(r.about) /\ Consistent'
  BY <1>2, <1>3 DEF IInv, KeepsPasswords, Grows, Consistent, accounts
<1>5. CASE Goes(w, "error", Hit(r))
  BY <1>1, <1>4, <1>5, GoesHit DEF Steps, Early, InOrganization, OnInstance, UserSteps, DatabaseSteps, RestSteps
<1>6. CASE Goes(w, "created", r) /\ served' = served \cup {r.row.host}
  <2>1. ASSUME NEW n, Becomes(n, r, "created", r.user, r.con)
        PROVE  Facts(n)'
    <3>1. /\ Quiet(r) => Database(r) \in cluster
          /\ ~r.hit => r.target \in schemas' /\ Present(r.target)
          /\ r.row.host \in served'
      BY <1>1, <1>2, <1>6 DEF Facts, Made, Targeted
    <3> QED BY <1>1, <1>2, <2>1, <3>1, RestStepFacts DEF RestSteps, accounts
  <2> QED BY <1>1, <1>4, <1>6, <2>1, GoesGrown DEF Steps, RestSteps
<1> QED  BY <1>1, <1>5, <1>6 DEF StartRest, Go
-----------------------------------------------------------------------------
(* Requests that arrive, and a process that ends.                          *)

\* A request keeps all but the mark when it is told of another one, or not.
LEMMA ToldKeeps ==
  ASSUME NEW r, r \in Creations \/ Editing(r), NEW told \in BOOLEAN,
         NEW n, n = [r EXCEPT !.overlaps = told]
  PROVE  /\ n.pc = r.pc /\ n.about = r.about /\ n.overlaps = told
         /\ Editing(r) => Editing(n) /\ n \notin Creations
         /\ r \in Creations => /\ n \in Creations /\ n.hit = r.hit /\ n.asked = r.asked
                               /\ n.instance = r.instance /\ n.row = r.row /\ n.neighbour = r.neighbour
                               /\ n.user = r.user /\ n.con = r.con /\ n.target = r.target /\ n.key = r.key
<1>1. ASSUME r \in Creations
      PROVE  /\ n.pc = r.pc /\ n.about = r.about /\ n.overlaps = told /\ ~Editing(r)
             /\ n \in Creations /\ n.hit = r.hit /\ n.asked = r.asked
             /\ n.instance = r.instance /\ n.row = r.row /\ n.neighbour = r.neighbour
             /\ n.user = r.user /\ n.con = r.con /\ n.target = r.target /\ n.key = r.key
  <2>1. /\ n.pc = r.pc /\ n.about = r.about /\ n.overlaps = told
        /\ n \in Creations /\ n.hit = r.hit /\ n.asked = r.asked
        /\ n.instance = r.instance /\ n.row = r.row /\ n.neighbour = r.neighbour
        /\ n.user = r.user /\ n.con = r.con /\ n.target = r.target /\ n.key = r.key
    BY <1>1 DEF Creations
  <2>2. r.pc \in Steps
    BY <1>1 DEF Creations
  <2> QED BY <2>1, <2>2 DEF Editing, Steps, Early, UserSteps, DatabaseSteps, RestSteps
<1>2. ASSUME Editing(r)
      PROVE  /\ n.pc = r.pc /\ n.about = r.about /\ n.overlaps = told
             /\ Editing(n) /\ n \notin Creations /\ r \notin Creations
  <2>1. n.pc = r.pc /\ n.about = r.about /\ n.overlaps = told /\ DOMAIN n = DOMAIN r
    BY <1>2 DEF Editing
  <2>2. \A x \in Creations : x.pc \notin {"read", "delete", "write"}
    BY DEF Creations, Steps, Early, UserSteps, DatabaseSteps, RestSteps
  <2> QED  BY <1>2, <2>1, <2>2 DEF Editing
<1> QED  BY <1>1, <1>2

\* A creation that is told of another request keeps its facts.
LEMMA FactsTold ==
  ASSUME NEW r \in Creations, Facts(r), NEW n, n = [r EXCEPT !.overlaps = TRUE]
  PROVE  Facts(n)
<1>1. /\ n \in Creations /\ n.pc = r.pc /\ n.about = r.about /\ n.overlaps = TRUE /\ n.hit = r.hit
      /\ n.asked = r.asked /\ n.instance = r.instance /\ n.row = r.row /\ n.neighbour = r.neighbour
      /\ n.user = r.user /\ n.con = r.con /\ n.target = r.target /\ n.key = r.key
  BY ToldKeeps
<1>2. ~Alone(n) /\ ~Quiet(n)
  BY <1>1 DEF Alone, Quiet
<1>3. HasTarget(n) = HasTarget(r) /\ HasRow(n) = HasRow(r)
  BY <1>1 DEF HasTarget, HasRow
<1>4. Placed(n)
  BY <1>1 DEF Facts, Placed
<1>5. Made(n) /\ Targeted(n) /\ Answered(n)
  BY <1>1, <1>2, <1>3 DEF Facts, Made, Targeted, Answered
<1>6. Missing(n) /\ Peopled(n) /\ Trusted(n)
  BY <1>1, <1>2 DEF Facts, Missing, Peopled, Trusted
<1> QED  BY <1>4, <1>5, <1>6 DEF Facts

\* Passwords stay guarded when nobody gives one and nobody who has given one
\* is moved, and who arrives has none.
LEMMA GuardedBeside ==
  ASSUME IInv, UNCHANGED tables,
         \A o \in Workers : request'[o].pc \in Steps =>
           \/ /\ request'[o].pc = request[o].pc /\ request'[o].con = request[o].con
              /\ request'[o].instance = request[o].instance
           \/ request'[o].pc # "save" /\ request'[o].con = 0,
         \A o \in Workers : Under(o, "save") =>
           Under(o, "save")' /\ request'[o].instance = request[o].instance
  PROVE  Guarded'
<1>1. UNCHANGED <<instances, saved, actual, resets, cut>>
  BY DEF tables, accounts
<1>2. Bounded'
  BY <1>1 DEF IInv, Guarded, Bounded, Consistent
<1>3. ASSUME NEW o \in Workers, Under(o, "save")'
      PROVE  Secret(o)'
  <2>1. request'[o].pc = "save" /\ "save" \in Steps
    BY <1>3 DEF Under, Steps, UserSteps
  <2>2. /\ Secret(o) /\ request'[o].con = request[o].con /\ request'[o].instance = request[o].instance
    BY <2>1 DEF IInv, Guarded, Under
  <2>3. ASSUME NEW q \in Workers \ {o}, request'[q].pc \in Steps
        PROVE  request'[q].con # request'[o].con
    BY <2>2, <2>3 DEF Secret
  <2> QED BY <1>1, <2>2, <2>3 DEF Secret
<1>4. Sound'
  BY <1>1 DEF IInv, Guarded, Sound
<1> QED BY <1>2, <1>3, <1>4 DEF Guarded

\* A request arrives: whoever is under way with it about the same thing is
\* told, and so is it.
LEMMA NextReceive ==
  ASSUME IInv, NEW w \in Workers, NEW r, Receive(w, r), UNCHANGED tables,
         \/ /\ r \in Creations /\ r.pc = "context" /\ r.instance = Nobody /\ r.about = Clean(r.asked.org)
            /\ r.user = "postgres" /\ r.con = 0
         \/ Editing(r)
  PROVE  IInv'
<1> PICK others : others = {o \in Workers \ {w} : Busy(o) /\ request[o].about = r.about}
  OBVIOUS
<1>1. PICK new : /\ new = [r EXCEPT !.overlaps = others # {}]
                 /\ request' = [o \in Workers |->
                      IF o = w THEN new
                      ELSE IF o \in others THEN [request[o] EXCEPT !.overlaps = TRUE] ELSE request[o]]
  BY Zenon DEF Receive
<1>2. /\ new \in Creations \/ Editing(new)
      /\ new.about = r.about /\ new.overlaps = (others # {})
  <2>1. r \in Creations \/ Editing(r)
    OBVIOUS
  <2>2. PICK told \in BOOLEAN : told = (others # {})
    OBVIOUS
  <2>3. new = [r EXCEPT !.overlaps = told]
    BY <1>1, <2>2
  <2> QED  BY ONLY <2>1, <2>2, <2>3, ToldKeeps
<1>3. new \in Creations => Facts(new)
  <2> SUFFICES ASSUME new \in Creations
               PROVE  Facts(new)
    OBVIOUS
  <2>1. PICK told \in BOOLEAN : new = [r EXCEPT !.overlaps = told]
    BY <1>1
  <2>2. ~Editing(r)
    BY <2>1, ToldKeeps
  <2>3. /\ r \in Creations /\ r.pc = "context" /\ r.instance = Nobody /\ r.about = Clean(r.asked.org)
        /\ r.user = "postgres"
    BY <2>2
  <2>4. /\ new.pc = "context" /\ new.instance = Nobody /\ new.about = Clean(new.asked.org)
        /\ new.user = "postgres"
    BY ONLY <2>1, <2>3, ToldKeeps
  <2>5. Placed(new) /\ Missing(new) /\ new.pc \in Early
    BY <2>4 DEF Placed, Missing, Early, InOrganization, OnInstance, UserSteps, DatabaseSteps, RestSteps
  <2> QED  BY <2>5, EarlyFacts
<1>4. ASSUME NEW o \in others
      PROVE  \E old, n :
               /\ old = request[o] /\ request'[o] = n
               /\ n \in Creations => Facts(n)
               /\ n \in Creations \/ Editing(n)
               /\ n.pc = old.pc /\ n.about = old.about /\ n.about = r.about /\ n.overlaps = TRUE
               /\ n \in Creations => n.con = old.con /\ n.instance = old.instance
  <2>1. o \in Workers /\ o # w /\ Busy(o) /\ request[o].about = r.about
    OBVIOUS
  <2>2. PICK old : old = request[o]
    OBVIOUS
  <2>3. /\ old \in Creations \/ Editing(old)
        /\ old \in Creations => Facts(old)
    BY <2>1, <2>2 DEF Busy, IInv, TypeOK, Over, Held
  <2>4. PICK n : n = [old EXCEPT !.overlaps = TRUE]
    OBVIOUS
  <2>5. request'[o] = n
    BY <1>1, <1>4, <2>1, <2>2, <2>4
  <2>6. /\ n \in Creations \/ Editing(n)
        /\ n.pc = old.pc /\ n.about = old.about /\ n.overlaps = TRUE
        /\ n \in Creations => old \in Creations /\ n.con = old.con /\ n.instance = old.instance
    <3>1. ASSUME old \in Creations
          PROVE  /\ n.pc = old.pc /\ n.about = old.about /\ n.overlaps = TRUE
                 /\ n \in Creations /\ n.con = old.con /\ n.instance = old.instance
      BY ONLY <2>4, <3>1, ToldKeeps
    <3>2. ASSUME Editing(old)
          PROVE  /\ n.pc = old.pc /\ n.about = old.about /\ n.overlaps = TRUE
                 /\ Editing(n) /\ n \notin Creations
      BY ONLY <2>4, <3>2, ToldKeeps
    <3> QED BY <2>3, <3>1, <3>2
  <2>7. n \in Creations => Facts(n)
    BY ONLY <2>3, <2>4, <2>6, FactsTold
  <2> QED  BY <2>1, <2>2, <2>5, <2>6, <2>7
<1>5. \A o \in Workers \ ({w} \cup others) : request'[o] = request[o]
  BY <1>1
<1>6. request'[w] = new
  BY <1>1
<1>7. TypeOK'
  <2>1. ASSUME NEW o \in Workers
        PROVE  request'[o] \in Creations \/ Editing(request[o])' \/ Over(request[o])'
    <3>1. CASE o = w
      BY <3>1, <1>2, <1>6 DEF Editing
    <3>2. CASE o \in others
      BY <3>2, <1>4 DEF Editing
    <3>3. CASE o # w /\ o \notin others
      BY <3>3, <1>5 DEF IInv, TypeOK, Editing, Over
    <3> QED  BY <3>1, <3>2, <3>3
  <2>2. request' = [o \in Workers |-> request'[o]]
    BY <1>1
  <2> QED  BY <2>1, <2>2 DEF TypeOK
<1>8. Consistent /\ Consistent'
  BY TablesStay DEF IInv
<1>9. ASSUME NEW o \in Workers \ {w}
      PROVE  /\ Busy(o)' <=> Busy(o)
             /\ Busy(o) => request'[o].about = request[o].about
             /\ Busy(o) /\ request[o].overlaps => request'[o].overlaps
             /\ Busy(o) /\ request[o].about = r.about => o \in others /\ request'[o].overlaps
  <2>1. CASE o \in others
    <3>1. /\ Busy(o) /\ request'[o].pc = request[o].pc /\ request'[o].about = request[o].about
          /\ request'[o].overlaps = TRUE
      BY <2>1, <1>4
    <3> QED  BY <2>1, <3>1 DEF Busy
  <2>2. CASE o \notin others
    <3>1. request'[o] = request[o]
      BY <2>2, <1>5
    <3>2. ~(Busy(o) /\ request[o].about = r.about)
      BY <2>2
    <3> QED  BY <3>1, <3>2 DEF Busy
  <2> QED  BY <2>1, <2>2
<1>10. Noticed'
  <2> SUFFICES ASSUME NEW a \in Workers, NEW b \in Workers, a # b, Busy(a)', Busy(b)',
                      request'[a].about = request'[b].about
               PROVE  request'[a].overlaps
    BY DEF Noticed
  <2>1. CASE a = w
    BY <2>1, <1>2, <1>6, <1>9
  <2>2. CASE b = w
    BY <2>2, <1>2, <1>6, <1>9
  <2>3. CASE a # w /\ b # w
    BY <2>3, <1>9 DEF IInv, Noticed
  <2> QED  BY <2>1, <2>2, <2>3
<1>11. ASSUME NEW o \in Workers, NEW m \in Creations, request'[o] = m
       PROVE  Facts(m)'
  <2>1. CASE o = w
    BY <2>1, <1>3, <1>6, <1>8, <1>11, FactsStay
  <2>2. CASE o \in others
    BY <2>2, <1>4, <1>8, <1>11, FactsStay
  <2>3. CASE o \notin others /\ o # w
    BY <2>3, <1>5, <1>8, <1>11, FactsStay DEF IInv, Held
  <2> QED  BY <2>1, <2>2, <2>3
<1>12. Held'
  BY <1>11 DEF Held
<1>13. ASSUME NEW o \in Workers, request'[o].pc \in Steps
       PROVE  \/ /\ request'[o].pc = request[o].pc /\ request'[o].con = request[o].con
                 /\ request'[o].instance = request[o].instance
              \/ request'[o].pc # "save" /\ request'[o].con = 0
  <2>1. request'[o] \in Creations
    BY <1>13, <1>7 DEF TypeOK, Editing, Over, Steps, Early, UserSteps, DatabaseSteps, RestSteps
  <2>2. CASE o = w
    <3>1. PICK told \in BOOLEAN : new = [r EXCEPT !.overlaps = told]
      BY <1>1
    <3>2. ~Editing(r)
      BY <2>1, <2>2, <1>6, <3>1, ToldKeeps
    <3>3. new.pc = "context" /\ new.con = 0
      <4>1. r \in Creations /\ r.pc = "context" /\ r.con = 0
        BY <3>2
      <4> QED BY ONLY <3>1, <4>1, ToldKeeps
    <3> QED BY <2>2, <1>6, <3>3
  <2>3. CASE o \in others
    BY <2>1, <2>3, <1>4
  <2>4. CASE o # w /\ o \notin others
    BY <2>4, <1>5
  <2> QED BY <2>2, <2>3, <2>4
<1>14. ASSUME NEW o \in Workers, Under(o, "save")
       PROVE  Under(o, "save")' /\ request'[o].instance = request[o].instance
  <2>1. Busy(o) /\ o # w /\ "save" \in Steps
    BY <1>14 DEF Under, Busy, Receive, Steps, UserSteps
  <2>2. request'[o].pc = "save"
    BY <1>4, <1>5, <1>14, <2>1 DEF Under
  <2> QED BY <1>13, <2>1, <2>2, <1>4, <1>5 DEF Under
<1>15. Guarded'
  BY <1>13, <1>14, GuardedBeside
<1> QED  BY <1>7, <1>8, <1>10, <1>12, <1>15 DEF IInv

LEMMA NextSend ==
  ASSUME IInv, NEW w \in Workers, NEW asked \in Asked, Send(w, asked)
  PROVE  IInv'
<1>1. UNCHANGED tables
  BY DEF Send
<1>2. PICK r : r = [pc |-> "context", about |-> Clean(asked.org), hit |-> FALSE, overlaps |-> FALSE,
                    asked |-> asked, instance |-> Nobody, row |-> Nobody, neighbour |-> FALSE,
                    user |-> "postgres", con |-> 0, target |-> Nobody, key |-> 0]
  OBVIOUS
<1>3. /\ r \in Creations /\ r.about = Clean(r.asked.org) /\ r.pc = "context" /\ r.instance = Nobody
      /\ r.user = "postgres" /\ r.con = 0
  <2>1. asked \in [org : Orgs, db : Labels, instance : Labels] /\ Clean(asked.org) \in Orgs
    BY AskedTyped
  <2> QED  BY ONLY <1>2, <2>1 DEF Creations, Steps, Early
<1>4. Receive(w, r)
  BY <1>2, Zenon DEF Send
<1> QED  BY <1>1, <1>3, <1>4, NextReceive

LEMMA NextSendEdit ==
  ASSUME IInv, NEW w \in Workers, NEW edit \in Edits, SendEdit(w, edit)
  PROVE  IInv'
<1>1. UNCHANGED tables
  BY DEF SendEdit
<1>2. PICK r : r = [pc |-> "read", about |-> List, hit |-> FALSE, overlaps |-> FALSE, asked |-> edit,
                    list |-> <<>>, before |-> <<>>, next |-> 1, kept |-> FALSE]
  OBVIOUS
<1>3. Editing(r)
  BY <1>2 DEF Editing
<1>4. Receive(w, r)
  BY <1>2, Zenon DEF SendEdit
<1> QED  BY <1>1, <1>3, <1>4, NextReceive

\* A step of an edit is beside the creations.
LEMMA NextEdit ==
  ASSUME IInv, NEW w \in Workers, Editing(request[w]), UNCHANGED tables,
         NEW n, request' = [request EXCEPT ![w] = n],
         n.about = request[w].about, n.overlaps = request[w].overlaps, Editing(n) \/ Over(n)
  PROVE  IInv'
<1>1. \A o \in Workers : request'[o] = IF o = w THEN n ELSE request[o]
  BY DEF IInv, TypeOK
<1>2. n \notin Creations
  BY DEF Editing, Over, Creations, Steps, Early, UserSteps, DatabaseSteps, RestSteps
<1>3. TypeOK'
  BY <1>1 DEF IInv, TypeOK, Editing, Over
<1>4. \A o \in Workers : Busy(o)' => Busy(o)
  BY <1>1 DEF Busy, Editing
<1>5. \A o \in Workers : request'[o].about = request[o].about /\ request'[o].overlaps = request[o].overlaps
  BY <1>1
<1>6. Noticed'
  BY <1>4, <1>5 DEF IInv, Noticed
<1>7. Consistent /\ Consistent'
  BY TablesStay DEF IInv
<1>8. ASSUME NEW o \in Workers, NEW m \in Creations, request'[o] = m
      PROVE  Facts(m)'
  <2>1. o # w
    BY <1>1, <1>2, <1>8
  <2>2. Facts(m)
    BY <1>1, <1>8, <2>1 DEF IInv, Held
  <2> QED  BY <1>7, <2>2, FactsStay
<1>9. Held'
  BY <1>8 DEF Held
<1>10. \A o \in Workers : Under(o, "save") => o # w
  BY DEF Under, Editing
<1>11. n.pc \notin Steps
  BY DEF Editing, Over, Steps, Early, UserSteps, DatabaseSteps, RestSteps
<1>12. Guarded'
  BY <1>1, <1>10, <1>11, GuardedBeside DEF Under
<1> QED  BY <1>3, <1>6, <1>7, <1>9, <1>12 DEF IInv

\* An edit goes on, or is over, with all but its list as it was.
LEMMA GoesEdit ==
  ASSUME IInv, NEW w \in Workers, Editing(request[w]), UNCHANGED tables, NEW r, NEW pc,
         Goes(w, pc, r), pc \in {"delete", "write", "listed", "refused"},
         DOMAIN r = DOMAIN request[w], r.about = request[w].about, r.overlaps = request[w].overlaps
  PROVE  IInv'
<1>1. PICK n : n = [r EXCEPT !.pc = pc] /\ request' = [request EXCEPT ![w] = n]
  BY Zenon DEF Goes
<1>2. n.about = request[w].about /\ n.overlaps = request[w].overlaps /\ (Editing(n) \/ Over(n))
  BY <1>1 DEF Editing, Over
<1> QED  BY <1>1, <1>2, NextEdit

LEMMA NextListed ==
  ASSUME IInv, NEW w \in Workers, Read(w) \/ Delete(w) \/ Write(w) \/ EditFails(w)
  PROVE  IInv'
<1>1. UNCHANGED tables
  BY DEF Read, Delete, Write, EditFails
<1>2. Editing(request[w]) /\ request[w].pc \in {"read", "delete", "write"}
  <2>1. request[w].pc \in {"read", "delete", "write"}
    BY DEF Read, Delete, Write, EditFails, Under
  <2> QED  BY <2>1 DEF IInv, TypeOK, Creations, Steps, Early, UserSteps, DatabaseSteps, RestSteps, Over, Editing
<1> PICK r : r = request[w]
  OBVIOUS
<1>3. "about" \in DOMAIN r /\ "overlaps" \in DOMAIN r
  BY <1>2 DEF Editing
<1>4. CASE Read(w)
  <2>1. PICK list, new :
          \/ Goes(w, "refused", r)
          \/ Goes(w, "delete", [r EXCEPT !.list = list, !.before = list])
          \/ Goes(w, "listed", [r EXCEPT !.before = list, !.kept = TRUE])
          \/ Goes(w, "write", [r EXCEPT !.list = new, !.before = list])
    BY <1>4, Zenon DEF Read, Go
  <2>2. CASE Goes(w, "refused", r)
    BY <1>1, <1>2, <2>2, GoesEdit
  <2>3. ASSUME NEW m, m = [r EXCEPT !.list = list, !.before = list], Goes(w, "delete", m)
        PROVE  IInv'
    <3>1. DOMAIN m = DOMAIN r /\ m.about = r.about /\ m.overlaps = r.overlaps
      BY <1>3, <2>3
    <3> QED  BY <1>1, <1>2, <2>3, <3>1, GoesEdit
  <2>4. ASSUME NEW m, m = [r EXCEPT !.before = list, !.kept = TRUE], Goes(w, "listed", m)
        PROVE  IInv'
    <3>1. DOMAIN m = DOMAIN r /\ m.about = r.about /\ m.overlaps = r.overlaps
      BY <1>3, <2>4
    <3> QED  BY <1>1, <1>2, <2>4, <3>1, GoesEdit
  <2>5. ASSUME NEW m, m = [r EXCEPT !.list = new, !.before = list], Goes(w, "write", m)
        PROVE  IInv'
    <3>1. DOMAIN m = DOMAIN r /\ m.about = r.about /\ m.overlaps = r.overlaps
      BY <1>3, <2>5
    <3> QED  BY <1>1, <1>2, <2>5, <3>1, GoesEdit
  <2> QED  BY <2>1, <2>2, <2>3, <2>4, <2>5
<1>5. CASE Delete(w)
  <2>1. Goes(w, "write", r)
    BY <1>5 DEF Delete, Go
  <2> QED  BY <1>1, <1>2, <2>1, GoesEdit
<1>6. CASE Write(w)
  <2>1. PICK m, pc : m = [r EXCEPT !.next = @ + 1] /\ Goes(w, pc, m) /\ pc \in {"listed", "write"}
    BY <1>6, Zenon DEF Write
  <2>2. DOMAIN m = DOMAIN r /\ m.about = r.about /\ m.overlaps = r.overlaps
    BY <1>3, <2>1
  <2> QED  BY <1>1, <1>2, <2>1, <2>2, GoesEdit
<1>7. CASE EditFails(w)
  <2>1. PICK m : m = [r EXCEPT !.hit = TRUE] /\ Goes(w, "refused", m)
    BY <1>7, Zenon DEF EditFails, Hit
  <2>2. DOMAIN m = DOMAIN r /\ m.about = r.about /\ m.overlaps = r.overlaps
    BY <1>3, <2>1
  <2> QED  BY <1>1, <1>2, <2>1, <2>2, GoesEdit
<1> QED  BY <1>4, <1>5, <1>6, <1>7

\* The process ends: who was under way is lost, with nothing left to say.
LEMMA NextCrash ==
  ASSUME IInv, Crash
  PROVE  IInv'
<1>1. /\ UNCHANGED <<orgs, instances, rows, users, saved, actual, roles, resets, cluster, schemas, served>>
      /\ cut' = cut \cup {request[w].instance : w \in {x \in Workers : Under(x, "save")}}
      /\ request' = [w \in Workers |-> IF Busy(w) THEN [pc |-> "lost"] ELSE request[w]]
  BY DEF Crash
<1>2. \A w \in Workers : Busy(w) => request'[w].pc = "lost"
  BY <1>1
<1>3. \A w \in Workers : ~Busy(w) => request'[w] = request[w]
  BY <1>1
<1>4. TypeOK'
  <2>1. ASSUME NEW o \in Workers
        PROVE  request'[o] \in Creations \/ Editing(request[o])' \/ Over(request[o])'
    BY <1>2, <1>3 DEF IInv, TypeOK, Over, Editing
  <2>2. request' = [o \in Workers |-> request'[o]]
    BY <1>1
  <2> QED  BY <2>1, <2>2 DEF TypeOK
<1>5. Consistent /\ Consistent'
  BY <1>1 DEF IInv, Consistent
<1>6. \A w \in Workers : ~Busy(w)'
  BY <1>2, <1>3 DEF Busy
<1>7. Noticed'
  BY <1>6 DEF Noticed
<1>8. \A w \in Workers : request'[w].pc \in Steps => request'[w] = request[w]
  BY <1>2, <1>3 DEF Steps, Early, UserSteps, DatabaseSteps, RestSteps
<1>9. ASSUME NEW w \in Workers, NEW m \in Creations, request'[w] = m
      PROVE  Facts(m)'
  <2>1. m.pc \in Steps
    BY DEF Creations
  <2>2. request[w] = m /\ Facts(m)
    BY <1>8, <1>9, <2>1 DEF IInv, Held
  <2>3. m.pc \in {"created", "error"}
    BY <1>6, <1>9, <2>1 DEF Busy, Steps, Early, UserSteps, DatabaseSteps, RestSteps
  <2>4. Grows(m.about)
    BY <1>1 DEF Grows
  <2> QED  BY <1>5, <2>2, <2>3, <2>4, FactsKept
<1>10. Held'
  BY <1>9 DEF Held
<1>11. \A w \in Workers : ~Under(w, "save")'
  BY <1>6 DEF Under, Busy
<1>12. Bounded'
  BY <1>1, <1>8 DEF IInv, Guarded, Bounded
<1>13. Sound'
  BY <1>1 DEF IInv, Guarded, Sound
<1>14. Guarded'
  BY <1>11, <1>12, <1>13 DEF Guarded
<1> QED  BY <1>4, <1>5, <1>7, <1>10, <1>14 DEF IInv

-----------------------------------------------------------------------------
(* The theorems.                                                           *)

LEMMA InitIInv == CatalogInit => IInv
<1> SUFFICES ASSUME Init
             PROVE  IInv
  BY DEF CatalogInit
<1>1. \A w \in Workers : request[w].pc = "idle"
  BY DEF Init, Idle
<1>2. TypeOK
  BY <1>1 DEF Init, TypeOK, Over
<1>3. Consistent
  BY DEF Init, Consistent
<1>4. Noticed
  BY <1>1 DEF Noticed, Busy
<1>5. \A w \in Workers : request[w].pc \notin Steps
  BY <1>1 DEF Steps, Early, UserSteps, DatabaseSteps, RestSteps
<1>6. Held
  BY <1>5 DEF Held, Creations
<1>7. Guarded
  BY <1>1, <1>5 DEF Init, Guarded, Bounded, Sound, Under
<1> QED  BY <1>2, <1>3, <1>4, <1>6, <1>7 DEF IInv

LEMMA StepIInv == IInv /\ [CatalogNext]_vars => IInv'
<1> SUFFICES ASSUME IInv, [CatalogNext]_vars
             PROVE  IInv'
  OBVIOUS
<1>1. ASSUME NEW w \in Workers, NEW asked \in Asked, Send(w, asked)
      PROVE  IInv'
  BY <1>1, NextSend
<1>2. ASSUME NEW w \in Workers, Create(w)
      PROVE  IInv'
  <2>1. CASE Context(w) \/ OrganizationExists(w) \/ CreateOrganization(w)
    BY <2>1, NextContext, NextOrganizationExists, NextCreateOrganization
  <2>2. CASE InstanceExists(w) \/ CreateInstance(w) \/ StartInstance(w)
    BY <2>2, NextInstanceExists, NextCreateInstance, NextStartInstance
  <2>3. CASE CreateUser(w)
    BY <2>3, NextFindUser, NextInsertUser, NextConnectUser, NextResetRole, NextSavePassword, NextEnsureRole
    DEF CreateUser
  <2>4. CASE DatabaseExists(w) \/ InsertRow(w) \/ ReadBack(w)
    BY <2>4, NextDatabaseExists, NextInsertRow, NextReadBack
  <2>5. CASE CreateDatabase(w)
    BY <2>5, NextConnectDatabase, NextMakesDatabase DEF CreateDatabase
  <2>6. CASE EnsureDatabase(w)
    BY <2>6, NextConnectDatabase, NextMakesDatabase DEF EnsureDatabase
  <2>7. CASE ConnectRest(w) \/ EnsureSchema(w) \/ GrantRest(w) \/ StartRest(w)
    BY <2>7, NextConnectRest, NextEnsureSchema, NextGrantRest, NextStartRest
  <2> QED  BY <1>2, <2>1, <2>2, <2>3, <2>4, <2>5, <2>6, <2>7 DEF Create
<1>3. CASE Crash
  BY <1>3, NextCrash
<1>4. ASSUME NEW w \in Workers, NEW edit \in Edits, SendEdit(w, edit)
      PROVE  IInv'
  BY <1>4, NextSendEdit
<1>5. ASSUME NEW w \in Workers, Read(w) \/ Delete(w) \/ Write(w) \/ EditFails(w)
      PROVE  IInv'
  BY <1>5, NextListed
<1>6. CASE UNCHANGED vars
  <2>1. UNCHANGED tables /\ request' = request
    BY <1>6 DEF vars, creationVars
  <2>2. Consistent /\ Consistent'
    BY <2>1, TablesStay DEF IInv
  <2>3. Noticed'
    BY <2>1 DEF IInv, Noticed, Busy
  <2>4. TypeOK'
    BY <2>1 DEF IInv, TypeOK, Editing, Over
  <2>5. \A w \in Workers : \A r \in Creations : request'[w] = r => Facts(r)'
    BY <2>1, <2>2, FactsStay DEF IInv, Held
  <2>6. Held'
    BY <2>5 DEF Held
  <2>7. Guarded'
    BY <2>1, GuardedBeside DEF Under
  <2> QED  BY <2>2, <2>3, <2>4, <2>6, <2>7 DEF IInv
<1> QED  BY <1>1, <1>2, <1>3, <1>4, <1>5, <1>6 DEF CatalogNext, Next

\* The invariant holds of every run: the tables stay consistent, requests
\* about the same organization notice each other, passwords are guarded, and
\* what a request found, missed or read is as its step says.
THEOREM AlwaysIInv == CatalogSpec => []IInv
  BY InitIInv, StepIInv, PTL DEF CatalogSpec

\* A creation fails only for a cause, whatever failures and crashes before it
\* have left half made, and whoever creates something else meanwhile; what a
\* fault between the role and the row of postgres leaves is such a cause.
THEOREM CreationsFailForCause == CatalogSpec => []FailsForCause
<1>1. IInv => FailsForCause
  <2> SUFFICES ASSUME IInv, NEW w \in Workers, Under(w, "error")
               PROVE  LET r == request[w] IN
                      \/ r.hit \/ r.overlaps \/ ~Plain(r) \/ Clashes(r) \/ r.neighbour
                      \/ r.instance \in cut
    BY DEF FailsForCause
  <2>1. request[w].pc = "error"
    BY DEF Under
  <2>2. Facts(request[w])
    BY <2>1, Working DEF Steps
  <2> QED  BY <2>1, <2>2 DEF Facts, Answered, Alone, Quiet
<1> QED  BY <1>1, AlwaysIInv, PTL

\* A creation that succeeds, and that no fault hit, has its row and its
\* hostname, and, on the instance of its row, its schema if it is alone there;
\* and its database even beside others, if no creation overlapped whose new
\* password would have kept it from connecting.
THEOREM SuccessIsServed == CatalogSpec => []CreatedIsServed
<1>1. IInv => CreatedIsServed
  <2> SUFFICES ASSUME IInv, NEW w \in Workers, Under(w, "created"), ~request[w].hit,
                      NEW r, r = request[w],
                      NEW there, there = [instance |-> r.row.instance, name |-> r.row.name]
               PROVE  /\ r.row \in rows /\ r.row.host \in served
                      /\ r.instance = r.row.instance =>
                           /\ ~r.overlaps => Present(there)
                           /\ SchemaTargets(r.row.instance) = {there} => Present(there) /\ there \in schemas
    BY DEF CreatedIsServed
  <2>1. r.pc = "created" /\ ~r.hit
    BY DEF Under
  <2>2. Facts(r)
    BY <2>1, Working DEF Steps
  <2>3. r.row \in rows /\ r.row.host \in served /\ r.row.name = r.asked.db
    BY <2>1, <2>2 DEF Facts, Made, HasRow, Answered
  <2>4. r.instance = r.row.instance /\ ~r.overlaps => Present(there)
    BY <2>1, <2>2, <2>3 DEF Facts, Made, Quiet, Database, Present
  <2>5. ASSUME r.instance = r.row.instance, SchemaTargets(r.row.instance) = {there}
        PROVE  Present(there) /\ there \in schemas
    <3>1. /\ r.target \in [instance : Instances, name : Labels \cup {Postgres}]
          /\ r.target.instance = r.instance /\ r.target \in schemas /\ Present(r.target)
      BY <2>1, <2>2 DEF Facts, Targeted
    <3>2. PICK row \in rows : row.instance = r.instance /\ row.name = r.target.name
      BY <2>1, <2>2, <2>5 DEF Facts, Targeted
    <3>3. [instance |-> r.instance, name |-> row.name] \in SchemaTargets(r.instance)
      BY <3>2 DEF SchemaTargets
    <3>4. r.target = [instance |-> r.instance, name |-> row.name]
      BY <3>1, <3>2
    <3> QED BY <2>5, <3>1, <3>3, <3>4
  <2> QED  BY <2>3, <2>4, <2>5
<1> QED  BY <1>1, AlwaysIInv, PTL

\* A nonempty set of natural numbers has a least element, which Min chooses.
LEMMA MinIsLeast ==
  ASSUME NEW I \in SUBSET Nat, I # {}
  PROVE  Min(I) \in I /\ \A y \in I : Min(I) <= y
<1> DEFINE Less == {ss \in Nat \X Nat : ss[1] < ss[2]}
<1>1. OpToRel(<, Nat) = Less
  BY DEF OpToRel
<1>2. PICK m \in I : \A y \in I : <<y, m>> \notin Less
  BY <1>1, NatLessThanWellFounded, WFMin
<1>3. ASSUME NEW y \in I
      PROVE  m <= y
  <2> DEFINE p == <<y, m>>
  <2>1. p \in Nat \X Nat /\ p[1] = y /\ p[2] = m
    OBVIOUS
  <2>2. ~(p[1] < p[2])
    BY <1>2, <2>1
  <2> QED BY <2>1, <2>2
<1> QED BY <1>3 DEF Min

-----------------------------------------------------------------------------
(* Lists, and their order.                                                 *)

\* Nobody is twice in the list.
Once(list) == \A i, j \in DOMAIN list : list[i].db = list[j].db => i = j

LEMMA OnceIsInjective ==
  ASSUME NEW list
  PROVE  Once(list) <=> IsInjective(Names(list))
  BY DEF Once, IsInjective, Names

\* t is the list s with x put at p.
LEMMA InsertedAt ==
  ASSUME NEW S, NEW s \in Seq(S), NEW x \in S, NEW p \in 1..(Len(s) + 1)
  PROVE  /\ InsertAt(s, p, x) \in Seq(S)
         /\ Len(InsertAt(s, p, x)) = Len(s) + 1
         /\ \A i \in 1..(Len(s) + 1) :
              InsertAt(s, p, x)[i] = IF i < p THEN s[i] ELSE IF i = p THEN x ELSE s[i - 1]
<1> DEFINE a == SubSeq(s, 1, p - 1)
           b == SubSeq(s, p, Len(s))
<1>1. a \in Seq(S) /\ Len(a) = p - 1 /\ \A i \in 1..(p - 1) : a[i] = s[i]
  OBVIOUS
<1>2. b \in Seq(S) /\ Len(b) = Len(s) + 1 - p /\ \A i \in 1..(Len(s) + 1 - p) : b[i] = s[i + p - 1]
  OBVIOUS
<1>3. <<x>> \in Seq(S) /\ Len(<<x>>) = 1 /\ <<x>>[1] = x
  OBVIOUS
<1>4. InsertAt(s, p, x) = a \o <<x>> \o b
  BY DEF InsertAt
<1> HIDE DEF a, b
<1>5. a \o <<x>> \in Seq(S) /\ Len(a \o <<x>>) = p
      /\ \A i \in 1..p : (a \o <<x>>)[i] = IF i < p THEN s[i] ELSE x
  BY <1>1, <1>3
<1> DEFINE c == a \o <<x>>
<1> HIDE DEF c
<1>6. c \in Seq(S) /\ Len(c) = p /\ \A i \in 1..p : c[i] = IF i < p THEN s[i] ELSE x
  BY <1>5 DEF c
<1>7. /\ c \o b \in Seq(S) /\ Len(c \o b) = Len(s) + 1
      /\ \A i \in 1..(Len(s) + 1) : (c \o b)[i] = IF i < p THEN s[i] ELSE IF i = p THEN x ELSE s[i - 1]
  <2>1. c \o b \in Seq(S) /\ Len(c \o b) = Len(s) + 1
    <3>0. c \in Seq(S) /\ b \in Seq(S)
      BY <1>2, <1>6
    <3>1. c \o b \in Seq(S) /\ Len(c \o b) = Len(c) + Len(b)
      BY ONLY <3>0
    <3>2. p \in Nat /\ Len(s) \in Nat
      OBVIOUS
    <3> QED BY ONLY <3>1, <3>2, <1>2, <1>6
  <2>2. \A i \in 1..(Len(s) + 1) : (c \o b)[i] = IF i <= p THEN c[i] ELSE b[i - p]
    BY <1>2, <1>6
  <2>3. ASSUME NEW i \in 1..(Len(s) + 1), i > p
        PROVE  b[i - p] = s[i - 1]
    <3>1. i - p \in 1..(Len(s) + 1 - p) /\ (i - p) + p - 1 = i - 1
      BY <2>3
    <3> QED BY <3>1, <1>2
  <2> QED BY <2>1, <2>2, <2>3, <1>6
<1> QED BY <1>4, <1>7 DEF c

\* t is the list s without the element at d.
LEMMA RemovedAt ==
  ASSUME NEW S, NEW s \in Seq(S), NEW d \in 1..Len(s)
  PROVE  /\ RemoveAt(s, d) \in Seq(S)
         /\ Len(RemoveAt(s, d)) = Len(s) - 1
         /\ \A i \in 1..(Len(s) - 1) : RemoveAt(s, d)[i] = IF i < d THEN s[i] ELSE s[i + 1]
<1> DEFINE a == SubSeq(s, 1, d - 1)
           b == SubSeq(s, d + 1, Len(s))
<1>1. a \in Seq(S) /\ Len(a) = d - 1 /\ \A i \in 1..(d - 1) : a[i] = s[i]
  OBVIOUS
<1>2. b \in Seq(S) /\ Len(b) = Len(s) - d /\ \A i \in 1..(Len(s) - d) : b[i] = s[i + d]
  OBVIOUS
<1>4. RemoveAt(s, d) = a \o b
  BY DEF RemoveAt
<1> HIDE DEF a, b
<1>5. a \o b \in Seq(S) /\ Len(a \o b) = Len(s) - 1
  <2>0. a \in Seq(S) /\ b \in Seq(S)
    BY <1>1, <1>2
  <2>1. a \o b \in Seq(S) /\ Len(a \o b) = Len(a) + Len(b)
    BY ONLY <2>0
  <2>2. d \in Nat /\ Len(s) \in Nat
    OBVIOUS
  <2> QED BY ONLY <2>1, <2>2, <1>1, <1>2
<1>6. \A i \in 1..(Len(s) - 1) : (a \o b)[i] = IF i < d THEN a[i] ELSE b[i - (d - 1)]
  BY <1>1, <1>2
<1>7. ASSUME NEW i \in 1..(Len(s) - 1), ~(i < d)
      PROVE  b[i - (d - 1)] = s[i + 1]
  <2>1. i - (d - 1) \in 1..(Len(s) - d) /\ (i - (d - 1)) + d = i + 1
    BY <1>7
  <2> QED BY <2>1, <1>2
<1> QED BY <1>1, <1>4, <1>5, <1>6, <1>7

\* Who has db at d alone keeps the others, and their order, without it.
LEMMA Pulled ==
  ASSUME NEW S, NEW s \in Seq(S), NEW d \in 1..Len(s), Once(s), NEW t, t = RemoveAt(s, d)
  PROVE  /\ Once(t) /\ \A i \in DOMAIN t : t[i].db # s[d].db
         /\ Keeps(s, t, s[d].db) /\ Keeps(t, s, s[d].db)
<1>1. t \in Seq(S) /\ Len(t) = Len(s) - 1 /\ \A i \in 1..(Len(s) - 1) : t[i] = IF i < d THEN s[i] ELSE s[i + 1]
  BY RemovedAt
<1>2. DOMAIN s = 1..Len(s) /\ DOMAIN t = 1..(Len(s) - 1) /\ Len(s) \in Nat
  BY <1>1
<1> DEFINE At(i) == IF i < d THEN i ELSE i + 1
<1>3. ASSUME NEW i \in DOMAIN t
      PROVE  At(i) \in DOMAIN s \ {d} /\ t[i] = s[At(i)]
  BY <1>1, <1>2, <1>3
<1>4. \A i, j \in DOMAIN t : (At(i) = At(j) => i = j) /\ (i <= j => At(i) <= At(j))
  BY <1>2
<1>5. ASSUME NEW i \in DOMAIN s, i # d
      PROVE  \E k \in DOMAIN t : At(k) = i
  <2>1. i < d => i \in DOMAIN t /\ At(i) = i
    BY <1>2, <1>5
  <2>2. ~(i < d) => i - 1 \in DOMAIN t /\ At(i - 1) = i
    BY <1>2, <1>5
  <2> HIDE DEF At
  <2> QED BY <2>1, <2>2
<1>6. \A k, l \in DOMAIN t : At(k) <= At(l) => k <= l
  BY <1>2
<1> HIDE DEF At
<1>7. Once(t)
  BY <1>3, <1>4 DEF Once
<1>8. \A i \in DOMAIN t : t[i].db # s[d].db
  BY <1>2, <1>3 DEF Once
<1>9. Keeps(t, s, s[d].db)
  BY <1>3, <1>4 DEF Keeps
<1>10. Keeps(s, t, s[d].db)
  BY <1>3, <1>5, <1>6 DEF Keeps
<1> QED BY <1>7, <1>8, <1>9, <1>10

\* A database put into a list that has not got it leaves the others in order.
LEMMA PutIn ==
  ASSUME NEW S, NEW s \in Seq(S), NEW x \in S, NEW p \in 1..(Len(s) + 1), Once(s),
         \A i \in DOMAIN s : s[i].db # x.db, NEW t, t = InsertAt(s, p, x)
  PROVE  Once(t) /\ Keeps(s, t, x.db) /\ Keeps(t, s, x.db)
<1>1. /\ t \in Seq(S) /\ Len(t) = Len(s) + 1
      /\ \A i \in 1..(Len(s) + 1) : t[i] = IF i < p THEN s[i] ELSE IF i = p THEN x ELSE s[i - 1]
  BY InsertedAt
<1>2. DOMAIN s = 1..Len(s) /\ DOMAIN t = 1..(Len(s) + 1) /\ Len(s) \in Nat
  BY <1>1
<1> DEFINE At(i) == IF i < p THEN i ELSE i + 1
<1>3. ASSUME NEW i \in DOMAIN s
      PROVE  At(i) \in DOMAIN t \ {p} /\ t[At(i)] = s[i]
  BY <1>1, <1>2, <1>3
<1>4. \A i, j \in DOMAIN s : i <= j => At(i) <= At(j)
  BY <1>2
<1>5. ASSUME NEW i \in DOMAIN t, i # p
      PROVE  \E k \in DOMAIN s : At(k) = i
  <2>1. i < p => i \in DOMAIN s /\ At(i) = i
    BY <1>2, <1>5
  <2>2. ~(i < p) => i - 1 \in DOMAIN s /\ At(i - 1) = i
    BY <1>2, <1>5
  <2> HIDE DEF At
  <2> QED BY <2>1, <2>2
<1>6. \A k, l \in DOMAIN s : At(k) <= At(l) => k <= l
  BY <1>2
<1>7. t[p] = x /\ p \in DOMAIN t
  BY <1>1, <1>2
<1> HIDE DEF At
<1>8. Once(t)
  <2> SUFFICES ASSUME NEW i \in DOMAIN t, NEW j \in DOMAIN t, t[i].db = t[j].db PROVE i = j
    BY DEF Once
  <2>1. CASE i = p \/ j = p
    BY <2>1, <1>3, <1>5, <1>7
  <2>2. CASE i # p /\ j # p
    BY <2>2, <1>3, <1>5 DEF Once
  <2> QED BY <2>1, <2>2
<1>9. Keeps(s, t, x.db)
  BY <1>3, <1>4 DEF Keeps
<1>10. Keeps(t, s, x.db)
  BY <1>3, <1>5, <1>6, <1>7 DEF Keeps
<1> QED BY <1>8, <1>9, <1>10

LEMMA KeepsOn ==
  ASSUME NEW s, NEW t, NEW u, NEW db, Keeps(s, t, db), Keeps(t, u, db)
  PROVE  Keeps(s, u, db)
<1> SUFFICES ASSUME NEW i \in DOMAIN s, NEW j \in DOMAIN s, i <= j, s[i].db # db, s[j].db # db
             PROVE  \E k, l \in DOMAIN u : k <= l /\ u[k].db = s[i].db /\ u[l].db = s[j].db
  BY DEF Keeps
<1>1. PICK k \in DOMAIN t, l \in DOMAIN t : k <= l /\ t[k].db = s[i].db /\ t[l].db = s[j].db
  BY DEF Keeps
<1> QED BY <1>1 DEF Keeps

\* Two lists of the same databases.
Alike(s, t) == DOMAIN s = DOMAIN t /\ \A i \in DOMAIN s : s[i].db = t[i].db

LEMMA AlikeKeeps ==
  ASSUME NEW s, NEW t, NEW u, NEW db, Alike(t, u)
  PROVE  /\ Keeps(s, t, db) => Keeps(s, u, db)
         /\ Keeps(t, s, db) => Keeps(u, s, db)
         /\ Once(t) => Once(u)
  BY DEF Alike, Keeps, Once

-----------------------------------------------------------------------------
(* What an edit makes of a list.                                           *)

Dbs == {e.db : e \in Edits} \cup UNION {{list[i] : i \in DOMAIN list} : list \in Listed}
Entries == [id : Nat, db : Dbs, index : Nat]

\* The first place of a database is its only one, or it is not there.
LEMMA FirstIs ==
  ASSUME NEW S, NEW s \in Seq(S), NEW db
  PROVE  /\ First(s, db) = 0 <=> \A i \in DOMAIN s : s[i].db # db
         /\ First(s, db) # 0 => First(s, db) \in DOMAIN s /\ s[First(s, db)].db = db
<1> DEFINE I == {i \in 1..Len(s) : s[i].db = db}
<1>1. First(s, db) = IF I # {} THEN Min(I) ELSE 0
  BY DEF First, SelectInSeq
<1>2. I \in SUBSET Nat /\ DOMAIN s = 1..Len(s)
  OBVIOUS
<1>3. I # {} => Min(I) \in I
  BY <1>2, MinIsLeast
<1>4. I = {i \in DOMAIN s : s[i].db = db}
  BY <1>2
<1>5. 0 \notin I
  OBVIOUS
<1> HIDE DEF I
<1>6. I = {} <=> \A i \in DOMAIN s : s[i].db # db
  BY <1>4
<1>7. I # {} => Min(I) \in DOMAIN s /\ s[Min(I)].db = db /\ Min(I) # 0
  BY <1>3, <1>4, <1>5
<1> QED BY <1>1, <1>6, <1>7

\* The list has not got the database; one that has all of another's entries.
Lacks(list, db) == \A i \in DOMAIN list : list[i].db # db
Within(list, other) == \A i \in DOMAIN list : \E j \in DOMAIN other : other[j] = list[i]

\* Where an added database goes, and where it is then.
Spot(list, at) == Min({at + 1, Len(list)})
Place(list, at) == IF at < Len(list) THEN at + 1 ELSE Len(list) + 1

\* A database spliced into a list that has not got it is where it should be.
LEMMA SplicedIn ==
  ASSUME NEW s \in Seq(Entries), NEW x \in Entries, NEW at \in Nat, Once(s), NEW db, x.db = db,
         Lacks(s, db), NEW t, t = Spliced(s, at, x)
  PROVE  /\ t \in Seq(Entries) /\ Once(t) /\ Keeps(s, t, db) /\ Keeps(t, s, db)
         /\ Spot(t, at) \in DOMAIN t /\ t[Spot(t, at)] = x
         /\ Within(s, t) /\ \A j \in DOMAIN t : t[j] = x \/ \E i \in DOMAIN s : t[j] = s[i]
<1> DEFINE p == Place(s, at)
<1>2. p \in 1..(Len(s) + 1)
  BY DEF Place
<1>3. t = InsertAt(s, p, x)
  BY DEF Spliced, Place
<1> HIDE DEF p
<1>4. /\ t \in Seq(Entries) /\ Len(t) = Len(s) + 1
      /\ \A i \in 1..(Len(s) + 1) : t[i] = IF i < p THEN s[i] ELSE IF i = p THEN x ELSE s[i - 1]
  BY <1>2, <1>3, InsertedAt
<1>5. Once(t) /\ Keeps(s, t, db) /\ Keeps(t, s, db)
  BY <1>2, <1>3, PutIn DEF Lacks
<1>6. DOMAIN s = 1..Len(s) /\ DOMAIN t = 1..(Len(s) + 1) /\ Len(s) \in Nat
  BY <1>4
<1>7. p = Spot(t, at)
  <2>1. p \in {at + 1, Len(t)} /\ \A y \in {at + 1, Len(t)} : p <= y
    BY <1>4, <1>6 DEF p, Place
  <2> DEFINE I == {at + 1, Len(t)}
  <2>2. I \in SUBSET Nat
    BY <1>4, <1>6
  <2> HIDE DEF p, I
  <2>3. Min(I) \in I /\ \A y \in I : Min(I) <= y
    BY <2>1, <2>2, MinIsLeast DEF I
  <2>4. p \in I /\ \A y \in I : p <= y
    BY <2>1 DEF I
  <2>5. p \in Nat /\ Min(I) \in Nat /\ p <= Min(I) /\ Min(I) <= p
    BY <2>2, <2>3, <2>4
  <2>6. p = Min(I)
    BY ONLY <2>5
  <2> QED BY <2>6 DEF I, Spot
<1>8. t[p] = x /\ p \in DOMAIN t
  BY <1>2, <1>4, <1>6
<1>9. ASSUME NEW i \in DOMAIN s
      PROVE  \E j \in DOMAIN t : t[j] = s[i]
  <2>1. i < p => i \in DOMAIN t /\ t[i] = s[i]
    BY <1>2, <1>4, <1>6, <1>9
  <2>2. ASSUME ~(i < p) PROVE i + 1 \in DOMAIN t /\ t[i + 1] = s[i]
    <3>1. i + 1 \in 1..(Len(s) + 1) /\ ~(i + 1 < p) /\ i + 1 # p /\ (i + 1) - 1 = i
      BY <1>2, <1>6, <1>9, <2>2
    <3> QED BY <3>1, <1>4, <1>6
  <2> QED BY <2>1, <2>2
<1>10. ASSUME NEW j \in DOMAIN t, t[j] # x
       PROVE  \E i \in DOMAIN s : t[j] = s[i]
  <2>1. j # p
    BY <1>8, <1>10
  <2>2. j < p => j \in DOMAIN s /\ t[j] = s[j]
    BY <1>2, <1>4, <1>6
  <2>3. ~(j < p) => j - 1 \in DOMAIN s /\ t[j] = s[j - 1]
    BY <2>1, <1>2, <1>4, <1>6
  <2> QED BY <2>2, <2>3
<1> QED BY <1>4, <1>5, <1>7, <1>8, <1>9, <1>10 DEF Within

\* t is what adding db to s, at that position, should make of it.
PlanOf(s, t, db, at) ==
  /\ Once(t) /\ Keeps(s, t, db) /\ Keeps(t, s, db)
  /\ Spot(t, at) \in DOMAIN t /\ t[Spot(t, at)].db = db
  /\ Within(s, t) /\ \A j \in DOMAIN t : t[j].id # None => \E i \in DOMAIN s : t[j] = s[i]

\* A database that is not in the list goes in, one that is moves.
LEMMA AddedIs ==
  ASSUME NEW s \in Seq(Entries), NEW db \in Dbs, NEW at \in Nat, Once(s),
         NEW t, t = Added(s, db, at)
  PROVE  PlanOf(s, t, db, at)
<1> DEFINE here == {i \in DOMAIN s : s[i].db = db}
<1>1. CASE here = {}
  <2> DEFINE x == [id |-> None, db |-> db, index |-> at]
  <2>1. x \in Entries /\ x.db = db /\ x.id = None
    BY DEF Entries, None
  <2>2. t = Spliced(s, at, x)
    BY <1>1 DEF Added
  <2>3. Lacks(s, db)
    BY <1>1 DEF Lacks
  <2> HIDE DEF x
  <2>4. /\ t \in Seq(Entries) /\ Once(t) /\ Keeps(s, t, db) /\ Keeps(t, s, db)
        /\ Spot(t, at) \in DOMAIN t /\ t[Spot(t, at)] = x
        /\ Within(s, t) /\ \A j \in DOMAIN t : t[j] = x \/ \E i \in DOMAIN s : t[j] = s[i]
    BY <2>1, <2>2, <2>3, SplicedIn
  <2> QED BY <2>1, <2>4 DEF PlanOf
<1>2. CASE here # {}
  <2>1. PICK d \in DOMAIN s : s[d].db = db
    BY <1>2
  <2>2. here = {d}
    BY <2>1 DEF Once
  <2>3. DOMAIN s = 1..Len(s)
    OBVIOUS
  <2>4. d = CHOOSE i \in here : \A j \in here : i <= j
    BY <2>2, <2>3
  <2> DEFINE x == s[d]
             m == RemoveAt(s, d)
  <2>5. t = Spliced(m, at, x)
    BY <1>2, <2>4 DEF Added
  <2>6. /\ m \in Seq(Entries) /\ Len(m) = Len(s) - 1
        /\ \A i \in 1..(Len(s) - 1) : m[i] = IF i < d THEN s[i] ELSE s[i + 1]
    BY <2>3, RemovedAt
  <2>7. Once(m) /\ Lacks(m, db) /\ Keeps(s, m, db) /\ Keeps(m, s, db)
    BY <2>1, <2>3, Pulled DEF Lacks
  <2>8. x \in Entries /\ x.db = db
    BY <2>1
  <2>9. \A i \in DOMAIN s : s[i] = x \/ \E j \in DOMAIN m : m[j] = s[i]
    <3> SUFFICES ASSUME NEW i \in DOMAIN s, i # d PROVE \E j \in DOMAIN m : m[j] = s[i]
      OBVIOUS
    <3>1. DOMAIN m = 1..(Len(s) - 1) /\ Len(s) \in Nat
      BY <2>6
    <3>2. i < d => i \in DOMAIN m /\ m[i] = s[i]
      BY <2>3, <2>6, <3>1
    <3>3. ~(i < d) => i - 1 \in DOMAIN m /\ m[i - 1] = s[i]
      BY <2>3, <2>6, <3>1
    <3> HIDE DEF m
    <3> QED BY <3>2, <3>3
  <2>10. \A j \in DOMAIN m : \E i \in DOMAIN s : m[j] = s[i]
    <3> SUFFICES ASSUME NEW j \in DOMAIN m PROVE \E i \in DOMAIN s : m[j] = s[i]
      OBVIOUS
    <3>1. DOMAIN m = 1..(Len(s) - 1) /\ Len(s) \in Nat
      BY <2>6
    <3>2. j \in DOMAIN s /\ j + 1 \in DOMAIN s
      BY <2>3, <3>1
    <3> QED BY <2>6, <3>1, <3>2
  <2> HIDE DEF m, x
  <2>11. /\ t \in Seq(Entries) /\ Once(t) /\ Keeps(m, t, db) /\ Keeps(t, m, db)
         /\ Spot(t, at) \in DOMAIN t /\ t[Spot(t, at)] = x
         /\ Within(m, t) /\ \A j \in DOMAIN t : t[j] = x \/ \E i \in DOMAIN m : t[j] = m[i]
    BY <2>5, <2>6, <2>7, <2>8, SplicedIn
  <2>12. Keeps(s, t, db) /\ Keeps(t, s, db)
    BY <2>7, <2>11, KeepsOn
  <2>13. ASSUME NEW i \in DOMAIN s PROVE \E j \in DOMAIN t : t[j] = s[i]
    BY <2>9, <2>11 DEF Within
  <2>14. ASSUME NEW j \in DOMAIN t PROVE \E i \in DOMAIN s : t[j] = s[i]
    BY <2>10, <2>11, <2>1 DEF x
  <2> QED BY <2>8, <2>11, <2>12, <2>13, <2>14 DEF Within, PlanOf
<1> QED BY <1>1, <1>2

-----------------------------------------------------------------------------
(* The entries of the list, in order.                                      *)

\* A list of a set's entries has each of them once.
LEMMA OrderedList ==
  ASSUME NEW F, IsFiniteSet(F), NEW s \in Orders(F)
  PROVE  /\ s \in Seq(F) /\ Len(s) = Cardinality(F) /\ Cardinality(F) \in Nat
         /\ \A i, j \in DOMAIN s : s[i] = s[j] => i = j
         /\ \A e \in F : \E i \in DOMAIN s : s[i] = e
<1> DEFINE n == Cardinality(F)
<1>1. n \in Nat
  BY FS_CardinalityType
<1>2. s \in [1..n -> F] /\ \A i, j \in 1..n : i # j => s[i] # s[j]
  BY DEF Orders, SetToSeqs
<1>3. s \in Seq(F) /\ Len(s) = n /\ DOMAIN s = 1..n
  BY <1>1, <1>2
<1>4. s \in Injection(1..n, F)
  BY <1>2 DEF Injection, IsInjective
<1>5. IsFiniteSet(1..n) /\ Cardinality(1..n) = n
  <2>1. 1 \in Int /\ n \in Int
    BY <1>1
  <2>2. Cardinality(1..n) = IF 1 > n THEN 0 ELSE n - 1 + 1
    BY <2>1, FS_Interval
  <2>3. IsFiniteSet(1..n)
    BY <2>1, FS_Interval
  <2> HIDE DEF n
  <2> QED BY <1>1, <2>2, <2>3
<1>6. s \in Surjection(1..n, F)
  BY <1>4, <1>5, FS_Injection
<1>7. \A e \in F : \E i \in 1..n : s[i] = e
  BY <1>6 DEF Surjection
<1> QED BY <1>1, <1>2, <1>3, <1>7

\* Entries at different positions have one order.
LEMMA OneOrder ==
  ASSUME NEW F, IsFiniteSet(F), NEW s \in Seq(F), \A i \in DOMAIN s : s[i].index \in Nat,
         \A i, j \in DOMAIN s : i < j => s[i].index < s[j].index,
         \A e \in F : \E i \in DOMAIN s : s[i] = e
  PROVE  Orders(F) = {s}
<1> DEFINE n == Len(s)
<1>1. n \in Nat /\ DOMAIN s = 1..n /\ s \in [1..n -> F]
  OBVIOUS
<1>2. \A i, j \in 1..n : s[i] = s[j] => i = j
  <2> SUFFICES ASSUME NEW i \in 1..n, NEW j \in 1..n, s[i] = s[j] PROVE i = j
    OBVIOUS
  <2>1. ~(i < j) /\ ~(j < i)
    <3>1. s[i].index \in Nat /\ s[j].index = s[i].index
      BY <1>1
    <3> QED BY <3>1, <1>1
  <2> QED BY <2>1, <1>1
<1>3. IsFiniteSet(1..n) /\ Cardinality(1..n) = n
  <2>1. 1 \in Int /\ n \in Int
    BY <1>1
  <2>2. Cardinality(1..n) = IF 1 > n THEN 0 ELSE n - 1 + 1
    BY <2>1, FS_Interval
  <2>3. IsFiniteSet(1..n)
    BY <2>1, FS_Interval
  <2> HIDE DEF n
  <2> QED BY <1>1, <2>2, <2>3
<1>4. s \in Surjection(1..n, F)
  BY <1>1 DEF Surjection
<1>5. s \in Injection(1..n, F)
  BY <1>1, <1>2 DEF Injection, IsInjective
<1>6. Cardinality(F) = n
  BY <1>3, <1>4, <1>5, FS_Surjection
<1>7. s \in Orders(F)
  <2>1. s \in SetToSeqs(F)
    BY <1>1, <1>2, <1>6 DEF SetToSeqs
  <2>2. \A i, j \in DOMAIN s : i < j => s[i].index <= s[j].index
    <3> SUFFICES ASSUME NEW i \in DOMAIN s, NEW j \in DOMAIN s, i < j PROVE s[i].index <= s[j].index
      OBVIOUS
    <3>1. s[i].index \in Nat /\ s[j].index \in Nat /\ s[i].index < s[j].index
      OBVIOUS
    <3> QED BY ONLY <3>1
  <2> QED BY <2>1, <2>2 DEF Orders
<1>8. ASSUME NEW t \in Orders(F), t # s
      PROVE  FALSE
  <2>1. /\ t \in Seq(F) /\ Len(t) = n
        /\ \A i, j \in DOMAIN t : t[i] = t[j] => i = j
        /\ \A e \in F : \E i \in DOMAIN t : t[i] = e
    BY <1>6, OrderedList
  <2>2. DOMAIN t = 1..n /\ \A i, j \in 1..n : i < j => t[i].index <= t[j].index
    <3>1. DOMAIN t = 1..n
      BY <2>1
    <3>2. \A i, j \in DOMAIN t : i < j => t[i].index <= t[j].index
      BY Zenon DEF Orders
    <3> QED BY <3>1, <3>2
  <2> DEFINE I == {i \in 1..n : t[i] # s[i]}
  <2>3. I # {} /\ I \in SUBSET Nat
    <3>1. t \in [1..n -> F] /\ s \in [1..n -> F]
      BY <1>1, <2>1, <2>2
    <3>2. (\A i \in 1..n : t[i] = s[i]) => t = s
      BY ONLY <3>1
    <3>3. I \in SUBSET Nat
      BY <1>1
    <3> QED BY <3>2, <3>3, <1>8
  <2>4. Min(I) \in I /\ \A y \in I : Min(I) <= y
    <3> HIDE DEF I
    <3> QED BY <2>3, MinIsLeast
  <2>5. PICK m \in 1..n : t[m] # s[m] /\ \A i \in 1..n : i < m => t[i] = s[i]
    <3>1. Min(I) \in 1..n /\ t[Min(I)] # s[Min(I)]
      BY <2>4
    <3>2. ASSUME NEW i \in 1..n, i < Min(I) PROVE t[i] = s[i]
      <4>1. i \in I => FALSE
        <5> HIDE DEF I
        <5> QED BY <2>3, <2>4, <3>1, <3>2
      <4> QED BY <4>1
    <3> HIDE DEF I
    <3> QED BY <3>1, <3>2
  <2> HIDE DEF I
  <2>6. s[m] \in F /\ t[m] \in F
    BY <1>1, <2>1, <2>2
  <2>7. PICK a \in 1..n : t[a] = s[m]
    BY <2>1, <2>2, <2>6
  <2>8. PICK b \in 1..n : s[b] = t[m]
    BY <1>1, <2>6
  <2>9. a > m
    <3>1. a # m
      BY <2>5, <2>7
    <3>2. ~(a < m)
      BY <2>5, <2>7, <1>2
    <3> QED BY <3>1, <3>2, <1>1
  <2>10. b > m
    <3>1. b # m
      BY <2>5, <2>8
    <3>2. ~(b < m)
      BY <2>5, <2>8, <2>1, <2>2
    <3> QED BY <3>1, <3>2, <1>1
  <2>11. t[m].index <= s[m].index
    <3>1. m < a
      BY <2>9, <1>1
    <3> QED BY <3>1, <2>2, <2>7
  <2>12. s[m].index < t[m].index
    <3>1. m < b
      BY <2>10, <1>1
    <3> QED BY <3>1, <1>1, <2>8
  <2>13. s[m].index \in Nat /\ t[m].index \in Nat
    BY <1>1, <2>8
  <2> QED BY ONLY <2>11, <2>12, <2>13
<1> QED BY <1>7, <1>8

-----------------------------------------------------------------------------
(* The edits under way.  F are the entries of the list.                    *)

EditRequests ==
  [pc : {"read", "delete", "write"}, about : {List}, hit : {FALSE}, overlaps : BOOLEAN, asked : Edits,
   list : Seq(Entries), before : Seq(Entries), next : Nat, kept : {FALSE}]
Removes(r) == r.asked.edit = "remove"

\* The entries are told apart by their keys.
Stored(F) ==
  /\ IsFiniteSet(F) /\ F \subseteq Entries
  /\ \A e \in F : e.id # None
  /\ \A e, f \in F : e.id = f.id => e = f

\* There is something to write, or to delete, and what was read had keys.
Ready(r) ==
  /\ r.next \in 1..(IF r.pc = "write" THEN Len(r.list) ELSE 1)
  /\ r.pc = "delete" => Removes(r) /\ First(r.list, r.asked.db) # 0
  /\ \A i \in DOMAIN r.before : r.before[i].id # None

\* Nobody else changes the entries, and no database was there twice.
Undisturbed(r) == ~r.overlaps /\ Once(r.before)

\* The list a request writes, against the one it read.
Planned(r) ==
  IF Removes(r) THEN r.list = r.before /\ First(r.list, r.asked.db) # 0
  ELSE /\ Once(r.list) /\ Keeps(r.before, r.list, r.asked.db) /\ Keeps(r.list, r.before, r.asked.db)
       /\ Spot(r.list, r.asked.at) \in DOMAIN r.list
       /\ r.list[Spot(r.list, r.asked.at)].db = r.asked.db

\* The entries are those of the list, of which the first ones have been
\* written, but for the one removed, or the one not yet inserted.
Has(r, i) ==
  IF Removes(r) THEN r.list[i].db # r.asked.db ELSE r.list[i].id # None \/ i < r.next
Fits(e, r, i) ==
  /\ e.db = r.list[i].db
  /\ r.list[i].id # None => e.id = r.list[i].id
  /\ i < r.next => e.index = i - 1
SoFar(F, r) ==
  /\ \A e \in F : \E i \in DOMAIN r.list : Has(r, i) /\ Fits(e, r, i)
  /\ \A i \in DOMAIN r.list : Has(r, i) => \E e \in F : Fits(e, r, i)
  /\ \A i \in DOMAIN r.list : ~Has(r, i) => \A e \in F : e.id # r.list[i].id
  /\ \A e, f \in F : e.db = f.db => e = f

\* What is in the list, and in F.
Lists(list, F) ==
  /\ \A i \in DOMAIN list : list[i] \in F
  /\ \A e \in F : \E i \in DOMAIN list : list[i] = e
Current(F, r) ==
  /\ r.pc = "delete" => r.list = r.before /\ Lists(r.list, F)
  /\ r.pc = "write" => Planned(r) /\ SoFar(F, r)

EditFacts(F, r) == r \in EditRequests /\ Ready(r) /\ (Undisturbed(r) => Current(F, r))

ListInv ==
  /\ Stored(featured)
  /\ \A w \in Workers : \A r \in {request[w]} :
       r.pc \in {"read", "delete", "write"} => EditFacts(featured, r)

-----------------------------------------------------------------------------
(* What a query does to the entries.                                       *)

LEMMA FreshIsNew ==
  ASSUME Stored(featured)
  PROVE  FreshId \in Nat \ {None} /\ \A e \in featured : e.id # FreshId
<1> DEFINE f == [e \in featured |-> e.id]
           n == Cardinality(Ids)
<1>1. f \in Surjection(featured, Ids)
  BY DEF Surjection, Ids
<1>2. IsFiniteSet(Ids)
  BY <1>1, FS_Surjection DEF Stored
<1>3. n \in Nat
  BY <1>2, FS_CardinalityType
<1>4. \E id \in 1..(n + 1) : id \notin Ids
  <2> SUFFICES ASSUME 1..(n + 1) \subseteq Ids PROVE FALSE
    OBVIOUS
  <2>1. Cardinality(1..(n + 1)) <= n
    BY <1>2, FS_Subset
  <2>2. PICK m \in Int : m = n + 1
    BY <1>3
  <2>3. Cardinality(1..m) = IF 1 > m THEN 0 ELSE m - 1 + 1
    <3>1. 1 \in Int
      OBVIOUS
    <3> QED BY <3>1, FS_Interval
  <2> HIDE DEF n
  <2> QED BY <2>1, <2>2, <2>3, <1>3
<1>5. FreshId \in 1..(n + 1) /\ FreshId \notin Ids
  BY <1>4 DEF FreshId
<1>6. FreshId \in Nat \ {None}
  BY <1>3, <1>5 DEF None
<1> QED BY <1>5, <1>6 DEF Ids

LEMMA InsertStored ==
  ASSUME NEW F, Stored(F), NEW new \in Entries, new.id # None, \A e \in F : e.id # new.id
  PROVE  Stored(F \cup {new})
<1>1. IsFiniteSet(F \cup {new})
  BY FS_AddElement DEF Stored
<1> QED BY <1>1 DEF Stored

\* The entries, with another position for the one that has the key.
Renumbered(F, id, k) == {IF e.id = id THEN [e EXCEPT !.index = k] ELSE e : e \in F}
\* f is e, with another position if it has the key.
Renumbers(f, e, id, k) ==
  f \in Entries /\ f.id = e.id /\ f.db = e.db /\ f.index = IF e.id = id THEN k ELSE e.index

LEMMA UpdateStored ==
  ASSUME NEW F, Stored(F), NEW id, NEW k \in Nat, NEW G, G = Renumbered(F, id, k)
  PROVE  /\ Stored(G)
         /\ \A e \in F : \E f \in G : Renumbers(f, e, id, k)
         /\ \A f \in G : \E e \in F : Renumbers(f, e, id, k)
<1> USE DEF Renumbered
<1> DEFINE g == [e \in F |-> IF e.id = id THEN [e EXCEPT !.index = k] ELSE e]
<1>1. g \in Surjection(F, G)
  BY DEF Surjection
<1>2. IsFiniteSet(G)
  BY <1>1, FS_Surjection DEF Stored
<1>3. \A e \in Entries : /\ e.id = id => Renumbers([e EXCEPT !.index = k], e, id, k)
                         /\ e.id # id => Renumbers(e, e, id, k)
  BY DEF Renumbers, Entries
<1>4. F \subseteq Entries
  BY DEF Stored
<1>5. \A e \in F : Renumbers(IF e.id = id THEN [e EXCEPT !.index = k] ELSE e, e, id, k)
  BY <1>3, <1>4
<1>6. \A e \in F : \E f \in G : Renumbers(f, e, id, k)
  BY <1>5
<1>7. \A f \in G : \E e \in F : Renumbers(f, e, id, k)
  BY <1>5
<1>8. G \subseteq Entries /\ \A f \in G : f.id # None
  BY <1>7 DEF Renumbers, Stored
<1>9. ASSUME NEW f \in G, NEW h \in G, f.id = h.id PROVE f = h
  <2>1. PICK d \in F : f = IF d.id = id THEN [d EXCEPT !.index = k] ELSE d
    OBVIOUS
  <2>2. PICK e \in F : h = IF e.id = id THEN [e EXCEPT !.index = k] ELSE e
    OBVIOUS
  <2>3. f.id = d.id /\ h.id = e.id
    BY <2>1, <2>2, <1>5 DEF Renumbers
  <2>4. d = e
    BY <2>3, <1>9 DEF Stored
  <2> QED BY <2>1, <2>2, <2>4
<1> QED BY <1>2, <1>6, <1>7, <1>8, <1>9 DEF Stored

LEMMA DeleteStored ==
  ASSUME NEW F, Stored(F), NEW id
  PROVE  Stored({e \in F : e.id # id})
<1>1. IsFiniteSet({e \in F : e.id # id})
  BY FS_Subset DEF Stored
<1> QED BY <1>1 DEF Stored

-----------------------------------------------------------------------------
(* One query of an edit, on its list.                                      *)

\* q is r one position further, or at the first one.
Onward(q, r) == q.list = r.list /\ q.asked = r.asked /\ q.next = r.next + 1

\* An entry of another place than the one that is written has another key.
LEMMA OtherKey ==
  ASSUME NEW F, Stored(F), NEW r, Once(r.list), SoFar(F, r), NEW k \in DOMAIN r.list,
         r.list[k].id # None, NEW e \in F, NEW i \in DOMAIN r.list, Fits(e, r, i), i # k
  PROVE  e.id # r.list[k].id
<1>1. CASE Has(r, k)
  <2>1. PICK g \in F : Fits(g, r, k)
    BY <1>1 DEF SoFar
  <2>2. g.id = r.list[k].id /\ g.db = r.list[k].db
    BY <2>1 DEF Fits
  <2>3. g.db # e.db
    BY <2>2 DEF Fits, Once
  <2> QED BY <2>2, <2>3 DEF Stored
<1>2. CASE ~Has(r, k)
  BY <1>2 DEF SoFar
<1> QED BY <1>1, <1>2

LEMMA UpdateGoesOn ==
  ASSUME NEW F, Stored(F), NEW r, NEW q, Onward(q, r), r.list \in Seq(Entries), Once(r.list),
         SoFar(F, r), r.next \in 1..Len(r.list), r.list[r.next].id # None,
         NEW G, G = Renumbered(F, r.list[r.next].id, r.next - 1)
  PROVE  SoFar(G, q)
<1> DEFINE k == r.next
           id == r.list[k].id
<1>1. k \in DOMAIN r.list /\ k \in Nat /\ k - 1 \in Nat
  OBVIOUS
<1>2. \A i \in DOMAIN r.list : i \in Nat
  OBVIOUS
<1>3. /\ Stored(G)
      /\ \A e \in F : \E f \in G : Renumbers(f, e, id, k - 1)
      /\ \A f \in G : \E e \in F : Renumbers(f, e, id, k - 1)
  <2>1. PICK m \in Nat : m = r.next - 1
    BY <1>1
  <2>2. G = Renumbered(F, id, m)
    BY <2>1
  <2> HIDE DEF id
  <2>3. /\ Stored(G)
        /\ \A e \in F : \E f \in G : Renumbers(f, e, id, m)
        /\ \A f \in G : \E e \in F : Renumbers(f, e, id, m)
    BY <2>2, UpdateStored
  <2> QED BY <2>1, <2>3
<1> HIDE DEF id
<1>4. \A i \in DOMAIN r.list : Has(q, i) <=> Has(r, i)
  <2> SUFFICES ASSUME NEW i \in DOMAIN r.list PROVE Has(q, i) <=> Has(r, i)
    OBVIOUS
  <2>1. i < k + 1 /\ ~(i < k) => i = k
    BY <1>1, <1>2
  <2> QED BY <2>1 DEF Has, Onward, Removes
<1>5. ASSUME NEW e \in F, NEW f, Renumbers(f, e, id, k - 1), NEW i \in DOMAIN r.list, Fits(e, r, i)
      PROVE  Fits(f, q, i)
  <2>1. f.db = q.list[i].db /\ (q.list[i].id # None => f.id = q.list[i].id)
    BY <1>5 DEF Renumbers, Fits, Onward
  <2>2. CASE i = k
    <3>1. e.id = id
      BY <1>5, <2>2 DEF Fits, id
    <3> QED BY <2>1, <2>2, <3>1, <1>5 DEF Renumbers, Fits
  <2>3. CASE i # k
    <3>1. e.id # id
      BY <1>1, <1>5, <2>3, OtherKey DEF id
    <3>2. i < k + 1 => i < k
      BY <1>1, <1>2, <2>3
    <3> QED BY <2>1, <3>1, <3>2, <1>5 DEF Renumbers, Fits, Onward
  <2> QED BY <2>2, <2>3
<1>6. ASSUME NEW f \in G PROVE \E i \in DOMAIN q.list : Has(q, i) /\ Fits(f, q, i)
  <2>1. PICK e \in F : Renumbers(f, e, id, k - 1)
    BY <1>3
  <2>2. PICK i \in DOMAIN r.list : Has(r, i) /\ Fits(e, r, i)
    BY DEF SoFar
  <2> QED BY <2>1, <2>2, <1>4, <1>5 DEF Onward
<1>7. ASSUME NEW i \in DOMAIN q.list, Has(q, i) PROVE \E f \in G : Fits(f, q, i)
  <2>1. i \in DOMAIN r.list /\ Has(r, i)
    BY <1>4, <1>7 DEF Onward
  <2>2. PICK e \in F : Fits(e, r, i)
    BY <2>1 DEF SoFar
  <2>3. PICK f \in G : Renumbers(f, e, id, k - 1)
    BY <1>3
  <2> QED BY <2>1, <2>2, <2>3, <1>5
<1>8. ASSUME NEW i \in DOMAIN q.list, ~Has(q, i), NEW f \in G PROVE f.id # q.list[i].id
  <2>1. i \in DOMAIN r.list /\ ~Has(r, i) /\ q.list = r.list
    BY <1>4, <1>8 DEF Onward
  <2>2. PICK e \in F : Renumbers(f, e, id, k - 1)
    BY <1>3
  <2> QED BY <2>1, <2>2 DEF SoFar, Renumbers
<1>9. ASSUME NEW f \in G, NEW h \in G, f.db = h.db PROVE f = h
  <2>1. PICK d \in F : Renumbers(f, d, id, k - 1)
    BY <1>3
  <2>2. PICK e \in F : Renumbers(h, e, id, k - 1)
    BY <1>3
  <2>3. d = e
    BY <2>1, <2>2, <1>9 DEF Renumbers, SoFar
  <2> QED BY <2>1, <2>2, <2>3, <1>3 DEF Renumbers, Stored
<1> QED BY <1>6, <1>7, <1>8, <1>9 DEF SoFar

LEMMA InsertGoesOn ==
  ASSUME NEW F, Stored(F), NEW r, NEW q, Onward(q, r), r.list \in Seq(Entries), Once(r.list), ~Removes(r),
         SoFar(F, r), r.next \in 1..Len(r.list), r.list[r.next].id = None,
         NEW new \in Entries, new.id # None, new.db = r.list[r.next].db, new.index = r.next - 1
  PROVE  SoFar(F \cup {new}, q)
<1> DEFINE k == r.next
<1>1. k \in DOMAIN r.list /\ k \in Nat /\ k - 1 \in Nat
  OBVIOUS
<1>2. \A i \in DOMAIN r.list : i \in Nat
  OBVIOUS
<1>3. q.list = r.list /\ ~Removes(q) /\ q.next = k + 1
  BY DEF Onward, Removes
<1>4. Fits(new, q, k) /\ Has(q, k) /\ ~Has(r, k)
  BY <1>1, <1>3 DEF Fits, Has
<1>5. ASSUME NEW i \in DOMAIN r.list, i # k
      PROVE  (Has(q, i) <=> Has(r, i)) /\ \A e \in F : Fits(e, r, i) => Fits(e, q, i)
  <2>1. i < k + 1 <=> i < k
    BY <1>1, <1>2, <1>5
  <2> QED BY <2>1, <1>3 DEF Has, Fits
<1>6. ASSUME NEW e \in F PROVE \E i \in DOMAIN r.list : i # k /\ Has(r, i) /\ Fits(e, r, i)
  BY <1>4 DEF SoFar
<1>7. ASSUME NEW e \in F \cup {new} PROVE \E i \in DOMAIN q.list : Has(q, i) /\ Fits(e, q, i)
  <2>1. CASE e = new
    BY <2>1, <1>1, <1>3, <1>4
  <2>2. CASE e \in F
    BY <2>2, <1>3, <1>5, <1>6
  <2> QED BY <2>1, <2>2
<1>8. ASSUME NEW i \in DOMAIN q.list, Has(q, i) PROVE \E e \in F \cup {new} : Fits(e, q, i)
  <2>1. CASE i = k
    BY <2>1, <1>4
  <2>2. CASE i # k
    BY <2>2, <1>3, <1>5, <1>8 DEF SoFar
  <2> QED BY <2>1, <2>2
<1>9. ASSUME NEW i \in DOMAIN q.list, ~Has(q, i), NEW e \in F \cup {new} PROVE e.id # q.list[i].id
  <2>1. q.list[i].id = None
    BY <1>3, <1>9 DEF Has
  <2> QED BY <2>1 DEF Stored
<1>10. ASSUME NEW e \in F PROVE e.db # new.db
  BY <1>1, <1>6 DEF Fits, Once
<1>11. \A e, f \in F \cup {new} : e.db = f.db => e = f
  BY <1>10 DEF SoFar
<1> QED BY <1>7, <1>8, <1>9, <1>11 DEF SoFar

LEMMA DeleteGoesOn ==
  ASSUME NEW F, Stored(F), NEW r, NEW q, q.list = r.list, q.asked = r.asked, q.next = 1,
         r.list \in Seq(Entries), Once(r.list), Removes(r), Lists(r.list, F), First(r.list, r.asked.db) # 0
  PROVE  SoFar({e \in F : e.id # r.list[First(r.list, r.asked.db)].id}, q)
<1> DEFINE d == First(r.list, r.asked.db)
           G == {e \in F : e.id # r.list[d].id}
<1>1. d \in DOMAIN r.list /\ r.list[d].db = r.asked.db
  BY FirstIs
<1>2. \A i \in DOMAIN r.list : i \in Nat /\ ~(i < 1)
  OBVIOUS
<1> HIDE DEF d
<1>3. \A i \in DOMAIN r.list : Has(q, i) <=> i # d
  BY <1>1 DEF Has, Removes, Once
<1>4. \A i \in DOMAIN r.list : Fits(r.list[i], q, i)
  BY <1>2 DEF Fits
<1>5. \A i \in DOMAIN r.list : r.list[i] \in F
  BY DEF Lists
<1>6. \A i \in DOMAIN r.list : r.list[i].id = r.list[d].id => i = d
  BY <1>1, <1>5 DEF Stored, Once
<1>7. ASSUME NEW e \in G PROVE \E i \in DOMAIN q.list : Has(q, i) /\ Fits(e, q, i)
  BY <1>3, <1>4 DEF Lists
<1>8. ASSUME NEW i \in DOMAIN q.list, Has(q, i) PROVE \E e \in G : Fits(e, q, i)
  BY <1>3, <1>4, <1>5, <1>6, <1>8
<1>9. ASSUME NEW i \in DOMAIN q.list, ~Has(q, i), NEW e \in G PROVE e.id # q.list[i].id
  BY <1>3, <1>9
<1>10. \A e, f \in G : e.db = f.db => e = f
  BY DEF Lists, Once
<1>11. SoFar(G, q)
  BY <1>7, <1>8, <1>9, <1>10 DEF SoFar
<1> QED BY <1>11 DEF d

\* A list that is about to be written, of which nothing has been.
LEMMA ReadGoesOn ==
  ASSUME NEW F, Stored(F), NEW list, Lists(list, F), Once(list), NEW q, ~Removes(q), q.next = 1,
         q.list \in Seq(Entries), Within(list, q.list),
         \A j \in DOMAIN q.list : q.list[j].id # None => \E i \in DOMAIN list : q.list[j] = list[i]
  PROVE  SoFar(F, q)
<1>1. \A i \in DOMAIN q.list : i \in Nat /\ ~(i < 1)
  OBVIOUS
<1>2. \A i \in DOMAIN q.list : (Has(q, i) <=> q.list[i].id # None) /\ Fits(q.list[i], q, i)
  BY <1>1 DEF Has, Fits
<1>3. ASSUME NEW e \in F PROVE \E i \in DOMAIN q.list : Has(q, i) /\ Fits(e, q, i)
  <2>1. PICK i \in DOMAIN list : list[i] = e
    BY DEF Lists
  <2>2. PICK j \in DOMAIN q.list : q.list[j] = e
    BY <2>1 DEF Within
  <2> QED BY <2>2, <1>2 DEF Stored
<1>4. ASSUME NEW i \in DOMAIN q.list, Has(q, i) PROVE \E e \in F : Fits(e, q, i)
  BY <1>2, <1>4 DEF Lists
<1>5. ASSUME NEW i \in DOMAIN q.list, ~Has(q, i), NEW e \in F PROVE e.id # q.list[i].id
  BY <1>2, <1>5 DEF Stored
<1>6. \A e, f \in F : e.db = f.db => e = f
  BY DEF Lists, Once
<1> QED BY <1>3, <1>4, <1>5, <1>6 DEF SoFar

-----------------------------------------------------------------------------
(* An edit that is done.                                                   *)

\* What the list should be then.
Target(r) == IF Removes(r) THEN RemoveAt(r.list, First(r.list, r.asked.db)) ELSE r.list

\* The entries have one order, that of the list.
LEMMA WrittenOut ==
  ASSUME NEW F, Stored(F), NEW r, r.list \in Seq(Entries), Once(r.list), Planned(r), SoFar(F, r),
         r.next = Len(r.list) + 1
  PROVE  \E s \in Seq(F) : Orders(F) = {s} /\ Alike(Target(r), s)
<1> DEFINE n == Len(r.list)
           d == IF Removes(r) THEN First(r.list, r.asked.db) ELSE n + 1
           m == IF Removes(r) THEN n - 1 ELSE n
           At(i) == IF i < d THEN i ELSE i + 1
<1>1. n \in Nat /\ DOMAIN r.list = 1..n
  OBVIOUS
<1>2. Removes(r) => d \in 1..n /\ r.list[d].db = r.asked.db
  BY <1>1, FirstIs DEF Planned
<1>3. m \in Nat /\ d \in 1..(n + 1)
  BY <1>1, <1>2
<1>4. Target(r) \in Seq(Entries) /\ DOMAIN Target(r) = 1..m /\ \A i \in 1..m : Target(r)[i] = r.list[At(i)]
  <2>1. CASE Removes(r)
    <3>1. /\ Target(r) \in Seq(Entries) /\ Len(Target(r)) = n - 1
          /\ \A i \in 1..(n - 1) : Target(r)[i] = IF i < d THEN r.list[i] ELSE r.list[i + 1]
      BY <1>2, <2>1, RemovedAt DEF Target
    <3> QED BY <2>1, <3>1
  <2>2. CASE ~Removes(r)
    BY <2>2, <1>1 DEF Target
  <2> QED BY <2>1, <2>2
<1>5. ASSUME NEW i \in 1..m PROVE At(i) \in (1..n) \ {d} /\ At(i) \in Nat
  BY <1>1, <1>2, <1>3
<1>6. ASSUME NEW j \in (1..n) \ {d} PROVE \E i \in 1..m : At(i) = j
  <2>1. j < d => j \in 1..m /\ At(j) = j
    BY <1>1, <1>2, <1>3
  <2>2. ~(j < d) => j - 1 \in 1..m /\ At(j - 1) = j
    BY <1>1, <1>2, <1>3
  <2> HIDE DEF d, m, At
  <2> QED BY <2>1, <2>2
<1>7. \A i, j \in 1..m : i < j => At(i) < At(j)
  BY <1>1, <1>2, <1>3
<1>8. \A j \in 1..n : (Has(r, j) <=> j # d) /\ j < r.next
  <2>1. CASE Removes(r)
    BY <2>1, <1>1, <1>2 DEF Has, Once
  <2>2. CASE ~Removes(r)
    BY <2>2, <1>1 DEF Has
  <2> QED BY <2>1, <2>2
<1> HIDE DEF n, d, m, At
<1> DEFINE s == [i \in 1..m |-> CHOOSE e \in F : Fits(e, r, At(i))]
<1>9. ASSUME NEW i \in 1..m
      PROVE  /\ s[i] \in F /\ Fits(s[i], r, At(i)) /\ s[i].index = At(i) - 1
             /\ s[i].db = r.list[At(i)].db
  <2>1. At(i) \in DOMAIN r.list /\ Has(r, At(i)) /\ At(i) < r.next
    BY <1>1, <1>5, <1>8
  <2>2. \E e \in F : Fits(e, r, At(i))
    BY <2>1 DEF SoFar
  <2>3. s[i] \in F /\ Fits(s[i], r, At(i))
    BY <2>2
  <2> QED BY <2>1, <2>3 DEF Fits
<1>10. s \in Seq(F) /\ DOMAIN s = 1..m
  <2>1. s = [i \in 1..m |-> s[i]]
    OBVIOUS
  <2> HIDE DEF s
  <2>2. s \in [1..m -> F]
    BY <2>1, <1>9
  <2> QED BY <2>2, <1>3
<1> HIDE DEF s
<1>11. \A i \in DOMAIN s : s[i].index \in Nat
  <2>1. \A e \in F : e.index \in Nat
    BY DEF Stored, Entries
  <2> QED BY <2>1, <1>9, <1>10
<1>12. ASSUME NEW i \in DOMAIN s, NEW j \in DOMAIN s, i < j PROVE s[i].index < s[j].index
  <2>1. At(i) < At(j) /\ At(i) \in Nat /\ At(j) \in Nat
    BY <1>5, <1>7, <1>10, <1>12
  <2>2. s[i].index = At(i) - 1 /\ s[j].index = At(j) - 1
    BY <1>9, <1>10
  <2> QED BY ONLY <2>1, <2>2
<1>13. ASSUME NEW e \in F PROVE \E i \in DOMAIN s : s[i] = e
  <2>1. PICK j \in DOMAIN r.list : Has(r, j) /\ Fits(e, r, j)
    BY DEF SoFar
  <2>2. PICK i \in 1..m : At(i) = j
    BY <2>1, <1>1, <1>6, <1>8
  <2>3. s[i].db = e.db /\ s[i] \in F
    BY <2>1, <2>2, <1>9 DEF Fits
  <2> QED BY <2>3, <1>10 DEF SoFar
<1>14. Orders(F) = {s}
  BY <1>10, <1>11, <1>12, <1>13, OneOrder DEF Stored
<1>15. Alike(Target(r), s)
  BY <1>4, <1>9, <1>10 DEF Alike
<1> QED BY <1>10, <1>14, <1>15

\* A list that is like the target is what was asked for.
LEMMA TargetIsAsked ==
  ASSUME NEW F, NEW r, r.list \in Seq(Entries), r.asked.at \in Nat, Once(r.list), Once(r.before),
         Planned(r), NEW s \in Seq(F), Alike(Target(r), s)
  PROVE  /\ IsInjective(Names(s))
         /\ Keeps(r.before, s, r.asked.db) /\ Keeps(s, r.before, r.asked.db)
         /\ IF Removes(r) THEN First(s, r.asked.db) = 0
            ELSE First(s, r.asked.db) = Min({r.asked.at + 1, Len(s)})
<1> DEFINE t == Target(r)
           db == r.asked.db
<1>1. CASE Removes(r)
  <2>1. First(r.list, db) \in 1..Len(r.list) /\ r.list[First(r.list, db)].db = db /\ r.before = r.list
    <3>1. First(r.list, db) # 0 /\ DOMAIN r.list = 1..Len(r.list)
      BY <1>1 DEF Planned
    <3> QED BY <3>1, <1>1, FirstIs DEF Planned
  <2>2. t = RemoveAt(r.list, First(r.list, db))
    BY <1>1 DEF Target
  <2>3. Once(t) /\ Lacks(t, db) /\ Keeps(r.before, t, db) /\ Keeps(t, r.before, db)
    BY <2>1, <2>2, Pulled DEF Lacks
  <2>4. Once(s) /\ Keeps(r.before, s, db) /\ Keeps(s, r.before, db)
    BY <2>3, AlikeKeeps
  <2>5. \A i \in DOMAIN s : s[i].db # db
    BY <2>3 DEF Lacks, Alike
  <2>6. First(s, db) = 0
    BY <2>5, FirstIs
  <2> QED BY <1>1, <2>4, <2>6, OnceIsInjective
<1>2. CASE ~Removes(r)
  <2>1. t = r.list
    BY <1>2 DEF Target
  <2>2. /\ Once(t) /\ Keeps(r.before, t, db) /\ Keeps(t, r.before, db)
        /\ Spot(t, r.asked.at) \in DOMAIN t /\ t[Spot(t, r.asked.at)].db = db
    BY <1>2, <2>1 DEF Planned
  <2>3. Once(s) /\ Keeps(r.before, s, db) /\ Keeps(s, r.before, db)
    BY <2>2, AlikeKeeps
  <2>4. Len(s) = Len(t)
    <3>1. 1..Len(s) = 1..Len(t) /\ Len(s) \in Nat /\ Len(t) \in Nat
      BY <2>1 DEF Alike
    <3> QED BY <3>1
  <2>5. Spot(s, r.asked.at) = Spot(t, r.asked.at)
    BY <2>4 DEF Spot
  <2>6. Spot(s, r.asked.at) \in DOMAIN s /\ s[Spot(s, r.asked.at)].db = db
    BY <2>2, <2>5 DEF Alike
  <2>7. First(s, db) = Spot(s, r.asked.at)
    <3>1. First(s, db) # 0
      BY <2>6, FirstIs
    <3>2. First(s, db) \in DOMAIN s /\ s[First(s, db)].db = db
      BY <3>1, FirstIs
    <3> QED BY <2>3, <2>6, <3>2 DEF Once
  <2> QED BY <1>2, <2>3, <2>7, OnceIsInjective DEF Spot
<1> QED BY <1>1, <1>2

-----------------------------------------------------------------------------
(* The steps of the edits, and of the others.                              *)

EditSteps == {"read", "delete", "write"}

LEMMA AddedTyped ==
  ASSUME NEW s \in Seq(Entries), NEW db \in Dbs, NEW at \in Nat
  PROVE  Added(s, db, at) \in Seq(Entries) /\ Len(Added(s, db, at)) \in Nat \ {0}
<1> DEFINE here == {i \in DOMAIN s : s[i].db = db}
<1>1. ASSUME NEW m \in Seq(Entries), NEW x \in Entries
      PROVE  Spliced(m, at, x) \in Seq(Entries) /\ Len(Spliced(m, at, x)) \in Nat \ {0}
  <2>1. Place(m, at) \in 1..(Len(m) + 1) /\ Len(m) \in Nat
    BY DEF Place
  <2>2. Spliced(m, at, x) = InsertAt(m, Place(m, at), x)
    BY DEF Spliced, Place
  <2>3. Spliced(m, at, x) \in Seq(Entries) /\ Len(Spliced(m, at, x)) = Len(m) + 1
    BY <2>1, <2>2, InsertedAt
  <2> QED BY <2>1, <2>3
<1>2. CASE here = {}
  <2>1. [id |-> None, db |-> db, index |-> at] \in Entries
    BY DEF Entries, None
  <2>2. Added(s, db, at) = Spliced(s, at, [id |-> None, db |-> db, index |-> at])
    BY <1>2 DEF Added
  <2> QED BY <2>1, <2>2, <1>1
<1>3. CASE here # {}
  <2>1. DOMAIN s = 1..Len(s) /\ here \in SUBSET Nat
    OBVIOUS
  <2> HIDE DEF here
  <2>2. \E i \in here : \A j \in here : i <= j
    BY <1>3, <2>1, MinIsLeast
  <2>3. PICK d \in here : d = CHOOSE i \in here : \A j \in here : i <= j
    BY <2>2
  <2>4. d \in 1..Len(s)
    BY <2>1, <2>3 DEF here
  <2>5. RemoveAt(s, d) \in Seq(Entries) /\ s[d] \in Entries
    BY <2>4, RemovedAt
  <2>6. Added(s, db, at) = Spliced(RemoveAt(s, d), at, s[d])
    BY <1>3, <2>3 DEF Added, here
  <2> QED BY <2>5, <2>6, <1>1
<1> QED BY <1>2, <1>3

LEMMA InitListInv == CatalogInit => ListInv
<1> SUFFICES ASSUME CatalogInit
             PROVE  ListInv
  OBVIOUS
<1>1. PICK list \in Listed : featured = {[id |-> i, db |-> list[i], index |-> i - 1] : i \in DOMAIN list}
  BY DEF CatalogInit
<1>2. DOMAIN list = 1..Len(list) /\ Len(list) \in Nat
  BY EditsAssumption
<1>3. \A i \in DOMAIN list : list[i] \in Dbs
  BY DEF Dbs
<1> DEFINE f == [i \in DOMAIN list |-> [id |-> i, db |-> list[i], index |-> i - 1]]
<1>4. f \in Surjection(DOMAIN list, featured)
  BY <1>1 DEF Surjection
<1>5. IsFiniteSet(DOMAIN list)
  <2>1. 1 \in Int /\ Len(list) \in Int
    BY <1>2
  <2> QED BY <2>1, <1>2, FS_Interval
<1>6. IsFiniteSet(featured)
  BY <1>4, <1>5, FS_Surjection
<1>7. Stored(featured)
  BY <1>1, <1>2, <1>3, <1>6 DEF Stored, Entries, None
<1>8. \A w \in Workers : request[w].pc = "idle"
  BY DEF CatalogInit, Init, Idle
<1> QED BY <1>7, <1>8 DEF ListInv

\* What is true of an edit stays true if nobody writes, or if it is disturbed.
LEMMA EditStays ==
  ASSUME NEW F, NEW G, NEW r, EditFacts(F, r), r.overlaps \/ G = F
  PROVE  EditFacts(G, r)
  BY DEF EditFacts, Undisturbed

\* A step of one worker, that writes only if it is an edit's.
LEMMA EditMoved ==
  ASSUME IInv, ListInv, NEW w \in Workers, NEW q, request' = [request EXCEPT ![w] = q],
         featured' # featured => request[w].pc \in EditSteps,
         Stored(featured'), q.pc \in EditSteps => EditFacts(featured', q)
  PROVE  ListInv'
<1>1. \A o \in Workers : request'[o] = IF o = w THEN q ELSE request[o]
  BY DEF IInv, TypeOK
<1>2. ASSUME NEW o \in Workers, NEW r, r = request'[o], r.pc \in EditSteps
      PROVE  EditFacts(featured', r)
  <2>1. CASE o = w
    BY <2>1, <1>1, <1>2
  <2>2. CASE o # w
    <3>1. r = request[o]
      BY <2>2, <1>1, <1>2
    <3>2. EditFacts(featured, r)
      BY <3>1, <1>2 DEF ListInv, EditSteps
    <3>3. CASE featured' = featured
      BY <3>2, <3>3
    <3>4. CASE featured' # featured
      <4>1. request[w].pc \in EditSteps
        BY <3>4
      <4>2. EditFacts(featured, request[w])
        BY <4>1 DEF ListInv, EditSteps
      <4>3. request[w].about = List /\ r.about = List
        BY <3>2, <4>2 DEF EditFacts, EditRequests
      <4>4. Busy(w) /\ Busy(o)
        BY <3>1, <4>1, <1>2 DEF Busy, EditSteps
      <4>5. r.overlaps
        BY <2>2, <3>1, <4>3, <4>4 DEF IInv, Noticed
      <4> QED BY <3>2, <4>5, EditStays
    <3> QED BY <3>3, <3>4
  <2> QED BY <2>1, <2>2
<1> QED BY <1>2 DEF ListInv, EditSteps

\* A worker at a step of an edit works on one, whose facts hold.
LEMMA EditKnown ==
  ASSUME ListInv, NEW w \in Workers, NEW r, r = request[w], r.pc \in EditSteps
  PROVE  EditFacts(featured, r) /\ Stored(featured)
  BY DEF ListInv, EditSteps

LEMMA EditTyped ==
  ASSUME NEW r \in EditRequests
  PROVE  r.asked.at \in Nat /\ r.asked.db \in Dbs /\ r.asked.edit \in {"add", "remove"}
  BY EditsAssumption DEF EditRequests, Dbs

\* What is read is a list of entries with keys.
LEMMA ReadList ==
  ASSUME Stored(featured), NEW list \in Orders(featured)
  PROVE  list \in Seq(Entries) /\ Lists(list, featured) /\ \A i \in DOMAIN list : list[i].id # None
<1>1. list \in Seq(featured) /\ \A e \in featured : \E i \in DOMAIN list : list[i] = e
  BY OrderedList DEF Stored
<1>2. \A i \in DOMAIN list : list[i] \in featured
  BY <1>1
<1>3. list \in Seq(Entries)
  BY <1>1, <1>2 DEF Stored
<1> QED BY <1>1, <1>2, <1>3 DEF Lists, Stored

LEMMA ReadKeeps ==
  ASSUME IInv, ListInv, NEW w \in Workers, Read(w)
  PROVE  ListInv'
<1> PICK r : r = request[w]
  OBVIOUS
<1>1. r.pc = "read" /\ featured' = featured
  BY DEF Read, Under
<1>2. EditFacts(featured, r) /\ Stored(featured)
  BY <1>1, EditKnown DEF EditSteps
<1>3. r \in EditRequests /\ r.next = 1
  BY <1>1, <1>2 DEF EditFacts, Ready
<1>4. PICK list \in Orders(featured) :
        IF Removes(r)
          THEN IF First(list, r.asked.db) = 0 THEN Goes(w, "refused", r)
               ELSE Goes(w, "delete", [r EXCEPT !.list = list, !.before = list])
          ELSE IF Stays(list, r.asked.db, r.asked.at)
               THEN Goes(w, "listed", [r EXCEPT !.before = list, !.kept = TRUE])
               ELSE Goes(w, "write", [r EXCEPT !.list = Added(list, r.asked.db, r.asked.at), !.before = list])
  BY Zenon DEF Read, Go, Removes
<1>5. list \in Seq(Entries) /\ Lists(list, featured) /\ \A i \in DOMAIN list : list[i].id # None
  BY <1>2, ReadList
<1>6. ASSUME Goes(w, "refused", r) \/ Goes(w, "listed", [r EXCEPT !.before = list, !.kept = TRUE])
      PROVE  ListInv'
  <2>1. PICK q : /\ request' = [request EXCEPT ![w] = q]
                 /\ \/ q = [r EXCEPT !.pc = "refused"]
                    \/ q = [[r EXCEPT !.before = list, !.kept = TRUE] EXCEPT !.pc = "listed"]
    BY <1>6, Zenon DEF Goes
  <2>2. q.pc \in {"refused", "listed"}
    BY ONLY <2>1, <1>3 DEF EditRequests
  <2>3. q.pc \notin EditSteps
    BY <2>2 DEF EditSteps
  <2> QED BY <2>1, <2>3, <1>1, <1>2, EditMoved
<1>7. ASSUME Removes(r), First(list, r.asked.db) # 0,
             Goes(w, "delete", [r EXCEPT !.list = list, !.before = list])
      PROVE  ListInv'
  <2>1. PICK q : /\ request' = [request EXCEPT ![w] = q]
                 /\ q = [[r EXCEPT !.list = list, !.before = list] EXCEPT !.pc = "delete"]
    BY <1>7, Zenon DEF Goes
  <2>2. /\ q \in EditRequests /\ q.pc = "delete" /\ q.list = list /\ q.before = list
        /\ q.asked = r.asked /\ q.next = 1
    BY ONLY <2>1, <1>3, <1>5 DEF EditRequests
  <2>3. EditFacts(featured, q)
    BY <2>2, <1>5, <1>7 DEF EditFacts, Ready, Removes, Current
  <2> QED BY <2>1, <2>3, <1>1, <1>2, EditMoved
<1>8. ASSUME ~Removes(r),
             Goes(w, "write", [r EXCEPT !.list = Added(list, r.asked.db, r.asked.at), !.before = list])
      PROVE  ListInv'
  <2>1. PICK new : new = Added(list, r.asked.db, r.asked.at)
    OBVIOUS
  <2>2. new \in Seq(Entries) /\ Len(new) \in Nat \ {0}
    BY <2>1, <1>3, <1>5, EditTyped, AddedTyped
  <2>3. PICK q : /\ request' = [request EXCEPT ![w] = q]
                 /\ q = [[r EXCEPT !.list = new, !.before = list] EXCEPT !.pc = "write"]
    BY <1>8, <2>1, Zenon DEF Goes
  <2>4. /\ q \in EditRequests /\ q.pc = "write" /\ q.list = new /\ q.before = list
        /\ q.asked = r.asked /\ q.next = 1
    BY ONLY <2>3, <2>2, <1>3, <1>5 DEF EditRequests
  <2>5. Ready(q) /\ ~Removes(q)
    BY <2>2, <2>4, <1>5, <1>8 DEF Ready, Removes
  <2>6. ASSUME Once(list)
        PROVE  Planned(q) /\ SoFar(featured, q)
    <3>1. /\ Once(new) /\ Keeps(list, new, r.asked.db) /\ Keeps(new, list, r.asked.db)
          /\ Spot(new, r.asked.at) \in DOMAIN new /\ new[Spot(new, r.asked.at)].db = r.asked.db
          /\ Within(list, new)
          /\ \A j \in DOMAIN new : new[j].id # None => \E i \in DOMAIN list : new[j] = list[i]
      <4>1. PICK db \in Dbs, at \in Nat : db = r.asked.db /\ at = r.asked.at
        BY <1>3, EditTyped
      <4>2. list \in Seq(Entries) /\ Once(list) /\ new = Added(list, db, at)
        BY <2>1, <2>6, <1>5, <4>1
      <4>3. PlanOf(list, new, db, at)
        BY ONLY <4>2, AddedIs
      <4> QED BY <4>1, <4>3 DEF PlanOf
    <3>2. Planned(q)
      BY <3>1, <2>4, <2>5 DEF Planned
    <3>3. SoFar(featured, q)
      <4>1. /\ q.list \in Seq(Entries) /\ q.next = 1 /\ Within(list, q.list)
            /\ \A j \in DOMAIN q.list : q.list[j].id # None => \E i \in DOMAIN list : q.list[j] = list[i]
        BY ONLY <3>1, <2>2, <2>4
      <4> QED BY ONLY <4>1, <2>5, <2>6, <1>2, <1>5, ReadGoesOn
    <3> QED BY <3>2, <3>3
  <2>7. EditFacts(featured, q)
    BY <2>4, <2>5, <2>6 DEF EditFacts, Current, Undisturbed
  <2> QED BY <2>3, <2>7, <1>1, <1>2, EditMoved
<1> QED BY <1>4, <1>6, <1>7, <1>8

LEMMA DeleteKeeps ==
  ASSUME IInv, ListInv, NEW w \in Workers, Delete(w)
  PROVE  ListInv'
<1> PICK r : r = request[w]
  OBVIOUS
<1>1. r.pc = "delete" /\ featured' = {e \in featured : e.id # r.list[First(r.list, r.asked.db)].id}
  BY DEF Delete, Under
<1>2. EditFacts(featured, r) /\ Stored(featured)
  BY <1>1, EditKnown DEF EditSteps
<1>3. r \in EditRequests /\ r.next = 1 /\ Removes(r) /\ First(r.list, r.asked.db) # 0
      /\ \A i \in DOMAIN r.before : r.before[i].id # None
  BY <1>1, <1>2 DEF EditFacts, Ready
<1>4. PICK q : request' = [request EXCEPT ![w] = q] /\ q = [r EXCEPT !.pc = "write"]
  BY Zenon DEF Delete, Go, Goes
<1>5. /\ q \in EditRequests /\ q.pc = "write" /\ q.list = r.list /\ q.before = r.before
      /\ q.asked = r.asked /\ q.next = 1 /\ q.overlaps = r.overlaps
  BY ONLY <1>4, <1>3 DEF EditRequests
<1>6. Stored(featured')
  BY <1>1, <1>2, DeleteStored
<1>7. First(r.list, r.asked.db) \in DOMAIN r.list /\ r.list \in Seq(Entries)
  BY <1>3, FirstIs DEF EditRequests
<1>8. Ready(q)
  <2>1. Len(r.list) \in Nat /\ DOMAIN r.list = 1..Len(r.list)
    BY <1>7
  <2>2. 1 \in 1..Len(r.list)
    BY <2>1, <1>7
  <2> QED BY <2>2, <1>3, <1>5 DEF Ready
<1>9. ASSUME Undisturbed(q) PROVE Current(featured', q)
  <2>1. Once(r.list) /\ r.list = r.before /\ Lists(r.list, featured)
    BY <1>1, <1>2, <1>5, <1>9 DEF Undisturbed, EditFacts, Current
  <2>2. SoFar(featured', q)
    BY <2>1, <1>1, <1>2, <1>3, <1>5, <1>7, DeleteGoesOn
  <2>3. Planned(q)
    BY <2>1, <1>3, <1>5 DEF Planned, Removes
  <2> QED BY <2>2, <2>3, <1>5 DEF Current
<1>10. EditFacts(featured', q)
  BY <1>5, <1>8, <1>9 DEF EditFacts
<1>11. request[w].pc \in EditSteps
  BY <1>1 DEF EditSteps
<1> QED BY <1>4, <1>6, <1>10, <1>11, EditMoved

-----------------------------------------------------------------------------
(* A position is written.                                                  *)

LEMMA WriteTyped ==
  ASSUME ListInv, NEW w \in Workers, Write(w), NEW r, r = request[w]
  PROVE  /\ r \in EditRequests /\ r.pc = "write" /\ EditFacts(featured, r)
         /\ r.list \in Seq(Entries) /\ Len(r.list) \in Nat /\ r.next \in 1..Len(r.list)
         /\ r.next \in Nat /\ r.next - 1 \in Nat /\ r.list[r.next] \in Entries
<1>1. r.pc = "write"
  BY DEF Write, Under
<1>2. EditFacts(featured, r)
  BY <1>1, EditKnown DEF EditSteps
<1>3. r \in EditRequests /\ r.next \in 1..Len(r.list) /\ r.list \in Seq(Entries)
  BY <1>1, <1>2 DEF EditFacts, EditRequests, Ready
<1>4. Len(r.list) \in Nat /\ DOMAIN r.list = 1..Len(r.list)
  BY <1>3
<1>5. r.list[r.next] \in Entries
  BY <1>3, <1>4
<1> QED BY <1>1, <1>2, <1>3, <1>4, <1>5

\* Its list has no database twice, if it is not disturbed.
LEMMA PlannedOnce ==
  ASSUME NEW r, Planned(r), Undisturbed(r)
  PROVE  Once(r.list)
  BY DEF Planned, Undisturbed

\* One query writes one position, and the entries stay told apart.
LEMMA WriteEffect ==
  ASSUME ListInv, NEW w \in Workers, Write(w), NEW r, r = request[w], NEW q, Onward(q, r)
  PROVE  /\ Stored(featured')
         /\ Undisturbed(r) => SoFar(featured', q)
<1>1. /\ EditFacts(featured, r) /\ r.pc = "write" /\ r.list \in Seq(Entries)
      /\ r.next \in 1..Len(r.list) /\ r.next - 1 \in Nat /\ r.list[r.next] \in Entries
  BY WriteTyped
<1>2. Stored(featured)
  BY DEF ListInv
<1>3. Undisturbed(r) => Planned(r) /\ Once(r.list) /\ SoFar(featured, r)
  BY <1>1, PlannedOnce DEF EditFacts, Current
<1>4. CASE r.list[r.next].id = None
  <2>1. PICK new : new = [id |-> FreshId, db |-> r.list[r.next].db, index |-> r.next - 1]
    OBVIOUS
  <2>2. featured' = featured \cup {new}
    BY <1>4, <2>1, Zenon DEF Write
  <2>3. FreshId \in Nat \ {None} /\ \A e \in featured : e.id # FreshId
    BY <1>2, FreshIsNew
  <2>4. PICK id : id = FreshId
    OBVIOUS
  <2>5. r.list[r.next].db \in Dbs
    BY <1>1 DEF Entries
  <2>6. /\ new \in Entries /\ new.id # None /\ \A e \in featured : e.id # new.id
        /\ new.db = r.list[r.next].db /\ new.index = r.next - 1
    BY ONLY <2>1, <2>3, <2>4, <2>5, <1>1 DEF Entries
  <2>7. Stored(featured')
    BY ONLY <2>2, <2>6, <1>2, InsertStored
  <2>8. ASSUME Undisturbed(r) PROVE SoFar(featured', q)
    <3>1. ~Removes(r)
      <4>1. ASSUME Removes(r) PROVE r.list = r.before
        BY <4>1, <1>3, <2>8 DEF Planned
      <4>2. \A i \in DOMAIN r.before : r.before[i].id # None
        BY <1>1 DEF EditFacts, Ready
      <4>3. r.next \in DOMAIN r.list
        BY <1>1
      <4> QED BY <4>1, <4>2, <4>3, <1>4
    <3>2. Once(r.list) /\ SoFar(featured, r)
      BY <1>3, <2>8
    <3>3. Onward(q, r)
      OBVIOUS
    <3> QED BY ONLY <3>1, <3>2, <3>3, <1>1, <1>2, <1>4, <2>2, <2>6, InsertGoesOn
  <2> QED BY <2>7, <2>8
<1>5. CASE r.list[r.next].id # None
  <2>1. featured' = Renumbered(featured, r.list[r.next].id, r.next - 1)
    BY <1>5, Zenon DEF Write, Renumbered
  <2>2. PICK k \in Nat : k = r.next - 1
    BY <1>1
  <2>3. PICK id : id = r.list[r.next].id
    OBVIOUS
  <2>4. featured' = Renumbered(featured, id, k)
    BY <2>1, <2>2, <2>3
  <2>5. Stored(featured')
    BY ONLY <2>2, <2>4, <1>2, UpdateStored
  <2>6. ASSUME Undisturbed(r) PROVE SoFar(featured', q)
    <3>1. Once(r.list) /\ SoFar(featured, r)
      BY <1>3, <2>6
    <3>2. Onward(q, r)
      OBVIOUS
    <3> QED BY ONLY <3>1, <3>2, <1>1, <1>2, <1>5, <2>1, UpdateGoesOn
  <2> QED BY <2>5, <2>6
<1> QED BY <1>4, <1>5

\* What the request is then.
Written ==
  [pc : {"write", "listed"}, about : {List}, hit : {FALSE}, overlaps : BOOLEAN, asked : Edits,
   list : Seq(Entries), before : Seq(Entries), next : Nat, kept : {FALSE}]

LEMMA WriteMoves ==
  ASSUME ListInv, NEW w \in Workers, Write(w), NEW r, r = request[w]
  PROVE  \E q \in Written :
           /\ request' = [request EXCEPT ![w] = q]
           /\ q.pc = IF r.next = Len(r.list) THEN "listed" ELSE "write"
           /\ Onward(q, r) /\ q.before = r.before /\ q.overlaps = r.overlaps
<1>1. r \in EditRequests /\ r.next \in Nat
  BY WriteTyped
<1>2. PICK pc : pc = IF r.next = Len(r.list) THEN "listed" ELSE "write"
  OBVIOUS
<1>3. PICK q : request' = [request EXCEPT ![w] = q] /\ q = [[r EXCEPT !.next = @ + 1] EXCEPT !.pc = pc]
  BY <1>2, Zenon DEF Write, Goes
<1>4. q \in Written
  <2>1. PICK k \in Nat : k = r.next + 1
    BY <1>1
  <2>2. pc \in {"write", "listed"}
    BY <1>2
  <2>3. q = [r EXCEPT !.next = k, !.pc = pc]
    BY ONLY <1>1, <1>3, <2>1 DEF EditRequests
  <2> QED BY ONLY <2>1, <2>2, <2>3, <1>1 DEF EditRequests, Written
<1>5. /\ q.pc = pc /\ q.list = r.list /\ q.asked = r.asked /\ q.next = r.next + 1
      /\ q.before = r.before /\ q.overlaps = r.overlaps
  BY ONLY <1>1, <1>2, <1>3 DEF EditRequests
<1> QED BY <1>2, <1>3, <1>4, <1>5 DEF Onward

LEMMA WriteKeeps ==
  ASSUME IInv, ListInv, NEW w \in Workers, Write(w)
  PROVE  ListInv'
<1> PICK r : r = request[w]
  OBVIOUS
<1>1. /\ r \in EditRequests /\ r.pc = "write" /\ EditFacts(featured, r)
      /\ Len(r.list) \in Nat /\ r.next \in 1..Len(r.list) /\ r.next \in Nat
  BY WriteTyped
<1>2. PICK q \in Written :
        /\ request' = [request EXCEPT ![w] = q]
        /\ q.pc = IF r.next = Len(r.list) THEN "listed" ELSE "write"
        /\ Onward(q, r) /\ q.before = r.before /\ q.overlaps = r.overlaps
  BY WriteMoves
<1>3. Stored(featured') /\ (Undisturbed(r) => SoFar(featured', q))
  BY <1>2, WriteEffect
<1>4. ASSUME q.pc \in EditSteps PROVE EditFacts(featured', q)
  <2>1. q.pc = "write" /\ r.next # Len(r.list)
    BY <1>2, <1>4 DEF EditSteps
  <2>2. q \in EditRequests
    BY <1>2, <2>1 DEF EditRequests, Written
  <2>3. q.list = r.list /\ q.asked = r.asked /\ q.next = r.next + 1 /\ q.before = r.before
    BY <1>2 DEF Onward
  <2>4. q.next \in 1..Len(q.list)
    BY <1>1, <2>1, <2>3
  <2>5. Ready(q)
    BY <1>1, <2>1, <2>3, <2>4 DEF EditFacts, Ready
  <2>6. ASSUME Undisturbed(q) PROVE Current(featured', q)
    <3>1. Undisturbed(r)
      BY <1>2, <2>6 DEF Undisturbed
    <3>2. Planned(r)
      BY <1>1, <3>1 DEF EditFacts, Current
    <3>3. Planned(q)
      BY <3>2, <2>3 DEF Planned, Removes
    <3> QED BY <3>1, <3>3, <1>3, <2>1 DEF Current
  <2> QED BY <2>2, <2>5, <2>6 DEF EditFacts
<1>5. request[w].pc \in EditSteps
  BY <1>1 DEF EditSteps
<1> QED BY <1>2, <1>3, <1>4, <1>5, EditMoved

LEMMA EditFailsKeeps ==
  ASSUME IInv, ListInv, NEW w \in Workers, EditFails(w)
  PROVE  ListInv'
<1> PICK r : r = request[w]
  OBVIOUS
<1>1. r.pc \in EditSteps /\ featured' = featured
  BY DEF EditFails, EditSteps
<1>2. r \in EditRequests /\ Stored(featured)
  BY <1>1, EditKnown DEF EditFacts
<1>3. PICK q : request' = [request EXCEPT ![w] = q] /\ q = [[r EXCEPT !.hit = TRUE] EXCEPT !.pc = "refused"]
  BY Zenon DEF EditFails, Goes, Hit
<1>4. q.pc = "refused"
  BY ONLY <1>2, <1>3 DEF EditRequests
<1>5. q.pc \notin EditSteps
  BY <1>4 DEF EditSteps
<1> QED BY <1>1, <1>2, <1>3, <1>5, EditMoved

-----------------------------------------------------------------------------
(* What is not a step of an edit.                                          *)

\* A creation is no edit before its step, nor after it.
LEMMA CreateMoves ==
  ASSUME IInv, NEW w \in Workers, Create(w)
  PROVE  \E q : request' = [request EXCEPT ![w] = q] /\ q.pc \in Steps
<1>1. request[w].pc \in Steps
  BY DEF Create, Context, OrganizationExists, CreateOrganization, InstanceExists, CreateInstance, StartInstance,
         CreateUser, FindUser, InsertUser, ConnectUser, ResetRole, SavePassword, EnsureRole,
         DatabaseExists, InsertRow, CreateDatabase, EnsureDatabase, ReadBack,
         ConnectRest, EnsureSchema, GrantRest, StartRest, Under,
         Steps, Early, UserSteps, DatabaseSteps, RestSteps
<1>2. PICK r \in Creations : r = request[w]
  BY <1>1, Working
<1>3. ASSUME NEW m, "pc" \in DOMAIN m, NEW pc \in Steps, Goes(w, pc, m)
      PROVE  \E q : request' = [request EXCEPT ![w] = q] /\ q.pc \in Steps
  <2>1. PICK q : q = [m EXCEPT !.pc = pc] /\ request' = [request EXCEPT ![w] = q]
    BY <1>3, Zenon DEF Goes
  <2>2. q.pc = pc
    BY ONLY <1>3, <2>1
  <2> QED BY <2>1, <2>2
<1>4. ASSUME GiveUp(w, r) \/ GiveUp(w, Hit(r)) \/ Goal(w, r)
      PROVE  \E q : request' = [request EXCEPT ![w] = q] /\ q.pc \in Steps
  <2>1. \E n : request' = [request EXCEPT ![w] = n] /\ n \in Creations
    BY <1>4, GivesUp DEF Becomes, Suffers
  <2> QED BY <2>1 DEF Creations
<1> DEFINE Edited(m, x, y) ==
             \/ m = r \/ m = [r EXCEPT !.hit = TRUE]
             \/ m = [r EXCEPT !.row = x] \/ m = [r EXCEPT !.instance = x]
             \/ m = [r EXCEPT !.neighbour = x] \/ m = [r EXCEPT !.asked.org = x]
             \/ m = [r EXCEPT !.row = x, !.instance = y]
             \/ m = [r EXCEPT !.con = x] \/ m = [[r EXCEPT !.hit = TRUE] EXCEPT !.con = x]
             \/ m = [[r EXCEPT !.con = x] EXCEPT !.hit = TRUE]
             \/ m = [r EXCEPT !.target = x, !.key = y, !.user = "authenticator"]
           Gone == \E m, x, y, pc : Edited(m, x, y) /\ pc \in Steps /\ Goes(w, pc, m)
<1>5. \A m, x, y : Edited(m, x, y) => "pc" \in DOMAIN m
  BY ONLY <1>2 DEF Creations
<1>6. /\ Early \cup UserSteps \cup DatabaseSteps \cup RestSteps \subseteq Steps
      /\ {"created", "error"} \subseteq Steps
  BY DEF Steps
<1> USE <1>2, <1>6 DEF Go, Hit
<1>7. CASE ConnectUser(w) \/ CreateDatabase(w) \/ EnsureDatabase(w)
  <2>1. ASSUME NEW next \in Steps, Connects(w, next) PROVE Gone
    BY <2>1, Zenon DEF Connects
  <2>2. ASSUME NEW next \in Steps, MakesDatabase(w, next) PROVE Gone
    <3>1. PICK done : done = [r EXCEPT !.con = 0]
      OBVIOUS
    <3>2. Goes(w, next, done) \/ Goes(w, next, Hit(done))
      BY <2>2, <3>1 DEF MakesDatabase
    <3> QED BY <3>1, <3>2, Zenon
  <2>3. {"reset", "role", "create", "readBack", "ensure", "target"} \subseteq Steps
    BY DEF Steps, UserSteps, DatabaseSteps
  <2> HIDE DEF Gone
  <2>4. ASSUME ConnectUser(w) PROVE Gone
    BY <2>1, <2>3, <2>4 DEF ConnectUser
  <2>5. ASSUME CreateDatabase(w) \/ EnsureDatabase(w) PROVE Gone
    BY <2>1, <2>2, <2>3, <2>5 DEF CreateDatabase, EnsureDatabase
  <2>6. Gone
    BY <1>7, <2>4, <2>5
  <2> QED BY <2>6, <1>3, <1>5 DEF Gone
<1>8. CASE FindUser(w) \/ InsertUser(w) \/ ResetRole(w) \/ SavePassword(w) \/ EnsureRole(w)
  <2>1. FindUser(w) => GiveUp(w, Hit(r)) \/ Gone
    BY Zenon DEF FindUser, UserSteps
  <2>2. InsertUser(w) => GiveUp(w, r) \/ GiveUp(w, Hit(r)) \/ Gone
    BY Zenon DEF InsertUser, UserSteps
  <2>3. ResetRole(w) => GiveUp(w, r) \/ GiveUp(w, Hit(r)) \/ Gone
    BY Zenon DEF ResetRole, UserSteps
  <2>4. SavePassword(w) \/ EnsureRole(w) => GiveUp(w, r) \/ GiveUp(w, Hit(r)) \/ Goal(w, r)
    BY Zenon DEF SavePassword, EnsureRole
  <2> HIDE DEF Gone
  <2>5. CASE Gone
    BY <2>5, <1>3, <1>5 DEF Gone
  <2> QED BY <1>4, <1>8, <2>1, <2>2, <2>3, <2>4, <2>5
<1>9. ASSUME \/ Context(w) \/ OrganizationExists(w) \/ CreateOrganization(w)
             \/ InstanceExists(w) \/ CreateInstance(w) \/ StartInstance(w)
             \/ DatabaseExists(w) \/ InsertRow(w) \/ ReadBack(w)
             \/ ConnectRest(w) \/ EnsureSchema(w) \/ GrantRest(w) \/ StartRest(w)
      PROVE  Gone
  <2>1. CASE Context(w)
    BY <2>1, Zenon DEF Context, Early
  <2>2. CASE OrganizationExists(w)
    BY <2>2, Zenon DEF OrganizationExists, Early
  <2>3. CASE CreateOrganization(w)
    BY <2>3, Zenon DEF CreateOrganization, Early
  <2>4. CASE InstanceExists(w)
    BY <2>4, Zenon DEF InstanceExists, Early
  <2>5. CASE CreateInstance(w)
    BY <2>5, Zenon DEF CreateInstance, Early
  <2>6. CASE StartInstance(w)
    BY <2>6, Zenon DEF StartInstance, UserSteps
  <2>7. CASE DatabaseExists(w)
    BY <2>7, Zenon DEF DatabaseExists, DatabaseSteps
  <2>8. CASE InsertRow(w)
    BY <2>8, Zenon DEF InsertRow, DatabaseSteps
  <2>9. CASE ReadBack(w)
    BY <2>9, Zenon DEF ReadBack, DatabaseSteps
  <2>10. CASE ConnectRest(w)
    BY <2>10, Zenon DEF ConnectRest, UserSteps
  <2>11. CASE EnsureSchema(w)
    BY <2>11, Zenon DEF EnsureSchema, RestSteps
  <2>12. CASE GrantRest(w)
    BY <2>12, Zenon DEF GrantRest, RestSteps
  <2>13. CASE StartRest(w)
    BY <2>13, Zenon DEF StartRest
  <2> HIDE DEF Gone
  <2> QED BY <1>9, <2>1, <2>2, <2>3, <2>4, <2>5, <2>6, <2>7, <2>8, <2>9, <2>10, <2>11, <2>12, <2>13
<1> HIDE DEF Edited
<1> QED BY <1>3, <1>5, <1>7, <1>8, <1>9 DEF Create, CreateUser

LEMMA CreateKeeps ==
  ASSUME IInv, ListInv, NEW w \in Workers, Create(w), featured' = featured
  PROVE  ListInv'
<1>1. PICK q : request' = [request EXCEPT ![w] = q] /\ q.pc \in Steps
  BY CreateMoves
<1>2. q.pc \notin EditSteps
  BY <1>1 DEF Steps, Early, UserSteps, DatabaseSteps, RestSteps, EditSteps
<1>3. Stored(featured')
  BY DEF ListInv
<1> QED BY <1>1, <1>2, <1>3, EditMoved

\* A request arrives: the edits under way with it are disturbed, or not, and
\* are otherwise what they were.
LEMMA ReceiveKeeps ==
  ASSUME IInv, ListInv, NEW w \in Workers, NEW r, Receive(w, r), featured' = featured,
         \A told \in BOOLEAN : \A n :
           n = [r EXCEPT !.overlaps = told] /\ n.pc \in EditSteps => EditFacts(featured, n)
  PROVE  ListInv'
<1> PICK others : others = {o \in Workers \ {w} : Busy(o) /\ request[o].about = r.about}
  OBVIOUS
<1>1. PICK new : /\ new = [r EXCEPT !.overlaps = others # {}]
                 /\ request' = [o \in Workers |->
                      IF o = w THEN new
                      ELSE IF o \in others THEN [request[o] EXCEPT !.overlaps = TRUE] ELSE request[o]]
  BY Zenon DEF Receive
<1>2. ASSUME new.pc \in EditSteps PROVE EditFacts(featured, new)
  <2>1. PICK told \in BOOLEAN : told = (others # {})
    OBVIOUS
  <2>2. new = [r EXCEPT !.overlaps = told]
    BY <1>1, <2>1
  <2> QED BY <1>2, <2>2
<1>3. ASSUME NEW o \in Workers, NEW n, n = request'[o], n.pc \in EditSteps
      PROVE  EditFacts(featured, n)
  <2>1. CASE o = w
    BY <2>1, <1>1, <1>2, <1>3
  <2>2. CASE o \in others
    <3>1. o # w /\ Busy(o)
      BY <2>2
    <3>2. PICK old : old = request[o]
      OBVIOUS
    <3>3. n = [old EXCEPT !.overlaps = TRUE]
      BY <1>1, <1>3, <2>2, <3>1, <3>2
    <3>4. old \in Creations \/ Editing(old)
      BY <3>1, <3>2 DEF IInv, TypeOK, Busy, Over
    <3>5. n.pc = old.pc
      BY ONLY <3>3, <3>4, ToldKeeps
    <3>6. EditFacts(featured, old)
      BY <1>3, <3>2, <3>5, EditKnown
    <3>7. n \in EditRequests /\ n.pc = old.pc /\ n.list = old.list /\ n.before = old.before
          /\ n.asked = old.asked /\ n.next = old.next /\ n.overlaps
      BY ONLY <3>3, <3>6 DEF EditFacts, EditRequests
    <3>8. Ready(n)
      BY <3>6, <3>7 DEF EditFacts, Ready, Removes
    <3> QED BY <3>7, <3>8 DEF EditFacts, Undisturbed
  <2>3. CASE o # w /\ o \notin others
    <3>1. n = request[o]
      BY <1>1, <1>3, <2>3
    <3> QED BY <1>3, <3>1, EditKnown
  <2> QED BY <2>1, <2>2, <2>3
<1>4. Stored(featured)
  BY DEF ListInv
<1> QED BY <1>3, <1>4 DEF ListInv, EditSteps

LEMMA SendKeeps ==
  ASSUME IInv, ListInv, NEW w \in Workers, NEW asked \in Asked, Send(w, asked), featured' = featured
  PROVE  ListInv'
<1>1. PICK r : r = [pc |-> "context", about |-> Clean(asked.org), hit |-> FALSE, overlaps |-> FALSE,
                    asked |-> asked, instance |-> Nobody, row |-> Nobody, neighbour |-> FALSE,
                    user |-> "postgres", con |-> 0, target |-> Nobody, key |-> 0]
  OBVIOUS
<1>2. Receive(w, r)
  BY <1>1, Zenon DEF Send
<1>3. ASSUME NEW told \in BOOLEAN, NEW n, n = [r EXCEPT !.overlaps = told] PROVE n.pc \notin EditSteps
  BY ONLY <1>1, <1>3 DEF EditSteps
<1> QED BY <1>2, <1>3, ReceiveKeeps

LEMMA SendEditKeeps ==
  ASSUME IInv, ListInv, NEW w \in Workers, NEW edit \in Edits, SendEdit(w, edit)
  PROVE  ListInv'
<1>1. PICK r : r = [pc |-> "read", about |-> List, hit |-> FALSE, overlaps |-> FALSE, asked |-> edit,
                    list |-> << >>, before |-> << >>, next |-> 1, kept |-> FALSE]
  OBVIOUS
<1>2. Receive(w, r) /\ featured' = featured
  BY <1>1, Zenon DEF SendEdit
<1>3. ASSUME NEW told \in BOOLEAN, NEW n, n = [r EXCEPT !.overlaps = told] PROVE EditFacts(featured, n)
  <2>1. << >> \in Seq(Entries) /\ Len(<< >>) = 0
    OBVIOUS
  <2>2. n = [pc |-> "read", about |-> List, hit |-> FALSE, overlaps |-> told, asked |-> edit,
             list |-> << >>, before |-> << >>, next |-> 1, kept |-> FALSE]
    BY ONLY <1>1, <1>3
  <2>3. n \in EditRequests /\ n.pc = "read" /\ n.before = << >> /\ n.next = 1
    BY ONLY <2>1, <2>2, edit \in Edits DEF EditRequests
  <2>4. Ready(n)
    BY <2>1, <2>3 DEF Ready
  <2> QED BY <2>3, <2>4 DEF EditFacts, Current
<1> QED BY <1>2, <1>3, ReceiveKeeps

LEMMA CrashKeeps ==
  ASSUME IInv, ListInv, Crash, featured' = featured
  PROVE  ListInv'
<1>1. request' = [w \in Workers |-> IF Busy(w) THEN [pc |-> "lost"] ELSE request[w]]
  BY DEF Crash
<1>2. ASSUME NEW w \in Workers PROVE request'[w].pc \notin EditSteps
  <2>1. CASE Busy(w)
    BY <1>1, <2>1 DEF EditSteps
  <2>2. CASE ~Busy(w)
    <3>1. request'[w] = request[w]
      BY <1>1, <2>2
    <3> QED BY <2>2, <3>1 DEF Busy, EditSteps
  <2> QED BY <2>1, <2>2
<1>3. Stored(featured')
  BY DEF ListInv
<1> QED BY <1>2, <1>3 DEF ListInv, EditSteps

LEMMA StepListInv == IInv /\ ListInv /\ [CatalogNext]_vars => ListInv'
<1> SUFFICES ASSUME IInv, ListInv, [CatalogNext]_vars
             PROVE  ListInv'
  OBVIOUS
<1>1. ASSUME Next, featured' = featured
      PROVE  ListInv'
  <2>1. ASSUME NEW w \in Workers, NEW asked \in Asked, Send(w, asked) PROVE ListInv'
    BY <1>1, <2>1, SendKeeps
  <2>2. ASSUME NEW w \in Workers, Create(w) PROVE ListInv'
    BY <1>1, <2>2, CreateKeeps
  <2>3. ASSUME Crash PROVE ListInv'
    BY <1>1, <2>3, CrashKeeps
  <2> QED BY <1>1, <2>1, <2>2, <2>3 DEF Next
<1>2. ASSUME NEW w \in Workers, NEW edit \in Edits, SendEdit(w, edit) PROVE ListInv'
  BY <1>2, SendEditKeeps
<1>3. ASSUME NEW w \in Workers, Read(w) \/ Delete(w) \/ Write(w) \/ EditFails(w) PROVE ListInv'
  BY <1>3, ReadKeeps, DeleteKeeps, WriteKeeps, EditFailsKeeps
<1>4. CASE UNCHANGED vars
  BY <1>4 DEF vars, creationVars, ListInv
<1> QED BY <1>1, <1>2, <1>3, <1>4 DEF CatalogNext

-----------------------------------------------------------------------------
(* The theorems about the list.                                            *)

\* The entries of the list have keys of their own in every run, and an edit
\* that nobody disturbs has written what it says it has, and nothing else.
THEOREM AlwaysListInv == CatalogSpec => []ListInv
  BY InitListInv, AlwaysIInv, StepListInv, PTL DEF CatalogSpec

\* Only a query that writes ends an edit that is writing with success.
LEMMA OnlyWrites ==
  ASSUME IInv, ListInv, [CatalogNext]_vars, NEW w \in Workers,
         request[w].pc = "write", request'[w].pc = "listed"
  PROVE  Write(w)
<1>1. PICK r : r = request[w]
  OBVIOUS
<1>2. r \in EditRequests /\ Busy(w)
  BY <1>1, EditKnown DEF EditFacts, EditSteps, Busy
<1>3. ASSUME NEW o \in Workers, NEW m, Receive(o, m) PROVE FALSE
  <2>1. PICK others : others = {x \in Workers \ {o} : Busy(x) /\ request[x].about = m.about}
    OBVIOUS
  <2>2. ~Busy(o)
    BY <1>3 DEF Receive
  <2>3. PICK n : n = [r EXCEPT !.overlaps = TRUE]
    OBVIOUS
  <2>4. request'[w] = IF w \in others THEN n ELSE r
    BY <1>1, <1>2, <1>3, <2>1, <2>2, <2>3 DEF Receive
  <2>5. n.pc = r.pc
    BY ONLY <1>2, <2>3 DEF EditRequests
  <2> QED BY <1>1, <2>4, <2>5
<1>4. ASSUME NEW o \in Workers, NEW q, request' = [request EXCEPT ![o] = q] PROVE o = w /\ q.pc = "listed"
  BY <1>4 DEF IInv, TypeOK
<1>5. ASSUME NEW o \in Workers, Create(o) PROVE FALSE
  <2>1. PICK q : request' = [request EXCEPT ![o] = q] /\ q.pc \in Steps
    BY <1>5, CreateMoves
  <2> QED BY <1>4, <2>1 DEF Steps, Early, UserSteps, DatabaseSteps, RestSteps
<1>6. ASSUME Crash PROVE FALSE
  BY <1>1, <1>2, <1>6 DEF Crash
<1>7. ASSUME NEW o \in Workers, Read(o) \/ Delete(o) \/ Write(o) \/ EditFails(o) PROVE o = w
  <2>1. \E m, pc : Goes(o, pc, m)
    BY <1>7, Zenon DEF Read, Delete, Write, EditFails, Go
  <2>2. \E q : request' = [request EXCEPT ![o] = q]
    BY <2>1, Zenon DEF Goes
  <2> QED BY <2>2, <1>4
<1>8. ~Read(w) /\ ~Delete(w)
  BY DEF Read, Delete, Under
<1>9. ~EditFails(w)
  <2> SUFFICES ASSUME EditFails(w) PROVE FALSE
    OBVIOUS
  <2>1. PICK q : request' = [request EXCEPT ![w] = q] /\ q = [[r EXCEPT !.hit = TRUE] EXCEPT !.pc = "refused"]
    BY <1>1, Zenon DEF EditFails, Goes, Hit
  <2>2. q.pc = "refused"
    BY ONLY <1>2, <2>1 DEF EditRequests
  <2> QED BY <2>1, <2>2, <1>4
<1>10. ~UNCHANGED vars
  BY DEF vars, creationVars
<1>11. ASSUME NEW o \in Workers, NEW asked, Send(o, asked) PROVE FALSE
  <2>1. \E m : Receive(o, m)
    BY <1>11, Zenon DEF Send
  <2> QED BY <2>1, <1>3
<1>12. ASSUME NEW o \in Workers, NEW edit, SendEdit(o, edit) PROVE FALSE
  <2>1. \E m : Receive(o, m)
    BY <1>12, Zenon DEF SendEdit
  <2> QED BY <2>1, <1>3
<1> QED BY <1>5, <1>6, <1>7, <1>8, <1>9, <1>10, <1>11, <1>12 DEF CatalogNext, Next

\* An edit that is answered with success, that met neither a fault nor another
\* edit, and found no database in the list twice, leaves one order, no database
\* twice, the others as they were, and what it is about at its place, or gone.
THEOREM EditsDo == CatalogSpec => EditsTakeEffect
<1>1. ASSUME IInv, ListInv, [CatalogNext]_vars, NEW w \in Workers, Under(w, "write"),
             request'[w].pc = "listed", ~request[w].overlaps, IsInjective(Names(request[w].before))
      PROVE  LET r == request[w]
                 after == CHOOSE s \in Orders(featured') : TRUE IN
             /\ Orders(featured') = {after} /\ IsInjective(Names(after))
             /\ Keeps(r.before, after, r.asked.db) /\ Keeps(after, r.before, r.asked.db)
             /\ IF r.asked.edit = "remove" THEN First(after, r.asked.db) = 0
                ELSE First(after, r.asked.db) = Min({r.asked.at + 1, Len(after)})
  <2>1. Write(w)
    BY <1>1, OnlyWrites DEF Under
  <2>2. PICK r : r = request[w]
    OBVIOUS
  <2>3. /\ r \in EditRequests /\ r.pc = "write" /\ EditFacts(featured, r)
        /\ r.list \in Seq(Entries) /\ Len(r.list) \in Nat /\ r.next \in Nat
    BY <1>1, <2>1, <2>2, WriteTyped
  <2>4. PICK q \in Written :
          /\ request' = [request EXCEPT ![w] = q]
          /\ q.pc = IF r.next = Len(r.list) THEN "listed" ELSE "write"
          /\ Onward(q, r) /\ q.before = r.before /\ q.overlaps = r.overlaps
    BY <1>1, <2>1, <2>2, WriteMoves
  <2>5. request'[w] = q
    BY <2>4, <1>1 DEF IInv, TypeOK
  <2>6. r.next = Len(r.list)
    BY <2>4, <2>5, <1>1
  <2>7. q.list = r.list /\ q.asked = r.asked /\ q.next = Len(q.list) + 1 /\ q.before = r.before
    BY <2>4, <2>6 DEF Onward
  <2>8. Once(r.before)
    BY <1>1, <2>2, <2>3, OnceIsInjective DEF EditRequests
  <2>9. Undisturbed(r)
    BY <1>1, <2>2, <2>8 DEF Undisturbed
  <2>10. Planned(r)
    BY <2>3, <2>9 DEF EditFacts, Current
  <2>11. Planned(q) /\ Once(q.list) /\ Once(q.before)
    BY <2>7, <2>8, <2>9, <2>10, PlannedOnce DEF Planned, Removes
  <2>12. PICK F : F = featured' /\ Stored(F) /\ SoFar(F, q)
    BY <1>1, <2>1, <2>2, <2>4, <2>9, WriteEffect
  <2>13. q.list \in Seq(Entries) /\ q.asked.at \in Nat
    BY <2>3, <2>7, EditTyped
  <2>14. PICK s \in Seq(F) : Orders(F) = {s} /\ Alike(Target(q), s)
    BY ONLY <2>7, <2>11, <2>12, <2>13, WrittenOut
  <2>15. /\ IsInjective(Names(s))
         /\ Keeps(q.before, s, q.asked.db) /\ Keeps(s, q.before, q.asked.db)
         /\ IF Removes(q) THEN First(s, q.asked.db) = 0
            ELSE First(s, q.asked.db) = Min({q.asked.at + 1, Len(s)})
    BY ONLY <2>11, <2>13, <2>14, TargetIsAsked
  <2>16. (CHOOSE x \in Orders(featured') : TRUE) = s
    BY <2>12, <2>14
  <2> QED BY <2>2, <2>7, <2>12, <2>14, <2>15, <2>16 DEF Removes
<1>2. IInv /\ ListInv /\ [CatalogNext]_vars =>
        [\A w \in Workers :
       LET r == request[w]
           after == CHOOSE s \in Orders(featured') : TRUE IN
       /\ Under(w, "write") /\ request'[w].pc = "listed" /\ ~r.hit /\ ~r.overlaps
       /\ IsInjective(Names(r.before))
       => /\ Orders(featured') = {after} /\ IsInjective(Names(after))
          /\ Keeps(r.before, after, r.asked.db) /\ Keeps(after, r.before, r.asked.db)
          /\ IF r.asked.edit = "remove" THEN First(after, r.asked.db) = 0
             ELSE First(after, r.asked.db) = Min({r.asked.at + 1, Len(after)})]_vars
  BY <1>1
<1> QED BY <1>2, AlwaysIInv, AlwaysListInv, PTL DEF CatalogSpec, EditsTakeEffect
=============================================================================
