---------------------------- MODULE StartInstance ----------------------------
(***************************************************************************)
(* AdminModel.startInstance of models/admin.js, for one instance in one    *)
(* process: callers that arrive during a start join it by awaiting the     *)
(* promise kept in instancesStarting[iid].  A flight is one entry of that  *)
(* table.  The callers are the three kinds of the code base: the pg proxy  *)
(* and ensureDatabase ("gateway": no PostgREST, await response.instance),  *)
(* the HTTP proxy ("http": await response.pgrest) and the admin API        *)
(* ("api": answer at once).                                                *)
(*                                                                         *)
(* A step is one settling of a promise with every reaction to it, since    *)
(* reactions run before the event loop takes anything else.  A promise     *)
(* that rejects while nothing awaits it ends the process.                  *)
(***************************************************************************)
EXTENDS Naturals

CONSTANTS
  Callers,
  HealthFails,   \* whether the request to the health probe may fail
  DbFails,       \* whether getInstanceDatabases may fail
  StartFails     \* whether kubectl may fail in instance.start or pgRest.start

ASSUME FaultsAssumption ==
  HealthFails \in BOOLEAN /\ DbFails \in BOOLEAN /\ StartFails \in BOOLEAN

Kinds == {"gateway", "http", "api"}

VARIABLES
  caller,      \* what each caller awaits, or how it was answered
  kind,        \* what each caller is
  entry,       \* instancesStarting[iid] exists
  withRest,    \* opts.pgRest of the flight's leader
  attached,    \* response.instance has its reactions: the leader has returned
  work,        \* response.instance of the last flight
  rest,        \* response.pgrest of the last flight
  strayRest,   \* a pgrest promise of an earlier flight that nothing awaits
  starts,      \* runs of models.instance.start that are not over
  crashed      \* an unhandled rejection has ended the process

vars == <<caller, kind, entry, withRest, attached, work, rest, strayRest,
          starts, crashed>>

TypeOK ==
  /\ caller \in [Callers -> {"idle", "health", "databases", "instance",
                             "pgrest", "stray", "joined", "ok", "served",
                             "failed", "accepted"}]
  /\ kind \in [Callers -> Kinds]
  /\ entry \in BOOLEAN /\ withRest \in BOOLEAN /\ attached \in BOOLEAN
  /\ work \in {"none", "starting", "accepting", "ok", "failed"}
  /\ rest \in {"none", "running", "ok", "failed"}
  /\ strayRest \in BOOLEAN /\ starts \in Nat /\ crashed \in BOOLEAN

Init ==
  /\ caller = [c \in Callers |-> "idle"] /\ kind \in [Callers -> Kinds]
  /\ entry = FALSE /\ withRest = FALSE /\ attached = FALSE
  /\ work = "none" /\ rest = "none" /\ strayRest = FALSE
  /\ starts = 0 /\ crashed = FALSE

Waiting(c) ==
  caller[c] \in {"health", "databases", "instance", "pgrest", "stray",
                 "joined"}

\* Every caller in a status of `from' is answered with `answer'.
Answered(from, answer) ==
  [c \in Callers |-> IF caller[c] \in from THEN answer ELSE caller[c]]

NobodyAwaits(status) == \A c \in Callers : caller[c] # status

-----------------------------------------------------------------------------
(* A call, and the health check of the one who leads.                      *)

Join(c) ==
  /\ ~crashed /\ ~Waiting(c) /\ entry
  /\ caller' = [caller EXCEPT ![c] = "joined"]
  /\ UNCHANGED <<kind, entry, withRest, attached, work, rest, strayRest,
                 starts, crashed>>

\* variant: the table is not consulted
MayLeadAlways(c) == ~Waiting(c)

MayLead(c) == ~Waiting(c) /\ ~entry

Lead(c) ==
  /\ ~crashed /\ MayLead(c)
  /\ caller' = [caller EXCEPT ![c] = "health"]
  /\ entry' = TRUE /\ withRest' = (kind[c] # "gateway")
  /\ attached' = FALSE /\ work' = "none" /\ rest' = "none"
  /\ UNCHANGED <<kind, strayRest, starts, crashed>>

\* utils.getHealth rejects: the leader throws, the entry stays as it is.
HealthRejected(c) ==
  /\ ~crashed /\ HealthFails /\ caller[c] = "health"
  /\ caller' = [caller EXCEPT ![c] = "failed"]
  /\ UNCHANGED <<kind, entry, withRest, attached, work, rest, strayRest,
                 starts, crashed>>

\* variant: the entry is kept
RemoveEntryNot == UNCHANGED entry

RemoveEntry == entry' = FALSE

\* The probe says that the instance runs and its ports answer: resolveStart.
HealthAlive(c) ==
  /\ ~crashed /\ caller[c] = "health"
  /\ caller' = [Answered({"joined"}, "ok") EXCEPT ![c] = "ok"]
  /\ RemoveEntry
  /\ UNCHANGED <<kind, withRest, attached, work, rest, strayRest, starts,
                 crashed>>

\* It does not, or opts.force is set: models.instance.start is called, and
\* without PostgREST the leader returns at once.
HealthDown(c) ==
  /\ ~crashed /\ caller[c] = "health"
  /\ work' = "starting" /\ starts' = starts + 1
  /\ caller' = [caller EXCEPT ![c] = IF withRest THEN "databases"
                                     ELSE "instance"]
  /\ attached' = ~withRest
  /\ UNCHANGED <<kind, entry, withRest, rest, strayRest, crashed>>

\* getInstanceDatabases rejects: the leader throws, the entry stays, and
\* nothing will react to response.instance.
DatabasesRejected(c) ==
  /\ ~crashed /\ DbFails /\ caller[c] = "databases"
  /\ caller' = [caller EXCEPT ![c] = "failed"]
  /\ UNCHANGED <<kind, entry, withRest, attached, work, rest, strayRest,
                 starts, crashed>>

\* It resolves: PostgREST is started for each database, the reactions to
\* response.instance are attached, and the response goes to the caller.
DatabasesRead(c) ==
  /\ ~crashed /\ caller[c] = "databases"
  /\ rest' = "running" /\ attached' = TRUE
  /\ caller' = [caller EXCEPT ![c] = IF kind[c] = "http" THEN "pgrest"
                                     ELSE "accepted"]
  /\ UNCHANGED <<kind, entry, withRest, work, strayRest, starts, crashed>>

-----------------------------------------------------------------------------
(* The promises of a flight.                                               *)

\* PostgreSQL accepts connections; waitUntil finds out at its next attempt.
InstanceAccepts ==
  /\ ~crashed /\ work = "starting" /\ work' = "accepting"
  /\ starts' = starts - 1
  /\ UNCHANGED <<caller, kind, entry, withRest, attached, rest, strayRest,
                 crashed>>

\* response.instance resolves; if PostgREST has rejected before, rejectStart.
InstanceUp ==
  /\ ~crashed /\ work = "accepting" /\ work' = "ok"
  /\ IF attached /\ (~withRest \/ rest = "ok")
     THEN caller' = Answered({"joined", "instance"}, "ok") /\ RemoveEntry
          /\ UNCHANGED crashed
     ELSE IF attached /\ rest = "failed"
     THEN caller' = Answered({"joined"}, "failed") /\ RemoveEntry
          /\ crashed' = NobodyAwaits("joined")
     ELSE UNCHANGED <<caller, entry, crashed>>
  /\ UNCHANGED <<kind, withRest, attached, rest, strayRest, starts>>

MayFail == work = "starting"

\* response.instance rejects: rejectStart rejects the shared promise, which
\* nobody awaits if no caller has joined.
InstanceFails ==
  /\ ~crashed /\ StartFails /\ MayFail /\ work' = "failed"
  /\ starts' = starts - 1
  /\ IF attached
     THEN /\ caller' = [c \in Callers |->
               IF caller[c] \in {"joined", "instance"} THEN "failed"
               ELSE IF caller[c] = "pgrest" THEN "stray" ELSE caller[c]]
          /\ RemoveEntry
          /\ crashed' = NobodyAwaits("joined")
          /\ strayRest' = (strayRest \/ (rest = "running"
                                         /\ NobodyAwaits("pgrest")))
     ELSE crashed' = TRUE /\ UNCHANGED <<caller, entry, strayRest>>
  /\ UNCHANGED <<kind, withRest, attached, rest>>

\* variant: the reactions are attached with those to response.instance
ObservedAtOnce == attached

\* The reactions to response.pgrest are attached in the one to
\* response.instance.
RestObserved == work = "ok"

\* response.pgrest resolves, even while the instance does not answer yet:
\* waitForPgRestDb gives up after ten attempts and returns normally.  The
\* HTTP request that led awaits this promise alone and hears of PostgREST,
\* not of the instance.
RestUp ==
  /\ ~crashed /\ rest = "running" /\ work # "failed" /\ rest' = "ok"
  /\ IF RestObserved
     THEN /\ caller' = [c \in Callers |->
               IF caller[c] = "joined" THEN "ok"
               ELSE IF caller[c] = "pgrest" THEN "served" ELSE caller[c]]
          /\ RemoveEntry
     ELSE caller' = Answered({"pgrest"}, "served") /\ UNCHANGED entry
  /\ UNCHANGED <<kind, withRest, attached, work, strayRest, starts, crashed>>

\* response.pgrest rejects: rejectStart, if response.instance has resolved;
\* before that only an HTTP request that awaits it handles the rejection.
RestFails ==
  /\ ~crashed /\ StartFails /\ rest = "running" /\ work # "failed"
  /\ rest' = "failed"
  /\ IF work = "ok"
     THEN /\ caller' = Answered({"joined", "pgrest"}, "failed") /\ RemoveEntry
          /\ crashed' = NobodyAwaits("joined")
     ELSE /\ caller' = Answered({"pgrest"}, "failed") /\ UNCHANGED entry
          /\ crashed' = NobodyAwaits("pgrest")
  /\ UNCHANGED <<kind, withRest, attached, work, strayRest, starts>>

\* The pgrest promise of a flight that has failed settles after all.
StrayUp(c) ==
  /\ ~crashed /\ caller[c] = "stray"
  /\ caller' = [caller EXCEPT ![c] = "served"]
  /\ UNCHANGED <<kind, entry, withRest, attached, work, rest, strayRest,
                 starts, crashed>>

StrayFails(c) ==
  /\ ~crashed /\ StartFails /\ caller[c] = "stray"
  /\ caller' = [caller EXCEPT ![c] = "failed"]
  /\ UNCHANGED <<kind, entry, withRest, attached, work, rest, strayRest,
                 starts, crashed>>

StrayUnobserved ==
  /\ ~crashed /\ StartFails /\ strayRest /\ strayRest' = FALSE
  /\ crashed' \in BOOLEAN
  /\ UNCHANGED <<caller, kind, entry, withRest, attached, work, rest, starts>>

-----------------------------------------------------------------------------
Calls == \E c \in Callers : Join(c) \/ Lead(c)

Progress ==
  \/ \E c \in Callers :
       \/ HealthRejected(c) \/ HealthAlive(c) \/ HealthDown(c)
       \/ DatabasesRejected(c) \/ DatabasesRead(c)
       \/ StrayUp(c) \/ StrayFails(c)
  \/ InstanceAccepts \/ InstanceUp \/ InstanceFails
  \/ RestUp \/ RestFails \/ StrayUnobserved

Next == Calls \/ Progress

Spec == Init /\ [][Next]_vars

\* A request is answered or fails, a start that goes well ends.  Nobody has
\* to call again.
FairSpec == Spec /\ WF_vars(Progress)

-----------------------------------------------------------------------------
\* Two runs of models.instance.start that startInstance makes never overlap,
\* whoever calls and however the earlier flight ended.  (restoreInstance calls
\* models.instance.start itself, without the table: nothing is said of it.)
OneStart == starts <= 1

\* Whoever awaits the shared promise of a flight awaits one that is in the
\* table, where resolveStart and rejectStart will find it; and the flight has
\* at most one leader before its response is out.
FlightInTable ==
  /\ \A c \in Callers :
       caller[c] \in {"joined", "health", "databases"} => entry
  /\ \A c, d \in Callers :
       /\ caller[c] \in {"health", "databases"}
       /\ caller[d] \in {"health", "databases"}
       => c = d

\* The leader of the flight in the table has thrown before its reactions were
\* attached.
Abandoned ==
  entry /\ ~attached
    /\ \A c \in Callers : caller[c] \notin {"health", "databases"}

\* A leader that gets its answers from the health probe and the database sees
\* to it that whoever joined its flight is answered, however the start ends.
LedFlightEnds ==
  \A c \in Callers :
    (caller[c] = "joined") ~> (caller[c] # "joined" \/ crashed \/ Abandoned)

\* startInstance does what SingleFlight promises.
SF == INSTANCE SingleFlight WITH
        call <- [c \in Callers |->
                   IF Waiting(c) THEN "waiting"
                   ELSE IF caller[c] \in {"failed", "accepted", "served"}
                        THEN "over"
                   ELSE caller[c]],
        starting <- starts > 0

Implements == SF!Spec
=============================================================================
