--------------------------- MODULE InstanceLifecycle ---------------------------
(***************************************************************************)
(* The life of one instance: the state kept in its row of the admin        *)
(* database, its objects in Kubernetes, and the processes that change both *)
(* without a lock between them: the gateways and the admin API that start, *)
(* stop and restore it (models/admin.js, models/instance.js), the nightly  *)
(* sleepInstances, and the health probe, which starts again what the row   *)
(* says should run (models/health-probe.js).                               *)
(*                                                                         *)
(* A step of a process is the code between two awaits.  PostgREST's        *)
(* Deployment and Service are one object, for one database.  ARCHIVING and *)
(* ARCHIVE do not occur: BackupModel.archive and remoteArchive look the    *)
(* instance up by a context that does not exist, and throw before they     *)
(* change anything.                                                        *)
(***************************************************************************)
EXTENDS Naturals

CONSTANTS
  Gateways,  \* processes that only start instances
  Admins,    \* processes of the admin API and its cron
  Probe,     \* the health probe
  Crowded,   \* whether ten running instances may come before this one by name
  OthersFail,  \* whether the probe may fail at an instance before this one
  MaxFaults  \* bound: failed kubectl calls and queries, restarts, and pods
             \* that go down

Workers == Gateways \union Admins

ASSUME LifecycleAssumption ==
  /\ Probe \notin Workers /\ MaxFaults \in Nat
  /\ Crowded \in BOOLEAN /\ OthersFail \in BOOLEAN

Procs == Workers \union {Probe}

States == {"CREATING", "RUN", "STOPPING", "SLEEP", "RESTORING"}

VARIABLES
  row,          \* instance.state
  statefulset, service,  \* whether the objects of the instance exist
  ready,        \* the pod of the StatefulSet accepts connections
  rest,         \* PostgREST of the instance's database is deployed
  step,         \* what each process will do next in its operation
  target,       \* the state its instance.start will write, RUN by default
  restTask,     \* its pgRest.start is under way
  tcpStatus,    \* the probe's cache of the ports
  faults

clusterVars == <<statefulset, service, ready, rest>>
procVars    == <<step, target, restTask>>
vars == <<row, clusterVars, procVars, tcpStatus, faults>>

Steps == {"idle", "apply", "applyService", "setState", "wait",
          "deleteStatefulset", "deleteService", "setSleep", "deleteRest",
          "resources", "reapplyService", "listed", "running", "startRest"}

Ports == {"none", "dead", "alive"}

TypeOK ==
  /\ row \in States
  /\ statefulset \in BOOLEAN /\ service \in BOOLEAN
  /\ ready \in BOOLEAN /\ rest \in BOOLEAN
  /\ step \in [Procs -> Steps]
  /\ target \in [Procs -> {"RUN", "RESTORING"}]
  /\ restTask \in [Procs -> BOOLEAN]
  /\ tcpStatus \in [{"inst", "rest"} -> Ports]
  /\ faults \in 0 .. MaxFaults

\* A row that ensureDatabase has just inserted.
Init ==
  /\ row = "CREATING"
  /\ statefulset = FALSE /\ service = FALSE /\ ready = FALSE /\ rest = FALSE
  /\ step = [p \in Procs |-> "idle"] /\ target = [p \in Procs |-> "RUN"]
  /\ restTask = [p \in Procs |-> FALSE]
  /\ tcpStatus = [h \in {"inst", "rest"} |-> "none"]
  /\ faults = 0

\* A connection to instance.hostname needs the Service and a ready pod.
Accepting == statefulset /\ service /\ ready

\* Process p is at step s, and goes on with step t.
Goes(p, s, t) == step[p] = s /\ step' = [step EXCEPT ![p] = t]

Fault == faults < MaxFaults /\ faults' = faults + 1

-----------------------------------------------------------------------------
(* instance.start, run by startInstance, restoreInstance and ensureRunning *)

\* kubectl apply of the StatefulSet ...
ApplyStatefulset(p) ==
  /\ Goes(p, "apply", "applyService")
  /\ statefulset' = TRUE
  /\ UNCHANGED <<row, service, ready, rest, target, restTask, tcpStatus,
                 faults>>

\* ... and of the Service.
ApplyService(p) ==
  /\ Goes(p, "applyService", "setState")
  /\ service' = TRUE
  /\ UNCHANGED <<row, statefulset, ready, rest, target, restTask, tcpStatus,
                 faults>>

\* Either call throws, and kubectl.exec also throws when kubectl has done its
\* work and written to stderr: the operation ends here.
ApplyFails(p) ==
  /\ Fault
  /\ \/ Goes(p, "apply", "idle") /\ statefulset' \in {statefulset, TRUE}
        /\ UNCHANGED service
     \/ /\ Goes(p, "applyService", "idle")
           \/ Goes(p, "reapplyService", "idle")
        /\ service' \in {service, TRUE} /\ UNCHANGED statefulset
  /\ target' = [target EXCEPT ![p] = "RUN"]
  /\ UNCHANGED <<row, ready, rest, restTask, tcpStatus>>

\* setInstanceState; the probe's ensureRunning does not wait for the port.
SetState(p) ==
  /\ Goes(p, "setState", IF p = Probe THEN "idle" ELSE "wait")
  /\ row' = target[p]
  /\ target' = [target EXCEPT ![p] = "RUN"]
  /\ UNCHANGED <<clusterVars, restTask, tcpStatus, faults>>

\* waitUntil, which has no limit of attempts.  remoteRestore follows in
\* restoreInstance: the helper it calls throws before it changes anything.
Waited(p) ==
  /\ Goes(p, "wait", "idle") /\ Accepting
  /\ UNCHANGED <<row, clusterVars, target, restTask, tcpStatus, faults>>

\* pgRest.start of startInstance, which runs beside instance.start.
RestApplied(p) ==
  /\ restTask[p] /\ restTask' = [restTask EXCEPT ![p] = FALSE]
  /\ rest' = TRUE
  /\ UNCHANGED <<row, statefulset, service, ready, step, target, tcpStatus,
                 faults>>

RestApplyFails(p) ==
  /\ Fault
  /\ restTask[p] /\ restTask' = [restTask EXCEPT ![p] = FALSE]
  /\ rest' \in {rest, TRUE}
  /\ UNCHANGED <<row, statefulset, service, ready, step, target, tcpStatus>>

-----------------------------------------------------------------------------
(* The operations of the gateways and of the admin API.                    *)

Free(w) == step[w] = "idle" /\ ~restTask[w]

\* The health probe reads the row and answers with its cache of the ports.  A
\* port it knows nothing of is missing from the answer.
Healthy ==
  row = "RUN" /\ tcpStatus["inst"] = "alive" /\ tcpStatus["rest"] # "dead"

\* startInstance does nothing for an instance that is healthy, unless it is
\* forced; pgRest.start runs beside instance.start unless it is not asked for.
StartInstance(w, force, withRest) ==
  /\ Free(w) /\ (~Healthy \/ force)
  /\ Goes(w, "idle", "apply")
  /\ restTask' = [restTask EXCEPT ![w] = withRest]
  /\ UNCHANGED <<row, clusterVars, target, tcpStatus, faults>>

RestoreInstance(w) ==
  /\ Free(w) /\ Goes(w, "idle", "apply")
  /\ target' = [target EXCEPT ![w] = "RESTORING"]
  /\ UNCHANGED <<row, clusterVars, restTask, tcpStatus, faults>>

-----------------------------------------------------------------------------
(* stopInstance: instance.stop, then pgRest.stop.                          *)

SetStopping(w, from) ==
  /\ Goes(w, from, "deleteStatefulset")
  /\ row' = "STOPPING"
  /\ UNCHANGED <<clusterVars, target, restTask, tcpStatus, faults>>

StopInstance(w) == Free(w) /\ SetStopping(w, "idle")

DeleteStatefulset(w) ==
  /\ Goes(w, "deleteStatefulset", "deleteService")
  /\ statefulset' = FALSE /\ ready' = FALSE
  /\ UNCHANGED <<row, service, rest, target, restTask, tcpStatus, faults>>

DeleteService(w) ==
  /\ Goes(w, "deleteService", "setSleep")
  /\ service' = FALSE
  /\ UNCHANGED <<row, statefulset, ready, rest, target, restTask, tcpStatus,
                 faults>>

\* The state instance.stop ends with.
SleepState == "SLEEP"

SetSleep(w) ==
  /\ Goes(w, "setSleep", "deleteRest")
  /\ row' = SleepState
  /\ UNCHANGED <<clusterVars, target, restTask, tcpStatus, faults>>

DeleteRest(w) ==
  /\ Goes(w, "deleteRest", "idle")
  /\ rest' = FALSE
  /\ UNCHANGED <<row, statefulset, service, ready, target, restTask,
                 tcpStatus, faults>>

\* An error of any of the three deletions is logged and passed over.
DeleteFails(w) ==
  /\ Fault
  /\ \/ Goes(w, "deleteStatefulset", "deleteService")
     \/ Goes(w, "deleteService", "setSleep")
     \/ Goes(w, "deleteRest", "idle")
  /\ UNCHANGED <<row, clusterVars, target, restTask, tcpStatus>>

-----------------------------------------------------------------------------
(* sleepInstances: the list of running instances, and later, for each of   *)
(* them, the decision to stop it, to apply it with another priority, or to *)
(* leave it.                                                               *)

SleepInstances(w) ==
  /\ Free(w) /\ row = "RUN" /\ Goes(w, "idle", "resources")
  /\ UNCHANGED <<row, clusterVars, target, restTask, tcpStatus, faults>>

KeepRunning(w) ==
  /\ Goes(w, "resources", "idle")
  /\ UNCHANGED <<row, clusterVars, target, restTask, tcpStatus, faults>>

Reapply(w) ==
  /\ \/ /\ Goes(w, "resources", "reapplyService")
        /\ statefulset' = TRUE /\ UNCHANGED service
     \/ /\ Goes(w, "reapplyService", "idle")
        /\ service' = TRUE /\ UNCHANGED statefulset
  /\ UNCHANGED <<row, ready, rest, target, restTask, tcpStatus, faults>>

-----------------------------------------------------------------------------
(* The health probe.                                                       *)

\* variant: an answer stays in the cache when its service is gone
PortStatusKept(h, exists, answers) ==
  IF ~exists THEN {tcpStatus[h]} ELSE IF answers THEN {"alive"} ELSE {"dead"}

\* What checkAlive leaves in the cache: the port of each listed service is
\* tried, the entries of other services are deleted.  A service may go after
\* it was listed and before its port is tried, which makes a difference to
\* nobody but for PostgREST.
PortStatus(h, exists, answers) ==
  IF ~exists THEN (IF h = "rest" THEN {"none", "dead"} ELSE {"none"})
  ELSE IF answers THEN {"alive"} ELSE {"dead"}

\* checkAlive, and ensureRunning up to its list, unless it is running.  The
\* list has the first ten running instances by name.
CheckAlive ==
  /\ \E inst \in PortStatus("inst", service, Accepting),
        pgrest \in PortStatus("rest", rest, rest) :
       tcpStatus' = [inst |-> inst, rest |-> pgrest]
  /\ \/ row = "RUN" /\ Goes(Probe, "idle", "listed")
     \/ (row # "RUN" \/ step[Probe] # "idle" \/ Crowded) /\ UNCHANGED step
  /\ UNCHANGED <<row, clusterVars, target, restTask, faults>>

\* The loop of ensureRunning reaches the instance ...
ReachInstance ==
  /\ Goes(Probe, "listed", "running")
  /\ UNCHANGED <<row, clusterVars, target, restTask, tcpStatus, faults>>

\* ... or ends before, with an error of another instance or of a query for
\* this one: the catch is around the whole loop.
LoopEnds ==
  /\ Goes(Probe, "listed", "idle")
  /\ (OthersFail /\ UNCHANGED faults) \/ Fault
  /\ UNCHANGED <<row, clusterVars, target, restTask, tcpStatus>>

\* variant: only a port that was tried counts
StartsDead == tcpStatus["inst"] = "dead"

\* tcpStatus.inst[hostname]?.isAlive !== true
NeedsStart == tcpStatus["inst"] # "alive"

\* variant: only a port that was tried counts
RestStartsDead == tcpStatus["rest"] = "dead"

NeedsRest == tcpStatus["rest"] # "alive"

\* What the loop of ensureRunning does for the instance.
EnsureRunning ==
  /\ \/ NeedsStart /\ Goes(Probe, "running", "apply")
     \/ ~NeedsStart /\ NeedsRest /\ Goes(Probe, "running", "startRest")
     \/ ~NeedsStart /\ ~NeedsRest /\ Goes(Probe, "running", "idle")
  /\ UNCHANGED <<row, clusterVars, target, restTask, tcpStatus, faults>>

EnsureRest ==
  /\ Goes(Probe, "startRest", "idle")
  /\ \/ rest' = TRUE /\ UNCHANGED faults
     \/ Fault /\ UNCHANGED rest
  /\ UNCHANGED <<row, statefulset, service, ready, target, restTask,
                 tcpStatus>>

-----------------------------------------------------------------------------
(* Kubernetes, and restarts of the processes.                              *)

PodReady ==
  /\ statefulset /\ ~ready /\ ready' = TRUE
  /\ UNCHANGED <<row, statefulset, service, rest, procVars, tcpStatus,
                 faults>>

\* The pod is evicted, rescheduled or restarted.
PodDown ==
  /\ Fault
  /\ ready /\ ready' = FALSE
  /\ UNCHANGED <<row, statefulset, service, rest, procVars, tcpStatus>>

\* Whatever the process was doing is forgotten; so is the probe's cache.
Restart(p) ==
  /\ Fault
  /\ step' = [step EXCEPT ![p] = "idle"]
  /\ target' = [target EXCEPT ![p] = "RUN"]
  /\ restTask' = [restTask EXCEPT ![p] = FALSE]
  /\ IF p = Probe
     THEN tcpStatus' = [h \in {"inst", "rest"} |-> "none"]
     ELSE UNCHANGED tcpStatus
  /\ UNCHANGED <<row, clusterVars>>

-----------------------------------------------------------------------------
Requests ==
  \/ \E w \in Workers : \E force, withRest \in BOOLEAN :
       StartInstance(w, force, withRest)
  \/ \E a \in Admins :
       RestoreInstance(a) \/ StopInstance(a) \/ SleepInstances(a)

\* The next step of process p in the operation it is in.
Progress(p) ==
  \/ ApplyStatefulset(p) \/ ApplyService(p) \/ SetState(p) \/ Waited(p)
  \/ RestApplied(p)
  \/ DeleteStatefulset(p) \/ DeleteService(p) \/ SetSleep(p) \/ DeleteRest(p)
  \/ SetStopping(p, "resources") \/ Reapply(p) \/ KeepRunning(p)

\* The next step of ensureRunning.
Repair == ReachInstance \/ EnsureRunning \/ EnsureRest \/ Progress(Probe)

Faults ==
  \/ \E p \in Procs :
       ApplyFails(p) \/ RestApplyFails(p) \/ DeleteFails(p) \/ Restart(p)
  \/ PodDown \/ LoopEnds

Next ==
  \/ Requests \/ (\E w \in Workers : Progress(w))
  \/ CheckAlive \/ Repair \/ PodReady \/ Faults

Spec == Init /\ [][Next]_vars

\* A process that runs goes on with its operation, the probe checks again and
\* again, Kubernetes brings pods up.  Nobody has to call, nothing has to fail.
FairSpec ==
  /\ Spec
  /\ \A w \in Workers : WF_vars(Progress(w))
  /\ WF_vars(CheckAlive) /\ WF_vars(Repair) /\ WF_vars(PodReady)

-----------------------------------------------------------------------------
\* The probe gets as far as this instance, which its list of ten names and
\* the errors of instances before it may prevent.
Reached == step[Probe] = "running"

\* Whatever a race, a failed kubectl call or a restart has left behind: an
\* instance that the probe reaches again and again is brought back, if its row
\* goes on saying RUN.
RunIsRepaired ==
  []<>Reached => ((row = "RUN") ~> (Accepting \/ row # "RUN"))

\* The same for its PostgREST.
RestIsRepaired ==
  []<>Reached => ((row = "RUN") ~> (rest \/ row # "RUN"))

\* A process that waits for the port of an instance, without any limit, gets
\* on if the probe reaches the instance again and again, unless another
\* process takes the instance out of RUN meanwhile.
WaitEnds ==
  []<>Reached =>
    \A w \in Workers :
      (step[w] = "wait") ~> (step[w] # "wait" \/ row # "RUN")
=============================================================================
