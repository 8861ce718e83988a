------------------------------- MODULE Sweep -------------------------------
(***************************************************************************)
(* sleepInstances over several instances: the cron job and the requests to *)
(* the API list the running instances, one page of them, and put each to   *)
(* sleep or give it the priority its use deserves, one await at a time,    *)
(* while clients query, instances are started, and hours pass.             *)
(***************************************************************************)
EXTENDS InstanceResources, FiniteSets

CONSTANTS Count,       \* the instances are 1..Count, in the order of their names
          Level,       \* availability of each
          PageSize,    \* the limit of getInstances
          Sweepers,    \* sweeps that may run at the same time
          Cron,        \* the one the cron job starts
          Callers,     \* requests that start an instance or change its priority
          Ages,        \* the hours since the last event that are told apart
          Asked,       \* the priorities an administrator may ask for
          MaxUses,     \* bound on queries, starts and requests for a priority
          MaxFaults    \* bound on sweeps that an error ends

Instances == 1 .. Count
Appliers == Sweepers \cup Callers

ASSUME SweepAssumption ==
  /\ Count \in Nat /\ PageSize \in Nat \ {0} /\ Level \in [Instances -> Levels]
  /\ Cron \in Sweepers /\ Sweepers \cap Callers = {} /\ Ages \subseteq Nat /\ 0 \in Ages /\ IsFiniteSet(Ages)
  /\ Asked \subseteq Priorities /\ MaxUses \in Nat /\ MaxFaults \in Nat

None == -3     \* no pod

VARIABLES state,     \* RUN or SLEEP, the row of the instance
          prio,      \* priority_state of the row
          pod,       \* the priority class of the pod: Asleep is one without a class
          age,       \* hours since the last event, or Never
          used,      \* queried since the class of the pod was computed
          kube,      \* the apply each has under way: the class it computed, whether
                     \* the instance was queried, and another apply landed, since
          sweeper,   \* where each sweep is
          caller,    \* where each request is
          uses, faults

pods == <<pod, used, kube>>
vars == <<state, prio, age, pods, sweeper, caller, uses, faults>>

NoApply == [i |-> 0, class |-> None, used |-> FALSE, crossed |-> FALSE]
NoCall == [step |-> "idle", i |-> 0, run |-> FALSE]

Idle == [step |-> "idle", todo |-> {}, new |-> 0, listed |-> {}, calm |-> TRUE]
Running == {i \in Instances : state[i] = "RUN"}

\* All have just been started, each at some time after its last event.
Init ==
  /\ state = [i \in Instances |-> "RUN"]
  /\ prio = [i \in Instances |-> getMaxPriority(Level[i])]
  /\ age \in [Instances -> Ages \cup {Never}]
  /\ pod = [i \in Instances |-> getInstanceResources(Level[i], age[i])]
  /\ used = [i \in Instances |-> FALSE]
  /\ kube = [a \in Appliers |-> NoApply]
  /\ sweeper = [s \in Sweepers |-> Idle] /\ caller = [c \in Callers |-> NoCall]
  /\ uses = 0 /\ faults = 0

-----------------------------------------------------------------------------
(* instance.apply: the class of the pod is computed, and sent to           *)
(* Kubernetes an await later.                                              *)

Deserved(i) == getInstanceResources(Level[i], age[i])

\* variant: apply takes the priority of the row.
RowResources(a, i) ==
  kube' = [kube EXCEPT ![a] = [i |-> i, class |-> prio[i], used |-> FALSE, crossed |-> FALSE]]
\* getInstanceResources computes the class again, whatever the row says.
Resources(a, i) ==
  kube' = [kube EXCEPT ![a] = [i |-> i, class |-> Deserved(i), used |-> FALSE, crossed |-> FALSE]]

\* kubectl.apply: the class was computed before others landed, it may be.
Lands(a) ==
  LET k == kube[a]
  IN /\ pod' = [pod EXCEPT ![k.i] = k.class]
     /\ used' = [used EXCEPT ![k.i] = k.used]
     /\ kube' = [b \in Appliers |->
                   IF b = a THEN NoApply
                   ELSE IF kube[b].i = k.i THEN [kube[b] EXCEPT !.crossed = TRUE] ELSE kube[b]]

\* An error before it, or of the command, which may have been carried out.
Breaks(a) ==
  \/ kube' = [kube EXCEPT ![a] = NoApply] /\ UNCHANGED <<pod, used>>
  \/ kube[a].i # 0 /\ Lands(a)

-----------------------------------------------------------------------------
(* The sweep.                                                              *)

\* What happens beside a sweep is noted in its history variable calm.
Disturbed(f, others) ==
  [s \in Sweepers |-> IF s \in others /\ f[s].step # "idle" THEN [f[s] EXCEPT !.calm = FALSE]
                                                           ELSE f[s]]
Others(s) == Sweepers \ {s}

\* getInstances({state: RUN}): the first page by name, with the rows as they are.
Page == {[i |-> i, prio |-> prio[i]] :
           i \in {j \in Running : Cardinality({k \in Running : k < j}) < PageSize}}

\* The loop takes the rows in the order of their names.
Turn(s) == CHOOSE r \in sweeper[s].todo : \A q \in sweeper[s].todo : r.i <= q.i

\* It goes on to the next instance or is over.
After(s) == LET rest == sweeper[s].todo \ {Turn(s)}
            IN IF rest = {} THEN Idle
               ELSE [sweeper[s] EXCEPT !.todo = rest, !.step = "next", !.new = 0]
Advance(s) == sweeper' = Disturbed([sweeper EXCEPT ![s] = After(s)], Others(s))

\* variant: the loop considers every running instance but the last of the page.
ConsideredFewer == {r \in Page : Level[r.i] # "ALWAYS" /\ \E q \in Page : q.i > r.i}
\* The loop goes past those that are ALWAYS available without an await.
Considered == {r \in Page : Level[r.i] # "ALWAYS"}

List(s) ==
  /\ sweeper[s].step = "idle" /\ Considered # {}
  /\ sweeper' = [sweeper EXCEPT ![s] =
                   [Idle EXCEPT !.step = "next", !.todo = Considered,
                                !.listed = {r.i : r \in Considered},
                                !.calm = \A o \in Others(s) : sweeper[o].step = "idle"]]
  /\ UNCHANGED <<state, prio, age, pods, caller, uses, faults>>

\* The event of the instance is read; the listed row decides what comes next.
Decide(s) ==
  /\ sweeper[s].step = "next"
  /\ LET i == Turn(s).i
         new == Deserved(i)
     IN IF new = Turn(s).prio THEN Advance(s)
        ELSE sweeper' = [sweeper EXCEPT ![s].new = new,
                                        ![s].step = IF new = Asleep THEN "stop" ELSE "write"]
  /\ UNCHANGED <<state, prio, age, pods, caller, uses, faults>>

\* stopInstance, without the states it passes through.
Stop(s) ==
  /\ sweeper[s].step = "stop"
  /\ state' = [state EXCEPT ![Turn(s).i] = "SLEEP"]
  /\ pod' = [pod EXCEPT ![Turn(s).i] = None]
  /\ Advance(s)
  /\ UNCHANGED <<prio, age, used, kube, caller, uses, faults>>

\* variant: the row is written with the priority that was listed.
WriteListed(s) ==
  /\ sweeper[s].step = "write"
  /\ prio' = [prio EXCEPT ![Turn(s).i] = Turn(s).prio]
  /\ sweeper' = Disturbed([sweeper EXCEPT ![s].step = "resources"], Others(s))
  /\ UNCHANGED <<state, age, pods, caller, uses, faults>>
Write(s) ==
  /\ sweeper[s].step = "write"
  /\ prio' = [prio EXCEPT ![Turn(s).i] = sweeper[s].new]
  /\ sweeper' = Disturbed([sweeper EXCEPT ![s].step = "resources"], Others(s))
  /\ UNCHANGED <<state, age, pods, caller, uses, faults>>

Compute(s) ==
  /\ sweeper[s].step = "resources"
  /\ Resources(s, Turn(s).i)
  /\ sweeper' = [sweeper EXCEPT ![s].step = "apply"]
  /\ UNCHANGED <<state, prio, age, pod, used, caller, uses, faults>>

Apply(s) ==
  /\ sweeper[s].step = "apply"
  /\ Lands(s)
  /\ Advance(s)
  /\ UNCHANGED <<state, prio, age, caller, uses, faults>>

\* Nothing in the loop catches: an error at any await ends the whole sweep.
Fail(s) ==
  /\ sweeper[s].step # "idle" /\ faults < MaxFaults
  /\ faults' = faults + 1
  /\ Breaks(s)
  /\ sweeper' = Disturbed([sweeper EXCEPT ![s] = Idle], Others(s))
  /\ UNCHANGED <<state, prio, age, caller, uses>>

-----------------------------------------------------------------------------
(* What goes on beside it.                                                 *)

Beside == sweeper' = Disturbed(sweeper, Sweepers)
Counted == uses < MaxUses /\ uses' = uses + 1

\* A 'Q' message reaches a running instance: update_database_last_event.
Query(i) ==
  /\ Counted /\ state[i] = "RUN" /\ pod[i] # None
  /\ age' = [age EXCEPT ![i] = 0] /\ used' = [used EXCEPT ![i] = TRUE]
  /\ kube' = [a \in Appliers |-> IF kube[a].i = i THEN [kube[a] EXCEPT !.used = TRUE] ELSE kube[a]]
  /\ Beside
  /\ UNCHANGED <<state, prio, pod, caller, faults>>

\* instance.start: the row gets the highest priority, the pod what it
\* deserves, and only then the row says RUN.
Start(c, i) ==
  /\ Counted /\ caller[c].step = "idle" /\ state[i] = "SLEEP"
  /\ prio' = [prio EXCEPT ![i] = getMaxPriority(Level[i])]
  /\ caller' = [caller EXCEPT ![c] = [step |-> "resources", i |-> i, run |-> TRUE]]
  /\ Beside
  /\ UNCHANGED <<state, age, pods, faults>>

\* updatePriority, at the request of an administrator.
UpdatePriority(c, i, p, apply) ==
  /\ Counted /\ caller[c].step = "idle" /\ prio[i] # p
  /\ prio' = [prio EXCEPT ![i] = p]
  /\ caller' = IF apply
               THEN [caller EXCEPT ![c] = [step |-> "resources", i |-> i, run |-> FALSE]]
               ELSE caller
  /\ Beside
  /\ UNCHANGED <<state, age, pods, faults>>

CallComputes(c) ==
  /\ caller[c].step = "resources"
  /\ Resources(c, caller[c].i)
  /\ caller' = [caller EXCEPT ![c].step = "apply"]
  /\ UNCHANGED <<state, prio, age, pod, used, sweeper, uses, faults>>

CallApplies(c) ==
  /\ caller[c].step = "apply"
  /\ Lands(c)
  /\ caller' = IF caller[c].run THEN [caller EXCEPT ![c].step = "run"]
                                ELSE [caller EXCEPT ![c] = NoCall]
  /\ Beside
  /\ UNCHANGED <<state, prio, age, uses, faults>>

\* setInstanceState(RUN).
Runs(c) ==
  /\ caller[c].step = "run"
  /\ state' = [state EXCEPT ![caller[c].i] = "RUN"]
  /\ caller' = [caller EXCEPT ![c] = NoCall]
  /\ Beside
  /\ UNCHANGED <<prio, age, pods, uses, faults>>

CallFails(c) ==
  /\ caller[c].step # "idle" /\ faults < MaxFaults
  /\ faults' = faults + 1
  /\ Breaks(c)
  /\ caller' = [caller EXCEPT ![c] = NoCall]
  /\ Beside
  /\ UNCHANGED <<state, prio, age, uses>>

\* Hours pass without an event.
Older(a) == Min({b \in Ages : b > a})
Pass(i) ==
  /\ age[i] # Never /\ \E b \in Ages : b > age[i]
  /\ age' = [age EXCEPT ![i] = Older(@)]
  /\ Beside
  /\ UNCHANGED <<state, prio, pods, caller, uses, faults>>

Step(s) == Decide(s) \/ Stop(s) \/ Write(s) \/ Compute(s) \/ Apply(s)
Call(c) == CallComputes(c) \/ CallApplies(c) \/ Runs(c) \/ CallFails(c)

Next ==
  \/ \E s \in Sweepers : List(s) \/ Step(s) \/ Fail(s)
  \/ \E i \in Instances : Query(i) \/ Pass(i)
  \/ \E c \in Callers :
        \/ Call(c)
        \/ \E i \in Instances :
              \/ Start(c, i)
              \/ \E p \in Asked, apply \in BOOLEAN : UpdatePriority(c, i, p, apply)

\* The cron job starts a sweep again and again, and the awaits of a sweep
\* settle; time passes.
Fairness ==
  /\ WF_vars(List(Cron) \/ Step(Cron))
  /\ \A i \in Instances : WF_vars(Pass(i))

Spec == Init /\ [][Next]_vars /\ Fairness

-----------------------------------------------------------------------------
(* Properties.                                                             *)

TypeOK ==
  /\ state \in [Instances -> {"RUN", "SLEEP"}]
  /\ prio \in [Instances -> Priorities]
  /\ pod \in [Instances -> Priorities \cup {Asleep, None}]
  /\ age \in [Instances -> Ages \cup {Never}]
  /\ used \in [Instances -> BOOLEAN]
  /\ kube \in [Appliers -> [i : Instances \cup {0}, class : Priorities \cup {Asleep, None},
                            used : BOOLEAN, crossed : BOOLEAN]]
  /\ caller \in [Callers -> [step : {"idle", "resources", "apply", "run"},
                             i : Instances \cup {0}, run : BOOLEAN]]
  /\ sweeper \in [Sweepers -> [step : {"idle", "next", "stop", "write", "resources", "apply"},
                               todo : SUBSET [i : Instances, prio : Priorities],
                               new : Priorities \cup {Asleep},
                               listed : SUBSET Instances, calm : BOOLEAN]]
  /\ uses \in 0 .. MaxUses /\ faults \in 0 .. MaxFaults

\* However sweeps, starts and administrators interleave, the class of a pod
\* goes up only after a query: the thresholds of a level grow as its
\* priorities fall, and apply never uses the priority of the row.  Excepted is
\* an apply that another one on the instance overtook between computing its
\* class and landing: it may put back the class of an hour before.
Overtaken(i) == \E a \in Appliers : kube[a].i = i /\ kube[a].crossed /\ kube'[a].i = 0
PriorityFollowsUse ==
  [][\A i \in Instances :
        pod[i] # None /\ pod'[i] > pod[i] => used[i] \/ Overtaken(i)]_vars

\* A sweep that nothing disturbs leaves each instance it listed asleep when
\* it was idle for too long, and otherwise with the priority it deserves in its
\* row; the pod has it too, unless the row had it before.
Settled(i) == IF Deserved(i) = Asleep THEN state[i] = "SLEEP" ELSE prio[i] = Deserved(i)
SweepSettles ==
  [][\A s \in Sweepers :
        Step(s) /\ sweeper[s].calm /\ sweeper'[s].step = "idle" =>
           \A i \in sweeper[s].listed : Settled(i)']_vars

\* Those that no sweep ever stops, and that keep their place on the page.
Stays(i) == state[i] = "RUN" /\ (Level[i] = "ALWAYS" \/ age[i] = Never)

\* An instance that nobody uses is put to sleep in the end, as its row says, if
\* fewer than a page of running instances before it stay for ever.
IdleSleeps ==
  \A i \in Instances :
     <>[](\/ state[i] = "SLEEP" \/ Stays(i)
          \/ Cardinality({j \in 1 .. i - 1 : Stays(j)}) >= PageSize)

=============================================================================
