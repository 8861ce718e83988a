------------------------- MODULE StartInstance_proof -------------------------
(***************************************************************************)
(* startInstance never overlaps two starts of an instance, for any number  *)
(* of callers and whatever fails, and implements SingleFlight.  The        *)
(* argument: the table has the entry from the moment a caller leads until  *)
(* the start is over, so that nobody else can lead in between.             *)
(***************************************************************************)
EXTENDS StartInstance, TLAPS

\* How far the flight has come, as its leader's status tells.
LeaderStatus ==
  \A c \in Callers :
    /\ caller[c] = "health" => entry /\ work = "none"
    /\ caller[c] = "databases" =>
         /\ entry /\ work # "none" /\ withRest /\ ~attached /\ rest = "none"
    /\ caller[c] = "joined" => entry

\* The flight's parts come in this order: entry, work, attached, rest.
FlightOrder ==
  /\ work = "none" => ~attached /\ rest = "none"
  /\ rest # "none" => attached
  /\ starts = IF work = "starting" THEN 1 ELSE 0
  /\ work = "starting" => entry

IInv == TypeOK /\ LeaderStatus /\ FlightOrder /\ FlightInTable

-----------------------------------------------------------------------------
LEMMA InitIInv == Init => IInv
<1> SUFFICES ASSUME Init PROVE IInv
  OBVIOUS
<1>1. TypeOK
  BY DEF Init, TypeOK
<1>2. LeaderStatus /\ FlightOrder /\ FlightInTable
  BY DEF Init, LeaderStatus, FlightOrder, FlightInTable
<1> QED
  BY <1>1, <1>2 DEF IInv

LEMMA NextTypeOK ==
  ASSUME IInv, [Next]_vars
  PROVE  TypeOK'
<1> USE DEF IInv, TypeOK, RemoveEntry, Answered, NobodyAwaits, FlightOrder
<1>1. ASSUME NEW c \in Callers, Join(c) \/ Lead(c)
      PROVE  TypeOK'
  BY <1>1 DEF Join, Lead
<1>2. ASSUME NEW c \in Callers,
             HealthRejected(c) \/ HealthAlive(c) \/ HealthDown(c)
      PROVE  TypeOK'
  <2>1. CASE HealthRejected(c)
    BY <2>1 DEF HealthRejected
  <2>2. CASE HealthAlive(c)
    BY <2>2 DEF HealthAlive
  <2>3. CASE HealthDown(c)
    BY <2>3 DEF HealthDown
  <2> QED
    BY <1>2, <2>1, <2>2, <2>3
<1>3. ASSUME NEW c \in Callers, DatabasesRejected(c) \/ DatabasesRead(c)
      PROVE  TypeOK'
  BY <1>3 DEF DatabasesRejected, DatabasesRead
<1>4. ASSUME NEW c \in Callers, StrayUp(c) \/ StrayFails(c)
      PROVE  TypeOK'
  BY <1>4 DEF StrayUp, StrayFails
<1>5. CASE InstanceAccepts
  BY <1>5 DEF InstanceAccepts
<1>6. CASE InstanceUp
  BY <1>6 DEF InstanceUp
<1>7. CASE InstanceFails
  <2>1. CASE attached
    <3>1. caller' \in [Callers -> {"idle", "health", "databases", "instance",
                                   "pgrest", "stray", "joined", "ok",
                                   "served", "failed", "accepted"}]
      BY <1>7, <2>1 DEF InstanceFails
    <3>2. crashed' \in BOOLEAN /\ strayRest' \in BOOLEAN
      BY <1>7, <2>1 DEF InstanceFails
    <3>3. starts' = 0
      BY <1>7 DEF InstanceFails, MayFail
    <3>4. /\ kind' = kind /\ withRest' = withRest /\ attached' = attached
          /\ rest' = rest /\ work' = "failed" /\ entry' = FALSE
      BY <1>7, <2>1 DEF InstanceFails
    <3> HIDE DEF RemoveEntry, Answered, NobodyAwaits, FlightOrder
    <3> QED
      BY <3>1, <3>2, <3>3, <3>4
  <2>2. CASE ~attached
    BY <1>7, <2>2 DEF InstanceFails, MayFail
  <2> QED
    BY <2>1, <2>2
<1>8. CASE RestUp
  BY <1>8 DEF RestUp
<1>9. CASE RestFails
  BY <1>9 DEF RestFails
<1>10. CASE StrayUnobserved
  BY <1>10 DEF StrayUnobserved
<1>11. CASE UNCHANGED vars
  BY <1>11 DEF vars
<1> QED
  BY <1>1, <1>2, <1>3, <1>4, <1>5, <1>6, <1>7, <1>8, <1>9, <1>10, <1>11
     DEF Next, Calls, Progress

LEMMA NextIInv ==
  ASSUME IInv, [Next]_vars
  PROVE  IInv'
<1> DEFINE Rest == LeaderStatus /\ FlightOrder /\ FlightInTable
<1> USE DEF IInv, TypeOK, LeaderStatus, FlightOrder, FlightInTable,
            RemoveEntry, Answered
<1> SUFFICES Rest'
  BY NextTypeOK
<1>1. ASSUME NEW c \in Callers, Join(c)
      PROVE  Rest'
  BY <1>1 DEF Join, Waiting
<1>2. ASSUME NEW c \in Callers, Lead(c)
      PROVE  Rest'
  BY <1>2 DEF Lead, MayLead
<1>3. ASSUME NEW c \in Callers, HealthRejected(c)
      PROVE  Rest'
  BY <1>3 DEF HealthRejected
<1>4. ASSUME NEW c \in Callers, HealthAlive(c)
      PROVE  Rest'
  BY <1>4 DEF HealthAlive
<1>5. ASSUME NEW c \in Callers, HealthDown(c)
      PROVE  Rest'
  BY <1>5 DEF HealthDown
<1>6. ASSUME NEW c \in Callers, DatabasesRejected(c)
      PROVE  Rest'
  BY <1>6 DEF DatabasesRejected
<1>7. ASSUME NEW c \in Callers, DatabasesRead(c)
      PROVE  Rest'
  BY <1>7 DEF DatabasesRead
<1>8. ASSUME NEW c \in Callers, StrayUp(c) \/ StrayFails(c)
      PROVE  Rest'
  BY <1>8 DEF StrayUp, StrayFails
<1>9. CASE InstanceAccepts
  BY <1>9 DEF InstanceAccepts
\* The callers of a flight that is over have been answered.
<1>0. ASSUME NEW answer \in {"ok", "failed"}, attached, RemoveEntry,
              NEW from, "joined" \in from,
              caller' = Answered(from, answer), work' # "starting",
              UNCHANGED <<withRest, attached>>,
              work' # "none", rest' # "none" => attached,
              starts' = 0
       PROVE  Rest'
  <2>1. \A c \in Callers : caller'[c] \notin {"health", "databases", "joined"}
    BY <1>0
  <2> QED
    BY <1>0, <2>1
<1>10. CASE InstanceUp
  <2>1. CASE UNCHANGED <<caller, entry>>
    BY <1>10, <2>1 DEF InstanceUp
  <2>2. CASE /\ attached /\ RemoveEntry
             /\ \/ caller' = Answered({"joined", "instance"}, "ok")
                \/ caller' = Answered({"joined"}, "failed")
    BY <1>10, <1>0, <2>2 DEF InstanceUp
  <2> QED
    BY <1>10, <2>1, <2>2 DEF InstanceUp
<1>11. CASE InstanceFails
  <2>1. CASE attached
    <3>1. \A c \in Callers :
            caller'[c] \notin {"health", "databases", "joined"}
      BY <1>11, <2>1 DEF InstanceFails, MayFail
    <3> QED
      BY <1>11, <2>1, <3>1 DEF InstanceFails, MayFail
  <2>2. CASE ~attached
    BY <1>11, <2>2 DEF InstanceFails, MayFail
  <2> QED
    BY <2>1, <2>2
<1>12. CASE RestUp
  <2>1. CASE RestObserved
    <3>1. \A c \in Callers :
            caller'[c] \notin {"health", "databases", "joined"}
      BY <1>12, <2>1 DEF RestUp, RestObserved
    <3> QED
      BY <1>12, <2>1, <3>1 DEF RestUp, RestObserved
  <2>2. CASE ~RestObserved
    BY <1>12, <2>2 DEF RestUp, RestObserved
  <2> QED
    BY <2>1, <2>2
<1>13. CASE RestFails
  <2>1. CASE work = "ok"
    BY <1>13, <1>0, <2>1 DEF RestFails
  <2>2. CASE work # "ok"
    BY <1>13, <2>2 DEF RestFails
  <2> QED
    BY <2>1, <2>2
<1>14. CASE StrayUnobserved
  BY <1>14 DEF StrayUnobserved
<1>15. CASE UNCHANGED vars
  BY <1>15 DEF vars
<1> QED
  BY <1>1, <1>2, <1>3, <1>4, <1>5, <1>6, <1>7, <1>8, <1>9, <1>10, <1>11,
     <1>12, <1>13, <1>14, <1>15 DEF Next, Calls, Progress

THEOREM Invariance == Spec => []IInv
  BY InitIInv, NextIInv, PTL DEF Spec

\* The types of a flight and its callers.
THEOREM TypeCorrect == Spec => []TypeOK
  BY Invariance, PTL DEF IInv

\* Two runs of models.instance.start never overlap in one process.
THEOREM StartsNeverOverlap == Spec => []OneStart
<1>1. IInv => OneStart
  BY DEF IInv, FlightOrder, OneStart
<1> QED
  BY <1>1, Invariance, PTL

\* Whoever joins a flight awaits the promise that is in the table, and a
\* flight has one leader.
THEOREM FlightsAreInTable == Spec => []FlightInTable
  BY Invariance, PTL DEF IInv

-----------------------------------------------------------------------------
(* startInstance implements SingleFlight.                                  *)

\* Its variable call under the mapping.
SFCall == [c \in Callers |-> IF Waiting(c) THEN "waiting"
                             ELSE IF caller[c] \in {"failed", "accepted",
                                                     "served"}
                                  THEN "over" ELSE caller[c]]

\* A caller's status as SingleFlight sees it.
CallOf(status) ==
  IF status \in {"health", "databases", "instance", "pgrest", "stray",
                 "joined"} THEN "waiting"
  ELSE IF status \in {"failed", "accepted", "served"} THEN "over"
  ELSE status

\* A step that answers callers, and may end the start, is an Answer.
LEMMA AnswerStep ==
  ASSUME TypeOK, TypeOK', starts' = starts \/ starts' = 0,
         \A c \in Callers :
           \/ caller'[c] = caller[c]
           \/ Waiting(c) /\ CallOf(caller'[c]) \in {"over", "waiting"}
           \/ Waiting(c) /\ caller'[c] = "ok" /\ starts = 0
  PROVE  SF!Answer
<1>1. SFCall' \in [Callers -> {"idle", "waiting", "ok", "over"}]
  BY DEF TypeOK, SFCall, Waiting
<1>2. \A c \in Callers :
        \/ SFCall'[c] = SFCall[c]
        \/ SFCall[c] = "waiting" /\ SFCall'[c] = "over"
        \/ SFCall[c] = "waiting" /\ SFCall'[c] = "ok" /\ ~(starts > 0)
  <2> TAKE c \in Callers
  <2>1. SFCall[c] = CallOf(caller[c]) /\ SFCall'[c] = CallOf(caller'[c])
    BY DEF SFCall, CallOf, Waiting
  <2>2. Waiting(c) => CallOf(caller[c]) = "waiting"
    BY DEF CallOf, Waiting
  <2> QED
    BY <2>1, <2>2 DEF CallOf
<1>3. (starts' > 0) \in {starts > 0, FALSE}
  <2>1. CASE starts' = starts
    BY <2>1
  <2>2. CASE starts' = 0
    <3>1. (0 > 0) = FALSE
      BY SMT
    <3> QED
      BY <2>2, <3>1, Zenon
  <2> QED
    BY <2>1, <2>2
<1> QED
  BY <1>1, <1>2, <1>3 DEF SF!Answer, SFCall

LEMMA NextRefines ==
  ASSUME IInv, IInv', [Next]_vars
  PROVE  [SF!Next]_(SF!vars)
<1> USE DEF IInv, TypeOK, FlightOrder, RemoveEntry
<1>1. ASSUME NEW c \in Callers, Join(c) \/ Lead(c)
      PROVE  SF!Call(c)
  <2>1. ~Waiting(c) /\ starts' = starts
    BY <1>1 DEF Join, Lead, MayLead
  <2>2. /\ caller' \in [Callers -> {caller[d] : d \in Callers}
                                     \union {"joined", "health"}]
        /\ caller'[c] \in {"joined", "health"}
        /\ \A d \in Callers \ {c} : caller'[d] = caller[d]
    BY <1>1 DEF Join, Lead
  <2>3. SFCall' = [SFCall EXCEPT ![c] = "waiting"]
    BY <2>2 DEF SFCall, Waiting
  <2>4. SFCall[c] # "waiting"
    BY <2>1 DEF SFCall, Waiting
  <2> QED
    BY <2>1, <2>3, <2>4 DEF SF!Call, SFCall
<1>2. ASSUME NEW c \in Callers, HealthDown(c)
      PROVE  SF!Begin
  <2>1. starts = 0 /\ starts' = 1 /\ Waiting(c)
    BY <1>2 DEF HealthDown, LeaderStatus, Waiting
  <2>2. /\ caller'[c] \in {"databases", "instance"} /\ caller[c] = "health"
        /\ \A d \in Callers \ {c} : caller'[d] = caller[d]
    BY <1>2 DEF HealthDown
  <2>3. SFCall' = SFCall
    BY <2>2 DEF SFCall, Waiting
  <2>4. SFCall[c] = "waiting"
    BY <2>1 DEF SFCall
  <2> QED
    BY <2>1, <2>3, <2>4 DEF SF!Begin, SFCall
<1>3. ASSUME NEW c \in Callers,
             \/ HealthRejected(c) \/ DatabasesRejected(c) \/ DatabasesRead(c)
             \/ StrayFails(c)
      PROVE  SF!Answer
  <2>1. starts' = starts
    BY <1>3 DEF HealthRejected, DatabasesRejected, DatabasesRead, StrayFails
  <2>2. /\ Waiting(c) /\ caller'[c] \in {"failed", "pgrest", "accepted"}
        /\ \A d \in Callers \ {c} : caller'[d] = caller[d]
    BY <1>3 DEF HealthRejected, DatabasesRejected, DatabasesRead, StrayFails,
                Waiting
  <2> QED
    BY <2>1, <2>2, AnswerStep DEF CallOf
<1>4. ASSUME NEW c \in Callers, HealthAlive(c)
      PROVE  SF!Answer
  <2>1. starts = 0 /\ starts' = starts
    BY <1>4 DEF HealthAlive, LeaderStatus
  <2>2. \A d \in Callers : \/ caller'[d] = caller[d]
                           \/ Waiting(d) /\ caller'[d] = "ok"
    BY <1>4 DEF HealthAlive, Answered, Waiting
  <2> QED
    BY <2>1, <2>2, AnswerStep
<1>5. ASSUME NEW c \in Callers, StrayUp(c)
      PROVE  SF!Answer
  <2>1. starts' = starts
    BY <1>5 DEF StrayUp
  <2>2. \A d \in Callers : \/ caller'[d] = caller[d]
                           \/ Waiting(d) /\ caller'[d] = "served"
    BY <1>5 DEF StrayUp, Waiting
  <2> QED
    BY <2>1, <2>2, AnswerStep DEF CallOf
<1>6. CASE InstanceAccepts
  <2>1. starts' = 0 /\ caller' = caller
    BY <1>6 DEF InstanceAccepts
  <2> QED
    BY <2>1, AnswerStep DEF SF!Next
<1>7. CASE InstanceUp
  <2>1. starts = 0 /\ starts' = starts
    BY <1>7 DEF InstanceUp
  <2>2. \A d \in Callers :
          \/ caller'[d] = caller[d]
          \/ Waiting(d) /\ caller'[d] \in {"ok", "failed"}
    BY <1>7 DEF InstanceUp, Answered, Waiting
  <2> QED
    BY <2>1, <2>2, AnswerStep DEF CallOf, SF!Next
<1>8. CASE InstanceFails
  <2>1. starts' = 0
    BY <1>8 DEF InstanceFails, MayFail
  <2>2. \A d \in Callers :
          \/ caller'[d] = caller[d]
          \/ Waiting(d) /\ caller'[d] \in {"failed", "stray"}
    BY <1>8 DEF InstanceFails, Waiting
  <2> QED
    BY <2>1, <2>2, AnswerStep DEF CallOf, SF!Next
<1>9. CASE RestUp
  <2>1. starts' = starts /\ (RestObserved => starts = 0)
    BY <1>9 DEF RestUp, RestObserved
  <2>2. \A d \in Callers :
          \/ caller'[d] = caller[d]
          \/ Waiting(d) /\ caller'[d] = "served"
          \/ Waiting(d) /\ caller'[d] = "ok" /\ RestObserved
    BY <1>9 DEF RestUp, Answered, Waiting
  <2> QED
    BY <2>1, <2>2, AnswerStep DEF CallOf, SF!Next
<1>10. CASE RestFails
  <2>1. starts' = starts
    BY <1>10 DEF RestFails
  <2>2. \A d \in Callers : \/ caller'[d] = caller[d]
                           \/ Waiting(d) /\ caller'[d] = "failed"
    BY <1>10 DEF RestFails, Answered, Waiting
  <2> QED
    BY <2>1, <2>2, AnswerStep DEF CallOf, SF!Next
<1>11. CASE StrayUnobserved \/ UNCHANGED vars
  <2>1. UNCHANGED <<caller, starts>>
    BY <1>11 DEF StrayUnobserved, vars
  <2> QED
    BY <2>1, AnswerStep DEF SF!Next
<1> QED
  BY <1>1, <1>2, <1>3, <1>4, <1>5, <1>6, <1>7, <1>8, <1>9, <1>10, <1>11
     DEF Next, Calls, Progress, SF!Next

\* Every behaviour of startInstance, with every fault, is one SingleFlight
\* allows: no overlap, and nobody who asked for the instance is told "ok" while
\* a start is under way.  (The HTTP request that led hears of PostgREST only,
\* which may answer, or be given up, before the instance does.)
THEOREM Refinement == Spec => Implements
<1>1. Init => SF!Init
  BY DEF Init, SF!Init, Waiting
<1> QED
  BY <1>1, NextRefines, Invariance, PTL DEF Spec, Implements, SF!Spec
=============================================================================
