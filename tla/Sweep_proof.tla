----------------------------- MODULE Sweep_proof -----------------------------
(***************************************************************************)
(* Two properties, for any number of instances, of any levels, and of      *)
(* sweeps.                                                                 *)
(*                                                                         *)
(* The class of a running pod goes up only after a query, or by an apply   *)
(* that another one overtook: what an instance deserves falls as the hours *)
(* pass (PriorityFalls), so that a pod that was not queried since its      *)
(* class was computed has at least the class its instance deserves         *)
(* (PodJustified), and an apply under way that was not overtaken carries   *)
(* at most the class of the pod (KubeJustified) and cannot raise it.       *)
(*                                                                         *)
(* A sweep that nothing disturbs settles what it listed: whatever instance *)
(* it listed is settled, or has a row left that the table agrees with      *)
(* (CalmRows), and a sweep that ends has no rows left.                     *)
(***************************************************************************)
EXTENDS Sweep, TLAPS, WellFoundedInduction

-----------------------------------------------------------------------------
(* lib/instance-resources.js                                               *)

\* A nonempty set of priorities has a greatest and a least element.
LEMMA Extremes ==
  ASSUME NEW S \in SUBSET Priorities, S # {}
  PROVE  /\ Max(S) \in S /\ \A y \in S : Max(S) >= y
         /\ Min(S) \in S /\ \A y \in S : Min(S) =< y
<1>1. \E x \in S : \A y \in S : x >= y
  <2> SUFFICES ASSUME \A x \in S : \E y \in S : y > x PROVE FALSE
    BY DEF Priorities
  <2>1. 10 \notin S /\ 9 \notin S /\ 8 \notin S
    BY DEF Priorities
  <2>2. 7 \notin S /\ 6 \notin S /\ 5 \notin S
    BY <2>1 DEF Priorities
  <2>3. 4 \notin S /\ 3 \notin S /\ 2 \notin S
    BY <2>1, <2>2 DEF Priorities
  <2>4. 1 \notin S /\ 0 \notin S
    BY <2>1, <2>2, <2>3 DEF Priorities
  <2>5. \A z \in S : \/ z \in {0, 1, 2, 3, 4, 5}
                     \/ z \in {6, 7, 8, 9, 10}
    BY DEF Priorities
  <2> QED BY <2>1, <2>2, <2>3, <2>4, <2>5
<1>2. \E x \in S : \A y \in S : x =< y
  <2> SUFFICES ASSUME \A x \in S : \E y \in S : y < x PROVE FALSE
    BY DEF Priorities
  <2>1. 0 \notin S /\ 1 \notin S /\ 2 \notin S
    BY DEF Priorities
  <2>2. 3 \notin S /\ 4 \notin S /\ 5 \notin S
    BY <2>1 DEF Priorities
  <2>3. 6 \notin S /\ 7 \notin S /\ 8 \notin S
    BY <2>1, <2>2 DEF Priorities
  <2>4. 9 \notin S /\ 10 \notin S
    BY <2>1, <2>2, <2>3 DEF Priorities
  <2>5. \A z \in S : \/ z \in {0, 1, 2, 3, 4, 5}
                     \/ z \in {6, 7, 8, 9, 10}
    BY DEF Priorities
  <2> QED BY <2>1, <2>2, <2>3, <2>4, <2>5
<1> QED BY <1>1, <1>2 DEF Max, Min

\* So has a nonempty set of hours, or of instances, a least.
LEMMA LeastNatural ==
  ASSUME NEW S \in SUBSET Nat, S # {}
  PROVE  Min(S) \in S /\ \A y \in S : Min(S) =< y
<1>1. PICK x \in S : \A y \in S : <<y, x>> \notin OpToRel(<, Nat)
  BY NatLessThanWellFounded, WFMin
<1>2. ASSUME NEW y \in S PROVE x =< y
  <2>1. <<y, x>> \notin {p \in Nat \X Nat : p[1] < p[2]}
    BY <1>1 DEF OpToRel
  <2> QED BY <2>1
<1> QED BY <1>2 DEF Min

\* The table: priorities with ages below which they apply.
LEMMA UntilType ==
  ASSUME NEW level \in {"HIGH", "MEDIUM", "LOW"}
  PROVE  /\ DOMAIN Until[level] \in SUBSET Priorities /\ DOMAIN Until[level] # {}
         /\ \A p \in DOMAIN Until[level] : Until[level][p] \in Nat
         /\ SleepAt[level] \in Nat
<1>1. \A p \in 4 .. 10 : HighUntil[p] \in Nat
  BY DEF HighUntil, Day
<1>2. \A p \in 2 .. 10 : MediumUntil[p] \in Nat
  BY DEF MediumUntil, Day
<1>3. \A p \in 0 .. 8 : LowUntil[p] \in Nat
  BY DEF LowUntil
<1>4. /\ DOMAIN HighUntil = 4 .. 10 /\ DOMAIN MediumUntil = 2 .. 10
      /\ DOMAIN LowUntil = 0 .. 8
  BY DEF HighUntil, MediumUntil, LowUntil
<1>5. SleepAt[level] \in Nat
  BY DEF SleepAt, Day
<1> QED BY <1>1, <1>2, <1>3, <1>4, <1>5 DEF Until, Priorities

\* Every answer is a priority or the one to sleep.
LEMMA ResourcesType ==
  ASSUME NEW level \in Levels, NEW hours \in Nat
  PROVE  getResources(level, hours) \in Priorities \cup {Asleep}
<1>1. CASE level = "ALWAYS"
  BY <1>1 DEF getResources, Priorities
<1>2. CASE level # "ALWAYS"
  <2> DEFINE open == {p \in DOMAIN Until[level] : Until[level][p] > hours}
  <2>1. open \in SUBSET Priorities /\ DOMAIN Until[level] \in SUBSET Priorities
        /\ DOMAIN Until[level] # {}
    BY <1>2, UntilType DEF Levels
  <2>2. open # {} => Max(open) \in Priorities
    BY <2>1, Extremes
  <2>3. Min(DOMAIN Until[level]) \in Priorities
    BY <2>1, Extremes
  <2> QED BY <1>2, <2>2, <2>3 DEF getResources
<1> QED BY <1>1, <1>2

\* The longer an instance was idle, the less it deserves.
LEMMA PriorityFalls ==
  ASSUME NEW level \in Levels, NEW a \in Nat, NEW b \in Nat, a <= b
  PROVE  getResources(level, b) <= getResources(level, a)
<1>1. CASE level = "ALWAYS"
  BY <1>1 DEF getResources
<1>2. CASE level # "ALWAYS"
  <2> DEFINE D == DOMAIN Until[level]
             Open(hours) == {p \in D : Until[level][p] > hours}
             Answer(hours) == IF Open(hours) = {} THEN Min(D) ELSE Max(Open(hours))
  <2>1. /\ D \in SUBSET Priorities /\ D # {} /\ SleepAt[level] \in Nat
        /\ \A p \in D : Until[level][p] \in Nat
    BY <1>2, UntilType DEF Levels
  <2>2. Open(b) \subseteq Open(a) /\ Open(a) \subseteq D
    BY <2>1
  <2>3. ASSUME NEW hours \in {a, b}
        PROVE  /\ Answer(hours) \in D
               /\ Open(hours) # {} => Answer(hours) \in Open(hours) /\ \A p \in Open(hours) : Answer(hours) >= p
               /\ Open(hours) = {} => \A p \in D : Answer(hours) =< p
    BY <2>1, Extremes, Open(hours) \in SUBSET Priorities
  <2>4. Answer(b) <= Answer(a)
    <3>1. CASE Open(b) = {}
      BY <3>1, <2>1, <2>3 DEF Priorities
    <3>2. CASE Open(b) # {}
      BY <3>2, <2>1, <2>2, <2>3 DEF Priorities
    <3> QED BY <3>1, <3>2
  <2>5. \A hours \in {a, b} :
          getResources(level, hours) = IF SleepAt[level] < hours THEN Asleep ELSE Answer(hours)
    BY <1>2 DEF getResources
  <2> HIDE DEF D, Open, Answer
  <2>6. Answer(a) \in Priorities
    BY <2>1, <2>3
  <2> QED BY <2>1, <2>4, <2>5, <2>6 DEF Priorities, Asleep
<1> QED BY <1>1, <1>2

-----------------------------------------------------------------------------
(* The sweep.                                                              *)

\* What the argument needs of the types.
Shapes ==
  /\ pod \in [Instances -> Int]
  /\ age \in [Instances -> Ages \cup {Never}]
  /\ used \in [Instances -> BOOLEAN]

ApplyShape(k) ==
  /\ DOMAIN k = {"i", "class", "used", "crossed"} /\ k = [x \in DOMAIN k |-> k[x]]
  /\ k.used \in BOOLEAN /\ k.crossed \in BOOLEAN
  /\ k.i \in Instances => k.class \in Int
KubeShapes ==
  /\ kube = [a \in Appliers |-> kube[a]]
  /\ \A a \in Appliers : ApplyShape(kube[a])

\* A pod that was not queried has at least the class its instance deserves.
PodJustified ==
  \A i \in Instances : pod[i] # None /\ ~used[i] => Deserved(i) <= pod[i]

\* The class an apply carries is at least what its instance deserves if no query
\* came since, and at most that of the pod if no other apply and no query came.
Justified(k) ==
  /\ ~k.used => Deserved(k.i) <= k.class
  /\ ~k.crossed /\ ~used[k.i] /\ pod[k.i] # None => k.class <= pod[k.i]
KubeJustified == \A a \in Appliers : kube[a].i \in Instances => Justified(kube[a])

IInv == Shapes /\ KubeShapes /\ PodJustified /\ KubeJustified

LEMMA ClassType ==
  ASSUME NEW level \in Levels, NEW a \in Ages \cup {Never}
  PROVE  getInstanceResources(level, a) \in Int /\ getInstanceResources(level, a) >= Asleep
<1>1. CASE a = Never
  BY <1>1 DEF getInstanceResources, Asleep
<1>2. CASE a # Never
  <2>1. a \in Nat
    BY <1>2, SweepAssumption
  <2>2. getResources(level, a) \in Priorities \cup {Asleep}
    BY <2>1, ResourcesType
  <2>3. getInstanceResources(level, a) = getResources(level, a)
    BY <1>2 DEF getInstanceResources
  <2> QED BY <2>2, <2>3 DEF Priorities, Asleep
<1> QED BY <1>1, <1>2

LEMMA DeservedType ==
  ASSUME age \in [Instances -> Ages \cup {Never}], NEW i \in Instances
  PROVE  Deserved(i) \in Int /\ Deserved(i) >= Asleep
<1>1. Level[i] \in Levels /\ age[i] \in Ages \cup {Never}
  BY SweepAssumption
<1> QED BY <1>1, ClassType DEF Deserved

LEMMA InitIInv == Init => IInv
<1> SUFFICES ASSUME Init PROVE IInv
  OBVIOUS
<1>1. \A i \in Instances : Deserved(i) \in Int
  BY DeservedType DEF Init
<1>2. \A i \in Instances : pod[i] = Deserved(i)
  BY DEF Init, Deserved
<1>3. 0 \notin Instances
  BY DEF Instances
<1>4. KubeShapes /\ KubeJustified
  BY <1>3 DEF Init, NoApply, KubeShapes, ApplyShape, KubeJustified
<1> QED BY <1>1, <1>2, <1>4 DEF Init, IInv, Shapes, PodJustified, Deserved

Rises == \A i \in Instances : pod[i] # None /\ pod'[i] > pod[i] => used[i] \/ Overtaken(i)

\* Steps that set no class and let no hour pass.
LEMMA StillKeeps ==
  ASSUME IInv, UNCHANGED <<pod, age, used, kube>>
  PROVE  IInv' /\ Rises
<1>1. \A i : Deserved(i)' = Deserved(i)
  BY DEF Deserved
<1>2. KubeShapes'
  BY DEF IInv, KubeShapes
<1>3. KubeJustified'
  BY <1>1 DEF IInv, KubeJustified, Justified
<1> QED BY <1>1, <1>2, <1>3 DEF IInv, Shapes, PodJustified, Rises

\* One apply begins, with a class that is justified, or is given up.
LEMMA OneApplyKeeps ==
  ASSUME IInv, NEW a \in Appliers, NEW k, kube' = [kube EXCEPT ![a] = k],
         UNCHANGED <<pod, used, age>>,
         ApplyShape(k), k.i \in Instances => Justified(k)
  PROVE  IInv' /\ Rises
<1>1. \A b \in Appliers : kube'[b] = IF b = a THEN k ELSE kube[b]
  BY DEF IInv, KubeShapes
<1>2. kube' = [b \in Appliers |-> kube'[b]]
  BY <1>1 DEF IInv, KubeShapes
<1>3. KubeShapes'
  BY <1>1, <1>2 DEF IInv, KubeShapes
<1>4. \A i : Deserved(i)' = Deserved(i)
  BY DEF Deserved
<1>5. KubeJustified'
  BY <1>1, <1>4 DEF IInv, KubeJustified, Justified
<1> QED BY <1>3, <1>4, <1>5 DEF IInv, Shapes, PodJustified, Rises

\* getInstanceResources, in an apply.
LEMMA ResourcesKeeps ==
  ASSUME IInv, NEW a \in Appliers, NEW i, Resources(a, i), UNCHANGED <<pod, used, age>>
  PROVE  IInv' /\ Rises
<1> DEFINE k == [i |-> i, class |-> Deserved(i), used |-> FALSE, crossed |-> FALSE]
<1>1. kube' = [kube EXCEPT ![a] = k]
  BY DEF Resources
<1>2. i \in Instances => Deserved(i) \in Int
  BY DeservedType DEF IInv, Shapes
<1>3. ApplyShape(k)
  BY <1>2 DEF ApplyShape
<1>4. k.i \in Instances => Justified(k)
  BY <1>2 DEF IInv, PodJustified, Justified
<1> QED BY <1>1, <1>3, <1>4, OneApplyKeeps

\* kubectl.apply, which leaves the ages alone.
LEMMA LandsKeeps ==
  ASSUME IInv, NEW a \in Appliers, Lands(a), UNCHANGED age
  PROVE  IInv' /\ Rises
<1> DEFINE k == kube[a]
           crossing(b) == [kube[b] EXCEPT !.crossed = TRUE]
<1>1. /\ pod' = [pod EXCEPT ![k.i] = k.class] /\ used' = [used EXCEPT ![k.i] = k.used]
      /\ kube' = [b \in Appliers |->
                    IF b = a THEN NoApply ELSE IF kube[b].i = k.i THEN crossing(b) ELSE kube[b]]
  BY DEF Lands
<1>2. ASSUME NEW b \in Appliers
      PROVE  /\ ApplyShape(crossing(b))
             /\ crossing(b).i = kube[b].i /\ crossing(b).class = kube[b].class
             /\ crossing(b).used = kube[b].used /\ crossing(b).crossed = TRUE
  BY DEF IInv, KubeShapes, ApplyShape
<1>3. 0 \notin Instances /\ NoApply.i = 0 /\ ApplyShape(NoApply)
  BY DEF Instances, NoApply, ApplyShape
<1> HIDE DEF crossing
<1>4. \A b \in Appliers : kube'[b] = IF b = a THEN NoApply
                                    ELSE IF kube[b].i = k.i THEN crossing(b) ELSE kube[b]
  BY <1>1
<1>5. \A i \in Instances : IF i = k.i THEN pod'[i] = k.class /\ used'[i] = k.used
                           ELSE pod'[i] = pod[i] /\ used'[i] = used[i]
  BY <1>1 DEF IInv, Shapes
<1>6. KubeShapes'
  <2> DEFINE after(b) == IF b = a THEN NoApply ELSE IF kube[b].i = k.i THEN crossing(b) ELSE kube[b]
  <2>2. kube' = [b \in Appliers |-> after(b)]
    BY <1>1
  <2> HIDE DEF after
  <2>1. kube' = [b \in Appliers |-> kube'[b]]
    BY <2>2
  <2> QED BY <1>2, <1>3, <1>4, <2>1 DEF IInv, KubeShapes
<1>7. Shapes'
  <2>1. k.i \in Instances => k.class \in Int /\ k.used \in BOOLEAN
    BY DEF IInv, KubeShapes, ApplyShape
  <2> QED BY <1>1, <2>1 DEF IInv, Shapes
<1>8. \A i : Deserved(i)' = Deserved(i)
  BY DEF Deserved
<1>9. PodJustified'
  BY <1>5, <1>8 DEF IInv, PodJustified, KubeJustified, Justified
<1>10. KubeJustified'
  <2> SUFFICES ASSUME NEW b \in Appliers, kube'[b].i \in Instances PROVE Justified(kube[b])' 
    BY DEF KubeJustified, Justified
  <2>1. b # a
    BY <1>3, <1>4
  <2>2. CASE kube[b].i = k.i
    <3>1. kube'[b] = crossing(b)
      BY <1>4, <2>1, <2>2
    <3>2. kube[b].i \in Instances
      BY <1>2, <3>1
    <3> QED BY <1>2, <1>8, <3>1, <3>2 DEF IInv, KubeJustified, Justified
  <2>3. CASE kube[b].i # k.i
    <3>1. kube'[b] = kube[b]
      BY <1>4, <2>1, <2>3
    <3> QED BY <1>5, <1>8, <2>3, <3>1 DEF IInv, KubeJustified, Justified
  <2> QED BY <2>2, <2>3
<1>11. Rises
  <2> SUFFICES ASSUME NEW i \in Instances, pod[i] # None, pod'[i] > pod[i], ~used[i]
               PROVE  Overtaken(i)
    BY DEF Rises
  <2>1. i = k.i /\ pod'[i] = k.class
    BY <1>5 DEF IInv, Shapes
  <2>2. k.crossed
    <3>1. ~k.crossed => k.class <= pod[i]
      BY <2>1 DEF IInv, KubeJustified, Justified
    <3>2. k.class \in Int /\ pod[i] \in Int
      BY <2>1 DEF IInv, Shapes, KubeShapes, ApplyShape
    <3> QED BY <2>1, <3>1, <3>2
  <2> QED BY <1>3, <1>4, <2>1, <2>2 DEF Overtaken
<1> QED BY <1>6, <1>7, <1>9, <1>10, <1>11 DEF IInv

\* An error, before kubectl.apply or of it.
LEMMA BreaksKeeps ==
  ASSUME IInv, NEW a \in Appliers, Breaks(a), UNCHANGED age
  PROVE  IInv' /\ Rises
<1>1. CASE Lands(a)
  BY <1>1, LandsKeeps
<1>2. CASE kube' = [kube EXCEPT ![a] = NoApply] /\ UNCHANGED <<pod, used>>
  <2>1. NoApply.i \notin Instances /\ ApplyShape(NoApply)
    BY DEF NoApply, Instances, ApplyShape
  <2> QED BY <1>2, <2>1, OneApplyKeeps
<1> QED BY <1>1, <1>2 DEF Breaks

LEMMA NextKeeps ==
  ASSUME IInv, [Next]_vars
  PROVE  IInv' /\ Rises
<1> USE DEF pods, Appliers
<1>1. ASSUME NEW s \in Sweepers, List(s) PROVE IInv' /\ Rises
  BY <1>1, StillKeeps DEF List
<1>2. ASSUME NEW s \in Sweepers, Decide(s) PROVE IInv' /\ Rises
  BY <1>2, StillKeeps DEF Decide
<1>3. ASSUME NEW s \in Sweepers, Stop(s) PROVE IInv' /\ Rises
  <2>1. pod' = [pod EXCEPT ![Turn(s).i] = None] /\ UNCHANGED <<age, used, kube>>
    BY <1>3 DEF Stop
  <2>2. Shapes'
    <3>1. None \in Int
      BY DEF None
    <3> QED BY <2>1, <3>1 DEF IInv, Shapes
  <2>3. \A i \in Instances : pod'[i] = None \/ pod'[i] = pod[i]
    BY <2>1 DEF IInv, Shapes
  <2>4. PodJustified' /\ KubeShapes'
    BY <2>1, <2>3 DEF IInv, PodJustified, Deserved, KubeShapes
  <2>6. KubeJustified'
    <3>1. \A i : Deserved(i)' = Deserved(i)
      BY <2>1 DEF Deserved
    <3> QED BY <2>1, <2>3, <3>1 DEF IInv, KubeJustified, Justified
  <2>5. Rises
    <3> SUFFICES ASSUME NEW i \in Instances, pod[i] # None, pod'[i] = None, pod'[i] > pod[i],
                        ~used[i]
                 PROVE  FALSE
      BY <2>3 DEF IInv, Shapes, Rises
    <3>1. Deserved(i) <= pod[i]
      BY DEF IInv, PodJustified
    <3>2. Deserved(i) \in Int /\ Deserved(i) >= Asleep
      BY DeservedType DEF IInv, Shapes
    <3> QED BY <3>1, <3>2 DEF None, Asleep, IInv, Shapes
  <2> QED BY <2>2, <2>4, <2>5, <2>6 DEF IInv
<1>4. ASSUME NEW s \in Sweepers, Write(s) PROVE IInv' /\ Rises
  BY <1>4, StillKeeps DEF Write
<1>5. ASSUME NEW s \in Sweepers, Compute(s) \/ Apply(s) \/ Fail(s) PROVE IInv' /\ Rises
  BY <1>5, ResourcesKeeps, LandsKeeps, BreaksKeeps DEF Compute, Apply, Fail
<1>6. ASSUME NEW c \in Callers, CallComputes(c) \/ CallApplies(c) \/ CallFails(c)
      PROVE  IInv' /\ Rises
  BY <1>6, ResourcesKeeps, LandsKeeps, BreaksKeeps DEF CallComputes, CallApplies, CallFails
<1>7. ASSUME NEW i \in Instances, Query(i) PROVE IInv' /\ Rises
  <2> DEFINE querying(a) == [kube[a] EXCEPT !.used = TRUE]
  <2>1. /\ age' = [age EXCEPT ![i] = 0] /\ used' = [used EXCEPT ![i] = TRUE] /\ pod' = pod
        /\ kube' = [a \in Sweepers \cup Callers |-> IF kube[a].i = i THEN querying(a) ELSE kube[a]]
    BY <1>7 DEF Query
  <2>2. Shapes'
    BY <2>1, SweepAssumption DEF IInv, Shapes
  <2>3. \A j \in Instances : used'[j] \/ (used'[j] = used[j] /\ age'[j] = age[j])
    BY <2>1 DEF IInv, Shapes
  <2>4. PodJustified'
    BY <2>1, <2>3 DEF IInv, PodJustified, Deserved
  <2>5. ASSUME NEW a \in Sweepers \cup Callers
        PROVE  /\ ApplyShape(querying(a))
               /\ querying(a).i = kube[a].i /\ querying(a).class = kube[a].class
               /\ querying(a).used = TRUE /\ querying(a).crossed = kube[a].crossed
    BY DEF IInv, KubeShapes, ApplyShape
  <2> HIDE DEF querying
  <2>6. \A a \in Sweepers \cup Callers : kube'[a] = IF kube[a].i = i THEN querying(a) ELSE kube[a]
    BY <2>1
  <2>7. KubeShapes'
    <3> DEFINE after(a) == IF kube[a].i = i THEN querying(a) ELSE kube[a]
    <3>2. kube' = [a \in Sweepers \cup Callers |-> after(a)]
      BY <2>1
    <3> HIDE DEF after
    <3>1. kube' = [a \in Sweepers \cup Callers |-> kube'[a]]
      BY <3>2
    <3> QED BY <2>5, <2>6, <3>1 DEF IInv, KubeShapes
  <2>8. KubeJustified'
    <3> SUFFICES ASSUME NEW a \in Sweepers \cup Callers, kube'[a].i \in Instances
                 PROVE  Justified(kube[a])'
      BY DEF KubeJustified, Justified
    <3>1. CASE kube[a].i = i
      <4>1. used'[i] = TRUE
        BY <2>1 DEF IInv, Shapes
      <4> QED BY <2>5, <2>6, <3>1, <4>1 DEF Justified
    <3>2. CASE kube[a].i # i
      <4>1. kube'[a] = kube[a] /\ kube[a].i \in Instances
        BY <2>6, <3>2
      <4>2. used'[kube[a].i] = used[kube[a].i] /\ age'[kube[a].i] = age[kube[a].i]
        BY <2>1, <3>2, <4>1 DEF IInv, Shapes
      <4> QED BY <2>1, <4>1, <4>2 DEF IInv, KubeJustified, Justified, Deserved
    <3> QED BY <3>1, <3>2
  <2> QED BY <2>1, <2>2, <2>4, <2>7, <2>8 DEF IInv, Shapes, Rises
<1>8. ASSUME NEW c \in Callers, NEW i \in Instances, Start(c, i) PROVE IInv' /\ Rises
  BY <1>8, StillKeeps DEF Start
<1>9. ASSUME NEW c \in Callers, NEW i \in Instances, NEW p \in Asked, NEW apply \in BOOLEAN,
             UpdatePriority(c, i, p, apply)
      PROVE  IInv' /\ Rises
  BY <1>9, StillKeeps DEF UpdatePriority
<1>12. ASSUME NEW c \in Callers, Runs(c) PROVE IInv' /\ Rises
  BY <1>12, StillKeeps DEF Runs
<1>10. ASSUME NEW i \in Instances, Pass(i) PROVE IInv' /\ Rises
  <2>1. /\ age' = [age EXCEPT ![i] = Older(age[i])] /\ UNCHANGED <<pod, used, kube>>
        /\ age[i] # Never /\ \E b \in Ages : b > age[i]
    BY <1>10 DEF Pass
  <2>2. age[i] \in Nat /\ Older(age[i]) \in Ages /\ Older(age[i]) > age[i]
    <3> DEFINE S == {b \in Ages : b > age[i]}
    <3>1. age[i] \in Nat /\ S \in SUBSET Nat /\ S # {}
      BY <2>1, SweepAssumption DEF IInv, Shapes, Never
    <3>2. Min(S) \in S
      BY <3>1, LeastNatural
    <3> QED BY <3>1, <3>2 DEF Older
  <2>3. Shapes'
    BY <2>1, <2>2 DEF IInv, Shapes
  <2>4. ASSUME NEW j \in Instances PROVE Deserved(j)' <= Deserved(j)
    <3>1. CASE j = i
      <4>1. age'[i] = Older(age[i]) /\ age'[i] \in Nat
        BY <2>1, <2>2, SweepAssumption DEF IInv, Shapes
      <4>2. Deserved(i) = getResources(Level[i], age[i])
            /\ Deserved(i)' = getResources(Level[i], age'[i])
        BY <4>1, <2>2 DEF Deserved, getInstanceResources, Never
      <4> QED BY <3>1, <4>1, <4>2, <2>2, PriorityFalls, SweepAssumption
    <3>2. CASE j # i
      BY <3>2, <2>1, DeservedType DEF IInv, Shapes, Deserved
    <3> QED BY <3>1, <3>2
  <2>5. \A j \in Instances : Deserved(j) \in Int /\ Deserved(j)' \in Int
    <3>1. \A j \in Instances : Deserved(j) \in Int
      BY DeservedType DEF IInv, Shapes
    <3>2. \A j \in Instances : Deserved(j)' \in Int
      <4>1. \A j \in Instances : Level[j] \in Levels /\ age'[j] \in Ages \cup {Never}
        BY <2>3, SweepAssumption DEF Shapes
      <4> QED BY <4>1, ClassType DEF Deserved
    <3> QED BY <3>1, <3>2
  <2>6. PodJustified'
    BY <2>1, <2>4, <2>5 DEF IInv, Shapes, PodJustified
  <2>7. KubeShapes'
    BY <2>1 DEF IInv, KubeShapes
  <2>8. KubeJustified'
    <3> SUFFICES ASSUME NEW a \in Appliers, kube[a].i \in Instances PROVE Justified(kube[a])'
      BY <2>1 DEF KubeJustified, Justified
    <3>1. kube[a].class \in Int /\ Justified(kube[a])
      BY DEF IInv, KubeShapes, ApplyShape, KubeJustified
    <3> QED BY <2>1, <2>4, <2>5, <3>1 DEF Justified
  <2> QED BY <2>1, <2>3, <2>6, <2>7, <2>8 DEF IInv, Shapes, Rises
<1>11. CASE UNCHANGED vars
  BY <1>11, StillKeeps DEF vars
<1> QED
  BY <1>1, <1>2, <1>3, <1>4, <1>5, <1>6, <1>7, <1>8, <1>9, <1>10, <1>11, <1>12
  DEF Next, Step, Call

\* The class of a pod goes up only after a query, or by an apply that another one
\* overtook (admin.js, sleepInstances; instance.js, apply), for all levels, ages
\* and interleavings.
THEOREM PodsRiseAfterUse == Spec => PriorityFollowsUse
<1>1. IInv /\ [Next]_vars => IInv'
  BY NextKeeps
<1>2. IInv /\ [Next]_vars =>
        [\A i \in Instances :
           pod[i] # None /\ pod'[i] > pod[i] => used[i] \/ Overtaken(i)]_vars
  BY NextKeeps DEF Rises
<1> QED BY InitIInv, <1>1, <1>2, PTL DEF Spec, PriorityFollowsUse

-----------------------------------------------------------------------------
(* What a sweep leaves behind.                                             *)

LEMMA MaxPriorityType ==
  ASSUME NEW level \in Levels
  PROVE  getMaxPriority(level) \in Priorities
<1>1. CASE level = "ALWAYS"
  BY <1>1 DEF getMaxPriority, Priorities
<1>2. CASE level # "ALWAYS"
  <2>1. DOMAIN Until[level] \in SUBSET Priorities /\ DOMAIN Until[level] # {}
    BY <1>2, UntilType DEF Levels
  <2> QED BY <1>2, <2>1, Extremes DEF getMaxPriority
<1> QED BY <1>1, <1>2

LEMMA DeservedPriority ==
  ASSUME age \in [Instances -> Ages \cup {Never}], NEW i \in Instances
  PROVE  Deserved(i) \in Priorities \cup {Asleep}
<1>1. Level[i] \in Levels /\ age[i] \in Ages \cup {Never}
  BY SweepAssumption
<1>2. CASE age[i] = Never
  BY <1>2 DEF Deserved, getInstanceResources, Priorities
<1>3. CASE age[i] # Never
  <2>1. age[i] \in Nat
    BY <1>1, <1>3, SweepAssumption
  <2> QED BY <1>1, <1>3, <2>1, ResourcesType DEF Deserved, getInstanceResources
<1> QED BY <1>2, <1>3

ListedRows == [i : Instances, prio : Priorities]
Sweeps == [step : {"idle", "next", "stop", "write", "resources", "apply"}, todo : SUBSET ListedRows,
           new : Priorities \cup {Asleep}, listed : SUBSET Instances, calm : BOOLEAN]

Types ==
  /\ state \in [Instances -> {"RUN", "SLEEP"}]
  /\ prio \in [Instances -> Priorities]
  /\ age \in [Instances -> Ages \cup {Never}]
  /\ sweeper \in [Sweepers -> Sweeps]

\* A sweep under way has a row to deal with, and one row for each instance; it
\* writes only a priority.
Fitting(w) ==
  /\ w.step # "idle" => w.todo # {}
  /\ \A q, r \in w.todo : q.i = r.i => q = r
  /\ w.step = "stop" => w.new = Asleep
  /\ w.step = "write" => w.new # Asleep
RowsFit == \A s \in Sweepers : Fitting(sweeper[s])

\* One that nothing disturbed has settled what it has dealt with, and the rows
\* it has still to deal with are those of the table.
Undone(s, i) ==
  \E r \in sweeper[s].todo : /\ r.i = i /\ r.prio = prio[i]
                             /\ sweeper[s].step \in {"resources", "apply"} => r # Turn(s)
CalmRow(s) ==
  sweeper[s].step # "idle" /\ sweeper[s].calm =>
     /\ \A i \in sweeper[s].listed : Settled(i) \/ Undone(s, i)
     /\ sweeper[s].step \in {"stop", "write"} => sweeper[s].new = Deserved(Turn(s).i)
CalmRows == \A s \in Sweepers : CalmRow(s)

SInv == Types /\ RowsFit /\ CalmRows

LEMMA InitSInv == Init => SInv
<1> SUFFICES ASSUME Init PROVE SInv
  OBVIOUS
<1>1. \A i \in Instances : getMaxPriority(Level[i]) \in Priorities
  BY MaxPriorityType, SweepAssumption
<1>2. Idle \in Sweeps /\ Idle.step = "idle" /\ Idle.todo = {}
  BY DEF Idle, Sweeps, Priorities
<1>3. \A s \in Sweepers : sweeper[s] = Idle
  BY DEF Init
<1>4. Types
  BY <1>1, <1>2 DEF Init, Types
<1> QED BY <1>2, <1>3, <1>4 DEF SInv, RowsFit, Fitting, CalmRows, CalmRow

\* A sweep with rows left has one whose turn it is.
LEMMA TurnIn ==
  ASSUME NEW s, sweeper[s].todo \in SUBSET ListedRows, sweeper[s].todo # {}
  PROVE  Turn(s) \in sweeper[s].todo
<1> DEFINE todo == sweeper[s].todo
           S == {r.i : r \in todo}
<1>1. S \in SUBSET Nat /\ S # {}
  BY DEF ListedRows, Instances
<1>2. PICK x \in S : \A y \in S : x =< y
  BY <1>1, LeastNatural
<1>3. \E r \in todo : \A q \in todo : r.i <= q.i
  BY <1>2
<1> QED BY <1>3 DEF Turn

\* To disturb a sweep is to end its calm.
LEMMA DisturbedSweeps ==
  ASSUME NEW f \in [Sweepers -> Sweeps], NEW others
  PROVE  /\ Disturbed(f, others) \in [Sweepers -> Sweeps]
         /\ \A s \in Sweepers :
              LET w == Disturbed(f, others)[s]
              IN /\ w.step = f[s].step /\ w.todo = f[s].todo /\ w.new = f[s].new
                 /\ w.listed = f[s].listed
                 /\ s \notin others => w = f[s]
                 /\ w.calm /\ w.step # "idle" => s \notin others
<1>1. ASSUME NEW v \in Sweeps
      PROVE  LET w == [v EXCEPT !.calm = FALSE]
             IN /\ w \in Sweeps /\ w.step = v.step /\ w.todo = v.todo /\ w.new = v.new
                /\ w.listed = v.listed /\ ~w.calm
  BY DEF Sweeps
<1>2. ASSUME NEW s \in Sweepers
      PROVE  Disturbed(f, others)[s] = IF s \in others /\ f[s].step # "idle"
                                       THEN [f[s] EXCEPT !.calm = FALSE] ELSE f[s]
  BY DEF Disturbed
<1>3. DOMAIN Disturbed(f, others) = Sweepers
      /\ Disturbed(f, others) = [s \in Sweepers |-> Disturbed(f, others)[s]]
  BY DEF Disturbed
<1>4. \A s \in Sweepers : f[s] \in Sweeps
  OBVIOUS
<1>5. \A s \in Sweepers : Disturbed(f, others)[s] \in Sweeps
  BY <1>1, <1>2, <1>4
<1> HIDE DEF Sweeps
<1>6. Disturbed(f, others) \in [Sweepers -> Sweeps]
  BY <1>3, <1>5
<1> QED BY <1>1, <1>2, <1>4, <1>6

\* What happens beside the sweeps leaves none of them calm.
LEMMA BesideKeeps ==
  ASSUME SInv, Beside,
         state' \in [Instances -> {"RUN", "SLEEP"}], prio' \in [Instances -> Priorities],
         age' \in [Instances -> Ages \cup {Never}]
  PROVE  SInv'
<1>1. sweeper \in [Sweepers -> Sweeps] /\ sweeper' = Disturbed(sweeper, Sweepers)
  BY DEF SInv, Types, Beside
<1>2. /\ sweeper' \in [Sweepers -> Sweeps]
      /\ \A s \in Sweepers :
           /\ sweeper'[s].step = sweeper[s].step /\ sweeper'[s].todo = sweeper[s].todo
           /\ sweeper'[s].new = sweeper[s].new
           /\ ~ (sweeper'[s].calm /\ sweeper'[s].step # "idle")
  BY <1>1, DisturbedSweeps
<1>3. Types'
  BY <1>2 DEF Types
<1>4. RowsFit'
  BY <1>2 DEF SInv, RowsFit, Fitting
<1>5. CalmRows'
  BY <1>2 DEF CalmRows, CalmRow
<1> QED BY <1>3, <1>4, <1>5 DEF SInv

\* A sweep that does not change and whose data does not change is as it was.
LEMMA SameSweep ==
  ASSUME NEW s, CalmRow(s), sweeper'[s] = sweeper[s], UNCHANGED <<state, prio, age>>
  PROVE  CalmRow(s)'
<1>1. Turn(s)' = Turn(s)
  BY DEF Turn
<1>2. \A i : Settled(i)' = Settled(i) /\ Deserved(i)' = Deserved(i)
  BY DEF Settled, Deserved
<1>3. \A i : Undone(s, i)' = Undone(s, i)
  BY <1>1 DEF Undone
<1> QED BY <1>1, <1>2, <1>3 DEF CalmRow

\* One sweep changes, and nothing else.
LEMMA OwnKeeps ==
  ASSUME SInv, NEW s \in Sweepers, NEW v \in Sweeps,
         sweeper' = [sweeper EXCEPT ![s] = v], UNCHANGED <<state, prio, age>>,
         Fitting(v), CalmRow(s)'
  PROVE  SInv'
<1>1. /\ sweeper' \in [Sweepers -> Sweeps] /\ sweeper'[s] = v
      /\ \A o \in Sweepers : o # s => sweeper'[o] = sweeper[o]
  BY DEF SInv, Types
<1>2. Types'
  BY <1>1 DEF SInv, Types
<1>3. RowsFit'
  <2>1. \A o \in Sweepers : Fitting(sweeper'[o])
    BY <1>1 DEF SInv, RowsFit
  <2> QED BY <2>1 DEF RowsFit, Fitting
<1>4. CalmRows'
  <2>1. \A o \in Sweepers : o # s => CalmRow(o)'
    BY <1>1, SameSweep DEF SInv, CalmRows
  <2> QED BY <2>1 DEF CalmRows
<1> QED BY <1>2, <1>3, <1>4 DEF SInv

\* One sweep changes, and with it data the others know.
LEMMA DisturbingKeeps ==
  ASSUME SInv, NEW s \in Sweepers, NEW v \in Sweeps,
         sweeper' = Disturbed([sweeper EXCEPT ![s] = v], Others(s)),
         state' \in [Instances -> {"RUN", "SLEEP"}], prio' \in [Instances -> Priorities],
         UNCHANGED age, Fitting(v), sweeper'[s] = v => CalmRow(s)'
  PROVE  SInv' /\ sweeper'[s] = v
<1> DEFINE f == [sweeper EXCEPT ![s] = v]
<1>1. /\ f \in [Sweepers -> Sweeps] /\ f[s] = v /\ s \notin Others(s)
      /\ \A o \in Sweepers : o # s => f[o] = sweeper[o] /\ o \in Others(s)
  BY DEF SInv, Types, Others
<1>2. sweeper' = Disturbed(f, Others(s))
  OBVIOUS
<1> HIDE DEF f
<1>3. /\ sweeper' \in [Sweepers -> Sweeps] /\ sweeper'[s] = v
      /\ \A o \in Sweepers : o # s =>
           /\ sweeper'[o].step = sweeper[o].step /\ sweeper'[o].todo = sweeper[o].todo
           /\ sweeper'[o].new = sweeper[o].new
           /\ ~ (sweeper'[o].calm /\ sweeper'[o].step # "idle")
  <2>1. /\ sweeper' \in [Sweepers -> Sweeps]
        /\ \A o \in Sweepers :
             /\ sweeper'[o].step = f[o].step /\ sweeper'[o].todo = f[o].todo
             /\ sweeper'[o].new = f[o].new
             /\ o \notin Others(s) => sweeper'[o] = f[o]
             /\ sweeper'[o].calm /\ sweeper'[o].step # "idle" => o \notin Others(s)
    <3> DEFINE beside == Others(s)
    <3>1. sweeper' = Disturbed(f, beside)
      BY <1>2
    <3> HIDE DEF beside
    <3> HIDE DEF Sweeps
    <3>2. sweeper' \in [Sweepers -> Sweeps]
      <4>1. Disturbed(f, beside) \in [Sweepers -> Sweeps]
        BY <1>1, DisturbedSweeps
      <4> QED BY <3>1, <4>1
    <3>3. \A o \in Sweepers :
            /\ sweeper'[o].step = f[o].step /\ sweeper'[o].todo = f[o].todo
            /\ sweeper'[o].new = f[o].new
      BY <1>1, <3>1, DisturbedSweeps
    <3>4. \A o \in Sweepers : o \notin beside => sweeper'[o] = f[o]
      BY <1>1, <3>1, DisturbedSweeps
    <3>5. \A o \in Sweepers :
             sweeper'[o].calm /\ sweeper'[o].step # "idle" => o \notin beside
      BY <1>1, <3>1, DisturbedSweeps
    <3> QED BY <3>2, <3>3, <3>4, <3>5 DEF beside
  <2> QED BY <1>1, <2>1
<1>4. Types'
  BY <1>3 DEF SInv, Types
<1>5. RowsFit'
  <2>1. \A o \in Sweepers : Fitting(sweeper'[o])
    BY <1>3 DEF SInv, RowsFit, Fitting
  <2> QED BY <2>1 DEF RowsFit, Fitting
<1>6. CalmRows'
  <2>1. \A o \in Sweepers : o # s => CalmRow(o)'
    BY <1>3 DEF CalmRow
  <2> QED BY <1>3, <2>1 DEF CalmRows
<1> QED BY <1>3, <1>4, <1>5, <1>6 DEF SInv

\* The step that ends a sweep leaves what it listed settled.
Leaves(s) == sweeper[s].calm /\ sweeper'[s].step = "idle" =>
               \A i \in sweeper[s].listed : Settled(i)'

\* A sweep that goes on to its next row.
LEMMA NextRowType ==
  ASSUME NEW w \in Sweeps, NEW rest \in SUBSET ListedRows
  PROVE  LET n == [w EXCEPT !.todo = rest, !.step = "next", !.new = 0]
         IN  /\ n \in Sweeps /\ n.step = "next" /\ n.todo = rest
             /\ n.calm = w.calm /\ n.listed = w.listed
<1>1. 0 \in Priorities \cup {Asleep}
  BY DEF Priorities
<1>2. /\ w.listed \in SUBSET Instances /\ w.calm \in BOOLEAN
      /\ DOMAIN w = {"step", "todo", "new", "listed", "calm"}
  BY DEF Sweeps
<1> QED BY <1>1, <1>2 DEF Sweeps
\* The loop goes on, when what the turn was about has been settled.
LEMMA AdvanceKeeps ==
  ASSUME SInv, NEW s \in Sweepers, sweeper[s].step # "idle", Advance(s),
         state' \in [Instances -> {"RUN", "SLEEP"}], prio' \in [Instances -> Priorities],
         UNCHANGED age,
         sweeper[s].calm => \A i \in sweeper[s].listed :
           Settled(i)' \/ \E r \in sweeper[s].todo : r.i = i /\ r.prio = prio'[i] /\ r # Turn(s)
  PROVE  SInv' /\ Leaves(s)
<1> DEFINE w == sweeper[s]
           rest == w.todo \ {Turn(s)}
           next == [w EXCEPT !.todo = rest, !.step = "next", !.new = 0]
<1>1. /\ w \in Sweeps /\ w.todo \in SUBSET ListedRows /\ w.todo # {}
      /\ \A q, r \in w.todo : q.i = r.i => q = r
  BY DEF SInv, Types, RowsFit, Fitting, Sweeps
<1>2. /\ next \in Sweeps /\ next.step = "next" /\ next.todo = rest
      /\ next.calm = w.calm /\ next.listed = w.listed
  BY <1>1, NextRowType
<1>3. Idle \in Sweeps /\ Idle.step = "idle" /\ Idle.todo = {}
  BY DEF Idle, Sweeps, Priorities
<1>4. After(s) = IF rest = {} THEN Idle ELSE next
  BY DEF After
<1> HIDE DEF next
<1>5. After(s) \in Sweeps /\ Fitting(After(s))
  BY <1>1, <1>2, <1>3, <1>4 DEF Fitting
<1>6. ASSUME sweeper'[s] = After(s) PROVE CalmRow(s)'
  <2>1. CASE rest = {}
    BY <1>3, <1>4, <1>6, <2>1 DEF CalmRow
  <2>2. CASE rest # {}
    BY <1>2, <1>4, <1>6, <2>2 DEF CalmRow, Undone
  <2> QED BY <2>1, <2>2
<1>7. sweeper' = Disturbed([sweeper EXCEPT ![s] = After(s)], Others(s))
  BY DEF Advance
<1>8. SInv' /\ sweeper'[s] = After(s)
  BY <1>5, <1>6, <1>7, DisturbingKeeps
<1>9. Leaves(s)
  <2> SUFFICES ASSUME w.calm, sweeper'[s].step = "idle", NEW i \in w.listed PROVE Settled(i)'
    BY DEF Leaves
  <2>1. rest = {}
    BY <1>2, <1>4, <1>8
  <2> QED BY <2>1
<1> QED BY <1>8, <1>9

LEMMA ListKeepsRows ==
  ASSUME SInv, NEW s \in Sweepers, List(s)
  PROVE  SInv'
<1> DEFINE v == [Idle EXCEPT !.step = "next", !.todo = Considered,
                             !.listed = {r.i : r \in Considered},
                             !.calm = \A o \in Others(s) : sweeper[o].step = "idle"]
<1>1. /\ sweeper' = [sweeper EXCEPT ![s] = v] /\ UNCHANGED <<state, prio, age>>
      /\ Considered # {}
  BY DEF List
<1>2. /\ Considered \in SUBSET ListedRows
      /\ \A r \in Considered : r.prio = prio[r.i]
  <2>1. \A r \in Considered : \E i \in Instances : r = [i |-> i, prio |-> prio[i]]
    BY DEF Considered, Page, Running
  <2>2. \A i \in Instances : prio[i] \in Priorities
    BY DEF SInv, Types
  <2> QED BY <2>1, <2>2 DEF ListedRows
<1>3. /\ v.step = "next" /\ v.todo = Considered /\ v.listed = {r.i : r \in Considered}
      /\ v \in Sweeps
  <2>1. \A r \in Considered : r.i \in Instances
    BY <1>2 DEF ListedRows
  <2>2. {r.i : r \in Considered} \in SUBSET Instances
    BY <2>1
  <2> DEFINE those == {r.i : r \in Considered}
             calm == \A o \in Others(s) : sweeper[o].step = "idle"
  <2>3. PICK b \in BOOLEAN : b = calm
    OBVIOUS
  <2>4. v = [Idle EXCEPT !.step = "next", !.todo = Considered, !.listed = those, !.calm = b]
    BY <2>3
  <2> HIDE DEF those, calm, v
  <2>5. those \in SUBSET Instances
    BY <2>2 DEF those
  <2>6. v \in Sweeps /\ v.step = "next" /\ v.todo = Considered /\ v.listed = those
    <3>1. 0 \in Priorities \cup {Asleep}
      BY DEF Priorities
    <3> QED BY <1>2, <2>3, <2>4, <2>5, <3>1 DEF Idle, Sweeps
  <2> QED BY <2>6 DEF those
<1> HIDE DEF v
<1>4. Fitting(v)
  BY <1>1, <1>2, <1>3 DEF Fitting, ListedRows
<1>5. sweeper'[s] = v
  BY <1>1 DEF SInv, Types
<1>6. \A i \in v.listed : \E r \in v.todo : r.i = i /\ r.prio = prio'[i]
  BY <1>1, <1>2, <1>3
<1>7. CalmRow(s)'
  BY <1>3, <1>5, <1>6 DEF CalmRow, Undone
<1> QED BY <1>1, <1>3, <1>4, <1>7, OwnKeeps

\* What the invariant says of the row whose turn it is, and of the others.
LEMMA TurnFacts ==
  ASSUME SInv, NEW s \in Sweepers, sweeper[s].step # "idle"
  PROVE  /\ sweeper[s] \in Sweeps
         /\ Turn(s) \in sweeper[s].todo /\ Turn(s).i \in Instances /\ Turn(s).prio \in Priorities
         /\ \A r \in sweeper[s].todo : r.i \in Instances /\ (r.i = Turn(s).i => r = Turn(s))
         /\ \A i \in Instances : Deserved(i) \in Priorities \cup {Asleep}
<1>1. /\ sweeper[s] \in Sweeps /\ Fitting(sweeper[s])
      /\ sweeper[s].todo \in SUBSET ListedRows
  BY DEF SInv, Types, RowsFit, Sweeps
<1>2. Turn(s) \in sweeper[s].todo
  BY <1>1, TurnIn DEF Fitting
<1>3. \A r \in sweeper[s].todo : r.i \in Instances /\ r.prio \in Priorities
  BY <1>1 DEF ListedRows
<1>4. \A i \in Instances : Deserved(i) \in Priorities \cup {Asleep}
  BY DeservedPriority DEF SInv, Types
<1> QED BY <1>1, <1>2, <1>3, <1>4 DEF Fitting

LEMMA DecideKeeps ==
  ASSUME SInv, NEW s \in Sweepers, Decide(s)
  PROVE  SInv' /\ Leaves(s)
<1> DEFINE w == sweeper[s]
           i0 == Turn(s).i
           new == Deserved(i0)
<1>1. /\ w.step = "next" /\ UNCHANGED <<state, prio, age>>
      /\ IF new = Turn(s).prio THEN Advance(s)
         ELSE sweeper' = [sweeper EXCEPT ![s].new = new,
                                         ![s].step = IF new = Asleep THEN "stop" ELSE "write"]
  BY DEF Decide
<1>2. /\ state' \in [Instances -> {"RUN", "SLEEP"}] /\ prio' \in [Instances -> Priorities]
      /\ \A i : Settled(i)' = Settled(i)
  BY <1>1 DEF SInv, Types, Settled, Deserved
<1>3. w.calm => \A i \in w.listed : Settled(i) \/ \E r \in w.todo : r.i = i /\ r.prio = prio[i]
  BY <1>1 DEF SInv, CalmRows, CalmRow, Undone
<1>4. CASE new = Turn(s).prio
  <2>1. ASSUME w.calm, NEW i \in w.listed, ~Settled(i)
        PROVE  \E r \in w.todo : r.i = i /\ r.prio = prio[i] /\ r # Turn(s)
    <3>1. PICK r \in w.todo : r.i = i /\ r.prio = prio[i]
      BY <1>3, <2>1
    <3>2. r # Turn(s)
      <4> SUFFICES ASSUME r = Turn(s) PROVE FALSE
        OBVIOUS
      <4>1. i = i0 /\ prio[i] = new /\ new \in Priorities
        BY <1>1, <1>4, <3>1, TurnFacts
      <4>2. new # Asleep
        BY <4>1 DEF Priorities, Asleep
      <4> QED BY <2>1, <4>1, <4>2 DEF Settled
    <3> QED BY <3>1, <3>2
  <2>2. Advance(s) /\ w.step # "idle"
    BY <1>1, <1>4
  <2>3. UNCHANGED prio /\ UNCHANGED age
    BY <1>1
  <2>4. w.calm => \A i \in w.listed :
          Settled(i)' \/ \E r \in w.todo : r.i = i /\ r.prio = prio'[i] /\ r # Turn(s)
    BY <1>2, <2>1, <2>3
  <2> QED BY <1>2, <2>2, <2>3, <2>4, AdvanceKeeps
<1>5. CASE new # Turn(s).prio
  <2> DEFINE v == [w EXCEPT !.new = new, !.step = IF new = Asleep THEN "stop" ELSE "write"]
  <2>1. w \in Sweeps /\ new \in Priorities \cup {Asleep}
    BY <1>1, TurnFacts
  <2>2. sweeper' = [sweeper EXCEPT ![s] = v] /\ sweeper'[s] = v
    BY <1>1, <1>5 DEF SInv, Types
  <2> HIDE DEF new
  <2>3. /\ v \in Sweeps /\ v.todo = w.todo /\ v.new = new /\ v.calm = w.calm
        /\ v.listed = w.listed /\ v.step = IF new = Asleep THEN "stop" ELSE "write"
    BY <2>1 DEF Sweeps
  <2> HIDE DEF v
  <2>4. Fitting(v)
    BY <1>1, <2>3 DEF SInv, RowsFit, Fitting
  <2>5. Turn(s)' = Turn(s) /\ Deserved(Turn(s).i)' = new
    BY <1>1, <2>2, <2>3 DEF Turn, Deserved, new
  <2>6. CalmRow(s)'
    <3>1. w.calm => \A i \in w.listed : Settled(i)' \/ Undone(s, i)'
      BY <1>1, <1>2, <1>3, <2>2, <2>3 DEF Undone
    <3> QED BY <2>2, <2>3, <2>5, <3>1 DEF CalmRow
  <2>7. SInv'
    BY <1>1, <2>2, <2>3, <2>4, <2>6, OwnKeeps
  <2> QED BY <2>2, <2>3, <2>7 DEF Leaves
<1> QED BY <1>4, <1>5

LEMMA StopKeeps ==
  ASSUME SInv, NEW s \in Sweepers, Stop(s)
  PROVE  SInv' /\ Leaves(s)
<1> DEFINE w == sweeper[s]
<1>1. w.step = "stop" /\ w.step # "idle"
  BY DEF Stop
<1>2. PICK i0 \in Instances : i0 = Turn(s).i
  BY <1>1, TurnFacts
<1>3. /\ state' = [state EXCEPT ![i0] = "SLEEP"] /\ Advance(s)
      /\ UNCHANGED <<prio, age>>
  BY <1>2 DEF Stop
<1>4. /\ state' \in [Instances -> {"RUN", "SLEEP"}] /\ prio' \in [Instances -> Priorities]
      /\ state'[i0] = "SLEEP"
      /\ \A i \in Instances : i # i0 => state'[i] = state[i]
  BY <1>3, <1>1 DEF SInv, Types
<1>5. \A i \in Instances : Settled(i) => Settled(i)'
  BY <1>3, <1>4 DEF Settled, Deserved
<1>6. ASSUME w.calm, NEW i \in w.listed
      PROVE  Settled(i)' \/ \E r \in w.todo : r.i = i /\ r.prio = prio'[i] /\ r # Turn(s)
  <2>1. /\ Settled(i) \/ \E r \in w.todo : r.i = i /\ r.prio = prio[i]
        /\ w.new = Deserved(i0) /\ w.new = Asleep
    BY <1>1, <1>6, <1>2 DEF SInv, CalmRows, CalmRow, Undone, RowsFit, Fitting
  <2>2. Settled(i0)'
    <3>1. Deserved(i0)' = Asleep
      BY <1>3, <2>1 DEF Deserved
    <3> QED BY <1>4, <3>1 DEF Settled
  <2>3. i \in Instances
    BY <1>1, TurnFacts DEF Sweeps
  <2>4. CASE i = i0
    BY <2>2, <2>4
  <2>5. CASE i # i0
    BY <1>3, <1>5, <1>2, <2>1, <2>3, <2>5
  <2> QED BY <2>4, <2>5
<1> QED BY <1>3, <1>1, <1>4, <1>6, AdvanceKeeps

LEMMA WriteKeeps ==
  ASSUME SInv, NEW s \in Sweepers, Write(s)
  PROVE  SInv' /\ Leaves(s)
<1> DEFINE w == sweeper[s]
           v == [w EXCEPT !.step = "resources"]
<1>1. w.step = "write" /\ w.step # "idle"
  BY DEF Write
<1>2. PICK i0 \in Instances : i0 = Turn(s).i
  BY <1>1, TurnFacts
<1>3. /\ prio' = [prio EXCEPT ![i0] = w.new] /\ UNCHANGED <<state, age>>
      /\ sweeper' = Disturbed([sweeper EXCEPT ![s] = v], Others(s))
  BY <1>2 DEF Write
<1>4. w \in Sweeps /\ w.new \in Priorities
  <2>1. w \in Sweeps /\ w.new # Asleep
    BY <1>1, TurnFacts DEF SInv, RowsFit, Fitting
  <2> QED BY <2>1 DEF Sweeps
<1>5. /\ v \in Sweeps /\ v.step = "resources" /\ v.todo = w.todo /\ v.calm = w.calm
      /\ v.listed = w.listed
  BY <1>4 DEF Sweeps
<1> HIDE DEF v
<1>6. Fitting(v)
  BY <1>1, <1>5 DEF SInv, RowsFit, Fitting
<1>7. /\ prio' \in [Instances -> Priorities] /\ prio'[i0] = w.new
      /\ \A i \in Instances : i # i0 => prio'[i] = prio[i]
  BY <1>3, <1>4 DEF SInv, Types
<1>8. /\ state' \in [Instances -> {"RUN", "SLEEP"}]
      /\ \A i : Deserved(i)' = Deserved(i)
  BY <1>3 DEF SInv, Types, Deserved
<1>9. ASSUME sweeper'[s] = v PROVE CalmRow(s)'
  <2> SUFFICES ASSUME w.calm, NEW i \in w.listed PROVE Settled(i)' \/ Undone(s, i)'
    BY <1>5, <1>9 DEF CalmRow
  <2>1. /\ Settled(i) \/ \E r \in w.todo : r.i = i /\ r.prio = prio[i]
        /\ w.new = Deserved(i0) /\ w.new # Asleep
    BY <1>1, <1>2 DEF SInv, CalmRows, CalmRow, Undone, RowsFit, Fitting
  <2>2. i \in Instances
    BY <1>4 DEF Sweeps
  <2>3. CASE i = i0
    BY <1>7, <1>8, <2>1, <2>3 DEF Settled
  <2>4. CASE i # i0
    <3>1. Settled(i) => Settled(i)'
      BY <1>3, <1>7, <1>8, <2>2, <2>4 DEF Settled
    <3>2. Turn(s)' = Turn(s)
      BY <1>5, <1>9 DEF Turn
    <3>3. ASSUME NEW r \in w.todo, r.i = i, r.prio = prio[i] PROVE Undone(s, i)'
      BY <1>2, <1>5, <1>7, <1>9, <2>2, <2>4, <3>2, <3>3 DEF Undone
    <3> QED BY <2>1, <3>1, <3>3
  <2> QED BY <2>3, <2>4
<1>10. SInv' /\ sweeper'[s] = v
  BY <1>3, <1>5, <1>6, <1>7, <1>8, <1>9, DisturbingKeeps
<1> QED BY <1>5, <1>10 DEF Leaves

LEMMA ComputeKeeps ==
  ASSUME SInv, NEW s \in Sweepers, Compute(s)
  PROVE  SInv' /\ Leaves(s)
<1> DEFINE w == sweeper[s]
           v == [w EXCEPT !.step = "apply"]
<1>1. /\ w.step = "resources" /\ w \in Sweeps /\ UNCHANGED <<state, prio, age>>
      /\ sweeper' = [sweeper EXCEPT ![s] = v] /\ sweeper'[s] = v
  BY DEF Compute, SInv, Types
<1>2. /\ v \in Sweeps /\ v.step = "apply" /\ v.todo = w.todo /\ v.calm = w.calm
      /\ v.listed = w.listed
  BY <1>1 DEF Sweeps
<1> HIDE DEF v
<1>3. Fitting(v)
  BY <1>1, <1>2 DEF SInv, RowsFit, Fitting
<1>4. Turn(s)' = Turn(s)
  BY <1>1, <1>2 DEF Turn
<1>5. \A i : Settled(i)' = Settled(i) /\ (Undone(s, i) => Undone(s, i)')
  BY <1>1, <1>2, <1>4 DEF Settled, Deserved, Undone
<1>6. CalmRow(s)'
  BY <1>1, <1>2, <1>5 DEF SInv, CalmRows, CalmRow
<1>7. SInv'
  BY <1>1, <1>2, <1>3, <1>6, OwnKeeps
<1> QED BY <1>1, <1>2, <1>7 DEF Leaves

LEMMA ApplyKeeps ==
  ASSUME SInv, NEW s \in Sweepers, Apply(s)
  PROVE  SInv' /\ Leaves(s)
<1> DEFINE w == sweeper[s]
<1>1. /\ w.step = "apply" /\ w.step # "idle" /\ Advance(s)
      /\ UNCHANGED <<state, prio, age>>
  BY DEF Apply
<1>2. /\ state' \in [Instances -> {"RUN", "SLEEP"}] /\ prio' \in [Instances -> Priorities]
      /\ \A i : Settled(i)' = Settled(i)
  BY <1>1 DEF SInv, Types, Settled, Deserved
<1>3. w.calm => \A i \in w.listed :
        Settled(i)' \/ \E r \in w.todo : r.i = i /\ r.prio = prio'[i] /\ r # Turn(s)
  BY <1>1, <1>2 DEF SInv, CalmRows, CalmRow, Undone
<1> QED BY <1>1, <1>2, <1>3, AdvanceKeeps

LEMMA FailKeepsRows ==
  ASSUME SInv, NEW s \in Sweepers, Fail(s)
  PROVE  SInv'
<1>1. /\ sweeper' = Disturbed([sweeper EXCEPT ![s] = Idle], Others(s))
      /\ UNCHANGED <<state, prio, age>>
  BY DEF Fail
<1>2. Idle \in Sweeps /\ Idle.step = "idle" /\ Idle.todo = {}
  BY DEF Idle, Sweeps, Priorities
<1>3. Fitting(Idle)
  BY <1>2 DEF Fitting
<1>4. sweeper'[s] = Idle => CalmRow(s)'
  BY <1>2 DEF CalmRow
<1>5. state' \in [Instances -> {"RUN", "SLEEP"}] /\ prio' \in [Instances -> Priorities]
  BY <1>1 DEF SInv, Types
<1> QED BY <1>1, <1>2, <1>3, <1>4, <1>5, DisturbingKeeps

\* A request that starts an instance or changes its priority.
LEMMA CallStepsKeep ==
  ASSUME SInv, NEW c \in Callers,
         \/ Call(c)
         \/ \E i \in Instances :
               Start(c, i) \/ \E p \in Asked, apply \in BOOLEAN : UpdatePriority(c, i, p, apply)
  PROVE  SInv'
<1> USE DEF SInv, Types
<1>1. CASE CallComputes(c)
  <2>1. UNCHANGED <<state, prio, age, sweeper>>
    BY <1>1 DEF CallComputes
  <2>2. Types' /\ RowsFit'
    BY <2>1 DEF RowsFit, Fitting
  <2>3. CalmRows'
    BY <2>1, SameSweep DEF CalmRows
  <2> QED BY <2>2, <2>3
<1>2. CASE CallApplies(c) \/ CallFails(c)
  <2>1. UNCHANGED <<state, prio, age>> /\ Beside
    BY <1>2 DEF CallApplies, CallFails
  <2> QED BY <2>1, BesideKeeps
<1>3. CASE Runs(c)
  <2>1. state' = [state EXCEPT ![caller[c].i] = "RUN"] /\ UNCHANGED <<prio, age>> /\ Beside
    BY <1>3 DEF Runs
  <2>2. state' \in [Instances -> {"RUN", "SLEEP"}]
    BY <2>1
  <2> QED BY <2>1, <2>2, BesideKeeps
<1>4. CASE \E i \in Instances : Start(c, i)
  <2>1. PICK i \in Instances : Start(c, i)
    BY <1>4
  <2>2. getMaxPriority(Level[i]) \in Priorities
    BY MaxPriorityType, SweepAssumption
  <2>3. /\ prio' = [prio EXCEPT ![i] = getMaxPriority(Level[i])] /\ UNCHANGED <<state, age>>
        /\ Beside
    BY <2>1 DEF Start
  <2> QED BY <2>2, <2>3, BesideKeeps
<1>5. CASE \E i \in Instances, p \in Asked, apply \in BOOLEAN : UpdatePriority(c, i, p, apply)
  <2>1. PICK i \in Instances, p \in Asked, apply \in BOOLEAN : UpdatePriority(c, i, p, apply)
    BY <1>5
  <2>2. p \in Priorities
    BY SweepAssumption
  <2>3. /\ prio' = [prio EXCEPT ![i] = p] /\ UNCHANGED <<state, age>> /\ Beside
    BY <2>1 DEF UpdatePriority
  <2> QED BY <2>2, <2>3, BesideKeeps
<1> QED BY <1>1, <1>2, <1>3, <1>4, <1>5 DEF Call

LEMMA BesideStepsKeep ==
  ASSUME SInv, NEW i \in Instances, Query(i) \/ Pass(i)
  PROVE  SInv'
<1> USE DEF SInv, Types
<1>1. CASE Query(i)
  BY <1>1, BesideKeeps, SweepAssumption DEF Query
<1>3. CASE Pass(i)
  <2> DEFINE S == {b \in Ages : b > age[i]}
  <2>1. age[i] \in Nat /\ S \in SUBSET Nat /\ S # {}
    BY <1>3, SweepAssumption DEF Pass, Never
  <2>2. Min(S) \in S
    BY <2>1, LeastNatural
  <2>3. Older(age[i]) \in Ages
    BY <2>2 DEF Older
  <2> QED BY <1>3, <2>3, BesideKeeps DEF Pass
<1> QED BY <1>1, <1>3

LEMMA NextKeepsRows ==
  ASSUME SInv, [Next]_vars
  PROVE  SInv'
<1>1. ASSUME NEW s \in Sweepers, List(s) \/ Step(s) \/ Fail(s) PROVE SInv'
  BY <1>1, ListKeepsRows, DecideKeeps, StopKeeps, WriteKeeps, ComputeKeeps,
     ApplyKeeps, FailKeepsRows DEF Step
<1>2. CASE UNCHANGED vars
  <2>1. UNCHANGED <<state, prio, age, sweeper>>
    BY <1>2 DEF vars
  <2>2. Types' /\ RowsFit'
    BY <2>1 DEF SInv, Types, RowsFit, Fitting
  <2>3. CalmRows'
    BY <2>1, SameSweep DEF SInv, CalmRows
  <2> QED BY <2>2, <2>3 DEF SInv
<1> QED BY <1>1, <1>2, BesideStepsKeep, CallStepsKeep DEF Next

\* A sweep that nothing disturbs leaves each instance it listed asleep or with the
\* priority it deserves in its row (admin.js, sleepInstances), for any number of
\* instances and sweeps, and whatever was going on before it began.
THEOREM SweepsSettle == Spec => SweepSettles
<1>1. SInv /\ [Next]_vars => SInv'
  BY NextKeepsRows
<1>2. SInv =>
        [\A s \in Sweepers :
           Step(s) /\ sweeper[s].calm /\ sweeper'[s].step = "idle" =>
             \A i \in sweeper[s].listed : Settled(i)']_vars
  BY DecideKeeps, StopKeeps, WriteKeeps, ComputeKeeps, ApplyKeeps DEF Step, Leaves
<1> QED BY InitSInv, <1>1, <1>2, PTL DEF Spec, SweepSettles

=============================================================================
