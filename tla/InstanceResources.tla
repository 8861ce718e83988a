------------------------- MODULE InstanceResources -------------------------
(***************************************************************************)
(* lib/instance-resources.js: the pod priority that an instance deserves,  *)
(* from its availability level and the hours since its last event.         *)
(***************************************************************************)
EXTENDS Integers, FiniteSetsExt

Levels == {"ALWAYS", "HIGH", "MEDIUM", "LOW"}
Day == 24
Priorities == 0 .. 10
Never == -1         \* an instance that has had no event yet
Asleep == -2        \* the answer {sleep: true}

\* Idle for longer than this, an instance is put to sleep.
SleepAt == [HIGH |-> 60 * Day, MEDIUM |-> 35 * Day, LOW |-> 7 * Day]

\* STATES: a level's priorities, each with the age below which it applies.
HighUntil == [p \in 4 .. 10 |-> <<14, 7, 5, 4, 3, 2, 1>>[p - 3] * Day]
MediumUntil == [p \in 2 .. 10 |-> <<28 * Day, 21 * Day, 7 * Day, 4 * Day, 3 * Day,
                                    2 * Day, Day, Day, 8>>[p - 1]]
LowUntil == [p \in 0 .. 8 |-> <<96, 72, 48, 24, 12, 8, 4, 2, 1>>[p + 1]]
Until == [HIGH |-> HighUntil, MEDIUM |-> MediumUntil, LOW |-> LowUntil]

\* The loop over STATES: the highest priority still open; when none is, the
\* level's last one.  A level's priorities leave no gap.
getResources(level, age) ==
  IF level = "ALWAYS" THEN 10
  ELSE IF SleepAt[level] < age THEN Asleep
  ELSE LET open == {p \in DOMAIN Until[level] : Until[level][p] > age}
       IN IF open = {} THEN Min(DOMAIN Until[level]) ELSE Max(open)

getMaxPriority(level) == IF level = "ALWAYS" THEN 10 ELSE Max(DOMAIN Until[level])

\* Without an event the answer does not depend on the level.
getInstanceResources(level, age) == IF age = Never THEN 9 ELSE getResources(level, age)
=============================================================================
