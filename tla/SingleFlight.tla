---------------------------- MODULE SingleFlight ----------------------------
(***************************************************************************)
(* What AdminModel.startInstance (models/admin.js) promises its callers:   *)
(* starts of one instance do not overlap, and a caller is told that the    *)
(* instance is up only while no start of it is under way.  The HTTP        *)
(* request that leads a start is not told so: it awaits PostgREST alone.   *)
(* Nothing is said of the health check, the promises or PostgREST:         *)
(* StartInstance has them.                                                 *)
(***************************************************************************)
CONSTANT Callers

VARIABLES
  call,      \* per caller: "idle", "waiting", told "ok", or "over" otherwise
  starting   \* models.instance.start and its wait for the port are running

vars == <<call, starting>>

TypeOK ==
  /\ call \in [Callers -> {"idle", "waiting", "ok", "over"}]
  /\ starting \in BOOLEAN

Init == call = [c \in Callers |-> "idle"] /\ starting = FALSE

\* A caller asks, or asks again.
Call(c) ==
  /\ call[c] # "waiting"
  /\ call' = [call EXCEPT ![c] = "waiting"]
  /\ UNCHANGED starting

\* A start begins on behalf of a caller who waits.
Begin ==
  /\ ~starting /\ starting' = TRUE
  /\ \E c \in Callers : call[c] = "waiting"
  /\ UNCHANGED call

\* Some of the waiting callers are answered, and a start may end with it; the
\* answer is "ok" only for those told when no start is under way.
Answer ==
  /\ starting' \in {starting, FALSE}
  /\ call' \in [Callers -> {"idle", "waiting", "ok", "over"}]
  /\ \A c \in Callers :
       \/ call'[c] = call[c]
       \/ call[c] = "waiting" /\ call'[c] = "over"
       \/ call[c] = "waiting" /\ call'[c] = "ok" /\ ~starting

Next == (\E c \in Callers : Call(c)) \/ Begin \/ Answer

Spec == Init /\ [][Next]_vars
=============================================================================
