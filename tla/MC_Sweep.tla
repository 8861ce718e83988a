------------------------------ MODULE MC_Sweep ------------------------------
(***************************************************************************)
(* TLC instance of Sweep, sweep.cfg: one instance of each kind of level.   *)
(***************************************************************************)
EXTENDS Sweep

MCLevels == <<"ALWAYS", "LOW", "MEDIUM">>

\* What an instance that is ALWAYS available deserves does not depend on its
\* age, unless there is none: that is the one it starts with.
MCInit == Init /\ age[1] = Never
MCSpec == MCInit /\ [][Next]_vars /\ Fairness
=============================================================================
