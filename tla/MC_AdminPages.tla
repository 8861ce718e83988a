---------------------------- MODULE MC_AdminPages ----------------------------
(***************************************************************************)
(* TLC instance of AdminPages, pages.cfg: two roles and one table.  A move *)
(* while a change is under way, two changes, a change that fails, and two  *)
(* moves with an answer that fails.                                        *)
(***************************************************************************)
EXTENDS AdminPages

Budget(m, c, f) == [moves |-> m, changes |-> c, faults |-> f]
MCBudgets == {Budget(1, 1, 0), Budget(0, 2, 0), Budget(0, 1, 1), Budget(2, 0, 1)}
==============================================================================
