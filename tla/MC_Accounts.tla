----------------------------- MODULE MC_Accounts -----------------------------
(***************************************************************************)
(* TLC instances of Accounts, accounts.cfg.                                *)
(***************************************************************************)
EXTENDS Accounts, TLC

Symmetry == Permutations(Workers)
=============================================================================
