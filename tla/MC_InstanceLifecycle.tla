------------------------ MODULE MC_InstanceLifecycle ------------------------
(***************************************************************************)
(* TLC instance of InstanceLifecycle, lifecycle_repair.cfg: two processes  *)
(* and the probe are enough for a start, a stop and a repair at once.      *)
(***************************************************************************)
EXTENDS InstanceLifecycle
=============================================================================
