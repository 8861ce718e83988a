-------------------------- MODULE MC_StartInstance --------------------------
(***************************************************************************)
(* TLC instance of StartInstance, start_faults.cfg: three let one lead     *)
(* and two join, or one join a flight while an earlier leader still waits. *)
(***************************************************************************)
EXTENDS StartInstance
=============================================================================
