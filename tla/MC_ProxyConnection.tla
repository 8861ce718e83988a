------------------------- MODULE MC_ProxyConnection -------------------------
(***************************************************************************)
(* TLC instances of ProxyConnection: the .cfg files proxy_*.cfg give the   *)
(* constants their values.  Three chunks give the loop over pendingMessages *)
(* more than one shape, two deaths let the instance die again during a     *)
(* reconnect.                                                              *)
(***************************************************************************)
EXTENDS ProxyConnection
=============================================================================
