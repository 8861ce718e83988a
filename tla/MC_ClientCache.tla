--------------------------- MODULE MC_ClientCache ---------------------------
(***************************************************************************)
(* TLC instance of ClientCache, client_cache.cfg.                          *)
(***************************************************************************)
EXTENDS ClientCache

MCDeep == {"database"} \X {"get", "update", "getFeaturedList", "addToFeaturedList"}
=============================================================================
