--------------------------- MODULE MC_ApiRequest ---------------------------
(***************************************************************************)
(* TLC instance of ApiRequest, api.cfg: one caller sends any request, as   *)
(* anyone, or as an administrator with a name that is left out or unknown; *)
(* the other one the request that ends the process.                        *)
(***************************************************************************)
EXTENDS ApiRequest
CONSTANTS c1, c2

MCMaySend ==
  c1 :> ([call : WebCalls \cup BackupCommands, who : People, org : {"named"}]
           \cup [call : WebCalls, who : {"admin"}, org : {"unknown"}]
           \cup [call : Commands, who : {"admin"}, org : {"bare"}]) @@
  c2 :> [call : {w \in WebCalls : w.does = <<"database", "link">>}, who : {"member"}, org : {"named"}]
=============================================================================
