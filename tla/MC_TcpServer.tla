----------------------------- MODULE MC_TcpServer -----------------------------
(***************************************************************************)
(* TLC instance of TcpServer, tcp_server.cfg: two sessions share three     *)
(* sockets, so that one session may have its client, TLS and a server, or  *)
(* a client and two servers, or both sessions are open at the shutdown.    *)
(***************************************************************************)
EXTENDS TcpServer
=============================================================================
