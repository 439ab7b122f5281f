---------------------------- MODULE MCPicoTunnel ----------------------------
(* Two USB sessions and two connections, a few bytes each way.             *)
EXTENDS PicoTunnel
=============================================================================
