--------------------------- MODULE MCGatewayServer ---------------------------
(* Two publications of the active artifact, and one place for connections: *)
(* the second goroutine starts while the first, which has given its place  *)
(* up, is not yet done.                                                    *)
EXTENDS GatewayServer, TLC
=============================================================================
