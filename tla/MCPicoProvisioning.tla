------------------------- MODULE MCPicoProvisioning -------------------------
(* Two records and three generations: a second SET, a third one and the    *)
(* generation limit are met.  The clock lets one press fail and another    *)
(* one latch, and one line waits in the queue at a time.                   *)
EXTENDS PicoProvisioning
=============================================================================
