------------------------- MODULE MCAttestationClient -------------------------
(***************************************************************************)
(* Two runs one after the other over four milliseconds of two ticks each, a *)
(* challenge that lives two and a half of them, evidence of two records,   *)
(* and an event measured at any moment.                                    *)
(***************************************************************************)
EXTENDS AttestationClient
=============================================================================
