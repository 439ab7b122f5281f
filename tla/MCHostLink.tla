----------------------------- MODULE MCHostLink -----------------------------
(***************************************************************************)
(* Two programs one after the other, each with four transport calls (an    *)
(* open, a transfer, a close and an open again, among all orders), tunnels *)
(* of four units in packets of two, and three attempts to destroy the TLS  *)
(* transport, as UefiMain makes.                                           *)
(***************************************************************************)
EXTENDS HostLink
=============================================================================
