------------------------------ MODULE MCBroker ------------------------------
(* The broker with sessions of up to four records and windows of two.     *)
EXTENDS Broker
=============================================================================
