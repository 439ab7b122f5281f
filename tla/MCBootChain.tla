---------------------------- MODULE MCBootChain -----------------------------
(* The operator has two artifacts, the launcher may be booted from the     *)
(* entry it is configured to start.                                        *)
EXTENDS BootChain, TLC

MCArtifacts == {[version |-> 1, digest |-> "d1"], [version |-> 2, digest |-> "d2"]}
=============================================================================
