----------------------------- MODULE MCIdentity -----------------------------
(***************************************************************************)
(* A TPM with three transient slots (the least the TPM library asks of a   *)
(* platform), three identities generated in all, one new seed of either    *)
(* kind (a clear, or another TPM), and two slots leaked between restarts:  *)
(* with two leaked, opening an identity fails for lack of slots.           *)
(***************************************************************************)
EXTENDS Identity
=============================================================================
