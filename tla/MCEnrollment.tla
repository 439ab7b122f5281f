---------------------------- MODULE MCEnrollment ----------------------------
(* Two runs of the client, with the same or different tokens and with the  *)
(* same or different identities, of which one is held by a TPM.            *)
EXTENDS Enrollment, TLC
Symmetric == Permutations(Runs) \cup Permutations(Tokens)
=============================================================================
