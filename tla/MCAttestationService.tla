------------------------ MODULE MCAttestationService ------------------------
(* Two hosts, one of them without a TPM; two connections that race for one *)
(* challenge; two proposals, and two baselines nobody was enrolled with,   *)
(* so that stale proposals, forks and shared baselines can be tried.  An   *)
(* inventory of 2 is within the rule of every baseline.                    *)
EXTENDS AttestationService, TLC
CONSTANTS h1, h2, c1, m1, m2, w1, w2
MCHosts == {h1, h2}
MCTpmHosts == {h1}
Controlled(m, n) == [measurement |-> m, size |-> n]
MCBaselines == {Controlled(m1, 1), Controlled(m1, 3), Controlled(m2, 1), Controlled(m2, 3)}
MCEnrolled == h1 :> Controlled(m1, 1) @@ h2 :> Controlled(m2, 1)
Symmetric == Permutations({w1, w2})
=============================================================================
