--------------------------- MODULE VersionRegister ---------------------------
(***************************************************************************)
(* What the anti-rollback controller promises its caller, with no slots,   *)
(* generations or TPM policies: one monotonic number per medium.  An       *)
(* advance that was accepted takes effect at most once, at any moment      *)
(* until it returns (or the power fails), and only to its own target; the  *)
(* answer "done" is given only when it did take effect.                    *)
(***************************************************************************)
EXTENDS Naturals

CONSTANTS Media, Versions

VARIABLES version,   \* medium -> its version, 0 before the first advance
          pending,   \* medium -> target of the advance under way, or 0
          answered   \* <<medium, version>> of an advance just confirmed, or <<>>

vars == <<version, pending, answered>>

Quiet == [m \in Media |-> 0]

Init == version = Quiet /\ pending = Quiet /\ answered = <<>>

Begin(m, v) == /\ pending = Quiet
               /\ v > version[m]
               /\ pending' = [Quiet EXCEPT ![m] = v]
               /\ answered' = <<>>
               /\ UNCHANGED version

Progress(m) ==
    /\ pending[m] # 0
    /\ version' \in {version, [version EXCEPT ![m] = pending[m]]}
    /\ pending' \in {pending, Quiet}
    /\ \/ answered' = <<>>
       \/ /\ pending' = Quiet /\ version'[m] = pending[m]
          /\ answered' = <<m, pending[m]>>

Forget == answered' = <<>> /\ UNCHANGED <<version, pending>>

Next == \/ \E m \in Media, v \in Versions : Begin(m, v)
        \/ \E m \in Media : Progress(m)
        \/ Forget

Spec == Init /\ [][Next]_vars
=============================================================================
