---------------------------- MODULE AntiRollback ----------------------------
(***************************************************************************)
(* The recovery version register of a PBNS host                            *)
(* (src/src/core/anti_rollback.c) over its two media: a pair of UEFI       *)
(* variables holding CRC-protected (generation, version) records           *)
(* (PbnsAntiRollbackNvram.c) and a TPM NV index written under a signed     *)
(* policy (PbnsAntiRollbackTpm.c).  A call runs alone, but each of its     *)
(* durable writes can fail, lie about its outcome or be cut by a power     *)
(* loss, and so can the power before and after it.                         *)
(***************************************************************************)
EXTENDS Integers

CONSTANTS Versions,       \* the artifact versions a caller may ask for
          MaxGeneration   \* UINT64_MAX, the last generation of a record

ASSUME VersionsAssumption == Versions \subseteq Nat \ {0}
ASSUME GenerationAssumption == MaxGeneration \in Nat \ {0}

VARIABLES slot,    \* the two UEFI variables, as decode_record sees them
          nv,      \* the TPM index: Undefined, Unwritten or its version
          call,    \* the running call of the controller
          result   \* what the last call returned

vars == <<slot, nv, call, result>>

Modes == {"T", "S"}      \* TPM, and software identity with NVRAM
Slots == {0, 1}
NoSlot == 2              \* PBNS_ANTI_ROLLBACK_NO_SLOT
Undefined == -1
Unwritten == 0

(* A record that decode_record refuses (absent variable, wrong magic, torn *)
(* write with a bad CRC) reads as generation 0 and version 0.              *)
Record == [generation : 0 .. MaxGeneration, version : Nat]
NoRecord == [generation |-> 0, version |-> 0]
decode_record(r) == r.generation > 0 /\ r.version > 0

Failed(status) == [status |-> status, version |-> 0, generation |-> 0,
                   active |-> NoSlot]

selected(s) == IF ~decode_record(s[0]) THEN 1
               ELSE IF decode_record(s[1]) /\ s[1].generation > s[0].generation
                    THEN 1 ELSE 0

read_nvram(s) ==
    IF ~decode_record(s[0]) /\ ~decode_record(s[1]) THEN Failed("OK")
    ELSE IF /\ decode_record(s[0]) /\ decode_record(s[1])
            /\ s[0].generation = s[1].generation
         THEN Failed("AMBIGUOUS")
         ELSE [status |-> "OK", version |-> s[selected(s)].version,
               generation |-> s[selected(s)].generation, active |-> selected(s)]

read_current(v) == IF v = Undefined THEN Failed("CRYPTO")
                   ELSE IF v = Unwritten THEN Failed("AUTHENTICATION")
                   ELSE [status |-> "OK", version |-> v, generation |-> 0,
                         active |-> NoSlot]

(* pbns_anti_rollback_read; a medium that cannot be read answers `fault`.  *)
ReadFaults(mode) == IF mode = "T" THEN {"BUSY", "CRYPTO"} ELSE {"IO"}
Answers(mode) == {IF mode = "T" THEN read_current(nv) ELSE read_nvram(slot)}
                 \cup {Failed(f) : f \in ReadFaults(mode)}

ReadStatuses == {"OK", "AMBIGUOUS", "CRYPTO", "AUTHENTICATION", "BUSY", "IO"}
Statuses == ReadStatuses \cup {"ARGUMENT", "REPLAY", "LIMIT", "STATE",
                               "SECURITY_VIOLATION"}
State == [status : ReadStatuses,
          version : Nat, generation : 0 .. MaxGeneration, active : {0, 1, NoSlot}]

Idle == [pc |-> "idle", op |-> "none", mode |-> "S", target |-> 0,
         current |-> Failed("OK")]
NoResult == [op |-> "none", mode |-> "S", status |-> "OK", version |-> 0]
Returns(op, mode, status, version) ==
    result' = [op |-> op, mode |-> mode, status |-> status, version |-> version]

(* The signed policy object a manifest carries, or the empty view.         *)
Authorizations == [kind : {"NONE", "INITIALIZE", "UPDATE"}, target : Versions]

-----------------------------------------------------------------------------
Init == /\ slot = [i \in Slots |-> NoRecord]
        /\ nv = Undefined
        /\ call = Idle
        /\ result = NoResult

Read(mode) ==
    /\ call.pc = "idle"
    /\ \E a \in Answers(mode) : Returns("read", mode, a.status, a.version)
    /\ UNCHANGED <<slot, nv, call>>

(* The checks pbns_anti_rollback_advance makes before it touches a medium, *)
(* with those of advance_tpm, in their order.                              *)
Refusal(mode, target, auth, cur) ==
    IF target = 0 THEN "ARGUMENT"
    ELSE IF cur.status # "OK" THEN cur.status
    ELSE IF target <= cur.version THEN "REPLAY"
    ELSE IF mode = "T"
         THEN IF auth.kind = "NONE" THEN "ARGUMENT"
              ELSE IF auth.kind # "UPDATE" \/ auth.target # target
                   THEN "AUTHENTICATION" ELSE "OK"
         ELSE IF auth.kind # "NONE" THEN "ARGUMENT"
              ELSE IF cur.generation = MaxGeneration THEN "LIMIT" ELSE "OK"

Advance(mode, target, auth) ==
    /\ call.pc = "idle"
    /\ \E cur \in Answers(mode) :
        LET refusal == Refusal(mode, target, auth, cur)
        IN IF refusal = "OK"
           THEN /\ call' = [pc |-> "write", op |-> "advance", mode |-> mode,
                            target |-> target, current |-> cur]
                /\ result' = NoResult
           ELSE Returns("advance", mode, refusal, target) /\ UNCHANGED call
    /\ UNCHANGED <<slot, nv>>

(* PbnsAntiRollbackTpmInitialize up to its write: an index that was never  *)
(* written is defined if need be, a written one is refused.  Every failure *)
(* is an EFI_SECURITY_VIOLATION.                                           *)
Initialize(auth) ==
    /\ call.pc = "idle"
    /\ \/ /\ auth.kind = "INITIALIZE" /\ nv \in {Undefined, Unwritten}
          /\ nv' = Unwritten
          /\ call' = [pc |-> "write", op |-> "initialize", mode |-> "T",
                      target |-> auth.target, current |-> Failed("OK")]
          /\ result' = NoResult
       \/ /\ Returns("initialize", "T", "SECURITY_VIOLATION", auth.target)
          /\ UNCHANGED <<nv, call>>
    /\ UNCHANGED slot

-----------------------------------------------------------------------------
active_overwritten == IF call.current.active = NoSlot THEN 0 ELSE call.current.active

inactive == IF call.current.active = NoSlot THEN 0 ELSE 1 - call.current.active

encode_record == [generation |-> call.current.generation + 1,
                  version |-> call.target]

(* What SetVariable may leave behind: the old record, the new one, or one  *)
(* whose CRC does not match.                                               *)
SlotWrites == {[slot EXCEPT ![inactive] = r] :
                   r \in {slot[inactive], encode_record, NoRecord}}

(* The running call returns `status`.                                      *)
ReturnsFrom(status) ==
    Returns(call.op, call.mode,
            IF call.op = "initialize" /\ status # "OK" THEN "SECURITY_VIOLATION"
            ELSE status, call.target)

Verifying == [call EXCEPT !.pc = "verify"]

write_slot ==
    /\ call.pc = "write" /\ call.mode = "S"
    /\ slot' \in SlotWrites
    /\ \/ call' = Verifying /\ UNCHANGED result
       \/ call' = Idle /\ ReturnsFrom("IO")
    /\ UNCHANGED nv

(* execute_policy: the TPM evaluates PolicyNV (the stored version is below *)
(* the new one) or PolicyNvWritten in the session that authorizes NV_Write.*)
(* A command, its answer or a flush after it may fail, whether or not the  *)
(* write took place.                                                       *)
PolicyHolds == nv < call.target

execute_policy ==
    /\ call.pc = "write" /\ call.mode = "T"
    /\ \/ /\ PolicyHolds
          /\ nv' = call.target
          /\ call' = Verifying
          /\ UNCHANGED result
       \/ /\ nv' \in {nv} \cup {v \in {call.target} : PolicyHolds}
          /\ call' = Idle
          /\ \E s \in {"BUSY", "CRYPTO", "STATE"} : ReturnsFrom(s)
    /\ UNCHANGED slot

(* The read that ends pbns_anti_rollback_advance.                          *)
readback_ignored(seen) == IF seen.status = "OK" THEN "OK" ELSE seen.status

VerifyStatus(seen) ==
    IF seen.status # "OK" THEN seen.status
    ELSE IF \/ seen.version # call.target
            \/ call.mode = "S" /\ seen.generation # call.current.generation + 1
         THEN "STATE" ELSE "OK"

Verify ==
    /\ call.pc = "verify"
    /\ \E seen \in Answers(call.mode) : ReturnsFrom(VerifyStatus(seen))
    /\ call' = Idle
    /\ UNCHANGED <<slot, nv>>

(* Power is lost; a write under way may or may not have reached its medium.*)
PowerLoss ==
    /\ call.pc # "idle"
    /\ slot' \in IF call.pc = "write" /\ call.mode = "S" THEN SlotWrites ELSE {slot}
    /\ nv' \in IF call.pc = "write" /\ call.mode = "T" /\ PolicyHolds
               THEN {nv, call.target} ELSE {nv}
    /\ call' = Idle
    /\ result' = NoResult

Next == \/ \E mode \in Modes : Read(mode)
        \/ \E mode \in Modes, target \in Versions \cup {0}, auth \in Authorizations :
              Advance(mode, target, auth)
        \/ \E auth \in Authorizations : Initialize(auth)
        \/ write_slot \/ execute_policy \/ Verify \/ PowerLoss

Spec == Init /\ [][Next]_vars

-----------------------------------------------------------------------------
(* The version a boot would read from each medium.                         *)
DurableVersion(mode) == IF mode = "S" THEN read_nvram(slot).version
                        ELSE IF nv > 0 THEN nv ELSE 0

(* What a caller sees of the controller: see VersionRegister.              *)
Pending == [m \in Modes |-> IF call.pc # "idle" /\ call.mode = m THEN call.target ELSE 0]
Answered == IF result.op \in {"advance", "initialize"} /\ result.status = "OK"
            THEN <<result.mode, result.version>> ELSE <<>>

Register == INSTANCE VersionRegister
    WITH Media <- Modes, version <- [m \in Modes |-> DurableVersion(m)],
         pending <- Pending, answered <- Answered

(* The controller over either medium implements the abstract register:     *)
(* every advance is atomic whatever write, readback or flush fails and     *)
(* wherever the power is cut.                                              *)
ImplementsRegister == Register!Spec

TypeOK ==
    /\ slot \in [Slots -> Record]
    /\ nv \in Nat \cup {Undefined}
    /\ call \in [pc : {"idle", "write", "verify"}, op : {"none", "advance", "initialize"},
                 mode : Modes, target : Nat, current : State]
    /\ result \in [op : {"none", "read", "advance", "initialize"}, mode : Modes,
                   status : Statuses, version : Nat]

(* The two variables never hold records of the same generation, so that no *)
(* failed, torn or interrupted advance leaves the controller answering     *)
(* PBNS_ERR_AMBIGUOUS at every later boot.                                 *)
NeverAmbiguous == read_nvram(slot).status = "OK"

(* No call, failure or power loss makes a later boot read a lower version  *)
(* from either medium: pbns_anti_rollback_advance only overwrites the slot *)
(* that does not hold the current version.                                 *)
NoRollback == [][\A m \in Modes : DurableVersion(m)' >= DurableVersion(m)]_vars

(* An advance that returned PBNS_OK is durable: the next boot reads the    *)
(* target version, even if SetVariable reported success without storing    *)
(* the record.                                                             *)
OkMeansDurable ==
    result.op \in {"advance", "initialize"} /\ result.status = "OK" =>
        DurableVersion(result.mode) = result.version
=============================================================================
