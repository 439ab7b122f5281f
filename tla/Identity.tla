------------------------------ MODULE Identity ------------------------------
(***************************************************************************)
(* The host's identity: a key held by the TPM, or a software key kept in a *)
(* UEFI variable.  A program creates or opens one, uses it and closes it;  *)
(* the host may lose power at any step.  The TPM has few transient object  *)
(* slots and no resource manager, so every object a call loads must be     *)
(* flushed by it.                                                          *)
(*                                                                         *)
(* A record is the identity's number and the seeds of the TPM it was made  *)
(* by: the endorsement key and its name follow from the endorsement seed,  *)
(* the storage key's from the storage seed.  A handle whose flush fails,   *)
(* or whose creating command lost its answer, is a leaked slot.            *)
(***************************************************************************)
EXTENDS Naturals, FiniteSets

CONSTANTS Slots,    \* transient objects the TPM holds
          MaxIds,   \* identities ever generated
          MaxSeeds, \* storage seeds, and endorsement seeds, the TPM has had
          MaxLeaks  \* slots that may leak between two restarts

\* The TPM library asks at least three transient slots of a platform.
ASSUME IdentityAssumption ==
  Slots \in Nat /\ Slots >= 3 /\ MaxIds \in Nat /\ MaxSeeds \in Nat /\ MaxLeaks \in Nat

VARIABLES store,    \* the two variables: a record, none, or damaged
          tpm,      \* seeds, objects loaded by the program, leaked slots
          call,     \* the call in progress: kind, mode, step, record
          opened,   \* the identity the program holds, or none
          next,     \* number of the next identity
          kept      \* per kind, the identity last handed to a program and
                    \* neither reset nor given up for a new one

identityVars == <<store, tpm, call, opened, next, kept>>

Kinds == {"tpm", "software"}
NoRecord == [id |-> 0, ek |-> 0, srk |-> 0]
Damaged == [id |-> 0, ek |-> 1, srk |-> 1]
NoCall == [kind |-> "none", mode |-> "none", step |-> "none",
           record |-> NoRecord]
NotOpened == [kind |-> "none", id |-> 0]

IdentityInit ==
  /\ store = [k \in Kinds |-> NoRecord]
  /\ tpm = [ek |-> 1, srk |-> 1, loaded |-> {}, leaked |-> 0]
  /\ call = NoCall
  /\ opened = NotOpened
  /\ next = 1
  /\ kept = [k \in Kinds |-> 0]

At(k, s) == call.kind = k /\ call.step = s

Step(s) == call' = [call EXCEPT !.step = s]

\* The call answers an error and nothing is held.
End == call' = NoCall

\* A TPM call ends through context_final, which flushes what is loaded.
Final == Step("final_identity")

-----------------------------------------------------------------------------
(***************************************************************************)
(* The TPM and the variable store.                                         *)
(***************************************************************************)
Full == Cardinality(tpm.loaded) + tpm.leaked >= Slots

\* TPM2_CreatePrimary or TPM2_Load answers with a handle.
Load(object) == /\ ~Full
                /\ tpm' = [tpm EXCEPT !.loaded = @ \cup {object}]

\* The command fails, or its answer is lost.
LoadFails == \/ UNCHANGED tpm
             \/ /\ ~Full /\ tpm.leaked < MaxLeaks
                /\ tpm' = [tpm EXCEPT !.leaked = @ + 1]

\* flush_handle: the handle is forgotten whether or not the TPM flushed it.
Flush(object) ==
  \/ tpm' = [tpm EXCEPT !.loaded = @ \ {object}]
  \/ /\ object \in tpm.loaded /\ tpm.leaked < MaxLeaks
     /\ tpm' = [tpm EXCEPT !.loaded = @ \ {object}, !.leaked = @ + 1]

\* SetVariable: on an error, nothing, all or a part may have been stored.
Written(k, record, ok) ==
  IF ok THEN {record} ELSE {record, store[k], Damaged}

\* What the record of a new identity holds, and what passes for one.
TpmRecord == [id |-> next, ek |-> tpm.ek, srk |-> tpm.srk]
SoftwareRecord == [id |-> next, ek |-> 0, srk |-> 0]
TpmDecodes(record) == record.id # 0
SoftwareDecodes(record) == record.id # 0

-----------------------------------------------------------------------------
(***************************************************************************)
(* A program asks for an identity: PbnsEnroll's create, open and           *)
(* interactive modes.  Creating a TPM identity gives up the stored one.    *)
(***************************************************************************)
Ask(k, mode) ==
  /\ call = NoCall /\ opened = NotOpened
  /\ call' = [kind |-> k, mode |-> mode, record |-> NoRecord,
              step |-> IF mode # "create" THEN "read"
                       ELSE IF k = "tpm" THEN "context" ELSE "check"]
  /\ kept' = IF k = "tpm" /\ mode = "create" THEN [kept EXCEPT ![k] = 0]
                                             ELSE kept
  /\ UNCHANGED <<store, tpm, opened, next>>

\* The interactive mode creates an identity only where there is none.
Absent(record) == record = NoRecord

\* PbnsTpmStorageUefiRead, the decoding and the check of the names.
TpmRead ==
  /\ At("tpm", "read")
  /\ IF TpmDecodes(store["tpm"])
     THEN call' = [call EXCEPT !.step = "context", !.record = store["tpm"]]
     ELSE IF Absent(store["tpm"]) /\ call.mode = "interactive"
     THEN call' = [call EXCEPT !.step = "context", !.mode = "create"]
     ELSE End
  /\ UNCHANGED <<store, tpm, opened, next, kept>>

TpmReadFails ==
  /\ At("tpm", "read")
  /\ End
  /\ UNCHANGED <<store, tpm, opened, next, kept>>

\* context_init, and then discover_capabilities.
Context ==
  /\ At("tpm", "context")
  /\ Step("ek")
  /\ UNCHANGED <<store, tpm, opened, next, kept>>

ContextFails ==
  /\ At("tpm", "context")
  /\ End
  /\ UNCHANGED <<store, tpm, opened, next, kept>>

\* A TPM without what is needed, or not the one the record names.
RefuseTpm ==
  /\ At("tpm", "ek")
  /\ Final
  /\ UNCHANGED <<store, tpm, opened, next, kept>>

\* The endorsement key is created for its name alone.
CreateEk ==
  /\ At("tpm", "ek")
  /\ \/ Load("ek") /\ Step("flush_ek")
     \/ LoadFails /\ Final
  /\ UNCHANGED <<store, opened, next, kept>>

\* Opening compares the name of either key with the record.
NameMatches(key) == call.mode = "create" \/ call.record[key] = tpm[key]

ek_kept ==
  /\ At("tpm", "flush_ek")
  /\ UNCHANGED tpm
  /\ IF NameMatches("ek") THEN Step("srk") ELSE Final
  /\ UNCHANGED <<store, opened, next, kept>>

FlushEk ==
  /\ At("tpm", "flush_ek")
  /\ Flush("ek")
  /\ IF NameMatches("ek") THEN Step("srk") ELSE Final
  /\ UNCHANGED <<store, opened, next, kept>>

CreateSrk ==
  /\ At("tpm", "srk")
  /\ \/ Load("srk") /\ Step(IF NameMatches("srk") THEN "ak" ELSE "drop_srk")
     \/ LoadFails /\ Final
  /\ UNCHANGED <<store, opened, next, kept>>

\* create_child makes the keys of a new identity; they are then loaded as
\* the stored ones are.
LoadAk ==
  /\ At("tpm", "ak")
  /\ \/ /\ Load("ak")
        /\ \/ Step("identity")
           \/ Step("drop_srk")
     \/ LoadFails /\ Step("drop_srk")
  /\ UNCHANGED <<store, opened, next, kept>>

LoadIdentity ==
  /\ At("tpm", "identity")
  /\ \/ /\ Load("identity")
        /\ \/ /\ call.mode = "create" /\ next <= MaxIds
              /\ call' = [call EXCEPT !.step = "flush_srk",
                            !.record = TpmRecord]
              /\ next' = next + 1
           \/ /\ call.mode # "create"
              /\ Step("flush_srk")
              /\ UNCHANGED next
           \/ Step("drop_srk") /\ UNCHANGED next
     \/ LoadFails /\ Step("drop_srk") /\ UNCHANGED next
  /\ UNCHANGED <<store, opened, kept>>

FlushSrk ==
  /\ call.step \in {"flush_srk", "drop_srk"}
  /\ Flush("srk")
  /\ IF call.step = "drop_srk" THEN Final
     ELSE Step(IF call.mode = "create" THEN "write" ELSE "expose")
  /\ UNCHANGED <<store, opened, next, kept>>

\* PbnsTpmStorageUefiWrite: an existing record is overwritten.
TpmWrite ==
  /\ At("tpm", "write")
  /\ \E ok \in BOOLEAN : \E r \in Written("tpm", call.record, ok) :
       /\ store' = [store EXCEPT !["tpm"] = r]
       /\ IF ok THEN Step("read_back") ELSE Final
  /\ UNCHANGED <<tpm, opened, next, kept>>

TpmReadBack ==
  /\ At("tpm", "read_back")
  /\ \/ store["tpm"] = call.record /\ Step("expose")
     \/ Final
  /\ UNCHANGED <<store, tpm, opened, next, kept>>

\* expose_identity, finish_identity: the program gets its handle.
Expose ==
  /\ call.step = "expose"
  /\ opened' = [kind |-> call.kind, id |-> call.record.id]
  /\ kept' = [kept EXCEPT ![call.kind] = call.record.id]
  /\ End
  /\ UNCHANGED <<store, tpm, next>>

\* encode_cose fails.
ExposeFails ==
  /\ At("tpm", "expose")
  /\ Final
  /\ UNCHANGED <<store, tpm, opened, next, kept>>

\* context_final.
FinalIdentity ==
  /\ call.step = "final_identity"
  /\ Flush("identity")
  /\ Step("final_ak")
  /\ UNCHANGED <<store, opened, next, kept>>

FinalAk ==
  /\ call.step = "final_ak"
  /\ Flush("ak")
  /\ End
  /\ UNCHANGED <<store, opened, next, kept>>

-----------------------------------------------------------------------------
(***************************************************************************)
(* Calls on an open TPM identity that load the endorsement key again.      *)
(***************************************************************************)
EnrollmentPublic ==
  /\ call = NoCall /\ opened.kind = "tpm"
  /\ call' = [NoCall EXCEPT !.kind = "tpm", !.step = "public"]
  /\ UNCHANGED <<store, tpm, opened, next, kept>>

ActivateCredential ==
  /\ call = NoCall /\ opened.kind = "tpm"
  /\ call' = [NoCall EXCEPT !.kind = "tpm", !.step = "activate"]
  /\ UNCHANGED <<store, tpm, opened, next, kept>>

UseEk ==
  /\ call.step \in {"public", "activate"}
  /\ \/ Load("ek") /\ Step("used_ek")
     \/ LoadFails /\ End
  /\ UNCHANGED <<store, opened, next, kept>>

FlushUsedEk ==
  /\ call.step = "used_ek"
  /\ Flush("ek")
  /\ End
  /\ UNCHANGED <<store, opened, next, kept>>

\* identity_close.
CloseTpm ==
  /\ call = NoCall /\ opened.kind = "tpm"
  /\ opened' = NotOpened
  /\ call' = [NoCall EXCEPT !.kind = "tpm", !.step = "final_identity"]
  /\ UNCHANGED <<store, tpm, next, kept>>

-----------------------------------------------------------------------------
(***************************************************************************)
(* The software identity.                                                  *)
(***************************************************************************)
only_oversized_refused(record) == record = Damaged

\* pbns_software_identity_create refuses where the variable exists.
Occupied(record) == ~Absent(record)

SoftwareCheck ==
  /\ At("software", "check")
  /\ IF Occupied(store["software"]) THEN End ELSE Step("generate")
  /\ UNCHANGED <<store, tpm, opened, next, kept>>

SoftwareCheckFails ==
  /\ At("software", "check")
  /\ End
  /\ UNCHANGED <<store, tpm, opened, next, kept>>

Generate ==
  /\ At("software", "generate")
  /\ next <= MaxIds
  /\ call' = [call EXCEPT !.step = "write", !.record = SoftwareRecord]
  /\ next' = next + 1
  /\ UNCHANGED <<store, tpm, opened, kept>>

\* No memory, no entropy, or a key that cannot be encoded.
GenerateFails ==
  /\ At("software", "generate")
  /\ End
  /\ UNCHANGED <<store, tpm, opened, next, kept>>

SoftwareWrite ==
  /\ At("software", "write")
  /\ \E ok \in BOOLEAN : \E r \in Written("software", call.record, ok) :
       /\ store' = [store EXCEPT !["software"] = r]
       /\ Step(IF ok THEN "read_back" ELSE "remove")
  /\ UNCHANGED <<tpm, opened, next, kept>>

SoftwareReadBack ==
  /\ At("software", "read_back")
  /\ \/ store["software"] = call.record /\ Step("expose")
     \/ Step("remove")
  /\ UNCHANGED <<store, tpm, opened, next, kept>>

\* What a failed creation wrote is removed, if the store lets it.
Remove ==
  /\ At("software", "remove")
  /\ \E r \in {NoRecord, store["software"]} :
       store' = [store EXCEPT !["software"] = r]
  /\ End
  /\ UNCHANGED <<tpm, opened, next, kept>>

\* pbns_software_identity_open: the record must decode, and the key in it
\* must give the public key and fingerprint beside it.
SoftwareOpen ==
  /\ At("software", "read")
  /\ IF SoftwareDecodes(store["software"])
     THEN call' = [call EXCEPT !.step = "expose", !.record = store["software"]]
     ELSE IF Absent(store["software"]) /\ call.mode = "interactive"
     THEN call' = [call EXCEPT !.step = "check", !.mode = "create"]
     ELSE End
  /\ UNCHANGED <<store, tpm, opened, next, kept>>

SoftwareOpenFails ==
  /\ At("software", "read")
  /\ End
  /\ UNCHANGED <<store, tpm, opened, next, kept>>

CloseSoftware ==
  /\ call = NoCall /\ opened.kind = "software"
  /\ opened' = NotOpened
  /\ UNCHANGED <<store, tpm, call, next, kept>>

-----------------------------------------------------------------------------
(***************************************************************************)
(* Both.                                                                   *)
(***************************************************************************)
\* PbnsTpmIdentityReset and PbnsSoftwareIdentityReset, in PbnsIdentityProbe.
Reset(k) ==
  /\ call = NoCall /\ opened = NotOpened
  /\ \E r \in {NoRecord, store[k]} : store' = [store EXCEPT ![k] = r]
  /\ kept' = [kept EXCEPT ![k] = 0]
  /\ UNCHANGED <<tpm, call, opened, next>>

\* Power is lost, or the host restarts: the TPM forgets transient objects.
PowerCycle ==
  /\ tpm' = [tpm EXCEPT !.loaded = {}, !.leaked = 0]
  /\ call' = NoCall
  /\ opened' = NotOpened
  /\ UNCHANGED <<store, next, kept>>

\* The owner clears the TPM between two programs.
Clear ==
  /\ call = NoCall /\ opened = NotOpened /\ tpm.srk < MaxSeeds
  /\ tpm' = [tpm EXCEPT !.srk = @ + 1, !.loaded = {}, !.leaked = 0]
  /\ UNCHANGED <<store, call, opened, next, kept>>

\* The TPM is replaced: both seeds are new.
Replace ==
  /\ call = NoCall /\ opened = NotOpened
  /\ tpm.ek < MaxSeeds /\ tpm.srk < MaxSeeds
  /\ tpm' = [ek |-> tpm.ek + 1, srk |-> tpm.srk + 1, loaded |-> {}, leaked |-> 0]
  /\ UNCHANGED <<store, call, opened, next, kept>>

IdentityNext ==
  \/ \E k \in Kinds, mode \in {"create", "open", "interactive"} : Ask(k, mode)
  \/ TpmRead \/ TpmReadFails \/ Context \/ ContextFails \/ RefuseTpm
  \/ CreateEk \/ FlushEk \/ CreateSrk \/ LoadAk \/ LoadIdentity \/ FlushSrk \/ TpmWrite \/ TpmReadBack
  \/ Expose \/ ExposeFails \/ FinalIdentity \/ FinalAk
  \/ EnrollmentPublic \/ ActivateCredential \/ UseEk \/ FlushUsedEk \/ CloseTpm
  \/ SoftwareCheck \/ SoftwareCheckFails \/ Generate \/ GenerateFails
  \/ SoftwareWrite \/ SoftwareReadBack \/ Remove
  \/ SoftwareOpen \/ SoftwareOpenFails \/ CloseSoftware
  \/ \E k \in Kinds : Reset(k)
  \/ PowerCycle \/ Clear \/ Replace

IdentitySpec == IdentityInit /\ [][IdentityNext]_identityVars

-----------------------------------------------------------------------------
(***************************************************************************)
(* As long as the TPM carries out its flushes, no call that loads an       *)
(* object finds every slot taken by this code; an open identity has its    *)
(* two keys loaded; and nothing stays loaded once no identity is open,     *)
(* whichever step the last call failed at.                                 *)
(***************************************************************************)
SlotsAccounted ==
  /\ call.step \in {"ek", "srk", "ak", "identity", "public", "activate"} =>
       Cardinality(tpm.loaded) < Slots
  /\ opened.kind = "tpm" => {"ak", "identity"} \subseteq tpm.loaded
  /\ call = NoCall /\ opened.kind # "tpm" => tpm.loaded = {}

(***************************************************************************)
(* An identity that was handed to a program stays the stored one, through  *)
(* failed calls, failed writes and restarts, until it is reset or a TPM    *)
(* identity is created in its place: a host that enrolled keeps its name.  *)
(***************************************************************************)
IdentityKept == \A k \in Kinds : kept[k] # 0 => store[k].id = kept[k]
=============================================================================
