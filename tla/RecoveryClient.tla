--------------------------- MODULE RecoveryClient ---------------------------
(***************************************************************************)
(* One boot after another of the recovery application                      *)
(* (PBNSRecovery.c): PbnsRecoveryClientRun takes its callbacks in a fixed  *)
(* order, the recovery service keeps the verified manifest and the version *)
(* it has read (recovery_service_adapter.c), and the version register of   *)
(* AntiRollback is the only thing that survives a power loss.  Meanwhile   *)
(* the operator of the gateway changes the active artifact.                *)
(***************************************************************************)
EXTENDS AntiRollback

CONSTANTS Digests,        \* contents of artifacts
          Artifacts       \* the artifacts the gateway's operator has
ASSUME DigestsAssumption == "blank" \notin Digests /\ "none" \notin Digests
(* NewService refuses a policy that does not authorize its target version. *)
ASSUME ArtifactsAssumption == Artifacts \subseteq [version : Versions, digest : Digests]

VARIABLES run,      \* the running recovery application
          active,   \* the gateway's active artifact
          started   \* history: per mode, the versions whose image was started

clientVars == <<run, active, started>>
allVars == <<vars, clientVars>>

NoAuth == [kind |-> "NONE", target |-> 0]
NoManifest == [ready |-> FALSE, version |-> 0, digest |-> "none"]

Off == [stage |-> "OFF", mode |-> "S", service |-> FALSE, manifest |-> NoManifest,
        plan |-> NoManifest, auth |-> NoAuth, pages |-> "none", handle |-> FALSE,
        current |-> 0, retained_valid |-> FALSE, retained |-> 0]

At(stage) == run.stage = stage
Goto(stage) == run' = [run EXCEPT !.stage = stage]
HostOnly == UNCHANGED <<active, started>>

(* fail_run unloads the image, frees its pages and reports the stage.      *)
fail_run(r) == run' = [r EXCEPT !.stage = "FAILED", !.handle = FALSE, !.pages = "none"]

-----------------------------------------------------------------------------
ClientInit == /\ Init
              /\ run = Off
              /\ active \in Artifacts
              /\ started = [m \in Modes |-> {}]

UefiMain == At("OFF") /\ call.pc = "idle" /\ Goto("CONFIRM") /\ HostOnly /\ UNCHANGED vars

(* confirm, which also chooses the assurance mode, and platform_ready.     *)
Confirm ==
    /\ At("CONFIRM")
    /\ \/ \E m \in Modes : run' = [run EXCEPT !.mode = m, !.stage = "TIME"]
       \/ fail_run(run)
    /\ HostOnly /\ UNCHANGED vars

(* trusted_time creates the service first; both drop an earlier manifest.  *)
TrustedTime ==
    /\ At("TIME")
    /\ run' = [run EXCEPT !.service = TRUE, !.manifest = NoManifest, !.stage = "MANIFEST"]
    /\ HostOnly /\ UNCHANGED vars

(* No identity, register, transport or key for the service.                *)
CreateFails ==
    /\ At("TIME") /\ fail_run([run EXCEPT !.manifest = NoManifest])
    /\ HostOnly /\ UNCHANGED vars

(* The service is there, but the time cannot be had or is not verified.    *)
TimeFails ==
    /\ At("TIME") /\ fail_run([run EXCEPT !.service = TRUE, !.manifest = NoManifest])
    /\ HostOnly /\ UNCHANGED vars

(* A signed request names a digest exactly when it asks for an artifact.   *)
SignedRequest(operation) ==
    [operation |-> operation, digest |-> IF operation = "ARTIFACT" THEN run.manifest.digest ELSE "none"]

(* The gateway signs a manifest of the artifact that is active now, and    *)
(* streams that artifact only to a request that names it.                  *)
Offered == [ready |-> TRUE, version |-> active.version, digest |-> active.digest]
Serves(request) == request.operation = "MANIFEST" \/ request.digest = active.digest

(* The policy that the manifest carries authorizes its own version.        *)
PolicyOf(manifest) == [kind |-> "UPDATE", target |-> manifest.version]

VerifiedManifest ==
    /\ At("MANIFEST") /\ Serves(SignedRequest("MANIFEST"))
    /\ run' = [run EXCEPT !.manifest = Offered, !.plan = Offered, !.auth = PolicyOf(Offered),
                          !.stage = "ALLOCATE"]
    /\ HostOnly /\ UNCHANGED vars

(* No answer, or the manifest's signature, request, key, form or validity  *)
(* is not accepted.                                                        *)
ManifestFails ==
    /\ At("MANIFEST") /\ fail_run([run EXCEPT !.manifest = NoManifest])
    /\ HostOnly /\ UNCHANGED vars

AllocatePages ==
    /\ At("ALLOCATE")
    /\ \/ run' = [run EXCEPT !.pages = "blank", !.stage = "STREAM"]
       \/ fail_run(run)
    /\ HostOnly /\ UNCHANGED vars

(* The host keeps the bytes only if their digest is the manifest's; a      *)
(* failed stream blanks the pages and drops the manifest, a failed clock   *)
(* after it does neither.                                                  *)
StreamImage ==
    /\ At("STREAM") /\ Serves(SignedRequest("ARTIFACT"))
    /\ LET r == [run EXCEPT !.pages = run.manifest.digest]
       IN \/ run' = [r EXCEPT !.stage = "DIGEST"]
          \/ fail_run(r)
    /\ HostOnly /\ UNCHANGED vars

StreamFails ==
    /\ At("STREAM") /\ fail_run([run EXCEPT !.manifest = NoManifest])
    /\ HostOnly /\ UNCHANGED vars

(* What the register opened for the mode may answer; read_version retains  *)
(* what it reads.                                                          *)
RollbackAnswers == Answers(run.mode)
Retained(a) == [run EXCEPT !.retained_valid = (a.status = "OK"), !.retained = a.version, !.current = a.version]
VersionAccepted(a) == a.status = "OK" /\ run.plan.version > a.version

(* verify_digest, then read_version.                                       *)
VerifyDigest ==
    /\ At("DIGEST")
    /\ \/ /\ run.pages # run.plan.digest
          /\ fail_run(run)
       \/ /\ run.pages = run.plan.digest
          /\ \E a \in RollbackAnswers :
                IF VersionAccepted(a)
                THEN run' = [Retained(a) EXCEPT !.stage = "LOAD_VERIFY"]
                ELSE fail_run(Retained(a))
    /\ HostOnly /\ UNCHANGED vars

started_before_advance ==
    /\ At("LOAD_VERIFY")
    /\ \/ run' = [run EXCEPT !.handle = TRUE, !.stage = "START"]
       \/ fail_run(run)
    /\ HostOnly /\ UNCHANGED vars

LoadImage ==
    /\ At("LOAD_VERIFY")
    /\ \/ run' = [run EXCEPT !.handle = TRUE, !.stage = "ADVANCE_VERSION"]
       \/ fail_run(run)
    /\ HostOnly /\ UNCHANGED vars

(* The checks of pbns_recovery_service_rollback_advance before the core's. *)
RetainedHolds == /\ run.retained_valid /\ run.current = run.retained
                 /\ run.plan.version > run.current
                 /\ run.manifest.ready /\ run.manifest.version = run.plan.version

Authorization == IF run.mode = "T" THEN run.auth
                 ELSE [kind |-> "NONE", target |-> run.plan.version]

AdvanceVersion ==
    /\ At("ADVANCE_VERSION") /\ call.pc = "idle"
    /\ \/ /\ ~RetainedHolds
          /\ fail_run(run) /\ UNCHANGED vars
       \/ /\ RetainedHolds
          /\ \E reread \in RollbackAnswers :
                IF reread.status = "OK" /\ reread.version = run.current
                THEN Advance(run.mode, run.plan.version, Authorization)
                     /\ Goto("ADVANCING")
                ELSE fail_run([run EXCEPT !.retained_valid = FALSE]) /\ UNCHANGED vars
    /\ HostOnly

(* The register's own steps while the advance runs.                        *)
RegisterStep == /\ At("ADVANCING")
                /\ write_slot \/ execute_policy \/ Verify
                /\ UNCHANGED clientVars

(* The advance has returned; the adapter reads the register once more.     *)
Confirmed(a) == /\ result.status = "OK"
                /\ a.status = "OK" /\ a.version = run.plan.version

failure_not_returned ==
    /\ At("ADVANCING") /\ call.pc = "idle"
    /\ \E a \in RollbackAnswers :
          /\ Confirmed(a)
          /\ run' = [run EXCEPT !.retained = a.version, !.stage = "START"]
    /\ HostOnly /\ UNCHANGED vars

AdvanceReturned ==
    /\ At("ADVANCING") /\ call.pc = "idle"
    /\ \E a \in RollbackAnswers :
          IF Confirmed(a)
          THEN run' = [run EXCEPT !.retained = a.version, !.stage = "START"]
          ELSE fail_run([run EXCEPT !.retained_valid = FALSE])
    /\ HostOnly /\ UNCHANGED vars

(* StartImage either never comes back or returns into fail_run.            *)
StartImage ==
    /\ At("START")
    /\ started' = [started EXCEPT ![run.mode] = @ \cup {run.plan.version}]
    /\ Goto("BOOTED") \/ fail_run(run)
    /\ UNCHANGED <<active, vars>>

(* UefiMain destroys the service and returns to the firmware.              *)
Leave == At("FAILED") /\ run' = Off /\ HostOnly /\ UNCHANGED vars

(* A power cut, or the end of the recovery system's session.               *)
Reset ==
    /\ ~At("OFF")
    /\ run' = Off
    /\ IF call.pc = "idle" THEN UNCHANGED vars ELSE PowerLoss
    /\ HostOnly

(* Outside a recovery: the TPM index is provisioned, and the gateway is    *)
(* restarted with another active artifact.                                 *)
Provision == /\ At("OFF")
             /\ \/ \E auth \in Authorizations : Initialize(auth)
                \/ execute_policy \/ Verify
                \/ PowerLoss
             /\ UNCHANGED clientVars

Publish == active' \in Artifacts /\ UNCHANGED <<run, started, vars>>

ClientStep == \/ Confirm \/ TrustedTime \/ CreateFails \/ TimeFails
              \/ VerifiedManifest \/ ManifestFails \/ AllocatePages
              \/ StreamImage \/ StreamFails \/ VerifyDigest \/ LoadImage \/ AdvanceVersion
              \/ RegisterStep \/ AdvanceReturned \/ StartImage \/ Leave

ClientNext == UefiMain \/ ClientStep \/ Reset \/ Provision \/ Publish

ClientSpec == ClientInit /\ [][ClientNext]_allVars /\ WF_allVars(ClientStep)

-----------------------------------------------------------------------------
(* start_image is reached only with the verified image in memory and with  *)
(* its version already durable, whatever failed or was cut on the way; and *)
(* under one assurance mode a version is started at most once and starts   *)
(* only increase, over any number of boots and changes of the artifact.    *)
StartedIsDurable ==
    At("START") => /\ DurableVersion(run.mode) = run.plan.version
                   /\ run.pages = run.plan.digest /\ run.handle
                   /\ \A v \in started[run.mode] : v < run.plan.version

(* A recovery that was confirmed ends: it boots the image or it gives its  *)
(* pages back and returns to the firmware.                                 *)
RunEnds == At("CONFIRM") ~> (At("BOOTED") \/ (At("OFF") /\ run = Off))
=============================================================================
