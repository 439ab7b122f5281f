----------------------------- MODULE BootChain ------------------------------
(***************************************************************************)
(* What runs before the recovery application: PbnsBootSetup writes the     *)
(* boot configuration, PBNSLauncher tries the normal system and falls back *)
(* to recovery (launcher.c), and recovery may also be chosen in the        *)
(* firmware's boot menu.  The launcher tells recovery why it was called    *)
(* through a volatile variable.  StartImage nests: the launcher waits in   *)
(* IN_RECOVERY until the application it started returns.                   *)
(***************************************************************************)
EXTENDS RecoveryClient

CONSTANTS BootNumbers,    \* numbers of boot entries
          NormalNumbers   \* those of entries that are not PBNS's own at setup
ASSUME BootNumbersAssumption == 0 \notin BootNumbers /\ NormalNumbers \subseteq BootNumbers

VARIABLES config,    \* normal_boot_option of the stored configuration, 0 if none
          setup,     \* PbnsBootSetup: the chosen entry, its own entry added
          entries,   \* "PBNS Recovery" entries in the boot menu
          failure,   \* the failure variable, with the power cycle it is from
          launcher,  \* the running launcher
          shown      \* what recovery announced when it was entered, and should have

chainVars == <<config, setup, entries, failure, launcher, shown>>
bootVars == <<allVars, chainVars>>

MaxEntries == 2
NoFailure == [stage |-> "none", old |-> FALSE]
NotShown == [stage |-> "none", old |-> FALSE, due |-> "none"]
LauncherOff == [stage |-> "OFF", current |-> 0, image |-> "none", original |-> "none",
                recorded |-> FALSE]

L(stage) == launcher.stage = stage
AtMenu == L("OFF") /\ At("OFF") /\ call.pc = "idle" /\ setup = 0
OnlyLauncher == UNCHANGED <<allVars, config, setup, entries, shown>>

ChainInit == /\ ClientInit
             /\ config = 0 /\ setup = 0 /\ entries = 0
             /\ failure = NoFailure /\ launcher = LauncherOff /\ shown = NotShown

-----------------------------------------------------------------------------
(* ReadOptionIndex offers every entry that is not PBNS's own; the recovery *)
(* entry is added before the configuration is written.                     *)
config_first ==
    /\ AtMenu /\ entries < MaxEntries
    /\ \E n \in NormalNumbers : setup' = n /\ config' = n
    /\ UNCHANGED <<allVars, entries, failure, launcher, shown>>

AddRecoveryOption ==
    /\ AtMenu /\ entries < MaxEntries
    /\ \E n \in NormalNumbers : setup' = n
    /\ entries' = entries + 1
    /\ UNCHANGED <<allVars, config, failure, launcher, shown>>

(* A failed write takes the new entry back, if it can.                     *)
PbnsBootConfigWrite ==
    /\ setup # 0
    /\ \/ config' = setup /\ UNCHANGED entries
       \/ entries' \in {entries - 1, entries} /\ UNCHANGED config
    /\ setup' = 0
    /\ UNCHANGED <<allVars, failure, launcher, shown>>

-----------------------------------------------------------------------------
(* The firmware boots the launcher from any entry: entries may have been   *)
(* renumbered since the setup.                                             *)
BootLauncher ==
    /\ AtMenu
    /\ \E n \in BootNumbers :
          launcher' = [LauncherOff EXCEPT !.stage = "READ_CONFIG", !.current = n]
    /\ OnlyLauncher /\ UNCHANGED failure

self_reference == launcher.current = config

(* PbnsBootConfigRead and config_valid: without a configuration, with one  *)
(* that cannot be read, and with the launcher's own entry, it gives up.    *)
ReadConfig ==
    /\ L("READ_CONFIG")
    /\ \/ launcher' = LauncherOff
       \/ /\ config # 0 /\ ~self_reference
          /\ launcher' = [launcher EXCEPT !.stage = "LOAD_NORMAL", !.current = 0]
    /\ OnlyLauncher /\ UNCHANGED failure

(* A failure of the normal system is recorded before recovery is tried.    *)
NormalFailed(l) == [l EXCEPT !.stage = "RECORD", !.original = l.stage]

(* LauncherUnload frees the boot option the image's LoadOptions point into *)
(* after the image.                                                        *)
Unloaded(l) == [l EXCEPT !.image = "none"]

LoadNormal ==
    /\ L("LOAD_NORMAL")
    /\ \/ launcher' = [launcher EXCEPT !.image = "normal", !.stage = "START_NORMAL"]
       \/ launcher' = NormalFailed(Unloaded(launcher))
    /\ OnlyLauncher /\ UNCHANGED failure

StartNormal ==
    /\ L("START_NORMAL")
    /\ \/ launcher' = [launcher EXCEPT !.stage = "TRANSFERRED"]
       \/ launcher' = NormalFailed(Unloaded(launcher))
    /\ OnlyLauncher /\ UNCHANGED failure

(* PbnsBootConfigRecordFailure; its status is ignored.                     *)
Recorded(ok) == IF ok THEN failure' = [stage |-> launcher.original, old |-> FALSE]
              ELSE UNCHANGED failure

RecordFailure ==
    /\ L("RECORD")
    /\ \E ok \in BOOLEAN :
          /\ Recorded(ok)
          /\ launcher' = [launcher EXCEPT !.stage = "LOAD_RECOVERY", !.recorded = ok]
    /\ OnlyLauncher

LoadRecovery ==
    /\ L("LOAD_RECOVERY")
    /\ \/ launcher' = [launcher EXCEPT !.stage = "START_RECOVERY", !.image = "recovery"]
       \/ launcher' = LauncherOff
    /\ OnlyLauncher /\ UNCHANGED failure

(* DisplayLauncherFailure reads the variable and deletes it; entered from  *)
(* the launcher the variable can be read, the deletion may fail.           *)
DisplayLauncherFailure(recorded, original) ==
    /\ shown' = [stage |-> failure.stage, old |-> failure.old,
                 due |-> IF recorded THEN original ELSE failure.stage]
    /\ failure' \in {failure, NoFailure}

StartRecovery ==
    /\ L("START_RECOVERY")
    /\ launcher' = [LauncherOff EXCEPT !.stage = "IN_RECOVERY", !.image = "recovery"]
    /\ DisplayLauncherFailure(launcher.recorded, launcher.original) /\ UefiMain
    /\ UNCHANGED <<config, setup, entries>>

(* Recovery always returns EFI_ABORTED; the launcher unloads it and        *)
(* reports the original failure to the firmware.                           *)
RecoveryReturned ==
    /\ L("IN_RECOVERY") /\ At("OFF")
    /\ launcher' = LauncherOff
    /\ OnlyLauncher /\ UNCHANGED failure

MenuRecovery ==
    /\ AtMenu /\ entries > 0
    /\ DisplayLauncherFailure(FALSE, "none") /\ UefiMain
    /\ UNCHANGED <<config, setup, entries, launcher>>

Recovery == /\ ClientStep
            /\ shown' = NotShown
            /\ UNCHANGED <<config, setup, entries, failure, launcher>>

(* Boot-service variables without NON_VOLATILE do not survive a reset.     *)
non_volatile == IF failure = NoFailure THEN failure ELSE [failure EXCEPT !.old = TRUE]
Volatile == NoFailure

PowerCycle ==
    /\ ~(AtMenu /\ failure = NoFailure)
    /\ IF At("OFF") THEN UNCHANGED allVars ELSE Reset
    /\ setup' = 0 /\ failure' = Volatile /\ launcher' = LauncherOff /\ shown' = NotShown
    /\ UNCHANGED <<config, entries>>

(* The TPM index and the active artifact, as before.                       *)
Elsewhere == (L("OFF") /\ setup = 0 /\ Provision) \/ Publish

LauncherStep == \/ ReadConfig \/ LoadNormal \/ StartNormal \/ RecordFailure
                \/ LoadRecovery \/ StartRecovery \/ RecoveryReturned

ChainNext == \/ AddRecoveryOption \/ PbnsBootConfigWrite \/ BootLauncher
             \/ LauncherStep \/ MenuRecovery \/ Recovery \/ PowerCycle
             \/ (Elsewhere /\ UNCHANGED chainVars)

ChainSpec == ChainInit /\ [][ChainNext]_bootVars
             /\ WF_bootVars(Recovery \/ LauncherStep)

-----------------------------------------------------------------------------
(* Recovery announces only a failure of the current power cycle, and one   *)
(* the launcher has just recorded is what its recovery announces, whatever *)
(* earlier failures were left in the variable.                             *)
FallbackIsTrue ==
    At("CONFIRM") => ~shown.old /\ shown.stage = shown.due

(* A stored configuration always has a recovery entry in the boot menu:    *)
(* the setup may be cut or fail between its two writes.                    *)
ConfiguredIsReachable == config # 0 => entries > 0
=============================================================================
