-------------------------- MODULE PicoProvisioning --------------------------
(***************************************************************************)
(* Provisioning of the Pico bridge (src/pico/src/main.c and                *)
(* provision_gate.c): a BOOTSEL press held long enough latches the gate    *)
(* and ends the tunnel; the provisioning port then waits for a session     *)
(* opened after the press, reads lines from it and stores what SET names   *)
(* in the credential store.  The USB host opens, closes and writes to the  *)
(* port at any time, and power may be cut anywhere.                        *)
(***************************************************************************)
EXTENDS CredentialStore, Sequences

CONSTANTS SampleInterval,   \* PBNS_PROVISION_SAMPLE_INTERVAL_MS
          Hold,             \* PBNS_PROVISION_HOLD_MS
          MaxClock,         \* UINT64_MAX, the last value of the clock
          MaxQueue          \* bound: lines waiting in the CDC receive queue

ASSUME TimingAssumption == SampleInterval \in Nat /\ Hold \in Nat /\ MaxClock \in Nat /\ MaxQueue \in Nat

VARIABLES now,       \* the clock since boot
          gate,      \* pbns_provision_gate
          lastUp,    \* when a sample last found BOOTSEL released (history)
          session,   \* pbns_provision_session and provisioning_mode
          parser,    \* provisioning_parser, and the loop over the queue
          dtr,       \* tud_cdc_n_connected of the provisioning port
          queue,     \* the lines received and not yet read
          loaded     \* what tunnel_init loaded at boot

deviceVars == <<now, gate, lastUp, session, parser, loaded>>
vars == <<storeVars, deviceVars, dtr, queue>>

Released == [state |-> "IDLE", started |-> 0, sampled |-> FALSE, last |-> 0, next |-> 0]

(* A line is SET with a record, REBOOT, or anything else; `early` marks    *)
(* the lines sent before the firmware opened a session for them.           *)
Commands == Credentials \cup {"REBOOT", "junk"}
Line(c) == [command |-> c, early |-> session # "READY"]

parser_reset == [ready_sent |-> FALSE, provisioned |-> FALSE, reading |-> FALSE,
                 setting |-> FALSE]

(* main up to its loop, with tunnel_init's load.                           *)
Boot(s) ==
    /\ now' = 0
    /\ gate' = Released
    /\ lastUp' = 0
    /\ session' = "INACTIVE"
    /\ parser' = parser_reset
    /\ loaded' = Load(s)

Init ==
    /\ StoreInit
    /\ now = 0
    /\ gate = Released
    /\ lastUp = 0
    /\ session = "INACTIVE"
    /\ parser = parser_reset
    /\ loaded = Load(sector)
    /\ dtr = FALSE
    /\ queue = <<>>

Min(a, b) == IF a < b THEN a ELSE b

Tick ==
    /\ now < MaxClock
    /\ now' = now + 1
    /\ UNCHANGED <<storeVars, gate, lastUp, session, parser, loaded, dtr, queue>>

sample_due == /\ gate.state # "LATCHED"
              /\ ~gate.sampled \/ (gate.last # MaxClock /\ now >= gate.next)

next_sample_deadline == Min(now + SampleInterval, MaxClock)

(* pbns_provision_gate_observe: where a sample takes the gate.             *)
release_ignored(pressed) ==
    IF gate.state = "IDLE" THEN IF pressed THEN "PRESS_PENDING" ELSE "IDLE"
    ELSE IF pressed /\ now - gate.started >= Hold THEN "LATCHED" ELSE gate.state

observe(pressed) ==
    IF ~pressed THEN "IDLE"
    ELSE IF gate.state = "IDLE" THEN "PRESS_PENDING"
    ELSE IF now - gate.started >= Hold THEN "LATCHED" ELSE gate.state

flushed == <<>>

(* physical_gate_task, and activate_provisioning when the gate latches.    *)
physical_gate_task(pressed) ==
    /\ session = "INACTIVE"
    /\ sample_due
    /\ gate' = [state |-> observe(pressed), sampled |-> TRUE, last |-> now,
                next |-> next_sample_deadline,
                started |-> IF observe(pressed) = "IDLE" THEN 0
                            ELSE IF gate.state = "IDLE" THEN now ELSE gate.started]
    /\ lastUp' = IF pressed THEN lastUp ELSE now
    /\ IF observe(pressed) = "LATCHED"
       THEN /\ queue' = flushed
            /\ parser' = parser_reset
            /\ session' = IF dtr THEN "WAIT_DISCONNECT" ELSE "WAIT_CONNECT"
       ELSE UNCHANGED <<queue, parser, session>>
    /\ UNCHANGED <<storeVars, now, loaded, dtr>>

(* provisioning_task up to its loop: pbns_provision_session_observe, the   *)
(* flush of a session just opened, and READY (which may not go out).       *)
provisioning_task ==
    /\ session # "INACTIVE"
    /\ ~parser.reading
    /\ session' = IF ~dtr THEN "WAIT_CONNECT"
                  ELSE IF session = "WAIT_CONNECT" THEN "READY" ELSE session
    /\ queue' = IF dtr /\ session = "WAIT_CONNECT" THEN flushed ELSE queue
    /\ IF ~dtr \/ session' # "READY" THEN parser' = parser_reset
       ELSE \E sent \in BOOLEAN :
              parser' = [IF session = "READY" THEN parser ELSE parser_reset
                         EXCEPT !.ready_sent = @ \/ sent, !.reading = TRUE]
    /\ UNCHANGED <<storeVars, now, gate, lastUp, loaded, dtr>>

(* The lines of the queue are read one by one, in a ready session only.    *)
NextLine == /\ parser.reading
            /\ ~parser.setting
            /\ queue # <<>>
            /\ queue' = Tail(queue)

(* A line that is not a command, or REBOOT before any record was stored.   *)
other_line ==
    /\ NextLine
    /\ LET c == Head(queue).command
       IN c = "junk" \/ (c = "REBOOT" /\ ~parser.provisioned)
    /\ parser' = [parser EXCEPT !.provisioned = FALSE]
    /\ UNCHANGED <<storeVars, now, gate, lastUp, session, loaded, dtr>>

process_set_command ==
    /\ NextLine
    /\ Head(queue).command \in Credentials
    /\ write_transaction(Head(queue).command)
    /\ parser' = [parser EXCEPT !.setting = TRUE]
    /\ UNCHANGED <<now, gate, lastUp, session, loaded, dtr>>

(* The transaction returned: only a stored record whose fingerprint went   *)
(* out allows REBOOT.                                                      *)
provisioned_anyway(sent) == sent
provisions(sent) == answer.status = "OK" /\ sent

set_returned(sent) ==
    /\ parser.setting
    /\ tx.pc = "idle"
    /\ parser' = [parser EXCEPT !.setting = FALSE, !.provisioned = provisions(sent)]
    /\ UNCHANGED <<storeVars, now, gate, lastUp, session, loaded, dtr, queue>>

reboot ==
    /\ NextLine
    /\ Head(queue).command = "REBOOT"
    /\ parser.provisioned
    /\ Boot(sector)
    /\ UNCHANGED <<storeVars, dtr>>

loop_ends ==
    /\ parser.reading
    /\ ~parser.setting
    /\ queue = <<>>
    /\ parser' = [parser EXCEPT !.reading = FALSE]
    /\ UNCHANGED <<storeVars, now, gate, lastUp, session, loaded, dtr, queue>>

FlashStep ==
    /\ parser.setting
    /\ StoreStep
    /\ UNCHANGED <<deviceVars, dtr, queue>>

(* The USB host; its events are taken between two steps of the firmware.   *)
HostOpens == ~dtr /\ dtr' = TRUE /\ UNCHANGED <<storeVars, deviceVars, queue>>
HostCloses == dtr /\ dtr' = FALSE /\ UNCHANGED <<storeVars, deviceVars, queue>>
HostSends(c) ==
    /\ dtr
    /\ Len(queue) < MaxQueue
    /\ queue' = Append(queue, Line(c))
    /\ UNCHANGED <<storeVars, deviceVars, dtr>>

PowerLoss ==
    /\ StorePowerCut
    /\ Boot(sector')
    /\ dtr' = FALSE
    /\ queue' = <<>>

Next ==
    \/ Tick \/ (\E pressed \in BOOLEAN : physical_gate_task(pressed))
    \/ provisioning_task \/ other_line \/ process_set_command
    \/ (\E sent \in BOOLEAN : set_returned(sent)) \/ reboot \/ loop_ends \/ FlashStep
    \/ HostOpens \/ HostCloses \/ (\E c \in Commands : HostSends(c)) \/ PowerLoss

Spec == Init /\ [][Next]_vars

-----------------------------------------------------------------------------
(* What is provisioned was meant to be (pico/README.md).  "Short-press     *)
(* rejection": once the gate has latched, no sample of the last Hold before *)
(* it found the button released, so two presses never add up.              *)
(* "Pre-activation queue isolation": no line sent before the firmware      *)
(* opened the session, let alone before the press, is read.                *)
ProvisioningIsDeliberate ==
    /\ gate.state = "LATCHED" => gate.last - lastUp >= Hold
    /\ parser.reading => \A i \in 1 .. Len(queue) : ~queue[i].early

(* Whenever REBOOT would be obeyed, the next boot loads the record of the  *)
(* last SET: a failed or unconfirmed SET in between withdraws REBOOT.      *)
RebootLoadsTheLastSet ==
    parser.provisioned /\ ~parser.setting =>
        Load(sector) = [status |-> "OK", content |-> answer.content]
=============================================================================
