-------------------------- MODULE AttestationClient --------------------------
(***************************************************************************)
(* One attestation run of a host (src/core/attestation_run.c, with         *)
(* attestation.c, attestation_upload.c and attestation_receipt.c), against *)
(* the gateway: issue a challenge, ask the trusted time, accept the        *)
(* challenge, capture inventory and measured boot, quote, upload the       *)
(* evidence record by record, verify the receipt, close the upload and     *)
(* show the result.                                                        *)
(*                                                                         *)
(* A step of the run may take any time: Tick happens between any two.      *)
(* Every gate of the code (cancellation asked, clock unreadable, deadline  *)
(* passed) is a step of its own, because the clock it read is old by the   *)
(* time the next call is made.                                             *)
(* What a response carries is not the host's choice: it is any object the  *)
(* gateway has signed so far, and the checks on it are the model's.        *)
(***************************************************************************)
EXTENDS TrustedTime, MeasuredBoot

CONSTANTS Timeout,   \* timeout_ms of the run
          Lifetime,  \* ticks between a challenge's issue and its expiry
          Records,   \* DATA records an encrypted evidence takes
          MaxRuns    \* bound on the runs of a behaviour

ASSUME ClientAssumption ==
  Timeout \in Nat \ {0} /\ Lifetime \in Nat \ {0} /\ Records \in Nat \ {0} /\ MaxRuns \in Nat

VARIABLES run,        \* locals of pbns_attestation_run
          runs,       \* runs started so far
          challenge,  \* the gateway's challenges, in the order of their issue
          receipts,   \* receipts the gateway has signed
          result      \* what the caller of the last run holds

vars == <<timeVars, bootVars, run, runs, challenge, receipts, result>>

NoResult == [published |-> FALSE]
Idle == [pc |-> "idle"]

Init ==
  /\ TimeInit /\ BootInit
  /\ run = Idle /\ runs = 0 /\ challenge = <<>> /\ receipts = {} /\ result = NoResult

-----------------------------------------------------------------------------
(* Moving through the run.                                                 *)

Goto(pc) == run' = [run EXCEPT !.pc = pc]

(* Any status but OK skips every later step and goes to the cleanup. *)
Fail == run' = [run EXCEPT !.pc = "cleanup", !.ok = FALSE]

BeforeDeadline == Ms(now) < run.deadline

(* gate(): a cancellation or an unreadable clock stops the run at any gate. *)
Gate(from, to) ==
  /\ run.pc = from
  /\ \/ BeforeDeadline /\ run' = [run EXCEPT !.pc = to, !.gated = now]
     \/ Fail

(* The arguments accepted, the result and the workspace wiped, the clock read. *)
Start ==
  /\ run = Idle /\ runs < MaxRuns
  /\ runs' = runs + 1
  /\ result' = NoResult
  /\ run' = [pc |-> "begin", ok |-> TRUE, start |-> Ms(now), deadline |-> Ms(now) + Timeout, gated |-> now,
             id |-> 0, evidence |-> <<>>, sent |-> 0, upload |-> "none", receipt |-> <<>>]
  /\ query' = NoQuery /\ capture' = NoCapture
  /\ UNCHANGED <<now, log, challenge, receipts>>

env == <<timeVars, bootVars, runs, challenge, receipts, result>>

BeginGate == Gate("begin", "issue") /\ UNCHANGED env

-----------------------------------------------------------------------------
(* The challenge.                                                          *)

(* Service.Issue of the gateway, during the broker request. *)
IssueChallenge ==
  /\ run.pc = "issue"
  /\ challenge' = Append(challenge, [state |-> "issued", issued |-> now, expiry |-> now + Lifetime])
  /\ Goto("issued")
  /\ UNCHANGED <<timeVars, bootVars, runs, receipts, result>>

(* The response is copied out of the broker's storage, decoded and its      *)
(* recipient key compared with the configured one.                         *)
TakeIssueResponse ==
  /\ run.pc = "issued"
  /\ \E id \in DOMAIN challenge : run' = [run EXCEPT !.pc = "time", !.id = id]
  /\ UNCHANGED env

(* No response, or one that is not a canonical answer to an issue. *)
RefuseIssueResponse == run.pc \in {"issue", "issued"} /\ Fail /\ UNCHANGED env

QueryTime ==
  /\ run.pc = "time" /\ QueryStep
  /\ UNCHANGED <<bootVars, run, runs, challenge, receipts, result>>

TimeQueried ==
  /\ run.pc = "time" /\ query.pc \in {"interval", "failed"}
  /\ IF query.pc = "failed" THEN Fail ELSE Goto("timed")
  /\ UNCHANGED env

TimeGate == Gate("timed", "accept") /\ UNCHANGED env

(* accept_challenge's test of the interval against the challenge. *)
Covers(c) == query.earliest >= c.issued /\ query.latest <= c.expiry

(* challenge_deadline: milliseconds, counted from the start of the run.     *)
from_the_present(start, expiry) == Ms(now) + Ms(expiry - query.latest)
ExpiryDeadline(start, expiry) == start + Ms(expiry - query.latest)

Min2(a, b) == IF a < b THEN a ELSE b

AcceptChallenge ==
  /\ run.pc = "accept"
  /\ LET c == challenge[run.id] IN
     IF Covers(c)
     THEN run' = [run EXCEPT !.pc = "accepted", !.deadline = Min2(ExpiryDeadline(run.start, c.expiry), @)]
     ELSE Fail
  /\ query' = NoQuery  \* the interval is not used again
  /\ UNCHANGED <<now, bootVars, runs, challenge, receipts, result>>

(* A challenge whose COSE profile, signature, encoding, selection, request, *)
(* host, nonce or recipient is not the expected one.                        *)
RefuseChallenge == run.pc = "accept" /\ Fail /\ UNCHANGED env

AcceptGate == Gate("accepted", "inventory") /\ UNCHANGED env

-----------------------------------------------------------------------------
(* The evidence.                                                           *)

CaptureInventory == run.pc = "inventory" /\ Goto("inventoried") /\ UNCHANGED env

FailInventory == run.pc = "inventory" /\ Fail /\ UNCHANGED env

(* Two gates in a row, with nothing between them. *)
InventoryGate == Gate("inventoried", "measure") /\ UNCHANGED env

CaptureMeasured ==
  /\ run.pc = "measure" /\ CaptureStep
  /\ UNCHANGED <<timeVars, run, runs, challenge, receipts, result>>

Measured ==
  /\ run.pc = "measure" /\ capture.pc \in {"done", "failed"}
  /\ IF capture.pc = "failed" THEN Fail ELSE Goto("measured")
  /\ UNCHANGED env

MeasuredGate == Gate("measured", "encode") /\ UNCHANGED env

EncodeSubmit == run.pc = "encode" /\ Goto("submit") /\ UNCHANGED env

(* pbns_attestation_submit up to its first record: the challenge consumed,  *)
(* the TPM's quote over what the PCRs hold now, the signature, the digest   *)
(* of the signed evidence (which this record is) and the encryption.        *)
Submit ==
  /\ run.pc = "submit"
  /\ run' = [run EXCEPT !.pc = "send", !.evidence =
               [run |-> runs, id |-> run.id, log |-> capture.log, pcrs |-> capture.pcrs, quote |-> Replay(log), quoted |-> log]]
  /\ capture' = NoCapture  \* the capture is not used again
  /\ UNCHANGED <<timeVars, log, runs, challenge, receipts, result>>

(* Evidence that is not the challenge's host or selection, or a failed      *)
(* encoding, quote, signature or encryption.                                *)
RefuseEvidence == run.pc \in {"encode", "submit"} /\ Fail /\ UNCHANGED env

-----------------------------------------------------------------------------
(* The upload.                                                             *)

SendGate == Gate("send", "sending") /\ UNCHANGED env

(* Aborting an upload cancels the broker's session at once. *)
Abort == run' = [run EXCEPT !.pc = "cleanup", !.ok = FALSE, !.upload = "cancelled"]

(* upload_send: the first record opens the session. *)
SendRecord ==
  /\ run.pc = "sending"
  /\ \/ run' = [run EXCEPT !.pc = IF run.sent + 1 = Records THEN "answer" ELSE "send", !.sent = @ + 1, !.upload = "started"]
     \/ Fail                                            \* upload_begin failed
     \/ Abort                                           \* the record was not sent
  /\ UNCHANGED env

(* The verifier of the gateway: the quote is over the PCR values reported,  *)
(* and the log replays to them.                                            *)
Consistent(e) == e.quote = e.pcrs /\ Replay(e.log) = e.pcrs

(* The gateway takes the complete upload: a live challenge is consumed and  *)
(* trusted evidence earns a receipt.                                       *)
GatewaySubmit ==
  /\ run.pc = "answer" /\ challenge[run.id].state = "issued"
  /\ challenge' = [challenge EXCEPT ![run.id].state = IF now >= challenge[run.id].expiry THEN "expired" ELSE "consumed"]
  /\ receipts' = IF now < challenge[run.id].expiry /\ Consistent(run.evidence)
                   THEN receipts \cup {[id |-> run.id, evidence |-> run.evidence]} ELSE receipts
  /\ UNCHANGED <<timeVars, bootVars, run, runs, result>>

(* The final record's answer: some receipt, or an error or nothing at all. *)
TakeSubmitResponse ==
  /\ run.pc = "answer"
  /\ \/ \E r \in receipts : run' = [run EXCEPT !.pc = "response", !.receipt = r]
     \/ Abort
  /\ UNCHANGED env

(* decode_submit_response, the digest comparison and receipt_verify. *)
digest_not_compared(r) == r.id = run.id
BindingsMatch(r) == r.id = run.id /\ r.evidence = run.evidence

VerifyReceipt ==
  /\ run.pc = "response"
  /\ IF BindingsMatch(run.receipt) THEN Goto("verified") ELSE Fail
  /\ UNCHANGED env

(* A response or receipt that is not canonical, or that does not verify. *)
RefuseReceipt == run.pc = "response" /\ Fail /\ UNCHANGED env

ReceiptGate == Gate("verified", "finish") /\ UNCHANGED env

(* upload_finish is called once: the session is over even if closing fails. *)
Finish ==
  /\ run.pc = "finish"
  /\ \E closed \in BOOLEAN : run' = [run EXCEPT !.pc = "cleanup", !.ok = closed, !.upload = "finished"]
  /\ UNCHANGED env

(* The cleanup: an upload still open is cancelled, everything is wiped, and *)
(* only a run that is still OK hands a result to its caller.  (A display    *)
(* that fails, or a receipt of failure, changes the status and leaves the   *)
(* result.)                                                                *)
Publishes == run.ok

Return ==
  /\ run.pc = "cleanup"
  /\ result' = IF Publishes
                 THEN [published |-> TRUE, receipt |-> run.receipt, evidence |-> run.evidence, gated |-> run.gated, of |-> run.id,
                       upload |-> run.upload]
                 ELSE NoResult
  /\ run' = Idle /\ query' = NoQuery /\ capture' = NoCapture
  /\ UNCHANGED <<now, log, runs, challenge, receipts>>

Elapse == Tick /\ UNCHANGED <<bootVars, run, runs, challenge, receipts, result>>

MeasureElsewhere == \E p \in Pcrs : Measure(p) /\ UNCHANGED <<timeVars, run, runs, challenge, receipts, result>>

RunStep ==
  \/ BeginGate \/ IssueChallenge \/ TakeIssueResponse \/ RefuseIssueResponse \/ QueryTime \/ TimeQueried \/ TimeGate
  \/ AcceptChallenge \/ RefuseChallenge \/ AcceptGate \/ CaptureInventory \/ FailInventory \/ InventoryGate \/ CaptureMeasured \/ Measured \/ MeasuredGate
  \/ EncodeSubmit \/ Submit \/ RefuseEvidence \/ SendGate \/ SendRecord \/ GatewaySubmit \/ TakeSubmitResponse \/ VerifyReceipt
  \/ RefuseReceipt \/ ReceiptGate \/ Finish \/ Return

Next == Start \/ RunStep \/ Elapse \/ MeasureElsewhere

Spec == Init /\ [][Next]_vars

-----------------------------------------------------------------------------
(* Once a challenge is accepted, no gate of the run (attestation_run.c,     *)
(* gate) lets it go on at or after the challenge's expiry on the gateway's  *)
(* clock, although the host never sees that clock and reads its own in      *)
(* whole milliseconds.                                                     *)
GatedBeforeExpiry ==
  /\ run.pc \in {"inventory", "inventoried", "measure", "measured", "encode", "submit", "send", "sending", "answer", "response", "verified", "finish"}
       => run.gated < challenge[run.id].expiry
  /\ result.published => result.gated < challenge[result.of].expiry

(* A run that hands a result to its caller (attestation_run.c, from the     *)
(* receipt's verification to the end) has a receipt the gateway signed for  *)
(* the evidence of this very run, over a closed upload and a consumed       *)
(* challenge, and the log in it is all that had been measured when the      *)
(* TPM quoted, whatever was measured between the capture and the quote.     *)
ResultIsVerified ==
  result.published =>
    /\ result.receipt \in receipts /\ result.receipt.evidence = result.evidence
    /\ result.evidence.run = runs
    /\ challenge[result.of].state = "consumed"
    /\ result.upload = "finished"
    /\ result.evidence.log = result.evidence.quoted
=============================================================================
