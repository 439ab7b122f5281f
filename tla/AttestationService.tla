------------------------- MODULE AttestationService -------------------------
(***************************************************************************)
(* The gateway's platform-attestation service: the persistent life of a    *)
(* challenge (internal/store), the concurrent submissions that use it      *)
(* (internal/attestation service and handler), the approved baseline that  *)
(* evidence is compared with, and pbnsctl, the administrator's command     *)
(* that replaces a baseline.                                               *)
(*                                                                         *)
(* The store is one bbolt file.  Each of its transactions is one step, and *)
(* the file lock lets only one process have it open: the gateway, or       *)
(* pbnsctl while the gateway is down.  A connection's goroutine is a       *)
(* worker; a crash loses every worker and nothing that was committed.      *)
(* The clock is the machine's wall clock, which may be set either way.     *)
(***************************************************************************)
EXTENDS Integers, Sequences, FiniteSets

CONSTANTS Hosts,       \* enrolled host fingerprints
          TpmHosts,    \* those enrolled with a TPM
          Challenges,  \* request identifiers the random source can give
          Workers,     \* concurrent connections
          Baselines,   \* controlled baselines; a baseline's identifier is its digest
          Measurements, \* event-log digests with their firmware and Secure Boot state
          Sizes,       \* memory, storage and device counts an inventory can report
          Delta,       \* the InventoryRule every baseline carries
          Enrolled,    \* the baseline each host was enrolled with
          TTL,         \* lifetime of a challenge and of a proposal
          MaxTime,     \* bound on the clock
          MaxProposals \* bound on the proposals an administrator signs

ASSUME TpmAssumption == TpmHosts \subseteq Hosts
ASSUME EnrolledAssumption == Enrolled \in [Hosts -> Baselines] /\ \A g, h \in Hosts : Enrolled[g] = Enrolled[h] => g = h
ASSUME BaselineAssumption == Sizes \subseteq Nat /\ Delta \in Nat /\ Baselines \subseteq [measurement : Measurements, size : Sizes]
ASSUME BoundAssumption == TTL \in Nat \ {0} /\ MaxTime \in Nat /\ MaxProposals \in Nat

VARIABLES running,     \* the process that has the store open, if any
          now,         \* wall clock
          challenge,   \* the attestation-challenge bucket
          worker,      \* what each connection's Submit is doing
          receipts,    \* signed receipts that left the process, per challenge
          baseline,    \* BaselineID of each host record
          stored,      \* the baselines bucket
          history,     \* the baseline-history bucket
          candidate,   \* the candidate file of pbns-attestation-checkpoint
          proposals    \* proposals an administrator has signed, kept outside the store

admin == <<baseline, stored, history, proposals>>
vars == <<running, now, challenge, worker, receipts, candidate, admin>>

Time == 0 .. MaxTime
Reasons == {"accepted", "invalid", "host", "decrypt", "authentication", "context", "cancelled", "verification"}
States == {"none", "issued", "processing", "consumed", "expired"}

(* What a host uploaded: the challenge the ciphertext was made for, whether *)
(* the report decodes and its digests and context are the challenge's, the *)
(* identity key that signed it, the attestation key that signed the quote, *)
(* the challenge in the quote's qualifying data, whether the uploaded PCR  *)
(* values are the quoted ones and the event log replays to them, and what  *)
(* the log and the inventory say.                                          *)
Evidence == [sealed : Challenges \cup {"other"}, report : BOOLEAN, signer : Hosts, ak : Hosts, quoted : Challenges \cup {"other"},
             values : BOOLEAN, replays : BOOLEAN, measurement : Measurements, size : Sizes]

Idle == [pc |-> "idle"]
NoFile == [file |-> "absent"]

Init ==
  /\ running = "gateway" /\ now = 0 /\ candidate = NoFile
  /\ challenge = [c \in Challenges |-> [state |-> "none"]]
  /\ worker = [w \in Workers |-> Idle]
  /\ receipts = [c \in Challenges |-> <<>>]
  /\ baseline = Enrolled
  /\ stored = {Enrolled[h] : h \in Hosts}
  /\ history = {} /\ proposals = {}

-----------------------------------------------------------------------------
(* Issuing a challenge: Service.Issue, Store.CreateAttestationChallenge.   *)

(* An identifier already in the bucket is refused and another one drawn.   *)
Unused(c) == challenge[c].state = "none"

(* What validChallenge and the store's record keep of a signed challenge. *)
NewChallenge(h) == [state |-> "issued", host |-> h, expires |-> now + TTL]

Issue(h, c) ==
  /\ running # "no" /\ Unused(c)
  /\ challenge' = [challenge EXCEPT ![c] = NewChallenge(h)]
  /\ UNCHANGED <<running, now, worker, receipts, candidate, admin>>

-----------------------------------------------------------------------------
(* Submitting evidence.                                                    *)

(* BeginAttestationChallenge's test of the record's state. *)
Available(c) == challenge[c].state = "issued"

Expired(c) == now >= challenge[c].expires

(* Store.BeginAttestationChallenge, once the upload arrived complete.  A   *)
(* late use marks an issued challenge expired and is refused.              *)
BeginSubmit(w, c) ==
  /\ running # "no" /\ worker[w] = Idle /\ challenge[c].state # "none"
  /\ IF Expired(c)
     THEN /\ challenge' = IF challenge[c].state = "issued" THEN [challenge EXCEPT ![c].state = "expired"] ELSE challenge
          /\ UNCHANGED worker
     ELSE /\ Available(c)
          /\ challenge' = [challenge EXCEPT ![c] = [@ EXCEPT !.state = "processing"]]
          /\ worker' = [worker EXCEPT ![w] = [pc |-> "verify", id |-> c]]
  /\ UNCHANGED <<running, now, receipts, candidate, admin>>

(* verifyQuote, in the order of its checks. *)
qualifying_unchecked(h, c, e) == IF ~ e.values THEN "pcr_digest" ELSE IF e.ak # h THEN "quote_signature" ELSE "trusted"
verifyQuote(h, c, e) ==
  IF e.quoted # c THEN "qualifying_data"
  ELSE IF ~ e.values THEN "pcr_digest"
  ELSE IF e.ak # h THEN "quote_signature"
  ELSE "trusted"

within(expected, actual) == IF actual >= expected THEN actual - expected <= Delta ELSE expected - actual <= Delta

(* baseline.Verify and its two comparisons: what was measured must be the   *)
(* baseline's, what the inventory reports may drift by the rule's deltas.   *)
MeasurementReason(b, e) ==
  IF b \notin stored THEN "baseline_unavailable" ELSE IF e.measurement # b.measurement THEN "measurement_baseline" ELSE "trusted"
InventoryReason(b, e) == IF within(b.size, e.size) THEN "trusted" ELSE "inventory_drift"

Skipped == [quote |-> "skipped", eventLog |-> "skipped", measurement |-> "skipped", inventory |-> "skipped", capability |-> "trusted"]

(* Verifier.Assess: each check is made only when the ones before it passed. *)
(* A drifted inventory leaves the measurement's check skipped.              *)
Assess(h, b, c, e) ==
  LET quote == verifyQuote(h, c, e)
      quoted == [Skipped EXCEPT !.quote = quote]
      replayed == [quoted EXCEPT !.eventLog = IF e.replays THEN "trusted" ELSE "event_log_replay"]
      measured == [replayed EXCEPT !.measurement = MeasurementReason(b, e)]
  IN IF h \notin TpmHosts THEN [Skipped EXCEPT !.capability = "tpm_required"]
     ELSE IF quote # "trusted" THEN quoted
     ELSE IF ~ e.replays THEN replayed
     ELSE IF measured.measurement # "trusted" THEN measured
     ELSE IF InventoryReason(b, e) # "trusted" THEN [replayed EXCEPT !.inventory = InventoryReason(b, e)]
     ELSE [measured EXCEPT !.inventory = "trusted"]

Trusted(verdict) == \A check \in DOMAIN verdict : verdict[check] = "trusted"

(* The ciphertext authenticates the challenge's context (encryptAAD). *)
Decrypts(c, e) == e.sealed = c

(* verifyEvidence: the report first, then the identity's signature over it. *)
verifyEvidence(h, e) == IF ~ e.report THEN "context" ELSE IF e.signer # h THEN "authentication" ELSE "accepted"

(* The decision of Submit for challenge c, in the order of its checks.     *)
Decision(c, e) ==
  LET h == challenge[c].host IN
  IF ~ Decrypts(c, e) THEN "decrypt"
  ELSE IF verifyEvidence(h, e) # "accepted" THEN verifyEvidence(h, e)
  ELSE IF ~ Trusted(Assess(h, baseline[h], c, e)) THEN "verification"
  ELSE "accepted"

Refusal(c, reason) == [pc |-> "finish", id |-> c, reason |-> reason]

(* An upload over the limit; a host record that cannot be read; a          *)
(* connection whose context ended while its evidence was being verified.   *)
RefuseSubmit(w) ==
  /\ worker[w].pc = "verify"
  /\ \E reason \in {"invalid", "host", "cancelled"} : worker' = [worker EXCEPT ![w] = Refusal(@.id, reason)]
  /\ UNCHANGED <<running, now, challenge, receipts, candidate, admin>>

(* baselineCandidateVerifier: evidence that fails only by its baseline is  *)
(* what a new baseline can be made from.  The file is created once; a      *)
(* write that fails leaves it torn.                                        *)
IsCandidate(verdict) ==
  /\ verdict.quote = "trusted" /\ verdict.eventLog = "trusted" /\ verdict.capability = "trusted"
  /\ verdict.measurement = "measurement_baseline" \/ verdict.inventory = "inventory_drift"

Candidate(h, e) == [file |-> "whole", host |-> h, parent |-> baseline[h], encoded |-> [measurement |-> e.measurement, size |-> e.size], evidence |-> e]

writeExclusive(x) == IF candidate = NoFile THEN {x, [file |-> "torn"], NoFile} ELSE {candidate}

(* Submit between Begin and its deferred Finish, on the uploaded evidence. *)
(* The host record read here is the one every later step uses.             *)
Verify(w) ==
  /\ worker[w].pc = "verify"
  /\ \E e \in Evidence :
       LET c == worker[w].id
           h == challenge[c].host
           r == Decision(c, e)
       IN /\ worker' = [worker EXCEPT ![w] = IF r = "accepted"
                       THEN [pc |-> "finish", id |-> c, reason |-> r, evidence |-> e, baseline |-> baseline[h]]
                       ELSE Refusal(c, r)]
          /\ candidate' \in IF running = "checkpoint" /\ r = "verification" /\ IsCandidate(Assess(h, baseline[h], c, e))
                            THEN writeExclusive(Candidate(h, e)) ELSE {candidate}
  /\ UNCHANGED <<running, now, challenge, receipts, admin>>

(* Store.FinishAttestationChallenge refuses a record that is not being     *)
(* processed, and otherwise consumes it.                                   *)
Finished(c, r) == [challenge EXCEPT ![c] = IF @.state # "processing" THEN @
                     ELSE [state |-> "consumed", host |-> @.host, expires |-> @.expires, reason |-> r]]

(* Submit's deferred call.  Only a finished acceptance goes on.            *)
after_finish(w, finished) == worker[w].reason = "accepted"
Accepted(w, finished) == finished /\ worker[w].reason = "accepted"

(* A failed transaction leaves the record as it was, or committed when the *)
(* failure came after the write.                                           *)
Finish(w) ==
  /\ worker[w].pc = "finish"
  /\ \E finished \in BOOLEAN :
       LET c == worker[w].id IN
       /\ finished => challenge[c].state = "processing"
       /\ challenge' \in {Finished(c, worker[w].reason)} \cup (IF finished THEN {} ELSE {challenge})
       /\ worker' = [worker EXCEPT ![w] = IF Accepted(w, finished)
                       THEN [pc |-> "receipt", id |-> c, evidence |-> @.evidence, baseline |-> @.baseline] ELSE Idle]
  /\ UNCHANGED <<running, now, receipts, candidate, admin>>

(* A trusted verdict on a host with a TPM is full assurance, whoever       *)
(* vouched for the TPM; on a software identity there is nothing to trust.  *)
receiptOutcome(h, verdict) ==
  IF h \in TpmHosts /\ Trusted(verdict) THEN "full"
  ELSE IF h \notin TpmHosts /\ verdict = [Skipped EXCEPT !.capability = "tpm_required"] THEN "reduced"
  ELSE "failure"

(* Handler.submit after Submit: the second assessment, the signature, the  *)
(* receipt sink, the response.  A failed signature or a failed sink        *)
(* answers with an error and no receipt.                                   *)
IssueReceipt(w) ==
  /\ worker[w].pc = "receipt"
  /\ LET c == worker[w].id
         h == challenge[c].host
         verdict == Assess(h, worker[w].baseline, c, worker[w].evidence)
         receipt == [host |-> h, baseline |-> worker[w].baseline, evidence |-> worker[w].evidence, verdict |-> receiptOutcome(h, verdict)]
     IN Trusted(verdict) /\ receipts' = [receipts EXCEPT ![c] = Append(@, receipt)]
  /\ worker' = [worker EXCEPT ![w] = Idle]
  /\ UNCHANGED <<running, now, challenge, candidate, admin>>

NoReceipt(w) ==
  /\ worker[w].pc = "receipt"
  /\ worker' = [worker EXCEPT ![w] = Idle]
  /\ UNCHANGED <<running, now, challenge, receipts, candidate, admin>>

-----------------------------------------------------------------------------
(* The process and its store.                                              *)

(* The gateway stops or dies: every Submit in progress is gone. *)
Stop ==
  /\ running # "no"
  /\ running' = "no"
  /\ worker' = [w \in Workers |-> Idle]
  /\ UNCHANGED <<now, challenge, receipts, candidate, admin>>

(* Store.Open leaves the challenges alone.  The process is the gateway, or *)
(* the checkpoint command: the gateway with a candidate file as its sink.  *)
reissued_on_open == [c \in Challenges |-> IF challenge[c].state = "processing" THEN [challenge[c] EXCEPT !.state = "issued"] ELSE challenge[c]]
Reopened == challenge

Open ==
  /\ running = "no"
  /\ running' \in {"gateway", "checkpoint"}
  /\ challenge' = Reopened
  /\ UNCHANGED <<now, worker, receipts, candidate, admin>>

SetClock ==
  /\ \E t \in Time \ {now} : now' = t
  /\ UNCHANGED <<running, challenge, worker, receipts, candidate, admin>>

-----------------------------------------------------------------------------
(* pbnsctl.  Each command opens the store for itself.                      *)

opens_shared == TRUE
StoreFree == running = "no"

(* classificationMatches: a change of what is measured is a security       *)
(* change, whatever else it changes.                                       *)
Classification(parent, new) == IF parent.measurement # new.measurement THEN "security" ELSE "inventory"

(* A proposal names the baseline the host has when it is written; the      *)
(* administrator signs it, and keeps it.                                   *)
CreateProposal(h, b) ==
  /\ StoreFree /\ b # baseline[h] /\ Cardinality(proposals) < MaxProposals
  /\ proposals' = proposals \cup {[host |-> h, parent |-> baseline[h], new |-> b, classification |-> Classification(baseline[h], b),
                                   issued |-> now, expires |-> now + TTL]}
  /\ UNCHANGED <<running, now, challenge, worker, receipts, candidate, baseline, stored, history>>

withinValidity(p) == p.issued <= now /\ now < p.expires

(* VerifyApproval, and AuthorizeParentAt inside the transaction. *)
Authorized(p) == withinValidity(p) /\ p.classification = Classification(p.parent, p.new)

(* The conditions under which ApplyBaselineApproval changes anything. *)
parent_unchecked(p) == p.new \notin stored /\ Authorized(p)
Applicable(p) == baseline[p.host] = p.parent /\ p.new \notin stored /\ Authorized(p)

ApplyBaselineApproval(p) ==
  /\ StoreFree /\ Applicable(p)
  /\ stored' = stored \cup {p.new}
  /\ baseline' = [baseline EXCEPT ![p.host] = p.new]
  /\ history' = history \cup {[host |-> p.host, parent |-> p.parent, new |-> p.new]}
  /\ UNCHANGED <<running, now, challenge, worker, receipts, candidate, proposals>>

Next ==
  \/ \E h \in Hosts, c \in Challenges : Issue(h, c)
  \/ \E w \in Workers, c \in Challenges : BeginSubmit(w, c)
  \/ \E w \in Workers : Verify(w) \/ Finish(w) \/ IssueReceipt(w) \/ NoReceipt(w) \/ RefuseSubmit(w)
  \/ Stop \/ Open \/ SetClock
  \/ \E h \in Hosts, b \in Baselines : CreateProposal(h, b)
  \/ \E p \in proposals : ApplyBaselineApproval(p)

Spec == Init /\ [][Next]_vars

-----------------------------------------------------------------------------
(* A challenge is answered by at most one receipt, however many            *)
(* connections submit the same or different evidence for it, and a receipt *)
(* leaves the gateway only when the store already says that the challenge  *)
(* was consumed by an acceptance (handler.submit after Submit's Finish).   *)
OneReceipt ==
  \A c \in Challenges :
    /\ Len(receipts[c]) <= 1
    /\ receipts[c] # <<>> => challenge[c].state = "consumed" /\ challenge[c].reason = "accepted"

Bound(h, c, e) == e.sealed = c /\ e.report /\ e.signer = h /\ e.ak = h /\ e.quoted = c /\ e.values /\ e.replays /\ h \in TpmHosts

(* What a receipt says is true of the evidence it was given for: sealed,   *)
(* signed and quoted for this challenge by the identity and the            *)
(* attestation key of the host it was issued to, with the measurements of  *)
(* the baseline that the receipt names and an inventory within its rule,   *)
(* and its verdict is full assurance.  The candidate file, too, holds only *)
(* evidence bound to a challenge of its host, never evidence that got a    *)
(* receipt.                                                                *)
ReceiptIsTrue ==
  /\ \A c \in Challenges : \A i \in 1 .. Len(receipts[c]) :
       LET r == receipts[c][i] IN
       /\ r.host = challenge[c].host /\ Bound(r.host, c, r.evidence) /\ r.verdict = "full"
       /\ r.evidence.measurement = r.baseline.measurement /\ r.evidence.size \in (r.baseline.size - Delta) .. (r.baseline.size + Delta)
  /\ candidate.file = "whole" =>
       LET c == candidate.evidence.sealed IN
       c \in Challenges /\ candidate.host = challenge[c].host /\ Bound(candidate.host, c, candidate.evidence) /\ receipts[c] = <<>>

Held(c) == \E w \in Workers : worker[w].pc # "idle" /\ worker[w].id = c

(* A challenge that was consumed or found expired keeps its record for     *)
(* ever, and one whose Submit was lost to a crash or to a failed Finish is *)
(* never taken up again, whatever the clock does and however often the     *)
(* gateway restarts.                                                       *)
NeverReopened ==
  [][\A c \in Challenges :
       \/ challenge[c].state \in {"consumed", "expired"}
       \/ challenge[c].state = "processing" /\ ~ Held(c)
       => challenge'[c] = challenge[c]]_vars

(* When a receipt leaves, its baseline is still the host's: Submit reads   *)
(* the host record long before IssueReceipt names its BaselineID, and it   *)
(* is the store's file lock that keeps pbnsctl from changing it meanwhile. *)
ReceiptNamesCurrentBaseline ==
  [][\A c \in Challenges :
       receipts'[c] # receipts[c] => receipts'[c][Len(receipts'[c])].baseline = baseline[challenge[c].host]]_vars

(* The approvals applied to a host make one line from the baseline it was  *)
(* enrolled with to the one it has: no fork, no return to an earlier one,  *)
(* no circle beside the line, no baseline shared with another host,        *)
(* whatever order signed proposals are applied in and however often        *)
(* (ApplyBaselineApproval).                                                *)
OneLineOfBaselines ==
  \A h \in Hosts :
    LET line == {x \in history : x.host = h}
        parents == {x.parent : x \in line}
        news == {x.new : x \in line}
    IN /\ \A x, y \in line : x.parent = y.parent \/ x.new = y.new => x = y
       /\ Enrolled[h] \notin news /\ baseline[h] \notin parents
       /\ {Enrolled[h]} \cup news = parents \cup {baseline[h]}
       /\ \A part \in SUBSET line : part # {} => {x.parent : x \in part} # {x.new : x \in part}
       /\ \A g \in Hosts \ {h} : baseline[g] # baseline[h]
=============================================================================
