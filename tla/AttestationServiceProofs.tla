---------------------- MODULE AttestationServiceProofs ----------------------
(***************************************************************************)
(* AttestationService for every set of hosts, challenges, connections,     *)
(* baselines and measurements, however the clock is set and however often  *)
(* the gateway restarts: a challenge earns at most one receipt, what a     *)
(* receipt says is true, a used challenge is never taken up again, and the *)
(* baselines of a host form one line.                                      *)
(*                                                                         *)
(* What makes it inductive: a challenge that is being processed, or was    *)
(* consumed by an acceptance whose receipt has not left yet, is held by at *)
(* most one connection, and while any connection holds one the store is    *)
(* open, so that pbnsctl cannot have changed the baseline it has read.     *)
(***************************************************************************)
EXTENDS AttestationService, TLAPS

Live == [state : {"issued", "processing", "expired"}, host : Hosts, expires : Int]
Used == [state : {"consumed"}, host : Hosts, expires : Int, reason : Reasons]
ChallengeRecord == {[state |-> "none"]} \cup Live \cup Used

Verifying == [pc : {"verify"}, id : Challenges]
Refused == [pc : {"finish"}, id : Challenges, reason : Reasons \ {"accepted"}]
Accepting == [pc : {"finish"}, id : Challenges, reason : {"accepted"}, evidence : Evidence, baseline : Baselines]
Answering == [pc : {"receipt"}, id : Challenges, evidence : Evidence, baseline : Baselines]
WorkerRecord == {Idle} \cup Verifying \cup Refused \cup Accepting \cup Answering

Receipt == [host : Hosts, baseline : Baselines, evidence : Evidence, verdict : {"full", "reduced", "failure"}]
Proposal == [host : Hosts, parent : Baselines, new : Baselines, classification : {"security", "inventory"},
             issued : Int, expires : Int]
Approval == [host : Hosts, parent : Baselines, new : Baselines]

TypeInv ==
  /\ running \in {"no", "gateway", "checkpoint"} /\ now \in Int
  /\ challenge \in [Challenges -> ChallengeRecord]
  /\ worker \in [Workers -> WorkerRecord]
  /\ receipts \in [Challenges -> Seq(Receipt)]
  /\ baseline \in [Hosts -> Baselines]
  /\ stored \subseteq Baselines
  /\ history \subseteq Approval
  /\ proposals \subseteq Proposal

(* Evidence e shows that host h had what baseline b asks for.              *)
Vouches(h, c, b, e) ==
  /\ Bound(h, c, e)
  /\ e.measurement = b.measurement /\ e.size \in (b.size - Delta) .. (b.size + Delta)

Holding(w) == worker[w].pc # "idle"

(* One connection per challenge, and none while the store is closed.       *)
Exclusive ==
  /\ \A w \in Workers : Holding(w) => running # "no"
  /\ \A v, w \in Workers : Holding(v) /\ Holding(w) /\ worker[v].id = worker[w].id => v = w

(* What the store says of a challenge that a connection holds.             *)
HolderInv ==
  \A w \in Workers :
    /\ Holding(w) => receipts[worker[w].id] = <<>>
    /\ worker[w].pc \in {"verify", "finish"} => challenge[worker[w].id].state = "processing"
    /\ worker[w].pc = "receipt" =>
         challenge[worker[w].id].state = "consumed" /\ challenge[worker[w].id].reason = "accepted"

(* Evidence a connection is about to accept or has accepted is evidence    *)
(* for the baseline the host still has.                                    *)
AcceptanceInv ==
  \A w \in Workers :
    worker[w] \in Accepting \cup Answering =>
      LET h == challenge[worker[w].id].host IN
      worker[w].baseline = baseline[h] /\ Vouches(h, worker[w].id, worker[w].baseline, worker[w].evidence)

ReceiptTrue(c, r) ==
  r.host = challenge[c].host /\ Vouches(r.host, c, r.baseline, r.evidence) /\ r.verdict = "full"

ReceiptInv ==
  \A c \in Challenges : receipts[c] # <<>> =>
    /\ Len(receipts[c]) = 1
    /\ challenge[c].state = "consumed" /\ challenge[c].reason = "accepted"
    /\ ReceiptTrue(c, receipts[c][1])

(* The challenge behind the candidate file failed, or is about to.         *)
Failed(c) ==
  /\ receipts[c] = <<>>
  /\ challenge[c].state \in {"processing", "consumed"}
  /\ challenge[c].state = "consumed" => challenge[c].reason # "accepted"
  /\ \A w \in Workers : Holding(w) /\ worker[w].id = c => worker[w] \in Refused

CandidateInv ==
  candidate.file = "whole" =>
    LET c == candidate.evidence.sealed IN
    /\ c \in Challenges /\ Failed(c)
    /\ candidate.host = challenge[c].host /\ Bound(candidate.host, c, candidate.evidence)

ServiceInv == TypeInv /\ Exclusive /\ HolderInv /\ AcceptanceInv /\ ReceiptInv /\ CandidateInv

(* Every baseline in a host's line is in the store, which is why a new one *)
(* cannot be an old one of this or of another host.                        *)
Line(h) == {x \in history : x.host = h}
Parents(h) == {x.parent : x \in Line(h)}
News(h) == {x.new : x \in Line(h)}

LineInv ==
  \A h \in Hosts :
    /\ Enrolled[h] \in stored /\ baseline[h] \in stored
    /\ \A x \in Line(h) : x.parent \in stored /\ x.new \in stored
    /\ \A x, y \in Line(h) : (x.parent = y.parent \/ x.new = y.new) => x = y
    /\ Enrolled[h] \notin News(h) /\ baseline[h] \notin Parents(h)
    /\ {Enrolled[h]} \cup News(h) = Parents(h) \cup {baseline[h]}
    /\ \A g \in Hosts \ {h} : baseline[g] # baseline[h]

-----------------------------------------------------------------------------
(* Verifier.Assess stops at the first check that fails: a verdict is       *)
(* trusted only when every check was made and passed, and is a candidate's *)
(* only when nothing but the comparison with the baseline failed.          *)
LEMMA AssessVerdict ==
  ASSUME NEW h, NEW b, NEW c, NEW e
  PROVE  /\ Trusted(Assess(h, b, c, e)) =>
              /\ h \in TpmHosts /\ e.replays /\ verifyQuote(h, c, e) = "trusted"
              /\ MeasurementReason(b, e) = "trusted" /\ InventoryReason(b, e) = "trusted"
         /\ IsCandidate(Assess(h, b, c, e)) =>
              h \in TpmHosts /\ e.replays /\ verifyQuote(h, c, e) = "trusted"
<1> DEFINE quote == verifyQuote(h, c, e)
           quoted == [Skipped EXCEPT !.quote = quote]
           replayed == [quoted EXCEPT !.eventLog = IF e.replays THEN "trusted" ELSE "event_log_replay"]
           measured == [replayed EXCEPT !.measurement = MeasurementReason(b, e)]
           bare == [Skipped EXCEPT !.capability = "tpm_required"]
           drifted == [replayed EXCEPT !.inventory = InventoryReason(b, e)]
           full == [measured EXCEPT !.inventory = "trusted"]
<1>1. measured.measurement = MeasurementReason(b, e)
  BY DEF Skipped
<1>2. ~ Trusted(bare) /\ ~ IsCandidate(bare)
  BY DEF Skipped, Trusted, IsCandidate
<1>3. ~ Trusted(quoted) /\ ~ IsCandidate(quoted)
  BY DEF Skipped, Trusted, IsCandidate
<1>4. ~ Trusted(replayed) /\ ~ IsCandidate(replayed)
  BY Zenon DEF Skipped, Trusted, IsCandidate
<1>5. ~ Trusted(measured)
  <2>1. "inventory" \in DOMAIN measured /\ measured["inventory"] = "skipped"
    BY DEF Skipped
  <2> QED
    BY <2>1, Zenon DEF Trusted
<1>6. ~ Trusted(drifted)
  <2>1. "measurement" \in DOMAIN drifted /\ drifted["measurement"] = "skipped"
    BY DEF Skipped
  <2> QED
    BY <2>1, Zenon DEF Trusted
<1>7. Assess(h, b, c, e) =
        IF h \notin TpmHosts THEN bare
        ELSE IF quote # "trusted" THEN quoted
        ELSE IF ~ e.replays THEN replayed
        ELSE IF measured.measurement # "trusted" THEN measured
        ELSE IF InventoryReason(b, e) # "trusted" THEN drifted
        ELSE full
  BY DEF Assess
<1> HIDE DEF quoted, replayed, measured, bare, drifted, full
<1> QED
  BY <1>1, <1>2, <1>3, <1>4, <1>5, <1>6, <1>7

LEMMA QuoteBound ==
  ASSUME NEW h, NEW c, NEW e \in Evidence, verifyQuote(h, c, e) = "trusted"
  PROVE  e.quoted = c /\ e.values /\ e.ak = h
BY DEF verifyQuote, Evidence

(* The comparison with a baseline, as the interval the receipt promises.   *)
LEMMA WithinRule ==
  ASSUME NEW b \in Baselines, NEW e \in Evidence,
         MeasurementReason(b, e) = "trusted", InventoryReason(b, e) = "trusted"
  PROVE  e.measurement = b.measurement /\ e.size \in (b.size - Delta) .. (b.size + Delta)
<1>1. e.size \in Int /\ b.size \in Int /\ Delta \in Int
  <2>1. e.size \in Sizes
    BY DEF Evidence
  <2>2. b.size \in Sizes
    BY BaselineAssumption
  <2>3. (\A n \in Sizes : n \in Nat) /\ Delta \in Nat
    BY BaselineAssumption, Zenon
  <2> QED
    BY <2>1, <2>2, <2>3
<1>2. e.measurement = b.measurement
  BY DEF MeasurementReason
<1>3. within(b.size, e.size)
  BY DEF InventoryReason
<1> QED
  BY <1>1, <1>2, <1>3 DEF within

(* What Submit accepts is evidence for the challenge and the baseline.     *)
LEMMA AcceptedVouches ==
  ASSUME NEW c, NEW e \in Evidence, Decision(c, e) = "accepted",
         baseline[challenge[c].host] \in Baselines
  PROVE  Vouches(challenge[c].host, c, baseline[challenge[c].host], e)
<1> DEFINE h == challenge[c].host
<1>1. Decrypts(c, e) /\ verifyEvidence(h, e) = "accepted" /\ Trusted(Assess(h, baseline[h], c, e))
  BY DEF Decision
<1>2. e.sealed = c /\ e.report /\ e.signer = h
  BY <1>1 DEF Decrypts, verifyEvidence
<1>3. e.quoted = c /\ e.values /\ e.ak = h /\ e.replays /\ h \in TpmHosts
  BY <1>1, AssessVerdict, QuoteBound
<1>4. e.measurement = baseline[h].measurement
        /\ e.size \in (baseline[h].size - Delta) .. (baseline[h].size + Delta)
  BY <1>1, AssessVerdict, WithinRule
<1> QED
  BY <1>2, <1>3, <1>4 DEF Vouches, Bound

(* A candidate's evidence is bound to the challenge it failed.             *)
LEMMA CandidateBound ==
  ASSUME NEW c, NEW e \in Evidence, Decision(c, e) = "verification",
         IsCandidate(Assess(challenge[c].host, baseline[challenge[c].host], c, e))
  PROVE  Bound(challenge[c].host, c, e)
<1> DEFINE h == challenge[c].host
<1>1. Decrypts(c, e) /\ verifyEvidence(h, e) = "accepted"
  <2>1. verifyEvidence(h, e) \in {"context", "authentication", "accepted"}
    BY DEF verifyEvidence
  <2> QED
    BY <2>1 DEF Decision
<1>2. e.sealed = c /\ e.report /\ e.signer = h
  BY <1>1 DEF Decrypts, verifyEvidence
<1>3. e.quoted = c /\ e.values /\ e.ak = h /\ e.replays /\ h \in TpmHosts
  BY AssessVerdict, QuoteBound
<1> QED
  BY <1>2, <1>3 DEF Bound
-----------------------------------------------------------------------------
(* What the step of a connection, or the state of a challenge, says of the *)
(* rest of its record.                                                     *)
LEMMA WorkerShape ==
  ASSUME NEW k \in WorkerRecord
  PROVE  /\ k.pc \in {"idle", "verify", "finish", "receipt"}
         /\ k.pc = "idle" => k = Idle
         /\ k.pc # "idle" => k.id \in Challenges
         /\ k.pc = "verify" <=> k \in Verifying
         /\ k.pc = "receipt" <=> k \in Answering
         /\ k.pc = "finish" <=> k \in Refused \cup Accepting
         /\ k \in Refused => k.reason \in Reasons \ {"accepted"}
         /\ k \in Accepting => k.reason = "accepted"
         /\ k \in Accepting \cup Answering => k.evidence \in Evidence /\ k.baseline \in Baselines
<1>1. CASE k = Idle
  BY <1>1 DEF Idle, Verifying, Refused, Accepting, Answering
<1>2. CASE k \in Verifying
  BY <1>2 DEF Idle, Verifying, Refused, Accepting, Answering
<1>3. CASE k \in Refused
  BY <1>3 DEF Idle, Verifying, Refused, Accepting, Answering
<1>4. CASE k \in Accepting
  BY <1>4 DEF Idle, Verifying, Refused, Accepting, Answering
<1>5. CASE k \in Answering
  BY <1>5 DEF Idle, Verifying, Refused, Accepting, Answering
<1> QED
  BY <1>1, <1>2, <1>3, <1>4, <1>5 DEF WorkerRecord

LEMMA ChallengeShape ==
  ASSUME NEW r \in ChallengeRecord
  PROVE  /\ r.state \in States
         /\ r.state # "none" => r.host \in Hosts /\ r.expires \in Int
         /\ r.state \in {"issued", "processing", "expired"} => r \in Live
         /\ r.state = "consumed" => r \in Used
BY DEF ChallengeRecord, Live, Used, States

(* A challenge whose state moves on keeps its host.                        *)
LEMMA LiveMoves ==
  ASSUME NEW r \in Live, NEW s \in {"issued", "processing", "expired"}
  PROVE  /\ [r EXCEPT !.state = s] \in Live
         /\ [r EXCEPT !.state = s].state = s /\ [r EXCEPT !.state = s].host = r.host
BY DEF Live

LEMMA LiveUsed ==
  ASSUME NEW r \in Live, NEW reason \in Reasons
  PROVE  LET u == [state |-> "consumed", host |-> r.host, expires |-> r.expires, reason |-> reason]
         IN u \in Used /\ u.state = "consumed" /\ u.host = r.host /\ u.reason = reason
BY DEF Live, Used

-----------------------------------------------------------------------------
LEMMA ServiceInit == Init => ServiceInv
<1> SUFFICES ASSUME Init PROVE ServiceInv
  OBVIOUS
<1> USE DEF Init
<1>1. TypeInv
  <2>1. challenge \in [Challenges -> ChallengeRecord]
    BY DEF ChallengeRecord
  <2>2. worker \in [Workers -> WorkerRecord]
    BY DEF WorkerRecord
  <2>3. receipts \in [Challenges -> Seq(Receipt)]
    OBVIOUS
  <2>4. baseline \in [Hosts -> Baselines] /\ stored \subseteq Baselines
    BY EnrolledAssumption
  <2> QED
    BY <2>1, <2>2, <2>3, <2>4 DEF TypeInv
<1>2. \A w \in Workers : ~ Holding(w) /\ worker[w].pc = "idle"
  BY DEF Holding, Idle
<1>3. \A w \in Workers : worker[w] \notin Accepting \cup Answering
  BY <1>2 DEF Accepting, Answering
<1>4. candidate.file # "whole"
  BY DEF NoFile
<1>5. Exclusive /\ HolderInv
  BY <1>2 DEF Exclusive, HolderInv
<1>6. AcceptanceInv /\ ReceiptInv /\ CandidateInv
  BY <1>3, <1>4 DEF AcceptanceInv, ReceiptInv, CandidateInv
<1> QED
  BY <1>1, <1>5, <1>6 DEF ServiceInv

(* A step of one connection that leaves alone the others and the           *)
(* challenges they hold.                                                   *)
LEMMA HoldersStep ==
  ASSUME ServiceInv, NEW w \in Workers, NEW k \in WorkerRecord, worker' = [worker EXCEPT ![w] = k],
         UNCHANGED <<running, baseline>>,
         \A v \in Workers \ {w} : Holding(v) =>
           challenge'[worker[v].id] = challenge[worker[v].id] /\ receipts'[worker[v].id] = receipts[worker[v].id],
         k.pc # "idle" =>
           /\ running # "no" /\ receipts'[k.id] = <<>>
           /\ \A v \in Workers \ {w} : Holding(v) => worker[v].id # k.id,
         k.pc \in {"verify", "finish"} => challenge'[k.id].state = "processing",
         k.pc = "receipt" => challenge'[k.id].state = "consumed" /\ challenge'[k.id].reason = "accepted",
         k \in Accepting \cup Answering =>
           LET h == challenge'[k.id].host IN k.baseline = baseline[h] /\ Vouches(h, k.id, k.baseline, k.evidence)
  PROVE  Exclusive' /\ HolderInv' /\ AcceptanceInv'
<1>1. worker'[w] = k /\ \A v \in Workers \ {w} : worker'[v] = worker[v]
  BY DEF ServiceInv, TypeInv
<1>2. Exclusive'
  BY <1>1 DEF ServiceInv, Exclusive, Holding
<1>3. HolderInv'
  <2> SUFFICES ASSUME NEW v \in Workers
               PROVE  /\ Holding(v)' => receipts'[worker'[v].id] = <<>>
                      /\ worker'[v].pc \in {"verify", "finish"} => challenge'[worker'[v].id].state = "processing"
                      /\ worker'[v].pc = "receipt" =>
                           challenge'[worker'[v].id].state = "consumed" /\ challenge'[worker'[v].id].reason = "accepted"
    BY DEF HolderInv
  <2>1. CASE v = w
    BY <1>1, <2>1 DEF Holding
  <2>2. CASE v # w
    BY <1>1, <2>2, SMTT(30) DEF ServiceInv, HolderInv, Holding
  <2> QED
    BY <2>1, <2>2
<1>4. AcceptanceInv'
  <2> SUFFICES ASSUME NEW v \in Workers, worker'[v] \in Accepting \cup Answering
               PROVE  LET h == challenge'[worker'[v].id].host IN
                      worker'[v].baseline = baseline[h] /\ Vouches(h, worker'[v].id, worker'[v].baseline, worker'[v].evidence)
    BY DEF AcceptanceInv
  <2>1. CASE v = w
    BY <1>1, <2>1
  <2>2. CASE v # w
    <3>1. worker'[v] = worker[v] /\ Holding(v)
      BY <1>1, <2>2, WorkerShape DEF ServiceInv, TypeInv, Holding
    <3> QED
      BY <2>2, <3>1 DEF ServiceInv, AcceptanceInv
  <2> QED
    BY <2>1, <2>2
<1> QED
  BY <1>2, <1>3, <1>4

LEMMA ReceiptsStep ==
  ASSUME ServiceInv, UNCHANGED receipts, \A c \in Challenges : receipts[c] # <<>> => challenge'[c] = challenge[c]
  PROVE  ReceiptInv'
BY DEF ServiceInv, ReceiptInv, ReceiptTrue

LEMMA CandidateStep ==
  ASSUME ServiceInv, NEW w \in Workers, NEW k \in WorkerRecord, worker' = [worker EXCEPT ![w] = k],
         UNCHANGED candidate,
         candidate.file = "whole" =>
           LET d == candidate.evidence.sealed IN
           /\ receipts'[d] = receipts[d] /\ challenge'[d].host = challenge[d].host
           /\ challenge'[d] = challenge[d] \/ (challenge'[d].state = "consumed" /\ challenge'[d].reason # "accepted")
           /\ k.pc = "idle" \/ k.id # d
  PROVE  CandidateInv'
<1> SUFFICES ASSUME candidate.file = "whole" PROVE CandidateInv'
  BY DEF CandidateInv
<1> DEFINE d == candidate.evidence.sealed
<1>1. d \in Challenges /\ Failed(d) /\ candidate.host = challenge[d].host /\ Bound(candidate.host, d, candidate.evidence)
  BY DEF ServiceInv, CandidateInv
<1> HIDE DEF d
<1>2. \A v \in Workers : Holding(v)' /\ worker'[v].id = d => worker'[v] \in Refused
  BY <1>1 DEF d, ServiceInv, TypeInv, Failed, Holding
<1>3. Failed(d)'
  BY <1>1, <1>2 DEF d, Failed
<1> QED
  BY <1>1, <1>3 DEF d, CandidateInv

(* A challenge nobody has submitted to is held by nobody, has no receipt   *)
(* and is not the candidate's.                                             *)
LEMMA FreshChallenge ==
  ASSUME ServiceInv, NEW c \in Challenges, challenge[c].state \in {"none", "issued"}
  PROVE  /\ \A w \in Workers : Holding(w) => worker[w].id \in Challenges \ {c}
         /\ receipts[c] = <<>>
         /\ candidate.file = "whole" => candidate.evidence.sealed \in Challenges \ {c}
<1> USE DEF ServiceInv
<1>1. \A w \in Workers : Holding(w) => worker[w].id \in Challenges \ {c}
  BY WorkerShape DEF TypeInv, Holding, HolderInv
<1>2. receipts[c] = <<>>
  BY DEF ReceiptInv
<1>3. candidate.file = "whole" => candidate.evidence.sealed \in Challenges \ {c}
  BY DEF CandidateInv, Failed
<1> QED
  BY <1>1, <1>2, <1>3

(* A step that rewrites the record of such a challenge and nothing else.   *)
LEMMA FreshRecordKeeps ==
  ASSUME ServiceInv, NEW c \in Challenges, challenge[c].state \in {"none", "issued"},
         NEW r \in ChallengeRecord, challenge' = [challenge EXCEPT ![c] = r],
         UNCHANGED <<running, now, worker, receipts, candidate, admin>>
  PROVE  ServiceInv'
<1> USE DEF ServiceInv
<1>1. UNCHANGED <<running, now, worker, receipts, candidate, baseline, stored, history, proposals>>
  BY DEF admin
<1>2. \A d \in Challenges \ {c} : challenge'[d] = challenge[d]
  BY DEF TypeInv
<1>3. challenge' \in [Challenges -> ChallengeRecord]
  BY DEF TypeInv
<1>4. /\ \A w \in Workers : Holding(w) => worker[w].id \in Challenges \ {c}
      /\ receipts[c] = <<>>
      /\ candidate.file = "whole" => candidate.evidence.sealed \in Challenges \ {c}
  BY FreshChallenge
<1>5. TypeInv' /\ Exclusive'
  BY <1>1, <1>3 DEF TypeInv, Exclusive, Holding
<1>6. HolderInv'
  BY <1>1, <1>2, <1>4, WorkerShape, SMTT(30) DEF HolderInv, Holding, TypeInv
<1>7. AcceptanceInv'
  <2>1. \A w \in Workers : worker[w] \in Accepting \cup Answering => worker[w].id \in Challenges \ {c}
    BY <1>4, WorkerShape, ZenonT(30) DEF Holding, TypeInv
  <2> QED
    BY <2>1, <1>1, <1>2 DEF AcceptanceInv
<1>8. ReceiptInv'
  BY <1>1, <1>2, <1>4, SMTT(30) DEF ReceiptInv, ReceiptTrue
<1>9. CandidateInv'
  BY <1>1, <1>2, <1>4 DEF CandidateInv, Failed, Holding
<1> QED
  BY <1>5, <1>6, <1>7, <1>8, <1>9

LEMMA IssueKeeps ==
  ASSUME ServiceInv, NEW h \in Hosts, NEW c \in Challenges, Issue(h, c)
  PROVE  ServiceInv'
<1>1. NewChallenge(h) \in ChallengeRecord
  BY BoundAssumption DEF NewChallenge, ChallengeRecord, Live, ServiceInv, TypeInv
<1> QED
  BY <1>1, FreshRecordKeeps, Zenon DEF Issue, Unused

(* A connection that begins to process an issued challenge becomes its     *)
(* only holder.                                                            *)
LEMMA BeginKeeps ==
  ASSUME ServiceInv, NEW w \in Workers, NEW c \in Challenges, BeginSubmit(w, c)
  PROVE  ServiceInv'
<1> USE DEF ServiceInv
<1>1. CASE Expired(c)
  <2>1. CASE challenge[c].state = "issued"
    <3>1. challenge[c] \in Live
      BY <2>1, ChallengeShape DEF TypeInv
    <3> DEFINE r == [challenge[c] EXCEPT !.state = "expired"]
    <3>2. r \in ChallengeRecord
      BY <3>1, LiveMoves, Zenon DEF ChallengeRecord
    <3>3. challenge' = [challenge EXCEPT ![c] = r]
      BY <1>1, <2>1 DEF BeginSubmit
    <3>4. UNCHANGED <<running, now, worker, receipts, candidate, admin>>
      BY <1>1 DEF BeginSubmit
    <3> HIDE DEF r
    <3> QED
      BY <2>1, <3>2, <3>3, <3>4, FreshRecordKeeps, Zenon
  <2>2. CASE challenge[c].state # "issued"
    <3>1. UNCHANGED vars
      BY <1>1, <2>2 DEF BeginSubmit, vars, admin
    <3> QED
      BY <3>1, ZenonT(30) DEF vars, admin, TypeInv, Exclusive, HolderInv, AcceptanceInv, ReceiptInv, ReceiptTrue,
                  CandidateInv, Failed, Holding
  <2> QED
    BY <2>1, <2>2
<1>2. CASE ~ Expired(c)
  <2> DEFINE r == [challenge[c] EXCEPT !.state = "processing"]
             k == [pc |-> "verify", id |-> c]
  <2>1. running # "no" /\ worker[w] = Idle /\ challenge[c].state = "issued"
    BY <1>2 DEF BeginSubmit, Available
  <2>2. challenge' = [challenge EXCEPT ![c] = r] /\ worker' = [worker EXCEPT ![w] = k]
        /\ UNCHANGED <<running, now, receipts, candidate, baseline, stored, history, proposals>>
    BY <1>2 DEF BeginSubmit, admin
  <2>3. challenge[c] \in Live
    BY <2>1, ChallengeShape DEF TypeInv
  <2>4. r \in ChallengeRecord /\ r.state = "processing"
    BY <2>3, LiveMoves, ZenonT(30) DEF ChallengeRecord
  <2>5. k \in WorkerRecord /\ k.pc = "verify" /\ k.id = c /\ k \notin Accepting \cup Answering
    BY DEF WorkerRecord, Verifying, Accepting, Answering
  <2> HIDE DEF r, k
  <2>6. challenge'[c].state = "processing" /\ \A d \in Challenges \ {c} : challenge'[d] = challenge[d]
    BY <2>2, <2>4 DEF TypeInv
  <2>7. /\ \A v \in Workers : Holding(v) => worker[v].id \in Challenges \ {c}
        /\ receipts[c] = <<>>
        /\ candidate.file = "whole" => candidate.evidence.sealed \in Challenges \ {c}
    BY <2>1, FreshChallenge
  <2>8. TypeInv'
    BY <2>2, <2>4, <2>5 DEF TypeInv
  <2> HIDE DEF ServiceInv
  <2>9. Exclusive' /\ HolderInv' /\ AcceptanceInv'
    BY <2>1, <2>2, <2>5, <2>6, <2>7, HoldersStep, ZenonT(30)
  <2>10. ReceiptInv'
    BY <2>2, <2>6, <2>7, ReceiptsStep
  <2>11. CandidateInv'
    BY <2>2, <2>5, <2>6, <2>7, CandidateStep, Zenon
  <2> QED
    BY <2>8, <2>9, <2>10, <2>11 DEF ServiceInv
<1> QED
  BY <1>1, <1>2, SMTT(30)

(* A connection that gives its challenge up leaves everything else alone.  *)
LEMMA DropKeeps ==
  ASSUME ServiceInv, NEW w \in Workers, worker' = [worker EXCEPT ![w] = Idle],
         UNCHANGED <<running, now, challenge, receipts, candidate, admin>>
  PROVE  ServiceInv'
<1>1. UNCHANGED <<running, now, challenge, receipts, candidate, baseline, stored, history, proposals>>
  BY DEF admin
<1>2. Idle \in WorkerRecord /\ Idle.pc = "idle" /\ Idle \notin Accepting \cup Answering
  BY DEF WorkerRecord, Idle, Accepting, Answering
<1>3. TypeInv'
  BY <1>1, <1>2 DEF ServiceInv, TypeInv
<1>4. Exclusive' /\ HolderInv' /\ AcceptanceInv'
  BY <1>1, <1>2, HoldersStep, Zenon
<1>5. ReceiptInv' /\ CandidateInv'
  BY <1>1, <1>2, ReceiptsStep, CandidateStep, ZenonT(30)
<1> QED
  BY <1>3, <1>4, <1>5 DEF ServiceInv

(* A connection that has decided, and may have made a candidate of what it *)
(* refused.                                                                *)
LEMMA DecisionKeeps ==
  ASSUME ServiceInv, NEW w \in Workers, worker[w].pc = "verify",
         NEW k \in Refused \cup Accepting, k.id = worker[w].id, worker' = [worker EXCEPT ![w] = k],
         k \in Accepting => /\ k.baseline = baseline[challenge[k.id].host]
                            /\ Vouches(challenge[k.id].host, k.id, k.baseline, k.evidence),
         \/ candidate' = candidate
         \/ candidate'.file # "whole"
         \/ /\ k \in Refused /\ candidate'.evidence.sealed = k.id
            /\ candidate'.host = challenge[k.id].host
            /\ Bound(candidate'.host, k.id, candidate'.evidence),
         UNCHANGED <<running, now, challenge, receipts, admin>>
  PROVE  ServiceInv'
<1>1. UNCHANGED <<running, now, challenge, receipts, baseline, stored, history, proposals>>
  BY DEF admin
<1>2. k \in WorkerRecord /\ k.pc = "finish" /\ k \notin Answering /\ k.id \in Challenges
  BY WorkerShape, SMTT(30) DEF WorkerRecord, Refused, Accepting, Answering
<1>3. TypeInv'
  BY <1>1, <1>2, SMTT(30) DEF ServiceInv, TypeInv
<1>4. Holding(w) /\ receipts[k.id] = <<>> /\ challenge[k.id].state = "processing" /\ running # "no"
  BY SMTT(30) DEF Holding, ServiceInv, HolderInv, Exclusive
<1>5. \A v \in Workers \ {w} : Holding(v) => worker[v].id # k.id
  BY <1>4 DEF ServiceInv, Exclusive
<1>6. Exclusive' /\ HolderInv' /\ AcceptanceInv'
  BY <1>1, <1>2, <1>4, <1>5, HoldersStep, ZenonT(30)
<1>7. ReceiptInv'
  BY <1>1, ReceiptsStep, SMTT(30)
<1>8. CandidateInv'
  <2>1. CASE candidate' = candidate
    <3>1. worker[w] \notin Refused
      BY SMTT(30) DEF Refused
    <3>2. candidate.file = "whole" => candidate.evidence.sealed # k.id
      BY <3>1, <1>4, SMTT(30) DEF ServiceInv, CandidateInv, Failed
    <3> QED
      BY <2>1, <3>2, <1>1, <1>2, CandidateStep, ZenonT(30)
  <2>2. CASE candidate'.file # "whole"
    BY <2>2, SMTT(30) DEF CandidateInv
  <2>3. CASE /\ k \in Refused /\ candidate'.evidence.sealed = k.id
             /\ candidate'.host = challenge[k.id].host
             /\ Bound(candidate'.host, k.id, candidate'.evidence)
    <3>1. \A v \in Workers : Holding(v)' /\ worker'[v].id = k.id => worker'[v] \in Refused
      BY <2>3, <1>5, ZenonT(30) DEF Holding, ServiceInv, TypeInv
    <3>2. Failed(candidate.evidence.sealed)'
      BY <2>3, <3>1, <1>1, <1>4 DEF Failed, Holding
    <3> QED
      BY <2>3, <3>2, <1>1, <1>2 DEF CandidateInv, Bound
  <2> QED
    BY <2>1, <2>2, <2>3
<1> QED
  BY <1>3, <1>6, <1>7, <1>8, SMTT(30) DEF ServiceInv

LEMMA RefuseKeeps ==
  ASSUME ServiceInv, NEW w \in Workers, RefuseSubmit(w)
  PROVE  ServiceInv'
<1>1. worker[w].pc = "verify" /\ worker[w].id \in Challenges
  BY WorkerShape DEF RefuseSubmit, ServiceInv, TypeInv
<1>2. PICK reason \in {"invalid", "host", "cancelled"} :
        worker' = [worker EXCEPT ![w] = Refusal(worker[w].id, reason)]
  BY Zenon DEF RefuseSubmit
<1> DEFINE k == Refusal(worker[w].id, reason)
<1>3. k \in Refused /\ k.id = worker[w].id /\ k \notin Accepting
  BY <1>1 DEF Refusal, Refused, Reasons, Accepting
<1>4. worker' = [worker EXCEPT ![w] = k] /\ candidate' = candidate
      /\ UNCHANGED <<running, now, challenge, receipts, admin>>
  BY <1>2, ZenonT(30) DEF RefuseSubmit
<1> HIDE DEF k
<1> QED
  BY <1>1, <1>3, <1>4, DecisionKeeps, Zenon

LEMMA VerifyKeeps ==
  ASSUME ServiceInv, NEW w \in Workers, Verify(w)
  PROVE  ServiceInv'
<1> DEFINE c == worker[w].id
           h == challenge[c].host
<1>1. worker[w].pc = "verify" /\ c \in Challenges /\ challenge[c].state = "processing"
  BY WorkerShape DEF Verify, ServiceInv, TypeInv, HolderInv
<1>2. h \in Hosts /\ baseline[h] \in Baselines
  BY <1>1, ChallengeShape DEF ServiceInv, TypeInv
<1>3. PICK e \in Evidence :
        /\ worker' = [worker EXCEPT ![w] = IF Decision(c, e) = "accepted"
                        THEN [pc |-> "finish", id |-> c, reason |-> Decision(c, e), evidence |-> e, baseline |-> baseline[h]]
                        ELSE Refusal(c, Decision(c, e))]
        /\ candidate' \in IF running = "checkpoint" /\ Decision(c, e) = "verification"
                                /\ IsCandidate(Assess(h, baseline[h], c, e))
                          THEN writeExclusive(Candidate(h, e)) ELSE {candidate}
  BY ZenonT(30) DEF Verify
<1>4. UNCHANGED <<running, now, challenge, receipts, admin>>
  BY DEF Verify
<1>5. CASE Decision(c, e) = "accepted"
  <2> DEFINE k == [pc |-> "finish", id |-> c, reason |-> "accepted", evidence |-> e, baseline |-> baseline[h]]
  <2>1. k \in Accepting /\ k.id = c /\ k.baseline = baseline[h] /\ k.evidence = e
    BY <1>1, <1>2 DEF Accepting
  <2>2. worker' = [worker EXCEPT ![w] = k] /\ candidate' = candidate
    BY <1>3, <1>5, SMTT(30)
  <2>3. Vouches(h, c, baseline[h], e)
    BY <1>2, <1>5, AcceptedVouches
  <2> HIDE DEF k
  <2> QED
    BY <1>1, <1>4, <2>1, <2>2, <2>3, DecisionKeeps, Zenon
<1>6. CASE Decision(c, e) # "accepted"
  <2> DEFINE k == Refusal(c, Decision(c, e))
  <2>1. Decision(c, e) \in Reasons
    <3>1. verifyEvidence(h, e) \in Reasons
      BY DEF verifyEvidence, Reasons
    <3> QED
      BY <3>1 DEF Decision, Reasons
  <2>2. k \in Refused /\ k.id = c /\ k \notin Accepting
    BY <1>1, <1>6, <2>1 DEF Refused, Refusal, Accepting
  <2>3. worker' = [worker EXCEPT ![w] = k]
    BY <1>3, <1>6, SMTT(30)
  <2>4. \/ candidate' = candidate
        \/ candidate'.file # "whole"
        \/ /\ candidate'.evidence.sealed = c /\ candidate'.host = h
           /\ Bound(candidate'.host, c, candidate'.evidence)
    <3>1. CASE running = "checkpoint" /\ Decision(c, e) = "verification" /\ IsCandidate(Assess(h, baseline[h], c, e))
      <4>1. candidate' \in {candidate, Candidate(h, e), [file |-> "torn"], NoFile}
        BY <3>1, <1>3 DEF writeExclusive
      <4>2. [file |-> "torn"].file # "whole" /\ NoFile.file # "whole"
        BY SMTT(30) DEF NoFile
      <4>3. Bound(h, c, e) /\ e.sealed = c
        BY <3>1, CandidateBound, SMTT(30) DEF Bound
      <4>4. Candidate(h, e).evidence = e /\ Candidate(h, e).host = h
        BY SMTT(30) DEF Candidate
      <4> QED
        BY <4>1, <4>2, <4>3, <4>4, SMTT(30)
    <3>2. CASE ~ (running = "checkpoint" /\ Decision(c, e) = "verification" /\ IsCandidate(Assess(h, baseline[h], c, e)))
      BY <3>2, <1>3
    <3> QED
      BY <3>1, <3>2, SMTT(30)
  <2> HIDE DEF k
  <2> QED
    BY <1>1, <1>4, <2>2, <2>3, <2>4, DecisionKeeps, ZenonT(30)
<1> QED
  BY <1>5, <1>6, SMTT(30)

(* The store consumes the challenge of connection w, which goes on to the  *)
(* receipt only with an acceptance.                                        *)
LEMMA ConsumeKeeps ==
  ASSUME ServiceInv, NEW w \in Workers, worker[w].pc = "finish", NEW k \in WorkerRecord, NEW u \in ChallengeRecord,
         challenge' = [challenge EXCEPT ![worker[w].id] = u], worker' = [worker EXCEPT ![w] = k],
         u.state = "consumed", u.host = challenge[worker[w].id].host, u.reason = worker[w].reason,
         \/ k = Idle
         \/ /\ worker[w] \in Accepting /\ k \in Answering
            /\ k.id = worker[w].id /\ k.baseline = worker[w].baseline /\ k.evidence = worker[w].evidence,
         UNCHANGED <<running, now, receipts, candidate, admin>>
  PROVE  ServiceInv'
<1>1. PICK c \in Challenges : c = worker[w].id
  BY WorkerShape DEF ServiceInv, TypeInv
<1>2. Holding(w) /\ receipts[c] = <<>> /\ challenge[c].state = "processing" /\ running # "no"
  BY <1>1 DEF ServiceInv, HolderInv, Exclusive, Holding
<1>3. UNCHANGED <<running, now, receipts, candidate, baseline, stored, history, proposals>>
  BY DEF admin
<1>4. challenge'[c] = u /\ \A d \in Challenges \ {c} : challenge'[d] = challenge[d]
  BY <1>1, SMTT(30) DEF ServiceInv, TypeInv
<1>5. TypeInv'
  BY <1>1, <1>3 DEF ServiceInv, TypeInv
<1>6. \A v \in Workers \ {w} : Holding(v) => worker[v].id \in Challenges \ {c}
  BY <1>1, <1>2, WorkerShape, SMTT(30) DEF ServiceInv, Exclusive, Holding, TypeInv
<1>7. ReceiptInv'
  BY <1>2, <1>3, <1>4, ReceiptsStep, SMTT(30)
<1>8. CASE k = Idle
  <2>1. k.pc = "idle" /\ k \notin Accepting \cup Answering
    BY <1>8 DEF Idle, Accepting, Answering
  <2>2. Exclusive' /\ HolderInv' /\ AcceptanceInv'
    BY <2>1, <1>3, <1>4, <1>6, HoldersStep, ZenonT(30)
  <2>3. candidate.file = "whole" /\ candidate.evidence.sealed = c => u.reason # "accepted"
    BY <1>1, <1>2, WorkerShape DEF ServiceInv, TypeInv, CandidateInv, Failed
  <2>4. candidate.file = "whole" => candidate.evidence.sealed \in Challenges
    BY Zenon DEF ServiceInv, CandidateInv
  <2>5. CandidateInv'
    BY <2>1, <2>3, <2>4, <1>1, <1>3, <1>4, CandidateStep, ZenonT(30)
  <2> QED
    BY <1>5, <1>7, <2>2, <2>5 DEF ServiceInv
<1>9. CASE /\ worker[w] \in Accepting /\ k \in Answering
           /\ k.id = worker[w].id /\ k.baseline = worker[w].baseline /\ k.evidence = worker[w].evidence
  <2>1. k.pc = "receipt" /\ k.id = c /\ u.reason = "accepted"
    BY <1>1, <1>9, WorkerShape DEF ServiceInv, TypeInv
  <2>2. k.baseline = baseline[u.host] /\ Vouches(u.host, k.id, k.baseline, k.evidence)
    BY <1>9 DEF ServiceInv, AcceptanceInv
  <2>3. Exclusive' /\ HolderInv' /\ AcceptanceInv'
    <3>1. challenge'[k.id] = u /\ receipts'[k.id] = <<>>
      BY <2>1, <1>2, <1>3, <1>4, ZenonT(30)
    <3>2. k.baseline = baseline[challenge'[k.id].host]
          /\ Vouches(challenge'[k.id].host, k.id, k.baseline, k.evidence)
      BY <2>2, <3>1, ZenonT(30)
    <3>3. \A v \in Workers \ {w} : Holding(v) =>
            /\ challenge'[worker[v].id] = challenge[worker[v].id] /\ receipts'[worker[v].id] = receipts[worker[v].id]
            /\ worker[v].id # k.id
      BY <2>1, <1>3, <1>4, <1>6, ZenonT(30)
    <3> QED
      BY <2>1, <3>1, <3>2, <3>3, <1>2, <1>3, HoldersStep, ZenonT(30)
  <2>4. worker[w] \notin Refused
    BY <1>9 DEF Refused, Accepting
  <2>5. candidate.file = "whole" => candidate.evidence.sealed \in Challenges \ {c}
    BY <2>4, <1>1, <1>2 DEF ServiceInv, CandidateInv, Failed
  <2>6. CandidateInv'
    BY <2>1, <2>5, <1>3, <1>4, CandidateStep, ZenonT(30)
  <2> QED
    BY <1>5, <1>7, <2>3, <2>6 DEF ServiceInv
<1> QED
  BY <1>8, <1>9

(* Finish: the challenge is consumed before the connection goes on to the  *)
(* receipt, and by its only holder.                                        *)
LEMMA FinishKeeps ==
  ASSUME ServiceInv, NEW w \in Workers, Finish(w)
  PROVE  ServiceInv'
<1> DEFINE c == worker[w].id
           reason == worker[w].reason
           u == [state |-> "consumed", host |-> challenge[c].host, expires |-> challenge[c].expires, reason |-> reason]
           k == [pc |-> "receipt", id |-> c, evidence |-> worker[w].evidence, baseline |-> worker[w].baseline]
<1>1. worker[w].pc = "finish" /\ c \in Challenges /\ worker[w] \in Refused \cup Accepting /\ reason \in Reasons
  BY WorkerShape DEF Finish, ServiceInv, TypeInv, Reasons
<1>2. challenge[c].state = "processing" /\ challenge[c] \in Live
  BY <1>1, ChallengeShape DEF ServiceInv, HolderInv, TypeInv
<1>3. Finished(c, reason) = [challenge EXCEPT ![c] = u]
  BY <1>2 DEF Finished
<1>4. UNCHANGED <<running, now, receipts, candidate, admin>>
  BY DEF Finish
<1>5. /\ challenge' = challenge \/ challenge' = [challenge EXCEPT ![c] = u]
      /\ \/ worker' = [worker EXCEPT ![w] = Idle]
         \/ reason = "accepted" /\ worker' = [worker EXCEPT ![w] = k] /\ challenge' = [challenge EXCEPT ![c] = u]
  BY <1>3, ZenonT(30) DEF Finish, Accepted
<1>6. u \in ChallengeRecord /\ u.state = "consumed" /\ u.host = challenge[c].host /\ u.reason = reason
  BY <1>1, <1>2, LiveUsed, SMTT(30) DEF ChallengeRecord
<1>7. reason = "accepted" =>
        /\ worker[w] \in Accepting /\ k \in Answering
        /\ k.id = c /\ k.baseline = worker[w].baseline /\ k.evidence = worker[w].evidence
  BY <1>1, WorkerShape, SMTT(30) DEF Answering, Accepting, Refused
<1>8. Idle \in WorkerRecord /\ (reason = "accepted" => k \in WorkerRecord)
  BY <1>7 DEF WorkerRecord
<1> HIDE DEF u, k
<1>9. CASE challenge' = challenge /\ worker' = [worker EXCEPT ![w] = Idle]
  BY <1>4, <1>9, DropKeeps, Zenon
<1>10. CASE challenge' = [challenge EXCEPT ![c] = u] /\ worker' = [worker EXCEPT ![w] = Idle]
  BY <1>1, <1>4, <1>6, <1>8, <1>10, ConsumeKeeps, Zenon
<1>11. CASE reason = "accepted" /\ challenge' = [challenge EXCEPT ![c] = u] /\ worker' = [worker EXCEPT ![w] = k]
  BY <1>1, <1>4, <1>6, <1>7, <1>8, <1>11, ConsumeKeeps, ZenonT(30)
<1> QED
  BY <1>5, <1>9, <1>10, <1>11

LEMMA Single == ASSUME NEW r PROVE Len(<<r>>) = 1 /\ <<r>>[1] = r
OBVIOUS

(* A receipt r leaves for challenge c, the first of its challenge.         *)
LEMMA SentKeeps ==
  ASSUME ServiceInv, NEW w \in Workers, worker[w].pc = "receipt", NEW c \in Challenges, c = worker[w].id,
         NEW r \in Receipt, ReceiptTrue(c, r),
         receipts' = [receipts EXCEPT ![c] = Append(@, r)], worker' = [worker EXCEPT ![w] = Idle],
         UNCHANGED <<running, now, challenge, candidate, admin>>
  PROVE  ServiceInv'
<1>1. UNCHANGED <<running, now, challenge, candidate, baseline, stored, history, proposals>>
  BY SMTT(30) DEF admin
<1>2. Holding(w) /\ receipts[c] = <<>> /\ challenge[c].state = "consumed" /\ challenge[c].reason = "accepted"
  BY DEF ServiceInv, HolderInv, Holding
<1>3. receipts'[c] = <<r>> /\ \A d \in Challenges \ {c} : receipts'[d] = receipts[d]
  BY <1>2 DEF ServiceInv, TypeInv
<1>4. Idle \in WorkerRecord /\ Idle.pc = "idle" /\ Idle \notin Accepting \cup Answering
  BY ZenonT(30) DEF WorkerRecord, Idle, Accepting, Answering
<1>5. TypeInv'
  <2>1. receipts' \in [Challenges -> Seq(Receipt)]
    <3>1. Append(receipts[c], r) \in Seq(Receipt)
      BY DEF ServiceInv, TypeInv
    <3> QED
      BY <3>1 DEF ServiceInv, TypeInv
  <2> QED
    BY <2>1, <1>1, <1>4 DEF ServiceInv, TypeInv
<1>6. \A v \in Workers \ {w} : Holding(v) => worker[v].id \in Challenges \ {c}
  BY <1>2, WorkerShape DEF ServiceInv, Exclusive, Holding, TypeInv
<1>7. Exclusive' /\ HolderInv' /\ AcceptanceInv'
  BY <1>1, <1>3, <1>4, <1>6, HoldersStep, ZenonT(30)
<1>8. ReceiptInv'
  <2> SUFFICES ASSUME NEW d \in Challenges, receipts'[d] # <<>>
               PROVE  /\ Len(receipts'[d]) = 1 /\ challenge[d].state = "consumed"
                      /\ challenge[d].reason = "accepted" /\ ReceiptTrue(d, receipts'[d][1])
    BY <1>1, ZenonT(30) DEF ReceiptInv, ReceiptTrue
  <2>1. CASE d = c
    <3>1. receipts'[d] = <<r>>
      BY <1>3, <2>1
    <3>2. Len(receipts'[d]) = 1 /\ receipts'[d][1] = r
      BY <3>1, Single, Zenon
    <3> QED
      BY <1>2, <2>1, <3>2
  <2>2. CASE d # c
    BY <1>3, <2>2 DEF ServiceInv, ReceiptInv
  <2> QED
    BY <2>1, <2>2
<1>9. CandidateInv'
  <2>1. candidate.file = "whole" => candidate.evidence.sealed \in Challenges \ {c}
    BY <1>2 DEF ServiceInv, CandidateInv, Failed
  <2> QED
    BY <2>1, <1>1, <1>3, <1>4, CandidateStep, ZenonT(30)
<1> QED
  BY <1>5, <1>7, <1>8, <1>9 DEF ServiceInv

(* IssueReceipt: the receipt says what the connection has established.     *)
LEMMA ReceiptKeeps ==
  ASSUME ServiceInv, NEW w \in Workers, IssueReceipt(w)
  PROVE  /\ ServiceInv'
         /\ \E c \in Challenges, r \in Receipt :
              /\ receipts' = [receipts EXCEPT ![c] = Append(@, r)] /\ receipts[c] = <<>>
              /\ r.baseline = baseline[challenge[c].host]
<1> DEFINE c == worker[w].id
           h == challenge[c].host
           b == worker[w].baseline
           e == worker[w].evidence
           r == [host |-> h, baseline |-> b, evidence |-> e, verdict |-> receiptOutcome(h, Assess(h, b, c, e))]
<1>1. worker[w].pc = "receipt" /\ c \in Challenges /\ worker[w] \in Answering /\ e \in Evidence /\ b \in Baselines
  BY WorkerShape DEF IssueReceipt, ServiceInv, TypeInv
<1>2. receipts[c] = <<>> /\ challenge[c].state = "consumed" /\ h \in Hosts
  BY <1>1, ChallengeShape, SMTT(30) DEF ServiceInv, HolderInv, Holding, TypeInv
<1>3. b = baseline[h] /\ Vouches(h, c, b, e)
  BY <1>1, SMTT(30) DEF ServiceInv, AcceptanceInv
<1>4. Trusted(Assess(h, b, c, e)) /\ receipts' = [receipts EXCEPT ![c] = Append(@, r)]
      /\ worker' = [worker EXCEPT ![w] = Idle] /\ UNCHANGED <<running, now, challenge, candidate, admin>>
  BY DEF IssueReceipt
<1>5. receiptOutcome(h, Assess(h, b, c, e)) = "full"
  BY <1>4, AssessVerdict DEF receiptOutcome
<1>6. r \in Receipt /\ r.host = h /\ r.baseline = b /\ r.evidence = e /\ r.verdict = "full"
  BY <1>1, <1>2, <1>5, ZenonT(30) DEF Receipt
<1> HIDE DEF r
<1>7. ReceiptTrue(c, r)
  BY <1>3, <1>6 DEF ReceiptTrue
<1>8. ServiceInv'
  BY <1>1, <1>4, <1>6, <1>7, SentKeeps, ZenonT(30)
<1> QED
  BY <1>1, <1>2, <1>3, <1>4, <1>6, <1>8, Zenon

(* The process dies: nobody holds anything.                                *)
LEMMA StopKeeps ==
  ASSUME ServiceInv, Stop
  PROVE  ServiceInv'
<1> USE DEF ServiceInv
<1>1. UNCHANGED <<now, challenge, receipts, candidate, baseline, stored, history, proposals>>
      /\ running' = "no" /\ worker' = [w \in Workers |-> Idle]
  BY DEF Stop, admin
<1>2. Idle \in WorkerRecord /\ Idle.pc = "idle" /\ Idle \notin Accepting \cup Answering
  BY DEF WorkerRecord, Idle, Accepting, Answering
<1>3. TypeInv'
  BY <1>1, <1>2 DEF TypeInv
<1>4. \A w \in Workers : worker'[w] = Idle
  BY <1>1, SMTT(30)
<1>5. Exclusive' /\ HolderInv' /\ AcceptanceInv'
  BY <1>2, <1>4, SMTT(30) DEF Exclusive, HolderInv, AcceptanceInv, Holding
<1>6. ReceiptInv'
  BY <1>1, SMTT(30) DEF ReceiptInv, ReceiptTrue
<1>7. CandidateInv'
  BY <1>1, <1>2, <1>4 DEF CandidateInv, Failed, Holding
<1> QED
  BY <1>3, <1>5, <1>6, <1>7

(* Steps outside the submissions.  The baselines change only while the     *)
(* store is free, when no connection has read one.                         *)
LEMMA OutsideKeeps ==
  ASSUME ServiceInv, UNCHANGED <<challenge, worker, receipts, candidate>>, TypeInv',
         \/ running' # "no"
         \/ running' = running,
         baseline' = baseline \/ running = "no"
  PROVE  ServiceInv'
<1> USE DEF ServiceInv
<1>1. Exclusive' /\ HolderInv'
  BY DEF Exclusive, HolderInv, Holding
<1>2. AcceptanceInv'
  <2>1. CASE baseline' = baseline
    BY <2>1, SMTT(30) DEF AcceptanceInv
  <2>2. CASE running = "no"
    BY <2>2, WorkerShape, SMTT(30) DEF AcceptanceInv, Exclusive, Holding, TypeInv
  <2> QED
    BY <2>1, <2>2, SMTT(30)
<1>3. ReceiptInv' /\ CandidateInv'
  BY DEF ReceiptInv, ReceiptTrue, CandidateInv, Failed, Holding
<1> QED
  BY <1>1, <1>2, <1>3, SMTT(30)

LEMMA OpenKeeps == ServiceInv /\ (Open \/ SetClock) => ServiceInv'
<1> SUFFICES ASSUME ServiceInv, Open \/ SetClock PROVE ServiceInv'
  OBVIOUS
<1>1. /\ UNCHANGED <<challenge, worker, receipts, candidate, baseline, stored, history, proposals>>
      /\ running' \in {"gateway", "checkpoint"} \/ running' = running
      /\ now' \in Int
  BY BoundAssumption DEF Open, Reopened, SetClock, Time, admin, ServiceInv, TypeInv
<1>2. TypeInv'
  BY <1>1 DEF ServiceInv, TypeInv
<1> QED
  BY <1>1, <1>2, OutsideKeeps

LEMMA ProposalKeeps ==
  ASSUME ServiceInv, NEW h \in Hosts, NEW b \in Baselines, CreateProposal(h, b)
  PROVE  ServiceInv'
<1> DEFINE p == [host |-> h, parent |-> baseline[h], new |-> b, classification |-> Classification(baseline[h], b),
                 issued |-> now, expires |-> now + TTL]
<1>1. UNCHANGED <<running, now, challenge, worker, receipts, candidate, baseline, stored, history>>
      /\ proposals' = proposals \cup {p}
  BY DEF CreateProposal
<1>2. p \in Proposal
  <2>1. Classification(baseline[h], b) \in {"security", "inventory"}
    BY DEF Classification
  <2>2. baseline[h] \in Baselines /\ now \in Int /\ now + TTL \in Int
    BY BoundAssumption DEF ServiceInv, TypeInv
  <2> QED
    BY <2>1, <2>2 DEF Proposal
<1> HIDE DEF p
<1>3. TypeInv'
  BY <1>1, <1>2 DEF ServiceInv, TypeInv
<1> QED
  BY <1>1, <1>3, OutsideKeeps

LEMMA ApplyKeeps ==
  ASSUME ServiceInv, NEW p \in proposals, ApplyBaselineApproval(p)
  PROVE  ServiceInv'
<1> DEFINE x == [host |-> p.host, parent |-> p.parent, new |-> p.new]
<1>1. /\ UNCHANGED <<running, now, challenge, worker, receipts, candidate, proposals>>
      /\ running = "no" /\ stored' = stored \cup {p.new}
      /\ baseline' = [baseline EXCEPT ![p.host] = p.new] /\ history' = history \cup {x}
  BY DEF ApplyBaselineApproval, StoreFree
<1>2. p.host \in Hosts /\ p.parent \in Baselines /\ p.new \in Baselines
  BY SMTT(30) DEF ServiceInv, TypeInv, Proposal
<1>3. x \in Approval
  BY <1>2 DEF Approval
<1> HIDE DEF x
<1>5. TypeInv'
  BY <1>1, <1>2, <1>3, ZenonT(30) DEF ServiceInv, TypeInv
<1> QED
  BY <1>1, <1>5, OutsideKeeps

LEMMA ServiceNext == ServiceInv /\ [Next]_vars => ServiceInv'
<1> SUFFICES ASSUME ServiceInv, [Next]_vars PROVE ServiceInv'
  OBVIOUS
<1>1. CASE UNCHANGED vars
  <2>1. TypeInv'
    BY <1>1, SMTT(30) DEF vars, admin, ServiceInv, TypeInv
  <2> QED
    BY <1>1, <2>1, OutsideKeeps DEF vars, admin
<1>2. ASSUME NEW w \in Workers, Verify(w) \/ Finish(w) \/ IssueReceipt(w) \/ NoReceipt(w) \/ RefuseSubmit(w)
      PROVE  ServiceInv'
  <2>1. CASE NoReceipt(w)
    BY <2>1, DropKeeps, ZenonT(30) DEF NoReceipt
  <2> QED
    BY <1>2, <2>1, VerifyKeeps, FinishKeeps, ReceiptKeeps, RefuseKeeps
<1>3. CASE \E h \in Hosts, c \in Challenges : Issue(h, c)
  BY <1>3, IssueKeeps
<1>4. CASE \E w \in Workers, c \in Challenges : BeginSubmit(w, c)
  BY <1>4, BeginKeeps
<1>5. CASE Stop \/ Open \/ SetClock
  BY <1>5, StopKeeps, OpenKeeps
<1>6. CASE \E h \in Hosts, b \in Baselines : CreateProposal(h, b)
  BY <1>6, ProposalKeeps
<1>7. CASE \E p \in proposals : ApplyBaselineApproval(p)
  BY <1>7, ApplyKeeps
<1> QED
  BY <1>1, <1>2, <1>3, <1>4, <1>5, <1>6, <1>7 DEF Next

LEMMA ServiceAlways == Spec => []ServiceInv
BY ServiceInit, ServiceNext, PTL DEF Spec

(* Every challenge is answered by at most one receipt, after the store has *)
(* recorded its acceptance, for any number of connections.                 *)
THEOREM ReceiptsAreSingle == Spec => []OneReceipt
<1>1. ServiceInv => OneReceipt
  <2> SUFFICES ASSUME ServiceInv, NEW c \in Challenges
               PROVE  /\ Len(receipts[c]) <= 1
                      /\ receipts[c] # <<>> => challenge[c].state = "consumed" /\ challenge[c].reason = "accepted"
    BY DEF OneReceipt
  <2>1. CASE receipts[c] = <<>>
    BY <2>1
  <2>2. CASE receipts[c] # <<>>
    <3>1. Len(receipts[c]) = 1 /\ challenge[c].state = "consumed" /\ challenge[c].reason = "accepted"
      BY <2>2, SMTT(30) DEF ServiceInv, ReceiptInv
    <3> QED
      BY <3>1
  <2> QED
    BY <2>1, <2>2
<1> QED
  BY <1>1, ServiceAlways, PTL

(* Every receipt is true of its evidence, and the candidate file holds     *)
(* bound evidence that earned none.                                        *)
THEOREM ReceiptsAreTrue == Spec => []ReceiptIsTrue
<1>1. ServiceInv => ReceiptIsTrue
  <2> SUFFICES ASSUME ServiceInv PROVE ReceiptIsTrue
    OBVIOUS
  <2>1. \A c \in Challenges : \A i \in 1 .. Len(receipts[c]) : ReceiptTrue(c, receipts[c][i])
    <3> SUFFICES ASSUME NEW c \in Challenges, NEW i \in 1 .. Len(receipts[c]) PROVE ReceiptTrue(c, receipts[c][i])
      OBVIOUS
    <3>1. receipts[c] # <<>>
      <4>1. Len(receipts[c]) # 0
        BY DEF ServiceInv, TypeInv
      <4> QED
        BY <4>1
    <3>2. Len(receipts[c]) = 1 /\ ReceiptTrue(c, receipts[c][1])
      BY <3>1 DEF ServiceInv, ReceiptInv
    <3>3. i = 1
      BY <3>2, SMTT(30)
    <3> QED
      BY <3>2, <3>3
  <2>2. candidate.file = "whole" =>
          LET c == candidate.evidence.sealed IN
          /\ c \in Challenges /\ candidate.host = challenge[c].host
          /\ Bound(candidate.host, c, candidate.evidence) /\ receipts[c] = <<>>
    BY DEF ServiceInv, CandidateInv, Failed
  <2> QED
    BY <2>1, <2>2 DEF ReceiptIsTrue, ReceiptTrue, Vouches
<1> QED
  BY <1>1, ServiceAlways, PTL
(* A used, expired or abandoned challenge keeps its record for ever.       *)
THEOREM ChallengesStayUsed == Spec => NeverReopened
<1> DEFINE Kept == \A c \in Challenges :
                     \/ challenge[c].state \in {"consumed", "expired"}
                     \/ challenge[c].state = "processing" /\ ~ Held(c)
                     => challenge'[c] = challenge[c]
<1>1. ServiceInv /\ [Next]_vars => [Kept]_vars
  <2> SUFFICES ASSUME ServiceInv, Next PROVE Kept
    OBVIOUS
  <2>1. ASSUME UNCHANGED challenge PROVE Kept
    BY <2>1
  <2>2. ASSUME NEW d \in Challenges, \A c \in Challenges \ {d} : challenge'[c] = challenge[c],
               \/ challenge[d].state \in {"none", "issued"}
               \/ challenge[d].state = "processing" /\ Held(d)
        PROVE  Kept
    BY <2>2
  <2> HIDE DEF Kept
  <2>3. ASSUME NEW h \in Hosts, NEW c \in Challenges, Issue(h, c) PROVE Kept
    <3>1. challenge[c].state = "none" /\ \A d \in Challenges \ {c} : challenge'[d] = challenge[d]
      BY <2>3 DEF Issue, Unused, ServiceInv, TypeInv
    <3> QED
      BY <2>2, <3>1
  <2>4. ASSUME NEW w \in Workers, NEW c \in Challenges, BeginSubmit(w, c) PROVE Kept
    <3>1. \/ challenge' = challenge
          \/ /\ challenge[c].state = "issued"
             /\ \A d \in Challenges \ {c} : challenge'[d] = challenge[d]
      BY <2>4 DEF BeginSubmit, Available, ServiceInv, TypeInv
    <3> QED
      BY <2>1, <2>2, <3>1
  <2>5. ASSUME NEW w \in Workers, Finish(w) PROVE Kept
    <3> DEFINE c == worker[w].id
    <3>1. c \in Challenges /\ challenge[c].state = "processing" /\ Held(c)
      BY <2>5, WorkerShape, SMTT(30) DEF Finish, ServiceInv, TypeInv, HolderInv, Held
    <3>2. \A d \in Challenges \ {c} : challenge'[d] = challenge[d]
      BY <2>5 DEF Finish, Finished, ServiceInv, TypeInv
    <3> HIDE DEF c
    <3> QED
      BY <2>2, <3>1, <3>2, SMTT(30)
  <2>6. ASSUME NEW w \in Workers, Verify(w) \/ IssueReceipt(w) \/ NoReceipt(w) \/ RefuseSubmit(w) PROVE Kept
    BY <2>1, <2>6, ZenonT(30) DEF Verify, IssueReceipt, NoReceipt, RefuseSubmit
  <2>7. CASE Stop \/ Open \/ SetClock
    BY <2>1, <2>7 DEF Stop, Open, Reopened, SetClock
  <2>8. ASSUME NEW h \in Hosts, NEW b \in Baselines, CreateProposal(h, b) PROVE Kept
    BY <2>1, <2>8 DEF CreateProposal
  <2>9. ASSUME NEW p \in proposals, ApplyBaselineApproval(p) PROVE Kept
    BY <2>1, <2>9 DEF ApplyBaselineApproval
  <2> QED
    BY <2>3, <2>4, <2>5, <2>6, <2>7, <2>8, <2>9 DEF Next
<1> QED
  BY <1>1, ServiceAlways, PTL DEF Spec, NeverReopened

(* A receipt names the baseline its host has when the receipt leaves.      *)
THEOREM ReceiptsNameTheBaseline == Spec => ReceiptNamesCurrentBaseline
<1> DEFINE Named == \A c \in Challenges :
                      receipts'[c] # receipts[c] =>
                        receipts'[c][Len(receipts'[c])].baseline = baseline[challenge[c].host]
<1>1. ServiceInv /\ [Next]_vars => [Named]_vars
  <2> SUFFICES ASSUME ServiceInv, Next PROVE Named
    OBVIOUS
  <2>1. ASSUME NEW w \in Workers, IssueReceipt(w) PROVE Named
    <3>1. PICK c \in Challenges, r \in Receipt :
            /\ receipts' = [receipts EXCEPT ![c] = Append(@, r)] /\ receipts[c] = <<>>
            /\ r.baseline = baseline[challenge[c].host]
      BY <2>1, ReceiptKeeps
    <3>2. receipts'[c] = <<r>> /\ \A d \in Challenges \ {c} : receipts'[d] = receipts[d]
      BY <3>1 DEF ServiceInv, TypeInv
    <3>3. receipts'[c][Len(receipts'[c])] = r
      BY <3>2
    <3> QED
      BY <3>1, <3>2, <3>3
  <2>2. UNCHANGED receipts \/ \E w \in Workers : IssueReceipt(w)
    BY ZenonT(30) DEF Next, Issue, BeginSubmit, Verify, Finish, NoReceipt, RefuseSubmit, Stop, Open, SetClock,
           CreateProposal, ApplyBaselineApproval
  <2> QED
    BY <2>1, <2>2
<1> QED
  BY <1>1, ServiceAlways, PTL DEF Spec, ReceiptNamesCurrentBaseline

-----------------------------------------------------------------------------
LEMMA LineInit == Init => LineInv
<1> SUFFICES ASSUME Init, NEW h \in Hosts
             PROVE  /\ Enrolled[h] \in stored /\ baseline[h] \in stored
                    /\ Line(h) = {}
                    /\ \A g \in Hosts \ {h} : baseline[g] # baseline[h]
  BY DEF LineInv, Init, Line, Parents, News
<1> QED
  BY EnrolledAssumption, SMTT(30) DEF Init, Line

LEMMA LineNext == ServiceInv /\ LineInv /\ [Next]_vars => LineInv'
<1> SUFFICES ASSUME ServiceInv, LineInv, [Next]_vars PROVE LineInv'
  BY SMTT(30)
<1>1. CASE UNCHANGED <<baseline, stored, history>>
  BY <1>1, SMTT(30) DEF LineInv, Line, Parents, News
<1>2. ASSUME NEW p \in proposals, ApplyBaselineApproval(p) PROVE LineInv'
  <2> DEFINE x == [host |-> p.host, parent |-> p.parent, new |-> p.new]
  <2>1. /\ baseline[p.host] = p.parent /\ p.new \notin stored
        /\ stored' = stored \cup {p.new}
        /\ baseline' = [baseline EXCEPT ![p.host] = p.new] /\ history' = history \cup {x}
    BY <1>2 DEF ApplyBaselineApproval, Applicable
  <2>2. p.host \in Hosts
    BY DEF ServiceInv, TypeInv, Proposal
  <2>3. x.host = p.host /\ x.parent = p.parent /\ x.new = p.new
    BY SMTT(30)
  <2> HIDE DEF x
  <2>4. baseline'[p.host] = p.new /\ \A g \in Hosts \ {p.host} : baseline'[g] = baseline[g]
    BY <2>1, <2>2 DEF ServiceInv, TypeInv
  <2> SUFFICES ASSUME NEW h \in Hosts
               PROVE  ( /\ Enrolled[h] \in stored /\ baseline[h] \in stored
                        /\ \A y \in Line(h) : y.parent \in stored /\ y.new \in stored
                        /\ \A y, z \in Line(h) : (y.parent = z.parent \/ y.new = z.new) => y = z
                        /\ Enrolled[h] \notin News(h) /\ baseline[h] \notin Parents(h)
                        /\ {Enrolled[h]} \cup News(h) = Parents(h) \cup {baseline[h]}
                        /\ \A g \in Hosts \ {h} : baseline[g] # baseline[h] )'
    BY ZenonT(30) DEF LineInv
  <2>5. \A f, g \in Hosts : baseline[f] \in stored /\ (f # g => baseline[f] # baseline[g])
    BY DEF LineInv
  <2>6. \A g \in Hosts \ {h} : baseline'[g] # baseline'[h]
    BY <2>1, <2>2, <2>4, <2>5, SMTT(30)
  <2>7. Enrolled[h] \in stored /\ baseline[h] \in stored /\ \A y \in Line(h) : y.parent \in stored /\ y.new \in stored
    BY SMTT(30) DEF LineInv
  <2>8. \A y, z \in Line(h) : (y.parent = z.parent \/ y.new = z.new) => y = z
    BY SMTT(30) DEF LineInv
  <2>9. /\ Enrolled[h] \notin News(h) /\ baseline[h] \notin Parents(h)
        /\ {Enrolled[h]} \cup News(h) = Parents(h) \cup {baseline[h]}
    BY SMTT(30) DEF LineInv
  <2>10. CASE h # p.host
    <3>1. Line(h)' = Line(h) /\ baseline'[h] = baseline[h]
      BY <2>1, <2>3, <2>4, <2>10 DEF Line
    <3>2. News(h)' = News(h) /\ Parents(h)' = Parents(h)
      BY <3>1, SMTT(30) DEF News, Parents
    <3>3. \A y \in Line(h)' : y.parent \in stored' /\ y.new \in stored'
      BY <2>1, <2>7, <3>1
    <3>4. Enrolled[h] \in stored' /\ baseline'[h] \in stored'
      BY <2>1, <2>7, <3>1, SMTT(30)
    <3> QED
      BY <2>6, <2>8, <2>9, <3>1, <3>2, <3>3, <3>4
  <2>11. CASE h = p.host
    <3>1. Line(h)' = Line(h) \cup {x}
      BY <2>1, <2>3, <2>11, SMTT(30) DEF Line
    <3>2. News(h)' = News(h) \cup {p.new} /\ Parents(h)' = Parents(h) \cup {p.parent}
      BY <2>3, <3>1, SMTT(30) DEF News, Parents
    <3>3. p.parent \notin Parents(h) /\ p.new \notin News(h) /\ p.new \notin Parents(h) /\ p.new # p.parent
      BY <2>1, <2>7, <2>9, <2>11 DEF News, Parents
    <3>4. \A y \in Line(h) : y.parent # p.parent /\ y.new # p.new
      BY <3>3 DEF News, Parents
    <3>5. \A y, z \in Line(h)' : (y.parent = z.parent \/ y.new = z.new) => y = z
      BY <2>3, <2>8, <3>1, <3>4, SMTT(30)
    <3>6. \A y \in Line(h)' : y.parent \in stored' /\ y.new \in stored'
      BY <2>1, <2>3, <2>7, <2>11, <3>1, SMTT(30)
    <3>7. Enrolled[h] \in stored' /\ baseline'[h] \in stored'
      BY <2>1, <2>4, <2>7, <2>11
    <3>8. Enrolled[h] \notin News(h)' /\ baseline'[h] \notin Parents(h)'
      BY <2>1, <2>4, <2>7, <2>9, <2>11, <3>2, <3>3, ZenonT(30)
    <3>9. {Enrolled[h]} \cup News(h)' = Parents(h)' \cup {baseline'[h]}
      BY <2>1, <2>4, <2>9, <2>11, <3>2, ZenonT(30)
    <3> QED
      BY <2>6, <3>5, <3>6, <3>7, <3>8, <3>9, SMTT(30)
  <2> QED
    BY <2>10, <2>11, ZenonT(30)
<1> QED
  BY <1>1, <1>2, ZenonT(30) DEF Next, vars, admin, Issue, BeginSubmit, Verify, Finish, IssueReceipt, NoReceipt, RefuseSubmit,
                    Stop, Open, SetClock, CreateProposal

(* No approvals of a host lead from one to the next and back: the latest   *)
(* of them ends in a baseline that was new to the store.                   *)
Circle(s) == s # {} /\ {x.parent : x \in s} = {x.new : x \in s}
NoCircle == \A h \in Hosts : \A s \in SUBSET Line(h) : ~ Circle(s)

LEMMA NoCircleNext == ServiceInv /\ LineInv /\ NoCircle /\ [Next]_vars => NoCircle'
<1> SUFFICES ASSUME ServiceInv, LineInv, NoCircle, [Next]_vars,
                    NEW h \in Hosts, NEW s \in SUBSET Line(h)'
             PROVE  ~ Circle(s)
  BY Zenon DEF NoCircle, Circle
<1>1. CASE UNCHANGED history
  <2>1. Line(h)' = Line(h)
    BY <1>1 DEF Line
  <2> QED
    BY <2>1 DEF NoCircle
<1>2. ASSUME NEW p \in proposals, ApplyBaselineApproval(p) PROVE ~ Circle(s)
  <2> DEFINE x == [host |-> p.host, parent |-> p.parent, new |-> p.new]
  <2>1. history' = history \cup {x} /\ baseline[p.host] = p.parent /\ p.new \notin stored
    BY <1>2 DEF ApplyBaselineApproval, Applicable
  <2>2. x.host = p.host /\ x.parent = p.parent /\ x.new = p.new
    BY SMTT(30)
  <2> HIDE DEF x
  <2>3. s \in SUBSET (Line(h) \cup {x})
    BY <2>1 DEF Line
  <2>4. CASE x \notin s
    <3>1. s \in SUBSET Line(h)
      BY <2>3, <2>4
    <3> QED
      BY <3>1 DEF NoCircle
  <2>5. CASE x \in s
    <3>1. p.host \in Hosts
      BY SMTT(30) DEF ServiceInv, TypeInv, Proposal
    <3>2. x.parent \in stored /\ \A y \in Line(h) : y.parent \in stored
      BY <2>1, <2>2, <3>1, SMTT(30) DEF LineInv
    <3>3. \A y \in s : y.parent # x.new
      BY <2>1, <2>2, <2>3, <3>2
    <3> QED
      BY <2>5, <3>3, Zenon DEF Circle
  <2> QED
    BY <2>4, <2>5, SMTT(30)
<1> QED
  BY <1>1, <1>2, ZenonT(30) DEF Next, vars, admin, Issue, BeginSubmit, Verify, Finish, IssueReceipt, NoReceipt, RefuseSubmit,
                    Stop, Open, SetClock, CreateProposal

(* The baselines of every host form one line, whatever proposals are       *)
(* signed and in whatever order they are applied.                          *)
THEOREM BaselinesFormALine == Spec => []OneLineOfBaselines
<1>1. LineInv /\ NoCircle => OneLineOfBaselines
  BY DEF LineInv, NoCircle, Circle, OneLineOfBaselines, Line, Parents, News
<1>2. Spec => []LineInv
  BY LineInit, LineNext, ServiceAlways, PTL DEF Spec
<1>3. Init => NoCircle
  BY DEF Init, NoCircle, Circle, Line
<1>4. Spec => []NoCircle
  BY <1>2, <1>3, NoCircleNext, ServiceAlways, PTL DEF Spec
<1> QED
  BY <1>1, <1>2, <1>4, PTL
=============================================================================
