----------------------- MODULE ClientAndGatewayProofs -----------------------
(***************************************************************************)
(* Proofs about a client and a server of the recovery network: the         *)
(* attestation client that runs on the host, and the gateway from which a  *)
(* host recovers its boot artifacts.  The two parts share no variable.     *)
(***************************************************************************)
EXTENDS AttestationClient, GatewayServer, FiniteSetTheorems, TLAPS

-----------------------------------------------------------------------------
(***************************************************************************)
(* AttestationClient for every clock resolution, timeout, lifetime and     *)
(* number of records, runs and events: the interval of a time query holds  *)
(* the gateway's time, no gate lets a run go on past its challenge's       *)
(* expiry, and a published result rests on a receipt for this very run.    *)
(*                                                                         *)
(* The clock argument: the host's readings are floors, so a reading before *)
(* the gateway's and a reading after it still bound the gateway's time     *)
(* from both sides, and a deadline counted from the start of the run ends  *)
(* no later than the expiry it was computed from.                          *)
(***************************************************************************)

Gated == {"inventory", "inventoried", "measure", "measured", "encode", "submit", "send", "sending", "answer", "response", "verified", "finish"}
Accepted == {"accepted"} \cup Gated
Known == {"time", "timed", "accept"} \cup Accepted
Quoted == {"send", "sending", "answer", "response", "verified", "finish"}
Answered == {"response", "verified", "finish"}
Verified == {"verified", "finish"}
Steps == {"begin", "issue", "issued", "cleanup"} \cup Known

(* The run is at one of the steps S, or has succeeded.                     *)
Reached(S) == run.pc \in S \/ (run.pc = "cleanup" /\ run.ok)

Fields(r) ==
  [pc |-> r.pc, ok |-> r.ok, start |-> r.start, deadline |-> r.deadline, gated |-> r.gated,
   id |-> r.id, evidence |-> r.evidence, sent |-> r.sent, upload |-> r.upload, receipt |-> r.receipt]

Challenge == [state : {"issued", "expired", "consumed"}, issued : Nat, expiry : Nat]

TypeInv ==
  /\ now \in Nat /\ runs \in Nat /\ log \in Seq(Pcrs) /\ challenge \in Seq(Challenge)
  /\ run = Idle \/ (run = Fields(run) /\ run.pc \in Steps)
  /\ run.pc # "idle" =>
       run.ok \in BOOLEAN /\ run.start \in Nat /\ run.deadline \in Nat /\ run.gated \in Nat

(* The clock readings of the run and of its time query.                    *)
TimeInv ==
  /\ run.pc # "idle" => run.start * TicksPerMs <= now
  /\ query.pc \in {"idle", "failed", "exchange", "answered", "interval"}
  /\ query.pc = "exchange" => query.started \in Nat /\ query.started * TicksPerMs <= now
  /\ query.pc = "answered" =>
       /\ query.started \in Nat /\ query.asserted \in Nat
       /\ query.started * TicksPerMs <= query.asserted /\ query.asserted <= now
       /\ run.start * TicksPerMs <= query.asserted
  /\ query.pc = "interval" =>
       /\ query.earliest \in Nat /\ query.latest \in Nat /\ query.at \in Nat
       /\ query.earliest <= query.at /\ query.at < query.latest + TicksPerMs
       /\ run.start * TicksPerMs <= query.latest
  /\ run.pc \in {"timed", "accept"} => query.pc = "interval"

(* The deadline of an accepted challenge ends within its lifetime.         *)
WindowInv ==
  /\ Reached(Known) => run.id \in 1 .. Len(challenge)
  /\ Reached(Accepted) => run.deadline * TicksPerMs <= challenge[run.id].expiry
  /\ Reached(Gated) => run.gated < challenge[run.id].expiry
  /\ result.published => result.of \in 1 .. Len(challenge) /\ result.gated < challenge[result.of].expiry

(* Log m was log l when l was copied.                                      *)
Continues(m, l) ==
  l \in Seq(Pcrs) /\ m \in Seq(Pcrs) /\ Len(l) <= Len(m) /\ \A i \in 1 .. Len(l) : l[i] = m[i]

CaptureInv ==
  /\ capture.pc \in {"idle", "failed", "read", "done"}
  /\ capture.pc = "read" =>
       capture = [pc |-> "read", log |-> capture.log, nth |-> capture.nth, retry |-> capture.retry,
                  first |-> capture.first, part |-> capture.part]
  /\ capture.pc \in {"read", "done"} => Continues(log, capture.log)
  /\ run.pc \in {"measured", "encode", "submit"} => capture.pc = "done"

(* Evidence as the host makes it, whatever was measured meanwhile.         *)
Honest(e) == Continues(e.quoted, e.log) /\ e.quote = Replay(e.quoted)

EvidenceInv ==
  /\ Reached(Quoted) => run.evidence.run = runs /\ Honest(run.evidence)
  /\ Reached(Answered) => run.receipt \in receipts
  /\ Reached(Verified) => run.receipt.id = run.id /\ run.receipt.evidence = run.evidence
  /\ run.pc = "cleanup" /\ run.ok => run.upload = "finished"

ReceiptInv ==
  \A r \in receipts : /\ r.id \in 1 .. Len(challenge) /\ challenge[r.id].state = "consumed"
                      /\ Honest(r.evidence) /\ Consistent(r.evidence)

ResultInv ==
  result.published =>
    /\ result.receipt \in receipts /\ result.receipt.id = result.of
    /\ result.receipt.evidence = result.evidence /\ result.evidence.run = runs
    /\ result.upload = "finished"

ClientInv ==
  /\ TypeInv /\ TimeInv /\ WindowInv /\ CaptureInv /\ EvidenceInv /\ ReceiptInv /\ ResultInv

-----------------------------------------------------------------------------

(* Clock readings: whole milliseconds, rounded down.                       *)
LEMMA MsFacts ==
  ASSUME NEW t \in Nat
  PROVE  /\ TicksPerMs \in Nat /\ TicksPerMs > 0 /\ Ms(t) \in Nat
         /\ Ms(t) * TicksPerMs <= t /\ t < (Ms(t) + 1) * TicksPerMs
<1>1. PICK d \in Nat : d = TicksPerMs /\ d > 0
  BY TrustedTimeAssumption
<1>2. t \div d \in Nat
  BY <1>1
<1>3. (t \div d) * d <= t
  BY <1>1
<1>4. t < ((t \div d) + 1) * d
  BY <1>1
<1> QED
  BY <1>1, <1>2, <1>3, <1>4 DEF Ms

LEMMA Times ==
  ASSUME NEW a \in Nat, NEW b \in Nat
  PROVE  /\ TicksPerMs \in Nat /\ TicksPerMs > 0 /\ a * TicksPerMs \in Nat
         /\ (a + b) * TicksPerMs = a * TicksPerMs + b * TicksPerMs
         /\ (a + 1) * TicksPerMs = a * TicksPerMs + TicksPerMs
         /\ a <= b => a * TicksPerMs <= b * TicksPerMs
         /\ a < b => (a + 1) * TicksPerMs <= b * TicksPerMs
<1>1. PICK d \in Nat : d = TicksPerMs /\ d > 0
  BY TrustedTimeAssumption
<1>2. (a + b) * d = a * d + b * d /\ a * d \in Nat /\ (a + 1) * d = a * d + d
  OBVIOUS
<1>3. a <= b => a * d <= b * d
  OBVIOUS
<1>4. a < b => (a + 1) * d <= b * d
  OBVIOUS
<1> QED
  BY <1>1, <1>2, <1>3, <1>4

(* A query that began at a reading of started, was answered at asserted    *)
(* and returns at t: what accept_verified_assertion makes of it.           *)
LEMMA AcceptedInterval ==
  ASSUME now \in Nat, NEW started \in Nat, NEW asserted \in Nat, NEW start \in Nat,
         started * TicksPerMs <= asserted, asserted <= now, start * TicksPerMs <= asserted,
         NEW q, q = AcceptAssertion(asserted, Ms(now) - started)
  PROVE  \/ q.pc = "failed"
         \/ /\ q.pc = "interval" /\ q.earliest \in Nat /\ q.latest \in Nat /\ q.at \in Nat
            /\ q.earliest <= q.at /\ q.at < q.latest + TicksPerMs
            /\ start * TicksPerMs <= q.latest
<1>1. PICK m \in Nat, d \in Nat :
        /\ m = Ms(now) /\ d = TicksPerMs /\ d > 0
        /\ m * d <= now /\ now < (m + 1) * d
  BY MsFacts
<1>2. started <= m
  <2>1. started * d <= now
    BY <1>1
  <2>2. ASSUME m < started PROVE FALSE
    <3>1. (m + 1) * d <= started * d
      BY <1>1, <2>2, Times
    <3>2. started * d \in Nat /\ (m + 1) * d \in Nat
      OBVIOUS
    <3> QED
      BY <1>1, <2>1, <3>1, <3>2
  <2> QED
    BY <2>2
<1>3. PICK r \in Nat : r = m - started
  BY <1>2
<1>4. now < r * d + d + asserted
  <2>1. m + 1 = started + (r + 1)
    BY <1>3
  <2>2. (m + 1) * d = started * d + (r + 1) * d
    BY <2>1
  <2>3. (r + 1) * d = r * d + d
    OBVIOUS
  <2>4. r * d \in Nat /\ started * d \in Nat /\ started * d <= asserted
    BY <1>1
  <2>5. \A x, y, z, w \in Nat : z < x + (y + d) /\ x <= w => z < y + d + w
    OBVIOUS
  <2> QED
    BY <1>1, <2>2, <2>3, <2>4, <2>5
<1>5. CASE r > MaxRoundTrip \/ Uncertainty > asserted
  BY <1>1, <1>3, <1>5 DEF AcceptAssertion, NoInterval
<1>6. CASE ~ (r > MaxRoundTrip \/ Uncertainty > asserted)
  <2>1. PICK u \in Nat, e \in Nat, l \in Nat :
          u = Uncertainty /\ u <= asserted /\ e = asserted - u /\ l = asserted + r * d + u
    <3>1. Uncertainty \in Nat /\ Uncertainty <= asserted
      BY <1>6, TrustedTimeAssumption
    <3>2. asserted - Uncertainty \in Nat /\ asserted + r * d + Uncertainty \in Nat
      BY <3>1
    <3> QED
      BY <3>1, <3>2
  <2>2. q = [pc |-> "interval", earliest |-> e, latest |-> l, at |-> now]
    BY <1>1, <1>3, <1>6, <2>1, Zenon DEF AcceptAssertion, IntervalFromAssertion
  <2>3. e <= now /\ now < l + d /\ asserted <= l
    <3>1. r * d \in Nat
      OBVIOUS
    <3> QED
      BY <1>4, <2>1, <3>1
  <2>4. start * d <= l
    <3>1. start * d \in Nat /\ start * d <= asserted
      BY <1>1
    <3> QED
      BY <2>3, <3>1
  <2> QED
    BY <1>1, <2>1, <2>2, <2>3, <2>4
<1> QED
  BY <1>5, <1>6

(* challenge_deadline: counted from the start of the run, the rest of the  *)
(* challenge's lifetime ends no later than the challenge.                  *)
LEMMA DeadlineWithinLifetime ==
  ASSUME NEW start \in Nat, NEW expiry \in Nat, NEW latest \in Nat, latest = query.latest,
         latest <= expiry, start * TicksPerMs <= latest, NEW deadline \in Nat
  PROVE  /\ Min2(ExpiryDeadline(start, expiry), deadline) \in Nat
         /\ Min2(ExpiryDeadline(start, expiry), deadline) * TicksPerMs <= expiry
<1>1. PICK left \in Nat : left = expiry - latest
  OBVIOUS
<1>2. PICK k \in Nat : k = Ms(left) /\ k * TicksPerMs <= left
  BY MsFacts
<1>3. ExpiryDeadline(start, expiry) = start + k
  BY <1>1, <1>2 DEF ExpiryDeadline
<1>4. (start + k) * TicksPerMs <= expiry
  <2>1. (start + k) * TicksPerMs = start * TicksPerMs + k * TicksPerMs
        /\ start * TicksPerMs \in Nat /\ k * TicksPerMs \in Nat
    BY Times, Zenon
  <2> QED
    BY <1>1, <1>2, <2>1
<1>5. PICK m \in Nat : m = Min2(start + k, deadline) /\ m <= start + k
  BY DEF Min2
<1>6. m * TicksPerMs <= (start + k) * TicksPerMs
  BY <1>5, Times
<1>7. m * TicksPerMs \in Nat /\ (start + k) * TicksPerMs \in Nat
  <2>1. start + k \in Nat
    OBVIOUS
  <2> QED
    BY <2>1, Times, Zenon
<1> QED
  BY <1>3, <1>4, <1>5, <1>6, <1>7

(* gate: a reading before such a deadline is a time before the expiry.     *)
LEMMA GateIsEarly ==
  ASSUME now \in Nat, NEW deadline \in Nat, NEW expiry \in Nat,
         deadline * TicksPerMs <= expiry, Ms(now) < deadline
  PROVE  now < expiry
<1>1. PICK m \in Nat : m = Ms(now) /\ now < (m + 1) * TicksPerMs /\ m < deadline
  BY MsFacts
<1>2. (m + 1) * TicksPerMs <= deadline * TicksPerMs
  BY <1>1, Times
<1>3. (m + 1) * TicksPerMs \in Nat /\ deadline * TicksPerMs \in Nat
  <2>1. m + 1 \in Nat
    OBVIOUS
  <2> QED
    BY <2>1, Times, Zenon
<1> QED
  BY <1>1, <1>2, <1>3

-----------------------------------------------------------------------------
(* Logs and challenges.                                                    *)

(* A log that replays to the values of one it continues is that log: an    *)
(* event measured meanwhile extends some PCR.                              *)
LEMMA ReplayTells ==
  ASSUME NEW l, NEW m, Continues(m, l), Replay(l) = Replay(m)
  PROVE  l = m
<1> DEFINE StandsAt(s, p) == {i \in DOMAIN s : s[i] = p}
<1>1. /\ l \in Seq(Pcrs) /\ m \in Seq(Pcrs) /\ Len(l) <= Len(m)
      /\ Len(l) \in Nat /\ Len(m) \in Nat /\ DOMAIN l = 1 .. Len(l) /\ DOMAIN m = 1 .. Len(m)
      /\ \A i \in 1 .. Len(l) : l[i] = m[i]
  BY DEF Continues
<1>2. Len(l) = Len(m)
  <2>0. Len(l) \in Nat /\ Len(m) \in Nat /\ Len(l) <= Len(m)
    BY <1>1
  <2> SUFFICES ASSUME Len(l) < Len(m) PROVE FALSE
    BY <2>0
  <2>1. PICK k \in Nat : k = Len(l) + 1 /\ k \in 1 .. Len(m) /\ k \notin 1 .. Len(l)
    BY <1>1
  <2>2. PICK p \in Pcrs : p = m[k]
    BY <1>1, <2>1
  <2>3. StandsAt(l, p) \in SUBSET StandsAt(m, p)
    BY <1>1
  <2>4. IsFiniteSet(StandsAt(m, p))
    <3>1. IsFiniteSet(1 .. Len(m)) /\ StandsAt(m, p) \in SUBSET (1 .. Len(m))
      BY <1>1, FS_Interval
    <3> QED
      BY <3>1, FS_Subset
  <2>5. Cardinality(StandsAt(l, p)) = Cardinality(StandsAt(m, p))
    <3>1. Replay(l)[p] = Replay(m)[p]
      OBVIOUS
    <3> QED
      BY <3>1 DEF Replay, Value
  <2> HIDE DEF StandsAt
  <2>6. StandsAt(m, p) = StandsAt(l, p)
    BY <2>3, <2>4, <2>5, FS_Subset
  <2>7. k \in StandsAt(m, p) /\ k \notin StandsAt(l, p)
    BY <1>1, <2>1, <2>2 DEF StandsAt
  <2> QED
    BY <2>6, <2>7
<1>3. l = [i \in 1 .. Len(m) |-> l[i]] /\ m = [i \in 1 .. Len(m) |-> m[i]]
  BY <1>1, <1>2
<1>4. \A i \in 1 .. Len(m) : l[i] = m[i]
  BY <1>1, <1>2
<1> QED
  BY <1>3, <1>4

LEMMA ContinuesStep ==
  ASSUME NEW l, NEW m, Continues(m, l), NEW p \in Pcrs
  PROVE  Continues(Append(m, p), l)
<1>1. /\ Append(m, p) \in Seq(Pcrs) /\ Len(Append(m, p)) = Len(m) + 1
      /\ \A i \in 1 .. Len(m) : Append(m, p)[i] = m[i]
  BY DEF Continues
<1>2. Len(l) \in Nat /\ Len(m) \in Nat /\ Len(l) <= Len(m)
  BY DEF Continues
<1>3. Len(l) <= Len(m) + 1 /\ \A i \in 1 .. Len(l) : i \in 1 .. Len(m)
  BY <1>2
<1> QED
  BY <1>1, <1>3 DEF Continues

LEMMA ContinuesItself ==
  ASSUME NEW l \in Seq(Pcrs)
  PROVE  Continues(l, l)
BY DEF Continues

LEMMA IssueFacts ==
  ASSUME challenge \in Seq(Challenge), NEW c \in Challenge, challenge' = Append(challenge, c)
  PROVE  /\ challenge' \in Seq(Challenge) /\ Len(challenge) \in Nat /\ Len(challenge') = Len(challenge) + 1
         /\ \A i \in 1 .. Len(challenge) : i \in 1 .. Len(challenge') /\ challenge'[i] = challenge[i]
OBVIOUS

(* GatewaySubmit decides challenge k: the other challenges and every       *)
(* expiry stay.                                                            *)
LEMMA DecideFacts ==
  ASSUME challenge \in Seq(Challenge), NEW k \in 1 .. Len(challenge), NEW state \in {"expired", "consumed"},
         challenge' = [challenge EXCEPT ![k].state = state]
  PROVE  /\ challenge' \in Seq(Challenge) /\ Len(challenge') = Len(challenge)
         /\ challenge'[k].state = state
         /\ \A i \in 1 .. Len(challenge) :
              /\ challenge'[i].expiry = challenge[i].expiry
              /\ i # k => challenge'[i] = challenge[i]
<1>1. challenge[k] \in Challenge
  OBVIOUS
<1>2. PICK c \in Challenge : c = [challenge[k] EXCEPT !.state = state] /\ c.state = state /\ c.expiry = challenge[k].expiry
  <2>1. \A o \in Challenge : [o EXCEPT !.state = state] \in Challenge
    BY DEF Challenge
  <2>2. \A o \in Challenge : [o EXCEPT !.state = state].state = state /\ [o EXCEPT !.state = state].expiry = o.expiry
    BY DEF Challenge
  <2> QED
    BY <1>1, <2>1, <2>2
<1>3. challenge' = [challenge EXCEPT ![k] = c]
  BY <1>2
<1>4. /\ challenge' \in Seq(Challenge) /\ Len(challenge') = Len(challenge)
      /\ challenge'[k] = c /\ \A i \in 1 .. Len(challenge) : i # k => challenge'[i] = challenge[i]
  BY <1>3
<1> QED
  BY <1>2, <1>4

-----------------------------------------------------------------------------
(* The run's record.                                                       *)
LEMMA RunningRecord ==
  ASSUME ClientInv, run.pc # "idle"
  PROVE  /\ run = Fields(run) /\ run.pc \in Steps /\ run.ok \in BOOLEAN
         /\ run.start \in Nat /\ run.deadline \in Nat /\ run.gated \in Nat
BY DEF ClientInv, TypeInv, Idle

(* The gateway's side, for a step that leaves it alone.                    *)
LEMMA StoresUntouched ==
  ASSUME ClientInv, UNCHANGED <<runs, challenge, receipts, result>>
  PROVE  /\ ReceiptInv' /\ ResultInv'
         /\ (result.published => result.of \in 1 .. Len(challenge) /\ result.gated < challenge[result.of].expiry)'
BY DEF ClientInv, ReceiptInv, ResultInv, WindowInv

(* A step of the run that changes nothing else, and of the run only where  *)
(* it is, what was sent, and the time of the last gate.                    *)
LEMMA MoveKeeps ==
  ASSUME ClientInv, run.pc # "idle", UNCHANGED env, run' = Fields(run'),
         NEW to \in Steps \ {"cleanup"}, run'.pc = to,
         run'.ok = run.ok, run'.start = run.start, run'.deadline = run.deadline, run'.id = run.id,
         run'.evidence = run.evidence, run'.receipt = run.receipt, run'.gated \in Nat,
         to \in {"timed", "accept"} => query.pc = "interval",
         to \in {"measured", "encode", "submit"} => capture.pc = "done",
         to \in Known => run.pc \in Known, to \in Accepted => run.pc \in Accepted,
         to \in Quoted => run.pc \in Quoted, to \in Answered => run.pc \in Answered,
         to \in Gated => run'.gated < challenge[run.id].expiry,
         to \in Verified => run.receipt.id = run.id /\ run.receipt.evidence = run.evidence
  PROVE  ClientInv'
<1>1. UNCHANGED <<now, query, log, capture, runs, challenge, receipts, result>>
  BY DEF env, timeVars, bootVars
<1>2. \A S : Reached(S)' <=> to \in S
  BY DEF Reached
<1>3. TypeInv'
  BY <1>1, RunningRecord, ZenonT(30) DEF ClientInv, TypeInv
<1>4. TimeInv'
  BY <1>1 DEF ClientInv, TimeInv
<1>5. CaptureInv'
  BY <1>1 DEF ClientInv, CaptureInv
<1>6. EvidenceInv'
  <2>1. to \in Quoted => run.evidence.run = runs /\ Honest(run.evidence)
    BY DEF ClientInv, EvidenceInv, Reached
  <2>2. to \in Answered => run.receipt \in receipts
    BY DEF ClientInv, EvidenceInv, Reached
  <2>3. Honest(run.evidence)' <=> Honest(run.evidence)
    BY DEF Honest, Continues, Replay, Value
  <2> QED
    BY <1>1, <1>2, <2>1, <2>2, <2>3, ZenonT(30) DEF EvidenceInv
<1>7. ReceiptInv' /\ ResultInv'
      /\ (result.published => result.of \in 1 .. Len(challenge) /\ result.gated < challenge[result.of].expiry)'
  BY <1>1, StoresUntouched, Zenon
<1>8. WindowInv'
  BY <1>1, <1>2, <1>7, SMTT(30) DEF ClientInv, WindowInv, Reached
<1> QED
  BY <1>3, <1>4, <1>5, <1>6, <1>7, <1>8, SMTT(30) DEF ClientInv

(* Any failure.                                                            *)
LEMMA FailKeeps ==
  ASSUME ClientInv, run.pc # "idle", Fail \/ Abort, query' = query \/ query' = NoQuery,
         UNCHANGED <<now, log, capture, runs, challenge, receipts, result>>
  PROVE  ClientInv'
<1>1. /\ run' = Fields(run') /\ run'.pc = "cleanup" /\ run'.ok = FALSE
      /\ run'.start = run.start /\ run'.deadline = run.deadline /\ run'.gated = run.gated
  <2>1. run = Fields(run)
    BY RunningRecord
  <2>2. \/ run' = [run EXCEPT !.pc = "cleanup", !.ok = FALSE]
        \/ run' = [run EXCEPT !.pc = "cleanup", !.ok = FALSE, !.upload = "cancelled"]
    BY DEF Fail, Abort
  <2> QED
    BY <2>1, <2>2, ZenonT(30) DEF Fields
<1>2. \A S : "cleanup" \notin S => ~ Reached(S)'
  BY <1>1 DEF Reached
<1>3. TypeInv'
  BY <1>1, RunningRecord, Zenon DEF ClientInv, TypeInv, Steps
<1>4. TimeInv'
  BY <1>1 DEF ClientInv, TimeInv, NoQuery
<1>5. CaptureInv'
  BY <1>1 DEF ClientInv, CaptureInv
<1>6. EvidenceInv'
  BY <1>1, <1>2 DEF EvidenceInv, Quoted, Answered, Verified
<1>7. ReceiptInv' /\ ResultInv'
      /\ (result.published => result.of \in 1 .. Len(challenge) /\ result.gated < challenge[result.of].expiry)'
  BY StoresUntouched
<1>8. WindowInv'
  BY <1>2, <1>7 DEF WindowInv, Known, Accepted, Gated
<1> QED
  BY <1>3, <1>4, <1>5, <1>6, <1>7, <1>8 DEF ClientInv

(* The gates.                                                              *)
Gates ==
  {<<"begin", "issue">>, <<"timed", "accept">>, <<"accepted", "inventory">>, <<"inventoried", "measure">>,
   <<"measured", "encode">>, <<"send", "sending">>, <<"verified", "finish">>}

LEMMA GateSteps ==
  ASSUME NEW from, NEW to, <<from, to>> \in Gates
  PROVE  /\ from # "idle" /\ to \in Steps \ {"cleanup"}
         /\ to \in {"timed", "accept"} => from \in {"timed", "accept"}
         /\ to \in {"measured", "encode", "submit"} => from \in {"measured", "encode", "submit"}
         /\ to \in Known => from \in Known
         /\ to \in Accepted => from \in Accepted
         /\ to \in Gated => from \in Accepted
         /\ to \in Quoted => from \in Quoted
         /\ to \in Answered => from \in Answered
         /\ to \in Verified => from \in Verified
BY DEF Gates, Steps, Known, Accepted, Gated, Quoted, Answered, Verified

LEMMA GateKeeps ==
  ASSUME ClientInv, NEW from, NEW to, <<from, to>> \in Gates, Gate(from, to), UNCHANGED env
  PROVE  ClientInv'
<1>1. run.pc = from /\ run.pc # "idle"
  BY GateSteps DEF Gate
<1>2. CASE Fail
  BY <1>1, <1>2, FailKeeps, ZenonT(30) DEF env, timeVars, bootVars
<1>3. CASE BeforeDeadline /\ run' = [run EXCEPT !.pc = to, !.gated = now]
  <2>1. /\ run' = Fields(run') /\ run'.pc = to /\ run'.ok = run.ok /\ run'.start = run.start
        /\ run'.deadline = run.deadline /\ run'.gated = now /\ run'.id = run.id
        /\ run'.evidence = run.evidence /\ run'.receipt = run.receipt
    <3>1. run = Fields(run)
      BY <1>1, RunningRecord
    <3> QED
      BY <1>3, <3>1, Zenon DEF Fields
  <2>2. now \in Nat
    BY DEF ClientInv, TypeInv
  <2>3. to \in Gated => now < challenge[run.id].expiry
    <3> SUFFICES ASSUME to \in Gated PROVE now < challenge[run.id].expiry
      OBVIOUS
    <3>1. run.pc \in Accepted /\ run.pc \in Known
      BY <1>1, GateSteps, Zenon DEF Known
    <3>2. run.id \in 1 .. Len(challenge) /\ run.deadline * TicksPerMs <= challenge[run.id].expiry
      BY <3>1 DEF ClientInv, WindowInv, Reached
    <3>3. challenge[run.id].expiry \in Nat
      <4>1. challenge[run.id] \in Challenge
        BY <3>2 DEF ClientInv, TypeInv
      <4> QED
        BY <4>1 DEF Challenge
    <3>4. run.deadline \in Nat /\ Ms(now) < run.deadline
      BY <1>1, <1>3, RunningRecord, SMTT(30) DEF BeforeDeadline
    <3> QED
      BY <2>2, <3>2, <3>3, <3>4, GateIsEarly, Zenon
  <2>4. to \in {"timed", "accept"} => query.pc = "interval"
    BY <1>1, GateSteps DEF ClientInv, TimeInv
  <2>5. to \in {"measured", "encode", "submit"} => capture.pc = "done"
    BY <1>1, GateSteps, ZenonT(30) DEF ClientInv, CaptureInv
  <2>6. to \in Verified => run.receipt.id = run.id /\ run.receipt.evidence = run.evidence
    BY <1>1, GateSteps DEF ClientInv, EvidenceInv, Reached
  <2> QED
    BY <1>1, <2>1, <2>2, <2>3, <2>4, <2>5, <2>6, GateSteps, MoveKeeps, SMTT(30)
<1> QED
  BY <1>2, <1>3 DEF Gate

LEMMA GatesKeep ==
  ASSUME ClientInv,
         BeginGate \/ TimeGate \/ AcceptGate \/ InventoryGate \/ MeasuredGate \/ SendGate \/ ReceiptGate
  PROVE  ClientInv'
<1>1. \/ Gate("begin", "issue") \/ Gate("timed", "accept") \/ Gate("accepted", "inventory")
      \/ Gate("inventoried", "measure") \/ Gate("measured", "encode") \/ Gate("send", "sending")
      \/ Gate("verified", "finish")
  BY DEF BeginGate, TimeGate, AcceptGate, InventoryGate, MeasuredGate, SendGate, ReceiptGate
<1>2. UNCHANGED env
  BY DEF BeginGate, TimeGate, AcceptGate, InventoryGate, MeasuredGate, SendGate, ReceiptGate
<1>3. /\ <<"begin", "issue">> \in Gates /\ <<"timed", "accept">> \in Gates
      /\ <<"accepted", "inventory">> \in Gates /\ <<"inventoried", "measure">> \in Gates
      /\ <<"measured", "encode">> \in Gates /\ <<"send", "sending">> \in Gates
      /\ <<"verified", "finish">> \in Gates
  BY DEF Gates
<1> QED
  BY <1>1, <1>2, <1>3, GateKeeps

(* Failures that nothing but the run sees.                                 *)
LEMMA RefusalsKeep ==
  ASSUME ClientInv,
         RefuseIssueResponse \/ RefuseChallenge \/ FailInventory \/ RefuseEvidence \/ RefuseReceipt
  PROVE  ClientInv'
<1>1. run.pc # "idle" /\ Fail /\ UNCHANGED env
  BY Zenon DEF RefuseIssueResponse, RefuseChallenge, FailInventory, RefuseEvidence, RefuseReceipt
<1> QED
  BY <1>1, FailKeeps DEF env, timeVars, bootVars

(* Goto from one step to the next.                                         *)
LEMMA GotoKeeps ==
  ASSUME ClientInv, NEW from, NEW to, run.pc = from, Goto(to), UNCHANGED env,
         \/ from = "time" /\ to = "timed" /\ query.pc = "interval"
         \/ from = "inventory" /\ to = "inventoried"
         \/ from = "measure" /\ to = "measured" /\ capture.pc = "done"
         \/ from = "encode" /\ to = "submit"
         \/ from = "response" /\ to = "verified" /\ BindingsMatch(run.receipt)
  PROVE  ClientInv'
<1>1. from # "idle" /\ to \in Steps \ {"cleanup"}
  BY DEF Steps, Known, Accepted, Gated
<1>2. /\ run' = Fields(run') /\ run'.pc = to /\ run'.ok = run.ok /\ run'.start = run.start
      /\ run'.deadline = run.deadline /\ run'.gated = run.gated /\ run'.id = run.id
      /\ run'.evidence = run.evidence /\ run'.receipt = run.receipt
  <2>1. run = Fields(run)
    BY <1>1, RunningRecord
  <2> QED
    BY <2>1 DEF Goto, Fields
<1>3. run'.gated \in Nat
  BY <1>1, <1>2, RunningRecord
<1>4. /\ to \in Known => from \in Known
      /\ to \in Accepted => from \in Accepted
      /\ to \in Gated => from \in Gated
      /\ to \in Quoted => from \in Quoted
      /\ to \in Answered => from \in Answered
  BY DEF Known, Accepted, Gated, Quoted, Answered
<1>5. to \in Gated => run.gated < challenge[run.id].expiry
  BY <1>4 DEF ClientInv, WindowInv, Reached
<1>6. to \in {"timed", "accept"} => query.pc = "interval"
  OBVIOUS
<1>7. to \in {"measured", "encode", "submit"} => capture.pc = "done"
  BY DEF ClientInv, CaptureInv
<1>8. to \in Verified => run.receipt.id = run.id /\ run.receipt.evidence = run.evidence
  BY DEF Verified, BindingsMatch
<1> QED
  BY <1>1, <1>2, <1>3, <1>4, <1>5, <1>6, <1>7, <1>8, MoveKeeps, ZenonT(30)

LEMMA StepsKeep ==
  ASSUME ClientInv, TimeQueried \/ CaptureInventory \/ Measured \/ EncodeSubmit \/ VerifyReceipt
  PROVE  ClientInv'
<1>1. UNCHANGED env
  BY DEF TimeQueried, CaptureInventory, Measured, EncodeSubmit, VerifyReceipt
<1>2. CASE Fail
  <2>1. run.pc # "idle"
    BY DEF TimeQueried, CaptureInventory, Measured, EncodeSubmit, VerifyReceipt
  <2> QED
    BY <1>1, <1>2, <2>1, FailKeeps, SMTT(30) DEF env, timeVars, bootVars
<1>3. CASE TimeQueried /\ ~ Fail
  <2>1. run.pc = "time" /\ query.pc = "interval" /\ Goto("timed")
    BY <1>3 DEF TimeQueried
  <2> QED
    BY <1>1, <2>1, GotoKeeps
<1>4. CASE CaptureInventory
  BY <1>1, <1>4, GotoKeeps, ZenonT(30) DEF CaptureInventory
<1>5. CASE Measured /\ ~ Fail
  <2>1. run.pc = "measure" /\ capture.pc = "done" /\ Goto("measured")
    BY <1>5 DEF Measured
  <2> QED
    BY <1>1, <2>1, GotoKeeps
<1>6. CASE EncodeSubmit
  BY <1>1, <1>6, GotoKeeps DEF EncodeSubmit
<1>7. CASE VerifyReceipt /\ ~ Fail
  <2>1. run.pc = "response" /\ BindingsMatch(run.receipt) /\ Goto("verified")
    BY <1>7 DEF VerifyReceipt
  <2> QED
    BY <1>1, <2>1, GotoKeeps
<1> QED
  BY <1>2, <1>3, <1>4, <1>5, <1>6, <1>7, SMTT(30)

(* Steps that leave the run and the gateway alone.                         *)
LEMMA RunUntouched ==
  ASSUME ClientInv, UNCHANGED <<run, runs, challenge, receipts, result>>
  PROVE  WindowInv' /\ EvidenceInv' /\ ReceiptInv' /\ ResultInv'
<1>1. Honest(run.evidence)' <=> Honest(run.evidence)
  BY DEF Honest, Continues, Replay, Value
<1>2. \A S : Reached(S)' <=> Reached(S)
  BY DEF Reached
<1>3. WindowInv'
  BY <1>2 DEF ClientInv, WindowInv
<1>4. EvidenceInv'
  BY <1>1, <1>2 DEF ClientInv, EvidenceInv
<1> QED
  BY <1>3, <1>4, StoresUntouched, SMTT(30)

LEMMA QueryKeeps ==
  ASSUME ClientInv, QueryTime
  PROVE  ClientInv'
<1>1. run.pc = "time" /\ QueryStep /\ UNCHANGED <<log, capture, run, runs, challenge, receipts, result>>
  BY Zenon DEF QueryTime, bootVars
<1>2. now' = now
  BY <1>1 DEF QueryStep, BeginQuery, AssertTime, EndQuery, NoRequest, NoAnswer, RefuseAssertion
<1>3. TypeInv' /\ CaptureInv'
  BY <1>1, <1>2, ZenonT(30) DEF ClientInv, TypeInv, CaptureInv
<1>4. now \in Nat /\ run.start \in Nat /\ run.start * TicksPerMs <= now
  BY <1>1 DEF ClientInv, TypeInv, TimeInv
<1>5. TimeInv'
  <2>1. CASE BeginQuery
    <3>1. query'.pc = "exchange" /\ query'.started = Ms(now)
      BY <2>1 DEF BeginQuery
    <3>2. Ms(now) \in Nat /\ Ms(now) * TicksPerMs <= now
      BY <1>4, MsFacts
    <3> QED
      BY <1>1, <1>2, <1>4, <3>1, <3>2, ZenonT(30) DEF TimeInv
  <2>2. CASE AssertTime
    <3>1. /\ query'.pc = "answered" /\ query'.started = query.started /\ query'.asserted = now
          /\ query.pc = "exchange"
      BY <2>2 DEF AssertTime
    <3>2. query.started \in Nat /\ query.started * TicksPerMs <= now
      BY <3>1 DEF ClientInv, TimeInv
    <3> QED
      BY <1>1, <1>2, <1>4, <3>1, <3>2, SMTT(30) DEF TimeInv
  <2>3. CASE EndQuery
    <3>1. PICK started \in Nat, asserted \in Nat :
            /\ started = query.started /\ asserted = query.asserted
            /\ started * TicksPerMs <= asserted /\ asserted <= now
            /\ run.start * TicksPerMs <= asserted
      BY <2>3 DEF EndQuery, ClientInv, TimeInv
    <3>2. query' = AcceptAssertion(asserted, Ms(now) - started)
      BY <2>3, <3>1, ZenonT(30) DEF EndQuery
    <3>3. \/ query'.pc = "failed"
          \/ /\ query'.pc = "interval" /\ query'.earliest \in Nat /\ query'.latest \in Nat /\ query'.at \in Nat
             /\ query'.earliest <= query'.at /\ query'.at < query'.latest + TicksPerMs
             /\ run.start * TicksPerMs <= query'.latest
      BY <1>4, <3>1, <3>2, AcceptedInterval, SMTT(30)
    <3> QED
      BY <1>1, <1>2, <1>4, <3>3, ZenonT(30) DEF TimeInv
  <2>4. CASE NoRequest \/ NoAnswer \/ RefuseAssertion
    <3>1. query'.pc = "failed"
      BY <2>4 DEF NoRequest, NoAnswer, RefuseAssertion, NoInterval
    <3> QED
      BY <1>1, <1>2, <1>4, <3>1 DEF TimeInv
  <2> QED
    BY <1>1, <2>1, <2>2, <2>3, <2>4, ZenonT(30) DEF QueryStep
<1> QED
  BY <1>1, <1>3, <1>5, RunUntouched DEF ClientInv

LEMMA CaptureKeeps ==
  ASSUME ClientInv, CaptureMeasured
  PROVE  ClientInv'
<1>1. run.pc = "measure" /\ CaptureStep /\ UNCHANGED <<now, query, run, runs, challenge, receipts, result>>
  BY DEF CaptureMeasured, timeVars
<1>2. log' = log
  BY <1>1, Zenon DEF CaptureStep, CaptureLog, ReadFirstChunk, ReadLastChunk, RefuseSelection, RefuseLog, FailChunk
<1>3. TypeInv' /\ TimeInv'
  BY <1>1, <1>2 DEF ClientInv, TypeInv, TimeInv
<1>4. log \in Seq(Pcrs)
  BY DEF ClientInv, TypeInv
<1> DEFINE Reading(c, l) == c = [pc |-> "read", log |-> l, nth |-> c.nth, retry |-> c.retry, first |-> c.first, part |-> c.part]
<1>5. CASE CaptureLog
  <2>1. Reading(capture', log)
    BY <1>5 DEF CaptureLog
  <2>2. Continues(log, log)
    BY <1>4, ContinuesItself
  <2>3. CaptureInv'
    BY <1>1, <1>2, <2>1, <2>2 DEF CaptureInv
  <2> QED
    BY <1>1, <1>3, <2>3, RunUntouched, ZenonT(30) DEF ClientInv
<1>6. CASE capture'.pc = "failed"
  <2>1. CaptureInv'
    BY <1>1, <1>6, ZenonT(30) DEF CaptureInv
  <2> QED
    BY <1>1, <1>3, <2>1, RunUntouched DEF ClientInv
<1>7. CASE (ReadFirstChunk \/ ReadLastChunk) /\ capture'.pc # "failed"
  <2>1. capture.pc = "read" /\ Reading(capture, capture.log) /\ Continues(log, capture.log)
    BY <1>7, Zenon DEF ReadFirstChunk, ReadLastChunk, ClientInv, CaptureInv
  <2>2. Reading(capture', capture.log) \/ (capture'.pc = "done" /\ capture'.log = capture.log)
    <3>1. CASE ReadFirstChunk
      BY <2>1, <3>1, ZenonT(30) DEF ReadFirstChunk
    <3>2. CASE capture' = [capture EXCEPT !.retry = TRUE, !.part = NotRead]
      BY <2>1, <3>2, ZenonT(30)
    <3>3. PICK s : s = Snapshot
      OBVIOUS
    <3>4. CASE capture' = [capture EXCEPT !.nth = @ + 1, !.first = s, !.part = NotRead]
      BY <2>1, <3>4, ZenonT(30)
    <3>5. CASE capture' = [pc |-> "done", log |-> capture.log, pcrs |-> s.values]
      BY <3>5, SMTT(30)
    <3>6. CASE ReadLastChunk
      <4>1. capture' = IF ChunksAgree(capture.part) THEN Whole(s) ELSE Torn
        BY <3>3, <3>6 DEF ReadLastChunk
      <4>2. capture' # CaptureFailed
        BY <1>7, SMTT(30) DEF CaptureFailed
      <4> QED
        BY <4>1, <4>2, <3>2, <3>4, <3>5, SMTT(30) DEF Whole, Torn
    <3> QED
      BY <1>7, <3>1, <3>6
  <2>3. CaptureInv'
    BY <1>1, <1>2, <2>1, <2>2, SMTT(30) DEF CaptureInv
  <2> QED
    BY <1>1, <1>3, <2>3, RunUntouched DEF ClientInv
<1>8. CaptureLog \/ capture'.pc = "failed" \/ ReadFirstChunk \/ ReadLastChunk
  BY <1>1 DEF CaptureStep, RefuseSelection, RefuseLog, FailChunk, CaptureFailed
<1> QED
  BY <1>5, <1>6, <1>7, <1>8, ZenonT(30)

LEMMA ElapseKeeps ==
  ASSUME ClientInv, Elapse
  PROVE  ClientInv'
<1>1. now' = now + 1 /\ now \in Nat /\ UNCHANGED <<query, log, capture, run, runs, challenge, receipts, result>>
  BY Zenon DEF Elapse, Tick, bootVars, ClientInv, TypeInv
<1>2. TypeInv' /\ CaptureInv'
  BY <1>1 DEF ClientInv, TypeInv, CaptureInv
<1>3. \A x \in Nat : x <= now => x <= now'
  BY <1>1
<1>4. \A x \in Nat : x * TicksPerMs \in Nat
  BY Times, SMTT(30)
<1>5. TimeInv'
  <2>1. run.pc # "idle" => run.start \in Nat
    BY DEF ClientInv, TypeInv
  <2> QED
    BY <1>1, <1>3, <1>4, <2>1, SMTT(30) DEF ClientInv, TimeInv
<1> QED
  BY <1>1, <1>2, <1>5, RunUntouched DEF ClientInv

LEMMA MeasureKeeps ==
  ASSUME ClientInv, MeasureElsewhere
  PROVE  ClientInv'
<1>1. PICK p \in Pcrs : log' = Append(log, p) /\ UNCHANGED <<now, query, capture, run, runs, challenge, receipts, result>>
  BY SMTT(30) DEF MeasureElsewhere, Measure, timeVars
<1>2. TypeInv' /\ TimeInv'
  BY <1>1 DEF ClientInv, TypeInv, TimeInv
<1>3. capture.pc \in {"read", "done"} => Continues(Append(log, p), capture.log)
  BY ContinuesStep, Zenon DEF ClientInv, CaptureInv
<1>4. CaptureInv'
  BY <1>1, <1>3 DEF ClientInv, CaptureInv
<1> QED
  BY <1>1, <1>2, <1>4, RunUntouched, SMTT(30) DEF ClientInv

-----------------------------------------------------------------------------
(* The other steps of the run.                                             *)

LEMMA StartKeeps ==
  ASSUME ClientInv, Start
  PROVE  ClientInv'
<1>1. /\ run' = Fields(run') /\ run'.pc = "begin" /\ run'.ok = TRUE /\ run'.start = Ms(now)
      /\ run'.deadline = Ms(now) + Timeout /\ run'.gated = now
  BY DEF Start, Fields
<1>2. /\ runs' = runs + 1 /\ result' = NoResult /\ query' = NoQuery /\ capture' = NoCapture
      /\ UNCHANGED <<now, log, challenge, receipts>>
  BY DEF Start
<1>3. now \in Nat /\ Ms(now) \in Nat /\ Ms(now) + Timeout \in Nat /\ Ms(now) * TicksPerMs <= now
  <2>1. now \in Nat
    BY DEF ClientInv, TypeInv
  <2>2. Ms(now) \in Nat /\ Ms(now) * TicksPerMs <= now
    BY <2>1, MsFacts
  <2> QED
    BY <2>1, <2>2, ClientAssumption
<1>4. \A S : "begin" \notin S => ~ Reached(S)'
  BY <1>1 DEF Reached
<1>5. TypeInv'
  <2>1. run'.pc \in Steps /\ run'.ok \in BOOLEAN
    BY <1>1, Zenon DEF Steps
  <2>2. now \in Nat /\ runs' \in Nat /\ log \in Seq(Pcrs) /\ challenge \in Seq(Challenge)
    BY <1>2, SMTT(30) DEF ClientInv, TypeInv
  <2> QED
    BY <1>1, <1>2, <1>3, <2>1, <2>2, SMTT(30) DEF TypeInv
<1>6. TimeInv'
  BY <1>1, <1>2, <1>3 DEF TimeInv, NoQuery
<1>7. ~ result'.published
  BY <1>2 DEF NoResult
<1>8. WindowInv' /\ ResultInv'
  BY <1>4, <1>7, SMTT(30) DEF WindowInv, ResultInv, Known, Accepted, Gated
<1>9. CaptureInv'
  BY <1>1, <1>2 DEF CaptureInv, NoCapture
<1>10. EvidenceInv'
  BY <1>1, <1>4, ZenonT(30) DEF EvidenceInv, Quoted, Answered, Verified
<1>11. ReceiptInv'
  BY <1>2 DEF ClientInv, ReceiptInv
<1> QED
  BY <1>5, <1>6, <1>8, <1>9, <1>10, <1>11, Zenon DEF ClientInv

LEMMA IssueKeeps ==
  ASSUME ClientInv, IssueChallenge
  PROVE  ClientInv'
<1>1. /\ run' = Fields(run') /\ run'.pc = "issued" /\ run'.ok = run.ok /\ run'.start = run.start
      /\ run'.deadline = run.deadline /\ run'.gated = run.gated /\ run.pc = "issue"
  <2>1. run = Fields(run) /\ run.pc = "issue"
    BY RunningRecord, Zenon DEF IssueChallenge
  <2> QED
    BY <2>1 DEF IssueChallenge, Goto, Fields
<1>2. UNCHANGED <<now, query, log, capture, runs, receipts, result>>
  BY Zenon DEF IssueChallenge, timeVars, bootVars
<1>3. /\ challenge' \in Seq(Challenge) /\ Len(challenge) \in Nat /\ Len(challenge') = Len(challenge) + 1
      /\ \A i \in 1 .. Len(challenge) : i \in 1 .. Len(challenge') /\ challenge'[i] = challenge[i]
  <2>1. now \in Nat /\ now + Lifetime \in Nat /\ challenge \in Seq(Challenge)
    BY ClientAssumption DEF ClientInv, TypeInv
  <2>2. [state |-> "issued", issued |-> now, expiry |-> now + Lifetime] \in Challenge
    BY <2>1, SMTT(30) DEF Challenge
  <2> QED
    BY <2>1, <2>2, IssueFacts DEF IssueChallenge
<1>4. \A S : "issued" \notin S => ~ Reached(S)'
  BY <1>1 DEF Reached
<1>5. TypeInv'
  BY <1>1, <1>2, <1>3, RunningRecord, ZenonT(30) DEF ClientInv, TypeInv, Steps
<1>6. TimeInv' /\ CaptureInv'
  BY <1>1, <1>2, ZenonT(30) DEF ClientInv, TimeInv, CaptureInv
<1>7. WindowInv'
  BY <1>2, <1>3, <1>4, Zenon DEF ClientInv, WindowInv, Known, Accepted, Gated
<1>8. EvidenceInv'
  BY <1>1, <1>4, ZenonT(30) DEF EvidenceInv, Quoted, Answered, Verified
<1>9. ReceiptInv' /\ ResultInv'
  BY <1>2, <1>3, ZenonT(30) DEF ClientInv, ReceiptInv, ResultInv
<1> QED
  BY <1>5, <1>6, <1>7, <1>8, <1>9, ZenonT(30) DEF ClientInv

LEMMA TakeIssueKeeps ==
  ASSUME ClientInv, TakeIssueResponse
  PROVE  ClientInv'
<1>1. UNCHANGED <<now, query, log, capture, runs, challenge, receipts, result>>
  BY Zenon DEF TakeIssueResponse, env, timeVars, bootVars
<1>2. PICK id \in 1 .. Len(challenge) : run.pc = "issued" /\ run' = [run EXCEPT !.pc = "time", !.id = id]
  <2>1. DOMAIN challenge = 1 .. Len(challenge)
    BY DEF ClientInv, TypeInv
  <2> QED
    BY <2>1, Zenon DEF TakeIssueResponse
<1>3. /\ run' = Fields(run') /\ run'.pc = "time" /\ run'.ok = run.ok /\ run'.start = run.start
      /\ run'.deadline = run.deadline /\ run'.gated = run.gated /\ run'.id = id
  <2>1. run = Fields(run)
    BY <1>2, RunningRecord, SMTT(30)
  <2> QED
    BY <1>2, <2>1, ZenonT(30) DEF Fields
<1>4. \A S : "time" \notin S => ~ Reached(S)'
  BY <1>3 DEF Reached
<1>5. TypeInv'
  BY <1>1, <1>2, <1>3, RunningRecord, SMTT(30) DEF ClientInv, TypeInv, Steps, Known
<1>6. TimeInv' /\ CaptureInv'
  BY <1>1, <1>2, <1>3, SMTT(30) DEF ClientInv, TimeInv, CaptureInv
<1>7. ReceiptInv' /\ ResultInv'
      /\ (result.published => result.of \in 1 .. Len(challenge) /\ result.gated < challenge[result.of].expiry)'
  BY <1>1, StoresUntouched
<1>8. WindowInv'
  BY <1>1, <1>3, <1>4, <1>7, ZenonT(30) DEF WindowInv, Accepted, Gated
<1>9. EvidenceInv'
  BY <1>3, <1>4 DEF EvidenceInv, Quoted, Answered, Verified
<1> QED
  BY <1>5, <1>6, <1>7, <1>8, <1>9, SMTT(30) DEF ClientInv

LEMMA AcceptKeeps ==
  ASSUME ClientInv, AcceptChallenge
  PROVE  ClientInv'
<1>1. run.pc = "accept" /\ query' = NoQuery /\ UNCHANGED <<now, log, capture, runs, challenge, receipts, result>>
  BY DEF AcceptChallenge, bootVars
<1>2. CASE Fail
  BY <1>1, <1>2, FailKeeps, ZenonT(30)
<1>3. CASE ~ Fail
  <2>1. PICK id \in 1 .. Len(challenge) : id = run.id
    BY <1>1 DEF ClientInv, WindowInv, Reached, Known
  <2>2. PICK expiry \in Nat : expiry = challenge[run.id].expiry
    <3>1. challenge[id] \in Challenge
      BY DEF ClientInv, TypeInv
    <3> QED
      BY <2>1, <3>1 DEF Challenge
  <2>3. run.start \in Nat /\ run.deadline \in Nat /\ run = Fields(run)
    BY <1>1, RunningRecord, SMTT(30)
  <2>4. PICK latest \in Nat : latest = query.latest /\ run.start * TicksPerMs <= latest
    BY <1>1 DEF ClientInv, TimeInv
  <2>5. /\ latest <= expiry
        /\ run' = [run EXCEPT !.pc = "accepted", !.deadline = Min2(ExpiryDeadline(run.start, expiry), @)]
    BY <1>3, <2>2, <2>4 DEF AcceptChallenge, Covers
  <2>6. PICK d \in Nat : d = Min2(ExpiryDeadline(run.start, expiry), run.deadline) /\ d * TicksPerMs <= expiry
    BY <2>3, <2>4, <2>5, DeadlineWithinLifetime
  <2>7. /\ run' = Fields(run') /\ run'.pc = "accepted" /\ run'.ok = run.ok /\ run'.start = run.start
        /\ run'.deadline = d /\ run'.gated = run.gated /\ run'.id = run.id
    BY <2>3, <2>5, <2>6, ZenonT(30) DEF Fields
  <2>8. \A S : "accepted" \notin S => ~ Reached(S)'
    BY <2>7 DEF Reached
  <2>9. TypeInv'
    BY <1>1, <2>7, RunningRecord, ZenonT(30) DEF ClientInv, TypeInv, Steps, Known, Accepted
  <2>10. TimeInv' /\ CaptureInv'
    BY <1>1, <2>7 DEF ClientInv, TimeInv, CaptureInv, NoQuery
  <2>11. ReceiptInv' /\ ResultInv'
         /\ (result.published => result.of \in 1 .. Len(challenge) /\ result.gated < challenge[result.of].expiry)'
    BY <1>1, StoresUntouched, ZenonT(30)
  <2>12. WindowInv'
    BY <1>1, <2>1, <2>2, <2>6, <2>7, <2>8, <2>11, ZenonT(30) DEF WindowInv, Gated
  <2>13. EvidenceInv'
    BY <2>7, <2>8, ZenonT(30) DEF EvidenceInv, Quoted, Answered, Verified
  <2> QED
    BY <2>9, <2>10, <2>11, <2>12, <2>13, ZenonT(30) DEF ClientInv
<1> QED
  BY <1>2, <1>3

LEMMA SubmitKeeps ==
  ASSUME ClientInv, Submit
  PROVE  ClientInv'
<1>1. run.pc = "submit" /\ capture' = NoCapture /\ UNCHANGED <<now, query, log, runs, challenge, receipts, result>>
  BY Zenon DEF Submit, timeVars
<1>2. PICK e : /\ e = [run |-> runs, id |-> run.id, log |-> capture.log, pcrs |-> capture.pcrs, quote |-> Replay(log), quoted |-> log]
               /\ run' = [run EXCEPT !.pc = "send", !.evidence = e]
  BY Zenon DEF Submit
<1>3. e.run = runs /\ Honest(e)
  <2>1. Continues(log, capture.log)
    BY <1>1 DEF ClientInv, CaptureInv
  <2> QED
    BY <1>2, <2>1, SMTT(30) DEF Honest
<1>4. /\ run' = Fields(run') /\ run'.pc = "send" /\ run'.ok = run.ok /\ run'.start = run.start /\ run'.deadline = run.deadline
      /\ run'.gated = run.gated /\ run'.id = run.id /\ run'.evidence = e
  <2>1. run = Fields(run)
    BY <1>1, RunningRecord, SMTT(30)
  <2> QED
    BY <1>2, <2>1, ZenonT(30) DEF Fields
<1>5. \A S : Reached(S)' <=> "send" \in S
  BY <1>4, SMTT(30) DEF Reached
<1>6. TypeInv'
  BY <1>1, <1>4, RunningRecord, SMTT(30) DEF ClientInv, TypeInv, Steps, Known, Accepted, Gated
<1>7. TimeInv' /\ CaptureInv'
  BY <1>1, <1>4, ZenonT(30) DEF ClientInv, TimeInv, CaptureInv, NoCapture
<1>8. ReceiptInv' /\ ResultInv'
      /\ (result.published => result.of \in 1 .. Len(challenge) /\ result.gated < challenge[result.of].expiry)'
  BY <1>1, StoresUntouched, ZenonT(30)
<1>9. WindowInv'
  <2>1. Reached(Known) /\ Reached(Accepted) /\ Reached(Gated)
    BY <1>1, SMTT(30) DEF Reached, Known, Accepted, Gated
  <2> QED
    BY <1>1, <1>4, <1>8, <2>1 DEF ClientInv, WindowInv
<1>10. EvidenceInv'
  BY <1>1, <1>3, <1>4, <1>5, SMTT(30) DEF EvidenceInv, Answered, Verified
<1> QED
  BY <1>6, <1>7, <1>8, <1>9, <1>10, SMTT(30) DEF ClientInv

LEMMA SendKeeps ==
  ASSUME ClientInv, SendRecord
  PROVE  ClientInv'
<1>1. run.pc = "sending" /\ UNCHANGED env
  BY DEF SendRecord
<1>2. CASE Fail \/ Abort
  BY <1>1, <1>2, FailKeeps, ZenonT(30) DEF env, timeVars, bootVars
<1>3. CASE ~ (Fail \/ Abort)
  <2>1. PICK to \in {"answer", "send"} :
          run' = [run EXCEPT !.pc = to, !.sent = @ + 1, !.upload = "started"]
    BY <1>3, Zenon DEF SendRecord
  <2>2. /\ run' = Fields(run') /\ run'.pc = to /\ run'.ok = run.ok /\ run'.start = run.start
        /\ run'.deadline = run.deadline /\ run'.gated = run.gated /\ run'.id = run.id
        /\ run'.evidence = run.evidence /\ run'.receipt = run.receipt
    <3>1. run = Fields(run)
      BY <1>1, RunningRecord, SMTT(30)
    <3> QED
      BY <2>1, <3>1, ZenonT(30) DEF Fields
  <2>3. run'.gated \in Nat
    BY <1>1, <2>2, RunningRecord, SMTT(30)
  <2>4. /\ to \in Steps \ {"cleanup"} /\ to \notin {"timed", "accept"} /\ to \notin {"measured", "encode", "submit"}
        /\ to \notin Answered /\ to \notin Verified
        /\ run.pc \in Known /\ run.pc \in Accepted /\ run.pc \in Gated /\ run.pc \in Quoted
    BY <1>1, Zenon DEF Steps, Known, Accepted, Gated, Quoted, Answered, Verified
  <2>5. run.gated < challenge[run.id].expiry
    BY <2>4, ZenonT(30) DEF ClientInv, WindowInv, Reached
  <2> QED
    BY <1>1, <2>2, <2>3, <2>4, <2>5, MoveKeeps, ZenonT(30)
<1> QED
  BY <1>2, <1>3

LEMMA TakeSubmitKeeps ==
  ASSUME ClientInv, TakeSubmitResponse
  PROVE  ClientInv'
<1>1. run.pc = "answer" /\ UNCHANGED env /\ UNCHANGED <<now, query, log, capture, runs, challenge, receipts, result>>
  BY Zenon DEF TakeSubmitResponse, env, timeVars, bootVars
<1>2. CASE Abort
  BY <1>1, <1>2, FailKeeps
<1>3. CASE ~ Abort
  <2>1. PICK r \in receipts : run' = [run EXCEPT !.pc = "response", !.receipt = r]
    BY <1>3, Zenon DEF TakeSubmitResponse
  <2>2. /\ run' = Fields(run') /\ run'.pc = "response" /\ run'.ok = run.ok /\ run'.start = run.start
        /\ run'.deadline = run.deadline /\ run'.gated = run.gated /\ run'.id = run.id
        /\ run'.evidence = run.evidence /\ run'.receipt = r
    <3>1. run = Fields(run)
      BY <1>1, RunningRecord, SMTT(30)
    <3> QED
      BY <2>1, <3>1, Zenon DEF Fields
  <2>3. \A S : Reached(S)' <=> "response" \in S
    BY <2>2 DEF Reached
  <2>4. TypeInv'
    BY <1>1, <2>2, RunningRecord, ZenonT(30) DEF ClientInv, TypeInv, Steps, Known, Accepted, Gated
  <2>5. TimeInv' /\ CaptureInv'
    BY <1>1, <2>2, SMTT(30) DEF ClientInv, TimeInv, CaptureInv
  <2>6. ReceiptInv' /\ ResultInv'
        /\ (result.published => result.of \in 1 .. Len(challenge) /\ result.gated < challenge[result.of].expiry)'
    BY <1>1, StoresUntouched
  <2>7. Reached(Known) /\ Reached(Accepted) /\ Reached(Gated) /\ Reached(Quoted)
    BY <1>1, Zenon DEF Reached, Known, Accepted, Gated, Quoted
  <2>8. WindowInv'
    BY <1>1, <2>2, <2>6, <2>7 DEF ClientInv, WindowInv
  <2>9. EvidenceInv'
    <3>1. run.evidence.run = runs /\ Honest(run.evidence)
      BY <2>7, Zenon DEF ClientInv, EvidenceInv
    <3>2. Honest(run.evidence)'
      BY <2>2, <3>1 DEF Honest, Continues, Replay, Value
    <3> QED
      BY <1>1, <2>1, <2>2, <2>3, <3>1, <3>2, SMTT(30) DEF EvidenceInv, Verified
  <2> QED
    BY <2>4, <2>5, <2>6, <2>8, <2>9, ZenonT(30) DEF ClientInv
<1> QED
  BY <1>2, <1>3

LEMMA GatewaySubmitKeeps ==
  ASSUME ClientInv, GatewaySubmit
  PROVE  ClientInv'
<1>1. /\ run.pc = "answer" /\ challenge[run.id].state = "issued"
      /\ UNCHANGED <<now, query, log, capture, run, runs, result>>
  BY Zenon DEF GatewaySubmit, timeVars, bootVars
<1>2. PICK k \in 1 .. Len(challenge) : k = run.id
  BY <1>1 DEF ClientInv, WindowInv, Reached, Known, Accepted, Gated
<1>3. PICK state \in {"expired", "consumed"} :
        /\ challenge' = [challenge EXCEPT ![k].state = state]
        /\ now < challenge[k].expiry => state = "consumed"
  <2>1. challenge[k] \in Challenge /\ now \in Nat
    BY DEF ClientInv, TypeInv
  <2>2. challenge[k].expiry \in Nat
    BY <2>1 DEF Challenge
  <2>3. now < challenge[k].expiry => ~ (now >= challenge[k].expiry)
    BY <2>1, <2>2
  <2> QED
    BY <1>2, <2>3, ZenonT(30) DEF GatewaySubmit
<1>4. /\ challenge' \in Seq(Challenge) /\ Len(challenge') = Len(challenge)
      /\ challenge'[k].state = state
      /\ \A i \in 1 .. Len(challenge) :
           /\ challenge'[i].expiry = challenge[i].expiry
           /\ i # k => challenge'[i] = challenge[i]
  <2>1. challenge \in Seq(Challenge)
    BY DEF ClientInv, TypeInv
  <2> QED
    BY <1>3, <2>1, DecideFacts, ZenonT(30)
<1>5. \/ receipts' = receipts
      \/ /\ receipts' = receipts \cup {[id |-> k, evidence |-> run.evidence]}
         /\ state = "consumed" /\ Consistent(run.evidence)
  BY <1>2, <1>3 DEF GatewaySubmit
<1>6. TypeInv' /\ TimeInv' /\ CaptureInv'
  BY <1>1, <1>4, ZenonT(30) DEF ClientInv, TypeInv, TimeInv, CaptureInv
<1>7. \A S : Reached(S)' <=> Reached(S)
  BY <1>1, Zenon DEF Reached
<1>8. WindowInv'
  BY <1>1, <1>2, <1>4, <1>7, ZenonT(30) DEF ClientInv, WindowInv
<1>9. Honest(run.evidence)
  BY <1>1, ZenonT(30) DEF ClientInv, EvidenceInv, Reached, Quoted
<1>10. EvidenceInv'
  <2>1. Honest(run.evidence)'
    BY <1>1, <1>9, ZenonT(30) DEF Honest, Continues, Replay, Value
  <2> QED
    BY <1>1, <1>5, <1>7, <2>1, ZenonT(30) DEF ClientInv, EvidenceInv
<1>11. ReceiptInv'
  <2> SUFFICES ASSUME NEW r \in receipts'
               PROVE  /\ r.id \in 1 .. Len(challenge') /\ challenge'[r.id].state = "consumed"
                      /\ Honest(r.evidence) /\ Consistent(r.evidence)
    BY Zenon DEF ReceiptInv
  <2>1. CASE r \in receipts
    <3>1. /\ r.id \in 1 .. Len(challenge) /\ challenge[r.id].state = "consumed"
          /\ Honest(r.evidence) /\ Consistent(r.evidence)
      BY <2>1 DEF ClientInv, ReceiptInv
    <3>2. r.id # k
      BY <1>1, <1>2, <3>1, ZenonT(30)
    <3> QED
      BY <1>4, <3>1, <3>2, SMTT(30)
  <2>2. CASE r \notin receipts
    <3>1. r.id = k /\ r.evidence = run.evidence /\ state = "consumed" /\ Consistent(run.evidence)
      BY <1>5, <2>2, SMTT(30)
    <3> QED
      BY <1>4, <1>9, <3>1, SMTT(30)
  <2> QED
    BY <2>1, <2>2
<1>12. ResultInv'
  BY <1>1, <1>5, SMTT(30) DEF ClientInv, ResultInv
<1> QED
  BY <1>6, <1>8, <1>10, <1>11, <1>12, Zenon DEF ClientInv

LEMMA FinishKeeps ==
  ASSUME ClientInv, Finish
  PROVE  ClientInv'
<1>1. run.pc = "finish" /\ UNCHANGED <<now, query, log, capture, runs, challenge, receipts, result>>
  BY Zenon DEF Finish, env, timeVars, bootVars
<1>2. PICK closed \in BOOLEAN : run' = [run EXCEPT !.pc = "cleanup", !.ok = closed, !.upload = "finished"]
  BY ZenonT(30) DEF Finish
<1>3. /\ run' = Fields(run') /\ run'.pc = "cleanup" /\ run'.ok \in BOOLEAN /\ run'.start = run.start
      /\ run'.deadline = run.deadline /\ run'.gated = run.gated /\ run'.id = run.id
      /\ run'.evidence = run.evidence /\ run'.receipt = run.receipt /\ run'.upload = "finished"
  <2>1. run = Fields(run)
    BY <1>1, RunningRecord
  <2> QED
    BY <1>2, <2>1, ZenonT(30) DEF Fields
<1>4. TypeInv'
  BY <1>1, <1>3, RunningRecord, ZenonT(30) DEF ClientInv, TypeInv, Steps
<1>5. TimeInv' /\ CaptureInv'
  BY <1>1, <1>3, ZenonT(30) DEF ClientInv, TimeInv, CaptureInv
<1>6. ReceiptInv' /\ ResultInv'
      /\ (result.published => result.of \in 1 .. Len(challenge) /\ result.gated < challenge[result.of].expiry)'
  BY <1>1, StoresUntouched
<1>7. Reached(Known) /\ Reached(Accepted) /\ Reached(Gated) /\ Reached(Quoted) /\ Reached(Answered) /\ Reached(Verified)
  BY <1>1, Zenon DEF Reached, Known, Accepted, Gated, Quoted, Answered, Verified
<1>8. WindowInv'
  BY <1>1, <1>3, <1>6, <1>7, ZenonT(30) DEF ClientInv, WindowInv
<1>9. EvidenceInv'
  <2>1. /\ run.evidence.run = runs /\ Honest(run.evidence) /\ run.receipt \in receipts
        /\ run.receipt.id = run.id /\ run.receipt.evidence = run.evidence
    BY <1>7, Zenon DEF ClientInv, EvidenceInv
  <2>2. Honest(run.evidence)'
    BY <1>3, <2>1 DEF Honest, Continues, Replay, Value
  <2> QED
    BY <1>1, <1>3, <2>1, <2>2, ZenonT(30) DEF EvidenceInv
<1> QED
  BY <1>4, <1>5, <1>6, <1>8, <1>9 DEF ClientInv

LEMMA ReturnKeeps ==
  ASSUME ClientInv, Return
  PROVE  ClientInv'
<1>1. /\ run.pc = "cleanup" /\ run' = Idle /\ query' = NoQuery /\ capture' = NoCapture
      /\ UNCHANGED <<now, log, runs, challenge, receipts>>
  BY DEF Return
<1>2. run'.pc = "idle" /\ query'.pc = "idle" /\ capture'.pc = "idle"
  BY <1>1, Zenon DEF Idle, NoQuery, NoCapture
<1>3. TypeInv' /\ TimeInv' /\ CaptureInv'
  BY <1>1, <1>2 DEF ClientInv, TypeInv, TimeInv, CaptureInv
<1>4. \A S : "idle" \notin S => ~ Reached(S)'
  BY <1>2 DEF Reached
<1>5. EvidenceInv'
  BY <1>2, <1>4, Zenon DEF EvidenceInv, Quoted, Answered, Verified
<1>6. ReceiptInv'
  BY <1>1, Zenon DEF ClientInv, ReceiptInv
<1>7. result'.published =>
        /\ run.ok /\ result'.receipt = run.receipt /\ result'.evidence = run.evidence
        /\ result'.gated = run.gated /\ result'.of = run.id /\ result'.upload = run.upload
  BY Zenon DEF Return, Publishes, NoResult
<1>8. run.ok =>
        /\ run.id \in 1 .. Len(challenge) /\ run.gated < challenge[run.id].expiry
        /\ run.evidence.run = runs /\ run.receipt \in receipts /\ run.receipt.id = run.id
        /\ run.receipt.evidence = run.evidence /\ run.upload = "finished"
  BY <1>1, Zenon DEF ClientInv, WindowInv, EvidenceInv, Reached
<1>9. ResultInv'
  BY <1>1, <1>7, <1>8, Zenon DEF ResultInv
<1>10. WindowInv'
  BY <1>1, <1>4, <1>7, <1>8 DEF WindowInv, Known, Accepted, Gated
<1> QED
  BY <1>3, <1>5, <1>6, <1>9, <1>10, Zenon DEF ClientInv

-----------------------------------------------------------------------------

(* The inductive invariant holds in every reachable state.                 *)
THEOREM ClientInvariant == Spec => []ClientInv
<1>1. Init => ClientInv
  <2> SUFFICES ASSUME Init PROVE ClientInv
    OBVIOUS
  <2>1. /\ now = 0 /\ query.pc = "idle" /\ log = <<>> /\ capture.pc = "idle" /\ run = Idle /\ run.pc = "idle"
        /\ runs = 0 /\ challenge = <<>> /\ receipts = {} /\ ~ result.published
    BY Zenon DEF Init, TimeInit, BootInit, Idle, NoQuery, NoCapture, NoResult
  <2>2. TypeInv /\ TimeInv /\ CaptureInv /\ ReceiptInv /\ ResultInv
    BY <2>1, SMTT(30) DEF TypeInv, TimeInv, CaptureInv, ReceiptInv, ResultInv
  <2>3. WindowInv /\ EvidenceInv
    BY <2>1 DEF WindowInv, EvidenceInv, Reached, Known, Accepted, Gated, Quoted, Answered, Verified
  <2> QED
    BY <2>2, <2>3 DEF ClientInv
<1>2. ClientInv /\ [Next]_vars => ClientInv'
  <2> SUFFICES ASSUME ClientInv, [Next]_vars PROVE ClientInv'
    OBVIOUS
  <2>1. CASE UNCHANGED vars
    <3>1. UNCHANGED <<now, query, log, capture, run, runs, challenge, receipts, result>>
      BY <2>1, ZenonT(30) DEF vars, timeVars, bootVars
    <3>2. TypeInv' /\ TimeInv' /\ CaptureInv'
      BY <3>1 DEF ClientInv, TypeInv, TimeInv, CaptureInv
    <3> QED
      BY <3>1, <3>2, RunUntouched DEF ClientInv
  <2>2. CASE Start \/ Elapse \/ MeasureElsewhere
    BY <2>2, StartKeeps, ElapseKeeps, MeasureKeeps
  <2>3. CASE RunStep
    BY <2>3, GatesKeep, RefusalsKeep, StepsKeep, IssueKeeps, TakeIssueKeeps, QueryKeeps, AcceptKeeps, CaptureKeeps,
       SubmitKeeps, SendKeeps, GatewaySubmitKeeps, TakeSubmitKeeps, FinishKeeps, ReturnKeeps, Zenon DEF RunStep
  <2> QED
    BY <2>1, <2>2, <2>3 DEF Next
<1> QED
  BY <1>1, <1>2, PTL DEF Spec

(* trusted_time.c, query and interval_from_assertion: for every clock      *)
(* resolution, round-trip limit and uncertainty, the interval a query      *)
(* returns holds the gateway's time when it returns, up to the one         *)
(* millisecond that whole readings can hide.                               *)
THEOREM IntervalsEncloseTheTime == Spec => []IntervalEncloses
<1>1. ClientInv => IntervalEncloses
  BY DEF ClientInv, TimeInv, IntervalEncloses
<1> QED
  BY <1>1, ClientInvariant, PTL

(* attestation_run.c, gate and challenge_deadline: whatever the timeout    *)
(* and the challenge's lifetime, no gate after the acceptance passes at or *)
(* after the challenge's expiry on the gateway's clock.                    *)
THEOREM GatesCloseBeforeExpiry == Spec => []GatedBeforeExpiry
<1>1. ClientInv => GatedBeforeExpiry
  BY ZenonT(30) DEF ClientInv, WindowInv, Reached, Gated, GatedBeforeExpiry
<1> QED
  BY <1>1, ClientInvariant, PTL

(* attestation_run.c, from the receipt's verification to the return: a     *)
(* published result has a receipt the gateway signed for the evidence of   *)
(* this run, over a finished upload and a consumed challenge, and the log  *)
(* in it is the log at the quote, however many events were measured        *)
(* meanwhile.                                                              *)
THEOREM ResultsAreVerified == Spec => []ResultIsVerified
<1>1. ClientInv => ResultIsVerified
  <2> SUFFICES ASSUME ClientInv, result.published PROVE ResultIsVerified
    BY DEF ResultIsVerified
  <2>1. /\ result.receipt \in receipts /\ result.receipt.id = result.of
        /\ result.receipt.evidence = result.evidence /\ result.evidence.run = runs
        /\ result.upload = "finished"
    BY DEF ClientInv, ResultInv
  <2>2. /\ challenge[result.of].state = "consumed"
        /\ Honest(result.evidence) /\ Consistent(result.evidence)
    BY <2>1 DEF ClientInv, ReceiptInv
  <2>3. result.evidence.log = result.evidence.quoted
    <3>1. /\ Continues(result.evidence.quoted, result.evidence.log)
          /\ Replay(result.evidence.log) = Replay(result.evidence.quoted)
      BY <2>2 DEF Honest, Consistent
    <3> QED
      BY <3>1, ReplayTells, SMTT(30)
  <2> QED
    BY <2>1, <2>2, <2>3, SMTT(30) DEF ResultIsVerified
<1> QED
  BY <1>1, ClientInvariant, PTL

-----------------------------------------------------------------------------
(***************************************************************************)
(* RecoveryRepository for every set of artifacts and every number of       *)
(* concurrent publications: none is ever wedged, and what was published    *)
(* stays on the disk.                                                      *)
(***************************************************************************)

(* The steps of Publish, by what has been done when they are reached.      *)
Registered == {"announce", "finish"}
Durable == {"register"} \cup Registered
Protected == {"verify", "sync"} \cup Durable
Linked == {"protect"} \cup Protected
PublishSteps == {"idle", "link"} \cup Linked

RepositoryTypes ==
    /\ artifacts \in [Digests -> File] /\ metadata \in [Digests -> File]
    /\ publisher \in [Publishers -> [pc : PublishSteps, digest : Digests, changed : BOOLEAN]]
    /\ published \subseteq Digests /\ steady \subseteq published

(* A file that is linked has been staged: its bytes are right and synced.  *)
Sound(f) ==
    /\ f.there => f.whole /\ f.synced
    /\ f.entry => f.there
    /\ f.protected => f.there
FilesInv == \A d \in Digests : Sound(artifacts[d]) /\ Sound(metadata[d])

(* What a publication at a step has done to the files of its digest.       *)
Progress(p) ==
    LET step == publisher[p].pc
        a == artifacts[publisher[p].digest]
        m == metadata[publisher[p].digest]
    IN  /\ ~publisher[p].changed
        /\ step \in Linked => a.there
        /\ step \in Protected => a.protected
        /\ step \in Durable => a.entry
        /\ step \in Registered => m.there
        /\ step = "finish" => m.protected
PublisherInv == \A p \in Publishers : Progress(p)

PublishedInv ==
    /\ \A d \in published : artifacts[d].entry /\ metadata[d].entry
    /\ \A d \in steady : artifacts[d].protected /\ metadata[d].protected

RepositoryInv == RepositoryTypes /\ FilesInv /\ PublisherInv /\ PublishedInv

(* A publication never takes back what another one has done to a file.     *)
Grows(f, g) ==
    /\ g \in File /\ Sound(g)
    /\ f.there => g.there
    /\ f.protected => g.protected
    /\ f.entry => g.entry

-----------------------------------------------------------------------------
(* The operations on one file.                                             *)

(* os.Link leaves a sound file at the name, the one that was there if any. *)
LEMMA LinkFile ==
    ASSUME NEW f \in File, Sound(f)
    PROVE  Grows(f, Link(f)) /\ Link(f).there
BY Zenon DEF File, Sound, Grows, Link, staged, NoFile

(* os.Chmod protects a linked file and changes nothing else of it.         *)
LEMMA ChmodFile ==
    ASSUME NEW f \in File, Sound(f), f.there
    PROVE  Grows(f, Chmod(f)) /\ Chmod(f).protected
BY Zenon DEF File, Sound, Grows, Chmod

(* syncDirectory makes the entry of a linked file durable.                 *)
LEMMA SyncFile ==
    ASSUME NEW f \in File, Sound(f)
    PROVE  Grows(f, Synchronized(f)) /\ (f.there => Synchronized(f).entry)
BY Zenon DEF File, Sound, Grows, Synchronized

(* A power cut leaves a sound file or none, and keeps a durable entry.     *)
LEMMA CutFile ==
    ASSUME NEW f \in File, Sound(f), NEW g \in Survivors(f)
    PROVE  g \in File /\ Sound(g) /\ (f.entry => g.entry)
<1>1. CASE g = NoFile /\ ~f.entry
  BY <1>1 DEF File, Sound, NoFile
<1>2. CASE \E w \in {f.whole, f.whole /\ f.synced}, m \in {f.protected, f.kept} :
             f.there /\ g = OnDisk(w, m)
  <2>1. PICK w \in {f.whole, f.whole /\ f.synced}, m \in {f.protected, f.kept} :
             f.there /\ g = OnDisk(w, m)
    BY <1>2
  <2>2. f.whole /\ f.synced /\ m \in BOOLEAN
    BY <2>1 DEF Sound, File
  <2>3. w = TRUE
    BY <2>2, Zenon DEF File
  <2> QED
    BY <2>1, <2>2, <2>3, ZenonT(30) DEF File, Sound, OnDisk
<1>3. \/ g = NoFile /\ ~f.entry
      \/ \E w \in {f.whole, f.whole /\ f.synced}, m \in {f.protected, f.kept} :
             f.there /\ g = OnDisk(w, m)
  BY DEF Survivors
<1> QED
  BY <1>1, <1>2, <1>3, ZenonT(30)

-----------------------------------------------------------------------------
(* The steps                                                               *)

AllGrow == \A d \in Digests : Grows(artifacts[d], artifacts'[d]) /\ Grows(metadata[d], metadata'[d])
FileTypes == artifacts \in [Digests -> File] /\ metadata \in [Digests -> File]

(* A step of one publication that only grows files keeps what every other  *)
(* publication has done.                                                   *)
LEMMA OthersKept ==
    ASSUME RepositoryInv, NEW p \in Publishers,
           AllGrow,
           \A q \in Publishers \ {p} : publisher'[q] = publisher[q],
           Progress(p)'
    PROVE  FilesInv' /\ PublisherInv'
<1>1. FilesInv'
  BY Zenon DEF FilesInv, AllGrow, Grows
<1>2. ASSUME NEW q \in Publishers \ {p} PROVE Progress(q)'
  <2>1. publisher'[q] = publisher[q] /\ publisher[q].digest \in Digests /\ Progress(q)
    BY Zenon DEF RepositoryInv, RepositoryTypes, PublisherInv
  <2> QED
    BY <2>1 DEF Progress, AllGrow, Grows
<1> QED
  BY <1>1, <1>2, ZenonT(30) DEF PublisherInv

(* What was published is kept by a step that only grows files.             *)
LEMMA PublishedKept ==
    ASSUME RepositoryInv, AllGrow, UNCHANGED <<published, steady>>
    PROVE  PublishedInv'
BY DEF RepositoryInv, RepositoryTypes, PublishedInv, AllGrow, Grows

(* Files that do not change grow trivially.                                *)
LEMMA Unchanged ==
    ASSUME NEW files \in [Digests -> File], \A d \in Digests : Sound(files[d])
    PROVE  \A d \in Digests : Grows(files[d], files[d])
BY Zenon DEF Grows

(* No step of Publish takes back what was done to a file: os.Link, os.Chmod *)
(* and syncDirectory only add, whoever linked the file.                    *)
LEMMA PublishGrows ==
    ASSUME RepositoryInv, NEW p \in Publishers, Publish(p)
    PROVE  AllGrow /\ FileTypes'
<1> DEFINE d == Digest(p)
<1>1. /\ d \in Digests /\ Progress(p)
      /\ artifacts \in [Digests -> File] /\ metadata \in [Digests -> File]
      /\ \A e \in Digests : Sound(artifacts[e]) /\ Sound(metadata[e])
  BY DEF RepositoryInv, RepositoryTypes, FilesInv, PublisherInv, Digest
<1>2. /\ \A e \in Digests : Grows(artifacts[e], artifacts[e])
      /\ \A e \in Digests : Grows(metadata[e], metadata[e])
  BY <1>1, Unchanged
<1>3. CASE UNCHANGED <<artifacts, metadata>>
  BY <1>1, <1>2, <1>3, ZenonT(30) DEF AllGrow, FileTypes
<1>4. CASE LinkArtifact(p)
  <2>1. Grows(artifacts[d], Link(artifacts[d]))
    BY <1>1, LinkFile
  <2>2. artifacts' = [artifacts EXCEPT ![d] = Link(@)] /\ UNCHANGED metadata
    BY <1>4, ZenonT(30) DEF LinkArtifact
  <2> QED
    BY <1>1, <1>2, <2>1, <2>2, SMTT(30) DEF AllGrow, FileTypes, Grows
<1>5. CASE ProtectArtifact(p)
  <2>1. Grows(artifacts[d], Chmod(artifacts[d]))
    BY <1>1, <1>5, ChmodFile DEF ProtectArtifact, At, Progress, Linked, Digest
  <2>2. artifacts' = [artifacts EXCEPT ![d] = Chmod(@)] /\ UNCHANGED metadata
    BY <1>5, Zenon DEF ProtectArtifact
  <2> QED
    BY <1>1, <1>2, <2>1, <2>2 DEF AllGrow, FileTypes, Grows
<1>6. CASE SyncArtifacts(p)
  <2>1. \A e \in Digests : Grows(artifacts[e], Synchronized(artifacts[e]))
    BY <1>1, SyncFile, Zenon
  <2>2. artifacts' = [e \in Digests |-> Synchronized(artifacts[e])] /\ UNCHANGED metadata
    BY <1>6, Zenon DEF SyncArtifacts
  <2> QED
    BY <1>1, <1>2, <2>1, <2>2, SMTT(30) DEF AllGrow, FileTypes, Grows
<1>7. CASE LinkMetadata(p)
  <2>1. Grows(metadata[d], Link(metadata[d]))
    BY <1>1, LinkFile
  <2>2. metadata' \in {metadata, [metadata EXCEPT ![d] = Link(@)]} /\ UNCHANGED artifacts
    BY <1>7, Zenon DEF LinkMetadata
  <2> QED
    BY <1>1, <1>2, <2>1, <2>2, SMTT(30) DEF AllGrow, FileTypes, Grows
<1>8. CASE ProtectMetadata(p)
  <2>1. Grows(metadata[d], Chmod(metadata[d]))
    BY <1>1, <1>8, ChmodFile DEF ProtectMetadata, At, Progress, Registered, Digest
  <2>2. metadata' = [metadata EXCEPT ![d] = Chmod(@)] /\ UNCHANGED artifacts
    BY <1>8, Zenon DEF ProtectMetadata
  <2> QED
    BY <1>1, <1>2, <2>1, <2>2, ZenonT(30) DEF AllGrow, FileTypes, Grows
<1>9. CASE SyncMetadata(p)
  <2>1. \A e \in Digests : Grows(metadata[e], Synchronized(metadata[e]))
    BY <1>1, SyncFile, Zenon
  <2>2. metadata' = [e \in Digests |-> Synchronized(metadata[e])] /\ UNCHANGED artifacts
    BY <1>9, Zenon DEF SyncMetadata
  <2> QED
    BY <1>1, <1>2, <2>1, <2>2 DEF AllGrow, FileTypes, Grows
<1> QED
  BY <1>3, <1>4, <1>5, <1>6, <1>7, <1>8, <1>9, Zenon
  DEF Publish, Stage, VerifyArtifact, Fails

(* Every step of Publish preserves the invariant.                          *)
LEMMA PublishStep ==
    ASSUME RepositoryInv, NEW p \in Publishers, Publish(p)
    PROVE  RepositoryInv'
<1> DEFINE d == Digest(p)
<1>1. AllGrow /\ FileTypes'
  BY PublishGrows
<1>2. /\ d \in Digests /\ Progress(p) /\ RepositoryTypes /\ PublishedInv
      /\ \A e \in Digests : Sound(artifacts[e]) /\ Sound(metadata[e])
  BY SMTT(30) DEF RepositoryInv, RepositoryTypes, FilesInv, PublisherInv, Digest
<1>3. SUFFICES /\ publisher' \in [Publishers -> [pc : PublishSteps, digest : Digests, changed : BOOLEAN]]
               /\ \A q \in Publishers \ {p} : publisher'[q] = publisher[q]
               /\ Progress(p)'
               /\ published' \subseteq Digests /\ steady' \subseteq published'
               /\ PublishedInv'
  BY <1>1, OthersKept DEF RepositoryInv, RepositoryTypes, FileTypes
<1>4. ASSUME UNCHANGED <<published, steady>>
      PROVE  published' \subseteq Digests /\ steady' \subseteq published' /\ PublishedInv'
  BY <1>1, <1>2, <1>4, PublishedKept, ZenonT(30) DEF RepositoryTypes
<1> USE DEF PublishSteps, Linked, Protected, Durable, Registered
<1>5. CASE Stage(p)
  BY <1>2, <1>4, <1>5, SMTT(30) DEF Stage, RepositoryTypes, Progress
<1>6. CASE Fails(p)
  BY <1>2, <1>4, <1>6, ZenonT(60) DEF Fails, Leave, RepositoryTypes, Progress
<1>7. CASE LinkArtifact(p)
  <2>1. Link(artifacts[d]).there
    BY <1>2, LinkFile DEF RepositoryTypes
  <2> QED
    BY <1>2, <1>4, <1>7, <2>1, SMTT(30) DEF LinkArtifact, At, Digest, Proceed, RepositoryTypes, Progress
<1>8. CASE ProtectArtifact(p)
  <2>1. artifacts[d].there
    BY <1>2, <1>8, ZenonT(30) DEF ProtectArtifact, At, Progress, Digest
  <2>2. Grows(artifacts[d], Chmod(artifacts[d])) /\ Chmod(artifacts[d]).protected
    BY <1>2, <2>1, ChmodFile, SMTT(30) DEF RepositoryTypes
  <2> QED
    BY <1>2, <1>4, <1>8, <2>1, <2>2, ZenonT(30) DEF ProtectArtifact, At, Digest, Proceed, RepositoryTypes, Progress, Grows
<1>9. CASE VerifyArtifact(p)
  <2>1. artifacts[d].whole
    BY <1>2, <1>9 DEF VerifyArtifact, At, Progress, Digest, Sound
  <2> QED
    BY <1>2, <1>4, <1>9, <2>1, SMTT(30) DEF VerifyArtifact, At, Digest, Proceed, RepositoryTypes, Progress
<1>10. CASE SyncArtifacts(p)
  <2>1. artifacts[d].there /\ artifacts[d].protected
    BY <1>2, <1>10 DEF SyncArtifacts, At, Progress, Digest
  <2>2. Grows(artifacts[d], artifacts'[d]) /\ artifacts'[d].entry
    BY <1>2, <2>1, <1>10, SyncFile DEF SyncArtifacts, RepositoryTypes
  <2> QED
    BY <1>2, <1>4, <1>10, <2>1, <2>2, ZenonT(30) DEF SyncArtifacts, At, Digest, Proceed, RepositoryTypes, Progress, Grows
<1>11. CASE LinkMetadata(p)
  <2>1. ~(metadata[d].there /\ ~metadata[d].whole) /\ Link(metadata[d]).there
    BY <1>2, LinkFile DEF RepositoryTypes, Sound
  <2>2. /\ At(p, "register") /\ Proceed(p, "announce")
        /\ metadata' = [metadata EXCEPT ![d] = Link(@)]
        /\ UNCHANGED <<artifacts, published, steady>>
    BY <1>11, <2>1, Zenon DEF LinkMetadata
  <2> QED
    BY <1>2, <1>4, <2>1, <2>2, ZenonT(30) DEF At, Digest, Proceed, RepositoryTypes, Progress
<1>12. CASE ProtectMetadata(p)
  <2>1. metadata[d].there
    BY <1>2, <1>12 DEF ProtectMetadata, At, Progress, Digest
  <2>2. Grows(metadata[d], Chmod(metadata[d])) /\ Chmod(metadata[d]).protected
    BY <1>2, <2>1, ChmodFile DEF RepositoryTypes
  <2> QED
    BY <1>2, <1>4, <1>12, <2>1, <2>2, ZenonT(30) DEF ProtectMetadata, At, Digest, Proceed, RepositoryTypes, Progress, Grows
<1>13. CASE SyncMetadata(p)
  <2>1. /\ artifacts[d].entry /\ artifacts[d].protected
        /\ metadata[d].there /\ metadata[d].protected
    BY <1>2, <1>13 DEF SyncMetadata, At, Progress, Digest
  <2>2. Grows(metadata[d], metadata'[d]) /\ metadata'[d].entry /\ UNCHANGED artifacts
    BY <1>2, <2>1, <1>13, SyncFile, Zenon DEF SyncMetadata, RepositoryTypes
  <2>3. PublishedInv'
    BY <1>1, <1>2, <1>13, <2>1, <2>2, ZenonT(30) DEF SyncMetadata, PublishedInv, RepositoryTypes, AllGrow, Grows
  <2> QED
    BY <1>2, <1>13, <2>3, ZenonT(60) DEF SyncMetadata, Leave, RepositoryTypes, Progress
<1> QED
  BY <1>5, <1>6, <1>7, <1>8, <1>9, <1>10, <1>11, <1>12, <1>13 DEF Publish

(* A power cut keeps every durable entry and leaves no torn file.          *)
LEMMA PowerCutStep ==
    ASSUME RepositoryInv, PowerCut
    PROVE  RepositoryInv'
<1>1. /\ RepositoryTypes /\ PublishedInv
      /\ \A d \in Digests : Sound(artifacts[d]) /\ Sound(metadata[d])
  BY Zenon DEF RepositoryInv, FilesInv
<1>2. \A d \in Digests :
        /\ artifacts'[d] \in File /\ Sound(artifacts'[d]) /\ (artifacts[d].entry => artifacts'[d].entry)
        /\ metadata'[d] \in File /\ Sound(metadata'[d]) /\ (metadata[d].entry => metadata'[d].entry)
  BY <1>1, CutFile, Zenon DEF PowerCut, RepositoryTypes
<1>3. FileTypes' /\ FilesInv'
  BY <1>2, Zenon DEF PowerCut, FileTypes, FilesInv
<1>4. /\ publisher' \in [Publishers -> [pc : PublishSteps, digest : Digests, changed : BOOLEAN]]
      /\ PublisherInv'
  BY <1>1, ZenonT(60) DEF PowerCut, RepositoryTypes, PublisherInv, Progress, PublishSteps, Linked, Protected, Durable, Registered
<1>5. published' \subseteq Digests /\ steady' \subseteq published' /\ PublishedInv'
  BY <1>1, <1>2, Zenon DEF PowerCut, RepositoryTypes, PublishedInv
<1> QED
  BY <1>3, <1>4, <1>5 DEF RepositoryInv, RepositoryTypes, FileTypes

(* The empty repository satisfies the invariant.                           *)
LEMMA RepositoryStart == RepositoryInit => RepositoryInv
<1> SUFFICES ASSUME RepositoryInit PROVE RepositoryInv
  OBVIOUS
<1>1. NoFile \in File /\ Sound(NoFile)
  BY DEF NoFile, File, Sound
<1>2. RepositoryTypes /\ FilesInv
  BY <1>1, Zenon DEF RepositoryInit, RepositoryTypes, FilesInv, PublishSteps
<1>3. PublisherInv /\ PublishedInv
  BY Zenon DEF RepositoryInit, PublisherInv, Progress, PublishedInv, Linked, Protected, Durable, Registered
<1> QED
  BY <1>2, <1>3, SMTT(30) DEF RepositoryInv

-----------------------------------------------------------------------------
(* The results                                                             *)

(* The invariant holds throughout, over any number of concurrent           *)
(* publications (Repository.Publish), failures and power cuts.             *)
THEOREM RepositoryInvariance == RepositorySpec => []RepositoryInv
<1>1. RepositoryInv /\ [RepositoryNext]_repositoryVars => RepositoryInv'
  <2> SUFFICES ASSUME RepositoryInv, [RepositoryNext]_repositoryVars PROVE RepositoryInv'
    OBVIOUS
  <2>1. CASE UNCHANGED repositoryVars
    BY <2>1, ZenonT(30) DEF repositoryVars, RepositoryInv, RepositoryTypes, FilesInv, PublisherInv, Progress, PublishedInv
  <2> QED
    BY <2>1, PublishStep, PowerCutStep, ZenonT(30) DEF RepositoryNext
<1> QED
  BY <1>1, RepositoryStart, PTL DEF RepositorySpec

(* The invariant says what OpenArtifact and the directories hold.          *)
LEMMA InvImplies == RepositoryInv => NeverWedged /\ PublishedStaysOpen
<1> SUFFICES ASSUME RepositoryInv PROVE NeverWedged /\ PublishedStaysOpen
  BY SMTT(30)
<1>1. NeverWedged
  BY DEF RepositoryInv, PublisherInv, Progress, NeverWedged
<1>2. \A d \in published : /\ artifacts[d].whole /\ artifacts[d].entry /\ artifacts[d].there
                          /\ metadata[d].whole /\ metadata[d].entry /\ metadata[d].there
  BY Zenon DEF RepositoryInv, RepositoryTypes, FilesInv, Sound, PublishedInv
<1>3. \A d \in steady : OpenArtifact(d) = "OK"
  BY <1>2 DEF RepositoryInv, RepositoryTypes, PublishedInv, OpenArtifact, readMetadata, openFile
<1> QED
  BY <1>1, <1>2, <1>3 DEF PublishedStaysOpen

(* No publication is ever refused because of what others left behind,      *)
(* whatever the number of artifacts and of publications (ErrArtifactChanged *)
(* of verifyArtifactFile and installMetadata).                             *)
THEOREM NeverWedgedAlways == RepositorySpec => []NeverWedged
BY RepositoryInvariance, InvImplies, PTL

(* What Publish has returned stays on the disk over any number of power    *)
(* cuts, and stays open for readers until the next one.                    *)
THEOREM PublishedStaysOpenAlways == RepositorySpec => []PublishedStaysOpen
BY RepositoryInvariance, InvImplies, PTL

-----------------------------------------------------------------------------

Serving == {"accept", "wait"}
Running == {"build", "listen"} \cup Serving
WorkerSteps == {"none", "handshake", "read", "lookup", "artifact", "answer", "error",
                "end", "released"}

ServerTypeInv ==
    /\ gateway \in [pc : {"off"} \cup Running, active : Digests, cancelled : BOOLEAN]
    /\ listener \in BOOLEAN /\ store \in BOOLEAN
    /\ worker \in [Workers -> [pc : WorkerSteps, open : BOOLEAN]]

(* What is open at each step of Run, and when goroutines can exist.        *)
LifetimeInv ==
    /\ store <=> gateway.pc \in Running
    /\ listener => gateway.pc \in Serving
    /\ \A w \in Workers : worker[w].pc # "none" => gateway.pc \in Serving

(* The active artifact was opened when the handlers were built, and its    *)
(* two files have only grown since.                                        *)
ActiveInv ==
    gateway.pc \in {"listen"} \cup Serving =>
        /\ artifacts[gateway.active].there /\ artifacts[gateway.active].protected
        /\ metadata[gateway.active].there /\ metadata[gateway.active].protected

GatewayInv == RepositoryInv /\ ServerTypeInv /\ LifetimeInv /\ ActiveInv

-----------------------------------------------------------------------------
(* A gateway that has not been started satisfies the invariant.            *)
LEMMA GatewayStart == GatewayInit => GatewayInv
<1> SUFFICES ASSUME GatewayInit PROVE GatewayInv
  OBVIOUS
<1>1. RepositoryInv
  BY RepositoryStart DEF GatewayInit
<1>2. ServerTypeInv /\ LifetimeInv /\ ActiveInv
  BY Zenon DEF GatewayInit, NoWorker, ServerTypeInv, LifetimeInv, ActiveInv, Running, Serving, WorkerSteps
<1> QED
  BY <1>1, <1>2 DEF GatewayInv

(* The steps of Run and Serve.                                             *)
LEMMA RunKeepsGateway ==
    ASSUME GatewayInv,
           \/ OpenStore \/ Main \/ Signal \/ CloseListener \/ AcceptFails
           \/ \E w \in Workers : Accept(w)
    PROVE  GatewayInv'
<1> USE DEF Running, Serving
<1>1. RepositoryInv /\ ServerTypeInv /\ LifetimeInv /\ ActiveInv
  BY DEF GatewayInv
<1>2. UNCHANGED repositoryVars
  BY Zenon DEF OpenStore, Main, ConfiguredHandlers, StartFails, Listen, ListenerClosed, Returned, Signal,
         CloseListener, AcceptFails, AcceptReturns, Accept
<1>3. RepositoryInv' /\ UNCHANGED <<artifacts, metadata>>
  BY <1>1, <1>2 DEF repositoryVars, RepositoryInv, RepositoryTypes, FilesInv, PublisherInv, Progress, PublishedInv
<1>4. SUFFICES ServerTypeInv' /\ LifetimeInv' /\ ActiveInv'
  BY <1>3, ZenonT(30) DEF GatewayInv
<1>5. CASE OpenStore
  BY <1>1, <1>5 DEF OpenStore, ServerTypeInv, LifetimeInv, ActiveInv
<1>6. CASE ConfiguredHandlers
  <2>1. /\ artifacts[gateway.active].there /\ artifacts[gateway.active].protected
        /\ metadata[gateway.active].there /\ metadata[gateway.active].protected
    BY <1>6 DEF ConfiguredHandlers, OpenArtifact, readMetadata, openFile
  <2> QED
    BY <1>1, <1>3, <1>6, <2>1, SMTT(30) DEF ConfiguredHandlers, ServerTypeInv, LifetimeInv, ActiveInv
<1>7. CASE StartFails
  BY <1>1, <1>7, Zenon DEF StartFails, Off, ServerTypeInv, LifetimeInv, ActiveInv
<1>8. CASE Listen
  BY <1>1, <1>3, <1>8 DEF Listen, ServerTypeInv, LifetimeInv, ActiveInv
<1>9. CASE Signal
  BY <1>1, <1>3, <1>9, Zenon DEF Signal, ServerTypeInv, LifetimeInv, ActiveInv
<1>10. CASE CloseListener
  BY <1>1, <1>3, <1>10, Zenon DEF CloseListener, ServerTypeInv, LifetimeInv, ActiveInv
<1>11. CASE ListenerClosed \/ AcceptFails
  BY <1>1, <1>3, <1>11
  DEF ListenerClosed, AcceptFails, AcceptReturns, ServerTypeInv, LifetimeInv, ActiveInv
<1>12. CASE Returned
  <2>1. \A w \in Workers : worker[w].pc = "none"
    BY <1>12, SMTT(30) DEF Returned, Awaited, NoWorker
  <2> QED
    BY <1>1, <1>12, <2>1, Zenon DEF Returned, Awaited, Off, ServerTypeInv, LifetimeInv, ActiveInv
<1>13. ASSUME NEW w \in Workers, Accept(w) PROVE ServerTypeInv' /\ LifetimeInv' /\ ActiveInv'
  BY <1>1, <1>3, <1>13 DEF Accept, ServerTypeInv, LifetimeInv, ActiveInv, WorkerSteps
<1> QED
  BY <1>5, <1>6, <1>7, <1>8, <1>9, <1>10, <1>11, <1>12, <1>13, ZenonT(30) DEF Main

(* The steps of serveConnection change a goroutine that exists, and        *)
(* nothing of Run or of the repository.                                    *)
LEMMA WorkerStep ==
    ASSUME GatewayInv, NEW w \in Workers, CloseConnection(w) \/ serveConnection(w)
    PROVE  GatewayInv'
<1>1. RepositoryInv /\ ServerTypeInv /\ LifetimeInv /\ ActiveInv
  BY Zenon DEF GatewayInv
<1>2. /\ UNCHANGED <<repositoryVars, gateway, listener, store>>
      /\ worker' \in [Workers -> [pc : WorkerSteps, open : BOOLEAN]]
      /\ \A v \in Workers : worker'[v].pc # "none" => worker[v].pc # "none"
  <2>1. CASE CloseConnection(w)
    BY <1>1, <2>1, Zenon DEF CloseConnection, ServerTypeInv
  <2>2. ASSUME NEW pc \in WorkerSteps, worker[w].pc # "none", Step(w, pc) PROVE <1>2!:
    BY <1>1, <2>2, ZenonT(30) DEF Step, ServerTypeInv
  <2>3. CASE Handshake(w) \/ ReadFails(w) \/ Frame(w)
    BY <2>2, <2>3 DEF Handshake, ReadFails, Frame, In, WorkerSteps
  <2>4. CASE Lookup(w) \/ Open(w)
    BY <2>2, <2>4 DEF Lookup, Open, In, WorkerSteps
  <2>5. CASE Answer(w) \/ SendError(w)
    BY <2>2, <2>5 DEF Answer, SendError, In, WorkerSteps
  <2>6. CASE Release(w) \/ Done(w)
    <3>1. /\ worker[w].pc # "none" /\ UNCHANGED <<repositoryVars, gateway, listener, store>>
          /\ \E pc \in {"none", "released"} :
               worker' = [worker EXCEPT ![w] = [pc |-> pc, open |-> FALSE]]
      BY <2>6, Zenon DEF Release, Done, NoWorker, In
    <3> QED
      BY <1>1, <3>1 DEF ServerTypeInv, WorkerSteps
  <2> QED
    BY <2>1, <2>3, <2>4, <2>5, <2>6 DEF serveConnection
<1>3. RepositoryInv'
  BY <1>1, <1>2 DEF repositoryVars, RepositoryInv, RepositoryTypes, FilesInv, PublisherInv, Progress, PublishedInv
<1>4. ServerTypeInv' /\ LifetimeInv'
  BY <1>1, <1>2, Zenon DEF ServerTypeInv, LifetimeInv
<1>5. ActiveInv'
  BY <1>1, <1>2 DEF repositoryVars, ActiveInv
<1> QED
  BY <1>3, <1>4, <1>5 DEF GatewayInv

(* A publication beside the running gateway only adds to the files of the  *)
(* active artifact.                                                        *)
LEMMA PublishingStep ==
    ASSUME GatewayInv, Publishing
    PROVE  GatewayInv'
<1>1. PICK p \in Publishers : Publish(p) /\ UNCHANGED serverVars
  BY DEF Publishing
<1>2. RepositoryInv' /\ AllGrow
  BY <1>1, PublishStep, PublishGrows, Zenon DEF GatewayInv
<1>3. ServerTypeInv' /\ LifetimeInv'
  BY <1>1, Zenon DEF GatewayInv, serverVars, ServerTypeInv, LifetimeInv
<1>4. ActiveInv'
  BY <1>1, <1>2 DEF GatewayInv, serverVars, ServerTypeInv, ActiveInv, AllGrow, Grows
<1> QED
  BY <1>2, <1>3, <1>4 DEF GatewayInv

(* A power cut stops the gateway with everything else.                     *)
LEMMA MachineStopsStep ==
    ASSUME GatewayInv, MachineStops
    PROVE  GatewayInv'
<1>1. RepositoryInv'
  BY PowerCutStep DEF GatewayInv, MachineStops
<1>2. ServerTypeInv' /\ LifetimeInv' /\ ActiveInv'
  BY Zenon DEF GatewayInv, MachineStops, Off, NoWorker, ServerTypeInv, LifetimeInv, ActiveInv, Running,
         Serving, WorkerSteps
<1> QED
  BY <1>1, <1>2 DEF GatewayInv

-----------------------------------------------------------------------------
(* The invariant of the gateway process (gatewayapp.Run, Server.Serve)     *)
(* beside any number of publications and power cuts.                       *)
THEOREM GatewayInvariance == GatewaySpec => []GatewayInv
<1>1. GatewayInv /\ [GatewayNext]_gatewayVars => GatewayInv'
  <2> SUFFICES ASSUME GatewayInv, [GatewayNext]_gatewayVars PROVE GatewayInv'
    OBVIOUS
  <2>1. CASE UNCHANGED gatewayVars
    BY <2>1 DEF gatewayVars, serverVars, repositoryVars, GatewayInv, RepositoryInv, RepositoryTypes, FilesInv,
                PublisherInv, Progress, PublishedInv, ServerTypeInv, LifetimeInv, ActiveInv
  <2> QED
    BY <2>1, RunKeepsGateway, WorkerStep, PublishingStep, MachineStopsStep, Zenon DEF GatewayNext
<1> QED
  BY <1>1, GatewayStart, PTL DEF GatewaySpec

(* The artifact a gateway was started with can be opened as long as it     *)
(* runs, whatever is published meanwhile (newRecoveryService, Manifest and *)
(* handleArtifact).                                                        *)
THEOREM ActiveStaysOpenAlways == GatewaySpec => []ActiveStaysOpen
<1>1. GatewayInv => ActiveStaysOpen
  BY DEF GatewayInv, RepositoryInv, FilesInv, Sound, ServerTypeInv, ActiveInv, ActiveStaysOpen,
         OpenArtifact, readMetadata, openFile, Serving
<1> QED
  BY <1>1, GatewayInvariance, PTL

(* No handler runs on a closed store, however many goroutines there are,   *)
(* and a gateway that is off holds neither store nor listener.             *)
THEOREM StoreOutlivesHandlersAlways == GatewaySpec => []StoreOutlivesHandlers
<1>1. GatewayInv => StoreOutlivesHandlers
  BY DEF GatewayInv, ServerTypeInv, LifetimeInv, StoreOutlivesHandlers, Running, Serving
<1> QED
  BY <1>1, GatewayInvariance, PTL

=============================================================================
