--------------------------- MODULE EnrollmentProofs ---------------------------
(***************************************************************************)
(* Enrolment for any number of runs, tokens, identities and server nonces. *)
(* What makes the properties inductive is what ties the parties together:  *)
(* a proof that is still on its way carries the nonce its run settled on,  *)
(* a client that was told "done" was told so for a record that is in the   *)
(* host table, and the table, the completed bucket, the sessions and the   *)
(* spent tokens agree on every host.                                       *)
(***************************************************************************)
EXTENDS Enrollment, Identity, FiniteSetTheorems, TLAPS

TokenRecords == [state : {"live", "pending", "consumed", "revoked"},
                 transcript : Runs \cup {none}, mismatches : Nat]
ClientRecords == [pc : {"off", "begin", "complete", "enrolled", "failed"}, attempt : Attempts,
                  nonce : Nat, answer : {"waiting", "ok", "error"}, answered : Nat]
Requests == [run : Runs, operation : {"begin", "complete"}, attempt : Attempts, nonce : Nat]
HostRecords == [host : Hosts, run : Runs, token : Tokens, nonce : Nat]

EnrollTypeInv ==
    /\ TokenOf \in [Runs -> Tokens] /\ HostOf \in [Runs -> Hosts]
    /\ token \in [Tokens -> TokenRecords]
    /\ client \in [Runs -> ClientRecords]
    /\ completed \in [Runs -> Nat] /\ session \in [Runs -> Nat] /\ nonces \in Nat
    /\ hosts \subseteq HostRecords /\ requests \subseteq Requests

Proved == {"complete", "enrolled", "failed"}
InTable(r, n) == \E x \in hosts : x.run = r /\ x.nonce = n

(* Every bucket, the sessions and the client agree on a host in the table. *)
Settled(x) ==
    /\ x.token = TokenOf[x.run]
    /\ token[x.token].state = "consumed" /\ token[x.token].transcript = x.run
    /\ session[x.run] = 0 /\ completed[x.run] = x.nonce
    /\ client[x.run].pc \in Proved /\ client[x.run].nonce = x.nonce

TableInv ==
    /\ \A x \in hosts : Settled(x)
    /\ \A x, y \in hosts : x.token = y.token \/ x.host = y.host => x = y
    /\ \A t \in Tokens : token[t].state = "consumed" => \E x \in hosts : x.token = t
    /\ \A r \in Runs : completed[r] # 0 => InTable(r, completed[r])

(* A proof on its way is its run's only proof.                             *)
RequestInv ==
    \A m \in requests : m.operation = "complete" =>
        client[m.run].pc \in Proved /\ m.nonce = client[m.run].nonce /\ m.nonce # 0

(* What a client has been told is so.                                      *)
ToldInv ==
    \A r \in Runs :
        /\ client[r].pc = "complete" => client[r].nonce # 0
        /\ client[r].pc = "off" => client[r].answer = "waiting"
        /\ client[r].pc = "begin" /\ client[r].answer = "ok" => client[r].answered # 0
        /\ client[r].pc = "complete" /\ client[r].answer = "ok" => InTable(r, client[r].answered)
        /\ client[r].pc = "enrolled" => InTable(r, client[r].nonce)

EnrollInv == EnrollTypeInv /\ TableInv /\ RequestInv /\ ToldInv

LEMMA InitEnroll == Init => EnrollInv
<1> SUFFICES ASSUME Init PROVE EnrollInv
  OBVIOUS
<1>1. EnrollTypeInv
  BY EnrollmentAssumption
  DEF Init, EnrollTypeInv, Issued, Drawn, TokenRecords, ClientRecords, Attempts, Requests, HostRecords
<1>2. TableInv
  BY DEF Init, TableInv, Issued
<1>3. RequestInv /\ ToldInv
  BY DEF Init, RequestInv, ToldInv, Drawn
<1> QED
  BY <1>1, <1>2, <1>3 DEF EnrollInv

-----------------------------------------------------------------------------
(* A step of one client: what the gateway holds is left alone, and the     *)
(* client does not leave or change a proof it has made.                    *)
May(r, c) ==
    /\ client[r].pc \in Proved => c.pc \in Proved /\ c.nonce = client[r].nonce
    /\ c.pc = "complete" => c.nonce # 0
    /\ c.pc # "off"
    /\ c.pc = "begin" /\ c.answer = "ok" => c.answered # 0
    /\ c.pc = "complete" /\ c.answer = "ok" => InTable(r, c.answered)
    /\ c.pc = "enrolled" => InTable(r, c.nonce)

MaySend(r, c, q) ==
    \A m \in q : /\ m.run = r
                 /\ m.operation = "complete" => c.pc \in Proved /\ m.nonce = c.nonce /\ m.nonce # 0

LEMMA ClientMoves ==
    ASSUME EnrollInv, GatewayOnly, NEW r \in Runs, NEW c \in ClientRecords,
           NEW q \in SUBSET Requests, May(r, c), MaySend(r, c, q),
           client' = [client EXCEPT ![r] = c], requests' = requests \cup q
    PROVE  EnrollInv'
<1> USE DEF EnrollInv, GatewayOnly, bucket, uses, May, MaySend
<1>1. EnrollTypeInv'
  BY DEF EnrollTypeInv
<1>2. client'[r] = c /\ \A s \in Runs \ {r} : client'[s] = client[s]
  BY DEF EnrollTypeInv
<1>3. TableInv'
  <2>1. \A x \in hosts : Settled(x)'
    BY <1>2 DEF TableInv, Settled, EnrollTypeInv, HostRecords
  <2> QED
    BY <2>1 DEF TableInv, InTable
<1>4. RequestInv'
  <2>1. SUFFICES ASSUME NEW m \in requests', m.operation = "complete"
        PROVE  client'[m.run].pc \in Proved /\ m.nonce = client'[m.run].nonce /\ m.nonce # 0
    BY DEF RequestInv
  <2>2. CASE m \in q
    BY <1>2, <2>1, <2>2
  <2>3. CASE m \in requests
    BY <1>2, <2>1, <2>3 DEF RequestInv, EnrollTypeInv, Requests
  <2> QED
    BY <2>1, <2>2, <2>3
<1>5. ToldInv'
  BY <1>2 DEF ToldInv, InTable
<1> QED
  BY <1>1, <1>3, <1>4, <1>5, Zenon

(* A client that gives up keeps the proof it has made.                     *)
LEMMA ClientEnds ==
    ASSUME EnrollInv, GatewayOnly, NEW r \in Runs, Ends(r)
    PROVE  EnrollInv'
<1> DEFINE c == [client[r] EXCEPT !.pc = "failed"]
           q == {}
<1>1. client[r] \in ClientRecords
  BY DEF EnrollInv, EnrollTypeInv
<1>2. c \in ClientRecords /\ c.pc = "failed" /\ c.nonce = client[r].nonce
  BY <1>1 DEF ClientRecords
<1>3. client' = [client EXCEPT ![r] = c] /\ requests' = requests \cup q
  BY DEF Ends
<1>4. q \in SUBSET Requests /\ MaySend(r, c, q)
  BY DEF MaySend
<1> HIDE DEF c, q
<1>5. May(r, c)
  BY <1>2 DEF May, Proved
<1> QED
  BY <1>2, <1>3, <1>4, <1>5, ClientMoves, Zenon

LEMMA PreparedProof ==
    ASSUME NEW d \in ClientRecords
    PROVE  /\ prepare_proof(d) \in ClientRecords
           /\ prepare_proof(d).pc = "complete" /\ prepare_proof(d).answer = "waiting"
           /\ prepare_proof(d).nonce = d.answered
<1> DEFINE e == [d EXCEPT !.pc = "complete", !.attempt = 1]
           f == [e EXCEPT !.nonce = d.answered]
           g == [f EXCEPT !.answer = "waiting"]
<1>0. 1 \in Attempts
  BY DEF Attempts
<1>1. e \in ClientRecords /\ e.pc = "complete"
  BY <1>0, Zenon DEF ClientRecords
<1>2. prepare_proof(d) = [g EXCEPT !.answered = 0]
  BY DEF prepare_proof
<1> HIDE DEF e
<1>3. f \in ClientRecords /\ f.pc = "complete" /\ f.nonce = d.answered
  BY <1>1 DEF ClientRecords
<1> HIDE DEF f
<1>4. g \in ClientRecords /\ g.pc = "complete" /\ g.nonce = d.answered /\ g.answer = "waiting"
  BY <1>3 DEF ClientRecords
<1> HIDE DEF g
<1> QED
  BY <1>2, <1>4 DEF ClientRecords

LEMMA StepClient ==
    ASSUME EnrollInv, NEW r \in Runs, ClientStep(r)
    PROVE  EnrollInv'
<1>1. /\ client[r] \in ClientRecords
      /\ client[r].pc = "complete" => client[r].nonce # 0
      /\ client[r].pc = "off" => client[r].answer = "waiting"
      /\ client[r].pc = "begin" /\ client[r].answer = "ok" => client[r].answered # 0
      /\ client[r].pc = "complete" /\ client[r].answer = "ok" => InTable(r, client[r].answered)
  BY DEF EnrollInv, EnrollTypeInv, ToldInv
<1>2. CASE Start(r)
  <2> DEFINE c == [client[r] EXCEPT !.pc = "begin"]
             q == {EncryptedInit(r)}
  <2>1. GatewayOnly /\ client' = [client EXCEPT ![r] = c] /\ requests' = requests \cup q /\ client[r].pc = "off"
    BY <1>2 DEF Start
  <2>2. c \in ClientRecords /\ c.pc = "begin" /\ c.answer = client[r].answer /\ c.answered = client[r].answered
    BY <1>1 DEF ClientRecords
  <2>3. q \in SUBSET Requests /\ \A m \in q : m.run = r /\ m.operation = "begin"
    BY DEF EncryptedInit, Request, Requests, Attempts
  <2> HIDE DEF c, q
  <2>4. May(r, c) /\ MaySend(r, c, q)
    BY <1>1, <2>1, <2>2, <2>3 DEF May, MaySend, Proved
  <2> QED
    BY <2>1, <2>2, <2>3, <2>4, ClientMoves, Zenon
<1>3. CASE NoAnswer(r) /\ client[r].attempt = 1
  <2> DEFINE c == [client[r] EXCEPT !.attempt = 2]
             q == {Request(r, client[r].pc, 2, client[r].nonce)}
  <2>1. /\ GatewayOnly /\ client' = [client EXCEPT ![r] = c] /\ requests' = requests \cup q
        /\ client[r].pc \in {"begin", "complete"} /\ client[r].answer = "waiting"
    BY <1>3 DEF NoAnswer, Waiting
  <2>2. c \in ClientRecords /\ c.pc = client[r].pc /\ c.answer = "waiting" /\ c.nonce = client[r].nonce
    BY <1>1, <2>1 DEF ClientRecords, Attempts
  <2>3. q \in SUBSET Requests /\ \A m \in q : m.run = r /\ m.operation = client[r].pc /\ m.nonce = client[r].nonce
    BY <1>1, <2>1 DEF Request, Requests, Attempts, ClientRecords
  <2> HIDE DEF c, q
  <2>4. May(r, c) /\ MaySend(r, c, q)
    BY <1>1, <2>1, <2>2, <2>3 DEF May, MaySend, Proved
  <2> QED
    BY <2>1, <2>2, <2>3, <2>4, ClientMoves, Zenon
<1>4. CASE AcceptChallenge(r)
  <2> DEFINE c == prepare_proof(client[r])
             q == {EncryptedProof(r)}
  <2>1. /\ GatewayOnly /\ client' = [client EXCEPT ![r] = c] /\ requests' = requests \cup q
        /\ client[r].pc = "begin" /\ client[r].answered # 0
    BY <1>1, <1>4 DEF AcceptChallenge, accept_challenge
  <2>2. c \in ClientRecords /\ c.pc = "complete" /\ c.answer = "waiting" /\ c.nonce = client[r].answered
    BY <1>1, PreparedProof
  <2>3. q \in SUBSET Requests /\ \A m \in q : m.run = r /\ m.nonce = client[r].answered
    BY <1>1 DEF EncryptedProof, Request, Requests, Attempts, ClientRecords
  <2> HIDE DEF c, q
  <2>4. May(r, c) /\ MaySend(r, c, q)
    BY <2>1, <2>2, <2>3 DEF May, MaySend, Proved
  <2> QED
    BY <2>1, <2>2, <2>3, <2>4, ClientMoves, ZenonT(30)
<1>5. CASE AcceptReceipt(r)
  <2> DEFINE c == [client[r] EXCEPT !.pc = "enrolled"]
             q == {}
  <2>1. /\ GatewayOnly /\ client' = [client EXCEPT ![r] = c] /\ requests' = requests \cup q
        /\ InTable(r, client[r].nonce)
    BY <1>1, <1>5 DEF AcceptReceipt, enrollment_complete
  <2>2. c \in ClientRecords /\ c.pc = "enrolled" /\ c.nonce = client[r].nonce
    BY <1>1 DEF ClientRecords
  <2>3. q \in SUBSET Requests /\ MaySend(r, c, q)
    BY DEF MaySend
  <2> HIDE DEF c, q
  <2>4. May(r, c)
    BY <2>1, <2>2 DEF May, Proved
  <2> QED
    BY <2>1, <2>2, <2>3, <2>4, ClientMoves, Zenon
<1>6. CASE GatewayOnly /\ Ends(r)
  BY <1>6, ClientEnds, Zenon
<1> QED
  BY <1>2, <1>3, <1>4, <1>5, <1>6
  DEF ClientStep, Abandon, NoAnswer, ErrorAnswered, RefuseChallenge, FailActivation, RefuseReceipt

-----------------------------------------------------------------------------
(* An answer changes what one client has been told, and nothing else.      *)
Kept == /\ client' \in [Runs -> ClientRecords]
        /\ \A r \in Runs : client'[r].pc = client[r].pc /\ client'[r].nonce = client[r].nonce

LEMMA AnswerEffect ==
    ASSUME EnrollInv, NEW m \in Requests, NEW a \in {"ok", "error"}, NEW n \in Nat, Answer(m, a, n)
    PROVE  /\ Kept
           /\ \A r \in Runs : \/ client'[r] = client[r]
                             \/ /\ r = m.run /\ client[r].pc = m.operation
                                /\ client'[r].answer = a /\ client'[r].answered = n
<1>1. m.run \in Runs /\ client \in [Runs -> ClientRecords] /\ client[m.run] \in ClientRecords
  BY DEF EnrollInv, EnrollTypeInv, Requests
<1>2. CASE client' = client
  BY <1>1, <1>2 DEF Kept
<1>3. CASE /\ client[m.run].pc = m.operation
           /\ client' = [client EXCEPT ![m.run] = [@ EXCEPT !.answer = a, !.answered = n]]
  <2> DEFINE c == [client[m.run] EXCEPT !.answer = a, !.answered = n]
  <2>1. /\ c \in ClientRecords /\ c.answer = a /\ c.answered = n
        /\ c.pc = client[m.run].pc /\ c.nonce = client[m.run].nonce
    BY <1>1, Zenon DEF ClientRecords
  <2>2. client' = [client EXCEPT ![m.run] = c]
    BY <1>3
  <2> HIDE DEF c
  <2> QED
    BY <1>1, <1>3, <2>1, <2>2 DEF Kept
<1> QED
  BY <1>2, <1>3 DEF Answer

LEMMA RequestsKept ==
    ASSUME EnrollInv, Kept, requests' \subseteq requests
    PROVE  RequestInv'
BY DEF EnrollInv, EnrollTypeInv, RequestInv, Kept, Requests

(* No host is added: its records stay settled if the sessions of enrolled  *)
(* runs and the spent tokens stay as they are.                             *)
LEMMA TableKept ==
    ASSUME EnrollInv, Kept, UNCHANGED <<hosts, completed, uses>>,
           \A x \in hosts : session'[x.run] = 0,
           \A t \in Tokens : /\ token[t].state = "consumed" => token'[t] = token[t]
                             /\ token'[t].state = "consumed" => token[t].state = "consumed"
    PROVE  TableInv'
<1>1. ASSUME NEW x \in hosts PROVE Settled(x)'
  <2>1. Settled(x) /\ x \in HostRecords
    BY DEF EnrollInv, EnrollTypeInv, TableInv
  <2>2. x.run \in Runs /\ x.token \in Tokens
    BY <2>1 DEF HostRecords
  <2> QED
    BY <2>1, <2>2 DEF Settled, Kept, uses
<1>2. \A t \in Tokens : token'[t].state = "consumed" => \E x \in hosts : x.token = t
  BY DEF EnrollInv, TableInv
<1> QED
  BY <1>1, <1>2 DEF EnrollInv, TableInv, InTable

(* What the handling of m tells its client is so.                          *)
LEMMA ToldTrue ==
    ASSUME EnrollInv, NEW m \in Requests, NEW a \in {"ok", "error"}, NEW n \in Nat, Answer(m, a, n),
           hosts \subseteq hosts',
           a = "ok" /\ m.operation = "begin" => n # 0,
           a = "ok" /\ m.operation = "complete" => InTable(m.run, n)'
    PROVE  ToldInv'
<1>1. /\ Kept
      /\ \A r \in Runs : \/ client'[r] = client[r]
                        \/ /\ r = m.run /\ client[r].pc = m.operation
                           /\ client'[r].answer = a /\ client'[r].answered = n
  BY AnswerEffect
<1>2. m.operation \in {"begin", "complete"}
  BY DEF Requests
<1>3. ASSUME NEW r, NEW k, InTable(r, k) PROVE InTable(r, k)'
  BY <1>3 DEF InTable
<1>4. SUFFICES ASSUME NEW r \in Runs
      PROVE  /\ client'[r].pc = "complete" => client'[r].nonce # 0
             /\ client'[r].pc = "off" => client'[r].answer = "waiting"
             /\ client'[r].pc = "begin" /\ client'[r].answer = "ok" => client'[r].answered # 0
             /\ client'[r].pc = "complete" /\ client'[r].answer = "ok" => InTable(r, client[r].answered)'
             /\ client'[r].pc = "enrolled" => InTable(r, client[r].nonce)'
  BY DEF ToldInv, InTable
<1>5. /\ client[r].pc = "complete" => client[r].nonce # 0
      /\ client[r].pc = "off" => client[r].answer = "waiting"
      /\ client[r].pc = "begin" /\ client[r].answer = "ok" => client[r].answered # 0
      /\ client[r].pc = "complete" /\ client[r].answer = "ok" => InTable(r, client[r].answered)
      /\ client[r].pc = "enrolled" => InTable(r, client[r].nonce)
  BY DEF EnrollInv, ToldInv
<1>6. client'[r].pc = client[r].pc /\ client'[r].nonce = client[r].nonce
  BY <1>1 DEF Kept
<1>7. client[r].pc = "enrolled" => InTable(r, client[r].nonce)'
  BY <1>5, <1>6 DEF InTable
<1>8. CASE client'[r] = client[r]
  <2>1. client[r].pc = "complete" /\ client[r].answer = "ok" => InTable(r, client[r].answered)'
    BY <1>5, <1>8 DEF InTable
  <2> QED
    BY <1>5, <1>7, <1>8, <2>1
<1>9. CASE /\ r = m.run /\ client[r].pc = m.operation
           /\ client'[r].answer = a /\ client'[r].answered = n
  <2>1. client[r].pc = "complete" /\ a = "ok" => InTable(r, client[r].answered)'
    BY <1>9 DEF InTable
  <2> QED
    BY <1>2, <1>5, <1>6, <1>7, <1>9, <2>1, ZenonT(30)
<1> QED
  BY <1>1, <1>8, <1>9

(* What a first message may change of a token.                             *)
LEMMA TokenBegunEffect ==
    ASSUME EnrollInv, NEW m \in Requests, TokenBegun(m)
    PROVE  /\ token' \in [Tokens -> TokenRecords]
           /\ \A t \in Tokens : /\ token[t].state = "consumed" => token'[t] = token[t]
                                /\ token'[t].state = "consumed" => token[t].state = "consumed"
<1> DEFINE t0 == TokenOf[m.run]
           b == Begun(t0, m.run)
<1>1. m.run \in Runs /\ t0 \in Tokens /\ token[t0] \in TokenRecords /\ token \in [Tokens -> TokenRecords]
  BY Zenon DEF EnrollInv, EnrollTypeInv, Requests
<1>2. /\ b \in TokenRecords
      /\ token[t0].state = "consumed" => b = token[t0]
      /\ b.state = "consumed" => token[t0].state = "consumed"
  <2>1. CASE ~Usable(t0)
    BY <1>1, <2>1 DEF Begun
  <2>2. CASE Usable(t0) /\ ~SameTranscript(t0, m.run)
    <3>1. PICK n \in Nat : Mismatched(t0, m.run) = [token[t0] EXCEPT !.mismatches = n]
      <4>1. token[t0].mismatches \in Nat /\ token[t0].mismatches + 1 \in Nat
        BY <1>1 DEF TokenRecords
      <4>2. CASE RateAllows(t0)
        BY <4>1, <4>2 DEF Mismatched
      <4>3. CASE ~RateAllows(t0)
        BY <4>1, <4>3 DEF Mismatched
      <4> QED
        BY <4>2, <4>3
    <3>2. b = [token[t0] EXCEPT !.mismatches = n]
      BY <3>1, <2>2, Zenon DEF Begun
    <3> QED
      BY <1>1, <2>2, <3>2 DEF TokenRecords, Usable
  <2>3. CASE Usable(t0) /\ SameTranscript(t0, m.run)
    BY <1>1, <2>3, Zenon DEF Begun, Usable, TokenRecords
  <2> QED
    BY <2>1, <2>2, <2>3
<1>3. token' = [token EXCEPT ![t0] = b]
  BY DEF TokenBegun
<1> HIDE DEF b, t0
<1> QED
  BY <1>1, <1>2, <1>3

(* The requests that change at most a session and a token that is not      *)
(* spent: refusals, and a first message.                                   *)
LEMMA StepRefused ==
    ASSUME EnrollInv, NEW m \in requests, requests' = requests \ {m},
           Refused(m) \/ RefuseBegin(m)
    PROVE  EnrollInv'
<1>1. m \in Requests
  BY DEF EnrollInv, EnrollTypeInv
<1>2. /\ Answer(m, "error", 0) /\ UNCHANGED <<hosts, completed, session, nonces, uses>>
      /\ token' = token \/ TokenBegun(m)
  BY DEF Refused, RefuseBegin, bucket
<1>3. /\ token' \in [Tokens -> TokenRecords]
      /\ \A t \in Tokens : /\ token[t].state = "consumed" => token'[t] = token[t]
                           /\ token'[t].state = "consumed" => token[t].state = "consumed"
  BY <1>1, <1>2, TokenBegunEffect DEF EnrollInv, EnrollTypeInv
<1>4. Kept
  BY <1>1, <1>2, AnswerEffect, Zenon
<1>5. TableInv'
  BY <1>2, <1>3, <1>4, TableKept DEF EnrollInv, TableInv, Settled
<1>6. ToldInv'
  BY <1>1, <1>2, ToldTrue
<1>7. EnrollTypeInv'
  BY <1>2, <1>3, <1>4, Zenon DEF EnrollInv, EnrollTypeInv, Kept, uses
<1> QED
  BY <1>4, <1>5, <1>6, <1>7, RequestsKept DEF EnrollInv

LEMMA StepBegin ==
    ASSUME EnrollInv, NEW m \in requests, Begin(m)
    PROVE  EnrollInv'
<1>1. m \in Requests /\ m.run \in Runs
  BY DEF EnrollInv, EnrollTypeInv, Requests
<1>2. /\ Answer(m, "ok", nonces') /\ UNCHANGED <<hosts, completed, uses>> /\ TokenBegun(m)
      /\ m.operation = "begin" /\ requests' = requests \ {m}
      /\ nonces' = nonces + 1 /\ nonces' \in Nat /\ nonces' # 0
      /\ session' = [session EXCEPT ![m.run] = nonces']
      /\ Usable(TokenOf[m.run])
  BY DEF Begin, Handles, Accepts, EnrollInv, EnrollTypeInv
<1>3. /\ token' \in [Tokens -> TokenRecords]
      /\ \A t \in Tokens : /\ token[t].state = "consumed" => token'[t] = token[t]
                           /\ token'[t].state = "consumed" => token[t].state = "consumed"
  BY <1>1, <1>2, TokenBegunEffect
<1>4. Kept
  BY <1>1, <1>2, AnswerEffect, Zenon
<1>5. \A x \in hosts : session'[x.run] = 0
  BY <1>1, <1>2, ZenonT(30) DEF EnrollInv, EnrollTypeInv, TableInv, Settled, Usable, HostRecords
<1>6. TableInv'
  BY <1>2, <1>3, <1>4, <1>5, TableKept
<1>7. ToldInv'
  BY <1>1, <1>2, ToldTrue, ZenonT(30)
<1>8. EnrollTypeInv'
  BY <1>1, <1>2, <1>3, <1>4, ZenonT(30) DEF EnrollInv, EnrollTypeInv, Kept, uses
<1> QED
  BY <1>2, <1>4, <1>6, <1>7, <1>8, RequestsKept, Zenon DEF EnrollInv

(* A run whose host is in the table is answered from the completed bucket. *)
LEMMA StepAgain ==
    ASSUME EnrollInv, NEW m \in requests, CompleteAgain(m)
    PROVE  EnrollInv'
<1>1. m \in Requests /\ m.run \in Runs /\ m.nonce \in Nat
  BY DEF EnrollInv, EnrollTypeInv, Requests
<1>2. /\ UNCHANGED <<hosts, completed, session, nonces, token, uses>>
      /\ m.operation = "complete" /\ requests' = requests \ {m}
  BY DEF CompleteAgain, Handles, bucket
<1>3. CASE completed[m.run] # m.nonce
  <2>1. Refused(m)
    BY <1>3 DEF CompleteAgain, Refused
  <2> QED
    BY <1>2, <2>1, StepRefused
<1>4. CASE completed[m.run] = m.nonce
  <2>1. Answer(m, "ok", m.nonce)
    BY <1>4 DEF CompleteAgain
  <2>2. m.nonce # 0
    BY <1>2 DEF EnrollInv, RequestInv
  <2>3. InTable(m.run, m.nonce)
    BY <1>1, <1>4, <2>2 DEF EnrollInv, TableInv
  <2>4. InTable(m.run, m.nonce)'
    BY <1>2, <2>3 DEF InTable
  <2>5. Kept
    BY <1>1, <2>1, AnswerEffect, Zenon
  <2>6. TableInv'
    BY <1>2, <2>5, TableKept DEF EnrollInv, TableInv, Settled
  <2>7. ToldInv'
    BY <1>1, <1>2, <2>1, <2>4, ToldTrue, ZenonT(30)
  <2>8. EnrollTypeInv'
    BY <1>2, <2>5 DEF EnrollInv, EnrollTypeInv, Kept, uses
  <2> QED
    BY <1>2, <2>5, <2>6, <2>7, <2>8, RequestsKept, ZenonT(30) DEF EnrollInv
<1> QED
  BY <1>3, <1>4

(* The completion: the new host is settled, and no host had its token or   *)
(* its identity before.                                                    *)
LEMMA StepComplete ==
    ASSUME EnrollInv, NEW m \in requests, Complete(m)
    PROVE  EnrollInv'
<1> DEFINE r == m.run
<1>0. PICK t \in Tokens : t = TokenOf[r]
  BY DEF EnrollInv, EnrollTypeInv, Requests
<1>1. m \in Requests /\ r \in Runs /\ session[r] \in Nat /\ HostOf[r] \in Hosts
  BY DEF EnrollInv, EnrollTypeInv, Requests
<1>2. /\ Answer(m, "ok", session[r]) /\ UNCHANGED <<nonces, uses>>
      /\ m.operation = "complete" /\ requests' = requests \ {m}
      /\ m.nonce = session[r]
      /\ token[t].state = "pending" /\ token[t].transcript = r
      /\ \A x \in hosts : x.host # HostOf[r]
      /\ hosts' = hosts \cup {[host |-> HostOf[r], run |-> r, token |-> t, nonce |-> session[r]]}
      /\ completed' = [completed EXCEPT ![r] = m.nonce]
      /\ token' = [token EXCEPT ![t].state = "consumed"]
      /\ session' = [session EXCEPT ![r] = 0]
  BY <1>0 DEF Complete, Handles, ProofMatches, Completable, HostExists
<1>3. PICK z \in HostRecords : /\ z.host = HostOf[r] /\ z.run = r /\ z.token = t /\ z.nonce = session[r]
                               /\ hosts' = hosts \cup {z}
  BY <1>0, <1>1, <1>2, ZenonT(30) DEF HostRecords
<1>4. Kept
  BY <1>1, <1>2, AnswerEffect
<1>5. client[r].pc \in Proved /\ client[r].nonce = session[r] /\ session[r] # 0
  BY <1>2 DEF EnrollInv, RequestInv
<1>6. /\ token' \in [Tokens -> TokenRecords]
      /\ token'[t].state = "consumed" /\ token'[t].transcript = r
      /\ \A s \in Tokens \ {t} : token'[s] = token[s]
  <2>1. token \in [Tokens -> TokenRecords] /\ token[t] \in TokenRecords
    BY <1>1 DEF EnrollInv, EnrollTypeInv
  <2>2. [token[t] EXCEPT !.state = "consumed"] \in TokenRecords
    BY <2>1 DEF TokenRecords
  <2> QED
    BY <1>1, <1>2, <2>1, <2>2 DEF TokenRecords
<1>7. EnrollTypeInv'
  BY <1>1, <1>2, <1>3, <1>4, <1>6, ZenonT(30) DEF EnrollInv, EnrollTypeInv, Kept, uses
<1>8. ASSUME NEW x \in hosts
      PROVE  x.token # t /\ x.host # z.host /\ x.run # r /\ Settled(x) /\ x.run \in Runs /\ x.token \in Tokens
  <2>1. Settled(x) /\ x \in HostRecords
    BY DEF EnrollInv, EnrollTypeInv, TableInv
  <2>2. x.token # t
    BY <1>2, <2>1 DEF Settled
  <2>3. x.run # r
    BY <1>0, <2>1, <2>2 DEF Settled
  <2> QED
    BY <1>2, <1>3, <2>1, <2>2, <2>3 DEF HostRecords
<1>9. ASSUME NEW x \in hosts PROVE Settled(x)'
  <2>1. /\ token'[x.token] = token[x.token] /\ session'[x.run] = session[x.run]
        /\ completed'[x.run] = completed[x.run]
        /\ client'[x.run].pc = client[x.run].pc /\ client'[x.run].nonce = client[x.run].nonce
    BY <1>1, <1>2, <1>4, <1>6, <1>8, Zenon DEF Kept, EnrollInv, EnrollTypeInv
  <2> QED
    BY <1>2, <1>8, <2>1, ZenonT(30) DEF Settled, uses
<1>10. Settled(z)'
  <2>1. session'[r] = 0 /\ completed'[r] = session[r]
    BY <1>1, <1>2 DEF EnrollInv, EnrollTypeInv
  <2>2. client'[r].pc \in Proved /\ client'[r].nonce = session[r]
    BY <1>1, <1>4, <1>5 DEF Kept
  <2>3. TokenOf'[r] = t
    BY <1>0, <1>2, ZenonT(30) DEF uses
  <2> QED
    BY <1>3, <1>6, <2>1, <2>2, <2>3 DEF Settled
<1>11. TableInv'
  <2>1. \A x \in hosts' : Settled(x)'
    BY <1>3, <1>9, <1>10, ZenonT(30)
  <2>2. \A x, y \in hosts' : x.token = y.token \/ x.host = y.host => x = y
    BY <1>3, <1>8 DEF EnrollInv, TableInv
  <2>3. \A s \in Tokens : token'[s].state = "consumed" => \E x \in hosts' : x.token = s
    BY <1>3, <1>6 DEF EnrollInv, TableInv
  <2>4. ASSUME NEW s \in Runs, completed'[s] # 0 PROVE \E x \in hosts' : x.run = s /\ x.nonce = completed'[s]
    <3>1. CASE s = r
      BY <1>1, <1>2, <1>3, <3>1, Zenon DEF EnrollInv, EnrollTypeInv
    <3>2. CASE s # r
      <4>1. completed'[s] = completed[s]
        BY <1>2, <3>2 DEF EnrollInv, EnrollTypeInv
      <4>2. InTable(s, completed[s])
        BY <2>4, <4>1 DEF EnrollInv, TableInv
      <4> QED
        BY <1>3, <4>1, <4>2 DEF InTable
    <3> QED
      BY <3>1, <3>2
  <2> QED
    BY <2>1, <2>2, <2>3, <2>4, ZenonT(30) DEF TableInv, InTable
<1>12. ToldInv'
  <2>1. PICK n \in Nat : n = session[r]
    BY <1>1
  <2>2. InTable(m.run, n)'
    BY <1>3, <2>1 DEF InTable
  <2> QED
    BY <1>1, <1>2, <1>3, <2>1, <2>2, ToldTrue, Zenon
<1> QED
  BY <1>2, <1>4, <1>7, <1>11, <1>12, RequestsKept DEF EnrollInv

-----------------------------------------------------------------------------
(* The gateway stops or starts, a token is revoked or expires.             *)
LEMMA StepElsewhere ==
    ASSUME EnrollInv, Stop \/ Restart \/ SetClock \/ \E t \in Tokens : RevokeEnrollment(t)
    PROVE  EnrollInv'
<1>1. UNCHANGED <<hosts, completed, nonces, requests, client, uses>>
  BY DEF Stop, Restart, SetClock, RevokeEnrollment, bucket
<1>2. session' \in [Runs -> Nat] /\ \A x \in hosts : session'[x.run] = 0
  BY DEF Stop, Restart, SetClock, RevokeEnrollment, EnrollInv, EnrollTypeInv, TableInv, Settled,
         HostRecords
<1>3. /\ token' \in [Tokens -> TokenRecords]
      /\ \A t \in Tokens : /\ token[t].state = "consumed" => token'[t] = token[t]
                           /\ token'[t].state = "consumed" => token[t].state = "consumed"
  <2>1. CASE UNCHANGED token
    BY <2>1 DEF EnrollInv, EnrollTypeInv
  <2>2. ASSUME NEW s \in Tokens, RevokeEnrollment(s)
        PROVE  /\ token' \in [Tokens -> TokenRecords]
               /\ \A t \in Tokens : /\ token[t].state = "consumed" => token'[t] = token[t]
                                    /\ token'[t].state = "consumed" => token[t].state = "consumed"
    <3>1. token[s] \in TokenRecords /\ token \in [Tokens -> TokenRecords]
      BY DEF EnrollInv, EnrollTypeInv
    <3>2. token[s].state # "consumed" /\ token' = [token EXCEPT ![s].state = "revoked"]
      BY <2>2 DEF RevokeEnrollment
    <3>3. [token[s] EXCEPT !.state = "revoked"] \in TokenRecords
      BY <3>1 DEF TokenRecords
    <3> QED
      BY <3>1, <3>2, <3>3 DEF TokenRecords
  <2> QED
    BY <2>1, <2>2 DEF Stop, Restart, SetClock, bucket
<1>4. Kept
  BY <1>1, Zenon DEF Kept, EnrollInv, EnrollTypeInv
<1>5. TableInv'
  BY <1>1, <1>2, <1>3, <1>4, TableKept, Zenon
<1>6. ToldInv'
  BY <1>1 DEF EnrollInv, ToldInv, InTable
<1>7. EnrollTypeInv'
  BY <1>1, <1>2, <1>3 DEF EnrollInv, EnrollTypeInv, uses
<1> QED
  BY <1>1, <1>4, <1>5, <1>6, <1>7, RequestsKept DEF EnrollInv

(* The inductive invariant of enrolment.                                   *)
THEOREM EnrollInvariance == Spec => []EnrollInv
<1>1. ASSUME EnrollInv, Next PROVE EnrollInv'
  <2>1. CASE \E r \in Runs : ClientStep(r)
    BY <1>1, <2>1, StepClient
  <2>2. ASSUME NEW m \in requests, Handle(m) PROVE EnrollInv'
    <3>1. CASE \/ RefuseInit(m) \/ RefuseActivation(m) \/ RefuseBegin(m) \/ RefuseProof(m)
               \/ RefuseCertification(m) \/ NotCommitted(m)
      <4>1. requests' = requests \ {m} /\ (Refused(m) \/ RefuseBegin(m))
        BY <3>1 DEF RefuseInit, RefuseActivation, RefuseBegin, RefuseProof, RefuseCertification,
                    NotCommitted, Handles
      <4> QED
        BY <1>1, <4>1, StepRefused, ZenonT(30)
    <3> QED
      BY <1>1, <2>2, <3>1, StepBegin, StepComplete, StepAgain DEF Handle
  <2> QED
    BY <1>1, <2>1, <2>2, StepElsewhere DEF Next
<1>2. EnrollInv /\ UNCHANGED vars => EnrollInv'
  <2> SUFFICES ASSUME EnrollInv, UNCHANGED vars PROVE EnrollInv'
    OBVIOUS
  <2>1. EnrollTypeInv'
    BY Zenon DEF vars, bucket, uses, EnrollInv, EnrollTypeInv
  <2>2. TableInv'
    BY ZenonT(30) DEF vars, bucket, uses, EnrollInv, TableInv, Settled, InTable
  <2>3. RequestInv' /\ ToldInv'
    BY DEF vars, bucket, uses, EnrollInv, RequestInv, ToldInv, InTable
  <2> QED
    BY <2>1, <2>2, <2>3 DEF EnrollInv
<1> QED
  BY InitEnroll, <1>1, <1>2, PTL DEF Spec

(* One token enrols one host through the transcript it was first used      *)
(* with, and no identity is enrolled twice.                                *)
THEOREM TokenBuysOneHostAlways == Spec => []TokenBuysOneHost
<1>1. EnrollInv => TokenBuysOneHost
  BY Zenon DEF EnrollInv, TableInv, Settled, TokenBuysOneHost
<1> QED
  BY <1>1, EnrollInvariance, PTL

(* Client and gateway agree on who is enrolled, and by which proof.        *)
THEOREM ClientAgreesAlways == Spec => []ClientAgrees
<1>1. EnrollInv => ClientAgrees
  BY ZenonT(30) DEF EnrollInv, TableInv, Settled, ToldInv, InTable, Proved, ClientAgrees
<1> QED
  BY <1>1, EnrollInvariance, PTL

(* A completed enrolment can always be answered again.                     *)
THEOREM CompletedIsAnswerableAlways == Spec => []CompletedIsAnswerable
<1>1. EnrollInv => CompletedIsAnswerable
  BY DEF EnrollInv, TableInv, Settled, CompletedIsAnswerable
<1> QED
  BY <1>1, EnrollInvariance, PTL

-----------------------------------------------------------------------------
(***************************************************************************)
(* The identity a host enrols with, for any number of TPM slots, seeds and *)
(* identities.  The invariant says which objects a call has loaded at each *)
(* of its steps, and that a call which writes a record has nothing to      *)
(* destroy: a creation on the TPM has given the stored identity up, and    *)
(* one in software has found the variable absent.                          *)
(***************************************************************************)
(* The steps of a call, by what it has loaded by then.                     *)
Unloaded == {"read", "context", "ek", "srk"}
Keeping == {"write", "read_back", "expose"}
Using == {"public", "activate", "used_ek"}
Ending == {"final_identity", "final_ak"}
TpmSteps == Unloaded \cup {"flush_ek", "ak", "identity", "flush_srk", "drop_srk"} \cup Keeping \cup Ending
SoftwareSteps == {"read", "check", "generate", "write", "read_back", "remove", "expose"}

Tpms == [ek : Nat, srk : Nat, loaded : SUBSET {"ek", "srk", "ak", "identity"}, leaked : Nat]
Records == [id : Nat, ek : Nat, srk : Nat]
Calls == [kind : {"none", "tpm", "software"}, mode : {"none", "create", "open", "interactive"},
          step : {"none"} \cup TpmSteps \cup SoftwareSteps \cup Using, record : Records]
HandleRecords == [kind : {"none", "tpm", "software"}, id : Nat]

IdentityTypes ==
  /\ tpm \in Tpms /\ call \in Calls /\ store \in [Kinds -> Records] /\ kept \in [Kinds -> Nat]
  /\ next \in Nat /\ opened \in HandleRecords

CallInv ==
  /\ call.kind = "none" => call = NoCall
  /\ call.kind = "software" => call.step \in SoftwareSteps /\ opened = NotOpened
  /\ call.kind = "tpm" => (call.step \in TpmSteps /\ opened = NotOpened) \/ (call.step \in Using /\ opened.kind = "tpm")
  /\ opened.kind = "none" => opened = NotOpened

(* What a TPM call has loaded at each of its steps.                        *)
LoadedAt(step, loaded) ==
  /\ step \in Unloaded => loaded = {}
  /\ step = "flush_ek" => loaded = {"ek"}
  /\ step = "ak" => loaded = {"srk"}
  /\ step = "identity" => loaded = {"srk", "ak"}
  /\ step = "flush_srk" => loaded = {"srk", "ak", "identity"}
  /\ step = "drop_srk" => loaded \in SUBSET {"srk", "ak", "identity"}
  /\ step \in Keeping \cup {"public", "activate"} => loaded = {"ak", "identity"}
  /\ step = "used_ek" => loaded = {"ek", "ak", "identity"}
  /\ step = "final_identity" => loaded \in SUBSET {"ak", "identity"}
  /\ step = "final_ak" => loaded \in SUBSET {"ak"}

Resting == IF opened.kind = "tpm" THEN {"ak", "identity"} ELSE {}

LoadedInv == IF call.kind = "tpm" THEN LoadedAt(call.step, tpm.loaded) ELSE tpm.loaded = Resting

(* Which record a call is about; and a creation has given up what was      *)
(* stored, or found nothing.                                               *)
RecordInv ==
  /\ call.kind = "tpm" /\ call.mode = "create" => kept["tpm"] = 0
  /\ call.kind = "software" /\ call.step \in {"generate", "write", "read_back", "remove"} => kept["software"] = 0
  /\ call.kind = "tpm" /\ call.step \in {"write", "read_back"} => call.mode = "create"
  /\ call.kind = "tpm" /\ call.mode # "create" /\ call.step \in TpmSteps \ ({"read"} \cup Ending) => call.record = store["tpm"]
  /\ call.kind # "none" /\ call.step = "expose" => call.record = store[call.kind]

IdentityInv == IdentityTypes /\ CallInv /\ LoadedInv /\ RecordInv /\ IdentityKept

-----------------------------------------------------------------------------
(* The TPM's commands.                                                     *)
LEMMA LoadFacts ==
  ASSUME tpm \in Tpms, NEW object \in {"ek", "srk", "ak", "identity"}, Load(object)
  PROVE  tpm' \in Tpms /\ tpm'.loaded = tpm.loaded \cup {object}
BY DEF Load, Tpms

LEMMA LoadFailsFacts ==
  ASSUME tpm \in Tpms, LoadFails
  PROVE  tpm' \in Tpms /\ tpm'.loaded = tpm.loaded
<1>1. CASE UNCHANGED tpm
  BY <1>1
<1>2. CASE tpm' = [tpm EXCEPT !.leaked = @ + 1]
  BY <1>2 DEF Tpms
<1> QED
  BY <1>1, <1>2 DEF LoadFails

LEMMA FlushFacts ==
  ASSUME tpm \in Tpms, NEW object \in {"ek", "srk", "ak", "identity"}, Flush(object)
  PROVE  tpm' \in Tpms /\ tpm'.loaded = tpm.loaded \ {object}
<1>1. CASE tpm' = [tpm EXCEPT !.loaded = @ \ {object}]
  BY <1>1 DEF Tpms
<1>2. CASE tpm' = [tpm EXCEPT !.loaded = @ \ {object}, !.leaked = @ + 1]
  <2>1. PICK n \in Nat : n = tpm.leaked + 1
    BY DEF Tpms
  <2>2. PICK l \in SUBSET {"ek", "srk", "ak", "identity"} : l = tpm.loaded \ {object}
    BY Zenon DEF Tpms
  <2>3. tpm' = [tpm EXCEPT !.loaded = l, !.leaked = n]
    BY <1>2, <2>1, <2>2
  <2> QED
    BY <2>2, <2>3, Zenon DEF Tpms
<1> QED
  BY <1>1, <1>2 DEF Flush

LEMMA StepFacts ==
  ASSUME call \in Calls, NEW s \in {"none"} \cup TpmSteps \cup SoftwareSteps \cup Using, Step(s)
  PROVE  /\ call' \in Calls /\ call'.step = s /\ call'.kind = call.kind /\ call'.mode = call.mode
         /\ call'.record = call.record
BY DEF Calls, Step

LEMMA NoCallFacts ==
  /\ NoCall \in Calls /\ NoCall.kind = "none" /\ NoCall.step = "none"
  /\ NoRecord \in Records /\ NoRecord.id = 0 /\ Damaged \in Records /\ NotOpened \in HandleRecords /\ NotOpened.kind = "none"
BY DEF NoCall, NoRecord, Damaged, NotOpened, Calls, Records, HandleRecords

(* A step of a TPM call that leaves the stores alone.                      *)
LEMMA TpmStepKeeps ==
  ASSUME IdentityInv, call.kind = "tpm", call.step \in TpmSteps, NEW s \in TpmSteps, Step(s),
         tpm' \in Tpms, LoadedAt(s, tpm'.loaded), UNCHANGED <<store, opened, next, kept>>,
         s \in {"write", "read_back"} => call.mode = "create",
         call.mode # "create" => call.step \notin {"read"} \cup Ending \/ s \in {"read"} \cup Ending,
         s = "expose" => call.record = store["tpm"]
  PROVE  IdentityInv'
<1>1. /\ call' \in Calls /\ call'.step = s /\ call'.kind = "tpm" /\ call'.mode = call.mode
      /\ call'.record = call.record
  BY StepFacts, Zenon DEF IdentityInv, IdentityTypes
<1>2. opened = NotOpened
  <2>1. call.step \notin Using
    BY DEF TpmSteps, Using, Unloaded, Keeping, Ending
  <2> QED
    BY <2>1 DEF IdentityInv, CallInv
<1>3. IdentityTypes' /\ CallInv'
  BY <1>1, <1>2, ZenonT(30) DEF IdentityInv, IdentityTypes, CallInv
<1>4. LoadedInv'
  BY <1>1, Zenon DEF LoadedInv
<1>5. RecordInv'
  BY <1>1, Zenon DEF IdentityInv, RecordInv
<1>6. IdentityKept'
  BY DEF IdentityInv, IdentityKept
<1> QED
  BY <1>3, <1>4, <1>5, <1>6, ZenonT(30) DEF IdentityInv

(* A call that ends without having opened anything.                        *)
LEMMA EndKeeps ==
  ASSUME IdentityInv, End, tpm' \in Tpms, tpm'.loaded = Resting, UNCHANGED <<store, opened, next, kept>>
  PROVE  IdentityInv'
<1>1. call' \in Calls /\ call'.kind = "none" /\ call' = NoCall /\ call'.step = "none"
  BY NoCallFacts DEF End
<1>2. IdentityTypes' /\ CallInv'
  BY <1>1 DEF IdentityInv, IdentityTypes, CallInv
<1>3. LoadedInv'
  BY <1>1, ZenonT(30) DEF LoadedInv, Resting
<1>4. RecordInv' /\ IdentityKept'
  BY <1>1, ZenonT(30) DEF IdentityInv, RecordInv, IdentityKept
<1> QED
  BY <1>2, <1>3, <1>4 DEF IdentityInv

(* A step of a software call.                                              *)
LEMMA SoftwareStepKeeps ==
  ASSUME IdentityInv, call.kind = "software", NEW s \in SoftwareSteps, Step(s), UNCHANGED <<tpm, store, opened, next, kept>>,
         s \in {"generate", "write", "read_back", "remove"} => kept["software"] = 0,
         s = "expose" => call.record = store["software"]
  PROVE  IdentityInv'
<1>1. /\ call' \in Calls /\ call'.step = s /\ call'.kind = "software" /\ call'.mode = call.mode
      /\ call'.record = call.record
  BY StepFacts, ZenonT(30) DEF IdentityInv, IdentityTypes
<1>2. IdentityTypes' /\ CallInv'
  BY <1>1 DEF IdentityInv, IdentityTypes, CallInv
<1>3. LoadedInv'
  BY <1>1 DEF IdentityInv, LoadedInv, Resting
<1>4. RecordInv' /\ IdentityKept'
  BY <1>1 DEF IdentityInv, RecordInv, IdentityKept
<1> QED
  BY <1>2, <1>3, <1>4, ZenonT(30) DEF IdentityInv

-----------------------------------------------------------------------------
(* Calls on the TPM identity.                                              *)
LEMMA TpmBegins ==
  ASSUME IdentityInv, TpmRead \/ TpmReadFails \/ Context \/ ContextFails \/ RefuseTpm
  PROVE  IdentityInv'
<1>1. /\ call.kind = "tpm" /\ UNCHANGED <<store, tpm, opened, next, kept>>
      /\ call.step \in {"read", "context", "ek"} /\ call.step \in TpmSteps /\ call.step \in Unloaded
  BY Zenon DEF TpmRead, TpmReadFails, Context, ContextFails, RefuseTpm, At, TpmSteps, Unloaded
<1>2. opened = NotOpened /\ tpm \in Tpms /\ tpm.loaded = {}
  <2>1. call.step \notin Using
    BY <1>1, Zenon DEF Using
  <2> QED
    BY <1>1, <2>1 DEF IdentityInv, IdentityTypes, CallInv, LoadedInv, LoadedAt
<1>3. CASE End
  BY <1>1, <1>2, <1>3, EndKeeps, NoCallFacts, ZenonT(30) DEF Resting
<1>4. CASE Context
  <2>1. Step("ek") /\ "ek" \in TpmSteps /\ LoadedAt("ek", {}) /\ call.step = "context"
    BY <1>4, ZenonT(30) DEF Context, At, TpmSteps, Unloaded, LoadedAt, Keeping
  <2> QED
    BY <1>1, <1>2, <2>1, TpmStepKeeps, ZenonT(30) DEF Ending
<1>5. CASE RefuseTpm
  <2>1. Step("final_identity") /\ "final_identity" \in TpmSteps /\ LoadedAt("final_identity", {}) /\ "final_identity" \in Ending
    BY <1>5, ZenonT(30) DEF RefuseTpm, Final, TpmSteps, Unloaded, LoadedAt, Keeping, Ending
  <2> QED
    BY <1>1, <1>2, <2>1, TpmStepKeeps, ZenonT(30)
<1>6. CASE TpmRead /\ ~ End
  <2>1. \/ call' = [call EXCEPT !.step = "context", !.record = store["tpm"]]
        \/ call' = [call EXCEPT !.step = "context", !.mode = "create"] /\ Absent(store["tpm"])
    BY <1>6 DEF TpmRead
  <2>2. call \in Calls /\ store["tpm"] \in Records /\ kept["tpm"] \in Nat
    BY DEF IdentityInv, IdentityTypes, Kinds
  <2>3. /\ call' \in Calls /\ call'.kind = "tpm" /\ call'.step = "context"
        /\ call'.mode = "create" => (call.mode = "create" \/ Absent(store["tpm"]))
        /\ call'.mode # "create" => call'.record = store["tpm"]
    <3>1. "context" \in TpmSteps
      BY DEF TpmSteps, Unloaded
    <3>2. CASE call' = [call EXCEPT !.step = "context", !.record = store["tpm"]]
      BY <1>1, <2>2, <3>1, <3>2, ZenonT(30) DEF Calls
    <3>3. CASE call' = [call EXCEPT !.step = "context", !.mode = "create"] /\ Absent(store["tpm"])
      BY <1>1, <2>2, <3>1, <3>3, ZenonT(30) DEF Calls
    <3> QED
      BY <2>1, <3>2, <3>3
  <2>4. IdentityTypes' /\ CallInv'
    BY <1>1, <1>2, <2>3, ZenonT(30) DEF IdentityInv, IdentityTypes, CallInv, TpmSteps, Unloaded
  <2>5. LoadedInv'
    BY <1>1, <1>2, <2>3 DEF LoadedInv, LoadedAt, Keeping
  <2>6. Absent(store["tpm"]) => kept["tpm"] = 0
    BY NoCallFacts, Zenon DEF Absent, IdentityInv, IdentityKept, Kinds
  <2>7. RecordInv'
    BY <1>1, <2>3, <2>6 DEF IdentityInv, RecordInv
  <2> QED
    BY <1>1, <2>4, <2>5, <2>7 DEF IdentityInv, IdentityKept
<1> QED
  BY <1>3, <1>4, <1>5, <1>6 DEF TpmReadFails, ContextFails

LEMMA TpmLoads ==
  ASSUME IdentityInv, CreateEk \/ CreateSrk \/ LoadAk
  PROVE  IdentityInv'
<1>1. /\ call.kind = "tpm" /\ UNCHANGED <<store, opened, next, kept>> /\ tpm \in Tpms /\ LoadedAt(call.step, tpm.loaded)
      /\ call.step \in {"ek", "srk", "ak"} /\ call.step \in TpmSteps /\ call.step \notin {"read"} \cup Ending
  BY DEF CreateEk, CreateSrk, LoadAk, At, TpmSteps, Unloaded, Ending, IdentityInv, IdentityTypes, LoadedInv
<1>2. CASE CreateEk
  <2>1. tpm.loaded = {}
    BY <1>1, <1>2, ZenonT(30) DEF CreateEk, At, LoadedAt, Unloaded
  <2>2. CASE Load("ek") /\ Step("flush_ek")
    <3>1. tpm' \in Tpms /\ tpm'.loaded = {"ek"}
      BY <1>1, <2>1, <2>2, LoadFacts
    <3>2. LoadedAt("flush_ek", {"ek"}) /\ "flush_ek" \in TpmSteps
      BY Zenon DEF LoadedAt, Unloaded, Keeping, TpmSteps
    <3> QED
      BY <1>1, <2>2, <3>1, <3>2, TpmStepKeeps, ZenonT(30)
  <2>3. CASE LoadFails /\ Final
    <3>1. tpm' \in Tpms /\ tpm'.loaded = {}
      BY <1>1, <2>1, <2>3, LoadFailsFacts
    <3>2. LoadedAt("final_identity", {}) /\ "final_identity" \in TpmSteps /\ "final_identity" \in Ending
      BY DEF LoadedAt, Unloaded, Keeping, TpmSteps, Ending
    <3> QED
      BY <1>1, <2>3, <3>1, <3>2, TpmStepKeeps, ZenonT(30) DEF Final
  <2> QED
    BY <1>2, <2>2, <2>3, ZenonT(30) DEF CreateEk
<1>3. CASE CreateSrk
  <2>1. tpm.loaded = {}
    BY <1>1, <1>3, ZenonT(30) DEF CreateSrk, At, LoadedAt, Unloaded
  <2>2. CASE Load("srk") /\ (Step("ak") \/ Step("drop_srk"))
    <3>1. tpm' \in Tpms /\ tpm'.loaded = {"srk"}
      BY <1>1, <2>1, <2>2, LoadFacts, ZenonT(30)
    <3>2. LoadedAt("ak", {"srk"}) /\ LoadedAt("drop_srk", {"srk"}) /\ "ak" \in TpmSteps /\ "drop_srk" \in TpmSteps
      BY ZenonT(30) DEF LoadedAt, Unloaded, Keeping, TpmSteps
    <3> QED
      BY <1>1, <2>2, <3>1, <3>2, TpmStepKeeps, ZenonT(30)
  <2>3. CASE LoadFails /\ Final
    <3>1. tpm' \in Tpms /\ tpm'.loaded = {}
      BY <1>1, <2>1, <2>3, LoadFailsFacts
    <3>2. LoadedAt("final_identity", {}) /\ "final_identity" \in TpmSteps /\ "final_identity" \in Ending
      BY DEF LoadedAt, Unloaded, Keeping, TpmSteps, Ending
    <3> QED
      BY <1>1, <2>3, <3>1, <3>2, TpmStepKeeps, Zenon DEF Final
  <2> QED
    BY <1>3, <2>2, <2>3, ZenonT(30) DEF CreateSrk
<1>4. CASE LoadAk
  <2>1. tpm.loaded = {"srk"}
    BY <1>1, <1>4, ZenonT(30) DEF LoadAk, At, LoadedAt
  <2>2. CASE Load("ak") /\ (Step("identity") \/ Step("drop_srk"))
    <3>1. tpm' \in Tpms /\ tpm'.loaded = {"srk", "ak"}
      BY <1>1, <2>1, <2>2, LoadFacts, ZenonT(30)
    <3>2. /\ LoadedAt("identity", {"srk", "ak"}) /\ LoadedAt("drop_srk", {"srk", "ak"})
          /\ "identity" \in TpmSteps /\ "drop_srk" \in TpmSteps
      BY Zenon DEF LoadedAt, Unloaded, Keeping, TpmSteps
    <3> QED
      BY <1>1, <2>2, <3>1, <3>2, TpmStepKeeps, ZenonT(30)
  <2>3. CASE LoadFails /\ Step("drop_srk")
    <3>1. tpm' \in Tpms /\ tpm'.loaded = {"srk"}
      BY <1>1, <2>1, <2>3, LoadFailsFacts
    <3>2. LoadedAt("drop_srk", {"srk"}) /\ "drop_srk" \in TpmSteps
      BY DEF LoadedAt, Unloaded, Keeping, TpmSteps
    <3> QED
      BY <1>1, <2>3, <3>1, <3>2, TpmStepKeeps, ZenonT(30)
  <2> QED
    BY <1>4, <2>2, <2>3, ZenonT(30) DEF LoadAk
<1> QED
  BY <1>2, <1>3, <1>4, ZenonT(30)

LEMMA LoadIdentityKeeps ==
  ASSUME IdentityInv, LoadIdentity
  PROVE  IdentityInv'
<1>1. /\ call.kind = "tpm" /\ UNCHANGED <<store, opened, kept>> /\ tpm \in Tpms /\ tpm.loaded = {"srk", "ak"}
      /\ call.step = "identity" /\ call.step \in TpmSteps /\ call.step \notin {"read"} \cup Ending
  BY DEF LoadIdentity, At, TpmSteps, Ending, IdentityInv, IdentityTypes, LoadedInv, LoadedAt
<1>2. CASE LoadFails /\ Step("drop_srk") /\ UNCHANGED next
  <2>1. tpm' \in Tpms /\ tpm'.loaded = {"srk", "ak"}
    BY <1>1, <1>2, LoadFailsFacts
  <2>2. LoadedAt("drop_srk", {"srk", "ak"}) /\ "drop_srk" \in TpmSteps
    BY DEF LoadedAt, Unloaded, Keeping, TpmSteps
  <2> QED
    BY <1>1, <1>2, <2>1, <2>2, TpmStepKeeps, ZenonT(30)
<1>3. CASE Load("identity")
  <2>1. tpm' \in Tpms /\ tpm'.loaded = {"srk", "ak", "identity"}
    BY <1>1, <1>3, LoadFacts
  <2>2. /\ LoadedAt("flush_srk", {"srk", "ak", "identity"}) /\ LoadedAt("drop_srk", {"srk", "ak", "identity"})
        /\ "flush_srk" \in TpmSteps /\ "drop_srk" \in TpmSteps
    BY DEF LoadedAt, Unloaded, Keeping, TpmSteps
  <2>3. CASE (Step("flush_srk") \/ Step("drop_srk")) /\ UNCHANGED next
    BY <1>1, <2>1, <2>2, <2>3, TpmStepKeeps
  <2>4. CASE /\ call.mode = "create" /\ next' = next + 1
             /\ call' = [call EXCEPT !.step = "flush_srk", !.record = TpmRecord]
    <3>1. call \in Calls /\ TpmRecord \in Records /\ next' \in Nat
      BY <1>1, <2>4 DEF IdentityInv, IdentityTypes, TpmRecord, Records, Tpms
    <3>2. call' \in Calls /\ call'.kind = "tpm" /\ call'.step = "flush_srk" /\ call'.mode = "create"
      BY <1>1, <2>2, <2>4, <3>1, Zenon DEF Calls
    <3>3. "flush_srk" \notin Using
      BY DEF Using
    <3>4. IdentityTypes' /\ CallInv'
      <4>1. opened = NotOpened
        BY <1>1, SMTT(30) DEF IdentityInv, CallInv, Using
      <4> QED
        BY <1>1, <2>1, <2>2, <3>1, <3>2, <4>1, SMTT(30) DEF IdentityInv, IdentityTypes, CallInv
    <3>5. LoadedInv'
      BY <2>1, <2>2, <3>2 DEF LoadedInv
    <3>6. RecordInv' /\ IdentityKept'
      BY <1>1, <2>4, <3>2 DEF IdentityInv, RecordInv, IdentityKept
    <3> QED
      BY <3>4, <3>5, <3>6 DEF IdentityInv
  <2> QED
    BY <1>3, <2>3, <2>4 DEF LoadIdentity, Load, LoadFails
<1> QED
  BY <1>2, <1>3 DEF LoadIdentity

LEMMA TpmFlushes ==
  ASSUME IdentityInv, FlushEk \/ FlushSrk \/ FinalIdentity
  PROVE  IdentityInv'
<1>1. /\ UNCHANGED <<store, opened, next, kept>> /\ tpm \in Tpms
      /\ call.step \in {"flush_ek", "flush_srk", "drop_srk", "final_identity"}
  BY DEF FlushEk, FlushSrk, FinalIdentity, At, IdentityInv, IdentityTypes
<1>2. call.kind = "tpm" /\ call.step \in TpmSteps /\ LoadedAt(call.step, tpm.loaded)
  <2>1. call.step \notin SoftwareSteps /\ call.step \in TpmSteps /\ call.step # "none"
    BY <1>1 DEF SoftwareSteps, TpmSteps, Ending
  <2>2. call.kind \in {"none", "tpm", "software"}
    BY DEF IdentityInv, IdentityTypes, Calls
  <2> QED
    BY <2>1, <2>2, NoCallFacts DEF IdentityInv, CallInv, LoadedInv
<1>3. /\ "final_identity" \in TpmSteps /\ "final_identity" \in Ending /\ "srk" \in TpmSteps /\ "write" \in TpmSteps
      /\ "expose" \in TpmSteps /\ "final_ak" \in TpmSteps /\ "final_ak" \in Ending
  BY Zenon DEF TpmSteps, Ending, Keeping, Unloaded
<1>4. CASE FlushEk
  <2>1. tpm.loaded = {"ek"} /\ call.step = "flush_ek"
    BY <1>2, <1>4 DEF FlushEk, At, LoadedAt
  <2>2. tpm' \in Tpms /\ tpm'.loaded = {}
    BY <1>1, <1>4, <2>1, FlushFacts DEF FlushEk
  <2>3. LoadedAt("srk", {}) /\ LoadedAt("final_identity", {}) /\ call.step \notin {"read"} \cup Ending
    BY <2>1 DEF LoadedAt, Unloaded, Keeping, Ending
  <2>4. Step("srk") \/ Step("final_identity")
    BY <1>4 DEF FlushEk, Final
  <2> QED
    BY <1>1, <1>2, <1>3, <2>2, <2>3, <2>4, TpmStepKeeps, Zenon
<1>5. CASE FlushSrk /\ call.step = "drop_srk"
  <2>1. tpm.loaded \in SUBSET {"srk", "ak", "identity"}
    BY <1>2, <1>5 DEF LoadedAt
  <2>2. tpm' \in Tpms /\ tpm'.loaded \in SUBSET {"ak", "identity"}
    BY <1>1, <1>5, <2>1, FlushFacts, ZenonT(30) DEF FlushSrk
  <2>3. LoadedAt("final_identity", tpm'.loaded) /\ Step("final_identity")
    BY <1>5, <2>2 DEF LoadedAt, Unloaded, Keeping, FlushSrk, Final
  <2> QED
    BY <1>1, <1>2, <1>3, <2>2, <2>3, TpmStepKeeps, ZenonT(30)
<1>6. CASE FlushSrk /\ call.step = "flush_srk"
  <2>1. tpm.loaded = {"srk", "ak", "identity"}
    BY <1>2, <1>6, Zenon DEF LoadedAt
  <2>2. tpm' \in Tpms /\ tpm'.loaded = {"ak", "identity"}
    BY <1>1, <1>6, <2>1, FlushFacts, ZenonT(30) DEF FlushSrk
  <2>3. LoadedAt("write", {"ak", "identity"}) /\ LoadedAt("expose", {"ak", "identity"}) /\ call.step \notin {"read"} \cup Ending
    BY <1>6, Zenon DEF LoadedAt, Unloaded, Keeping, Ending
  <2>4. CASE call.mode = "create"
    <3>1. Step("write")
      BY <1>6, <2>4, ZenonT(30) DEF FlushSrk
    <3> QED
      BY <1>1, <1>2, <1>3, <2>2, <2>3, <2>4, <3>1, TpmStepKeeps, ZenonT(30)
  <2>5. CASE call.mode # "create"
    <3>1. Step("expose")
      BY <1>6, <2>5, Zenon DEF FlushSrk
    <3>2. call.record = store["tpm"]
      BY <1>2, <2>3, <2>5, ZenonT(30) DEF IdentityInv, RecordInv
    <3> QED
      BY <1>1, <1>2, <1>3, <2>2, <2>3, <2>5, <3>1, <3>2, TpmStepKeeps, ZenonT(30)
  <2> QED
    BY <2>4, <2>5
<1>7. CASE FinalIdentity
  <2>1. tpm.loaded \in SUBSET {"ak", "identity"} /\ call.step = "final_identity"
    BY <1>2, <1>7, Zenon DEF FinalIdentity, LoadedAt
  <2>2. tpm' \in Tpms /\ tpm'.loaded \in SUBSET {"ak"}
    BY <1>1, <1>7, <2>1, FlushFacts, ZenonT(30) DEF FinalIdentity
  <2>3. LoadedAt("final_ak", tpm'.loaded) /\ Step("final_ak")
    BY <1>7, <2>2 DEF LoadedAt, Unloaded, Keeping, FinalIdentity
  <2> QED
    BY <1>1, <1>2, <1>3, <2>2, <2>3, TpmStepKeeps, ZenonT(30)
<1> QED
  BY <1>4, <1>5, <1>6, <1>7, Zenon DEF FlushSrk

(* A write of a record, and a removal, where none is kept.                 *)
LEMMA WriteFacts ==
  ASSUME IdentityInv, NEW k \in Kinds, NEW r \in Records, store' = [store EXCEPT ![k] = r], kept[k] = 0, UNCHANGED kept
  PROVE  /\ store' \in [Kinds -> Records] /\ IdentityKept'
         /\ \A j \in Kinds : j # k => store'[j] = store[j]
<1>1. store \in [Kinds -> Records]
  BY DEF IdentityInv, IdentityTypes
<1>2. store' \in [Kinds -> Records] /\ \A j \in Kinds : j # k => store'[j] = store[j]
  BY <1>1
<1> QED
  BY <1>2 DEF IdentityInv, IdentityKept

LEMMA TpmWriteKeeps ==
  ASSUME IdentityInv, TpmWrite
  PROVE  IdentityInv'
<1>1. call.kind = "tpm" /\ call.step = "write" /\ call \in Calls /\ UNCHANGED <<tpm, opened, next, kept>>
  BY Zenon DEF TpmWrite, At, IdentityInv, IdentityTypes
<1>2. call.mode = "create" /\ kept["tpm"] = 0 /\ tpm.loaded = {"ak", "identity"} /\ opened = NotOpened
  BY <1>1, ZenonT(30) DEF IdentityInv, RecordInv, LoadedInv, LoadedAt, Keeping, CallInv, Using
<1>3. PICK ok \in BOOLEAN, r \in Records :
        store' = [store EXCEPT !["tpm"] = r] /\ IF ok THEN Step("read_back") ELSE Final
  <2>1. call.record \in Records /\ store["tpm"] \in Records
    BY <1>1 DEF Calls, IdentityInv, IdentityTypes, Kinds
  <2> QED
    BY <2>1, NoCallFacts, ZenonT(30) DEF TpmWrite, Written
<1>4. store' \in [Kinds -> Records] /\ IdentityKept'
  BY <1>1, <1>2, <1>3, WriteFacts, ZenonT(30) DEF Kinds
<1>5. PICK s \in {"read_back", "final_identity"} : Step(s)
  BY <1>3 DEF Final
<1>6. /\ s \in TpmSteps /\ LoadedAt(s, {"ak", "identity"}) /\ s # "expose"
  BY DEF TpmSteps, Keeping, Ending, LoadedAt, Unloaded
<1>7. call' \in Calls /\ call'.step = s /\ call'.kind = "tpm" /\ call'.mode = "create" /\ call'.record = call.record
  BY <1>1, <1>2, <1>5, <1>6, StepFacts, ZenonT(30)
<1>8. IdentityTypes' /\ CallInv'
  BY <1>1, <1>2, <1>4, <1>6, <1>7, ZenonT(30) DEF IdentityInv, IdentityTypes, CallInv
<1>9. LoadedInv'
  BY <1>1, <1>2, <1>6, <1>7, ZenonT(30) DEF LoadedInv
<1>10. RecordInv'
  BY <1>1, <1>2, <1>6, <1>7, ZenonT(30) DEF RecordInv
<1> QED
  BY <1>4, <1>8, <1>9, <1>10, ZenonT(30) DEF IdentityInv

LEMMA TpmConfirms ==
  ASSUME IdentityInv, TpmReadBack \/ ExposeFails
  PROVE  IdentityInv'
<1>1. /\ call.kind = "tpm" /\ call.step \in {"read_back", "expose"} /\ call \in Calls /\ UNCHANGED <<store, tpm, opened, next, kept>>
      /\ tpm \in Tpms
  BY Zenon DEF TpmReadBack, ExposeFails, At, IdentityInv, IdentityTypes
<1>2. tpm.loaded = {"ak", "identity"} /\ call.step \in TpmSteps /\ call.step \notin {"read"} \cup Ending
  BY <1>1, Zenon DEF IdentityInv, LoadedInv, LoadedAt, Keeping, TpmSteps, Ending
<1>3. /\ "expose" \in TpmSteps /\ "final_identity" \in TpmSteps /\ "final_identity" \in Ending
      /\ LoadedAt("expose", {"ak", "identity"}) /\ LoadedAt("final_identity", {"ak", "identity"})
  BY DEF TpmSteps, Keeping, Ending, LoadedAt, Unloaded
<1>4. (Step("expose") /\ call.record = store["tpm"]) \/ Step("final_identity")
  BY DEF TpmReadBack, ExposeFails, Final
<1> QED
  BY <1>1, <1>2, <1>3, <1>4, TpmStepKeeps, ZenonT(30)

LEMMA ExposeKeeps ==
  ASSUME IdentityInv, Expose
  PROVE  IdentityInv'
<1>1. /\ call.step = "expose" /\ opened' = [kind |-> call.kind, id |-> call.record.id]
      /\ kept' = [kept EXCEPT ![call.kind] = call.record.id] /\ call' = NoCall /\ UNCHANGED <<store, tpm, next>>
  BY DEF Expose, End
<1>2. PICK k \in Kinds : k = call.kind
  <2>1. call.kind # "none"
    BY <1>1, NoCallFacts, ZenonT(30) DEF IdentityInv, CallInv
  <2> QED
    BY <2>1, Zenon DEF IdentityInv, IdentityTypes, Calls, Kinds
<1>3. PICK id \in Nat : id = call.record.id /\ store[k].id = id
  <2>1. call.record \in Records /\ call.record = store[k]
    BY <1>1, <1>2, ZenonT(30) DEF IdentityInv, IdentityTypes, Calls, RecordInv, Kinds
  <2> QED
    BY <2>1, Zenon DEF Records
<1>4. opened' \in HandleRecords /\ opened'.kind = k /\ k # "none"
  BY <1>1, <1>2, <1>3, ZenonT(30) DEF HandleRecords, Kinds
<1>5. kept' \in [Kinds -> Nat] /\ kept'[k] = id /\ \A j \in Kinds : j # k => kept'[j] = kept[j]
  BY <1>1, <1>2, <1>3, ZenonT(30) DEF IdentityInv, IdentityTypes
<1>6. IdentityTypes' /\ CallInv'
  BY <1>1, <1>4, <1>5, NoCallFacts, ZenonT(30) DEF IdentityInv, IdentityTypes, CallInv
<1>7. LoadedInv'
  <2>1. k = "tpm" => tpm.loaded = {"ak", "identity"}
    BY <1>1, <1>2, ZenonT(30) DEF IdentityInv, LoadedInv, LoadedAt, Keeping
  <2>2. k # "tpm" => tpm.loaded = {}
    BY <1>1, <1>2, NoCallFacts, ZenonT(30) DEF IdentityInv, LoadedInv, CallInv, Resting, Kinds
  <2> QED
    BY <1>1, <1>4, <2>1, <2>2, NoCallFacts, ZenonT(30) DEF LoadedInv, Resting
<1>8. RecordInv'
  BY <1>1, NoCallFacts, ZenonT(30) DEF RecordInv
<1>9. IdentityKept'
  BY <1>1, <1>3, <1>5, ZenonT(30) DEF IdentityInv, IdentityKept
<1> QED
  BY <1>6, <1>7, <1>8, <1>9, ZenonT(30) DEF IdentityInv

LEMMA TpmEnds ==
  ASSUME IdentityInv, FinalAk \/ FlushUsedEk \/ UseEk
  PROVE  IdentityInv'
<1>1. UNCHANGED <<store, opened, next, kept>> /\ tpm \in Tpms /\ call \in Calls
  BY DEF FinalAk, FlushUsedEk, UseEk, IdentityInv, IdentityTypes
<1>2. call.step \in {"final_ak", "used_ek", "public", "activate"} /\ call.kind = "tpm" /\ LoadedAt(call.step, tpm.loaded)
  <2>1. call.step \in {"final_ak", "used_ek", "public", "activate"}
    BY DEF FinalAk, FlushUsedEk, UseEk
  <2>2. call.step \notin SoftwareSteps /\ call.step # "none" /\ call.kind \in {"none", "tpm", "software"}
    BY <1>1, <2>1, ZenonT(30) DEF SoftwareSteps, Calls
  <2> QED
    BY <2>1, <2>2, NoCallFacts, ZenonT(30) DEF IdentityInv, CallInv, LoadedInv
<1>3. call.step # "final_ak" => opened.kind = "tpm"
  BY <1>2, Zenon DEF IdentityInv, CallInv, TpmSteps, Unloaded, Keeping, Ending
<1>4. CASE FinalAk
  <2>1. tpm' \in Tpms /\ tpm'.loaded = {} /\ opened = NotOpened
    BY <1>1, <1>2, <1>4, FlushFacts, ZenonT(30) DEF FinalAk, LoadedAt, IdentityInv, CallInv, Using
  <2> QED
    BY <1>1, <1>4, <2>1, EndKeeps, NoCallFacts, ZenonT(30) DEF FinalAk, Resting
<1>5. CASE FlushUsedEk
  <2>1. tpm' \in Tpms /\ tpm'.loaded = {"ak", "identity"} /\ opened.kind = "tpm"
    BY <1>1, <1>2, <1>3, <1>5, FlushFacts, ZenonT(30) DEF FlushUsedEk, LoadedAt
  <2> QED
    BY <1>1, <1>5, <2>1, EndKeeps, ZenonT(30) DEF FlushUsedEk, Resting
<1>6. CASE UseEk
  <2>1. tpm.loaded = {"ak", "identity"} /\ opened.kind = "tpm"
    BY <1>2, <1>3, <1>6, ZenonT(30) DEF UseEk, LoadedAt
  <2>2. CASE LoadFails /\ End
    <3>1. tpm' \in Tpms /\ tpm'.loaded = {"ak", "identity"}
      BY <1>1, <2>1, <2>2, LoadFailsFacts, ZenonT(30)
    <3> QED
      BY <1>1, <2>1, <2>2, <3>1, EndKeeps, ZenonT(30) DEF Resting
  <2>3. CASE Load("ek") /\ Step("used_ek")
    <3>1. tpm' \in Tpms /\ tpm'.loaded = {"ek", "ak", "identity"}
      BY <1>1, <2>1, <2>3, LoadFacts, ZenonT(30)
    <3>2. "used_ek" \in Using /\ "used_ek" \notin TpmSteps /\ LoadedAt("used_ek", {"ek", "ak", "identity"})
      BY Zenon DEF Using, LoadedAt, TpmSteps, Unloaded, Keeping, Ending
    <3>3. call' \in Calls /\ call'.step = "used_ek" /\ call'.kind = "tpm" /\ call'.mode = call.mode
      BY <1>1, <1>2, <2>3, <3>2, StepFacts, ZenonT(30)
    <3>4. IdentityTypes' /\ CallInv'
      BY <1>1, <2>1, <3>1, <3>2, <3>3, ZenonT(30) DEF IdentityInv, IdentityTypes, CallInv
    <3>5. LoadedInv'
      BY <3>1, <3>2, <3>3, ZenonT(30) DEF LoadedInv
    <3>6. RecordInv' /\ IdentityKept'
      BY <1>1, <1>2, <3>2, <3>3, ZenonT(30) DEF IdentityInv, RecordInv, IdentityKept
    <3> QED
      BY <3>4, <3>5, <3>6, ZenonT(30) DEF IdentityInv
  <2> QED
    BY <1>6, <2>2, <2>3, Zenon DEF UseEk
<1> QED
  BY <1>4, <1>5, <1>6

(* The calls on an open TPM identity begin; and it is closed.              *)
LEMMA TpmCalls ==
  ASSUME IdentityInv, EnrollmentPublic \/ ActivateCredential \/ CloseTpm
  PROVE  IdentityInv'
<1>1. call = NoCall /\ opened.kind = "tpm" /\ UNCHANGED <<store, tpm, next, kept>> /\ tpm.loaded = {"ak", "identity"}
  BY NoCallFacts DEF EnrollmentPublic, ActivateCredential, CloseTpm, IdentityInv, LoadedInv, Resting
<1>2. PICK s \in {"public", "activate", "final_identity"} :
        /\ call' = [NoCall EXCEPT !.kind = "tpm", !.step = s]
        /\ opened' = IF s = "final_identity" THEN NotOpened ELSE opened
  BY Zenon DEF EnrollmentPublic, ActivateCredential, CloseTpm
<1>3. /\ s \in TpmSteps \cup Using /\ LoadedAt(s, {"ak", "identity"}) /\ s \notin {"write", "read_back", "expose"}
      /\ s = "final_identity" => s \in TpmSteps
      /\ s # "final_identity" => s \in Using
      /\ s \notin TpmSteps \ ({"read"} \cup Ending)
  BY DEF TpmSteps, Using, Keeping, Ending, LoadedAt, Unloaded
<1>4. call' = [kind |-> "tpm", mode |-> "none", step |-> s, record |-> NoRecord]
  BY <1>2, Zenon DEF NoCall
<1>5. call' \in Calls /\ call'.kind = "tpm" /\ call'.step = s /\ call'.mode = "none"
  BY <1>3, <1>4, NoCallFacts DEF Calls
<1>6. IdentityTypes' /\ CallInv'
  BY <1>1, <1>2, <1>3, <1>5, NoCallFacts, SMTT(30) DEF IdentityInv, IdentityTypes, CallInv
<1>7. LoadedInv'
  BY <1>1, <1>3, <1>5 DEF LoadedInv
<1>8. RecordInv' /\ IdentityKept'
  BY <1>1, <1>3, <1>5, ZenonT(30) DEF IdentityInv, RecordInv, IdentityKept
<1> QED
  BY <1>6, <1>7, <1>8 DEF IdentityInv

(* A program asks for an identity.                                         *)
LEMMA AskKeeps ==
  ASSUME IdentityInv, NEW k \in Kinds, NEW mode \in {"create", "open", "interactive"}, Ask(k, mode)
  PROVE  IdentityInv'
<1>1. /\ call = NoCall /\ opened = NotOpened /\ UNCHANGED <<store, tpm, opened, next>> /\ tpm.loaded = {}
  BY NoCallFacts, ZenonT(30) DEF Ask, IdentityInv, LoadedInv, Resting
<1>2. PICK s \in {"read", "context", "check"} :
        /\ call' = [kind |-> k, mode |-> mode, record |-> NoRecord, step |-> s]
        /\ s = "check" => k = "software"
        /\ s = "context" => k = "tpm" /\ mode = "create"
  BY Zenon DEF Ask, Kinds
<1>3. call' \in Calls /\ call'.kind = k /\ call'.mode = mode /\ call'.step = s
  BY <1>2, NoCallFacts, ZenonT(30) DEF Calls, Kinds, TpmSteps, SoftwareSteps, Unloaded
<1>4. kept' \in [Kinds -> Nat] /\ (\A j \in Kinds : kept'[j] \in {0, kept[j]}) /\ (k = "tpm" /\ mode = "create" => kept'["tpm"] = 0)
  <2>1. kept \in [Kinds -> Nat]
    BY Zenon DEF IdentityInv, IdentityTypes
  <2> QED
    BY <2>1 DEF Ask, Kinds
<1>5. IdentityTypes' /\ CallInv'
  <2>1. (k = "software" => s \in SoftwareSteps) /\ (k = "tpm" => s \in TpmSteps) /\ k # "none"
    BY <1>2, ZenonT(30) DEF SoftwareSteps, TpmSteps, Unloaded, Kinds
  <2> QED
    BY <1>1, <1>3, <1>4, <2>1, ZenonT(30) DEF IdentityInv, IdentityTypes, CallInv
<1>6. LoadedInv'
  <2>1. LoadedAt(s, {})
    BY Zenon DEF LoadedAt, Unloaded, Keeping
  <2> QED
    BY <1>1, <1>3, <2>1, NoCallFacts, ZenonT(30) DEF LoadedInv, Resting
<1>7. RecordInv'
  BY <1>2, <1>3, <1>4, ZenonT(30) DEF RecordInv
<1>8. IdentityKept'
  BY <1>1, <1>4 DEF IdentityInv, IdentityKept
<1> QED
  BY <1>5, <1>6, <1>7, <1>8, ZenonT(30) DEF IdentityInv

(* The software identity.                                                  *)
LEMMA SoftwareEnds ==
  ASSUME IdentityInv, call.kind = "software", End, UNCHANGED <<store, tpm, opened, next, kept>>
  PROVE  IdentityInv'
<1>1. tpm' \in Tpms /\ tpm'.loaded = Resting
  BY Zenon DEF IdentityInv, IdentityTypes, LoadedInv
<1> QED
  BY <1>1, EndKeeps

LEMMA SoftwareFinds ==
  ASSUME IdentityInv, store["software"] = NoRecord
  PROVE  kept["software"] = 0
BY NoCallFacts DEF IdentityInv, IdentityKept, Kinds

LEMMA SoftwareRemoves ==
  ASSUME IdentityInv, Remove
  PROVE  IdentityInv'
<1>1. /\ call.kind = "software" /\ call.step = "remove" /\ call' = NoCall /\ UNCHANGED <<tpm, opened, next, kept>>
      /\ kept["software"] = 0
  BY Zenon DEF Remove, At, End, IdentityInv, RecordInv
<1>2. PICK r \in Records : store' = [store EXCEPT !["software"] = r]
  <2>1. store["software"] \in Records
    BY DEF IdentityInv, IdentityTypes, Kinds
  <2> QED
    BY <2>1, NoCallFacts, ZenonT(30) DEF Remove
<1>3. store' \in [Kinds -> Records] /\ IdentityKept'
  BY <1>1, <1>2, WriteFacts, ZenonT(30) DEF Kinds
<1>4. IdentityTypes' /\ CallInv'
  BY <1>1, <1>3, NoCallFacts, ZenonT(30) DEF IdentityInv, IdentityTypes, CallInv
<1>5. LoadedInv' /\ RecordInv'
  BY <1>1, NoCallFacts DEF IdentityInv, LoadedInv, Resting, RecordInv
<1> QED
  BY <1>3, <1>4, <1>5, ZenonT(30) DEF IdentityInv

LEMMA SoftwareWrites ==
  ASSUME IdentityInv, SoftwareWrite
  PROVE  IdentityInv'
<1>1. call.kind = "software" /\ call.step = "write" /\ UNCHANGED <<tpm, opened, next, kept>> /\ kept["software"] = 0 /\ call \in Calls
  BY Zenon DEF SoftwareWrite, At, IdentityInv, RecordInv, IdentityTypes
<1>2. PICK r \in Records, s \in {"read_back", "remove"} : store' = [store EXCEPT !["software"] = r] /\ Step(s)
  <2>1. call.record \in Records /\ store["software"] \in Records
    BY <1>1 DEF Calls, IdentityInv, IdentityTypes, Kinds
  <2> QED
    BY <2>1, NoCallFacts, ZenonT(30) DEF SoftwareWrite, Written
<1>3. store' \in [Kinds -> Records] /\ IdentityKept'
  BY <1>1, <1>2, WriteFacts, ZenonT(30) DEF Kinds
<1>4. s \in SoftwareSteps
  BY DEF SoftwareSteps
<1>5. call' \in Calls /\ call'.step = s /\ call'.kind = "software"
  BY <1>1, <1>2, <1>4, StepFacts
<1>6. IdentityTypes' /\ CallInv'
  BY <1>1, <1>3, <1>4, <1>5, ZenonT(30) DEF IdentityInv, IdentityTypes, CallInv
<1>7. LoadedInv'
  BY <1>1, <1>5, ZenonT(30) DEF IdentityInv, LoadedInv, Resting
<1>8. RecordInv'
  BY <1>1, <1>5, ZenonT(30) DEF RecordInv
<1> QED
  BY <1>3, <1>6, <1>7, <1>8, ZenonT(30) DEF IdentityInv

LEMMA SoftwareMoves ==
  ASSUME IdentityInv,
         SoftwareCheck \/ SoftwareCheckFails \/ GenerateFails \/ SoftwareReadBack \/ SoftwareOpenFails
  PROVE  IdentityInv'
<1>1. call.kind = "software" /\ UNCHANGED <<store, tpm, opened, next, kept>>
  BY DEF SoftwareCheck, SoftwareCheckFails, GenerateFails, SoftwareReadBack, SoftwareOpenFails, At
<1>2. CASE End
  BY <1>1, <1>2, SoftwareEnds, ZenonT(30)
<1>3. CASE SoftwareCheck /\ ~End
  <2>1. kept["software"] = 0
    BY <1>3, SoftwareFinds DEF SoftwareCheck, Occupied, Absent
  <2>2. Step("generate") /\ "generate" \in SoftwareSteps
    BY <1>3, ZenonT(30) DEF SoftwareCheck, SoftwareSteps
  <2> QED
    BY <1>1, <2>1, <2>2, SoftwareStepKeeps, ZenonT(30)
<1>4. CASE SoftwareReadBack
  <2>1. kept["software"] = 0
    BY <1>1, <1>4, ZenonT(30) DEF SoftwareReadBack, At, IdentityInv, RecordInv
  <2>2. \/ store["software"] = call.record /\ Step("expose")
        \/ Step("remove")
    BY <1>4 DEF SoftwareReadBack
  <2>3. "expose" \in SoftwareSteps /\ "remove" \in SoftwareSteps
    BY DEF SoftwareSteps
  <2> QED
    BY <1>1, <2>1, <2>2, <2>3, SoftwareStepKeeps, ZenonT(30)
<1> QED
  BY <1>2, <1>3, <1>4, ZenonT(30) DEF SoftwareCheck, SoftwareCheckFails, GenerateFails, SoftwareOpenFails

LEMMA GenerateKeeps ==
  ASSUME IdentityInv, Generate
  PROVE  IdentityInv'
<1>1. call.kind = "software" /\ call.step = "generate" /\ UNCHANGED <<store, tpm, opened, kept>> /\ kept["software"] = 0 /\ call \in Calls
  BY DEF Generate, At, IdentityInv, RecordInv, IdentityTypes
<1>2. next \in Nat /\ next' \in Nat
  BY DEF Generate, IdentityInv, IdentityTypes
<1>3. PICK r \in Records : call' = [call EXCEPT !.step = "write", !.record = r]
  BY <1>2, ZenonT(30) DEF Generate, SoftwareRecord, Records
<1>4. call' \in Calls /\ call'.step = "write" /\ call'.kind = "software" /\ "write" \in SoftwareSteps
  BY <1>1, <1>3, ZenonT(30) DEF Calls, SoftwareSteps
<1>5. IdentityTypes' /\ CallInv'
  BY <1>1, <1>2, <1>4, ZenonT(30) DEF IdentityInv, IdentityTypes, CallInv
<1>6. LoadedInv'
  BY <1>1, <1>4, ZenonT(30) DEF IdentityInv, LoadedInv, Resting
<1>7. RecordInv' /\ IdentityKept'
  BY <1>1, <1>4 DEF IdentityInv, RecordInv, IdentityKept
<1> QED
  BY <1>5, <1>6, <1>7 DEF IdentityInv

LEMMA SoftwareOpenKeeps ==
  ASSUME IdentityInv, SoftwareOpen
  PROVE  IdentityInv'
<1>1. call.kind = "software" /\ UNCHANGED <<store, tpm, opened, next, kept>> /\ call \in Calls /\ store["software"] \in Records
  BY DEF SoftwareOpen, At, IdentityInv, IdentityTypes, Kinds
<1>2. CASE End
  BY <1>1, <1>2, SoftwareEnds
<1>3. CASE ~End
  <2>1. PICK s \in {"expose", "check"}, m \in {"none", "create", "open", "interactive"}, r \in Records :
          /\ call' = [call EXCEPT !.step = s, !.mode = m, !.record = r]
          /\ s = "expose" => r = store["software"]
    <3>1. [call EXCEPT !.step = "expose", !.record = store["software"]]
          = [call EXCEPT !.step = "expose", !.mode = call.mode, !.record = store["software"]]
      BY <1>1, ZenonT(30) DEF Calls
    <3>2. [call EXCEPT !.step = "check", !.mode = "create"]
          = [call EXCEPT !.step = "check", !.mode = "create", !.record = call.record]
      BY <1>1, ZenonT(30) DEF Calls
    <3>3. call.mode \in {"none", "create", "open", "interactive"} /\ call.record \in Records
      BY <1>1 DEF Calls
    <3>4. \/ call' = [call EXCEPT !.step = "expose", !.record = store["software"]]
          \/ call' = [call EXCEPT !.step = "check", !.mode = "create"]
      BY <1>3 DEF SoftwareOpen
    <3> QED
      BY <1>1, <3>1, <3>2, <3>3, <3>4, ZenonT(30)
  <2>2. s \in SoftwareSteps
    BY DEF SoftwareSteps
  <2>3. call' \in Calls /\ call'.kind = "software" /\ call'.step = s /\ call'.record = r
    BY <1>1, <2>1, <2>2, ZenonT(30) DEF Calls
  <2>4. IdentityTypes' /\ CallInv'
    BY <1>1, <2>2, <2>3, ZenonT(30) DEF IdentityInv, IdentityTypes, CallInv
  <2>5. LoadedInv'
    BY <1>1, <2>3 DEF IdentityInv, LoadedInv, Resting
  <2>6. RecordInv' /\ IdentityKept'
    BY <1>1, <2>1, <2>3 DEF IdentityInv, RecordInv, IdentityKept
  <2> QED
    BY <2>4, <2>5, <2>6, ZenonT(30) DEF IdentityInv
<1> QED
  BY <1>2, <1>3

-----------------------------------------------------------------------------
(* No call is in progress, or none is after the step.                      *)
LEMMA RestKeeps ==
  ASSUME IdentityInv, call' = NoCall, tpm' \in Tpms, opened' \in HandleRecords, opened'.kind = "none" => opened' = NotOpened,
         tpm'.loaded = Resting', store' \in [Kinds -> Records], kept' \in [Kinds -> Nat], IdentityKept', UNCHANGED next
  PROVE  IdentityInv'
<1>1. call'.kind = "none" /\ call' \in Calls /\ call'.step = "none"
  BY NoCallFacts, ZenonT(30)
<1>2. IdentityTypes' /\ CallInv'
  BY <1>1 DEF IdentityInv, IdentityTypes, CallInv
<1>3. LoadedInv' /\ RecordInv'
  BY <1>1, ZenonT(30) DEF LoadedInv, RecordInv
<1> QED
  BY <1>2, <1>3 DEF IdentityInv

LEMMA BetweenCalls ==
  ASSUME IdentityInv, CloseSoftware \/ PowerCycle \/ Clear \/ Replace
  PROVE  IdentityInv'
<1>1. call' = NoCall /\ opened' = NotOpened /\ UNCHANGED <<store, next, kept>> /\ Resting' = {}
  BY NoCallFacts DEF CloseSoftware, PowerCycle, Clear, Replace, Resting
<1>2. store' \in [Kinds -> Records] /\ kept' \in [Kinds -> Nat] /\ IdentityKept' /\ tpm \in Tpms
  BY <1>1 DEF IdentityInv, IdentityTypes, IdentityKept
<1>3. tpm' \in Tpms /\ tpm'.loaded = {}
  <2>1. CASE CloseSoftware
    BY <1>2, <2>1, NoCallFacts DEF CloseSoftware, IdentityInv, LoadedInv, Resting
  <2>2. CASE PowerCycle
    BY <1>2, <2>2, ZenonT(30) DEF PowerCycle, Tpms
  <2>3. CASE Clear
    <3>1. PICK n \in Nat : n = tpm.srk + 1
      BY <1>2 DEF Tpms
    <3>2. tpm' = [tpm EXCEPT !.srk = n, !.loaded = {}, !.leaked = 0]
      BY <2>3, <3>1, Zenon DEF Clear
    <3> QED
      BY <1>2, <3>2, ZenonT(30) DEF Tpms
  <2>4. CASE Replace
    <3>1. PICK n \in Nat, m \in Nat : n = tpm.ek + 1 /\ m = tpm.srk + 1
      BY <1>2 DEF Tpms
    <3>2. tpm' = [ek |-> n, srk |-> m, loaded |-> {}, leaked |-> 0]
      BY <2>4, <3>1, Zenon DEF Replace
    <3> QED
      BY <3>2 DEF Tpms
  <2> QED
    BY <2>1, <2>2, <2>3, <2>4, ZenonT(30)
<1> QED
  BY <1>1, <1>2, <1>3, RestKeeps, NoCallFacts

LEMMA ResetKeeps ==
  ASSUME IdentityInv, NEW k \in Kinds, Reset(k)
  PROVE  IdentityInv'
<1>1. call = NoCall /\ call' = NoCall /\ opened' = NotOpened /\ UNCHANGED <<opened, tpm, next>> /\ Resting' = Resting /\ tpm.loaded = Resting
  BY NoCallFacts, ZenonT(30) DEF Reset, Resting, IdentityInv, LoadedInv
<1>2. store \in [Kinds -> Records] /\ kept \in [Kinds -> Nat] /\ tpm \in Tpms
  BY DEF IdentityInv, IdentityTypes
<1>3. PICK r \in Records : store' = [store EXCEPT ![k] = r]
  BY <1>2, NoCallFacts, ZenonT(30) DEF Reset
<1>4. store' \in [Kinds -> Records] /\ \A j \in Kinds : j # k => store'[j] = store[j]
  BY <1>2, <1>3
<1>5. kept' \in [Kinds -> Nat] /\ kept'[k] = 0 /\ \A j \in Kinds : j # k => kept'[j] = kept[j]
  BY <1>2, ZenonT(30) DEF Reset
<1>6. IdentityKept'
  BY <1>4, <1>5 DEF IdentityInv, IdentityKept
<1> QED
  BY <1>1, <1>2, <1>4, <1>5, <1>6, RestKeeps, NoCallFacts, ZenonT(30)

LEMMA IdentityInitially == IdentityInit => IdentityInv
<1> SUFFICES ASSUME IdentityInit PROVE IdentityInv
  OBVIOUS
<1>1. tpm \in Tpms /\ tpm.loaded = {}
  BY Zenon DEF IdentityInit, Tpms
<1>2. store \in [Kinds -> Records] /\ kept \in [Kinds -> Nat] /\ next \in Nat /\ call = NoCall /\ opened = NotOpened
  BY NoCallFacts, ZenonT(30) DEF IdentityInit
<1>3. IdentityTypes /\ CallInv /\ LoadedInv /\ RecordInv
  BY <1>1, <1>2, NoCallFacts, ZenonT(30) DEF IdentityTypes, CallInv, LoadedInv, Resting, RecordInv
<1>4. IdentityKept
  BY DEF IdentityInit, IdentityKept
<1> QED
  BY <1>3, <1>4, ZenonT(30) DEF IdentityInv

LEMMA IdentityStep == IdentityInv /\ [IdentityNext]_identityVars => IdentityInv'
<1> SUFFICES ASSUME IdentityInv, [IdentityNext]_identityVars PROVE IdentityInv'
  BY ZenonT(30)
<1>1. CASE UNCHANGED identityVars
  BY <1>1, ZenonT(30) DEF identityVars, IdentityInv, IdentityTypes, CallInv, LoadedInv, Resting, RecordInv, IdentityKept
<1>2. CASE IdentityNext
  BY <1>2, AskKeeps, TpmBegins, TpmLoads, LoadIdentityKeeps, TpmFlushes, TpmWriteKeeps, TpmConfirms,
     ExposeKeeps, TpmEnds, TpmCalls, SoftwareMoves, GenerateKeeps, SoftwareWrites, SoftwareRemoves,
     SoftwareOpenKeeps, ResetKeeps, BetweenCalls, Zenon DEF IdentityNext
<1> QED
  BY <1>1, <1>2

(* The inductive invariant: what is loaded at each step of a call, which   *)
(* record the call is about, and that a creation (tpm_identity_create,     *)
(* pbns_software_identity_create) has nothing left to overwrite.           *)
THEOREM IdentityInvariant == IdentitySpec => []IdentityInv
BY IdentityInitially, IdentityStep, PTL DEF IdentitySpec

(* What a call has loaded when it is about to load another object.         *)
LEMMA RoomToLoad ==
  ASSUME NEW loaded, NEW s \in {"ek", "srk", "ak", "identity", "public", "activate"}, LoadedAt(s, loaded)
  PROVE  Cardinality(loaded) < Slots
<1>1. \A x, y : x # y => Cardinality({x, y}) = 2
  <2> TAKE x, y
  <2> HAVE x # y
  <2>1. IsFiniteSet({x}) /\ Cardinality({x}) = 1
    BY FS_Singleton, Zenon
  <2>2. {x} \cup {y} = {x, y} /\ y \notin {x}
    OBVIOUS
  <2> QED
    BY <2>1, <2>2, FS_AddElement
<1>2. loaded \in {{}, {"srk"}, {"srk", "ak"}, {"ak", "identity"}}
  BY DEF LoadedAt, Unloaded
<1>3. Cardinality({}) = 0 /\ Cardinality({"srk"}) = 1
  BY FS_EmptySet, FS_Singleton, Zenon
<1>4. Cardinality({"srk", "ak"}) = 2 /\ Cardinality({"ak", "identity"}) = 2
  BY <1>1, Zenon
<1> QED
  BY <1>2, <1>3, <1>4, IdentityAssumption

(* Every object a call loads is flushed by it at whichever step it fails   *)
(* (context_final, flush_handle), and a call never needs more transient    *)
(* slots than a TPM has: SlotsAccounted, for every number of slots from    *)
(* three on.                                                               *)
THEOREM SlotsAreAccounted == IdentitySpec => []SlotsAccounted
<1>1. IdentityInv => SlotsAccounted
  <2> SUFFICES ASSUME IdentityInv PROVE SlotsAccounted
    OBVIOUS
  <2>1. ASSUME call.step \in {"ek", "srk", "ak", "identity", "public", "activate"}
        PROVE  Cardinality(tpm.loaded) < Slots
    <3>1. call.step \notin SoftwareSteps /\ call.step # "none"
      BY <2>1, ZenonT(30) DEF SoftwareSteps
    <3>2. call.kind = "tpm"
      BY <3>1, NoCallFacts DEF IdentityInv, CallInv, IdentityTypes, Calls
    <3>3. LoadedAt(call.step, tpm.loaded)
      BY <3>2, ZenonT(30) DEF IdentityInv, LoadedInv
    <3> QED
      BY <2>1, <3>3, RoomToLoad
  <2>2. ASSUME opened.kind = "tpm" PROVE {"ak", "identity"} \subseteq tpm.loaded
    <3>1. CASE call.kind = "tpm"
      <4>1. call.step \in Using
        BY <2>2, <3>1, NoCallFacts, ZenonT(30) DEF IdentityInv, CallInv
      <4> QED
        BY <3>1, <4>1, ZenonT(30) DEF IdentityInv, LoadedInv, LoadedAt, Using
    <3>2. CASE call.kind # "tpm"
      BY <2>2, <3>2, ZenonT(30) DEF IdentityInv, LoadedInv, Resting
    <3> QED
      BY <3>1, <3>2, ZenonT(30)
  <2>3. ASSUME call = NoCall, opened.kind # "tpm" PROVE tpm.loaded = {}
    BY <2>3, NoCallFacts, ZenonT(30) DEF IdentityInv, LoadedInv, Resting
  <2> QED
    BY <2>1, <2>2, <2>3 DEF SlotsAccounted
<1> QED
  BY <1>1, IdentityInvariant, PTL

(* An identity handed to a program stays the stored one through failed     *)
(* calls, failed or partial writes and restarts (PbnsTpmStorageUefiWrite,  *)
(* pbns_software_identity_create): IdentityKept.                           *)
THEOREM IdentitiesAreKept == IdentitySpec => []IdentityKept
<1>1. IdentityInv => IdentityKept
  BY DEF IdentityInv
<1> QED
  BY <1>1, IdentityInvariant, PTL
=============================================================================
