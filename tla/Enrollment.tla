----------------------------- MODULE Enrollment -----------------------------
(***************************************************************************)
(* Enrolment of a host with a one-time token: the UEFI client (PbnsEnroll, *)
(* core/enrollment.c), the gateway's enrolment service with its sessions   *)
(* in memory, and the token, pending, host and completed buckets of the    *)
(* store.                                                                  *)
(*                                                                         *)
(* A run of the client draws a request identifier and a nonce, so its      *)
(* transcript (the digest of its first message) is its own: the run stands *)
(* for all three.  Each exchange opens a connection, and is repeated once, *)
(* with the same bytes, after a timeout or a transport failure.  A request *)
(* that the client gave up on may still be handled, at any later time and  *)
(* in any order: nothing in the gateway's handler looks at the connection  *)
(* before it answers.  A request never handled was lost.                   *)
(***************************************************************************)
EXTENDS Naturals, FiniteSets

CONSTANTS Runs, Tokens, Hosts,
          TpmHosts,      \* the hosts that enrol with a TPM identity (FlowTPM)
          MaxMismatches, \* MaxTranscriptMismatches
          MaxNonces,     \* bound on the server nonces given out
          none           \* no run, no session

ASSUME EnrollmentAssumption ==
  MaxMismatches \in Nat /\ MaxNonces \in Nat /\ none \notin Runs /\ TpmHosts \subseteq Hosts

VARIABLES running,   \* the gateway is up
          expired,   \* tokens whose expiry the wall clock has passed
          token,     \* the tokens bucket, with the pending record each names
          hosts,     \* the hosts, baselines and receipts buckets: who enrolled, by which run
          completed, \* the completed-enrolment bucket: envelope nonce per request identifier
          session,   \* Service.sessions: the server nonce per request identifier
          nonces,    \* server nonces given to sessions so far
          requests,  \* requests on their way to the gateway
          client,    \* each run of the client
          TokenOf,   \* the token typed into each run
          HostOf     \* the identity each run uses

bucket == <<token, hosts, completed>>
uses == <<TokenOf, HostOf>>
vars == <<running, expired, bucket, session, nonces, requests, client, uses>>

Attempts == 1 .. 2
Nonce == 1 .. MaxNonces

(* Store.CreateEnrollment: a token that no transcript has been begun with. *)
Issued == [state |-> "live", transcript |-> none, mismatches |-> 0]

(* pbns_enrollment_init: a transcript that no challenge was accepted for.  *)
Drawn == [pc |-> "off", attempt |-> 1, nonce |-> 0, answer |-> "waiting", answered |-> 0]

Init ==
  /\ running = TRUE /\ expired = {} /\ nonces = 0
  /\ token = [t \in Tokens |-> Issued]
  /\ TokenOf \in [Runs -> Tokens] /\ HostOf \in [Runs -> Hosts]
  /\ hosts = {} /\ requests = {}
  /\ completed = [r \in Runs |-> 0] /\ session = [r \in Runs |-> 0]
  /\ client = [r \in Runs |-> Drawn]

-----------------------------------------------------------------------------
(* The client.                                                             *)

(* An encrypted envelope with its operation: the first message of the      *)
(* transcript, and the signed proof for the server nonce.                  *)
Request(r, operation, attempt, nonce) == [run |-> r, operation |-> operation, attempt |-> attempt, nonce |-> nonce]
EncryptedInit(r) == Request(r, "begin", 1, 0)
EncryptedProof(r) == Request(r, "complete", 1, client[r].answered)

Waiting(r) == client[r].pc \in {"begin", "complete"} /\ client[r].answer = "waiting"
GatewayOnly == UNCHANGED <<running, expired, bucket, session, nonces, uses>>

Ends(r) == client' = [client EXCEPT ![r].pc = "failed"] /\ UNCHANGED requests

(* Identity, token, baseline and the first envelope; then the exchange. *)
Start(r) ==
  /\ client[r].pc = "off"
  /\ client' = [client EXCEPT ![r].pc = "begin"]
  /\ requests' = requests \cup {EncryptedInit(r)}
  /\ GatewayOnly

(* One of them cannot be had: nothing was sent. *)
Abandon(r) == client[r].pc = "off" /\ Ends(r) /\ GatewayOnly

(* enrollment_exchange: no answer in time, or the connection failed.  The  *)
(* first time the same bytes are sent again, the second time the run ends. *)
NoAnswer(r) ==
  /\ Waiting(r)
  /\ IF client[r].attempt = 1
     THEN /\ client' = [client EXCEPT ![r].attempt = 2]
          /\ requests' = requests \cup {Request(r, client[r].pc, 2, client[r].nonce)}
     ELSE Ends(r)
  /\ GatewayOnly

accept_challenge(r) == client[r].pc = "begin" /\ client[r].answer = "ok"
prepare_proof(c) == [c EXCEPT !.pc = "complete", !.attempt = 1, !.nonce = c.answered, !.answer = "waiting", !.answered = 0]

(* The signed challenge is verified, TPM activation and certification done *)
(* and the proof for its server nonce sent.                                *)
AcceptChallenge(r) ==
  /\ accept_challenge(r)
  /\ client' = [client EXCEPT ![r] = prepare_proof(@)]
  /\ requests' = requests \cup {EncryptedProof(r)}
  /\ GatewayOnly

(* The challenge cannot be decoded or verified, or no proof made for it. *)
RefuseChallenge(r) == accept_challenge(r) /\ Ends(r) /\ GatewayOnly

(* The TPM does not activate the credential or certify the identity key. *)
FailActivation(r) == accept_challenge(r) /\ HostOf[r] \in TpmHosts /\ Ends(r) /\ GatewayOnly

(* The receipt's signature covers the server nonce. *)
enrollment_complete(r) == client[r].answered = client[r].nonce

AcceptReceipt(r) ==
  /\ client[r].pc = "complete" /\ client[r].answer = "ok" /\ enrollment_complete(r)
  /\ client' = [client EXCEPT ![r].pc = "enrolled"]
  /\ UNCHANGED requests /\ GatewayOnly

(* It is not the receipt of this run's proof, or it cannot be verified. *)
RefuseReceipt(r) ==
  /\ client[r].pc = "complete" /\ client[r].answer = "ok"
  /\ Ends(r) /\ GatewayOnly

(* An error record ends either exchange, and the run. *)
ErrorAnswered(r) == client[r].pc \in {"begin", "complete"} /\ client[r].answer = "error" /\ Ends(r) /\ GatewayOnly

-----------------------------------------------------------------------------
(* The gateway.                                                            *)

(* An answer reaches the client only on the connection it still waits on. *)
Answer(m, answer, nonce) ==
  client' = IF Waiting(m.run) /\ client[m.run].pc = m.operation /\ client[m.run].attempt = m.attempt
            THEN [client EXCEPT ![m.run] = [@ EXCEPT !.answer = answer, !.answered = nonce]]
            ELSE client

(* Store.beginEnrollmentDigest: which transcript may go on, and the token  *)
(* record afterwards.                                                      *)
spent_is_open(t) == token[t].state # "revoked" /\ t \notin expired
Usable(t) == token[t].state \in {"live", "pending"} /\ t \notin expired

SameTranscript(t, r) == token[t].transcript \in {none, r}

RateAllows(t) == token[t].mismatches < MaxMismatches

Mismatched(t, r) == [token[t] EXCEPT !.mismatches = IF RateAllows(t) THEN @ + 1 ELSE @]

Begun(t, r) ==
  IF ~ Usable(t) THEN token[t]
  ELSE IF ~ SameTranscript(t, r) THEN Mismatched(t, r)
  ELSE IF token[t].transcript = none THEN [token[t] EXCEPT !.state = "pending", !.transcript = r]
  ELSE token[t]

(* A request that the gateway is about to handle, and one it answers with  *)
(* an error record, nothing stored.                                        *)
Handles(m, operation) == running /\ m \in requests /\ m.operation = operation /\ requests' = requests \ {m}
Refused(m) == Answer(m, "error", 0) /\ UNCHANGED <<running, expired, bucket, session, nonces, uses>>

(* The envelope, the first message or its identity key is not accepted. *)
RefuseInit(m) == Handles(m, "begin") /\ Refused(m)

(* A TPM's endorsement key or its certificate is not accepted, or no       *)
(* credential can be made for it: before the token is looked at.           *)
RefuseActivation(m) == HostOf[m.run] \in TpmHosts /\ Handles(m, "begin") /\ Refused(m)

(* Service.Begin.  The session of an earlier Begin of the same run is      *)
(* replaced, and with it the server nonce that its proof must carry.       *)
Accepts(m) == Usable(TokenOf[m.run]) /\ SameTranscript(TokenOf[m.run], m.run)
TokenBegun(m) == token' = [token EXCEPT ![TokenOf[m.run]] = Begun(TokenOf[m.run], m.run)]

Begin(m) ==
  /\ Handles(m, "begin") /\ Accepts(m) /\ TokenBegun(m)
  /\ nonces < MaxNonces /\ nonces' = nonces + 1
  /\ session' = [session EXCEPT ![m.run] = nonces']
  /\ Answer(m, "ok", nonces')
  /\ UNCHANGED <<running, expired, hosts, completed, uses>>

(* The token is not open to this transcript, or it is and the challenge    *)
(* cannot be signed: the token record keeps what was noted of the attempt. *)
RefuseBegin(m) ==
  /\ Handles(m, "begin") /\ TokenBegun(m) /\ Answer(m, "error", 0)
  /\ UNCHANGED <<running, expired, hosts, completed, session, nonces, uses>>

(* Store.completeEnrollment's conditions for the pending record of run r. *)
twice_enrolled(r) == FALSE
HostExists(r) == \E x \in hosts : x.host = HostOf[r]

Completable(r) ==
  LET t == TokenOf[r] IN
  token[t].state = "pending" /\ token[t].transcript = r /\ t \notin expired /\ ~ HostExists(r)

(* proofMatchesSession *)
nonce_not_compared(m) == TRUE
ProofMatches(m) == m.nonce = session[m.run]

(* Service.Complete with a session: one transaction writes the host, its   *)
(* baseline and receipt, the completed record and the spent token.         *)
Complete(m) ==
  LET r == m.run
      t == TokenOf[r]
  IN /\ Handles(m, "complete") /\ session[r] # 0
     /\ ProofMatches(m) /\ Completable(r) /\ completed[r] = 0
     /\ hosts' = hosts \cup {[host |-> HostOf[r], run |-> r, token |-> t, nonce |-> session[r]]}
     /\ completed' = [completed EXCEPT ![r] = m.nonce]
     /\ token' = [token EXCEPT ![t].state = "consumed"]
     /\ session' = [session EXCEPT ![r] = 0]
     /\ Answer(m, "ok", session[r])
     /\ UNCHANGED <<running, expired, nonces, uses>>

(* The proof is not one for the session, or does not verify; a TPM's       *)
(* certification does not; the receipt cannot be signed or the transaction *)
(* is refused.  The session stays.                                         *)
RefuseProof(m) == session[m.run] # 0 /\ Handles(m, "complete") /\ Refused(m)
RefuseCertification(m) ==
  session[m.run] # 0 /\ HostOf[m.run] \in TpmHosts /\ ProofMatches(m) /\ Handles(m, "complete") /\ Refused(m)
NotCommitted(m) == session[m.run] # 0 /\ ProofMatches(m) /\ Handles(m, "complete") /\ Refused(m)

(* Service.Complete without one: GetCompletedEnrollment gives the stored   *)
(* receipt to the very envelope that completed.                            *)
CompleteAgain(m) ==
  /\ Handles(m, "complete") /\ session[m.run] = 0
  /\ IF completed[m.run] = m.nonce THEN Answer(m, "ok", m.nonce) ELSE Answer(m, "error", 0)
  /\ UNCHANGED <<running, expired, bucket, session, nonces, uses>>

(* The sessions are in memory only. *)
Stop ==
  /\ running /\ running' = FALSE
  /\ session' = [r \in Runs |-> 0]
  /\ UNCHANGED <<expired, bucket, nonces, requests, client, uses>>

Restart ==
  /\ ~ running /\ running' = TRUE
  /\ UNCHANGED <<expired, bucket, session, nonces, requests, client, uses>>

(* pbnsctl needs the store to itself.  A spent token cannot be revoked. *)
RevokeEnrollment(t) ==
  /\ ~ running /\ token[t].state \in {"live", "pending"}
  /\ token' = [token EXCEPT ![t].state = "revoked"]
  /\ UNCHANGED <<running, expired, hosts, completed, session, nonces, requests, client, uses>>

SetClock ==
  /\ \E t \in Tokens : expired' = (expired \ {t}) \cup ({t} \ expired)
  /\ UNCHANGED <<running, bucket, session, nonces, requests, client, uses>>

ClientStep(r) ==
  \/ Start(r) \/ Abandon(r) \/ NoAnswer(r) \/ ErrorAnswered(r)
  \/ AcceptChallenge(r) \/ RefuseChallenge(r) \/ FailActivation(r)
  \/ AcceptReceipt(r) \/ RefuseReceipt(r)

Handle(m) ==
  \/ Begin(m) \/ RefuseInit(m) \/ RefuseActivation(m) \/ RefuseBegin(m)
  \/ Complete(m) \/ RefuseProof(m) \/ RefuseCertification(m) \/ NotCommitted(m) \/ CompleteAgain(m)

Next ==
  \/ \E r \in Runs : ClientStep(r)
  \/ \E m \in requests : Handle(m)
  \/ Stop \/ Restart \/ SetClock
  \/ \E t \in Tokens : RevokeEnrollment(t)

Spec == Init /\ [][Next]_vars

-----------------------------------------------------------------------------
(* A token enrols at most one host, that host through the one transcript   *)
(* the token was first used with, and no host is enrolled twice, however   *)
(* many runs share a token or an identity (beginEnrollmentDigest,          *)
(* completeEnrollment).                                                    *)
TokenBuysOneHost ==
  /\ \A x, y \in hosts : x.token = y.token \/ x.host = y.host => x = y
  /\ \A x \in hosts : token[x.token].state = "consumed" /\ token[x.token].transcript = x.run
  /\ \A t \in Tokens : token[t].state = "consumed" => \E x \in hosts : x.token = t

(* A client that says it is enrolled is in the host table, by this run and *)
(* by the proof it made; and a host in the table made that proof itself,   *)
(* for a challenge it had verified.                                        *)
ClientAgrees ==
  /\ \A r \in Runs : client[r].pc = "enrolled" => \E x \in hosts : x.run = r /\ x.nonce = client[r].nonce
  /\ \A x \in hosts : client[x.run].pc \in {"complete", "enrolled", "failed"} /\ client[x.run].nonce = x.nonce

(* Once a run is in the host table its proof can be sent again and will be *)
(* answered with the stored receipt: no session of that run hides it, also *)
(* when a Begin the client gave up on is handled after the completion or   *)
(* the gateway restarts.                                                   *)
CompletedIsAnswerable ==
  \A x \in hosts : session[x.run] = 0 /\ completed[x.run] = x.nonce
=============================================================================
