------------------------------- MODULE Broker -------------------------------
(***************************************************************************)
(* The host's broker (core/broker.c): one session at a time over one       *)
(* transport, as a single request, as a bulk download or as an upload.     *)
(* Every function of its interface is an action, called by its user in any *)
(* order; a call is one step, and what the transport, the clock and the    *)
(* peer do during it is chosen inside the step.                            *)
(*                                                                         *)
(* Payloads are identities: decoded is the payload in the broker's decoded *)
(* buffer (0: wiped), held the one of the last response a caller was given *)
(* (0: none since a request was last made or the broker reset).            *)
(***************************************************************************)
EXTENDS Naturals, Sequences

CONSTANTS Window,   \* PBNS_BROKER_BULK_WINDOW
          MaxData   \* bound on the records of one session

ASSUME BrokerAssumption == Window \in Nat \ {0} /\ MaxData \in Nat \ {0}

VARIABLES broker,    \* the broker's own fields
          transport, \* whether the transport is open, and its cancels since it was opened
          wire,      \* frames sent on the present or the last connection
          decoded, held,
          result     \* the last call and the status it returned

brokerVars == <<broker, transport, wire, decoded, held, result>>

(* FAIL is any local error of transport, clock, limit or codec; REMOTE the *)
(* status of an ERROR record, except that one with code 11 is TIMEOUT.     *)
Failures == {"FAIL", "TIMEOUT", "REMOTE"}
Statuses == {"OK", "STATE", "BUSY", "ARGUMENT"} \cup Failures

Flags == {"initialized", "opened", "active", "bulk_mode", "bulk_failed", "upload_mode", "response_received",
          "stream_complete", "stream_failed"}
Counters == {"exact", "received", "next_sequence", "acks", "upload_next"}

Zero == [f \in Flags \cup Counters |-> IF f \in Flags THEN FALSE ELSE 0]
Idle == [Zero EXCEPT !.initialized = TRUE]
Opened == [Idle EXCEPT !.opened = TRUE, !.active = TRUE]

Requested == {1, 2}
Received == {3, 4}

BrokerInit ==
  /\ broker = Zero /\ transport = [open |-> FALSE, cancels |-> 0]
  /\ wire = <<>> /\ decoded = 0 /\ held = 0
  /\ result = [call |-> "reset", status |-> "OK"]

Returns(call, status) == result' = [call |-> call, status |-> status]
WireFrame(type, sequence) == [type |-> type, sequence |-> sequence]
MaybeSent(log, f) == {log, Append(log, f)}
REQUEST == <<WireFrame("REQUEST", 0)>>

(* A payload of its kind that the caller does not hold. *)
Fresh(kind) == CHOOSE id \in kind : id # held

-----------------------------------------------------------------------------
(* Shared by the calls.                                                    *)

(* finish_session: the transport is closed, the fields are cleared whatever *)
(* close returns, and the buffers are wiped, except that a request keeps   *)
(* its response.                                                           *)
close_failure_returns(log, payload, cancels) ==
  /\ broker' \in {Idle, [Idle EXCEPT !.opened = TRUE]}
  /\ transport' = [open |-> FALSE, cancels |-> cancels] /\ wire' = log /\ decoded' = payload
finish_session(log, payload, cancels) ==
  /\ broker' = Idle
  /\ transport' = [open |-> FALSE, cancels |-> cancels] /\ wire' = log /\ decoded' = payload

(* broker_cancel and abort_upload_session: emit_cancel, which may fail, the *)
(* transport's cancel, finish_session.                                     *)
session_stays(log, cancels) ==
  /\ transport' = [transport EXCEPT !.cancels = cancels + 1]
  /\ wire' \in MaybeSent(log, WireFrame("CANCEL", 1)) /\ UNCHANGED <<broker, decoded>>
Abort(log, cancels) ==
  \E sent \in MaybeSent(log, WireFrame("CANCEL", 1)) : finish_session(sent, 0, cancels + 1)

(* A call the state does not allow changes nothing. *)
Refuse(call, status) == Returns(call, status) /\ UNCHANGED <<broker, transport, wire, decoded, held>>

-----------------------------------------------------------------------------
(* Starting a session.                                                     *)

Startable == broker.initialized /\ ~ broker.active /\ ~ broker.opened

Refused(call) ==
  /\ call \in {"request", "bulk_begin", "upload_begin"} /\ ~ Startable
  /\ Refuse(call, IF broker.initialized /\ call # "upload_begin" THEN "BUSY" ELSE "STATE")

(* The random source, the clock or the transport's open failed. *)
NotOpened(call) ==
  /\ call \in {"request", "bulk_begin", "upload_begin"} /\ Startable
  /\ Returns(call, "FAIL") /\ decoded' = 0 /\ held' = 0
  /\ UNCHANGED <<broker, transport, wire>>

(* Opened, and then limits, codec, deadline or send failed.  An upload is  *)
(* active, and so cancelled, once its limits are known.                    *)
NotSent(call) ==
  /\ call \in {"request", "bulk_begin", "upload_begin"} /\ Startable
  /\ \E log \in {<<>>, REQUEST}, status \in {"FAIL", "TIMEOUT"} :
       /\ \/ (call = "upload_begin" => log = <<>>) /\ finish_session(log, 0, 0)
          \/ call = "upload_begin" /\ Abort(log, 0)
       /\ Returns(call, status)
  /\ held' = 0

(* broker_request once the request is sent: the answer, then the end of    *)
(* the session.  A timeout cancels; a close that fails spoils the answer.  *)
Request ==
  /\ Startable
  /\ \/ finish_session(REQUEST, Fresh(Requested), 0) /\ held' = Fresh(Requested) /\ Returns("request", "OK")
     \/ finish_session(REQUEST, 0, 0) /\ held' = 0 /\ \E status \in {"FAIL", "REMOTE"} : Returns("request", status)
     \/ Abort(REQUEST, 0) /\ held' = 0 /\ Returns("request", "TIMEOUT")

Start(call, fields) ==
  /\ Startable
  /\ broker' = [f \in Flags \cup Counters |-> IF f \in DOMAIN fields THEN fields[f] ELSE Opened[f]]
  /\ transport' = [open |-> TRUE, cancels |-> 0]
  /\ wire' = REQUEST /\ decoded' = 0 /\ held' = 0
  /\ Returns(call, "OK")

BulkBegin == \E n \in 1 .. MaxData : Start("bulk_begin", [bulk_mode |-> TRUE, exact |-> n])
UploadBegin == Start("upload_begin", [upload_mode |-> TRUE])

-----------------------------------------------------------------------------
(* A single response: pbns_broker_receive, also the end of an upload.      *)

Streaming == ~ broker.stream_failed /\ ~ broker.stream_complete /\ broker.next_sequence < MaxData

StreamAccept == [broker EXCEPT !.next_sequence = @ + 1]

(* A record that is no RESPONSE moves the stream on, or ends it, and fails *)
(* the call; one out of sequence fails the stream; the session stays.      *)
Receive ==
  IF ~ broker.initialized \/ ~ broker.active \/ broker.bulk_mode THEN Refuse("receive", "STATE")
  ELSE /\ \/ /\ Streaming /\ broker' = StreamAccept
             /\ decoded' = Fresh(Received) /\ held' = Fresh(Received) /\ Returns("receive", "OK")
          \/ /\ broker' \in {broker, [broker EXCEPT !.stream_failed = TRUE]}
                            \cup IF Streaming THEN {StreamAccept, [StreamAccept EXCEPT !.stream_complete = TRUE]} ELSE {}
             /\ UNCHANGED <<decoded, held>>
             /\ \E status \in Failures : Returns("receive", status)
       /\ UNCHANGED <<transport, wire>>

-----------------------------------------------------------------------------
(* Bulk download.                                                          *)

BulkOpen == broker.initialized /\ broker.active /\ broker.bulk_mode /\ ~ broker.bulk_failed

(* The bytes of a DATA record fit what is still expected. *)
Fits(size) == size <= broker.exact - broker.received

AllReceived == broker.received = broker.exact

(* fail_bulk_session: only cancel and reset remain. *)
BulkFailed == [broker EXCEPT !.bulk_failed = TRUE, !.stream_failed = TRUE]

BulkReceive ==
  IF ~ BulkOpen \/ broker.stream_complete THEN Refuse("bulk_receive", "STATE")
  ELSE /\ \/ /\ \E size \in 1 .. MaxData :
                  Fits(size) /\ broker' = [StreamAccept EXCEPT !.received = @ + size]
             /\ decoded' = Fresh(Received) /\ held' = Fresh(Received)
             /\ Returns("bulk_receive", "OK")
          \/ /\ AllReceived /\ broker' = [StreamAccept EXCEPT !.stream_complete = TRUE]
             /\ held' = 0 /\ UNCHANGED decoded /\ Returns("bulk_receive", "OK")
          \/ /\ broker' \in {BulkFailed, [BulkFailed EXCEPT !.stream_complete = TRUE]} /\ UNCHANGED <<decoded, held>>
             /\ \E status \in Failures : Returns("bulk_receive", status)
       /\ UNCHANGED <<transport, wire>>

AckDue == broker.next_sequence = (broker.acks + 1) * Window

BulkAck ==
  IF ~ BulkOpen \/ broker.stream_complete THEN Refuse("bulk_ack", "STATE")
  ELSE IF ~ AckDue THEN Refuse("bulk_ack", "ARGUMENT")
  ELSE /\ LET ack == WireFrame("ACK", broker.acks) IN
          \/ wire' = Append(wire, ack) /\ broker' = [broker EXCEPT !.acks = @ + 1] /\ Returns("bulk_ack", "OK")
          \/ /\ wire' \in MaybeSent(wire, ack)
             /\ broker' = BulkFailed /\ \E status \in {"FAIL", "TIMEOUT"} : Returns("bulk_ack", status)
       /\ UNCHANGED <<transport, decoded, held>>

(* bulk_finish and upload_finish return what close returned. *)
Finish(call, allowed) ==
  IF ~ allowed THEN Refuse(call, "STATE")
  ELSE /\ finish_session(wire, 0, transport.cancels)
       /\ \E status \in {"OK", "FAIL"} : Returns(call, status)
       /\ UNCHANGED held

BulkFinish == Finish("bulk_finish", BulkOpen /\ broker.stream_complete /\ AllReceived)

-----------------------------------------------------------------------------
(* Upload.                                                                 *)

COMPLETE == WireFrame("COMPLETE", broker.upload_next + 1)

UploadSend(final) ==
  IF ~ broker.initialized \/ ~ broker.active \/ ~ broker.upload_mode \/ broker.bulk_mode
  THEN Refuse("upload_send", "STATE")
  ELSE LET data == Append(wire, WireFrame("DATA", broker.upload_next))
           all == Append(data, COMPLETE)
       IN \/ /\ broker.upload_next < MaxData /\ ~ final
             /\ broker' = [broker EXCEPT !.upload_next = @ + 1] /\ wire' = data
             /\ Returns("upload_send", "OK") /\ UNCHANGED <<transport, decoded, held>>
          \/ /\ broker.upload_next < MaxData /\ final /\ Streaming
             /\ broker' = [StreamAccept EXCEPT !.upload_next = @ + 1, !.upload_mode = FALSE, !.response_received = TRUE]
             /\ wire' = all /\ decoded' = Fresh(Received) /\ held' = Fresh(Received)
             /\ Returns("upload_send", "OK") /\ UNCHANGED transport
          \/ /\ \E log \in {wire, data} \cup (IF final THEN {all} ELSE {}) : Abort(log, transport.cancels)
             /\ UNCHANGED held /\ \E status \in Failures : Returns("upload_send", status)

UploadFinish == Finish("upload_finish", broker.initialized /\ broker.active /\ ~ broker.upload_mode /\ broker.response_received)

-----------------------------------------------------------------------------
Cancel ==
  IF ~ broker.initialized \/ ~ broker.active THEN Refuse("cancel", "STATE")
  ELSE Abort(wire, transport.cancels) /\ UNCHANGED held /\ \E status \in {"OK", "FAIL"} : Returns("cancel", status)

(* pbns_broker_reset, and pbns_broker_init of the broker it leaves. *)
Reset ==
  /\ broker.initialized
  /\ IF broker.active
     THEN wire' \in MaybeSent(wire, WireFrame("CANCEL", 1)) /\ transport' = [open |-> FALSE, cancels |-> transport.cancels + 1]
     ELSE UNCHANGED wire /\ transport' = [transport EXCEPT !.open = FALSE]
  /\ broker' = Zero /\ decoded' = 0 /\ held' = 0
  /\ Returns("reset", "OK")

Initialize ==
  /\ ~ broker.initialized
  /\ broker' = Idle /\ Returns("init", "OK")
  /\ UNCHANGED <<transport, wire, decoded, held>>

BrokerNext ==
  \/ Initialize \/ Reset \/ Cancel
  \/ \E call \in {"request", "bulk_begin", "upload_begin"} : Refused(call) \/ NotOpened(call) \/ NotSent(call)
  \/ Request \/ BulkBegin \/ UploadBegin
  \/ Receive \/ BulkReceive \/ BulkAck \/ BulkFinish
  \/ \E final \in BOOLEAN : UploadSend(final)
  \/ UploadFinish

BrokerSpec == BrokerInit /\ [][BrokerNext]_brokerVars

-----------------------------------------------------------------------------
(* Between calls the transport is open exactly while a session is active:  *)
(* no sequence of calls and failures leaves it open behind an idle broker  *)
(* (every later begin would then be BUSY), or a session on a closed one.   *)
NothingLeaks ==
  /\ broker.opened = transport.open
  /\ broker.active = broker.opened

Of(type) == {i \in 1 .. Len(wire) : wire[i].type = type}

(* What the peer may rely on: a request comes before all but the CANCEL of *)
(* a request that could not be sent, data records count up from zero,      *)
(* COMPLETE has the next number and ends the data, ACKs count up from      *)
(* zero, and an upload that finished had sent all of it.  A cancelled      *)
(* session is over: nothing follows CANCEL, and neither it nor the         *)
(* transport's own cancel comes twice, also when the user cancels again    *)
(* what the broker aborted by itself.                                      *)
WireInOrder ==
  /\ \A i \in 1 .. Len(wire) : IF i = 1 THEN wire[i].type \in {"REQUEST", "CANCEL"} ELSE wire[i].type # "REQUEST"
  /\ \A i \in Of("DATA") \cup Of("COMPLETE") \cup Of("ACK") : wire[i].sequence = i - 2
  /\ \A i \in Of("COMPLETE"), j \in Of("DATA") : j < i
  /\ result.call = "upload_finish" /\ result.status # "STATE" => Of("COMPLETE") # {}
  /\ \A i \in Of("CANCEL") : i = Len(wire)
  /\ transport.cancels > 0 => transport.cancels = 1 /\ ~ broker.active

(* include/pbns/broker.h says of every response that its payload refers to *)
(* the broker's storage until the next request or reset; a user whose last *)
(* call succeeded, and was no cancel, would count on it.                   *)
PayloadUntilNextRequest == held # 0 /\ result.status = "OK" /\ result.call # "cancel" => decoded = held
=============================================================================
