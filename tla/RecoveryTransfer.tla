-------------------------- MODULE RecoveryTransfer --------------------------
(***************************************************************************)
(* One transfer of a recovery image.  The host                             *)
(* (pbns_recovery_live_artifact over the broker's bulk session and the     *)
(* recovery stream) and the gateway (handleArtifact over StreamSender and  *)
(* server.Stream) run concurrently and talk over two ordered byte streams, *)
(* one record at a time.  The link may drop with any suffix of what is in  *)
(* flight, every wait may end in its timeout, and the gateway may run one  *)
(* of its evaluation fault plans.                                          *)
(***************************************************************************)
EXTENDS Integers, Sequences

CONSTANTS Chunk,    \* DataPayloadMax: the bytes of a full DATA record
          Window,   \* ACKWindow, PBNS_RECOVERY_ACK_WINDOW, PBNS_BROKER_BULK_WINDOW
          Sizes     \* the image sizes a manifest may name

ASSUME ChunkAssumption == Chunk \in Nat \ {0}
ASSUME WindowAssumption == Window \in Nat \ {0}
ASSUME SizesAssumption == Sizes \subseteq Nat \ {0}

VARIABLES size,       \* the image size of the verified manifest
          plan,       \* the gateway's evaluation fault, or "none" or "calm"
          host,       \* pbns_recovery_live_artifact: its step, status and pages
          broker,     \* the broker's bulk session
          stream,     \* the recovery stream filling the pages
          gateway,    \* the connection's goroutine and its server.Stream
          sender,     \* the handler's StreamSender
          toHost, toGateway,   \* the records in flight
          up          \* the link between the two carries bytes

hostVars == <<host, broker, stream>>
gatewayVars == <<gateway, sender>>
vars == <<size, plan, hostVars, gatewayVars, toHost, toGateway, up>>

Min(a, b) == IF a < b THEN a ELSE b

---------------------------------------------------------------------------
(* Records                                                                 *)

Types == {"REQUEST", "DATA", "ACK", "ERROR", "CANCEL", "COMPLETE"}
RemoteCodes == {"FORMAT", "TRANSPORT", "AUTHENTICATION", "REPLAY", "IO"}
LocalStatuses == {"OK", "ARGUMENT", "LIMIT", "FORMAT", "MESSAGE_TYPE", "SEQUENCE",
                  "STATE", "TIMEOUT", "TRANSPORT", "CRYPTO", "AUTHENTICATION"}
Statuses == RemoteCodes \cup LocalStatuses

(* `len` counts payload bytes, `good` says they are the artifact's own,    *)
(* `next` is the acknowledged sequence of an ACK, `code` an ERROR's code.  *)
Frame == [type : Types, sequence : Nat, len : Nat, good : BOOLEAN,
          next : Nat, code : Statuses]
Control(type, sequence) == [type |-> type, sequence |-> sequence, len |-> 0,
                            good |-> TRUE, next |-> 0, code |-> "OK"]
Data(sequence, len, good) ==
    [Control("DATA", sequence) EXCEPT !.len = len, !.good = good]
Ack(sequence, next) == [Control("ACK", sequence) EXCEPT !.next = next]
Error(sequence, code) == [Control("ERROR", sequence) EXCEPT !.code = code]

---------------------------------------------------------------------------
(* The host                                                                *)

(* An artifact file may be "changed" under the gateway; under "calm" there *)
(* is no fault, and no timeout, failure or loss of the link either.        *)
Plans == {"calm", "none", "changed", "artifact-digest-mismatch", "chunk-sequence",
          "interrupt"}
HostSteps == {"idle", "receive", "ack", "finish", "failed", "delivered"}
Zeroed == [filled |-> 0, intact |-> TRUE]
Returned == host.pc \in {"failed", "delivered"}

Closed == [opened |-> FALSE, next_sequence |-> 0, received |-> 0,
           next_ack |-> 0, complete |-> FALSE]
NoStream == [next_sequence |-> 0, offset |-> 0, records_since_ack |-> 0]

(* pbns_broker_bulk_receive's verdict on a decoded record: the type, then  *)
(* pbns_stream_accept, then the exact size the session was begun with.     *)
bulk_receive(f) ==
    IF f.type \notin {"DATA", "COMPLETE", "ERROR"} THEN "MESSAGE_TYPE"
    ELSE IF broker.complete THEN "STATE"
    ELSE IF f.sequence # broker.next_sequence THEN "SEQUENCE"
    ELSE IF f.type = "ERROR" THEN f.code
    ELSE IF f.type = "DATA" /\ f.len = 0 THEN "FORMAT"
    ELSE IF f.type = "DATA" /\ f.len > size - broker.received THEN "LIMIT"
    ELSE IF f.type = "COMPLETE" /\ broker.received # size THEN "LIMIT"
    ELSE "OK"

(* pbns_recovery_stream_accept and pbns_recovery_stream_complete.          *)
stream_accept(f) ==
    IF f.sequence # stream.next_sequence THEN "SEQUENCE"
    ELSE IF f.len # Min(Chunk, size - stream.offset) THEN "FORMAT"
    ELSE "OK"

(* A stream that hands the pages out without comparing the digest.         *)
digest_not_compared(f) ==
    IF f.sequence # stream.next_sequence THEN "SEQUENCE"
    ELSE IF stream.offset # size THEN "STATE" ELSE "OK"

stream_complete(f) ==
    IF f.sequence # stream.next_sequence THEN "SEQUENCE"
    ELSE IF stream.offset # size THEN "STATE"
    ELSE IF ~host.pages.intact THEN "AUTHENTICATION"
    ELSE "OK"

(* An ACK ends every window of DATA records, the last one included.        *)
last_window_unacknowledged(f) == /\ stream.records_since_ack + 1 = Window
                                 /\ stream.offset + f.len < size
ack_required(f) == stream.records_since_ack + 1 = Window
records_since_ack(f) == (stream.records_since_ack + 1) % Window

Verdict(f) == IF bulk_receive(f) # "OK" THEN bulk_receive(f)
              ELSE IF f.type = "COMPLETE" THEN stream_complete(f)
              ELSE stream_accept(f)

(* A send that fails may still have put its record on the wire.            *)
Sent(f) == toGateway' = IF up THEN Append(toGateway, f) ELSE toGateway
MaybeSent(f) == toGateway' = toGateway \/ Sent(f)

Return(status) ==
    /\ host' = [pc |-> "failed", status |-> status, pages |-> Zeroed]
    /\ stream' = NoStream
    /\ broker' = Closed

(* The cleanup of an active bulk session: the pages are zeroed, then       *)
(* pbns_broker_cancel emits CANCEL, whatever comes of it, and closes.      *)
cleanup(status) ==
    /\ Return(status)
    /\ MaybeSent(Control("CANCEL", 1))

Begin ==
    /\ host.pc = "idle"
    /\ up
    /\ host' = [host EXCEPT !.pc = "receive"]
    /\ broker' = [Closed EXCEPT !.opened = TRUE]
    /\ stream' = NoStream
    /\ Sent(Control("REQUEST", 0))
    /\ UNCHANGED <<size, plan, gatewayVars, toHost, up>>

(* No nonce or signature, no transport, no deadline left, or a send error: *)
(* bulk_begin closes what it opened and nothing is cancelled.              *)
BeginFails ==
    /\ host.pc = "idle"
    /\ \E status \in {"CRYPTO", "LIMIT", "TIMEOUT", "TRANSPORT"} : Return(status)
    /\ MaybeSent(Control("REQUEST", 0))
    /\ UNCHANGED <<size, plan, gatewayVars, toHost, up>>

AcceptData ==
    /\ host.pc = "receive"
    /\ toHost # <<>>
    /\ toHost' = Tail(toHost)
    /\ LET f == Head(toHost)
       IN /\ f.type = "DATA"
          /\ Verdict(f) = "OK"
          /\ broker' = [broker EXCEPT !.next_sequence = @ + 1,
                                      !.received = @ + f.len]
          /\ stream' = [next_sequence |-> stream.next_sequence + 1,
                        offset |-> stream.offset + f.len,
                        records_since_ack |-> records_since_ack(f)]
          /\ host' = [host EXCEPT
                        !.pc = IF ack_required(f) THEN "ack" ELSE "receive",
                        !.pages = [filled |-> @.filled + f.len,
                                   intact |-> @.intact /\ f.good]]
    /\ UNCHANGED <<size, plan, gatewayVars, toGateway, up>>

AcceptComplete ==
    /\ host.pc = "receive"
    /\ toHost # <<>>
    /\ Head(toHost).type = "COMPLETE"
    /\ Verdict(Head(toHost)) = "OK"
    /\ toHost' = Tail(toHost)
    /\ broker' = [broker EXCEPT !.next_sequence = @ + 1, !.complete = TRUE]
    /\ stream' = [stream EXCEPT !.next_sequence = @ + 1]
    /\ host' = [host EXCEPT !.pc = "finish"]
    /\ UNCHANGED <<size, plan, gatewayVars, toGateway, up>>

RejectFrame ==
    /\ host.pc = "receive"
    /\ toHost # <<>>
    /\ Verdict(Head(toHost)) # "OK"
    /\ toHost' = Tail(toHost)
    /\ cleanup(Verdict(Head(toHost)))
    /\ UNCHANGED <<size, plan, gatewayVars, up>>

(* pbns_broker_bulk_ack: the acknowledged sequence must be the stream's    *)
(* and the end of the window that this ACK closes.                         *)
AckRefused == \/ stream.next_sequence # broker.next_sequence
              \/ stream.next_sequence # (broker.next_ack + 1) * Window

SendAck ==
    /\ host.pc = "ack"
    /\ IF AckRefused THEN cleanup("ARGUMENT")
       ELSE /\ up
            /\ Sent(Ack(broker.next_ack, stream.next_sequence))
            /\ broker' = [broker EXCEPT !.next_ack = @ + 1]
            /\ host' = [host EXCEPT !.pc = "receive"]
            /\ UNCHANGED stream
    /\ UNCHANGED <<size, plan, gatewayVars, toHost, up>>

(* The deadline set by bulk_begin passes, or the transport gives up: at a  *)
(* receive, or at the send of an ACK that may have left all the same.      *)
HostGivesUp ==
    /\ host.pc \in {"receive", "ack"}
    /\ \E status \in {"TIMEOUT", "TRANSPORT"} : Return(status)
    /\ \E ack \in {<<>>} \cup {<<Ack(broker.next_ack, stream.next_sequence)>> :
                                 pc \in {"ack"} \cap {host.pc}},
          cancel \in {<<>>, <<Control("CANCEL", 1)>>} :
          toGateway' = IF up THEN toGateway \o ack \o cancel ELSE toGateway
    /\ UNCHANGED <<size, plan, gatewayVars, toHost, up>>

(* pbns_broker_bulk_finish closes the session; only a session it refuses   *)
(* to finish would stay open.  An error of the close makes the image       *)
(* unusable, and bulk_active is already cleared: nothing is cancelled.     *)
FinishRefused == ~broker.complete \/ broker.received # size

Finish ==
    /\ host.pc = "finish"
    /\ host' = IF FinishRefused
               THEN [pc |-> "failed", status |-> "STATE", pages |-> Zeroed]
               ELSE [host EXCEPT !.pc = "delivered", !.status = "OK"]
    /\ broker' = IF FinishRefused THEN broker ELSE Closed
    /\ stream' = NoStream
    /\ UNCHANGED <<size, plan, gatewayVars, toHost, toGateway, up>>

CloseFails ==
    /\ host.pc = "finish"
    /\ ~FinishRefused
    /\ Return("TRANSPORT")
    /\ UNCHANGED <<size, plan, gatewayVars, toHost, toGateway, up>>

---------------------------------------------------------------------------
(* The gateway                                                             *)

GatewaySteps == {"read", "send", "await", "record", "held", "closed"}
Evaluations == Plans \ {"calm", "none", "changed"}

NewStreamSender == [offset |-> 0, nextSequence |-> 0, nextACK |-> 0, sinceACK |-> 0,
                    awaitingACK |-> FALSE, complete |-> FALSE, failed |-> FALSE]

(* A record written to a connection the host has left goes nowhere.        *)
Written(f) ==
    toHost' = IF up /\ broker.opened THEN Append(toHost, f) ELSE toHost

(* The handler returns a ProtocolError: sender.Cancel, then sendError at   *)
(* the stream's own outbound sequence, then the next request is read.      *)
error_at_sequence_zero(outbound, code) ==
    /\ Written(Error(0, code))
    /\ gateway' = [pc |-> "read", outbound |-> 0]
    /\ sender' = [sender EXCEPT !.failed = TRUE]

sendError(outbound, code) ==
    /\ Written(Error(outbound, code))
    /\ gateway' = [pc |-> "read", outbound |-> 0]
    /\ sender' = [sender EXCEPT !.failed = TRUE]

handleArtifact ==
    /\ gateway.pc = "read"
    /\ toGateway # <<>>
    /\ Head(toGateway).type = "REQUEST"
    /\ toGateway' = Tail(toGateway)
    /\ gateway' = [pc |-> "send", outbound |-> 0]
    /\ sender' = NewStreamSender
    /\ UNCHANGED <<size, plan, hostVars, toHost, up>>

(* A signature that does not verify, a digest that is no longer the active *)
(* one, or a repository that cannot open it.                               *)
RefuseRequest ==
    /\ gateway.pc = "read"
    /\ toGateway # <<>>
    /\ Head(toGateway).type = "REQUEST"
    /\ toGateway' = Tail(toGateway)
    /\ \E code \in {"AUTHENTICATION", "REPLAY", "IO"} : sendError(0, code)
    /\ UNCHANGED <<size, plan, hostVars, up>>

(* What the host sent to a handler that has returned is read as a request. *)
StrayFrame ==
    /\ gateway.pc = "read"
    /\ toGateway # <<>>
    /\ Head(toGateway).type # "REQUEST"
    /\ toGateway' = Tail(toGateway)
    /\ sendError(0, "FORMAT")
    /\ UNCHANGED <<size, plan, hostVars, up>>

(* Where the handler's loop goes from sender s: plan.record comes first    *)
(* when there is a plan, and DATA 7 is where the interrupt plan stops.     *)
Resume(s) == IF s.complete THEN "read"
             ELSE IF s.awaitingACK /\ plan = "interrupt" /\ s.nextSequence = Window
                  THEN "held"
             ELSE IF s.awaitingACK THEN "await" ELSE "send"
Continue(s) == IF plan \in Evaluations THEN "record" ELSE Resume(s)

(* Backpressure starts at the ACKWindow-th record.                         *)
awaitsACK(sinceACK) == sinceACK = Window

(* StreamSender.Next and the write of the DATA record it returns.          *)
SendData ==
    /\ gateway.pc = "send"
    /\ sender.offset < size
    /\ LET length == Min(Chunk, size - sender.offset)
           sequence == IF plan = "chunk-sequence" /\ sender.nextSequence = 1
                       THEN 2 ELSE sender.nextSequence
           injected == plan = "artifact-digest-mismatch" /\ sender.nextSequence = 0
           window == sender.sinceACK + 1
       IN /\ sender' = [sender EXCEPT !.offset = @ + length,
                                      !.nextSequence = @ + 1,
                                      !.sinceACK = window,
                                      !.awaitingACK = awaitsACK(window)]
          /\ \E good \in IF plan = "changed" THEN BOOLEAN ELSE {~injected} :
                Written(Data(sequence, length, good))
          /\ gateway' = [pc |-> Continue(sender'), outbound |-> sequence + 1]
    /\ UNCHANGED <<size, plan, hostVars, toGateway, up>>

(* COMPLETE follows the last record; a partly filled window is not acked.  *)
last_ack_expected == sender.offset = size /\ sender.sinceACK = 0
CompleteDue == sender.offset = size

SendComplete ==
    /\ gateway.pc = "send"
    /\ CompleteDue
    /\ sender' = [sender EXCEPT !.complete = TRUE]
    /\ Written(Control("COMPLETE", sender.nextSequence))
    /\ gateway' = [pc |-> Continue(sender'), outbound |-> sender.nextSequence + 1]
    /\ UNCHANGED <<size, plan, hostVars, toGateway, up>>

Record ==
    /\ gateway.pc = "record"
    /\ \/ /\ gateway' = [gateway EXCEPT !.pc = Resume(sender)]
          /\ UNCHANGED <<sender, toHost>>
       \/ sendError(gateway.outbound, "IO")
    /\ UNCHANGED <<size, plan, hostVars, toGateway, up>>

(* StreamSender.AcceptACK, under the type check of server.Stream.Receive.  *)
AcceptACK(f) == /\ f.type = "ACK"
                /\ f.sequence = sender.nextACK
                /\ f.next = sender.nextSequence

ReceiveACK ==
    /\ gateway.pc = "await"
    /\ toGateway # <<>>
    /\ toGateway' = Tail(toGateway)
    /\ AcceptACK(Head(toGateway))
    /\ sender' = [sender EXCEPT !.nextACK = @ + 1, !.sinceACK = 0,
                                !.awaitingACK = FALSE]
    /\ gateway' = [gateway EXCEPT !.pc = Continue(sender')]
    /\ UNCHANGED <<size, plan, hostVars, toHost, up>>

RefuseACK ==
    /\ gateway.pc = "await"
    /\ toGateway # <<>>
    /\ toGateway' = Tail(toGateway)
    /\ ~AcceptACK(Head(toGateway))
    /\ sendError(gateway.outbound,
                 IF Head(toGateway).type = "CANCEL" THEN "TRANSPORT" ELSE "FORMAT")
    /\ UNCHANGED <<size, plan, hostVars, up>>

(* A read of the artifact fails, or the close before COMPLETE.             *)
ReadFails ==
    /\ gateway.pc = "send"
    /\ sendError(gateway.outbound, "IO")
    /\ UNCHANGED <<size, plan, hostVars, toGateway, up>>

(* The transfer timeout passes, or Receive fails by its own timeout.       *)
TransferExpires ==
    /\ gateway.pc \in {"send", "await"}
    /\ sendError(gateway.outbound, "TRANSPORT")
    /\ UNCHANGED <<size, plan, hostVars, toGateway, up>>

(* The connection ends: a read or write error, or the server's shutdown.   *)
GatewayCloses ==
    /\ gateway.pc # "closed"
    /\ gateway' = [gateway EXCEPT !.pc = "closed"]
    /\ sender' = [sender EXCEPT !.failed = TRUE]
    /\ UNCHANGED <<size, plan, hostVars, toHost, toGateway, up>>

---------------------------------------------------------------------------
(* The link: transport, bridge and network.                                *)
LinkDrops ==
    /\ up
    /\ up' = FALSE
    /\ \E n \in 0 .. Len(toHost) : toHost' = SubSeq(toHost, 1, n)
    /\ \E n \in 0 .. Len(toGateway) : toGateway' = SubSeq(toGateway, 1, n)
    /\ UNCHANGED <<size, plan, hostVars, gatewayVars>>

Init ==
    /\ size \in Sizes
    /\ plan \in Plans
    /\ host = [pc |-> "idle", status |-> "OK", pages |-> Zeroed]
    /\ broker = Closed
    /\ stream = NoStream
    /\ gateway = [pc |-> "read", outbound |-> 0]
    /\ sender = NewStreamSender
    /\ toHost = <<>>
    /\ toGateway = <<>>
    /\ up = TRUE

Progress ==
    \/ Begin \/ AcceptData \/ AcceptComplete \/ RejectFrame \/ SendAck \/ Finish
    \/ handleArtifact \/ StrayFrame \/ SendData \/ SendComplete \/ Record
    \/ ReceiveACK \/ RefuseACK

Trouble ==
    /\ plan # "calm"
    /\ \/ BeginFails \/ HostGivesUp \/ CloseFails
       \/ RefuseRequest \/ ReadFails \/ TransferExpires \/ GatewayCloses
       \/ LinkDrops

Next == Progress \/ Trouble

(* Each end takes its next step when it can: neither the host's receive    *)
(* loop nor the connection's goroutine stops by itself.                    *)
Spec == Init /\ [][Next]_vars /\ WF_vars(Progress)

---------------------------------------------------------------------------
(* Properties                                                              *)

(* pbns_recovery_live_artifact returns OK only with every byte of the      *)
(* artifact in the caller's pages; on any other return the pages are       *)
(* zeroed; and on every return the broker session is closed, so that the   *)
(* next request does not find the broker BUSY.                             *)
AllOrNothing ==
    /\ host.pc = "delivered" => host.pages = [filled |-> size, intact |-> TRUE]
    /\ host.pc = "failed" => host.pages = Zeroed
    /\ Returned => ~broker.opened

(* The two ends never wait for each other: when the handler waits for an   *)
(* ACK and no record is in flight, the host is not waiting for a record.   *)
(* The last window of an image of a multiple of Window records is the      *)
(* case to get wrong: it too is acknowledged before COMPLETE.              *)
NoMutualWait ==
    ~ /\ up
      /\ gateway.pc = "await" /\ toGateway = <<>>
      /\ host.pc = "receive" /\ toHost = <<>>

(* The ends never disagree about the protocol.  Unless the gateway runs    *)
(* its chunk-sequence fault, no record the host takes is out of sequence,  *)
(* of a wrong length or type, or beyond the image (an ERROR record too     *)
(* arrives at the sequence the host expects, whatever the handler was      *)
(* doing), the broker accepts every acknowledgement the stream asks for,   *)
(* and every ACK the handler takes is the one it waits for.                *)
EndsAgree ==
    plan # "chunk-sequence" =>
      /\ host.pc = "receive" /\ toHost # <<>> =>
            Verdict(Head(toHost)) \notin {"ARGUMENT", "LIMIT", "FORMAT",
                                          "MESSAGE_TYPE", "SEQUENCE", "STATE"}
      /\ host.pc = "ack" => ~AckRefused
      /\ host.pc = "finish" => ~FinishRefused
      /\ gateway.pc = "await" /\ toGateway # <<>> =>
            AcceptACK(Head(toGateway)) \/ Head(toGateway).type = "CANCEL"

(* A transfer that nothing disturbs delivers the image, for every size:    *)
(* neither end stops short or waits for a record the other will not send.  *)
Delivers == plan = "calm" ~> host.pc = "delivered"
=============================================================================
