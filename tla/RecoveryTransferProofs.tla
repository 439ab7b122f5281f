----------------------- MODULE RecoveryTransferProofs -----------------------
(***************************************************************************)
(* RecoveryTransfer for every record size, every window and every image:   *)
(* a transfer delivers the whole image or nothing, the two ends never wait *)
(* for each other, and unless the gateway runs its chunk-sequence fault    *)
(* neither end ever takes a record the other should not have sent.         *)
(*                                                                         *)
(* What makes it inductive: the position of a record in the image is fixed *)
(* by its sequence number; while the link is up, what the handler has sent *)
(* is what the host has taken and what is in flight; and at most one ACK   *)
(* is in flight, the one that ends the window the handler is in.           *)
(***************************************************************************)
EXTENDS RecoveryTransfer, TLAPS

(* The bytes before record n, and in it.                                   *)
Offset(n) == Min(n * Chunk, size)
Length(n) == Min(Chunk, size - Offset(n))

HostRecord == [pc : HostSteps, status : Statuses, pages : [filled : Nat, intact : BOOLEAN]]
BrokerRecord ==
  [opened : BOOLEAN, next_sequence : Nat, received : Nat, next_ack : Nat, complete : BOOLEAN]
StreamRecord == [next_sequence : Nat, offset : Nat, records_since_ack : Nat]
GatewayRecord == [pc : GatewaySteps, outbound : Nat]
SenderRecord ==
  [offset : Nat, nextSequence : Nat, nextACK : Nat, sinceACK : Nat,
   awaitingACK : BOOLEAN, complete : BOOLEAN, failed : BOOLEAN]

TypeInv ==
  /\ size \in Nat /\ plan \in Plans /\ up \in BOOLEAN
  /\ host \in HostRecord
  /\ broker \in BrokerRecord
  /\ stream \in StreamRecord
  /\ gateway \in GatewayRecord
  /\ sender \in SenderRecord
  /\ toHost \in Seq(Frame) /\ toGateway \in Seq(Frame)

Running == host.pc \in {"receive", "ack"}
Serving == gateway.pc \in {"send", "await", "record", "held"}

(* The host's own books: the broker, the stream and the pages agree, and   *)
(* an acknowledgement is due exactly at the end of a window.               *)
HostInv ==
  /\ Running =>
       /\ broker.opened /\ ~broker.complete
       /\ stream.next_sequence = broker.next_sequence
       /\ broker.received = Offset(broker.next_sequence) /\ stream.offset = broker.received
       /\ host.pages.filled = broker.received
  /\ host.pc = "receive" =>
       /\ stream.records_since_ack < Window
       /\ broker.next_sequence = broker.next_ack * Window + stream.records_since_ack
  /\ host.pc = "ack" =>
       stream.records_since_ack = 0 /\ broker.next_sequence = (broker.next_ack + 1) * Window
  /\ host.pc = "finish" =>
       broker.complete /\ broker.received = size /\ host.pages = [filled |-> size, intact |-> TRUE]
  /\ host.pc = "delivered" => host.pages = [filled |-> size, intact |-> TRUE]
  /\ host.pc \in {"idle", "failed"} => host.pages = Zeroed
  /\ Returned => ~broker.opened

(* The sequence number of the next record the handler sends.               *)
Due == sender.nextSequence + (IF sender.complete THEN 1 ELSE 0)

SenderInv ==
  /\ sender.offset = Offset(sender.nextSequence)
  /\ sender.nextSequence = sender.nextACK * Window + sender.sinceACK
  /\ sender.sinceACK <= Window /\ (sender.awaitingACK <=> sender.sinceACK = Window)
  /\ gateway.pc = "send" => ~sender.complete /\ ~sender.awaitingACK
  /\ gateway.pc \in {"await", "held"} => ~sender.complete /\ sender.awaitingACK
  /\ Serving /\ plan # "chunk-sequence" => gateway.outbound = Due

(* Record f is one that a host expecting number n can be sent.             *)
DataAt(f, n) == f.type = "DATA" /\ f.sequence = n /\ f.len = Length(n) /\ Offset(n) < size
CompleteAt(f, n) == f.type = "COMPLETE" /\ f.sequence = n /\ Offset(n) = size
ErrorAt(f, n) == f.type = "ERROR" /\ f.sequence = n /\ f.code \in {"AUTHENTICATION", "REPLAY", "IO", "TRANSPORT"}
Expected(f, n) == DataAt(f, n) \/ CompleteAt(f, n) \/ ErrorAt(f, n)

(* The host stops at one of the first i records: what follows is not read. *)
Ended(i) == \E j \in 1 .. i : toHost[j].type # "DATA"

(* What is in flight to a host that is still reading.                      *)
ContentInv ==
  Running /\ plan # "chunk-sequence" =>
    \A i \in 1 .. Len(toHost) : Ended(i - 1) \/ Expected(toHost[i], broker.next_sequence + i - 1)

BoundInv == Running => \A i \in 0 .. Len(toHost) : Ended(i) \/ broker.next_sequence + i <= sender.nextSequence

CountInv == up /\ Running /\ Serving => broker.next_sequence + Len(toHost) = Due

Requested == toGateway # <<>> /\ toGateway[1].type = "REQUEST"

EndInv ==
  up /\ Running /\ (gateway.pc = "read" \/ (Serving /\ sender.complete)) => Requested \/ Ended(Len(toHost))

(* Before the request is read nothing has been sent to the host.           *)
RequestInv ==
  /\ host.pc = "idle" => toGateway = <<>>
  /\ host.pc = "idle" \/ Requested =>
       gateway.pc \in {"read", "closed"} /\ toHost = <<>> /\ sender.nextSequence = 0 /\ sender.nextACK = 0

(* What is in flight to the gateway.                                       *)
WireInv ==
  \A i \in 1 .. Len(toGateway) :
    \/ toGateway[i].type = "REQUEST" /\ i = 1
    \/ /\ toGateway[i].type = "ACK" /\ i = 1
       /\ toGateway[i].sequence = sender.nextACK /\ toGateway[i].next = (sender.nextACK + 1) * Window
       /\ Running => broker.next_ack = sender.nextACK + 1
    \/ toGateway[i].type = "CANCEL" /\ Returned

AckInv ==
  Running =>
    /\ broker.next_ack = sender.nextACK \/ broker.next_ack = sender.nextACK + 1
    /\ up /\ Serving /\ broker.next_ack # sender.nextACK => toGateway # <<>> /\ toGateway[1].type = "ACK"

TransferInv ==
  /\ TypeInv /\ HostInv /\ SenderInv
  /\ ContentInv /\ BoundInv /\ CountInv /\ EndInv
  /\ RequestInv /\ WireInv /\ AckInv

-----------------------------------------------------------------------------
(* Sequences, positions in the image, and windows.                         *)
LEMMA AppendFacts ==
  ASSUME NEW S, NEW s \in Seq(S), NEW e \in S
  PROVE  /\ Append(s, e) \in Seq(S) /\ Append(s, e) # <<>>
         /\ Len(s) \in Nat /\ Len(Append(s, e)) = Len(s) + 1
         /\ Append(s, e)[Len(s) + 1] = e
         /\ \A i \in 1 .. Len(s) : Append(s, e)[i] = s[i]
OBVIOUS

LEMMA TailFacts ==
  ASSUME NEW S, NEW s \in Seq(S), s # <<>>
  PROVE  /\ Head(s) = s[1] /\ s[1] \in S
         /\ Tail(s) \in Seq(S) /\ Len(s) \in Nat \ {0} /\ Len(Tail(s)) = Len(s) - 1
         /\ \A i \in 1 .. Len(s) - 1 : Tail(s)[i] = s[i + 1]
OBVIOUS

LEMMA PrefixFacts ==
  ASSUME NEW S, NEW s \in Seq(S), NEW n \in 0 .. Len(s)
  PROVE  /\ SubSeq(s, 1, n) \in Seq(S) /\ Len(SubSeq(s, 1, n)) = n
         /\ \A i \in 1 .. n : SubSeq(s, 1, n)[i] = s[i]
OBVIOUS

LEMMA JoinFacts ==
  ASSUME NEW a, NEW b
  PROVE  <<>> \o <<a>> \o <<>> = <<a>> /\ <<>> \o <<a>> \o <<b>> = <<a, b>>
<1>1. <<>> \o <<a>> = <<a>>
  OBVIOUS
<1>2. <<a>> \o <<>> = <<a>>
  OBVIOUS
<1>3. <<a>> \o <<b>> = <<a, b>>
  <2> DEFINE s == <<a>> \o <<b>>
             t == <<a, b>>
  <2>1. /\ s \in Seq({a, b}) /\ Len(s) = 2 /\ s[1] = a /\ s[2] = b
        /\ t \in Seq({a, b}) /\ Len(t) = 2 /\ t[1] = a /\ t[2] = b
    OBVIOUS
  <2>2. DOMAIN s = 1 .. 2 /\ DOMAIN t = 1 .. 2
    BY <2>1
  <2>3. s = [i \in DOMAIN s |-> s[i]] /\ t = [i \in DOMAIN t |-> t[i]]
    OBVIOUS
  <2>4. \A i \in 1 .. 2 : s[i] = t[i]
    BY <2>1
  <2> QED
    BY <2>2, <2>3, <2>4, Zenon
<1> QED
  BY <1>1, <1>2, <1>3

LEMMA FrameFacts ==
  ASSUME NEW n \in Nat
  PROVE  /\ \A t \in Types : Control(t, n) \in Frame /\ Control(t, n).type = t /\ Control(t, n).sequence = n
         /\ \A l \in Nat, g \in BOOLEAN :
              /\ Data(n, l, g) \in Frame /\ Data(n, l, g).type = "DATA"
              /\ Data(n, l, g).sequence = n /\ Data(n, l, g).len = l
         /\ \A m \in Nat :
              /\ Ack(n, m) \in Frame /\ Ack(n, m).type = "ACK"
              /\ Ack(n, m).sequence = n /\ Ack(n, m).next = m
         /\ \A code \in Statuses :
              /\ Error(n, code) \in Frame /\ Error(n, code).type = "ERROR"
              /\ Error(n, code).sequence = n /\ Error(n, code).code = code
<1>1. \A t \in Types : Control(t, n) \in Frame /\ Control(t, n).type = t /\ Control(t, n).sequence = n
  BY DEF Control, Frame, Types, Statuses, LocalStatuses
<1>2. "DATA" \in Types /\ "ACK" \in Types /\ "ERROR" \in Types
  BY DEF Types
<1>3. ASSUME NEW l \in Nat, NEW g \in BOOLEAN
      PROVE  /\ Data(n, l, g) \in Frame /\ Data(n, l, g).type = "DATA"
             /\ Data(n, l, g).sequence = n /\ Data(n, l, g).len = l
  BY <1>2, Zenon DEF Data, Control, Frame, Statuses, LocalStatuses
<1>4. ASSUME NEW m \in Nat
      PROVE  /\ Ack(n, m) \in Frame /\ Ack(n, m).type = "ACK"
             /\ Ack(n, m).sequence = n /\ Ack(n, m).next = m
  BY <1>2, Zenon DEF Ack, Control, Frame, Statuses, LocalStatuses
<1>5. ASSUME NEW code \in Statuses
      PROVE  /\ Error(n, code) \in Frame /\ Error(n, code).type = "ERROR"
             /\ Error(n, code).sequence = n /\ Error(n, code).code = code
  BY <1>2, Zenon DEF Error, Control, Frame
<1> QED
  BY <1>1, <1>3, <1>4, <1>5

(* Record n starts where record n - 1 ends, and only records before the    *)
(* end of the image have bytes.                                            *)
LEMMA OffsetNext ==
  ASSUME size \in Nat, NEW n \in Nat
  PROVE  /\ Offset(0) = 0 /\ Offset(n) \in Nat /\ Offset(n) <= size
         /\ Length(n) \in Nat /\ Length(n) <= size - Offset(n)
         /\ Offset(n + 1) = Offset(n) + Length(n)
         /\ Offset(n) < size => Length(n) > 0
<1>1. PICK c \in Nat : c = Chunk /\ c > 0
  BY ChunkAssumption
<1>2. PICK m \in Nat : m = n * c
  OBVIOUS
<1>3. (n + 1) * c = m + c /\ 0 * c = 0
  BY <1>2
<1>4. /\ Offset(n) = (IF m < size THEN m ELSE size)
      /\ Offset(n + 1) = (IF m + c < size THEN m + c ELSE size)
      /\ Offset(0) = (IF 0 < size THEN 0 ELSE size)
  BY <1>1, <1>2, <1>3 DEF Offset, Min
<1>5. Length(n) = (IF c < size - Offset(n) THEN c ELSE size - Offset(n))
  BY <1>1 DEF Length, Min
<1> QED
  BY <1>1, <1>4, <1>5

LEMMA WindowNext ==
  ASSUME NEW r \in Nat, r < Window
  PROVE  (r + 1) % Window = IF r + 1 = Window THEN 0 ELSE r + 1
BY WindowAssumption

LEMMA WindowProduct ==
  ASSUME NEW a \in Nat
  PROVE  Window \in Nat /\ Window > 0 /\ a * Window \in Nat /\ (a + 1) * Window = a * Window + Window
         /\ 0 * Window = 0
BY WindowAssumption

(* The fields of the records.                                              *)
LEMMA Typed ==
  ASSUME TransferInv
  PROVE  /\ host \in HostRecord /\ broker \in BrokerRecord /\ stream \in StreamRecord
         /\ gateway \in GatewayRecord /\ sender \in SenderRecord
         /\ toHost \in Seq(Frame) /\ toGateway \in Seq(Frame) /\ size \in Nat
BY DEF TransferInv, TypeInv

LEMMA Numbers ==
  ASSUME TypeInv
  PROVE  /\ size \in Nat /\ host.pages.filled \in Nat
         /\ broker.next_sequence \in Nat /\ broker.received \in Nat /\ broker.next_ack \in Nat
         /\ stream.next_sequence \in Nat /\ stream.offset \in Nat /\ stream.records_since_ack \in Nat
         /\ gateway.outbound \in Nat
         /\ sender.offset \in Nat /\ sender.nextSequence \in Nat /\ sender.nextACK \in Nat /\ sender.sinceACK \in Nat
BY DEF TypeInv, HostRecord, BrokerRecord, StreamRecord, GatewayRecord, SenderRecord

-----------------------------------------------------------------------------
(* What is in flight to the host.                                          *)

(* The host takes a DATA record.                                           *)
LEMMA PopKeeps ==
  ASSUME TransferInv, Running, toHost # <<>>, toHost[1].type = "DATA", toHost' = Tail(toHost),
         broker'.next_sequence = broker.next_sequence + 1,
         UNCHANGED <<size, plan, up, gateway, sender, toGateway>>
  PROVE  ContentInv' /\ BoundInv' /\ CountInv' /\ EndInv'
<1>1. PICK l \in Nat, n \in Nat, q \in Nat :
        l = Len(toHost) /\ l > 0 /\ n = broker.next_sequence /\ q = sender.nextSequence /\ Len(toHost') = l - 1
  <2>1. Len(toHost) \in Nat /\ Len(toHost) > 0 /\ Len(toHost') = Len(toHost) - 1
    BY TailFacts, Typed
  <2> QED
    BY <2>1, Numbers, Zenon DEF TransferInv
<1>2. \A i \in 1 .. l - 1 : toHost'[i] = toHost[i + 1]
  BY <1>1, TailFacts, Typed
<1>3. \A i \in 0 .. l - 1 : Ended(i + 1) => Ended(i)'
  <2> SUFFICES ASSUME NEW i \in 0 .. l - 1, NEW j \in 1 .. i + 1, toHost[j].type # "DATA"
               PROVE  \E k \in 1 .. i : toHost'[k].type # "DATA"
    BY Zenon DEF Ended
  <2>1. j # 1
    OBVIOUS
  <2>2. j - 1 \in 1 .. i /\ j - 1 \in 1 .. l - 1 /\ (j - 1) + 1 = j
    BY <2>1, <1>1
  <2>3. toHost'[j - 1] = toHost[j]
    BY <1>2, <2>2, Zenon
  <2> QED
    BY <2>2, <2>3, Zenon
<1>4. ContentInv'
  <2> SUFFICES ASSUME plan # "chunk-sequence", NEW i \in 1 .. l - 1
               PROVE  Ended(i - 1)' \/ Expected(toHost'[i], n + 1 + i - 1)
    BY <1>1 DEF ContentInv, Expected, DataAt, CompleteAt, ErrorAt, Length, Offset
  <2>1. i + 1 \in 1 .. l /\ (i + 1) - 1 = i /\ n + (i + 1) - 1 = n + 1 + i - 1 /\ i - 1 \in 0 .. l - 1 /\ (i - 1) + 1 = i
    OBVIOUS
  <2>2. Ended(i) \/ Expected(toHost[i + 1], n + 1 + i - 1)
    BY <1>1, <2>1 DEF TransferInv, ContentInv
  <2> QED
    BY <1>2, <1>3, <2>1, <2>2, Zenon
<1>5. BoundInv'
  <2> SUFFICES ASSUME NEW i \in 0 .. l - 1 PROVE Ended(i)' \/ (n + 1) + i <= q
    BY <1>1 DEF BoundInv
  <2>1. Ended(i + 1) \/ n + (i + 1) <= q
    BY <1>1 DEF TransferInv, BoundInv
  <2> QED
    BY <1>1, <1>3, <2>1
<1>6. CountInv'
  <2> SUFFICES ASSUME up, Serving PROVE (n + 1) + (l - 1) = Due
    BY <1>1 DEF CountInv, Serving, Due
  <2>1. n + l = Due
    BY <1>1 DEF TransferInv, CountInv
  <2>2. (n + 1) + (l - 1) = n + l
    OBVIOUS
  <2> QED
    BY <2>1, <2>2
<1>7. EndInv'
  <2>1. Ended(l) => Ended(l - 1)'
    BY <1>1, <1>3
  <2> QED
    BY <1>1, <2>1 DEF TransferInv, EndInv, Serving, Requested
<1> QED
  BY <1>4, <1>5, <1>6, <1>7, Zenon

(* The host and what is in flight to it are left alone.                    *)
LEMMA FlightUntouched ==
  ASSUME ContentInv, Running' => Running, broker'.next_sequence = broker.next_sequence,
         UNCHANGED <<size, plan, toHost>>
  PROVE  ContentInv'
<1> SUFFICES ASSUME Running', plan # "chunk-sequence", NEW i \in 1 .. Len(toHost)
             PROVE  Ended(i - 1)' \/ Expected(toHost[i], broker.next_sequence + i - 1)'
  BY DEF ContentInv
<1>1. Ended(i - 1) \/ Expected(toHost[i], broker.next_sequence + i - 1)
  BY DEF ContentInv
<1>2. Ended(i - 1)' <=> Ended(i - 1)
  BY DEF Ended
<1>3. Expected(toHost[i], broker.next_sequence + i - 1)' <=> Expected(toHost[i], broker.next_sequence + i - 1)
  BY DEF Expected, DataAt, CompleteAt, ErrorAt, Length, Offset
<1> QED
  BY <1>1, <1>2, <1>3

(* The gateway writes record f.                                            *)
LEMMA WriteKeeps ==
  ASSUME TransferInv, NEW f \in Frame, Written(f), UNCHANGED <<size, plan, up, host, broker>>,
         sender'.nextSequence \in Nat,
         sender'.nextSequence >= sender.nextSequence + (IF f.type = "DATA" THEN 1 ELSE 0),
         up /\ Running /\ plan # "chunk-sequence" =>
           Ended(Len(toHost)) \/ Expected(f, broker.next_sequence + Len(toHost))
  PROVE  /\ ContentInv' /\ BoundInv' /\ toHost' \in Seq(Frame)
         /\ up /\ Running =>
              /\ Len(toHost') = Len(toHost) + 1
              /\ Ended(Len(toHost)) \/ f.type # "DATA" => Ended(Len(toHost))'
<1>1. PICK l \in Nat, n \in Nat, q \in Nat, r \in Nat :
        l = Len(toHost) /\ n = broker.next_sequence /\ q = sender.nextSequence /\ r = sender'.nextSequence
  <2>1. Len(toHost) \in Nat
    BY Typed
  <2>2. broker.next_sequence \in Nat /\ sender.nextSequence \in Nat
    BY Numbers DEF TransferInv
  <2> QED
    BY <2>1, <2>2, Zenon
<1>5. r >= q /\ (f.type = "DATA" => r >= q + 1)
  <2>1. CASE f.type = "DATA"
    <3>1. r >= q + 1
      BY <1>1, <2>1
    <3> QED
      BY <3>1
  <2>2. CASE f.type # "DATA"
    <3>1. r >= q + 0
      BY <1>1, <2>2
    <3> QED
      BY <2>2, <3>1
  <2> QED
    BY <2>1, <2>2
<1>2. CASE ~ Running
  BY <1>2, AppendFacts, Typed DEF Written, TransferInv, ContentInv, BoundInv, Running
<1>3. CASE Running /\ ~ up
  <2>1. toHost' = toHost
    BY <1>3 DEF Written
  <2>2. ContentInv'
    BY <2>1, FlightUntouched DEF TransferInv, Running
  <2>3. BoundInv'
    <3> SUFFICES ASSUME NEW i \in 0 .. l PROVE Ended(i)' \/ n + i <= r
      BY <1>1, <2>1 DEF BoundInv
    <3>1. Ended(i) \/ n + i <= q
      BY <1>1, <1>3 DEF TransferInv, BoundInv
    <3>2. Ended(i)' <=> Ended(i)
      BY <2>1 DEF Ended
    <3>3. n + i <= q => n + i <= r
      BY <1>5
    <3> QED
      BY <3>1, <3>2, <3>3
  <2> QED
    BY <1>3, <2>1, <2>2, <2>3, Typed
<1>4. CASE Running /\ up
  <2>1. toHost' = Append(toHost, f)
    BY <1>4 DEF Written, TransferInv, HostInv
  <2>2. /\ toHost' \in Seq(Frame) /\ Len(toHost') = l + 1 /\ toHost'[l + 1] = f
        /\ \A i \in 1 .. l : toHost'[i] = toHost[i]
    BY <1>1, <2>1, AppendFacts, Typed
  <2>3. \A i \in 0 .. l : Ended(i)' <=> Ended(i)
    <3> SUFFICES ASSUME NEW i \in 0 .. l PROVE Ended(i)' <=> Ended(i)
      OBVIOUS
    <3>1. \A j \in 1 .. i : j \in 1 .. l
      OBVIOUS
    <3>2. \A j \in 1 .. i : toHost'[j] = toHost[j]
      BY <2>2, <3>1
    <3> QED
      BY <3>2 DEF Ended
  <2>4. Ended(l) \/ f.type # "DATA" <=> Ended(l + 1)'
    <3>1. Ended(l + 1)' <=> \E j \in 1 .. l + 1 : toHost'[j].type # "DATA"
      BY DEF Ended
    <3>2. \A j \in 1 .. l + 1 : j \in 1 .. l \/ j = l + 1
      OBVIOUS
    <3>3. Ended(l) <=> \E j \in 1 .. l : toHost[j].type # "DATA"
      BY DEF Ended
    <3> QED
      BY <2>2, <3>1, <3>2, <3>3
  <2>5. ContentInv'
    <3> SUFFICES ASSUME plan # "chunk-sequence", NEW i \in 1 .. l + 1
                 PROVE  Ended(i - 1)' \/ Expected(toHost'[i], n + i - 1)
      BY <1>1, <2>2 DEF ContentInv, Expected, DataAt, CompleteAt, ErrorAt, Length, Offset
    <3>1. CASE i = l + 1
      <4>1. n + i - 1 = n + l /\ i - 1 = l /\ l \in 0 .. l
        BY <3>1
      <4>2. Ended(l) \/ Expected(f, n + l)
        BY <1>1, <1>4
      <4> QED
        BY <2>2, <2>3, <3>1, <4>1, <4>2
    <3>2. CASE i # l + 1
      <4>1. i \in 1 .. l /\ i - 1 \in 0 .. l
        BY <3>2
      <4>2. Ended(i - 1) \/ Expected(toHost[i], n + i - 1)
        BY <1>1, <1>4, <4>1 DEF TransferInv, ContentInv
      <4> QED
        BY <2>2, <2>3, <4>1, <4>2
    <3> QED
      BY <3>1, <3>2
  <2>6. BoundInv'
    <3> SUFFICES ASSUME NEW i \in 0 .. l + 1 PROVE Ended(i)' \/ n + i <= r
      BY <1>1, <2>2 DEF BoundInv
    <3>1. \A k \in 0 .. l : Ended(k) \/ n + k <= q
      BY <1>1, <1>4 DEF TransferInv, BoundInv
    <3>2. CASE i = l + 1
      <4>1. Ended(l) \/ n + l <= q
        BY <3>1
      <4>2. f.type = "DATA" /\ n + l <= q => n + (l + 1) <= r
        BY <1>5
      <4> QED
        BY <2>4, <3>2, <4>1, <4>2
    <3>3. CASE i # l + 1
      <4>1. i \in 0 .. l
        BY <3>3
      <4>2. n + i <= q => n + i <= r
        BY <1>5
      <4> QED
        BY <2>3, <3>1, <4>1, <4>2
    <3> QED
      BY <3>2, <3>3
  <2>7. Ended(Len(toHost)) \/ f.type # "DATA" => Ended(Len(toHost))'
    BY <1>1, <2>2, <2>4 DEF Ended
  <2> QED
    BY <1>1, <2>2, <2>5, <2>6, <2>7
<1> QED
  BY <1>2, <1>3, <1>4

-----------------------------------------------------------------------------
(* The gateway's steps.                                                    *)
LEMMA HostUntouched ==
  ASSUME HostInv, UNCHANGED <<size, host, broker, stream>>
  PROVE  HostInv' /\ (Running' <=> Running) /\ (Returned' <=> Returned)
BY DEF HostInv, Running, Returned, Offset

(* A record the gateway has read: behind it only a CANCEL can follow.      *)
LEMMA TakenKeeps ==
  ASSUME TransferInv, toGateway # <<>>, toGateway' = Tail(toGateway), UNCHANGED <<host, broker>>
  PROVE  toGateway' \in Seq(Frame) /\ WireInv' /\ ~ Requested'
<1>1. PICK l \in Nat : l = Len(toGateway) /\ l > 0 /\ Len(toGateway') = l - 1
  BY TailFacts, Typed
<1>2. toGateway' \in Seq(Frame) /\ \A i \in 1 .. l - 1 : toGateway'[i] = toGateway[i + 1]
  BY <1>1, TailFacts, Typed
<1>3. ASSUME NEW i \in 1 .. l - 1 PROVE toGateway'[i].type = "CANCEL" /\ Returned
  <2>1. i + 1 \in 1 .. l /\ i + 1 # 1
    OBVIOUS
  <2> QED
    BY <1>1, <1>2, <2>1 DEF TransferInv, WireInv
<1>4. WireInv'
  BY <1>1, <1>3 DEF WireInv, Returned
<1>5. ~ Requested'
  <2> SUFFICES ASSUME toGateway' # <<>> PROVE toGateway'[1].type # "REQUEST"
    BY DEF Requested
  <2>1. 1 \in 1 .. l - 1
    <3>1. Len(toGateway') # 0
      BY <1>2
    <3> QED
      BY <1>1, <3>1
  <2> QED
    BY <1>3, <2>1, Zenon
<1> QED
  BY <1>2, <1>4, <1>5

(* The first record on the wire, and what the handler waits for.           *)
LEMMA FirstFrame ==
  ASSUME TransferInv, toGateway # <<>>
  PROVE  /\ Head(toGateway) = toGateway[1] /\ toGateway[1] \in Frame /\ host.pc # "idle"
         /\ \/ Requested
            \/ /\ toGateway[1].type = "ACK" /\ toGateway[1].sequence = sender.nextACK
               /\ toGateway[1].next = (sender.nextACK + 1) * Window
               /\ Running => broker.next_ack = sender.nextACK + 1
            \/ toGateway[1].type = "CANCEL" /\ Returned
<1>1. Head(toGateway) = toGateway[1] /\ toGateway[1] \in Frame /\ 1 \in 1 .. Len(toGateway)
  BY TailFacts, Typed
<1> QED
  BY <1>1 DEF TransferInv, WireInv, RequestInv, Requested

(* A handler that returns a ProtocolError.                                 *)
LEMMA ErrorKeeps ==
  ASSUME TransferInv, NEW outbound \in Nat, NEW code \in RemoteCodes, sendError(outbound, code),
         UNCHANGED <<size, plan, up, host, broker, stream>>,
         host.pc # "idle", ~ Requested', toGateway' \in Seq(Frame), WireInv',
         up /\ Running /\ plan # "chunk-sequence" =>
           \/ Ended(Len(toHost))
           \/ code # "FORMAT" /\ outbound = broker.next_sequence + Len(toHost)
  PROVE  TransferInv'
<1> DEFINE f == Error(outbound, code)
<1>1. /\ Written(f) /\ gateway' = [pc |-> "read", outbound |-> 0]
      /\ sender' = [sender EXCEPT !.failed = TRUE]
  BY DEF sendError
<1>2. f \in Frame /\ f.type = "ERROR" /\ f.sequence = outbound /\ f.code = code
  BY FrameFacts DEF Statuses
<1> HIDE DEF f
<1>3. /\ sender' \in SenderRecord
      /\ sender'.offset = sender.offset /\ sender'.nextSequence = sender.nextSequence
      /\ sender'.nextACK = sender.nextACK /\ sender'.sinceACK = sender.sinceACK
      /\ sender'.awaitingACK = sender.awaitingACK
  BY <1>1, Typed, Zenon DEF SenderRecord
<1>4. gateway' \in GatewayRecord /\ gateway'.pc = "read"
  BY <1>1 DEF GatewaySteps, GatewayRecord
<1>5. code # "FORMAT" /\ outbound = broker.next_sequence + Len(toHost) => Expected(f, broker.next_sequence + Len(toHost))
  BY <1>2 DEF Expected, ErrorAt, RemoteCodes
<1>6. /\ ContentInv' /\ BoundInv' /\ toHost' \in Seq(Frame)
      /\ up /\ Running => Ended(Len(toHost))'
  <2>1. sender'.nextSequence \in Nat /\ sender'.nextSequence >= sender.nextSequence + 0
    <3>1. PICK q \in Nat : q = sender.nextSequence
      BY Numbers DEF TransferInv
    <3> QED
      BY <1>3, <3>1
  <2> QED
    BY <1>1, <1>2, <1>5, <2>1, WriteKeeps
<1>7. HostInv' /\ (Running' <=> Running)
  BY HostUntouched DEF TransferInv
<1>8. TypeInv'
  BY <1>3, <1>4, <1>6 DEF TransferInv, TypeInv
<1>9. SenderInv'
  BY <1>3, <1>4 DEF TransferInv, SenderInv, Serving, Offset
<1>10. CountInv' /\ EndInv'
  BY <1>4, <1>6, <1>7 DEF CountInv, EndInv, Serving
<1>11. RequestInv' /\ AckInv'
  BY <1>3, <1>4, <1>7 DEF TransferInv, RequestInv, AckInv, Serving
<1> QED
  BY <1>6, <1>7, <1>8, <1>9, <1>10, <1>11 DEF TransferInv

(* While the handler serves a request it knows what the host expects.      *)
LEMMA ServingError ==
  ASSUME TransferInv, Serving, NEW code \in RemoteCodes \ {"FORMAT"}, sendError(gateway.outbound, code),
         UNCHANGED <<size, plan, up, host, broker, stream>>,
         toGateway' = toGateway \/ (toGateway # <<>> /\ toGateway' = Tail(toGateway))
  PROVE  TransferInv'
<1>1. ~ Requested /\ host.pc # "idle"
  BY DEF TransferInv, RequestInv, Serving
<1>2. ~ Requested' /\ toGateway' \in Seq(Frame) /\ WireInv'
  <2>1. CASE toGateway' = toGateway
    <3>1. sender'.nextACK = sender.nextACK
      BY Typed DEF sendError
    <3> QED
      BY <1>1, <2>1, <3>1, Typed DEF TransferInv, Requested, WireInv, Running, Returned
  <2>2. CASE toGateway # <<>> /\ toGateway' = Tail(toGateway)
    BY <2>2, TakenKeeps
  <2> QED
    BY <2>1, <2>2
<1>3. up /\ Running /\ plan # "chunk-sequence" => gateway.outbound = broker.next_sequence + Len(toHost)
  BY DEF TransferInv, SenderInv, CountInv
<1>4. gateway.outbound \in Nat
  BY Numbers DEF TransferInv
<1> QED
  BY <1>1, <1>2, <1>3, <1>4, ErrorKeeps

LEMMA RefusalKeeps ==
  ASSUME TransferInv, RefuseRequest \/ StrayFrame \/ RefuseACK \/ ReadFails \/ TransferExpires
  PROVE  TransferInv'
<1>1. CASE RefuseRequest
  <2>1. PICK code \in {"AUTHENTICATION", "REPLAY", "IO"} : sendError(0, code)
    BY <1>1 DEF RefuseRequest
  <2>2. toGateway # <<>> /\ toGateway' = Tail(toGateway) /\ Requested
        /\ UNCHANGED <<size, plan, up, host, broker, stream>>
    BY <1>1, FirstFrame DEF RefuseRequest, hostVars, Requested
  <2>3. up /\ Running => 0 = broker.next_sequence + Len(toHost)
    <3> SUFFICES ASSUME Running PROVE 0 = broker.next_sequence + Len(toHost)
      OBVIOUS
    <3>1. toHost = <<>> /\ sender.nextSequence = 0
      BY <2>2 DEF TransferInv, RequestInv
    <3>2. 0 \in 0 .. Len(toHost) /\ ~ Ended(0)
      BY <3>1 DEF Ended
    <3>3. broker.next_sequence + 0 <= 0
      BY <3>1, <3>2 DEF TransferInv, BoundInv
    <3>4. broker.next_sequence \in Nat
      BY Numbers DEF TransferInv
    <3> QED
      BY <3>1, <3>3, <3>4
  <2>4. host.pc # "idle" /\ code \in RemoteCodes /\ code # "FORMAT"
    BY <2>2, FirstFrame DEF RemoteCodes
  <2> QED
    BY <2>1, <2>2, <2>3, <2>4, TakenKeeps, ErrorKeeps
<1>2. CASE StrayFrame
  <2>1. toGateway # <<>> /\ toGateway' = Tail(toGateway) /\ sendError(0, "FORMAT") /\ ~ Requested
        /\ gateway.pc = "read" /\ UNCHANGED <<size, plan, up, host, broker, stream>>
    BY <1>2, FirstFrame DEF StrayFrame, hostVars, Requested
  <2>2. up /\ Running => Ended(Len(toHost))
    BY <2>1 DEF TransferInv, EndInv
  <2>3. host.pc # "idle" /\ "FORMAT" \in RemoteCodes
    BY <2>1, FirstFrame DEF RemoteCodes
  <2> QED
    BY <2>1, <2>2, <2>3, TakenKeeps, ErrorKeeps
<1>3. CASE RefuseACK
  <2>1. toGateway # <<>> /\ toGateway' = Tail(toGateway) /\ ~ AcceptACK(Head(toGateway)) /\ gateway.pc = "await"
        /\ sendError(gateway.outbound, IF Head(toGateway).type = "CANCEL" THEN "TRANSPORT" ELSE "FORMAT")
        /\ UNCHANGED <<size, plan, up, host, broker, stream>>
    BY <1>3 DEF RefuseACK, hostVars
  <2>2. Head(toGateway).type = "CANCEL"
    <3>1. ~ Requested
      BY <2>1 DEF TransferInv, RequestInv
    <3>2. sender.nextSequence = (sender.nextACK + 1) * Window
      BY <2>1, WindowProduct, Numbers, ZenonT(30) DEF TransferInv, SenderInv
    <3> QED
      BY <2>1, <3>1, <3>2, FirstFrame DEF AcceptACK
  <2>3. sendError(gateway.outbound, "TRANSPORT") /\ "TRANSPORT" \in RemoteCodes \ {"FORMAT"} /\ Serving
    BY <2>1, <2>2 DEF RemoteCodes, Serving
  <2> QED
    BY <2>1, <2>3, ServingError
<1>4. CASE ReadFails
  BY <1>4, ServingError DEF ReadFails, hostVars, RemoteCodes, Serving
<1>5. CASE TransferExpires
  BY <1>5, ServingError DEF TransferExpires, hostVars, RemoteCodes, Serving
<1> QED
  BY <1>1, <1>2, <1>3, <1>4, <1>5

LEMMA handleArtifactKeeps ==
  ASSUME TransferInv, handleArtifact
  PROVE  TransferInv'
<1>1. toGateway # <<>> /\ toGateway' = Tail(toGateway) /\ Requested
      /\ gateway' = [pc |-> "send", outbound |-> 0] /\ sender' = NewStreamSender
      /\ UNCHANGED <<size, plan, up, host, broker, stream, toHost>>
  BY FirstFrame DEF handleArtifact, hostVars, Requested
<1>2. toHost = <<>> /\ sender.nextSequence = 0 /\ sender.nextACK = 0 /\ host.pc # "idle"
  BY <1>1, FirstFrame DEF TransferInv, RequestInv
<1>3. toGateway' \in Seq(Frame) /\ WireInv' /\ ~ Requested'
  BY <1>1, TakenKeeps
<1>4. HostInv' /\ (Running' <=> Running)
  BY <1>1, HostUntouched DEF TransferInv
<1>5. /\ gateway' \in GatewayRecord /\ gateway'.pc = "send" /\ gateway'.outbound = 0
      /\ sender' \in SenderRecord
      /\ sender'.offset = 0 /\ sender'.nextSequence = 0 /\ sender'.nextACK = 0 /\ sender'.sinceACK = 0
      /\ ~ sender'.awaitingACK /\ ~ sender'.complete
  BY <1>1 DEF NewStreamSender, GatewaySteps, SenderRecord, GatewayRecord
<1>6. TypeInv'
  BY <1>1, <1>3, <1>5 DEF TransferInv, TypeInv
<1>7. SenderInv'
  <2>1. Offset(0)' = 0
    BY <1>1, OffsetNext, Typed, Zenon DEF Offset
  <2>2. 0 * Window + 0 = 0 /\ Window # 0 /\ 0 <= Window /\ 0 + 0 = 0
    BY WindowAssumption
  <2> QED
    BY <1>5, <2>1, <2>2 DEF SenderInv, Serving, Due, Offset
<1>8. Running => broker.next_sequence = 0
  <2> SUFFICES ASSUME Running PROVE broker.next_sequence = 0
    OBVIOUS
  <2>1. 0 \in 0 .. Len(toHost) /\ ~ Ended(0)
    BY <1>2 DEF Ended
  <2>2. broker.next_sequence + 0 <= 0
    BY <1>2, <2>1 DEF TransferInv, BoundInv
  <2> QED
    BY <2>2, Numbers DEF TransferInv
<1>9. ContentInv' /\ BoundInv'
  BY <1>1, <1>2, <1>4, <1>5, <1>8 DEF ContentInv, BoundInv
<1>10. CountInv' /\ EndInv'
  BY <1>1, <1>2, <1>4, <1>5, <1>8 DEF CountInv, EndInv, Due
<1>11. RequestInv'
  BY <1>1, <1>2, <1>3 DEF RequestInv
<1>12. AckInv'
  <2>1. Running => broker.next_ack = 0
    <3> SUFFICES ASSUME Running PROVE broker.next_ack = 0
      OBVIOUS
    <3>1. PICK a \in Nat, r \in Nat : a = broker.next_ack /\ r = stream.records_since_ack
      BY Numbers DEF TransferInv
    <3>2. 0 = a * Window + r \/ 0 = (a + 1) * Window
      BY <1>8, <3>1 DEF TransferInv, HostInv, Running
    <3>3. a = 0
      BY <3>2, WindowAssumption
    <3> QED
      BY <3>1, <3>3
  <2> QED
    BY <1>1, <1>4, <1>5, <2>1 DEF AckInv
<1> QED
  BY <1>3, <1>4, <1>6, <1>7, <1>9, <1>10, <1>11, <1>12 DEF TransferInv

LEMMA ClosesKeeps ==
  ASSUME TransferInv, GatewayCloses
  PROVE  TransferInv'
<1>1. gateway' = [gateway EXCEPT !.pc = "closed"] /\ sender' = [sender EXCEPT !.failed = TRUE]
      /\ UNCHANGED <<size, plan, up, host, broker, stream, toHost, toGateway>>
  BY DEF GatewayCloses, hostVars
<1>2. /\ gateway' \in GatewayRecord /\ gateway'.pc = "closed"
      /\ sender' \in SenderRecord
      /\ sender'.offset = sender.offset /\ sender'.nextSequence = sender.nextSequence
      /\ sender'.nextACK = sender.nextACK /\ sender'.sinceACK = sender.sinceACK
      /\ sender'.awaitingACK = sender.awaitingACK
  BY <1>1, Typed, Zenon DEF GatewaySteps, SenderRecord, GatewayRecord
<1>3. HostInv' /\ (Running' <=> Running)
  BY <1>1, HostUntouched DEF TransferInv
<1>4. TypeInv'
  BY <1>1, <1>2 DEF TransferInv, TypeInv
<1>5. SenderInv'
  BY <1>1, <1>2 DEF TransferInv, SenderInv, Serving, Offset
<1>6. ContentInv'
  BY <1>1, <1>3, FlightUntouched DEF TransferInv
<1>7. BoundInv'
  BY <1>1, <1>2, <1>3 DEF TransferInv, BoundInv, Ended
<1>8. CountInv' /\ EndInv'
  BY <1>2 DEF CountInv, EndInv, Serving
<1>9. RequestInv' /\ AckInv'
  BY <1>1, <1>2, <1>3 DEF TransferInv, RequestInv, AckInv, Serving, Requested
<1>10. WireInv'
  BY <1>1, <1>2 DEF TransferInv, WireInv, Running, Returned
<1> QED
  BY <1>3, <1>4, <1>5, <1>6, <1>7, <1>8, <1>9, <1>10 DEF TransferInv

LEMMA ContinueFacts ==
  ASSUME NEW s, NEW pc, pc = Continue(s) \/ pc = Resume(s)
  PROVE  /\ pc \in GatewaySteps /\ pc # "closed"
         /\ pc = "read" => s.complete
         /\ pc = "send" => ~s.complete /\ ~s.awaitingACK
         /\ pc \in {"await", "held"} => ~s.complete /\ s.awaitingACK
<1>1. Resume(s) \in {"read", "held", "await", "send"} /\ (Continue(s) = "record" \/ Continue(s) = Resume(s))
  BY DEF Continue, Resume
<1>2. /\ Resume(s) = "read" => s.complete
      /\ Resume(s) = "send" => ~s.complete /\ ~s.awaitingACK
      /\ Resume(s) \in {"await", "held"} => ~s.complete /\ s.awaitingACK
  BY DEF Resume
<1>3. pc = "record" \/ pc = Resume(s)
  BY <1>1
<1> QED
  BY <1>1, <1>2, <1>3 DEF GatewaySteps

(* The wire to the gateway, for a handler that goes on and does not read.  *)
LEMMA WireUntouched ==
  ASSUME TransferInv, Serving, gateway'.pc # "closed", sender'.nextACK = sender.nextACK,
         UNCHANGED <<up, host, broker, toGateway>>
  PROVE  WireInv' /\ AckInv' /\ RequestInv'
<1>1. ~ Requested /\ host.pc # "idle"
  BY DEF TransferInv, RequestInv, Serving
<1>2. WireInv'
  BY DEF TransferInv, WireInv, Running, Returned
<1>3. AckInv'
  BY DEF TransferInv, AckInv, Running
<1>4. RequestInv'
  BY <1>1 DEF RequestInv, Requested
<1> QED
  BY <1>2, <1>3, <1>4

LEMMA SenderMoved ==
  ASSUME NEW s \in SenderRecord,
         NEW o \in Nat, NEW n \in Nat, NEW r \in Nat, NEW w \in BOOLEAN,
         NEW t, t = [s EXCEPT !.offset = o, !.nextSequence = n, !.sinceACK = r, !.awaitingACK = w]
  PROVE  /\ t \in SenderRecord
         /\ t.offset = o /\ t.nextSequence = n /\ t.nextACK = s.nextACK /\ t.sinceACK = r
         /\ t.awaitingACK = w /\ t.complete = s.complete
BY Zenon DEF SenderRecord

LEMMA SenderAcked ==
  ASSUME NEW s \in SenderRecord,
         NEW a \in Nat, NEW t, t = [s EXCEPT !.nextACK = a, !.sinceACK = 0, !.awaitingACK = FALSE]
  PROVE  /\ t \in SenderRecord
         /\ t.offset = s.offset /\ t.nextSequence = s.nextSequence /\ t.nextACK = a /\ t.sinceACK = 0
         /\ t.awaitingACK = FALSE /\ t.complete = s.complete
BY Zenon DEF SenderRecord

LEMMA SendDataKeeps ==
  ASSUME TransferInv, SendData
  PROVE  TransferInv'
<1> DEFINE length == Min(Chunk, size - sender.offset)
           sequence == IF plan = "chunk-sequence" /\ sender.nextSequence = 1 THEN 2 ELSE sender.nextSequence
           window == sender.sinceACK + 1
<1>1. gateway.pc = "send" /\ Serving /\ sender.offset < size /\ ~ sender.complete /\ ~ sender.awaitingACK
  BY DEF SendData, Serving, TransferInv, SenderInv
<1>2. UNCHANGED <<size, plan, up, host, broker, stream, toGateway>>
  BY DEF SendData, hostVars
<1>3. /\ sender' = [sender EXCEPT !.offset = @ + length, !.nextSequence = @ + 1, !.sinceACK = window,
                                  !.awaitingACK = awaitsACK(window)]
      /\ gateway' = [pc |-> Continue(sender'), outbound |-> sequence + 1]
      /\ \E good \in BOOLEAN : Written(Data(sequence, length, good))
  BY Zenon DEF SendData
<1>4. PICK n \in Nat, a \in Nat, r \in Nat : n = sender.nextSequence /\ a = sender.nextACK /\ r = sender.sinceACK
  BY Numbers DEF TransferInv
<1>5. PICK q \in Nat : q = sequence /\ (plan # "chunk-sequence" => q = n)
  BY <1>4
<1>6. length = Length(n) /\ length \in Nat /\ Offset(n) < size /\ sender.offset + length = Offset(n + 1)
      /\ Offset(n + 1) \in Nat
  <2>1. sender.offset = Offset(n) /\ size \in Nat
    BY <1>4, Typed DEF TransferInv, SenderInv
  <2>2. n + 1 \in Nat
    OBVIOUS
  <2>3. length = Length(n)
    BY <2>1 DEF Length
  <2> QED
    BY <1>1, <2>1, <2>2, <2>3, OffsetNext
<1> HIDE DEF length, sequence
<1>7. r < Window /\ n = a * Window + r
  <2>1. r <= Window /\ r # Window /\ n = a * Window + r
    BY <1>1, <1>4 DEF TransferInv, SenderInv
  <2> QED
    BY <2>1, WindowAssumption
<1>8. awaitsACK(window) \in BOOLEAN /\ (awaitsACK(window) <=> r + 1 = Window)
  BY <1>4 DEF awaitsACK
<1>9. PICK w \in BOOLEAN : w = awaitsACK(window) /\ (w <=> r + 1 = Window)
  BY <1>8
<1>10. sender' = [sender EXCEPT !.offset = Offset(n + 1), !.nextSequence = n + 1, !.sinceACK = r + 1, !.awaitingACK = w]
  BY <1>3, <1>4, <1>6, <1>9, Zenon
<1>11. /\ sender' \in SenderRecord
       /\ sender'.offset = Offset(n + 1) /\ sender'.nextSequence = n + 1
       /\ sender'.nextACK = a /\ sender'.sinceACK = r + 1
       /\ sender'.awaitingACK = w /\ sender'.complete = sender.complete
  <2>1. sender \in SenderRecord
    BY Typed
  <2>2. n + 1 \in Nat /\ r + 1 \in Nat
    OBVIOUS
  <2> QED
    BY <1>4, <1>6, <1>10, <2>1, <2>2, SenderMoved, ZenonT(30) DEF SenderRecord
<1>12. PICK f \in Frame : /\ Written(f) /\ f.type = "DATA"
                          /\ plan # "chunk-sequence" => DataAt(f, n)
  <2>1. PICK good \in BOOLEAN : Written(Data(q, length, good))
    BY <1>3, <1>5
  <2>2. /\ Data(q, length, good) \in Frame /\ Data(q, length, good).type = "DATA"
        /\ Data(q, length, good).sequence = q /\ Data(q, length, good).len = length
    BY <1>6, FrameFacts
  <2>3. plan # "chunk-sequence" => DataAt(Data(q, length, good), n)
    BY <1>5, <1>6, <2>2 DEF DataAt
  <2> QED
    BY <2>1, <2>2, <2>3
<1>13. /\ gateway' \in GatewayRecord /\ gateway'.outbound = q + 1 /\ gateway'.pc # "closed"
       /\ gateway'.pc # "read"
       /\ gateway'.pc = "send" => ~ w
       /\ gateway'.pc \in {"await", "held"} => w
  <2>1. PICK pc : pc = Continue(sender')
    OBVIOUS
  <2>2. /\ pc \in GatewaySteps /\ pc # "closed"
        /\ pc = "read" => sender'.complete
        /\ pc = "send" => ~ sender'.awaitingACK
        /\ pc \in {"await", "held"} => sender'.awaitingACK
    BY <2>1, ContinueFacts
  <2>3. gateway' = [pc |-> pc, outbound |-> q + 1]
    BY <1>3, <1>5, <2>1
  <2> QED
    BY <1>1, <1>11, <2>2, <2>3 DEF GatewayRecord
<1>14. up /\ Running => broker.next_sequence + Len(toHost) = n
  BY <1>1, <1>4 DEF TransferInv, CountInv, Due
<1>15. /\ ContentInv' /\ BoundInv' /\ toHost' \in Seq(Frame)
       /\ up /\ Running => Len(toHost') = Len(toHost) + 1
  <2>1. sender'.nextSequence \in Nat /\ sender'.nextSequence >= sender.nextSequence + 1
    BY <1>4, <1>11
  <2>2. up /\ Running /\ plan # "chunk-sequence" => Expected(f, broker.next_sequence + Len(toHost))
    BY <1>12, <1>14 DEF Expected
  <2> QED
    BY <1>2, <1>12, <2>1, <2>2, WriteKeeps
<1>16. HostInv' /\ (Running' <=> Running)
  BY <1>2, HostUntouched DEF TransferInv
<1>17. TypeInv'
  BY <1>2, <1>11, <1>13, <1>15, Zenon DEF TransferInv, TypeInv
<1>18. SenderInv'
  <2>1. n + 1 = a * Window + (r + 1) /\ r + 1 <= Window
    <3>1. a * Window \in Nat /\ Window \in Nat
      BY WindowProduct
    <3> QED
      BY <1>7, <3>1
  <2>2. Due' = n + 1 /\ (plan # "chunk-sequence" => gateway'.outbound = n + 1)
    BY <1>1, <1>5, <1>11, <1>13 DEF Due
  <2>3. Offset(n + 1)' = Offset(n + 1)
    BY <1>2 DEF Offset
  <2> QED
    BY <1>1, <1>2, <1>9, <1>11, <1>13, <2>1, <2>2, <2>3 DEF SenderInv, Offset
<1>19. CountInv' /\ EndInv'
  <2>1. Due' = n + 1 /\ ~ sender'.complete
    BY <1>1, <1>11 DEF Due
  <2>2. up /\ Running => broker.next_sequence + Len(toHost') = n + 1
    <3>1. broker.next_sequence \in Nat /\ Len(toHost) \in Nat
      BY Numbers, Typed DEF TransferInv
    <3> QED
      BY <1>14, <1>15, <3>1
  <2> QED
    BY <1>2, <1>13, <1>16, <2>1, <2>2 DEF CountInv, EndInv
<1>20. WireInv' /\ AckInv' /\ RequestInv'
  BY <1>1, <1>2, <1>4, <1>11, <1>13, WireUntouched
<1> QED
  BY <1>15, <1>16, <1>17, <1>18, <1>19, <1>20 DEF TransferInv

LEMMA SendCompleteKeeps ==
  ASSUME TransferInv, SendComplete
  PROVE  TransferInv'
<1>1. gateway.pc = "send" /\ Serving /\ sender.offset = size /\ ~ sender.complete /\ ~ sender.awaitingACK
  BY DEF SendComplete, CompleteDue, Serving, TransferInv, SenderInv
<1>2. UNCHANGED <<size, plan, up, host, broker, stream, toGateway>>
  BY DEF SendComplete, hostVars
<1>3. PICK n \in Nat : n = sender.nextSequence
  BY Numbers DEF TransferInv
<1>4. PICK f \in Frame : /\ Written(f) /\ f.type = "COMPLETE" /\ CompleteAt(f, n)
  <2>1. /\ Control("COMPLETE", n) \in Frame /\ Control("COMPLETE", n).type = "COMPLETE"
        /\ Control("COMPLETE", n).sequence = n
    BY FrameFacts DEF Types
  <2>2. CompleteAt(Control("COMPLETE", n), n)
    BY <1>1, <1>3, <2>1 DEF CompleteAt, TransferInv, SenderInv
  <2> QED
    BY <1>3, <2>1, <2>2 DEF SendComplete
<1>5. /\ sender' \in SenderRecord
      /\ sender'.offset = sender.offset /\ sender'.nextSequence = sender.nextSequence
      /\ sender'.nextACK = sender.nextACK /\ sender'.sinceACK = sender.sinceACK
      /\ sender'.awaitingACK = sender.awaitingACK /\ sender'.complete
  BY Typed, Zenon DEF SendComplete, SenderRecord
<1>6. /\ gateway' \in GatewayRecord /\ gateway'.outbound = n + 1
      /\ gateway'.pc \notin {"closed", "send", "await", "held"}
  <2>1. PICK pc : pc = Continue(sender')
    OBVIOUS
  <2>2. /\ pc \in GatewaySteps /\ pc # "closed"
        /\ pc = "send" => ~ sender'.complete
        /\ pc \in {"await", "held"} => ~ sender'.complete
    BY <2>1, ContinueFacts
  <2>3. gateway' = [pc |-> pc, outbound |-> n + 1]
    BY <1>3, <2>1 DEF SendComplete
  <2> QED
    BY <1>5, <2>2, <2>3 DEF GatewayRecord
<1>7. up /\ Running => broker.next_sequence + Len(toHost) = n
  BY <1>1, <1>3 DEF TransferInv, CountInv, Due
<1>8. /\ ContentInv' /\ BoundInv' /\ toHost' \in Seq(Frame)
      /\ up /\ Running => Len(toHost') = Len(toHost) + 1 /\ Ended(Len(toHost))'
  <2>1. sender'.nextSequence \in Nat /\ sender'.nextSequence >= sender.nextSequence + 0
    BY <1>3, <1>5
  <2>2. up /\ Running /\ plan # "chunk-sequence" => Expected(f, broker.next_sequence + Len(toHost))
    BY <1>4, <1>7 DEF Expected
  <2> QED
    BY <1>2, <1>4, <2>1, <2>2, WriteKeeps
<1>9. HostInv' /\ (Running' <=> Running)
  BY <1>2, HostUntouched DEF TransferInv
<1>10. TypeInv'
  BY <1>2, <1>5, <1>6, <1>8 DEF TransferInv, TypeInv
<1>11. Due' = n + 1
  BY <1>3, <1>5, Zenon DEF Due
<1>12. SenderInv'
  BY <1>2, <1>3, <1>5, <1>6, <1>11 DEF TransferInv, SenderInv, Offset
<1>13. CountInv' /\ EndInv'
  <2>1. up /\ Running => broker.next_sequence + Len(toHost') = n + 1
    <3>1. broker.next_sequence \in Nat /\ Len(toHost) \in Nat
      BY Numbers, Typed DEF TransferInv
    <3> QED
      BY <1>7, <1>8, <3>1
  <2> QED
    BY <1>2, <1>8, <1>9, <1>11, <2>1 DEF CountInv, EndInv
<1>14. WireInv' /\ AckInv' /\ RequestInv'
  BY <1>1, <1>2, <1>5, <1>6, WireUntouched
<1> QED
  BY <1>8, <1>9, <1>10, <1>12, <1>13, <1>14 DEF TransferInv

LEMMA RecordKeeps ==
  ASSUME TransferInv, Record
  PROVE  TransferInv'
<1>1. Serving /\ UNCHANGED <<size, plan, up, host, broker, stream, toGateway>>
  BY DEF Record, Serving, hostVars
<1>2. CASE sendError(gateway.outbound, "IO")
  BY <1>1, <1>2, ServingError DEF RemoteCodes
<1>3. CASE gateway' = [gateway EXCEPT !.pc = Resume(sender)] /\ UNCHANGED <<sender, toHost>>
  <2>1. PICK pc : pc = Resume(sender)
    OBVIOUS
  <2>2. /\ pc \in GatewaySteps /\ pc # "closed"
        /\ pc = "read" => sender.complete
        /\ pc = "send" => ~ sender.complete /\ ~ sender.awaitingACK
        /\ pc \in {"await", "held"} => ~ sender.complete /\ sender.awaitingACK
    BY <2>1, ContinueFacts
  <2>3. /\ gateway' \in GatewayRecord /\ gateway'.outbound = gateway.outbound /\ gateway'.pc = pc
    BY <1>3, <2>1, <2>2, Typed DEF GatewayRecord
  <2>4. HostInv' /\ (Running' <=> Running)
    BY <1>1, HostUntouched DEF TransferInv
  <2>5. TypeInv'
    BY <1>1, <1>3, <2>3 DEF TransferInv, TypeInv
  <2>6. SenderInv'
    BY <1>1, <1>3, <2>2, <2>3 DEF TransferInv, SenderInv, Offset, Due
  <2>7. ContentInv'
    BY <1>1, <1>3, <2>4, FlightUntouched DEF TransferInv
  <2>8. BoundInv'
    BY <1>1, <1>3, <2>4 DEF TransferInv, BoundInv, Ended
  <2>9. CountInv'
    BY <1>1, <1>3, <2>4 DEF TransferInv, CountInv, Due
  <2>10. EndInv'
    BY <1>1, <1>3, <2>2, <2>3, <2>4 DEF TransferInv, EndInv, Requested, Ended
  <2>11. WireInv' /\ AckInv' /\ RequestInv'
    BY <1>1, <1>3, <2>2, <2>3, WireUntouched
  <2> QED
    BY <2>4, <2>5, <2>6, <2>7, <2>8, <2>9, <2>10, <2>11 DEF TransferInv
<1> QED
  BY <1>2, <1>3 DEF Record

LEMMA ReceiveACKKeeps ==
  ASSUME TransferInv, ReceiveACK
  PROVE  TransferInv'
<1>1. /\ gateway.pc = "await" /\ Serving /\ ~ sender.complete /\ sender.awaitingACK
      /\ toGateway # <<>> /\ toGateway' = Tail(toGateway) /\ AcceptACK(Head(toGateway))
  BY DEF ReceiveACK, Serving, TransferInv, SenderInv
<1>2. UNCHANGED <<size, plan, up, host, broker, stream, toHost>>
  BY DEF ReceiveACK, hostVars
<1>3. PICK n \in Nat, a \in Nat : n = sender.nextSequence /\ a = sender.nextACK
  BY Numbers, Zenon DEF TransferInv
<1>4. /\ sender' \in SenderRecord
      /\ sender'.offset = sender.offset /\ sender'.nextSequence = n
      /\ sender'.nextACK = a + 1 /\ sender'.sinceACK = 0
      /\ ~ sender'.awaitingACK /\ ~ sender'.complete
  <2>1. sender \in SenderRecord
    BY Typed
  <2>2. sender' = [sender EXCEPT !.nextACK = a + 1, !.sinceACK = 0, !.awaitingACK = FALSE]
    BY <1>3 DEF ReceiveACK
  <2>3. a + 1 \in Nat
    OBVIOUS
  <2> QED
    BY <1>1, <1>3, <2>1, <2>2, <2>3, SenderAcked, Zenon DEF SenderRecord
<1>5. /\ gateway' \in GatewayRecord /\ gateway'.outbound = gateway.outbound
      /\ gateway'.pc \notin {"closed", "read", "await", "held"}
  <2>1. PICK pc : pc = Continue(sender')
    OBVIOUS
  <2>2. /\ pc \in GatewaySteps /\ pc # "closed"
        /\ pc = "read" => sender'.complete
        /\ pc \in {"await", "held"} => sender'.awaitingACK
    BY <2>1, ContinueFacts
  <2>3. gateway' = [gateway EXCEPT !.pc = pc]
    BY <2>1 DEF ReceiveACK
  <2> QED
    BY <1>4, <2>2, <2>3, Typed DEF GatewayRecord
<1>6. ~ Requested /\ host.pc # "idle" /\ (Running => broker.next_ack = a + 1)
  <2>1. ~ Requested /\ toGateway[1].type # "CANCEL" /\ host.pc # "idle"
    BY <1>1, FirstFrame DEF AcceptACK, Requested
  <2> QED
    BY <1>1, <1>3, <2>1, FirstFrame
<1>7. toGateway' \in Seq(Frame) /\ WireInv' /\ ~ Requested'
  BY <1>1, <1>2, TakenKeeps
<1>8. HostInv' /\ (Running' <=> Running)
  BY <1>2, HostUntouched DEF TransferInv
<1>9. TypeInv'
  BY <1>2, <1>4, <1>5, <1>7, Zenon DEF TransferInv, TypeInv
<1>10. SenderInv'
  <2>1. n = (a + 1) * Window + 0 /\ 0 <= Window /\ 0 # Window
    <3>1. n = a * Window + Window
      BY <1>1, <1>3 DEF TransferInv, SenderInv
    <3>2. Window \in Nat /\ Window > 0 /\ a * Window \in Nat /\ (a + 1) * Window = a * Window + Window
      BY WindowProduct, Zenon
    <3> QED
      BY <3>1, <3>2
  <2> QED
    BY <1>1, <1>2, <1>3, <1>4, <1>5, <2>1 DEF TransferInv, SenderInv, Offset, Due
<1>11. ContentInv'
  BY <1>2, <1>8, FlightUntouched DEF TransferInv
<1>12. BoundInv'
  BY <1>2, <1>3, <1>4, <1>8, Zenon DEF TransferInv, BoundInv, Ended
<1>13. CountInv' /\ EndInv'
  BY <1>1, <1>2, <1>3, <1>4, <1>5, <1>8, Zenon DEF TransferInv, CountInv, EndInv, Due
<1>14. RequestInv' /\ AckInv'
  BY <1>2, <1>3, <1>4, <1>6, <1>7, <1>8 DEF RequestInv, AckInv
<1> QED
  BY <1>7, <1>8, <1>9, <1>10, <1>11, <1>12, <1>13, <1>14 DEF TransferInv

LEMMA LinkDropsKeeps ==
  ASSUME TransferInv, LinkDrops
  PROVE  TransferInv'
<1>1. ~ up' /\ up' \in BOOLEAN /\ UNCHANGED <<size, plan, host, broker, stream, gateway, sender>>
  BY Zenon DEF LinkDrops, hostVars, gatewayVars
<1>2. PICK l \in Nat : l <= Len(toHost) /\ toHost' = SubSeq(toHost, 1, l) /\ Len(toHost) \in Nat
  <2>1. PICK k \in 0 .. Len(toHost) : toHost' = SubSeq(toHost, 1, k)
    BY DEF LinkDrops
  <2>2. Len(toHost) \in Nat
    BY Typed
  <2>3. k \in Nat /\ k <= Len(toHost)
    BY <2>2
  <2> QED
    BY <2>1, <2>2, <2>3
<1>3. PICK m \in Nat : m <= Len(toGateway) /\ toGateway' = SubSeq(toGateway, 1, m) /\ Len(toGateway) \in Nat
  <2>1. PICK k \in 0 .. Len(toGateway) : toGateway' = SubSeq(toGateway, 1, k)
    BY DEF LinkDrops
  <2>2. Len(toGateway) \in Nat
    BY Typed
  <2>3. k \in Nat /\ k <= Len(toGateway)
    BY <2>2
  <2> QED
    BY <2>1, <2>2, <2>3
<1>4. /\ toHost' \in Seq(Frame) /\ Len(toHost') = l /\ \A i \in 1 .. l : toHost'[i] = toHost[i]
  BY <1>2, PrefixFacts, Typed
<1>5. /\ toGateway' \in Seq(Frame) /\ Len(toGateway') = m /\ \A i \in 1 .. m : toGateway'[i] = toGateway[i]
  BY <1>3, PrefixFacts, Typed
<1>6. HostInv' /\ (Running' <=> Running) /\ (Returned' <=> Returned)
  BY <1>1, HostUntouched, Zenon DEF TransferInv
<1>7. TypeInv' /\ SenderInv'
  BY <1>1, <1>4, <1>5 DEF TransferInv, TypeInv, SenderInv, Serving, Due, Offset
<1>8. \A i \in 0 .. l : Ended(i)' <=> Ended(i)
  <2> SUFFICES ASSUME NEW i \in 0 .. l PROVE Ended(i)' <=> Ended(i)
    OBVIOUS
  <2>1. \A j \in 1 .. i : j \in 1 .. l
    OBVIOUS
  <2> QED
    BY <1>4, <2>1 DEF Ended
<1>9. ContentInv'
  <2> SUFFICES ASSUME Running, plan # "chunk-sequence", NEW i \in 1 .. l
               PROVE  Ended(i - 1)' \/ Expected(toHost[i], broker.next_sequence + i - 1)'
    BY <1>1, <1>4, <1>6 DEF ContentInv
  <2>1. i \in 1 .. Len(toHost) /\ i - 1 \in 0 .. l
    BY <1>2
  <2>2. Ended(i - 1) \/ Expected(toHost[i], broker.next_sequence + i - 1)
    BY <2>1 DEF TransferInv, ContentInv
  <2> QED
    BY <1>1, <1>4, <1>8, <2>1, <2>2, Zenon DEF Expected, DataAt, CompleteAt, ErrorAt, Length, Offset
<1>10. BoundInv'
  <2> SUFFICES ASSUME Running, NEW i \in 0 .. l
               PROVE  Ended(i)' \/ broker.next_sequence + i <= sender.nextSequence
    BY <1>1, <1>4, <1>6 DEF BoundInv
  <2>1. i \in 0 .. Len(toHost)
    BY <1>2
  <2> QED
    BY <1>8, <2>1 DEF TransferInv, BoundInv
<1>11. CountInv' /\ EndInv'
  BY <1>1 DEF CountInv, EndInv
<1>12. Requested' => Requested
  <2> SUFFICES ASSUME Requested' PROVE Requested
    OBVIOUS
  <2>1. m # 0
    BY <1>5 DEF Requested
  <2>2. toGateway'[1] = toGateway[1] /\ toGateway # <<>>
    BY <1>3, <1>5, <2>1
  <2> QED
    BY <2>2 DEF Requested
<1>13. RequestInv' /\ AckInv'
  <2>1. toHost = <<>> => toHost' = <<>>
    BY <1>2, <1>4
  <2>2. toGateway = <<>> => toGateway' = <<>>
    BY <1>3, <1>5
  <2> QED
    BY <1>1, <1>6, <1>12, <2>1, <2>2 DEF TransferInv, RequestInv, AckInv
<1>14. WireInv'
  <2> SUFFICES ASSUME NEW i \in 1 .. m
               PROVE  (\/ toGateway[i].type = "REQUEST" /\ i = 1
                       \/ /\ toGateway[i].type = "ACK" /\ i = 1
                          /\ toGateway[i].sequence = sender.nextACK /\ toGateway[i].next = (sender.nextACK + 1) * Window
                          /\ Running => broker.next_ack = sender.nextACK + 1
                       \/ toGateway[i].type = "CANCEL" /\ Returned)
    BY <1>1, <1>5, <1>6 DEF WireInv
  <2>1. i \in 1 .. Len(toGateway)
    BY <1>3
  <2> QED
    BY <2>1 DEF TransferInv, WireInv
<1> QED
  BY <1>6, <1>7, <1>9, <1>10, <1>11, <1>13, <1>14 DEF TransferInv

-----------------------------------------------------------------------------
(* The host.                                                               *)

(* A host that reads no further record asks nothing of what is in flight.  *)
LEMMA StoppedKeeps ==
  ASSUME TransferInv, HostInv', ~ Running', host'.pc # "idle",
         host' \in HostRecord,
         broker' \in BrokerRecord,
         stream' \in StreamRecord,
         UNCHANGED <<size, plan, up, gateway, sender>>,
         toHost' = toHost \/ (toHost # <<>> /\ toHost' = Tail(toHost)),
         toGateway' \in Seq(Frame), WireInv', Requested' => Requested \/ host.pc = "idle"
  PROVE  TransferInv'
<1>1. toHost' \in Seq(Frame)
  <2>1. toHost \in Seq(Frame)
    BY Typed
  <2>2. toHost # <<>> => Tail(toHost) \in Seq(Frame)
    BY <2>1, TailFacts, Zenon
  <2> QED
    BY <2>1, <2>2, Zenon
<1>2. TypeInv' /\ SenderInv'
  BY <1>1, Zenon DEF TransferInv, TypeInv, SenderInv, Serving, Due, Offset
<1>3. ContentInv' /\ BoundInv' /\ CountInv' /\ EndInv' /\ AckInv'
  BY DEF ContentInv, BoundInv, CountInv, EndInv, AckInv
<1>4. RequestInv'
  BY DEF TransferInv, RequestInv
<1> QED
  BY <1>2, <1>3, <1>4 DEF TransferInv

LEMMA ReturnKeeps ==
  ASSUME TransferInv, NEW status \in Statuses, Return(status), UNCHANGED <<size, plan, up, gateway, sender>>,
         toHost' = toHost \/ (toHost # <<>> /\ toHost' = Tail(toHost)),
         toGateway' \in Seq(Frame), WireInv', Requested' => Requested \/ host.pc = "idle"
  PROVE  TransferInv'
<1>1. /\ host' \in HostRecord
      /\ host'.pc = "failed" /\ host'.pages = Zeroed
  <2>1. Zeroed \in [filled : Nat, intact : BOOLEAN]
    BY DEF Zeroed
  <2>2. "failed" \in HostSteps
    BY Zenon DEF HostSteps
  <2> QED
    BY <2>1, <2>2 DEF Return, HostRecord
<1>2. /\ broker' \in BrokerRecord
      /\ ~ broker'.opened
      /\ stream' \in StreamRecord
  BY Zenon DEF Return, Closed, NoStream, BrokerRecord, StreamRecord
<1>3. HostInv' /\ ~ Running'
  BY <1>1, <1>2 DEF HostInv, Running
<1> QED
  BY <1>1, <1>2, <1>3, StoppedKeeps

(* At the end of a window the handler waits and nothing is in flight to it.*)
LEMMA AckIsDue ==
  ASSUME TransferInv, host.pc = "ack"
  PROVE  /\ toGateway = <<>> /\ broker.next_ack = sender.nextACK
         /\ stream.next_sequence = broker.next_sequence
         /\ broker.next_sequence = (broker.next_ack + 1) * Window
<1>1. PICK a \in Nat, b \in Nat, r \in Nat, s \in Nat, n \in Nat :
        /\ a = sender.nextACK /\ b = broker.next_ack /\ r = sender.sinceACK
        /\ s = sender.nextSequence /\ n = broker.next_sequence
  BY Numbers, Zenon DEF TransferInv
<1>2. Running /\ ~ Returned
  BY Zenon DEF Running, Returned
<1>3. stream.next_sequence = broker.next_sequence /\ n = (b + 1) * Window
  BY <1>1, <1>2 DEF TransferInv, HostInv
<1>4. n <= s
  <2>1. ~ Ended(0)
    BY DEF Ended
  <2>2. 0 \in 0 .. Len(toHost)
    BY Typed
  <2>3. n + 0 <= s
    BY <1>1, <1>2, <2>1, <2>2 DEF TransferInv, BoundInv
  <2> QED
    BY <2>3
<1>5. s = a * Window + r /\ r <= Window
  BY <1>1 DEF TransferInv, SenderInv
<1>6. b = a
  <2>1. b = a \/ b = a + 1
    BY <1>1, <1>2 DEF TransferInv, AckInv
  <2>2. ASSUME b = a + 1 PROVE FALSE
    <3>1. PICK w \in Nat, p \in Nat : w = Window /\ w > 0 /\ p = a * Window
      BY WindowProduct
    <3>2. (a + 1) * Window = p + w
      BY <3>1, WindowProduct
    <3>3. a + 1 \in Nat
      OBVIOUS
    <3>4. ((a + 1) + 1) * Window = (p + w) + w
      BY <3>1, <3>2, <3>3, WindowProduct
    <3>5. n = p + w + w /\ s = p + r /\ r <= w
      BY <1>3, <1>5, <2>2, <3>1, <3>4
    <3> QED
      BY <1>4, <3>1, <3>5
  <2> QED
    BY <2>1, <2>2
<1>7. n > 0
  <2>1. Window \in Nat /\ Window > 0 /\ b * Window \in Nat /\ (b + 1) * Window = b * Window + Window
    BY WindowProduct
  <2> QED
    BY <1>3, <2>1
<1>8. toGateway = <<>>
  <2> SUFFICES ASSUME toGateway # <<>> PROVE FALSE
    OBVIOUS
  <2>1. ~ Requested
    <3>1. Requested => s = 0
      BY <1>1 DEF TransferInv, RequestInv
    <3> QED
      BY <1>4, <1>7, <3>1
  <2>2. b = a + 1
    BY <1>1, <1>2, <2>1, FirstFrame
  <2> QED
    BY <1>6, <2>2
<1> QED
  BY <1>1, <1>3, <1>6, <1>8

(* What a host that returns may leave on the wire.                         *)
LEMMA ReturnWire ==
  ASSUME TransferInv, Returned', UNCHANGED sender,
         NEW C, C = Control("CANCEL", 1), NEW A, A = Ack(broker.next_ack, stream.next_sequence),
         \/ toGateway' = toGateway
         \/ toGateway' = Append(toGateway, C)
         \/ host.pc = "idle" /\ toGateway' = Append(toGateway, Control("REQUEST", 0))
         \/ host.pc = "ack" /\ (toGateway' = <<A>> \/ toGateway' = <<A, C>>)
  PROVE  /\ toGateway' \in Seq(Frame) /\ WireInv'
         /\ Requested' => Requested \/ host.pc = "idle"
<1>1. toGateway \in Seq(Frame) /\ C \in Frame /\ C.type = "CANCEL"
  <2>1. "CANCEL" \in Types /\ 1 \in Nat
    BY DEF Types
  <2>2. toGateway \in Seq(Frame)
    BY Typed
  <2> QED
    <3>1. Control("CANCEL", 1) \in Frame /\ Control("CANCEL", 1).type = "CANCEL"
      BY <2>1, FrameFacts
    <3> QED
      BY <2>2, <3>1
<1>2. ~ Running'
  BY DEF Running, Returned
<1>3. CASE toGateway' = toGateway
  BY <1>1, <1>2, <1>3 DEF TransferInv, WireInv, Requested, Returned
<1>4. CASE toGateway' = Append(toGateway, C)
  <2>1. PICK l \in Nat : /\ l = Len(toGateway) /\ Len(toGateway') = l + 1
                         /\ toGateway' \in Seq(Frame) /\ toGateway'[l + 1] = C
                         /\ \A i \in 1 .. l : toGateway'[i] = toGateway[i]
    BY <1>1, <1>4, AppendFacts
  <2>2. WireInv'
    <3> SUFFICES ASSUME NEW i \in 1 .. l + 1
                 PROVE  (\/ toGateway'[i].type = "REQUEST" /\ i = 1
                         \/ /\ toGateway'[i].type = "ACK" /\ i = 1
                            /\ toGateway'[i].sequence = sender.nextACK /\ toGateway'[i].next = (sender.nextACK + 1) * Window
                         \/ toGateway'[i].type = "CANCEL")
      BY <1>2, <2>1 DEF WireInv
    <3>1. CASE i = l + 1
      BY <1>1, <2>1, <3>1, Zenon
    <3>2. CASE i # l + 1
      <4>1. i \in 1 .. l
        BY <3>2
      <4> QED
        BY <2>1, <4>1 DEF TransferInv, WireInv
    <3> QED
      BY <3>1, <3>2
  <2>3. Requested' => Requested
    <3>1. CASE l = 0
      BY <1>1, <2>1, <3>1 DEF Requested
    <3>2. CASE l # 0
      <4>1. 1 \in 1 .. l /\ toGateway # <<>>
        BY <2>1, <3>2
      <4> QED
        BY <2>1, <4>1 DEF Requested
    <3> QED
      BY <3>1, <3>2
  <2> QED
    BY <2>1, <2>2, <2>3, Zenon
<1>5. CASE host.pc = "idle" /\ toGateway' = Append(toGateway, Control("REQUEST", 0))
  <2>1. PICK f \in Frame : f = Control("REQUEST", 0) /\ f.type = "REQUEST"
    BY FrameFacts DEF Types
  <2>2. toGateway = <<>>
    BY <1>5 DEF TransferInv, RequestInv
  <2>3. toGateway' \in Seq(Frame) /\ Len(toGateway') = 1 /\ toGateway'[1] = f
    BY <1>1, <1>5, <2>1, <2>2
  <2>4. WireInv'
    BY <2>1, <2>3 DEF WireInv
  <2> QED
    BY <1>5, <2>3, <2>4, Zenon
<1>6. CASE host.pc = "ack" /\ (toGateway' = <<A>> \/ toGateway' = <<A, C>>)
  <2>1. PICK a \in Nat : a = sender.nextACK /\ A = Ack(a, (a + 1) * Window)
    BY <1>6, AckIsDue, Numbers, Zenon DEF TransferInv
  <2>2. A \in Frame /\ A.type = "ACK" /\ A.sequence = a /\ A.next = (a + 1) * Window
    BY <2>1, FrameFacts, WindowAssumption
  <2>3. /\ toGateway' \in Seq(Frame) /\ toGateway'[1] = A
        /\ Len(toGateway') = 1 \/ (Len(toGateway') = 2 /\ toGateway'[2] = C)
    <3>1. CASE toGateway' = <<A>>
      BY <2>2, <3>1
    <3>2. CASE toGateway' = <<A, C>>
      BY <1>1, <2>2, <3>2
    <3> QED
      BY <1>6, <3>1, <3>2
  <2>4. WireInv'
    <3> SUFFICES ASSUME NEW i \in 1 .. Len(toGateway')
                 PROVE  (\/ /\ toGateway'[i].type = "ACK" /\ i = 1
                            /\ toGateway'[i].sequence = sender.nextACK /\ toGateway'[i].next = (sender.nextACK + 1) * Window
                         \/ toGateway'[i].type = "CANCEL")
      BY <1>2 DEF WireInv
    <3>1. i = 1 \/ (i = 2 /\ toGateway'[2] = C)
      <4>1. i \in 1 .. 1 \/ (i \in 1 .. 2 /\ toGateway'[2] = C)
        BY <2>3, Zenon
      <4> QED
        BY <4>1
    <3> QED
      BY <1>1, <2>1, <2>2, <2>3, <3>1, Zenon
  <2> QED
    BY <2>2, <2>3, <2>4, Zenon DEF Requested
<1> QED
  BY <1>3, <1>4, <1>5, <1>6

LEMMA CleanupKeeps ==
  ASSUME TransferInv, NEW status \in Statuses, cleanup(status), UNCHANGED <<size, plan, up, gateway, sender>>,
         toHost' = toHost \/ (toHost # <<>> /\ toHost' = Tail(toHost))
  PROVE  TransferInv'
<1>1. Return(status) /\ Returned'
  BY DEF cleanup, Return, Returned
<1>2. toGateway' = toGateway \/ toGateway' = Append(toGateway, Control("CANCEL", 1))
  BY DEF cleanup, MaybeSent, Sent
<1> QED
  BY <1>1, <1>2, ReturnWire, ReturnKeeps

LEMMA HostReturns ==
  ASSUME TransferInv, BeginFails \/ RejectFrame \/ HostGivesUp \/ CloseFails
  PROVE  TransferInv'
<1>1. CASE BeginFails
  <2>1. PICK status \in Statuses : Return(status)
    BY <1>1 DEF BeginFails, Statuses, LocalStatuses
  <2>2. Returned'
    BY <2>1 DEF Return, Returned
  <2>3. /\ host.pc = "idle" /\ UNCHANGED <<size, plan, up, gateway, sender, toHost>>
        /\ toGateway' = toGateway \/ toGateway' = Append(toGateway, Control("REQUEST", 0))
    BY <1>1 DEF BeginFails, MaybeSent, Sent, gatewayVars
  <2> QED
    BY <2>1, <2>2, <2>3, ReturnWire, ReturnKeeps
<1>2. CASE RejectFrame
  <2>1. toHost # <<>> /\ toHost' = Tail(toHost) /\ UNCHANGED <<size, plan, up, gateway, sender>>
    BY <1>2 DEF RejectFrame, gatewayVars
  <2>2. PICK f \in Frame : f = Head(toHost)
    BY <2>1, TailFacts, Typed
  <2>3. f.code \in Statuses
    BY Zenon DEF Frame
  <2>4. bulk_receive(f) \in Statuses /\ stream_complete(f) \in Statuses /\ stream_accept(f) \in Statuses
    BY <2>3 DEF bulk_receive, stream_complete, stream_accept, Statuses, LocalStatuses
  <2>5. Verdict(f) \in Statuses
    BY <2>4 DEF Verdict
  <2>6. cleanup(Verdict(f))
    BY <1>2, <2>2 DEF RejectFrame
  <2> QED
    BY <2>1, <2>5, <2>6, CleanupKeeps
<1>3. CASE HostGivesUp
  <2> DEFINE A == Ack(broker.next_ack, stream.next_sequence)
             C == Control("CANCEL", 1)
  <2>1. PICK status \in Statuses : Return(status)
    BY <1>3, Zenon DEF HostGivesUp, Statuses, LocalStatuses
  <2>2. Returned' /\ UNCHANGED <<size, plan, up, gateway, sender, toHost>>
    BY <1>3, <2>1, Zenon DEF Return, Returned, HostGivesUp, gatewayVars
  <2>3. PICK ack \in {<<>>} \cup {<<A>> : pc \in {"ack"} \cap {host.pc}}, cancel \in {<<>>, <<C>>} :
          toGateway' = IF up THEN toGateway \o ack \o cancel ELSE toGateway
    BY <1>3, Zenon DEF HostGivesUp
  <2>4. ack = <<>> \/ (host.pc = "ack" /\ ack = <<A>>)
    BY <2>3
  <2>5. toGateway \in Seq(Frame) /\ C \in Frame
    BY FrameFacts, Typed, Zenon DEF Types
  <2> HIDE DEF A, C
  <2>6. CASE ack = <<>>
    <3>1. toGateway' = toGateway \/ toGateway' = Append(toGateway, C)
      BY <2>3, <2>5, <2>6
    <3> QED
      BY <2>1, <2>2, <3>1, ReturnWire, ReturnKeeps DEF C
  <2>7. CASE host.pc = "ack" /\ ack = <<A>>
    <3>1. toGateway = <<>>
      BY <2>7, AckIsDue
    <3>2. toGateway' = toGateway \/ toGateway' = <<A>> \/ toGateway' = <<A, C>>
      BY <2>3, <2>7, <3>1, JoinFacts, Zenon
    <3> QED
      BY <2>1, <2>2, <2>7, <3>2, ReturnWire, ReturnKeeps DEF A, C
  <2> QED
    BY <2>4, <2>6, <2>7, Zenon
<1>4. CASE CloseFails
  <2>1. Return("TRANSPORT") /\ Returned' /\ UNCHANGED <<size, plan, up, gateway, sender, toHost, toGateway>>
    BY <1>4 DEF CloseFails, Return, Returned, gatewayVars
  <2> QED
    BY <2>1, ReturnWire, ReturnKeeps DEF Statuses, LocalStatuses
<1> QED
  BY <1>1, <1>2, <1>3, <1>4

LEMMA BeginKeeps ==
  ASSUME TransferInv, Begin
  PROVE  TransferInv'
<1>1. host.pc = "idle" /\ up /\ UNCHANGED <<size, plan, up, gateway, sender, toHost>>
  BY DEF Begin, gatewayVars
<1>2. /\ gateway.pc \in {"read", "closed"} /\ toHost = <<>> /\ toGateway = <<>>
      /\ sender.nextSequence = 0 /\ sender.nextACK = 0
  BY <1>1 DEF TransferInv, RequestInv
<1>3. /\ host' \in HostRecord
      /\ host'.pc = "receive" /\ host'.pages = host.pages /\ host.pages = Zeroed
  BY <1>1, Typed, Zenon DEF Begin, TransferInv, HostInv, HostSteps, HostRecord
<1>4. /\ broker' \in BrokerRecord
      /\ broker'.opened /\ ~ broker'.complete
      /\ broker'.next_sequence = 0 /\ broker'.received = 0 /\ broker'.next_ack = 0
  BY Zenon DEF Begin, Closed, BrokerRecord
<1>5. /\ stream' \in StreamRecord
      /\ stream'.next_sequence = 0 /\ stream'.offset = 0 /\ stream'.records_since_ack = 0
  BY DEF Begin, NoStream, StreamRecord
<1>6. toGateway' \in Seq(Frame) /\ toGateway' # <<>> /\ Len(toGateway') = 1 /\ toGateway'[1].type = "REQUEST"
  <2>1. PICK f \in Frame : f = Control("REQUEST", 0) /\ f.type = "REQUEST"
    BY FrameFacts DEF Types
  <2>2. toGateway' = Append(<<>>, f)
    BY <1>1, <1>2, <2>1, Zenon DEF Begin, Sent
  <2> QED
    BY <2>1, <2>2
<1>7. TypeInv' /\ SenderInv'
  BY <1>1, <1>3, <1>4, <1>5, <1>6, Zenon DEF TransferInv, TypeInv, SenderInv, Serving, Due, Offset
<1>8. HostInv'
  <2>1. Offset(0) = 0
    BY OffsetNext, Typed
  <2>2. 0 < Window /\ 0 = 0 * Window + 0
    BY WindowProduct
  <2>3. Offset(0)' = 0
    BY <1>1, <2>1 DEF Offset
  <2>4. host'.pages.filled = 0
    BY <1>3 DEF Zeroed
  <2> QED
    BY <1>3, <1>4, <1>5, <2>2, <2>3, <2>4 DEF HostInv, Running, Returned
<1>9. ContentInv' /\ BoundInv'
  BY <1>1, <1>2, <1>4 DEF ContentInv, BoundInv
<1>10. CountInv' /\ EndInv' /\ RequestInv' /\ AckInv'
  BY <1>1, <1>2, <1>3, <1>4, <1>6 DEF CountInv, EndInv, RequestInv, AckInv, Requested, Serving
<1>11. WireInv'
  BY <1>6 DEF WireInv
<1> QED
  BY <1>7, <1>8, <1>9, <1>10, <1>11 DEF TransferInv

(* The first record in flight, and what the host makes of it.              *)
LEMMA AcceptedData ==
  ASSUME TransferInv, host.pc = "receive", NEW f \in Frame, f.type = "DATA", Verdict(f) = "OK"
  PROVE  f.len = Length(broker.next_sequence)
<1>1. Running
  BY DEF Running
<1>2. bulk_receive(f) = "OK" /\ stream_accept(f) = "OK"
  BY Zenon DEF Verdict
<1>3. stream.offset = Offset(broker.next_sequence)
  BY <1>1, Zenon DEF TransferInv, HostInv
<1> QED
  BY <1>2, <1>3 DEF stream_accept, Length

LEMMA AcceptedComplete ==
  ASSUME TransferInv, host.pc = "receive", NEW f \in Frame, f.type = "COMPLETE", Verdict(f) = "OK"
  PROVE  broker.received = size /\ host.pages.intact
<1>1. bulk_receive(f) = "OK" /\ stream_complete(f) = "OK"
  BY DEF Verdict
<1>2. stream.offset = size /\ host.pages.intact
  BY <1>1 DEF stream_complete
<1> QED
  BY <1>2 DEF TransferInv, HostInv, Running

(* A host that reads has been sent something only after its request.       *)
LEMMA TakingHost ==
  ASSUME TransferInv, toHost # <<>>
  PROVE  ~ Requested
BY DEF TransferInv, RequestInv

LEMMA AcceptDataKeeps ==
  ASSUME TransferInv, AcceptData
  PROVE  TransferInv'
<1>1. /\ host.pc = "receive" /\ Running /\ toHost # <<>> /\ toHost' = Tail(toHost)
      /\ UNCHANGED <<size, plan, up, gateway, sender, toGateway>>
  BY DEF AcceptData, Running, gatewayVars
<1>2. PICK f \in Frame : f = Head(toHost) /\ f = toHost[1]
  BY <1>1, TailFacts, Typed
<1>3. /\ f.type = "DATA" /\ Verdict(f) = "OK"
      /\ broker' = [broker EXCEPT !.next_sequence = @ + 1, !.received = @ + f.len]
      /\ stream' = [next_sequence |-> stream.next_sequence + 1, offset |-> stream.offset + f.len,
                    records_since_ack |-> records_since_ack(f)]
      /\ host' = [host EXCEPT !.pc = IF ack_required(f) THEN "ack" ELSE "receive",
                              !.pages = [filled |-> @.filled + f.len, intact |-> @.intact /\ f.good]]
  BY <1>2 DEF AcceptData
<1>4. PICK n \in Nat, b \in Nat, r \in Nat :
        n = broker.next_sequence /\ b = broker.next_ack /\ r = stream.records_since_ack
  BY Numbers, Zenon DEF TransferInv
<1>5. r < Window /\ n = b * Window + r /\ stream.next_sequence = n
      /\ broker.received = Offset(n) /\ stream.offset = Offset(n) /\ host.pages.filled = Offset(n)
  BY <1>1, <1>4 DEF TransferInv, HostInv
<1>6. f.len = Length(n)
  BY <1>1, <1>3, <1>4, AcceptedData
<1>7. PICK o \in Nat : o = Offset(n + 1) /\ o = Offset(n) + Length(n)
  <2>1. size \in Nat /\ n + 1 \in Nat
    BY Typed
  <2>2. Offset(n + 1) \in Nat /\ Offset(n + 1) = Offset(n) + Length(n)
    BY <2>1, OffsetNext
  <2> QED
    BY <2>2
<1>8. records_since_ack(f) = (IF r + 1 = Window THEN 0 ELSE r + 1) /\ (ack_required(f) <=> r + 1 = Window)
  BY <1>4, <1>5, WindowNext DEF records_since_ack, ack_required
<1>9. /\ broker' \in BrokerRecord
      /\ broker'.opened = broker.opened /\ broker'.complete = broker.complete
      /\ broker'.next_sequence = n + 1 /\ broker'.received = o /\ broker'.next_ack = b
  <2>1. broker' = [broker EXCEPT !.next_sequence = n + 1, !.received = o]
    BY <1>3, <1>4, <1>5, <1>6, <1>7, Zenon
  <2>2. broker \in BrokerRecord
    BY Typed
  <2>3. n + 1 \in Nat
    OBVIOUS
  <2> QED
    BY <1>4, <2>1, <2>2, <2>3, Zenon DEF BrokerRecord
<1>10. /\ stream' \in StreamRecord
       /\ stream'.next_sequence = n + 1 /\ stream'.offset = o
       /\ stream'.records_since_ack = (IF r + 1 = Window THEN 0 ELSE r + 1)
  BY <1>3, <1>5, <1>6, <1>7, <1>8 DEF StreamRecord
<1>11. /\ host' \in HostRecord
       /\ host'.pc = (IF r + 1 = Window THEN "ack" ELSE "receive") /\ host'.pages.filled = o
  <2>1. PICK p \in BOOLEAN : p = (host.pages.intact /\ f.good)
    BY Zenon
  <2>2. PICK pc \in HostSteps : pc = IF r + 1 = Window THEN "ack" ELSE "receive"
    BY DEF HostSteps
  <2>3. host' = [host EXCEPT !.pc = pc, !.pages = [filled |-> o, intact |-> p]]
    BY <1>3, <1>5, <1>6, <1>7, <1>8, <2>1, <2>2, ZenonT(30)
  <2>4. host \in HostRecord
    BY Typed
  <2> QED
    BY <2>2, <2>3, <2>4, Zenon DEF HostRecord
<1>12. Running' /\ ~ Returned' /\ host'.pc # "idle"
  BY <1>11 DEF Running, Returned
<1>13. HostInv'
  <2>1. broker.opened /\ ~ broker.complete
    BY <1>1 DEF TransferInv, HostInv
  <2>2. Offset(n + 1)' = o
    BY <1>1, <1>7, Zenon DEF Offset
  <2>3. CASE r + 1 = Window
    <3>1. n + 1 = (b + 1) * Window
      <4>1. b * Window \in Nat /\ (b + 1) * Window = b * Window + Window
        BY WindowProduct, Zenon
      <4> QED
        BY <1>5, <2>3, <4>1
    <3> QED
      BY <1>9, <1>10, <1>11, <1>12, <2>1, <2>2, <2>3, <3>1, ZenonT(30) DEF HostInv
  <2>4. CASE r + 1 # Window
    <3>1. n + 1 = b * Window + (r + 1) /\ r + 1 < Window
      <4>1. b * Window \in Nat /\ Window \in Nat
        BY WindowProduct, Zenon
      <4> QED
        BY <1>5, <2>4, <4>1
    <3> QED
      BY <1>9, <1>10, <1>11, <1>12, <2>1, <2>2, <2>4, <3>1, ZenonT(30) DEF HostInv
  <2> QED
    BY <2>3, <2>4, Zenon
<1>14. TypeInv' /\ SenderInv'
  <2>1. toHost' \in Seq(Frame)
    BY <1>1, TailFacts, Typed
  <2> QED
    BY <1>1, <1>9, <1>10, <1>11, <2>1, ZenonT(30) DEF TransferInv, TypeInv, SenderInv, Serving, Due, Offset
<1>15. ContentInv' /\ BoundInv' /\ CountInv' /\ EndInv'
  BY <1>1, <1>2, <1>3, <1>4, <1>9, PopKeeps
<1>16. RequestInv' /\ AckInv' /\ WireInv'
  <2>1. ~ Requested
    BY <1>1, TakingHost
  <2>2. RequestInv'
    BY <1>1, <1>12, <2>1, Zenon DEF RequestInv, Requested
  <2>3. AckInv'
    BY <1>1, <1>4, <1>9, Zenon DEF TransferInv, AckInv, Serving
  <2>4. WireInv'
    BY <1>1, <1>4, <1>9, Zenon DEF TransferInv, WireInv, Returned
  <2> QED
    BY <2>2, <2>3, <2>4
<1> QED
  BY <1>13, <1>14, <1>15, <1>16 DEF TransferInv

LEMMA SendAckKeeps ==
  ASSUME TransferInv, SendAck
  PROVE  TransferInv'
<1>1. host.pc = "ack" /\ Running /\ UNCHANGED <<size, plan, up, gateway, sender, toHost>>
  BY DEF SendAck, Running, gatewayVars
<1>2. PICK a \in Nat, n \in Nat : a = sender.nextACK /\ n = broker.next_sequence
  BY Numbers DEF TransferInv
<1>3. toGateway = <<>> /\ broker.next_ack = a /\ stream.next_sequence = n /\ n = (a + 1) * Window
  BY <1>1, <1>2, AckIsDue
<1>4. ~ AckRefused
  BY <1>2, <1>3 DEF AckRefused
<1>5. /\ up /\ Sent(Ack(a, n)) /\ broker' = [broker EXCEPT !.next_ack = a + 1]
      /\ host' = [host EXCEPT !.pc = "receive"] /\ UNCHANGED stream
  BY <1>3, <1>4 DEF SendAck
<1>6. /\ broker' \in BrokerRecord
      /\ broker'.opened = broker.opened /\ broker'.complete = broker.complete
      /\ broker'.next_sequence = n /\ broker'.received = broker.received /\ broker'.next_ack = a + 1
  <2>1. broker \in BrokerRecord
    BY Typed
  <2>2. a + 1 \in Nat
    OBVIOUS
  <2> QED
    BY <1>2, <1>5, <2>1, <2>2 DEF BrokerRecord
<1>7. /\ host' \in HostRecord
      /\ host'.pc = "receive" /\ host'.pages = host.pages
  BY <1>5, Typed DEF HostSteps, HostRecord
<1>8. Running' /\ ~ Returned'
  BY <1>7 DEF Running, Returned
<1>9. /\ toGateway' \in Seq(Frame) /\ toGateway' # <<>> /\ Len(toGateway') = 1
      /\ toGateway'[1].type = "ACK" /\ toGateway'[1].sequence = a /\ toGateway'[1].next = n
  <2>1. PICK f \in Frame : f = Ack(a, n) /\ f.type = "ACK" /\ f.sequence = a /\ f.next = n
    BY FrameFacts
  <2>2. toGateway' = Append(<<>>, f)
    BY <1>3, <1>5, <2>1 DEF Sent
  <2> QED
    BY <2>1, <2>2
<1>10. TypeInv' /\ SenderInv'
  BY <1>1, <1>5, <1>6, <1>7, <1>9 DEF TransferInv, TypeInv, SenderInv, Serving, Due, Offset
<1>11. HostInv'
  <2>1. /\ broker.opened /\ ~ broker.complete /\ broker.received = Offset(n) /\ stream.offset = broker.received
        /\ host.pages.filled = broker.received /\ stream.records_since_ack = 0
    BY <1>1, <1>2, Zenon DEF TransferInv, HostInv
  <2>2. 0 < Window /\ n = (a + 1) * Window + 0
    <3>1. Window > 0 /\ a + 1 \in Nat /\ n = (a + 1) * Window /\ n \in Nat
      BY <1>3, WindowProduct
    <3> QED
      BY <3>1
  <2>3. Offset(n)' = Offset(n)
    BY <1>1 DEF Offset
  <2> QED
    BY <1>3, <1>5, <1>6, <1>7, <1>8, <2>1, <2>2, <2>3, Zenon DEF HostInv
<1>12. ContentInv' /\ BoundInv' /\ CountInv'
  <2>1. ContentInv'
    BY <1>1, <1>2, <1>6, FlightUntouched DEF TransferInv
  <2>2. BoundInv' /\ CountInv'
    BY <1>1, <1>2, <1>6, Zenon DEF TransferInv, BoundInv, CountInv, Ended, Serving, Due
  <2> QED
    BY <2>1, <2>2, Zenon
<1>13. EndInv' /\ RequestInv' /\ AckInv'
  <2>1. ~ Requested /\ ~ Requested'
    BY <1>3, <1>9 DEF Requested
  <2>2. EndInv'
    BY <1>1, <2>1, Zenon DEF TransferInv, EndInv, Serving, Ended
  <2>3. RequestInv' /\ AckInv'
    BY <1>1, <1>2, <1>6, <1>7, <1>9, <2>1, Zenon DEF RequestInv, AckInv
  <2> QED
    BY <2>2, <2>3
<1>14. WireInv'
  BY <1>1, <1>2, <1>3, <1>6, <1>9 DEF WireInv
<1> QED
  BY <1>10, <1>11, <1>12, <1>13, <1>14 DEF TransferInv

LEMMA HostFinishes ==
  ASSUME TransferInv, AcceptComplete \/ Finish
  PROVE  TransferInv'
<1>1. host \in HostRecord
  BY Typed
<1>2. broker \in BrokerRecord
  BY Typed
<1>3. stream \in StreamRecord
  BY Typed, Zenon
<1>4. CASE AcceptComplete
  <2>1. /\ host.pc = "receive" /\ toHost # <<>> /\ toHost' = Tail(toHost)
        /\ UNCHANGED <<size, plan, up, gateway, sender, toGateway>>
    BY <1>4 DEF AcceptComplete, gatewayVars
  <2>2. PICK f \in Frame : f = Head(toHost) /\ f.type = "COMPLETE" /\ Verdict(f) = "OK"
    <3>1. toHost \in Seq(Frame)
      BY Typed
    <3>2. Head(toHost) \in Frame
      BY <2>1, <3>1, TailFacts
    <3> QED
      BY <1>4, <3>2 DEF AcceptComplete
  <2>3. broker.received = size /\ host.pages.intact
    BY <2>1, <2>2, AcceptedComplete
  <2>4. host.pages = [filled |-> size, intact |-> TRUE]
    <3>1. host.pages.filled = size
      BY <2>1, <2>3 DEF TransferInv, HostInv, Running
    <3>2. host.pages \in [filled : Nat, intact : BOOLEAN]
      BY <1>1 DEF HostRecord
    <3> QED
      BY <2>3, <3>1, <3>2, Zenon
  <2>5. /\ host' \in HostRecord
        /\ host'.pc = "finish" /\ host'.pages = host.pages
    BY <1>1, <1>4 DEF AcceptComplete, HostSteps, HostRecord
  <2>6. /\ broker' \in BrokerRecord
        /\ broker'.received = broker.received /\ broker'.complete
    <3>1. PICK n \in Nat : n = broker.next_sequence + 1
      BY <1>2 DEF BrokerRecord
    <3>2. broker' = [broker EXCEPT !.next_sequence = n, !.complete = TRUE]
      BY <1>4, <3>1 DEF AcceptComplete
    <3> QED
      BY <1>2, <3>2, Zenon DEF BrokerRecord
  <2>7. stream' \in StreamRecord
    BY <1>3, <1>4 DEF AcceptComplete, StreamRecord
  <2>8. HostInv' /\ ~ Running' /\ host'.pc # "idle"
    BY <2>1, <2>3, <2>4, <2>5, <2>6 DEF HostInv, Running, Returned
  <2>9. toGateway' \in Seq(Frame) /\ (Requested' => Requested)
    BY <2>1, Typed, Zenon DEF Requested
  <2>10. WireInv'
    BY <2>1, <2>8, Zenon DEF TransferInv, WireInv, Returned
  <2> QED
    BY <2>1, <2>5, <2>6, <2>7, <2>8, <2>9, <2>10, StoppedKeeps, Zenon
<1>5. CASE Finish
  <2>1. host.pc = "finish" /\ UNCHANGED <<size, plan, up, gateway, sender, toHost, toGateway>>
    BY <1>5, Zenon DEF Finish, gatewayVars
  <2>2. broker.complete /\ broker.received = size /\ host.pages = [filled |-> size, intact |-> TRUE]
    BY <2>1 DEF TransferInv, HostInv
  <2>3. host' = [host EXCEPT !.pc = "delivered", !.status = "OK"] /\ broker' = Closed /\ stream' = NoStream
    BY <1>5, <2>2 DEF Finish, FinishRefused
  <2>4. /\ host' \in HostRecord
        /\ host'.pc = "delivered" /\ host'.pages = host.pages
    BY <1>1, <2>3, Zenon DEF HostSteps, Statuses, LocalStatuses, HostRecord
  <2>5. /\ broker' \in BrokerRecord
        /\ ~ broker'.opened
        /\ stream' \in StreamRecord
    BY <2>3, Zenon DEF Closed, NoStream, BrokerRecord, StreamRecord
  <2>6. HostInv' /\ ~ Running' /\ host'.pc # "idle" /\ Returned'
    BY <2>1, <2>2, <2>4, <2>5 DEF HostInv, Running, Returned
  <2>7. toGateway' \in Seq(Frame) /\ (Requested' => Requested)
    BY <2>1, Typed, Zenon DEF Requested
  <2>8. WireInv'
    BY <2>1, <2>6 DEF TransferInv, WireInv
  <2> QED
    BY <2>1, <2>4, <2>5, <2>6, <2>7, <2>8, StoppedKeeps
<1> QED
  BY <1>4, <1>5

-----------------------------------------------------------------------------
(* The invariant.                                                          *)
LEMMA TransferInit == Init => TransferInv
<1> SUFFICES ASSUME Init PROVE TransferInv
  BY Zenon
<1>1. /\ host.pc = "idle" /\ host.pages = Zeroed /\ gateway.pc = "read" /\ ~ broker.opened
      /\ toHost = <<>> /\ toGateway = <<>> /\ size \in Nat
      /\ sender.offset = 0 /\ sender.nextSequence = 0 /\ sender.nextACK = 0 /\ sender.sinceACK = 0
      /\ ~ sender.awaitingACK
  BY SizesAssumption DEF Init, NewStreamSender, Closed
<1>2. TypeInv
  <2>1. host \in HostRecord
    <3>1. Zeroed \in [filled : Nat, intact : BOOLEAN] /\ "idle" \in HostSteps /\ "OK" \in Statuses
      BY DEF Zeroed, HostSteps, Statuses, LocalStatuses
    <3> QED
      BY <3>1 DEF Init, HostRecord
  <2>2. gateway \in GatewayRecord
    BY Zenon DEF Init, GatewaySteps, GatewayRecord
  <2>3. sender \in SenderRecord
    BY Zenon DEF Init, NewStreamSender, SenderRecord
  <2>4. /\ broker \in BrokerRecord
        /\ stream \in StreamRecord
    BY Zenon DEF Init, Closed, NoStream, BrokerRecord, StreamRecord
  <2>5. plan \in Plans /\ up \in BOOLEAN /\ toHost \in Seq(Frame) /\ toGateway \in Seq(Frame)
    BY SMTT(30) DEF Init
  <2> QED
    BY <1>1, <2>1, <2>2, <2>3, <2>4, <2>5, Zenon DEF TypeInv
<1>3. HostInv
  BY <1>1 DEF HostInv, Running, Returned
<1>4. SenderInv
  <2>1. Offset(0) = 0
    BY <1>1, OffsetNext
  <2>2. 0 = 0 * Window + 0 /\ 0 <= Window /\ 0 # Window
    BY WindowProduct
  <2> QED
    BY <1>1, <2>1, <2>2 DEF SenderInv, Serving
<1>5. ContentInv /\ BoundInv /\ CountInv /\ EndInv /\ AckInv
  BY <1>1 DEF ContentInv, BoundInv, CountInv, EndInv, AckInv, Running
<1>6. RequestInv /\ WireInv
  BY <1>1 DEF RequestInv, WireInv
<1> QED
  BY <1>2, <1>3, <1>4, <1>5, <1>6 DEF TransferInv

LEMMA TransferStutter ==
  ASSUME TransferInv, UNCHANGED vars
  PROVE  TransferInv'
<1>1. UNCHANGED <<size, plan, up, host, broker, stream, gateway, sender, toHost, toGateway>>
  BY Zenon DEF vars, hostVars, gatewayVars
<1>2. TypeInv' /\ SenderInv' /\ HostInv'
  BY <1>1, HostUntouched, Zenon DEF TransferInv, TypeInv, SenderInv, Serving, Due, Offset
<1>3. ContentInv'
  BY <1>1, FlightUntouched DEF TransferInv, Running
<1>4. BoundInv' /\ CountInv' /\ EndInv'
  BY <1>1, Zenon DEF TransferInv, BoundInv, CountInv, EndInv, Running, Serving, Due, Requested, Ended
<1>5. RequestInv' /\ AckInv' /\ WireInv'
  BY <1>1 DEF TransferInv, RequestInv, AckInv, WireInv, Running, Returned, Serving, Requested
<1> QED
  BY <1>2, <1>3, <1>4, <1>5 DEF TransferInv

LEMMA TransferNext == TransferInv /\ [Next]_vars => TransferInv'
<1> SUFFICES ASSUME TransferInv, [Next]_vars PROVE TransferInv'
  OBVIOUS
<1>1. CASE Progress
  <2>1. \/ Begin \/ AcceptData \/ AcceptComplete \/ RejectFrame \/ SendAck \/ Finish
        \/ handleArtifact \/ StrayFrame \/ SendData \/ SendComplete \/ Record
        \/ ReceiveACK \/ RefuseACK
    BY <1>1 DEF Progress
  <2> QED
    BY <2>1, BeginKeeps, AcceptDataKeeps, HostFinishes, HostReturns, SendAckKeeps, handleArtifactKeeps,
       RefusalKeeps, SendDataKeeps, SendCompleteKeeps, RecordKeeps, ReceiveACKKeeps
<1>2. CASE Trouble
  <2>1. \/ BeginFails \/ HostGivesUp \/ CloseFails
        \/ RefuseRequest \/ ReadFails \/ TransferExpires \/ GatewayCloses
        \/ LinkDrops
    BY <1>2 DEF Trouble
  <2> QED
    BY <2>1, HostReturns, RefusalKeeps, ClosesKeeps, LinkDropsKeeps
<1>3. CASE UNCHANGED vars
  BY <1>3, TransferStutter
<1> QED
  BY <1>1, <1>2, <1>3 DEF Next

(* Every state of a transfer satisfies the invariant: whatever the sizes   *)
(* of image, record and window, both ends' books, what is in flight between*)
(* them and the acknowledgement due agree.                                 *)
THEOREM TransferInvariant == Spec => []TransferInv
BY TransferInit, TransferNext, PTL DEF Spec

(* pbns_recovery_live_artifact returns OK only with the whole image in the *)
(* pages, zeroes them on every other return, and always closes the broker. *)
THEOREM TransfersAreAllOrNothing == Spec => []AllOrNothing
<1>1. TransferInv => AllOrNothing
  BY Zenon DEF TransferInv, HostInv, AllOrNothing
<1> QED
  BY <1>1, TransferInvariant, PTL

(* The handler waiting for an ACK and the host waiting for a record, with  *)
(* nothing in flight, is a state no transfer reaches, for every window.    *)
THEOREM EndsNeverWaitForEachOther == Spec => []NoMutualWait
<1>1. TransferInv => NoMutualWait
  <2> SUFFICES ASSUME TransferInv, up, gateway.pc = "await", toGateway = <<>>, host.pc = "receive", toHost = <<>>
               PROVE  FALSE
    BY DEF NoMutualWait
  <2>1. Running /\ Serving
    BY DEF Running, Serving
  <2>2. PICK a \in Nat, n \in Nat, r \in Nat :
          a = sender.nextACK /\ n = broker.next_sequence /\ r = stream.records_since_ack
    BY Numbers, Zenon DEF TransferInv
  <2>3. broker.next_ack = a
    BY <2>1, <2>2, Zenon DEF TransferInv, AckInv
  <2>4. r < Window /\ n = a * Window + r
    BY <2>2, <2>3 DEF TransferInv, HostInv
  <2>5. n + 0 = sender.nextSequence + 0
    <3>1. ~ sender.complete /\ Len(toHost) = 0
      BY DEF TransferInv, SenderInv
    <3> QED
      BY <2>1, <2>2, <3>1, Zenon DEF TransferInv, CountInv, Due
  <2>6. sender.nextSequence = a * Window + Window
    BY <2>2 DEF TransferInv, SenderInv
  <2>7. Window \in Nat /\ a * Window \in Nat
    BY WindowProduct
  <2> QED
    BY <2>4, <2>5, <2>6, <2>7
<1> QED
  BY <1>1, TransferInvariant, PTL

(* Unless the gateway runs its chunk-sequence fault, the host refuses no   *)
(* record for its sequence, length, type or position, the broker refuses   *)
(* no acknowledgement and no finish, and the handler takes only the ACK it *)
(* waits for, or the host's CANCEL.                                        *)
THEOREM EndsAlwaysAgree == Spec => []EndsAgree
<1>1. ASSUME TransferInv, plan # "chunk-sequence", host.pc = "receive", toHost # <<>>
      PROVE  Verdict(Head(toHost)) \notin {"ARGUMENT", "LIMIT", "FORMAT", "MESSAGE_TYPE", "SEQUENCE", "STATE"}
  <2>1. PICK n \in Nat : n = broker.next_sequence
    BY <1>1, Numbers, Zenon DEF TransferInv
  <2>2. Running
    BY <1>1, Zenon DEF Running
  <2>3. /\ ~ broker.complete /\ stream.next_sequence = n
        /\ broker.received = Offset(n) /\ stream.offset = Offset(n)
    BY <1>1, <2>1, <2>2 DEF TransferInv, HostInv
  <2>4. PICK f \in Frame : f = Head(toHost) /\ f = toHost[1] /\ 1 \in 1 .. Len(toHost)
    <3>1. toHost \in Seq(Frame)
      BY <1>1, Typed
    <3> QED
      BY <1>1, <3>1, TailFacts
  <2>5. Expected(f, n)
    <3>1. ~ Ended(1 - 1)
      BY DEF Ended
    <3>2. Expected(f, n + 1 - 1)
      BY <1>1, <2>1, <2>2, <2>4, <3>1 DEF TransferInv, ContentInv
    <3> QED
      BY <3>2
  <2>6. size \in Nat
    BY <1>1, Typed
  <2>7. CASE DataAt(f, n)
    <3>1. f.len \in Nat /\ f.len > 0 /\ f.len <= size - Offset(n)
      BY <2>6, <2>7, OffsetNext, Zenon DEF DataAt
    <3>2. bulk_receive(f) = "OK"
      <4>1. f.len # 0 /\ ~ (f.len > size - Offset(n))
        <5>1. Offset(n) \in Nat
          BY <2>6, OffsetNext
        <5> QED
          BY <2>6, <3>1, <5>1
      <4> QED
        BY <2>1, <2>3, <2>7, <4>1 DEF bulk_receive, DataAt
    <3>3. stream_accept(f) = "OK"
      BY <2>3, <2>7 DEF stream_accept, DataAt, Length
    <3> QED
      BY <2>4, <2>7, <3>2, <3>3 DEF Verdict, DataAt
  <2>8. CASE CompleteAt(f, n)
    <3>1. bulk_receive(f) = "OK"
      BY <2>1, <2>3, <2>8 DEF bulk_receive, CompleteAt
    <3>2. stream_complete(f) \in {"OK", "AUTHENTICATION"}
      BY <2>3, <2>8, Zenon DEF stream_complete, CompleteAt
    <3> QED
      BY <2>4, <2>8, <3>1, <3>2, Zenon DEF Verdict, CompleteAt
  <2>9. CASE ErrorAt(f, n)
    <3>1. bulk_receive(f) = f.code
      BY <2>1, <2>3, <2>9 DEF bulk_receive, ErrorAt
    <3> QED
      BY <2>4, <2>9, <3>1, Zenon DEF Verdict, ErrorAt
  <2> QED
    BY <2>5, <2>7, <2>8, <2>9 DEF Expected
<1>2. ASSUME TransferInv, host.pc = "ack" PROVE ~ AckRefused
  BY <1>2, AckIsDue, Zenon DEF AckRefused
<1>3. ASSUME TransferInv, host.pc = "finish" PROVE ~ FinishRefused
  BY <1>3 DEF TransferInv, HostInv, FinishRefused
<1>4. ASSUME TransferInv, gateway.pc = "await", toGateway # <<>>
      PROVE  AcceptACK(Head(toGateway)) \/ Head(toGateway).type = "CANCEL"
  <2>1. ~ Requested
    BY <1>4 DEF TransferInv, RequestInv
  <2>2. PICK a \in Nat : a = sender.nextACK
    BY <1>4, Numbers DEF TransferInv
  <2>3. sender.nextSequence = a * Window + Window
    BY <1>4, <2>2 DEF TransferInv, SenderInv
  <2>4. (a + 1) * Window = a * Window + Window
    BY WindowProduct
  <2> QED
    BY <1>4, <2>1, <2>2, <2>3, <2>4, FirstFrame DEF AcceptACK
<1>5. TransferInv => EndsAgree
  BY <1>1, <1>2, <1>3, <1>4 DEF EndsAgree
<1> QED
  BY <1>5, TransferInvariant, PTL
=============================================================================
