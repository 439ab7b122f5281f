-------------------------- MODULE PicoTunnelProofs --------------------------
(***************************************************************************)
(* PicoTunnel for every number of sessions, connections and bytes, every   *)
(* ring capacity and every aggregation threshold: both byte streams stay in*)
(* order, no connection is left behind, and no byte waits without a        *)
(* deadline.                                                               *)
(*                                                                         *)
(* The argument follows the bytes: each of the four queues between the     *)
(* host and the gateway is a run of consecutive bytes of one sender, the   *)
(* next queue on the way ends where it begins, and while the pump lives    *)
(* the log of what was taken ends where the last queue begins.  A step     *)
(* moves a byte over one of these borders, or drops everything behind it.  *)
(***************************************************************************)
EXTENDS PicoTunnel, TLAPS

TunnelBytes == [from : Nat, n : Nat]
Ports == [dtr : BOOLEAN, session : Nat, written : Nat, rx : Seq(TunnelBytes)]
Networks == [dns_started : BOOLEAN, dns_ready : BOOLEAN, tcp_started : BOOLEAN, tcp_connected : BOOLEAN,
             remote_closed : BOOLEAN, failed : BOOLEAN, connection : Nat, rx : Seq(TunnelBytes)]
Pumps == [up : Seq(TunnelBytes), down : Seq(TunnelBytes), usb_closed : BOOLEAN, tls_closed : BOOLEAN, dead : BOOLEAN]
InBatch == {"batch", "write_up", "read_up", "write_down", "read_down"}
Loops == [pc : {"observe", "network", "off"} \cup InBatch, connected : BOOLEAN, was_ready : BOOLEAN, tail : BOOLEAN,
          force : BOOLEAN, progress : BOOLEAN, steps : Nat]
SentLogs == [1 .. MaxConnections -> Seq(TunnelBytes)]
DeliveredLogs == [1 .. MaxSessions -> Seq(TunnelBytes)]
States == {"DOWN", "WIFI", "TCP", "SESSION", "READY", "BACKOFF", "OFF"}

TunnelTypes ==
  /\ usb \in Ports /\ net \in States /\ lwip \in Networks /\ pump \in Pumps /\ loop \in Loops
  /\ owner \in Seq(Nat) /\ wrote \in Nat
  /\ sent \in SentLogs /\ delivered \in DeliveredLogs

(* The loop, the controller and the pump agree on where the tunnel is.     *)
LoopInv ==
  /\ loop.was_ready <=> net = "READY"
  /\ loop.pc \in InBatch => loop.connected /\ net = "READY"
  /\ loop.pc = "observe" /\ ~ loop.connected => net = "DOWN"
  /\ net # "READY" \/ ~ loop.connected => pump.up = <<>> /\ pump.down = <<>>
  /\ (net # "READY" /\ loop.pc # "off") \/ loop.pc \in InBatch \ {"batch"} => ~ pump.dead
  /\ ~ loop.connected /\ ~ usb.dtr => usb.rx = <<>>
  /\ usb.dtr \/ loop.connected => usb.session >= 1
  /\ usb.session <= MaxSessions

(* A connection is the last one made, in the session the loop sees.        *)
ConnectionInv ==
  /\ lwip.connection \in {0, Len(owner)} /\ Len(owner) <= MaxConnections
  /\ lwip.connection # 0 => lwip.tcp_started
  /\ lwip.tcp_started => Len(owner) >= 1 /\ net \in {"TCP", "SESSION", "READY"}
  /\ net = "READY" => lwip.tcp_started
  /\ ~ lwip.tcp_started => lwip.rx = <<>>
  /\ lwip.tcp_started /\ loop.connected => owner[Len(owner)] = usb.session

(* Bytes on their way are runs without a gap: bytes is the run of from     *)
(* that ends with the byte last.                                           *)
Ends(bytes, from, last) ==
  Len(bytes) <= last /\ \A i \in 1 .. Len(bytes) : bytes[i] = Byte(from, last - Len(bytes) + i)

BytesInv ==
  /\ Ends(usb.rx, usb.session, usb.written)
  /\ Ends(pump.up, usb.session, usb.written - Len(usb.rx))
  /\ Ends(lwip.rx, Len(owner), wrote)
  /\ Ends(pump.down, Len(owner), wrote - Len(lwip.rx))

(* The next byte of either stream goes on where the last one ended, while  *)
(* the pump lives.  What was sent on n connections ends at or before the   *)
(* byte up of the session ses; what a session was given came from its own  *)
(* connections, and ends at the byte down of the last of them.             *)
Live == loop.connected /\ lwip.tcp_started /\ ~ pump.dead
UpTo == usb.written - Len(usb.rx) - Len(pump.up)
DownTo == wrote - Len(lwip.rx) - Len(pump.down)

UpBy(byte, ses, up) == byte.from < ses \/ (byte.from = ses /\ byte.n <= up)

SentAt(st, n, ses, up, live) ==
  /\ \A c \in 1 .. MaxConnections : Run(st[c])
  /\ \A c, d \in 1 .. MaxConnections :
       c < d => \A i \in 1 .. Len(st[c]), j \in 1 .. Len(st[d]) : Before(st[c][i], st[d][j])
  /\ \A c \in 1 .. MaxConnections : \A i \in 1 .. Len(st[c]) : UpBy(st[c][i], ses, up)
  /\ \A c \in 1 .. MaxConnections : c > n => st[c] = <<>>
  /\ live /\ st[n] # <<>> => st[n][Len(st[n])] = Byte(ses, up)

SentInv == SentAt(sent, Len(owner), usb.session, UpTo, Live)

Follows(bytes, i) ==
  /\ IF i > 1 /\ bytes[i - 1].from = bytes[i].from THEN bytes[i].n = bytes[i - 1].n + 1 ELSE bytes[i].n = 1
  /\ i > 1 => bytes[i - 1].from <= bytes[i].from

DownAt(bytes, n, down) ==
  IF down = 0 THEN \A i \in 1 .. Len(bytes) : bytes[i].from < n
              ELSE bytes # <<>> /\ bytes[Len(bytes)] = Byte(n, down)

DeliveredAt(dl, own, ses, down, live) ==
  /\ \A s \in 1 .. MaxSessions : \A i \in 1 .. Len(dl[s]) :
       /\ dl[s][i].from \in 1 .. Len(own) /\ own[dl[s][i].from] = s
       /\ Follows(dl[s], i)
  /\ live => DownAt(dl[ses], Len(own), down)

DeliveredInv == DeliveredAt(delivered, owner, usb.session, DownTo, Live)

TunnelInv == TunnelTypes /\ LoopInv /\ ConnectionInv /\ BytesInv /\ SentInv /\ DeliveredInv /\ HeldBytesHaveADeadline

(* A byte is one of the bytes of its session, or connection.               *)
LEMMA ByteType ==
  ASSUME NEW from \in Nat, NEW n \in Nat
  PROVE  Byte(from, n) \in TunnelBytes /\ Byte(from, n).from = from /\ Byte(from, n).n = n
BY DEF Byte, TunnelBytes

LEMMA EmptyEnds ==
  ASSUME NEW from \in Nat, NEW last \in Nat
  PROVE  Ends(<<>>, from, last)
BY DEF Ends

(* The queue of a port or a socket grows by the byte after its last one.   *)
LEMMA AppendEnds ==
  ASSUME NEW from \in Nat, NEW last \in Nat, NEW bytes \in Seq(TunnelBytes), Ends(bytes, from, last)
  PROVE  /\ Append(bytes, Byte(from, last + 1)) \in Seq(TunnelBytes)
         /\ Len(Append(bytes, Byte(from, last + 1))) = Len(bytes) + 1
         /\ Ends(Append(bytes, Byte(from, last + 1)), from, last + 1)
<1> DEFINE b == Byte(from, last + 1)
           new == Append(bytes, b)
<1>1. b \in TunnelBytes
  BY ByteType
<1> HIDE DEF b
<1>2. new \in Seq(TunnelBytes) /\ Len(new) = Len(bytes) + 1
  BY <1>1
<1>3. \A i \in 1 .. Len(bytes) + 1 : new[i] = Byte(from, last + 1 - (Len(bytes) + 1) + i)
  <2> SUFFICES ASSUME NEW i \in 1 .. Len(bytes) + 1 PROVE new[i] = Byte(from, last + 1 - (Len(bytes) + 1) + i)
    OBVIOUS
  <2>1. CASE i = Len(bytes) + 1
    <3>1. last + 1 - (Len(bytes) + 1) + i = last + 1
      BY <2>1
    <3> QED BY <2>1, <3>1, <1>1 DEF b
  <2>2. CASE i \in 1 .. Len(bytes)
    <3>1. last + 1 - (Len(bytes) + 1) + i = last - Len(bytes) + i
      BY <2>2
    <3>2. new[i] = bytes[i]
      BY <1>1, <2>2
    <3> QED BY <2>2, <3>1, <3>2 DEF Ends
  <2> QED BY <2>1, <2>2
<1> QED BY <1>2, <1>3 DEF Ends, b

(* A write takes the first bytes of a queue and leaves the rest.           *)
LEMMA SplitEnds ==
  ASSUME NEW from \in Nat, NEW last \in Nat, NEW bytes \in Seq(TunnelBytes), Ends(bytes, from, last),
         NEW k \in 0 .. Len(bytes)
  PROVE  /\ First(bytes, k) \in Seq(TunnelBytes) /\ Len(First(bytes, k)) = k
         /\ Rest(bytes, k) \in Seq(TunnelBytes) /\ Len(Rest(bytes, k)) = Len(bytes) - k
         /\ Ends(First(bytes, k), from, last - Len(bytes) + k)
         /\ Ends(Rest(bytes, k), from, last)
<1>1. First(bytes, k) \in Seq(TunnelBytes) /\ Len(First(bytes, k)) = k
      /\ \A i \in 1 .. k : First(bytes, k)[i] = bytes[i]
  BY DEF First
<1>2. Rest(bytes, k) \in Seq(TunnelBytes) /\ Len(Rest(bytes, k)) = Len(bytes) - k
      /\ \A i \in 1 .. Len(bytes) - k : Rest(bytes, k)[i] = bytes[k + i]
  BY DEF Rest
<1>3. Len(bytes) <= last /\ \A i \in 1 .. Len(bytes) : bytes[i] = Byte(from, last - Len(bytes) + i)
  BY DEF Ends
<1>4. Ends(First(bytes, k), from, last - Len(bytes) + k)
  <2>1. \A i \in 1 .. k : First(bytes, k)[i] = Byte(from, (last - Len(bytes) + k) - k + i)
    <3> SUFFICES ASSUME NEW i \in 1 .. k PROVE First(bytes, k)[i] = Byte(from, (last - Len(bytes) + k) - k + i)
      OBVIOUS
    <3>1. (last - Len(bytes) + k) - k + i = last - Len(bytes) + i
      BY <1>3
    <3> QED BY <1>1, <1>3, <3>1
  <2> QED BY <1>1, <1>3, <2>1 DEF Ends
<1>5. Ends(Rest(bytes, k), from, last)
  <2>1. \A i \in 1 .. Len(bytes) - k : Rest(bytes, k)[i] = Byte(from, last - (Len(bytes) - k) + i)
    <3> SUFFICES ASSUME NEW i \in 1 .. Len(bytes) - k PROVE Rest(bytes, k)[i] = Byte(from, last - (Len(bytes) - k) + i)
      OBVIOUS
    <3>1. last - (Len(bytes) - k) + i = last - Len(bytes) + (k + i) /\ k + i \in 1 .. Len(bytes)
      BY <1>3
    <3> QED BY <1>2, <1>3, <3>1
  <2> QED BY <1>2, <1>3, <2>1 DEF Ends
<1> QED BY <1>1, <1>2, <1>4, <1>5

(* Bytes read go behind the ones the pump has.                             *)
LEMMA JoinEnds ==
  ASSUME NEW from \in Nat, NEW last \in Nat, NEW a \in Seq(TunnelBytes), NEW b \in Seq(TunnelBytes),
         Ends(a, from, last), Ends(b, from, last + Len(b))
  PROVE  /\ a \o b \in Seq(TunnelBytes) /\ Len(a \o b) = Len(a) + Len(b)
         /\ Ends(a \o b, from, last + Len(b))
<1>1. /\ a \o b \in Seq(TunnelBytes) /\ Len(a \o b) = Len(a) + Len(b)
  OBVIOUS
<1>2. /\ Len(a) <= last /\ \A i \in 1 .. Len(a) : a[i] = Byte(from, last - Len(a) + i)
      /\ \A i \in 1 .. Len(b) : b[i] = Byte(from, last + Len(b) - Len(b) + i)
  BY DEF Ends
<1>3. \A i \in 1 .. Len(a) + Len(b) : (a \o b)[i] = Byte(from, last + Len(b) - (Len(a) + Len(b)) + i)
  <2> SUFFICES ASSUME NEW i \in 1 .. Len(a) + Len(b)
               PROVE (a \o b)[i] = Byte(from, last + Len(b) - (Len(a) + Len(b)) + i)
    OBVIOUS
  <2>1. CASE i \in 1 .. Len(a)
    <3>1. last + Len(b) - (Len(a) + Len(b)) + i = last - Len(a) + i
      BY <1>2
    <3>2. (a \o b)[i] = a[i]
      BY <2>1
    <3> QED BY <1>2, <2>1, <3>1, <3>2
  <2>2. CASE ~ (i \in 1 .. Len(a))
    <3>1. /\ last + Len(b) - (Len(a) + Len(b)) + i = last + Len(b) - Len(b) + (i - Len(a))
          /\ i - Len(a) \in 1 .. Len(b)
      BY <1>2, <2>2
    <3>2. (a \o b)[i] = b[i - Len(a)]
      BY <2>2
    <3> QED BY <1>2, <2>2, <3>1, <3>2
  <2> QED BY <2>1, <2>2
<1> QED BY <1>1, <1>2, <1>3 DEF Ends

LEMMA UpByLemma ==
  ASSUME NEW b \in TunnelBytes, NEW ses \in Nat, NEW up \in Nat, UpBy(b, ses, up)
  PROVE  /\ \A more \in Nat : up <= more => UpBy(b, ses, more)
         /\ UpBy(b, ses + 1, 0)
         /\ \A a \in TunnelBytes : a.from = ses /\ a.n > up => Before(b, a)
<1>1. b.from \in Nat /\ b.n \in Nat
  BY DEF TunnelBytes
<1>2. \A a \in TunnelBytes : a.n \in Nat
  BY DEF TunnelBytes
<1> QED BY <1>1, <1>2 DEF UpBy, Before

(* What was sent stays behind a session that goes on, or a pump that       *)
(* drops what it has and dies.                                             *)
LEMMA SentStays ==
  ASSUME NEW st \in SentLogs, NEW n \in Nat, NEW ses \in Nat, NEW up \in Nat, NEW more \in Nat,
         NEW live, NEW then, SentAt(st, n, ses, up, live), up <= more, then => live /\ more = up
  PROVE  SentAt(st, n, ses, more, then)
<1>1. \A c \in 1 .. MaxConnections : \A i \in 1 .. Len(st[c]) : st[c][i] \in TunnelBytes
  BY DEF SentLogs
<1>2. \A c \in 1 .. MaxConnections : \A i \in 1 .. Len(st[c]) : UpBy(st[c][i], ses, more)
  BY <1>1, UpByLemma DEF SentAt
<1> QED BY <1>2 DEF SentAt

LEMMA SentSession ==
  ASSUME NEW st \in SentLogs, NEW n \in Nat, NEW ses \in Nat, NEW up \in Nat, NEW live,
         SentAt(st, n, ses, up, live)
  PROVE  SentAt(st, n, ses + 1, 0, FALSE)
<1>1. \A c \in 1 .. MaxConnections : \A i \in 1 .. Len(st[c]) : st[c][i] \in TunnelBytes
  BY DEF SentLogs
<1>2. \A c \in 1 .. MaxConnections : \A i \in 1 .. Len(st[c]) : UpBy(st[c][i], ses + 1, 0)
  BY <1>1, UpByLemma DEF SentAt
<1> QED BY <1>2 DEF SentAt

LEMMA SentConnects ==
  ASSUME NEW st \in SentLogs, NEW n \in Nat, n < MaxConnections, NEW ses \in Nat, NEW up \in Nat,
         NEW live, NEW then, SentAt(st, n, ses, up, live)
  PROVE  SentAt(st, n + 1, ses, up, then)
<1>1. MaxConnections \in Nat
  BY TunnelAssumption
<1>2. st[n + 1] = <<>>
  BY <1>1 DEF SentAt
<1>3. \A c \in 1 .. MaxConnections : c > n + 1 => st[c] = <<>>
  BY <1>1 DEF SentAt
<1> QED BY <1>2, <1>3 DEF SentAt

(* The last connection takes the next bytes of the session.                *)
LEMMA SentGrows ==
  ASSUME NEW st \in SentLogs, NEW n \in 1 .. MaxConnections, NEW ses \in Nat, NEW up \in Nat,
         NEW live, live, NEW then, SentAt(st, n, ses, up, live),
         NEW b \in Seq(TunnelBytes), Ends(b, ses, up + Len(b)), NEW more \in Nat, more >= up + Len(b),
         then => more = up + Len(b)
  PROVE  /\ [st EXCEPT ![n] = @ \o b] \in SentLogs
         /\ SentAt([st EXCEPT ![n] = @ \o b], n, ses, more, then)
<1> DEFINE old == st[n]
           new == old \o b
           nst == [st EXCEPT ![n] = @ \o b]
<1>1. MaxConnections \in Nat /\ n \in Nat
  BY TunnelAssumption
<1>2. /\ old \in Seq(TunnelBytes) /\ new \in Seq(TunnelBytes) /\ Len(new) = Len(old) + Len(b)
      /\ Len(old) \in Nat /\ Len(b) \in Nat
      /\ \A i \in 1 .. Len(old) : new[i] = old[i]
      /\ \A i \in 1 .. Len(b) : new[Len(old) + i] = b[i]
  BY DEF SentLogs
<1>3. nst \in SentLogs /\ nst[n] = new /\ \A c \in 1 .. MaxConnections : c # n => nst[c] = st[c]
  BY <1>2 DEF SentLogs
<1>4. /\ \A i \in 1 .. Len(b) : b[i] = Byte(ses, up + i)
      /\ \A i \in 1 .. Len(b) : b[i].from = ses /\ b[i].n = up + i
  <2>1. \A i \in 1 .. Len(b) : up + Len(b) - Len(b) + i = up + i
    BY <1>2
  <2>2. \A i \in 1 .. Len(b) : b[i] = Byte(ses, up + i)
    BY <2>1 DEF Ends
  <2>3. \A i \in 1 .. Len(b) : Byte(ses, up + i).from = ses /\ Byte(ses, up + i).n = up + i
    BY DEF Byte
  <2> QED BY <2>2, <2>3
<1>5. \A i \in 1 .. Len(old) : old[i] \in TunnelBytes /\ UpBy(old[i], ses, up)
  BY <1>1, <1>2 DEF SentAt
<1>6. \A c \in 1 .. MaxConnections : \A i \in 1 .. Len(st[c]) : st[c][i] \in TunnelBytes /\ UpBy(st[c][i], ses, up)
  <2>1. \A c \in 1 .. MaxConnections : st[c] \in Seq(TunnelBytes)
    BY DEF SentLogs
  <2>2. \A c \in 1 .. MaxConnections : \A i \in 1 .. Len(st[c]) : st[c][i] \in TunnelBytes
    BY <2>1
  <2> QED BY <2>2 DEF SentAt
<1> HIDE DEF nst, new, old
<1>7. Run(new)
  <2> SUFFICES ASSUME NEW i \in 1 .. Len(new) - 1 PROVE new[i + 1] = Byte(new[i].from, new[i].n + 1)
    BY DEF Run
  <2>1. CASE i < Len(old)
    <3>1. i \in 1 .. Len(old) - 1 /\ i \in 1 .. Len(old) /\ i + 1 \in 1 .. Len(old)
      BY <1>2, <2>1
    <3>2. new[i] = old[i] /\ new[i + 1] = old[i + 1]
      BY <1>2, <3>1, Zenon
    <3> QED BY <1>1, <3>1, <3>2 DEF SentAt, Run, old
  <2>2. CASE i = Len(old)
    <3>1. new[i] = Byte(ses, up)
      <4>1. old # <<>> /\ new[i] = old[Len(old)]
        BY <1>2, <2>2
      <4> QED BY <4>1 DEF SentAt, old
    <3>2. new[i + 1] = Byte(ses, up + 1)
      BY <1>2, <1>4, <2>2
    <3> QED BY <3>1, <3>2 DEF Byte
  <2>3. CASE i > Len(old)
    <3>1. PICK j \in 1 .. Len(b) - 1 : i = Len(old) + j
      <4>1. i - Len(old) \in 1 .. Len(b) - 1 /\ i = Len(old) + (i - Len(old))
        BY <1>2, <2>3
      <4> QED BY <4>1
    <3>2. new[i] = b[j] /\ new[i + 1] = b[j + 1] /\ j \in 1 .. Len(b) /\ j + 1 \in 1 .. Len(b)
      <4>1. Len(old) + (j + 1) = i + 1 /\ j \in 1 .. Len(b) /\ j + 1 \in 1 .. Len(b)
        BY <1>2, <3>1
      <4> QED BY <1>2, <3>1, <4>1
    <3>3. b[j + 1] = Byte(ses, up + (j + 1)) /\ b[j].from = ses /\ b[j].n = up + j
      BY <1>4, <3>2
    <3>4. up + (j + 1) = up + j + 1
      OBVIOUS
    <3> QED BY <3>2, <3>3, <3>4
  <2> QED BY <1>2, <2>1, <2>2, <2>3
<1>8. \A i \in 1 .. Len(new) : UpBy(new[i], ses, more)
  <2> SUFFICES ASSUME NEW i \in 1 .. Len(new) PROVE UpBy(new[i], ses, more)
    OBVIOUS
  <2>1. CASE i \in 1 .. Len(old)
    <3>1. up <= more
      BY <1>2
    <3> QED BY <1>2, <1>5, <2>1, <3>1, UpByLemma
  <2>2. CASE i \notin 1 .. Len(old)
    <3>1. PICK j \in 1 .. Len(b) : i = Len(old) + j
      <4>1. i - Len(old) \in 1 .. Len(b) /\ i = Len(old) + (i - Len(old))
        BY <1>2, <2>2
      <4> QED BY <4>1, Zenon
    <3>2. new[i].from = ses /\ new[i].n = up + j
      BY <1>2, <1>4, <3>1, Zenon
    <3> QED BY <1>2, <3>2 DEF UpBy
  <2> QED BY <2>1, <2>2
<1>9. ASSUME NEW c \in 1 .. MaxConnections, c < n, NEW i \in 1 .. Len(st[c]), NEW j \in 1 .. Len(new)
      PROVE  Before(st[c][i], new[j])
  <2>1. CASE j \in 1 .. Len(old)
    BY <1>2, <1>9, <2>1, ZenonT(30) DEF SentAt, old
  <2>2. CASE j \notin 1 .. Len(old)
    <3>1. PICK k \in 1 .. Len(b) : j = Len(old) + k
      <4>1. j - Len(old) \in 1 .. Len(b) /\ j = Len(old) + (j - Len(old))
        BY <1>2, <2>2
      <4> QED BY <4>1, Zenon
    <3>2. new[j].from = ses /\ new[j].n = up + k
      BY <1>2, <1>4, <3>1, Zenon
    <3>3. new[j] \in TunnelBytes /\ st[c][i] \in TunnelBytes /\ UpBy(st[c][i], ses, up) /\ new[j].n > up
      BY <1>2, <1>6, <3>2, SMTT(30)
    <3> QED BY <3>2, <3>3, UpByLemma, Zenon
  <2> QED BY <2>1, <2>2
<1>10. \A c, d \in 1 .. MaxConnections :
         c < d => \A i \in 1 .. Len(nst[c]), j \in 1 .. Len(nst[d]) : Before(nst[c][i], nst[d][j])
  <2> SUFFICES ASSUME NEW c \in 1 .. MaxConnections, NEW d \in 1 .. MaxConnections, c < d,
                      NEW i \in 1 .. Len(nst[c]), NEW j \in 1 .. Len(nst[d])
               PROVE  Before(nst[c][i], nst[d][j])
    BY Zenon
  <2>1. d <= n
    <3>1. d > n => st[d] = <<>> /\ d # n
      BY <1>1 DEF SentAt
    <3> QED BY <1>1, <1>3, <3>1
  <2>2. c # n /\ nst[c] = st[c]
    BY <1>1, <1>3, <2>1
  <2>3. CASE d = n
    BY <1>3, <1>9, <2>2, <2>3, Zenon
  <2>4. CASE d # n
    BY <1>3, <2>2, <2>4, Zenon DEF SentAt
  <2> QED BY <2>3, <2>4
<1>11. \A c \in 1 .. MaxConnections : \A i \in 1 .. Len(nst[c]) : UpBy(nst[c][i], ses, more)
  <2>1. ASSUME NEW c \in 1 .. MaxConnections, c # n, NEW i \in 1 .. Len(nst[c]) PROVE UpBy(nst[c][i], ses, more)
    <3>1. up <= more
      BY <1>2
    <3> QED BY <1>3, <1>6, <2>1, <3>1, UpByLemma, Zenon
  <2> QED BY <1>3, <1>8, <2>1
<1>12. then /\ new # <<>> => new[Len(new)] = Byte(ses, more)
  <2>1. CASE Len(b) = 0
    <3>1. (new = old /\ more = up) \/ ~ then
      BY <1>2, <2>1
    <3> QED BY <3>1 DEF SentAt, old
  <2>2. CASE Len(b) # 0
    <3>1. Len(b) \in 1 .. Len(b) /\ new[Len(new)] = b[Len(b)]
      BY <1>2, <2>2
    <3> QED BY <1>4, <3>1
  <2> QED BY <2>1, <2>2
<1>13. \A c \in 1 .. MaxConnections : c > n => nst[c] = <<>>
  BY <1>1, <1>3 DEF SentAt
<1>14. \A c \in 1 .. MaxConnections : Run(nst[c])
  BY <1>3, <1>7 DEF SentAt
<1>15. SentAt(nst, n, ses, more, then)
  BY <1>3, <1>10, <1>11, <1>12, <1>13, <1>14 DEF SentAt
<1> QED BY <1>3, <1>15 DEF nst

(* What was delivered stays in order when nothing more is delivered.       *)
LEMMA DeliveredStays ==
  ASSUME NEW dl \in DeliveredLogs, NEW own \in Seq(Nat), NEW ses, NEW down, NEW nses, NEW ndown,
         NEW live, NEW then, DeliveredAt(dl, own, ses, down, live), then => live /\ nses = ses /\ ndown = down
  PROVE  DeliveredAt(dl, own, nses, ndown, then)
BY DEF DeliveredAt

(* A new connection is behind every connection a session had bytes from.   *)
LEMMA DeliveredConnects ==
  ASSUME NEW dl \in DeliveredLogs, NEW own \in Seq(Nat), NEW ses \in 1 .. MaxSessions, NEW down, NEW live, NEW then,
         DeliveredAt(dl, own, ses, down, live)
  PROVE  DeliveredAt(dl, Append(own, ses), ses, 0, then)
<1> DEFINE new == Append(own, ses)
<1>1. MaxSessions \in Nat /\ ses \in Nat
  BY TunnelAssumption
<1>2. Len(new) = Len(own) + 1 /\ Len(own) \in Nat /\ \A i \in 1 .. Len(own) : new[i] = own[i]
  BY <1>1
<1> HIDE DEF new
<1>3. ASSUME NEW s \in 1 .. MaxSessions, NEW i \in 1 .. Len(dl[s])
      PROVE  /\ dl[s][i].from \in 1 .. Len(new) /\ new[dl[s][i].from] = s /\ dl[s][i].from < Len(new)
             /\ Follows(dl[s], i)
  <2>1. dl[s][i].from \in 1 .. Len(own) /\ own[dl[s][i].from] = s /\ Follows(dl[s], i)
    BY DEF DeliveredAt
  <2> QED BY <1>2, <2>1, SMTT(30)
<1>4. DownAt(dl[ses], Len(new), 0)
  BY <1>3 DEF DownAt
<1>5. DeliveredAt(dl, new, ses, 0, then)
  BY <1>3, <1>4 DEF DeliveredAt
<1> QED BY <1>5 DEF new

(* The session is given the next bytes of its last connection.             *)
LEMMA DeliveredGrows ==
  ASSUME NEW dl \in DeliveredLogs, NEW own \in Seq(Nat), NEW ses \in 1 .. MaxSessions, NEW down \in Nat,
         NEW live, live, DeliveredAt(dl, own, ses, down, live), Len(own) >= 1, own[Len(own)] = ses,
         NEW b \in Seq(TunnelBytes), Len(b) >= 1, Ends(b, Len(own), down + Len(b))
  PROVE  /\ [dl EXCEPT ![ses] = @ \o b] \in DeliveredLogs
         /\ DeliveredAt([dl EXCEPT ![ses] = @ \o b], own, ses, down + Len(b), live)
<1> DEFINE old == dl[ses]
           new == old \o b
           ndl == [dl EXCEPT ![ses] = @ \o b]
           m == Len(own)
<1>1. m \in Nat /\ m >= 1
  OBVIOUS
<1>2. /\ old \in Seq(TunnelBytes) /\ new \in Seq(TunnelBytes) /\ Len(new) = Len(old) + Len(b)
      /\ Len(old) \in Nat /\ Len(b) \in Nat
      /\ \A i \in 1 .. Len(old) : new[i] = old[i]
      /\ \A i \in 1 .. Len(b) : new[Len(old) + i] = b[i]
  BY SMTT(30) DEF DeliveredLogs
<1>3. ndl \in DeliveredLogs /\ ndl[ses] = new /\ \A s \in 1 .. MaxSessions : s # ses => ndl[s] = dl[s]
  BY <1>2 DEF DeliveredLogs
<1>4. /\ \A i \in 1 .. Len(b) : b[i] = Byte(m, down + i)
      /\ \A i \in 1 .. Len(b) : b[i].from = m /\ b[i].n = down + i
  <2>1. \A i \in 1 .. Len(b) : down + Len(b) - Len(b) + i = down + i
    BY <1>2
  <2>2. \A i \in 1 .. Len(b) : b[i] = Byte(m, down + i)
    BY <2>1 DEF Ends
  <2>3. \A i \in 1 .. Len(b) : Byte(m, down + i).from = m /\ Byte(m, down + i).n = down + i
    BY DEF Byte
  <2> QED BY <2>2, <2>3, Zenon
<1>5. DownAt(old, m, down)
  BY DEF DeliveredAt
<1>6. \A i \in 1 .. Len(old) : old[i].from \in 1 .. m /\ own[old[i].from] = ses /\ Follows(old, i)
  BY SMTT(30) DEF DeliveredAt
<1>7. own[m] = ses
  OBVIOUS
<1> HIDE DEF ndl, new, old, m
<1>8. ASSUME NEW i \in 1 .. Len(new)
      PROVE  new[i].from \in 1 .. m /\ own[new[i].from] = ses /\ Follows(new, i)
  <2>1. CASE i \in 1 .. Len(old)
    <3>1. new[i] = old[i] /\ (i > 1 => new[i - 1] = old[i - 1])
      <4>1. i > 1 => i - 1 \in 1 .. Len(old)
        BY <1>2, <2>1
      <4> QED BY <1>2, <2>1, <4>1, Zenon
    <3> QED BY <1>6, <2>1, <3>1, Zenon DEF Follows
  <2>2. CASE i = Len(old) + 1
    <3>1. new[i].from = m /\ new[i].n = down + 1
      <4>1. 1 \in 1 .. Len(b) /\ new[i] = b[1]
        BY <1>2, <2>2, SMTT(30)
      <4> QED BY <1>4, <4>1, Zenon
    <3>2. CASE Len(old) = 0
      <4>1. i = 1 /\ down = 0
        BY <1>5, <2>2, <3>2, <1>2 DEF DownAt
      <4> QED BY <1>1, <1>7, <3>1, <4>1 DEF Follows
    <3>3. CASE Len(old) # 0
      <4>1. i > 1 /\ new[i - 1] = old[Len(old)] /\ Len(old) \in 1 .. Len(old)
        BY <1>2, <2>2, <3>3, SMTT(30)
      <4>2. CASE down = 0
        <5>1. old[Len(old)].from < m /\ old[Len(old)].from \in 1 .. m
          BY <1>5, <1>6, <4>1, <4>2 DEF DownAt
        <5> QED BY <1>1, <1>7, <3>1, <4>1, <4>2, <5>1 DEF Follows
      <4>3. CASE down # 0
        <5>1. old[Len(old)] = Byte(m, down)
          BY <1>5, <4>3 DEF DownAt
        <5>2. old[Len(old)].from = m /\ old[Len(old)].n = down
          BY <5>1 DEF Byte
        <5> QED BY <1>1, <1>7, <3>1, <4>1, <5>2 DEF Follows
      <4> QED BY <4>2, <4>3
    <3> QED BY <3>2, <3>3
  <2>3. CASE i > Len(old) + 1
    <3>1. PICK j \in 2 .. Len(b) : i = Len(old) + j
      <4>1. i - Len(old) \in 2 .. Len(b) /\ i = Len(old) + (i - Len(old))
        BY <1>2, <2>3, SMTT(30)
      <4> QED BY <4>1, Zenon
    <3>2. /\ i - 1 = Len(old) + (j - 1) /\ i > 1
          /\ j \in 1 .. Len(b) /\ j - 1 \in 1 .. Len(b)
      BY <1>2, <3>1, SMTT(30)
    <3>3. new[i] = b[j] /\ new[i - 1] = b[j - 1]
      BY <1>2, <3>1, <3>2, Zenon
    <3>4. b[j].from = m /\ b[j].n = down + j /\ b[j - 1].from = m /\ b[j - 1].n = down + (j - 1)
      BY <1>4, <3>2, Zenon
    <3> QED BY <1>1, <1>7, <3>2, <3>3, <3>4 DEF Follows
  <2> QED BY <1>2, <2>1, <2>2, <2>3
<1>9. DownAt(new, m, down + Len(b))
  <2>1. Len(b) \in 1 .. Len(b) /\ new[Len(new)] = b[Len(b)] /\ new # <<>> /\ down + Len(b) # 0
    BY <1>2
  <2> QED BY <1>4, <2>1 DEF DownAt
<1>10. \A s \in 1 .. MaxSessions : s # ses => \A i \in 1 .. Len(ndl[s]) :
         ndl[s][i].from \in 1 .. Len(own) /\ own[ndl[s][i].from] = s /\ Follows(ndl[s], i)
  BY <1>3, Zenon DEF DeliveredAt
<1>11. DeliveredAt(ndl, own, ses, down + Len(b), live)
  BY <1>3, <1>8, <1>9, <1>10, SMTT(30) DEF DeliveredAt, m
<1> QED BY <1>3, <1>11, Zenon DEF ndl

-----------------------------------------------------------------------------
LEMMA PortNumbers ==
  ASSUME NEW u \in Ports
  PROVE  u.session \in Nat /\ u.written \in Nat /\ u.rx \in Seq(TunnelBytes) /\ Len(u.rx) \in Nat
<1>1. u.session \in Nat /\ u.written \in Nat /\ u.rx \in Seq(TunnelBytes)
  BY DEF Ports
<1> QED BY <1>1

LEMMA PumpNumbers ==
  ASSUME NEW p \in Pumps
  PROVE  p.up \in Seq(TunnelBytes) /\ p.down \in Seq(TunnelBytes) /\ Len(p.up) \in Nat /\ Len(p.down) \in Nat
<1>1. p.up \in Seq(TunnelBytes) /\ p.down \in Seq(TunnelBytes)
  BY DEF Pumps
<1> QED BY <1>1

LEMMA NetworkNumbers ==
  ASSUME NEW l \in Networks
  PROVE  l.connection \in Nat /\ l.rx \in Seq(TunnelBytes) /\ Len(l.rx) \in Nat
<1>1. l.connection \in Nat /\ l.rx \in Seq(TunnelBytes)
  BY DEF Networks
<1> QED BY <1>1

LEMMA TunnelNumbers ==
  ASSUME TunnelTypes
  PROVE  /\ usb.session \in Nat /\ usb.written \in Nat /\ usb.rx \in Seq(TunnelBytes) /\ Len(usb.rx) \in Nat
         /\ lwip.connection \in Nat /\ lwip.rx \in Seq(TunnelBytes) /\ Len(lwip.rx) \in Nat
         /\ pump.up \in Seq(TunnelBytes) /\ pump.down \in Seq(TunnelBytes)
         /\ Len(pump.up) \in Nat /\ Len(pump.down) \in Nat
         /\ Len(owner) \in Nat /\ wrote \in Nat
<1>1. usb \in Ports /\ lwip \in Networks /\ pump \in Pumps /\ Len(owner) \in Nat /\ wrote \in Nat
  BY DEF TunnelTypes
<1> QED BY <1>1, PortNumbers, NetworkNumbers, PumpNumbers

LEMMA TunnelFlags ==
  ASSUME TunnelTypes
  PROVE  /\ usb.dtr \in BOOLEAN /\ lwip.tcp_started \in BOOLEAN /\ lwip.tcp_connected \in BOOLEAN
         /\ pump.dead \in BOOLEAN /\ pump.usb_closed \in BOOLEAN /\ pump.tls_closed \in BOOLEAN
         /\ loop.connected \in BOOLEAN /\ loop.tail \in BOOLEAN /\ loop.was_ready \in BOOLEAN
BY DEF TunnelTypes, Ports, Networks, Pumps, Loops

(* The bytes on their way, counted.                                        *)
LEMMA Waiting ==
  ASSUME NEW from, NEW last \in Nat, NEW a \in Seq(TunnelBytes), NEW b \in Seq(TunnelBytes),
         Ends(a, from, last), Ends(b, from, last - Len(a))
  PROVE  /\ last - Len(a) \in Nat /\ last - Len(a) - Len(b) \in Nat
         /\ (last - Len(a) - Len(b)) + Len(b) = last - Len(a)
<1>1. Len(a) \in Nat /\ Len(b) \in Nat /\ Len(a) <= last /\ Len(b) <= last - Len(a)
  BY DEF Ends
<1> QED BY <1>1

LEMMA Counts ==
  ASSUME TunnelTypes, BytesInv
  PROVE  /\ UpTo \in Nat /\ DownTo \in Nat
         /\ usb.written - Len(usb.rx) \in Nat /\ wrote - Len(lwip.rx) \in Nat
         /\ UpTo + Len(pump.up) = usb.written - Len(usb.rx)
         /\ DownTo + Len(pump.down) = wrote - Len(lwip.rx)
<1>1. /\ Len(usb.rx) <= usb.written /\ Len(pump.up) <= usb.written - Len(usb.rx)
      /\ Len(lwip.rx) <= wrote /\ Len(pump.down) <= wrote - Len(lwip.rx)
  BY DEF BytesInv, Ends
<1>2. \A a, b, c \in Nat :
        b <= a /\ c <= a - b => a - b \in Nat /\ a - b - c \in Nat /\ (a - b - c) + c = a - b
  OBVIOUS
<1>3. /\ usb.written \in Nat /\ Len(usb.rx) \in Nat /\ Len(pump.up) \in Nat
      /\ wrote \in Nat /\ Len(lwip.rx) \in Nat /\ Len(pump.down) \in Nat
  BY TunnelNumbers
<1>4. UpTo \in Nat /\ usb.written - Len(usb.rx) \in Nat /\ UpTo + Len(pump.up) = usb.written - Len(usb.rx)
  BY <1>1, <1>2, <1>3, Zenon DEF UpTo
<1>5. DownTo \in Nat /\ wrote - Len(lwip.rx) \in Nat /\ DownTo + Len(pump.down) = wrote - Len(lwip.rx)
  BY <1>1, <1>2, <1>3, Zenon DEF DownTo
<1> QED BY <1>4, <1>5

LEMMA EmptyPump ==
  Empty \in Pumps /\ Empty.up = <<>> /\ Empty.down = <<>> /\ Empty.dead = FALSE
BY DEF Empty, Pumps

LEMMA FreshNetwork ==
  /\ Fresh \in Networks /\ Fresh.connection = 0 /\ Fresh.rx = <<>> /\ Fresh.tcp_started = FALSE
  /\ Fresh.tcp_connected = FALSE
BY DEF Fresh, Networks

LEMMA TunnelStarts ==
  TunnelInit => TunnelInv
<1> SUFFICES ASSUME TunnelInit PROVE TunnelInv
  BY Zenon
<1>1. TunnelTypes
  BY TunnelAssumption
  DEF TunnelInit, TunnelTypes, Ports, Networks, Pumps, Loops, Fresh, Empty, SentLogs, DeliveredLogs, States
<1>2. LoopInv /\ ConnectionInv /\ HeldBytesHaveADeadline
  BY TunnelAssumption DEF TunnelInit, LoopInv, ConnectionInv, HeldBytesHaveADeadline, InBatch, Fresh, Empty
<1>3. BytesInv
  BY EmptyEnds DEF TunnelInit, BytesInv, Fresh, Empty
<1>4. ~ Live /\ UpTo = 0
  BY DEF TunnelInit, Live, UpTo, Empty
<1>5. SentInv
  <2>1. \A c \in 1 .. MaxConnections : sent[c] = <<>>
    BY DEF TunnelInit
  <2> QED BY <1>4, <2>1 DEF SentInv, SentAt, Run
<1>6. DeliveredInv
  BY <1>4 DEF TunnelInit, DeliveredInv, DeliveredAt
<1> QED BY <1>1, <1>2, <1>3, <1>5, <1>6 DEF TunnelInv

LEMMA HostOpenKeeps ==
  ASSUME TunnelInv, HostOpen
  PROVE  TunnelInv'
<1> USE DEF TunnelInv
<1>1. /\ TunnelTypes'
      /\ usb'.dtr /\ usb'.session = usb.session + 1 /\ usb'.written = 0 /\ usb'.rx = usb.rx
  <2>1. usb \in Ports /\ usb' = [usb EXCEPT !.dtr = TRUE, !.session = usb.session + 1, !.written = 0]
    BY DEF HostOpen, TunnelTypes
  <2>2. usb' \in Ports
    <3>1. usb.session + 1 \in Nat
      BY TunnelNumbers
    <3> QED BY <2>1, <3>1, Zenon DEF Ports
  <2>3. usb'.dtr = TRUE /\ usb'.session = usb.session + 1 /\ usb'.written = 0 /\ usb'.rx = usb.rx
    BY <2>1 DEF Ports
  <2> QED BY <2>2, <2>3 DEF HostOpen, netVars, logs, TunnelTypes
<1>2. usb.rx = <<>> /\ pump.up = <<>>
  BY DEF HostOpen, LoopInv
<1>3. UNCHANGED <<net, lwip, queries, owner, wrote, pump, loop, sent, delivered>>
  BY DEF HostOpen, netVars, logs
<1>4. LoopInv' /\ ConnectionInv' /\ HeldBytesHaveADeadline'
  <2>1. usb'.session >= 1 /\ usb'.session <= MaxSessions
    <3>1. usb.session \in Nat /\ usb.session < MaxSessions /\ MaxSessions \in Nat /\ usb'.session = usb.session + 1
      BY <1>1, TunnelNumbers, TunnelAssumption, Zenon DEF HostOpen
    <3> QED BY <3>1
  <2> QED BY <1>1, <1>2, <1>3, <2>1 DEF HostOpen, LoopInv, ConnectionInv, HeldBytesHaveADeadline
<1>5. UpTo' = 0 /\ ~ Live'
  BY <1>1, <1>2, <1>3 DEF HostOpen, UpTo, Live
<1>6. BytesInv'
  BY <1>1, <1>2, <1>3, TunnelNumbers, EmptyEnds, SMTT(30) DEF BytesInv
<1>7. SentInv'
  <2>1. sent \in SentLogs /\ Len(owner) \in Nat /\ usb.session \in Nat /\ UpTo \in Nat
    BY TunnelNumbers, Counts DEF TunnelTypes
  <2>2. SentAt(sent, Len(owner), usb.session + 1, 0, FALSE)
    BY <2>1, SentSession, Zenon DEF SentInv
  <2> QED BY <1>1, <1>3, <1>5, <2>2 DEF SentInv, SentAt
<1>8. DeliveredInv'
  BY <1>3, <1>5, DeliveredStays, Zenon DEF DeliveredInv, TunnelTypes
<1> QED BY <1>1, <1>4, <1>6, <1>7, <1>8

LEMMA HostCloseKeeps ==
  ASSUME TunnelInv, HostClose
  PROVE  TunnelInv'
<1> USE DEF TunnelInv
<1>1. /\ TunnelTypes'
      /\ ~ usb'.dtr /\ usb'.session = usb.session /\ usb'.written = usb.written /\ usb'.rx = usb.rx
  BY Zenon DEF HostClose, netVars, logs, TunnelTypes, Ports
<1>2. UNCHANGED <<net, lwip, queries, owner, wrote, pump, loop, sent, delivered>>
  BY DEF HostClose, netVars, logs
<1>3. LoopInv' /\ ConnectionInv' /\ HeldBytesHaveADeadline' /\ BytesInv'
  BY <1>1, <1>2 DEF HostClose, LoopInv, ConnectionInv, HeldBytesHaveADeadline, BytesInv
<1>4. UpTo' = UpTo /\ DownTo' = DownTo /\ Live' = Live
  BY <1>1, <1>2 DEF UpTo, DownTo, Live
<1> QED BY <1>1, <1>2, <1>3, <1>4 DEF SentInv, DeliveredInv

LEMMA HostWriteKeeps ==
  ASSUME TunnelInv, HostWrite
  PROVE  TunnelInv'
<1> USE DEF TunnelInv
<1> DEFINE new == Append(usb.rx, Byte(usb.session, usb.written + 1))
<1>1. /\ new \in Seq(TunnelBytes) /\ Len(new) = Len(usb.rx) + 1
      /\ Ends(new, usb.session, usb.written + 1)
  BY TunnelNumbers, AppendEnds, SMTT(30) DEF BytesInv
<1>2. usb' = [usb EXCEPT !.written = usb.written + 1, !.rx = new]
  BY DEF HostWrite
<1> HIDE DEF new
<1>3. /\ usb' \in Ports /\ usb.dtr
      /\ usb'.dtr /\ usb'.session = usb.session /\ usb'.written = usb.written + 1 /\ usb'.rx = new
  <2>1. usb \in Ports /\ usb.dtr = TRUE
    BY TunnelFlags DEF HostWrite, TunnelTypes
  <2>2. usb' \in Ports
    <3>1. usb.written + 1 \in Nat
      BY TunnelNumbers
    <3> QED BY <1>1, <1>2, <2>1, <3>1, Zenon DEF Ports
  <2>3. usb'.dtr = TRUE /\ usb'.session = usb.session /\ usb'.written = usb.written + 1 /\ usb'.rx = new
    BY <1>2, <2>1 DEF Ports
  <2> QED BY <2>1, <2>2, <2>3
<1>4. UNCHANGED <<net, lwip, queries, owner, wrote, pump, loop, sent, delivered>>
  BY DEF HostWrite, netVars, logs
<1>5. TunnelTypes'
  BY <1>3, <1>4 DEF TunnelTypes
<1>6. LoopInv' /\ ConnectionInv' /\ HeldBytesHaveADeadline'
  BY <1>3, <1>4 DEF LoopInv, ConnectionInv, HeldBytesHaveADeadline
<1>7. usb'.written - Len(usb'.rx) = usb.written - Len(usb.rx)
  <2>1. usb.written \in Nat /\ Len(usb.rx) \in Nat
    BY TunnelNumbers
  <2>2. usb'.written = usb.written + 1 /\ Len(usb'.rx) = Len(usb.rx) + 1
    BY <1>1, <1>3
  <2> QED BY <2>1, <2>2, SMTT(30)
<1>8. BytesInv'
  BY <1>1, <1>3, <1>4, <1>7 DEF BytesInv
<1>9. UpTo' = UpTo /\ DownTo' = DownTo /\ Live' = Live
  BY <1>4, <1>7 DEF UpTo, DownTo, Live
<1> QED BY <1>3, <1>4, <1>5, <1>6, <1>8, <1>9 DEF SentInv, DeliveredInv

(* A step that neither sends nor delivers keeps the order of the streams,  *)
(* when bytes only move on, or the pump dies with them.                    *)
LEMMA LogsStay ==
  ASSUME TunnelInv, TunnelTypes', BytesInv', UNCHANGED <<owner, sent, delivered>>, usb'.session = usb.session,
         UpTo <= UpTo', Live' => Live /\ UpTo' = UpTo /\ DownTo' = DownTo
  PROVE  SentInv' /\ DeliveredInv'
<1>1. UpTo \in Nat /\ UpTo' \in Nat
  <2>1. UpTo \in Nat
    BY Counts DEF TunnelInv
  <2>2. usb' \in Ports /\ pump' \in Pumps /\ Ends(usb'.rx, usb'.session, usb'.written)
        /\ Ends(pump'.up, usb'.session, usb'.written - Len(usb'.rx))
    BY DEF TunnelTypes, BytesInv
  <2> QED BY <2>1, <2>2, PortNumbers, PumpNumbers, Waiting DEF UpTo
<1>2. /\ sent \in SentLogs /\ delivered \in DeliveredLogs /\ owner \in Seq(Nat)
      /\ Len(owner) \in Nat /\ usb.session \in Nat
  BY TunnelNumbers DEF TunnelTypes, TunnelInv
<1>3. SentAt(sent, Len(owner), usb.session, UpTo, Live) /\ DeliveredAt(delivered, owner, usb.session, DownTo, Live)
  BY DEF TunnelInv, SentInv, DeliveredInv
<1>4. SentAt(sent, Len(owner), usb.session, UpTo', Live')
  BY <1>1, <1>2, <1>3, SentStays
<1>5. DeliveredAt(delivered, owner, usb.session, DownTo', Live')
  BY <1>2, <1>3, DeliveredStays
<1> QED BY <1>4, <1>5 DEF SentInv, DeliveredInv

(* A queue is as it was, or empty; the one before it in the path is only   *)
(* emptied with it.                                                        *)
Dropped(first, then) ==
  /\ first' = first \/ first' = <<>>
  /\ then' = then \/ then' = <<>>
  /\ first' = first \/ then' = <<>>

(* A step that leaves the bytes alone, or empties queues of a pump that is *)
(* then not the live one.                                                  *)
LEMMA DropKeeps ==
  ASSUME TunnelInv, TunnelTypes', LoopInv', ConnectionInv', HeldBytesHaveADeadline',
         UNCHANGED <<owner, wrote, sent, delivered>>, usb'.session = usb.session, usb'.written = usb.written,
         Dropped(usb.rx, pump.up), Dropped(lwip.rx, pump.down),
         Live' => Live /\ UNCHANGED <<usb.rx, pump.up, lwip.rx, pump.down>>
  PROVE  TunnelInv'
<1>1. TunnelTypes /\ BytesInv
  BY DEF TunnelInv
<1>2. BytesInv'
  <2>1. Ends(usb.rx, usb.session, usb.written)' /\ Ends(pump.up, usb.session, usb.written - Len(usb.rx))'
    <3>1. usb.session \in Nat /\ usb.written \in Nat /\ usb.written - Len(usb.rx) \in Nat
      BY <1>1, TunnelNumbers, Counts, Zenon
    <3>2. CASE usb'.rx = usb.rx
      BY <1>1, <3>1, <3>2, EmptyEnds DEF Dropped, BytesInv
    <3>3. CASE usb'.rx = <<>> /\ pump'.up = <<>>
      <4>1. usb.written - Len(<<>>) \in Nat
        BY <3>1, SMTT(30)
      <4> QED BY <3>1, <3>3, <4>1, EmptyEnds
    <3> QED BY <3>2, <3>3 DEF Dropped
  <2>2. Ends(lwip.rx, Len(owner), wrote)' /\ Ends(pump.down, Len(owner), wrote - Len(lwip.rx))'
    <3>1. Len(owner) \in Nat /\ wrote \in Nat /\ wrote - Len(lwip.rx) \in Nat
      BY <1>1, TunnelNumbers, Counts, Zenon
    <3>2. CASE lwip'.rx = lwip.rx
      BY <1>1, <3>1, <3>2, EmptyEnds DEF Dropped, BytesInv
    <3>3. CASE lwip'.rx = <<>> /\ pump'.down = <<>>
      <4>1. wrote - Len(<<>>) \in Nat
        BY <3>1
      <4> QED BY <3>1, <3>3, <4>1, EmptyEnds
    <3> QED BY <3>2, <3>3 DEF Dropped
  <2> QED BY <2>1, <2>2 DEF BytesInv
<1>3. UpTo <= UpTo'
  <2>1. /\ usb.written \in Nat /\ Len(usb.rx) \in Nat /\ Len(pump.up) \in Nat
        /\ Len(usb'.rx) \in Nat /\ Len(pump'.up) \in Nat
    BY <1>1, TunnelNumbers, PortNumbers, PumpNumbers, Zenon DEF TunnelTypes
  <2>2. Len(usb'.rx) <= Len(usb.rx) /\ Len(pump'.up) <= Len(pump.up)
    BY <2>1 DEF Dropped
  <2>3. \A a, b, c, d, e \in Nat : d <= b /\ e <= c => a - b - c <= a - d - e
    OBVIOUS
  <2> QED BY <2>1, <2>2, <2>3, Zenon DEF UpTo
<1>4. Live' => Live /\ UpTo' = UpTo /\ DownTo' = DownTo
  BY Zenon DEF UpTo, DownTo
<1>5. SentInv' /\ DeliveredInv'
  BY <1>2, <1>3, <1>4, LogsStay, Zenon
<1> QED BY <1>2, <1>5 DEF TunnelInv

(* A callback that sets flags, or loses the connection.                    *)
LEMMA FlagsKeep ==
  ASSUME TunnelInv, Callback, UNCHANGED <<owner, wrote>>, lwip' \in Networks, lwip'.rx = lwip.rx,
         lwip'.tcp_started = lwip.tcp_started, lwip'.connection = lwip.connection \/ lwip'.connection = 0
  PROVE  TunnelInv'
<1>1. UNCHANGED <<usb, net, pump, loop, sent, delivered>>
  BY DEF Callback, logs
<1>2. TunnelTypes'
  BY <1>1, Zenon DEF TunnelInv, TunnelTypes
<1>3. LoopInv' /\ ConnectionInv' /\ HeldBytesHaveADeadline'
  BY <1>1 DEF TunnelInv, LoopInv, ConnectionInv, HeldBytesHaveADeadline
<1>4. Dropped(usb.rx, pump.up) /\ Dropped(lwip.rx, pump.down)
  BY <1>1 DEF Dropped
<1>5. Live' => Live /\ UNCHANGED <<usb.rx, pump.up, lwip.rx, pump.down>>
  BY <1>1 DEF Live
<1> QED BY <1>1, <1>2, <1>3, <1>4, <1>5, DropKeeps

LEMMA CallbackKeeps ==
  ASSUME TunnelInv, tcp_connected \/ tcp_failed \/ tcp_received_end \/ \E found \in BOOLEAN : dns_result(found)
  PROVE  TunnelInv'
<1>1. lwip \in Networks
  BY DEF TunnelInv, TunnelTypes
<1>2. CASE tcp_connected
  <2>1. /\ lwip' \in Networks /\ lwip'.rx = lwip.rx /\ lwip'.tcp_started = lwip.tcp_started
        /\ lwip'.connection = lwip.connection
    BY <1>1, <1>2, Zenon DEF tcp_connected, Networks
  <2> QED BY <1>2, <2>1, FlagsKeep DEF tcp_connected
<1>3. CASE tcp_failed
  <2>1. /\ lwip' \in Networks /\ lwip'.rx = lwip.rx /\ lwip'.tcp_started = lwip.tcp_started
        /\ lwip'.connection = 0
    <3>1. CASE lwip' = [lwip EXCEPT !.connection = 0, !.failed = TRUE]
      BY <1>1, <3>1, Zenon DEF Networks
    <3>2. CASE lwip' = [lwip EXCEPT !.connection = 0, !.failed = TRUE, !.tcp_connected = FALSE]
      BY <1>1, <3>2, Zenon DEF Networks
    <3> QED BY <1>3, <3>1, <3>2 DEF tcp_failed
  <2> QED BY <1>3, <2>1, FlagsKeep DEF tcp_failed
<1>4. CASE tcp_received_end
  <2>1. /\ lwip' \in Networks /\ lwip'.rx = lwip.rx /\ lwip'.tcp_started = lwip.tcp_started
        /\ lwip'.connection = lwip.connection
    BY <1>1, <1>4, Zenon DEF tcp_received_end, Networks
  <2> QED BY <1>4, <2>1, FlagsKeep DEF tcp_received_end
<1>5. ASSUME NEW found \in BOOLEAN, dns_result(found)
      PROVE  TunnelInv'
  <2>1. \/ lwip' = lwip
        \/ lwip' = [lwip EXCEPT !.dns_ready = TRUE]
        \/ lwip' = [lwip EXCEPT !.failed = TRUE]
    BY <1>5 DEF dns_result
  <2>2. /\ lwip' \in Networks /\ lwip'.rx = lwip.rx /\ lwip'.tcp_started = lwip.tcp_started
        /\ lwip'.connection = lwip.connection
    BY <1>1, <2>1, Zenon DEF Networks
  <2> QED BY <1>5, <2>2, FlagsKeep DEF dns_result
<1> QED BY <1>2, <1>3, <1>4, <1>5

LEMMA TcpReceivedKeeps ==
  ASSUME TunnelInv, tcp_received
  PROVE  TunnelInv'
<1> DEFINE new == Append(lwip.rx, Byte(Len(owner), wrote + 1))
<1>1. UNCHANGED <<usb, net, pump, loop, sent, delivered, owner>> /\ wrote' = wrote + 1
  BY DEF tcp_received, Callback, logs
<1>2. lwip \in Networks /\ TunnelTypes /\ BytesInv
  BY DEF TunnelInv, TunnelTypes
<1>3. /\ new \in Seq(TunnelBytes) /\ Len(new) = Len(lwip.rx) + 1
      /\ Ends(new, Len(owner), wrote + 1)
  <2>1. lwip.rx \in Seq(TunnelBytes) /\ Len(owner) \in Nat /\ wrote \in Nat /\ Ends(lwip.rx, Len(owner), wrote)
    BY <1>2, TunnelNumbers DEF BytesInv
  <2> QED BY <2>1, AppendEnds
<1>4. lwip' = [lwip EXCEPT !.rx = new]
  <2>1. lwip.connection = Len(owner)
    BY DEF tcp_received, TunnelInv, ConnectionInv
  <2> QED BY <2>1 DEF tcp_received
<1> HIDE DEF new
<1>5. /\ lwip' \in Networks /\ lwip'.rx = new /\ lwip'.tcp_started = lwip.tcp_started
      /\ lwip'.connection = lwip.connection /\ lwip.connection # 0
  BY <1>2, <1>3, <1>4, Zenon DEF tcp_received, Networks
<1>6. TunnelTypes'
  BY <1>1, <1>2, <1>5, SMTT(30) DEF TunnelTypes
<1>7. LoopInv' /\ ConnectionInv' /\ HeldBytesHaveADeadline'
  BY <1>1, <1>5 DEF TunnelInv, LoopInv, ConnectionInv, HeldBytesHaveADeadline
<1>8. wrote' - Len(lwip'.rx) = wrote - Len(lwip.rx)
  <2>1. wrote \in Nat /\ Len(lwip.rx) \in Nat
    BY <1>2, TunnelNumbers
  <2>2. Len(lwip'.rx) = Len(lwip.rx) + 1 /\ wrote' = wrote + 1
    BY <1>1, <1>3, <1>5
  <2> QED BY <2>1, <2>2
<1>9. BytesInv'
  BY <1>1, <1>2, <1>3, <1>5, <1>8 DEF BytesInv
<1>10. UpTo' = UpTo /\ DownTo' = DownTo /\ Live' = Live
  BY <1>1, <1>5, <1>8 DEF UpTo, DownTo, Live
<1> QED BY <1>1, <1>6, <1>7, <1>9, <1>10 DEF SentInv, DeliveredInv, TunnelInv

LEMMA ObserveKeeps ==
  ASSUME TunnelInv, Observe
  PROVE  TunnelInv'
<1>1. UNCHANGED <<net, lwip, owner, wrote, sent, delivered>> /\ loop.pc = "observe"
  BY DEF Observe, netVars, logs
<1>2. usb \in Ports /\ pump \in Pumps /\ loop \in Loops
  BY DEF TunnelInv, TunnelTypes
<1>3. /\ loop' \in Loops /\ loop'.pc = "network" /\ loop'.connected = usb.dtr /\ loop'.was_ready = loop.was_ready
      /\ loop'.tail = (loop.tail /\ (usb.dtr \/ ~ loop.connected))
  <2>1. usb.dtr \in BOOLEAN
    BY <1>2 DEF Ports
  <2> QED BY <1>2, <2>1, ZenonT(30) DEF Observe, Loops
<1>4. CASE loop.connected /\ ~ usb.dtr
  <2>1. /\ usb' \in Ports /\ usb'.rx = <<>> /\ usb'.dtr = usb.dtr /\ usb'.session = usb.session
        /\ usb'.written = usb.written
    <3>1. usb' = [usb EXCEPT !.rx = <<>>]
      BY <1>4 DEF Observe
    <3>2. <<>> \in Seq(TunnelBytes)
      OBVIOUS
    <3>3. usb' \in Ports
      BY <1>2, <3>1, <3>2, Zenon DEF Ports
    <3> QED BY <1>2, <3>1, <3>3 DEF Ports
  <2>2. pump' \in Pumps /\ pump'.up = <<>> /\ pump'.down = <<>> /\ pump'.dead = FALSE
    <3>1. pump' = Empty
      BY <1>4 DEF Observe, Reset
    <3> QED BY <3>1, EmptyPump
  <2>3. TunnelTypes'
    BY <1>1, <1>3, <2>1, <2>2, Zenon DEF TunnelInv, TunnelTypes
  <2>4. LoopInv' /\ ConnectionInv' /\ HeldBytesHaveADeadline'
    BY <1>1, <1>3, <1>4, <2>1, <2>2 DEF TunnelInv, LoopInv, ConnectionInv, HeldBytesHaveADeadline, InBatch
  <2>5. Dropped(usb.rx, pump.up) /\ Dropped(lwip.rx, pump.down)
    BY <1>1, <2>1, <2>2 DEF Dropped
  <2>6. ~ Live'
    BY <1>3, <1>4 DEF Live
  <2> QED BY <1>1, <2>1, <2>3, <2>4, <2>5, <2>6, DropKeeps
<1>5. CASE ~ (loop.connected /\ ~ usb.dtr)
  <2>1. usb' = usb /\ pump' = pump
    BY <1>5 DEF Observe
  <2>2. TunnelTypes'
    BY <1>1, <1>3, <2>1, Zenon DEF TunnelInv, TunnelTypes
  <2>3. LoopInv' /\ HeldBytesHaveADeadline'
    BY <1>1, <1>3, <1>5, <2>1, Zenon DEF TunnelInv, LoopInv, HeldBytesHaveADeadline, InBatch
  <2>4. ~ loop.connected => ~ lwip.tcp_started
    BY <1>1 DEF TunnelInv, LoopInv, ConnectionInv
  <2>5. ConnectionInv'
    BY <1>1, <1>3, <1>5, <2>1, <2>4 DEF TunnelInv, ConnectionInv
  <2>6. Dropped(usb.rx, pump.up) /\ Dropped(lwip.rx, pump.down)
    BY <1>1, <2>1, Zenon DEF Dropped
  <2>7. Live' => Live /\ UNCHANGED <<usb.rx, pump.up, lwip.rx, pump.down>>
    BY <1>1, <1>3, <2>1, <2>4 DEF Live
  <2> QED BY <1>1, <2>1, <2>2, <2>3, <2>5, <2>6, <2>7, DropKeeps
<1> QED BY <1>4, <1>5

-----------------------------------------------------------------------------
(* What a turn of the controller does to the loop and the pump.            *)
LEMMA EnterFacts ==
  ASSUME TunnelInv, NEW state \in States, Enter(state), state = "READY" => loop.connected,
         ~ loop.connected => state = "DOWN"
  PROVE  /\ net' = state /\ UNCHANGED <<usb, sent, delivered>>
         /\ loop' \in Loops /\ loop.pc = "network" /\ loop'.connected = loop.connected
         /\ pump' \in Pumps
         /\ state # "READY" => pump'.up = <<>> /\ pump'.down = <<>> /\ pump'.dead = FALSE
         /\ pump'.up = pump.up \/ pump'.up = <<>>
         /\ pump'.down = pump.down \/ pump'.down = <<>>
         /\ state = "READY" \/ net # "READY" => UNCHANGED <<pump.up, pump.down, pump.dead>>
         /\ LoopInv' /\ HeldBytesHaveADeadline'
<1>1. loop \in Loops /\ pump \in Pumps
  BY DEF TunnelInv, TunnelTypes
<1>2. net' = state /\ UNCHANGED <<usb, sent, delivered>> /\ loop.pc = "network"
  BY DEF Enter, logs
<1>3. /\ loop' \in Loops /\ loop'.connected = loop.connected /\ loop'.was_ready = (state = "READY")
      /\ loop'.pc = IF state = "READY" /\ loop.connected THEN "batch" ELSE "observe"
      /\ loop'.tail = (loop.tail /\ (state = "READY") = loop.was_ready /\ state = "READY" /\ loop.connected)
  BY <1>1, ZenonT(30) DEF Enter, Loops, InBatch
<1>4. pump' = IF (state = "READY") # loop.was_ready THEN Empty ELSE pump
  BY DEF Enter, Reset
<1>5. loop.was_ready = (net = "READY")
  BY <1>1 DEF TunnelInv, LoopInv, Loops
<1>6. net # "READY" => pump.up = <<>> /\ pump.down = <<>> /\ pump.dead = FALSE
  BY <1>1, <1>2, Zenon DEF TunnelInv, LoopInv, Pumps
<1>7. CASE state = "READY" /\ net = "READY"
  <2>1. pump' = pump /\ loop'.pc = "batch" /\ loop'.tail = loop.tail /\ loop.connected
    BY <1>1, <1>3, <1>4, <1>5, <1>7, Zenon DEF Loops
  <2>2. LoopInv'
    BY <1>2, <1>3, <1>7, <2>1, Zenon DEF TunnelInv, LoopInv, InBatch
  <2>3. HeldBytesHaveADeadline'
    BY <1>2, <2>1 DEF TunnelInv, HeldBytesHaveADeadline
  <2> QED BY <1>1, <1>2, <1>3, <1>7, <2>1, <2>2, <2>3
<1>8. CASE ~ (state = "READY" /\ net = "READY")
  <2>1. pump' \in Pumps /\ pump'.up = <<>> /\ pump'.down = <<>> /\ pump'.dead = FALSE
    BY <1>1, <1>4, <1>5, <1>6, <1>8, EmptyPump
  <2>2. LoopInv'
    BY <1>2, <1>3, <2>1, Zenon DEF TunnelInv, LoopInv, InBatch
  <2>3. HeldBytesHaveADeadline'
    BY <2>1, Zenon DEF HeldBytesHaveADeadline
  <2> QED BY <1>2, <1>3, <1>6, <1>8, <2>1, <2>2, <2>3, ZenonT(30)
<1> QED BY <1>7, <1>8, Zenon

(* The controller closed the connection, or starts without one.            *)
LEMMA EnterClosed ==
  ASSUME TunnelInv, NEW state \in States \ {"READY"}, Enter(state), ~ loop.connected => state = "DOWN",
         lwip' = Fresh, UNCHANGED <<owner, wrote>>
  PROVE  TunnelInv'
<1>1. /\ net' = state /\ UNCHANGED <<usb, sent, delivered>> /\ loop' \in Loops
      /\ pump' \in Pumps /\ pump'.up = <<>> /\ pump'.down = <<>>
      /\ LoopInv' /\ HeldBytesHaveADeadline'
  BY EnterFacts, Zenon
<1>2. /\ lwip' \in Networks /\ lwip'.connection = 0 /\ lwip'.rx = <<>> /\ lwip'.tcp_started = FALSE
  BY FreshNetwork, Zenon
<1>3. TunnelTypes'
  BY <1>1, <1>2 DEF TunnelInv, TunnelTypes
<1>4. ConnectionInv'
  BY <1>1, <1>2 DEF TunnelInv, ConnectionInv
<1>5. Dropped(usb.rx, pump.up) /\ Dropped(lwip.rx, pump.down)
  BY <1>1, <1>2 DEF Dropped
<1>6. ~ Live'
  BY <1>2, Zenon DEF Live
<1> QED BY <1>1, <1>3, <1>4, <1>5, <1>6, DropKeeps

(* The controller goes on with the connection it has, or none.             *)
LEMMA EnterOpen ==
  ASSUME TunnelInv, NEW state \in States, Enter(state), state = "READY" => loop.connected /\ lwip.tcp_started,
         ~ loop.connected => state = "DOWN", state = "READY" \/ net # "READY",
         lwip.tcp_started => state \in {"TCP", "SESSION", "READY"},
         lwip' \in Networks, lwip'.rx = lwip.rx, lwip'.tcp_started = lwip.tcp_started,
         lwip'.connection = lwip.connection, UNCHANGED <<owner, wrote>>
  PROVE  TunnelInv'
<1>1. /\ net' = state /\ UNCHANGED <<usb, sent, delivered>> /\ loop' \in Loops
      /\ loop'.connected = loop.connected
      /\ pump' \in Pumps /\ UNCHANGED <<pump.up, pump.down, pump.dead>>
      /\ LoopInv' /\ HeldBytesHaveADeadline'
  BY EnterFacts, Zenon
<1>2. TunnelTypes'
  BY <1>1, Zenon DEF TunnelInv, TunnelTypes
<1>3. ConnectionInv'
  BY <1>1, Zenon DEF TunnelInv, ConnectionInv
<1>4. Dropped(usb.rx, pump.up) /\ Dropped(lwip.rx, pump.down)
  BY <1>1 DEF Dropped
<1>5. Live' => Live /\ UNCHANGED <<usb.rx, pump.up, lwip.rx, pump.down>>
  BY <1>1 DEF Live
<1> QED BY <1>1, <1>2, <1>3, <1>4, <1>5, DropKeeps, ZenonT(30)

LEMMA BackoffKeeps ==
  ASSUME TunnelInv, loop.connected, Backoff
  PROVE  TunnelInv'
BY EnterClosed, ZenonT(30) DEF Backoff, BackoffCloses, close, States

(* A new connection, in the session the loop sees.                         *)
LEMMA ConnectKeeps ==
  ASSUME TunnelInv, loop.connected, net = "TCP", ~ lwip.tcp_started, Len(owner) < MaxConnections, Enter("TCP"),
         lwip' \in Networks, lwip'.tcp_started = TRUE, lwip'.connection = Len(owner) + 1, lwip'.rx = lwip.rx,
         owner' = Append(owner, usb.session), wrote' = 0
  PROVE  TunnelInv'
<1>1. /\ net' = "TCP" /\ UNCHANGED <<usb, sent, delivered>> /\ loop' \in Loops
      /\ loop'.connected = loop.connected
      /\ pump' \in Pumps /\ UNCHANGED <<pump.up, pump.down, pump.dead>> /\ pump'.down = <<>>
      /\ LoopInv' /\ HeldBytesHaveADeadline'
  BY EnterFacts, ZenonT(30) DEF States
<1>2. /\ usb.session \in Nat /\ usb.session \in 1 .. MaxSessions /\ Len(owner) \in Nat /\ owner \in Seq(Nat)
      /\ sent \in SentLogs /\ delivered \in DeliveredLogs
  <2>1. /\ usb.session \in Nat /\ Len(owner) \in Nat /\ owner \in Seq(Nat)
        /\ sent \in SentLogs /\ delivered \in DeliveredLogs
    BY TunnelNumbers, Zenon DEF TunnelInv, TunnelTypes
  <2>2. usb.session >= 1 /\ usb.session <= MaxSessions
    BY DEF TunnelInv, LoopInv
  <2> QED BY <2>1, <2>2, TunnelAssumption
<1>3. owner' \in Seq(Nat) /\ Len(owner') = Len(owner) + 1 /\ owner'[Len(owner')] = usb.session
  BY <1>2
<1>4. lwip'.rx = <<>>
  BY DEF TunnelInv, ConnectionInv
<1>5. TunnelTypes'
  BY <1>1, <1>3, ZenonT(30) DEF TunnelInv, TunnelTypes
<1>6. ConnectionInv'
  <2>1. Len(owner') >= 1 /\ Len(owner') <= MaxConnections /\ lwip'.connection = Len(owner')
    BY <1>2, <1>3, TunnelAssumption
  <2> QED BY <1>1, <1>3, <2>1 DEF ConnectionInv
<1>7. BytesInv'
  <2>1. Ends(usb.rx, usb.session, usb.written)' /\ Ends(pump.up, usb.session, usb.written - Len(usb.rx))'
    BY <1>1 DEF TunnelInv, BytesInv
  <2>2. Len(owner') \in Nat /\ 0 \in Nat /\ 0 - Len(<<>>) \in Nat
    BY <1>2, <1>3, SMTT(30)
  <2>3. Ends(lwip.rx, Len(owner), wrote)' /\ Ends(pump.down, Len(owner), wrote - Len(lwip.rx))'
    BY <1>1, <1>4, <2>2, EmptyEnds
  <2> QED BY <2>1, <2>3 DEF BytesInv
<1>8. UpTo' = UpTo /\ DownTo' = 0
  <2>1. UpTo' = UpTo
    BY <1>1 DEF UpTo
  <2>2. DownTo' = 0 - Len(<<>>) - Len(<<>>)
    BY <1>1, <1>4 DEF DownTo
  <2>3. 0 - Len(<<>>) - Len(<<>>) = 0
    <3>1. Len(<<>>) = 0 /\ 0 - 0 - 0 = 0
      OBVIOUS
    <3> QED BY <3>1, Zenon
  <2> QED BY <2>1, <2>2, <2>3, Zenon
<1>9. SentInv'
  <2>1. UpTo \in Nat
    BY Counts, Zenon DEF TunnelInv
  <2>2. SentAt(sent, Len(owner) + 1, usb.session, UpTo, Live')
    BY <1>2, <2>1, SentConnects, ZenonT(30) DEF TunnelInv, SentInv
  <2> QED BY <1>1, <1>3, <1>8, <2>2 DEF SentInv
<1>10. DeliveredInv'
  <2>1. DeliveredAt(delivered, Append(owner, usb.session), usb.session, 0, Live')
    BY <1>2, DeliveredConnects DEF TunnelInv, DeliveredInv
  <2> QED BY <1>1, <1>8, <2>1, Zenon DEF DeliveredInv
<1> QED BY <1>1, <1>5, <1>6, <1>7, <1>9, <1>10 DEF TunnelInv

LEMMA TcpPollKeeps ==
  ASSUME TunnelInv, tcp_poll
  PROVE  TunnelInv'
<1>1. loop.connected /\ net = "TCP" /\ lwip \in Networks
  BY DEF tcp_poll, TunnelInv, TunnelTypes
<1>2. CASE Backoff
  BY <1>1, <1>2, BackoffKeeps
<1>3. CASE UNCHANGED <<lwip, owner, wrote>> /\ Enter(IF lwip.tcp_connected THEN "SESSION" ELSE "TCP")
  BY <1>1, <1>3, EnterOpen DEF States
<1>4. ASSUME ~ lwip.tcp_started, lwip' = [lwip EXCEPT !.dns_started = TRUE], UNCHANGED <<owner, wrote>>, Enter("TCP")
      PROVE  TunnelInv'
  <2>1. /\ lwip' \in Networks /\ lwip'.rx = lwip.rx /\ lwip'.tcp_started = lwip.tcp_started
        /\ lwip'.connection = lwip.connection
    BY <1>1, <1>4, Zenon DEF Networks
  <2> QED BY <1>1, <1>4, <2>1, EnterOpen DEF States
<1>5. ASSUME ~ lwip.tcp_started, Len(owner) < MaxConnections,
             lwip' = start_tcp_connection([lwip EXCEPT !.dns_started = TRUE, !.dns_ready = TRUE]),
             owner' = Append(owner, usb.session), wrote' = 0, Enter("TCP")
      PROVE  TunnelInv'
  <2>1. PICK n \in Nat : n = Len(owner) + 1
    BY TunnelNumbers DEF TunnelInv
  <2>2. /\ lwip' \in Networks /\ lwip'.rx = lwip.rx /\ lwip'.tcp_started = TRUE /\ lwip'.connection = n
    BY <1>1, <1>5, <2>1, Zenon DEF Networks, start_tcp_connection
  <2> QED BY <1>1, <1>5, <2>1, <2>2, ConnectKeeps, Zenon
<1> QED BY <1>2, <1>3, <1>4, <1>5, Zenon DEF tcp_poll

LEMMA NetworkStepKeeps ==
  ASSUME TunnelInv, NetworkStep
  PROVE  TunnelInv'
<1>1. lwip \in Networks /\ lwip.tcp_started \in BOOLEAN
  BY TunnelFlags DEF TunnelInv, TunnelTypes
<1>2. lwip.tcp_started => net \in {"TCP", "SESSION", "READY"}
  BY DEF TunnelInv, ConnectionInv
<1>3. CASE Unplugged
  <2>1. ~ loop.connected /\ Enter("DOWN")
    BY <1>3 DEF Unplugged
  <2>2. CASE net = "DOWN"
    <3>1. UNCHANGED <<lwip, owner, wrote>>
      BY <1>3, <2>2 DEF Unplugged
    <3> QED BY <1>1, <1>2, <2>1, <2>2, <3>1, EnterOpen DEF States
  <2>3. CASE net # "DOWN"
    <3>1. lwip' = Fresh /\ UNCHANGED <<owner, wrote>>
      BY <1>3, <2>3 DEF Unplugged, close
    <3> QED BY <2>1, <3>1, EnterClosed DEF States
  <2> QED BY <2>2, <2>3
<1>4. CASE Timeout
  BY <1>4, BackoffKeeps DEF Timeout
<1>5. CASE wifi_start
  <2>1. CASE Backoff
    BY <1>5, <2>1, BackoffKeeps DEF wifi_start
  <2>2. CASE lwip' = [Fresh EXCEPT !.connection = lwip.connection] /\ UNCHANGED <<owner, wrote>> /\ Enter("WIFI")
    <3>1. lwip.connection = 0 /\ loop.connected
      BY <1>2, <1>5 DEF wifi_start, TunnelInv, ConnectionInv
    <3>2. lwip' = Fresh
      BY <2>2, <3>1 DEF Fresh
    <3> QED BY <2>2, <3>1, <3>2, EnterClosed DEF States
  <2> QED BY <1>5, <2>1, <2>2 DEF wifi_start
<1>6. CASE wifi_poll
  <2>1. loop.connected /\ net = "WIFI"
    BY <1>6 DEF wifi_poll
  <2>2. CASE Backoff
    BY <2>1, <2>2, BackoffKeeps
  <2>3. ASSUME NEW state \in {"TCP", "WIFI"}, Enter(state), UNCHANGED <<lwip, owner, wrote>>
        PROVE  TunnelInv'
    BY <1>1, <1>2, <2>1, <2>3, EnterOpen DEF States
  <2> QED BY <1>6, <2>2, <2>3 DEF wifi_poll
<1>7. CASE tcp_poll
  BY <1>7, TcpPollKeeps
<1>8. CASE session_poll
  <2>1. loop.connected /\ net \in {"SESSION", "READY"}
    BY <1>8 DEF session_poll
  <2>2. CASE Backoff
    BY <2>1, <2>2, BackoffKeeps
  <2>3. ASSUME UNCHANGED <<lwip, owner, wrote>>,
               Enter(IF lwip.tcp_connected /\ lwip.connection # 0 THEN "READY" ELSE net)
        PROVE  TunnelInv'
    <3> DEFINE state == IF lwip.tcp_connected /\ lwip.connection # 0 THEN "READY" ELSE net
    <3>1. state \in {"SESSION", "READY"} /\ (net = "READY" => state = "READY")
      BY <2>1
    <3>2. state = "READY" => lwip.tcp_started
      BY DEF TunnelInv, ConnectionInv
    <3>3. Enter(state)
      BY <2>3
    <3> HIDE DEF state
    <3> QED BY <1>1, <2>1, <2>3, <3>1, <3>2, <3>3, EnterOpen DEF States
  <2> QED BY <1>8, <2>2, <2>3 DEF session_poll
<1>9. CASE BackoffEnds
  <2>1. loop.connected /\ net = "BACKOFF" /\ UNCHANGED <<lwip, owner, wrote>>
    BY <1>9 DEF BackoffEnds
  <2>2. PICK state \in {"BACKOFF", "DOWN"} : Enter(state)
    BY <1>9 DEF BackoffEnds
  <2> QED BY <1>1, <1>2, <2>1, <2>2, EnterOpen DEF States
<1> QED BY <1>3, <1>4, <1>5, <1>6, <1>7, <1>8, <1>9 DEF NetworkStep

-----------------------------------------------------------------------------
(* What the batch has in common: the loop sees the host, the controller is *)
(* ready, and goes nowhere.                                                *)
LEMMA BatchFacts ==
  ASSUME TunnelInv, loop.pc \in InBatch
  PROVE  /\ loop.connected = TRUE /\ net = "READY" /\ lwip.tcp_started = TRUE /\ loop.was_ready = TRUE
         /\ usb.session \in 1 .. MaxSessions /\ usb.session \in Nat
         /\ Len(owner) \in 1 .. MaxConnections /\ owner[Len(owner)] = usb.session
<1>1. loop.connected = TRUE /\ net = "READY" /\ lwip.tcp_started = TRUE /\ loop.was_ready = TRUE
  BY TunnelFlags DEF TunnelInv, LoopInv, ConnectionInv
<1>2. usb.session >= 1 /\ usb.session <= MaxSessions
  BY <1>1 DEF TunnelInv, LoopInv
<1>3. Len(owner) >= 1 /\ Len(owner) <= MaxConnections /\ owner[Len(owner)] = usb.session
  BY <1>1 DEF TunnelInv, ConnectionInv
<1>4. usb.session \in Nat /\ Len(owner) \in Nat
  BY TunnelNumbers DEF TunnelInv
<1> QED BY <1>1, <1>2, <1>3, <1>4, TunnelAssumption, SMTT(30)

(* The loop goes on from one move of the batch to another.                 *)
OnTo(pc) ==
  /\ loop' \in Loops /\ loop'.pc = pc /\ loop'.connected = loop.connected /\ loop'.was_ready = loop.was_ready

LEMMA GotoFacts ==
  ASSUME TunnelInv, NEW pc \in InBatch \cup {"observe"}, NEW progress \in BOOLEAN, Goto(pc, progress)
  PROVE  OnTo(pc)
<1>1. loop \in Loops /\ loop.progress \in BOOLEAN
  BY DEF TunnelInv, TunnelTypes, Loops
<1> QED BY <1>1, ZenonT(30) DEF Goto, OnTo, Loops

(* A move that leaves the pump alive, inside the batch.                    *)
LEMMA OnToKeeps ==
  ASSUME TunnelInv, loop.pc \in InBatch, NEW pc \in InBatch \ {"batch"}, OnTo(pc), UNCHANGED net, ~ pump'.dead,
         usb' \in Ports, UNCHANGED <<usb.dtr, usb.session>>
  PROVE  LoopInv' /\ HeldBytesHaveADeadline'
<1>1. /\ loop.connected = TRUE /\ net = "READY" /\ loop.was_ready = TRUE
  BY BatchFacts, Zenon
<1>2. LoopInv'
  BY <1>1 DEF OnTo, TunnelInv, LoopInv, InBatch
<1>3. HeldBytesHaveADeadline'
  BY DEF OnTo, HeldBytesHaveADeadline, InBatch
<1> QED BY <1>2, <1>3

(* The pump fails, or is complete: it is empty, and dead until the         *)
(* controller leaves the ready state.                                      *)
LEMMA FailingFacts ==
  ASSUME TunnelInv, loop.pc \in InBatch, Failing, UNCHANGED <<usb, net>>
  PROVE  /\ loop' \in Loops /\ loop'.connected = loop.connected
         /\ pump' \in Pumps /\ pump'.up = <<>> /\ pump'.down = <<>> /\ pump'.dead = TRUE
         /\ LoopInv' /\ HeldBytesHaveADeadline'
<1>1. loop \in Loops /\ pump \in Pumps
  BY DEF TunnelInv, TunnelTypes
<1>2. /\ loop' \in Loops /\ loop'.connected = loop.connected /\ loop'.was_ready = loop.was_ready
      /\ loop'.pc = "observe"
  BY <1>1, Zenon DEF Failing, Loops
<1>3. pump' \in Pumps /\ pump'.up = <<>> /\ pump'.down = <<>> /\ pump'.dead = TRUE
  <2>1. PICK a \in BOOLEAN, b \in BOOLEAN : a = pump.usb_closed /\ b = pump.tls_closed
    BY <1>1 DEF Pumps
  <2>2. pump' = [up |-> <<>>, down |-> <<>>, usb_closed |-> a, tls_closed |-> b, dead |-> TRUE]
    BY <2>1, Zenon DEF Failing, Empty
  <2>3. <<>> \in Seq(TunnelBytes)
    BY SMTT(30)
  <2>4. pump' \in Pumps
    BY <2>2, <2>3 DEF Pumps
  <2> QED BY <2>2, <2>4
<1>4. loop.connected = TRUE /\ net = "READY" /\ loop.was_ready = TRUE
  BY BatchFacts, Zenon
<1>5. LoopInv'
  BY <1>2, <1>3, <1>4 DEF TunnelInv, LoopInv, InBatch
<1>6. HeldBytesHaveADeadline'
  BY <1>3, Zenon DEF HeldBytesHaveADeadline
<1> QED BY <1>2, <1>3, <1>5, <1>6

LEMMA FailingKeeps ==
  ASSUME TunnelInv, loop.pc \in InBatch, Failing, UNCHANGED <<usb, net, owner, wrote, sent, delivered>>,
         lwip' \in Networks, lwip'.rx = lwip.rx \/ lwip'.rx = <<>>, lwip'.tcp_started = lwip.tcp_started,
         lwip'.connection = lwip.connection
  PROVE  TunnelInv'
<1>1. /\ loop' \in Loops /\ loop'.connected = loop.connected
      /\ pump' \in Pumps /\ pump'.up = <<>> /\ pump'.down = <<>> /\ pump'.dead = TRUE
      /\ LoopInv' /\ HeldBytesHaveADeadline'
  BY FailingFacts, Zenon
<1>2. TunnelTypes'
  BY <1>1, Zenon DEF TunnelInv, TunnelTypes
<1>3. ConnectionInv'
  BY <1>1, Zenon DEF TunnelInv, ConnectionInv
<1>4. Dropped(usb.rx, pump.up) /\ Dropped(lwip.rx, pump.down)
  BY <1>1 DEF Dropped
<1>5. ~ Live'
  BY <1>1, ZenonT(30) DEF Live
<1> QED BY <1>1, <1>2, <1>3, <1>4, <1>5, DropKeeps

(* A move that leaves every byte where it is.                              *)
LEMMA StillKeeps ==
  ASSUME TunnelInv, loop.pc \in InBatch, LoopInv', HeldBytesHaveADeadline', loop' \in Loops,
         loop'.connected = loop.connected, UNCHANGED <<usb, net, lwip, owner, wrote, sent, delivered>>,
         pump' \in Pumps, UNCHANGED <<pump.up, pump.down, pump.dead>>
  PROVE  TunnelInv'
<1>1. TunnelTypes'
  BY Zenon DEF TunnelInv, TunnelTypes
<1>2. ConnectionInv'
  BY DEF TunnelInv, ConnectionInv
<1>3. Dropped(usb.rx, pump.up) /\ Dropped(lwip.rx, pump.down)
  BY DEF Dropped
<1>4. Live' => Live /\ UNCHANGED <<usb.rx, pump.up, lwip.rx, pump.down>>
  BY DEF Live
<1> QED BY <1>1, <1>2, <1>3, <1>4, DropKeeps

LEMMA ReportedNetwork ==
  ASSUME TunnelInv
  PROVE  /\ Reported \in Networks /\ Reported.rx = lwip.rx /\ Reported.tcp_started = lwip.tcp_started
         /\ Reported.connection = lwip.connection
<1>1. lwip \in Networks
  BY DEF TunnelInv, TunnelTypes
<1> QED BY <1>1, ZenonT(30) DEF Reported, Networks

LEMMA StartBatchKeeps ==
  ASSUME TunnelInv, NEW force \in BOOLEAN, StartBatch(force)
  PROVE  TunnelInv'
<1>1. loop.pc \in InBatch /\ UNCHANGED <<usb, net, owner, wrote, sent, delivered>>
  BY DEF StartBatch, InBatch, logs
<1>2. CASE pump.dead
  <2>1. Failing /\ lwip' = Reported
    BY <1>2 DEF StartBatch
  <2> QED BY <1>1, <2>1, FailingKeeps, ReportedNetwork
<1>3. CASE ~ pump.dead
  <2>1. loop' = [loop EXCEPT !.pc = "write_up", !.force = force, !.steps = 0] /\ UNCHANGED <<pump, lwip>>
    BY <1>3 DEF StartBatch
  <2>2. loop \in Loops /\ pump \in Pumps /\ usb \in Ports
    BY DEF TunnelInv, TunnelTypes
  <2>3. OnTo("write_up")
    BY <2>1, <2>2, Zenon DEF OnTo, Loops, InBatch
  <2>4. LoopInv' /\ HeldBytesHaveADeadline'
    BY <1>1, <1>3, <2>1, <2>2, <2>3, OnToKeeps, Zenon DEF InBatch
  <2> QED BY <1>1, <2>1, <2>2, <2>3, <2>4, StillKeeps DEF OnTo
<1> QED BY <1>2, <1>3

LEMMA BlockedKeeps ==
  ASSUME TunnelInv, WriteUpBlocked \/ WriteDownBlocked
  PROVE  TunnelInv'
<1>1. PICK pc \in {"read_up", "read_down"} : Goto(pc, FALSE)
  BY Zenon DEF WriteUpBlocked, WriteDownBlocked
<1>2. loop.pc \in InBatch /\ UNCHANGED <<usb, net, lwip, owner, wrote, sent, delivered, pump>>
  BY Zenon DEF WriteUpBlocked, WriteDownBlocked, InBatch, logs, netVars
<1>3. OnTo(pc)
  BY <1>1, GotoFacts, ZenonT(30) DEF InBatch
<1>4. pump \in Pumps /\ usb \in Ports /\ ~ pump.dead
  BY ZenonT(30) DEF TunnelInv, TunnelTypes, LoopInv, WriteUpBlocked, WriteDownBlocked, InBatch
<1>5. LoopInv' /\ HeldBytesHaveADeadline'
  BY <1>1, <1>2, <1>3, <1>4, OnToKeeps, Zenon DEF InBatch
<1> QED BY <1>2, <1>3, <1>4, <1>5, StillKeeps DEF OnTo

(* A write takes the bytes that follow head, the last one taken.           *)
Takes(bytes, from, head, last, k) ==
  /\ First(bytes, k) \in Seq(TunnelBytes) /\ Len(First(bytes, k)) = k
  /\ Ends(First(bytes, k), from, head + k)
  /\ Rest(bytes, k) \in Seq(TunnelBytes) /\ Len(Rest(bytes, k)) = Len(bytes) - k
  /\ Ends(Rest(bytes, k), from, last)
  /\ head + k \in Nat /\ k \in Nat /\ last - (Len(bytes) - k) = head + k /\ head + k <= last

LEMMA Taken ==
  ASSUME NEW from \in Nat, NEW last \in Nat, NEW head \in Nat, NEW bytes \in Seq(TunnelBytes),
         Ends(bytes, from, last), head + Len(bytes) = last, NEW k \in 0 .. Len(bytes)
  PROVE  Takes(bytes, from, head, last, k)
<1>1. Len(bytes) \in Nat /\ k \in Nat /\ k <= Len(bytes)
  OBVIOUS
<1>2. /\ last - Len(bytes) + k = head + k /\ head + k \in Nat
      /\ last - (Len(bytes) - k) = head + k /\ head + k <= last
  BY <1>1
<1> QED BY <1>1, <1>2, SplitEnds DEF Takes

(* What the pump writes to the network is what follows the last byte sent. *)
LEMMA WriteFacts ==
  ASSUME TunnelInv, loop.pc = "write_up", Writable, NEW k \in 0 .. Len(pump.up)
  PROVE  /\ Live /\ lwip.connection = Len(owner)
         /\ First(pump.up, k) \in Seq(TunnelBytes) /\ Len(First(pump.up, k)) = k
         /\ Ends(First(pump.up, k), usb.session, UpTo + k)
         /\ Rest(pump.up, k) \in Seq(TunnelBytes) /\ Len(Rest(pump.up, k)) = Len(pump.up) - k
         /\ Ends(Rest(pump.up, k), usb.session, usb.written - Len(usb.rx))
         /\ UpTo \in Nat /\ UpTo + k \in Nat /\ k \in Nat
<1>1. Live
  BY BatchFacts, ZenonT(30) DEF TunnelInv, LoopInv, InBatch, Live
<1>2. lwip.connection = Len(owner)
  BY Zenon DEF Writable, TunnelInv, ConnectionInv
<1>3. /\ pump.up \in Seq(TunnelBytes) /\ usb.session \in Nat /\ usb.written - Len(usb.rx) \in Nat
      /\ Ends(pump.up, usb.session, usb.written - Len(usb.rx))
      /\ UpTo \in Nat /\ UpTo + Len(pump.up) = usb.written - Len(usb.rx)
  BY TunnelNumbers, Counts DEF TunnelInv, BytesInv
<1>4. Takes(pump.up, usb.session, UpTo, usb.written - Len(usb.rx), k)
  BY <1>3, Taken, Zenon
<1> QED BY <1>1, <1>2, <1>3, <1>4 DEF Takes

LEMMA WriteUpKeeps ==
  ASSUME TunnelInv, WriteUp
  PROVE  TunnelInv'
<1>1. PICK k \in 1 .. Len(pump.up) :
        /\ sent' = [sent EXCEPT ![lwip.connection] = @ \o First(pump.up, k)]
        /\ pump' = [pump EXCEPT !.up = Rest(pump.up, k)]
  BY Zenon DEF WriteUp
<1>2. /\ loop.pc = "write_up" /\ Writable /\ UNCHANGED <<usb, net, lwip, owner, wrote, delivered>>
      /\ loop' = [loop EXCEPT !.pc = "read_up", !.progress = TRUE, !.force = FALSE]
  BY DEF WriteUp, netVars
<1>3. k \in 0 .. Len(pump.up)
  OBVIOUS
<1>4. /\ Live /\ lwip.connection = Len(owner)
      /\ First(pump.up, k) \in Seq(TunnelBytes) /\ Len(First(pump.up, k)) = k
      /\ Ends(First(pump.up, k), usb.session, UpTo + k)
      /\ Rest(pump.up, k) \in Seq(TunnelBytes) /\ Len(Rest(pump.up, k)) = Len(pump.up) - k
      /\ Ends(Rest(pump.up, k), usb.session, usb.written - Len(usb.rx))
      /\ UpTo \in Nat /\ UpTo + k \in Nat /\ k \in Nat
  BY <1>2, <1>3, WriteFacts
<1>5. loop \in Loops /\ pump \in Pumps /\ usb \in Ports /\ loop.pc \in InBatch /\ sent \in SentLogs
      /\ delivered \in DeliveredLogs /\ owner \in Seq(Nat)
  BY <1>2 DEF TunnelInv, TunnelTypes, InBatch
<1>6. OnTo("read_up")
  BY <1>2, <1>5, Zenon DEF OnTo, Loops, InBatch
<1>7. pump' \in Pumps /\ pump'.up = Rest(pump.up, k) /\ pump'.down = pump.down /\ pump'.dead = pump.dead
  BY <1>1, <1>4, <1>5, ZenonT(30) DEF Pumps
<1>8. ~ pump'.dead
  BY <1>4, <1>7 DEF Live
<1>9. LoopInv' /\ HeldBytesHaveADeadline'
  BY <1>2, <1>5, <1>6, <1>8, OnToKeeps DEF InBatch
<1>10. ConnectionInv'
  BY <1>2, <1>6 DEF OnTo, TunnelInv, ConnectionInv
<1>11. BytesInv'
  BY <1>2, <1>4, <1>7 DEF TunnelInv, BytesInv
<1>12. UpTo' = UpTo + k
  <2>1. UpTo' = usb.written - Len(usb.rx) - (Len(pump.up) - k)
    BY <1>2, <1>4, <1>7 DEF UpTo
  <2>2. PICK w \in Nat : w = usb.written - Len(usb.rx) /\ UpTo + Len(pump.up) = w
    BY Counts DEF TunnelInv
  <2>3. Len(pump.up) \in Nat
    BY TunnelNumbers DEF TunnelInv
  <2>4. w - (Len(pump.up) - k) = UpTo + k
    BY <1>4, <2>2, <2>3
  <2> QED BY <2>1, <2>2, <2>4
<1>13. DownTo' = DownTo /\ Live' = Live
  BY <1>2, <1>6, <1>7, ZenonT(30) DEF DownTo, Live, OnTo
<1>14. sent' \in SentLogs /\ SentAt(sent', Len(owner), usb.session, UpTo + k, Live')
  <2> DEFINE b == First(pump.up, k)
  <2>1. Len(owner) \in 1 .. MaxConnections /\ usb.session \in Nat
    BY <1>5, BatchFacts, Zenon
  <2>2. SentAt(sent, Len(owner), usb.session, UpTo, Live)
    BY DEF TunnelInv, SentInv
  <2>3. b \in Seq(TunnelBytes) /\ Ends(b, usb.session, UpTo + Len(b)) /\ UpTo + k >= UpTo + Len(b) /\ UpTo + k = UpTo + Len(b)
    BY <1>4
  <2> HIDE DEF b
  <2>4. sent' = [sent EXCEPT ![Len(owner)] = @ \o b]
    BY <1>1, <1>4 DEF b
  <2> QED BY <1>4, <1>5, <2>1, <2>2, <2>3, <2>4, SentGrows, ZenonT(30)
<1>15. TunnelTypes'
  BY <1>2, <1>6, <1>7, <1>14 DEF TunnelInv, TunnelTypes, OnTo
<1>16. SentInv' /\ DeliveredInv'
  BY <1>2, <1>12, <1>13, <1>14 DEF SentInv, DeliveredInv, TunnelInv
<1> QED BY <1>9, <1>10, <1>11, <1>15, <1>16 DEF TunnelInv

LEMMA WriteUpFailsKeeps ==
  ASSUME TunnelInv, WriteUpFails
  PROVE  TunnelInv'
<1>1. PICK k \in 0 .. Len(pump.up) : sent' = [sent EXCEPT ![lwip.connection] = @ \o First(pump.up, k)]
  BY Zenon DEF WriteUpFails
<1>2. /\ loop.pc = "write_up" /\ Writable /\ UNCHANGED <<usb, net, owner, wrote, delivered>>
      /\ Failing /\ lwip' = Reported
  BY DEF WriteUpFails, OutputFailureIsFatal, Reported
<1>3. /\ Live /\ lwip.connection = Len(owner)
      /\ First(pump.up, k) \in Seq(TunnelBytes) /\ Len(First(pump.up, k)) = k
      /\ Ends(First(pump.up, k), usb.session, UpTo + k)
      /\ UpTo \in Nat /\ UpTo + k \in Nat /\ k \in Nat
  BY <1>1, <1>2, WriteFacts
<1>4. loop.pc \in InBatch /\ sent \in SentLogs /\ delivered \in DeliveredLogs /\ owner \in Seq(Nat)
  BY <1>2 DEF TunnelInv, TunnelTypes, InBatch
<1>5. /\ loop' \in Loops /\ loop'.connected = loop.connected
      /\ pump' \in Pumps /\ pump'.up = <<>> /\ pump'.down = <<>> /\ pump'.dead = TRUE
      /\ LoopInv' /\ HeldBytesHaveADeadline'
  BY <1>2, <1>4, FailingFacts, ZenonT(30)
<1>6. /\ lwip' \in Networks /\ lwip'.rx = lwip.rx /\ lwip'.tcp_started = lwip.tcp_started
      /\ lwip'.connection = lwip.connection
  BY <1>2, ReportedNetwork, Zenon
<1>7. ConnectionInv'
  BY <1>2, <1>5, <1>6 DEF TunnelInv, ConnectionInv
<1>8. PICK w \in Nat : w = usb.written - Len(usb.rx) /\ UpTo + Len(pump.up) = w
  BY Counts, ZenonT(30) DEF TunnelInv
<1>9. BytesInv'
  <2>1. usb.session \in Nat /\ Len(owner) \in Nat /\ wrote - Len(lwip.rx) \in Nat
    BY TunnelNumbers, Counts DEF TunnelInv
  <2>2. Ends(<<>>, usb.session, w) /\ Ends(<<>>, Len(owner), wrote - Len(lwip.rx))
    BY <2>1, EmptyEnds
  <2> QED BY <1>2, <1>5, <1>6, <1>8, <2>2 DEF TunnelInv, BytesInv
<1>10. UpTo' = w
  <2>1. UpTo' = w - Len(<<>>)
    BY <1>2, <1>5, <1>8 DEF UpTo
  <2> QED BY <2>1
<1>11. ~ Live'
  BY <1>5, ZenonT(30) DEF Live
<1>12. sent' \in SentLogs /\ SentAt(sent', Len(owner), usb.session, w, Live')
  <2> DEFINE b == First(pump.up, k)
  <2>1. Len(owner) \in 1 .. MaxConnections /\ usb.session \in Nat
    BY <1>4, BatchFacts, Zenon
  <2>2. SentAt(sent, Len(owner), usb.session, UpTo, Live)
    BY DEF TunnelInv, SentInv
  <2>3. b \in Seq(TunnelBytes) /\ Ends(b, usb.session, UpTo + Len(b)) /\ w >= UpTo + Len(b)
    <3>1. Len(pump.up) \in Nat
      BY TunnelNumbers DEF TunnelInv
    <3> QED BY <1>3, <1>8, <3>1
  <2> HIDE DEF b
  <2>4. sent' = [sent EXCEPT ![Len(owner)] = @ \o b]
    BY <1>1, <1>3, Zenon DEF b
  <2> QED BY <1>3, <1>4, <1>8, <1>11, <2>1, <2>2, <2>3, <2>4, SentGrows, ZenonT(30)
<1>13. TunnelTypes'
  BY <1>2, <1>5, <1>6, <1>12 DEF TunnelInv, TunnelTypes
<1>14. SentInv'
  BY <1>2, <1>10, <1>12 DEF SentInv
<1>15. DeliveredInv'
  BY <1>2, <1>4, <1>11, DeliveredStays DEF DeliveredInv, TunnelInv
<1> QED BY <1>5, <1>7, <1>9, <1>13, <1>14, <1>15 DEF TunnelInv

(* Bytes read are the next ones behind those the pump has.                 *)
Joins(a, b, from, last) ==
  a \o b \in Seq(TunnelBytes) /\ Len(a \o b) = Len(a) + Len(b) /\ Ends(a \o b, from, last)

LEMMA Joined ==
  ASSUME NEW from \in Nat, NEW last \in Nat, NEW a \in Seq(TunnelBytes), NEW b \in Seq(TunnelBytes),
         Ends(a, from, last), Ends(b, from, last + Len(b))
  PROVE  Joins(a, b, from, last + Len(b))
BY JoinEnds DEF Joins

(* The read of k bytes of a queue that ends at last, by a pump that has    *)
(* the bytes before them.                                                  *)
Reads(queue, has, from, last, k) ==
  /\ Rest(queue, k) \in Seq(TunnelBytes) /\ Ends(Rest(queue, k), from, last)
  /\ has \o First(queue, k) \in Seq(TunnelBytes)
  /\ Ends(has \o First(queue, k), from, last - Len(Rest(queue, k)))
  /\ last - Len(Rest(queue, k)) - Len(has \o First(queue, k)) = last - Len(queue) - Len(has)
  /\ Len(has \o First(queue, k)) = Len(has) + k

LEMMA ReadFacts ==
  ASSUME NEW from \in Nat, NEW last \in Nat, NEW queue \in Seq(TunnelBytes), NEW has \in Seq(TunnelBytes),
         Ends(queue, from, last), Ends(has, from, last - Len(queue)), NEW k \in 1 .. Len(queue)
  PROVE  Reads(queue, has, from, last, k)
<1>1. /\ Len(queue) \in Nat /\ Len(has) \in Nat /\ k \in Nat /\ k <= Len(queue) /\ Len(queue) <= last
      /\ k \in 0 .. Len(queue)
  BY DEF Ends
<1>2. PICK head \in Nat : head = last - Len(queue)
  BY <1>1
<1>3. head + Len(queue) = last
  BY <1>1, <1>2
<1>4. Takes(queue, from, head, last, k)
  BY <1>1, <1>3, Taken
<1>5. /\ First(queue, k) \in Seq(TunnelBytes) /\ Len(First(queue, k)) = k
      /\ Ends(First(queue, k), from, head + k)
      /\ Rest(queue, k) \in Seq(TunnelBytes) /\ Len(Rest(queue, k)) = Len(queue) - k
      /\ Ends(Rest(queue, k), from, last) /\ last - (Len(queue) - k) = head + k
  BY <1>4 DEF Takes
<1>6. Joins(has, First(queue, k), from, head + k)
  <2> DEFINE b == First(queue, k)
  <2>1. b \in Seq(TunnelBytes) /\ Len(b) = k /\ Ends(b, from, head + Len(b)) /\ Ends(has, from, head)
    BY <1>2, <1>5
  <2> HIDE DEF b
  <2>2. Joins(has, b, from, head + Len(b))
    BY <2>1, Joined, Zenon
  <2> QED BY <2>1, <2>2 DEF b
<1>7. /\ has \o First(queue, k) \in Seq(TunnelBytes) /\ Ends(has \o First(queue, k), from, head + k)
      /\ Len(has \o First(queue, k)) = Len(has) + k
  BY <1>5, <1>6 DEF Joins
<1>8. /\ last - Len(Rest(queue, k)) = head + k
      /\ last - Len(Rest(queue, k)) - Len(has \o First(queue, k)) = last - Len(queue) - Len(has)
  <2>1. PICK m \in Nat, h \in Nat : m = Len(queue) /\ h = Len(has) /\ head = last - m /\ k <= m
    BY <1>1, <1>2
  <2>2. last - (m - k) = head + k /\ last - (m - k) - (h + k) = last - m - h
    BY <1>1, <2>1
  <2>3. Len(Rest(queue, k)) = m - k /\ Len(has \o First(queue, k)) = h + k
    BY <1>5, <1>7, <2>1
  <2> QED BY <2>1, <2>2, <2>3
<1> QED BY <1>5, <1>7, <1>8, ZenonT(30) DEF Reads

LEMMA ReadUpKeeps ==
  ASSUME TunnelInv, ReadUp
  PROVE  TunnelInv'
<1>1. /\ loop.pc \in InBatch /\ UNCHANGED <<net, lwip, owner, wrote, sent, delivered>>
      /\ loop.pc = "read_up"
  BY DEF ReadUp, InBatch, logs, netVars
<1>2. PICK progress \in BOOLEAN : Goto("write_down", progress)
  BY Zenon DEF ReadUp
<1>3. OnTo("write_down")
  BY <1>2, GotoFacts DEF InBatch
<1>4. pump \in Pumps /\ usb \in Ports /\ ~ pump.dead
  BY <1>1, Zenon DEF TunnelInv, TunnelTypes, LoopInv, InBatch
<1>5. CASE UNCHANGED <<usb, pump>>
  <2>1. LoopInv' /\ HeldBytesHaveADeadline'
    BY <1>1, <1>3, <1>4, <1>5, OnToKeeps DEF InBatch
  <2> QED BY <1>1, <1>3, <1>4, <1>5, <2>1, StillKeeps DEF OnTo
<1>6. CASE pump' = [pump EXCEPT !.usb_closed = TRUE] /\ UNCHANGED usb
  <2>1. pump' \in Pumps /\ UNCHANGED <<pump.up, pump.down, pump.dead>>
    BY <1>4, <1>6, ZenonT(30) DEF Pumps
  <2>2. LoopInv' /\ HeldBytesHaveADeadline'
    BY <1>1, <1>3, <1>4, <1>6, <2>1, OnToKeeps DEF InBatch
  <2> QED BY <1>1, <1>3, <1>6, <2>1, <2>2, StillKeeps DEF OnTo
<1>7. ASSUME NEW k \in 1 .. Len(usb.rx), pump' = [pump EXCEPT !.up = pump.up \o First(usb.rx, k)],
             usb' = [usb EXCEPT !.rx = Rest(usb.rx, k)]
      PROVE  TunnelInv'
  <2>1. Reads(usb.rx, pump.up, usb.session, usb.written, k)
    <3>1. /\ usb.session \in Nat /\ usb.written \in Nat /\ usb.rx \in Seq(TunnelBytes) /\ pump.up \in Seq(TunnelBytes)
          /\ Ends(usb.rx, usb.session, usb.written) /\ Ends(pump.up, usb.session, usb.written - Len(usb.rx))
      BY TunnelNumbers DEF TunnelInv, BytesInv
    <3> QED BY <3>1, ReadFacts, Zenon
  <2>2. /\ Rest(usb.rx, k) \in Seq(TunnelBytes) /\ Ends(Rest(usb.rx, k), usb.session, usb.written)
        /\ pump.up \o First(usb.rx, k) \in Seq(TunnelBytes)
        /\ Ends(pump.up \o First(usb.rx, k), usb.session, usb.written - Len(Rest(usb.rx, k)))
        /\ usb.written - Len(Rest(usb.rx, k)) - Len(pump.up \o First(usb.rx, k))
             = usb.written - Len(usb.rx) - Len(pump.up)
    BY <2>1, Zenon DEF Reads
  <2>3. pump' \in Pumps /\ pump'.up = pump.up \o First(usb.rx, k) /\ UNCHANGED <<pump.down, pump.dead>>
    BY <1>4, <1>7, <2>2, ZenonT(30) DEF Pumps
  <2>4. usb' \in Ports /\ usb'.rx = Rest(usb.rx, k) /\ UNCHANGED <<usb.dtr, usb.session, usb.written>>
    BY <1>4, <1>7, <2>2, ZenonT(30) DEF Ports
  <2>5. LoopInv' /\ HeldBytesHaveADeadline'
    BY <1>1, <1>3, <1>4, <2>3, <2>4, OnToKeeps DEF InBatch
  <2>6. TunnelTypes'
    BY <1>1, <1>3, <2>3, <2>4, ZenonT(30) DEF TunnelInv, TunnelTypes, OnTo
  <2>7. ConnectionInv'
    BY <1>1, <1>3, <2>4, ZenonT(30) DEF TunnelInv, ConnectionInv, OnTo
  <2>8. BytesInv'
    BY <1>1, <2>2, <2>3, <2>4, ZenonT(30) DEF TunnelInv, BytesInv
  <2>9. UpTo' = UpTo /\ DownTo' = DownTo /\ Live' = Live
    <3>1. UpTo' = UpTo
      BY <2>2, <2>3, <2>4, Zenon DEF UpTo
    <3> QED BY <1>1, <1>3, <2>3, <3>1 DEF DownTo, Live, OnTo
  <2>10. SentInv' /\ DeliveredInv'
    BY <1>1, <2>4, <2>9 DEF TunnelInv, SentInv, DeliveredInv
  <2> QED BY <2>5, <2>6, <2>7, <2>8, <2>10 DEF TunnelInv
<1> QED BY <1>5, <1>6, <1>7, Zenon DEF ReadUp

LEMMA WriteDownKeeps ==
  ASSUME TunnelInv, WriteDown
  PROVE  TunnelInv'
<1>1. /\ loop.pc \in InBatch /\ loop.pc = "write_down" /\ UNCHANGED <<usb, net, owner, wrote, sent>>
  BY Zenon DEF WriteDown, InBatch
<1>2. CASE ~ usb.dtr
  <2>1. Failing /\ lwip' = Reported /\ UNCHANGED delivered
    BY <1>2 DEF WriteDown
  <2> QED BY <1>1, <2>1, FailingKeeps, ReportedNetwork
<1>3. CASE usb.dtr
  <2>1. PICK k \in 1 .. Len(pump.down) :
          /\ delivered' = [delivered EXCEPT ![usb.session] = @ \o First(pump.down, k)]
          /\ pump' = [pump EXCEPT !.down = Rest(pump.down, k)]
    BY <1>3, Zenon DEF WriteDown
  <2>2. Goto("read_down", TRUE) /\ UNCHANGED lwip
    BY <1>3, Zenon DEF WriteDown
  <2>3. OnTo("read_down")
    BY <2>2, GotoFacts, ZenonT(30) DEF InBatch
  <2>4. /\ pump \in Pumps /\ usb \in Ports /\ ~ pump.dead /\ Live
        /\ delivered \in DeliveredLogs /\ owner \in Seq(Nat)
    BY <1>1, BatchFacts, ZenonT(30) DEF TunnelInv, TunnelTypes, LoopInv, InBatch, Live
  <2>5. /\ pump.down \in Seq(TunnelBytes) /\ Len(owner) \in Nat /\ wrote - Len(lwip.rx) \in Nat
        /\ Ends(pump.down, Len(owner), wrote - Len(lwip.rx))
        /\ DownTo \in Nat /\ DownTo + Len(pump.down) = wrote - Len(lwip.rx)
    BY TunnelNumbers, Counts DEF TunnelInv, BytesInv
  <2>6. Takes(pump.down, Len(owner), DownTo, wrote - Len(lwip.rx), k)
    <3>1. k \in 0 .. Len(pump.down)
      OBVIOUS
    <3> QED BY <2>5, <3>1, Taken, Zenon
  <2>7. /\ First(pump.down, k) \in Seq(TunnelBytes) /\ Len(First(pump.down, k)) = k
        /\ Ends(First(pump.down, k), Len(owner), DownTo + k)
        /\ Rest(pump.down, k) \in Seq(TunnelBytes) /\ Len(Rest(pump.down, k)) = Len(pump.down) - k
        /\ Ends(Rest(pump.down, k), Len(owner), wrote - Len(lwip.rx))
        /\ wrote - Len(lwip.rx) - (Len(pump.down) - k) = DownTo + k
    BY <2>6, Zenon DEF Takes
  <2>8. pump' \in Pumps /\ pump'.down = Rest(pump.down, k) /\ UNCHANGED <<pump.up, pump.dead>>
    BY <2>1, <2>4, <2>7, ZenonT(30) DEF Pumps
  <2>9. LoopInv' /\ HeldBytesHaveADeadline'
    BY <1>1, <2>3, <2>4, <2>8, OnToKeeps DEF InBatch
  <2>10. ConnectionInv'
    BY <1>1, <2>2, <2>3, ZenonT(30) DEF TunnelInv, ConnectionInv, OnTo
  <2>11. BytesInv'
    BY <1>1, <2>2, <2>7, <2>8, SMTT(30) DEF TunnelInv, BytesInv
  <2>12. UpTo' = UpTo /\ DownTo' = DownTo + k /\ Live' = Live
    <3>1. DownTo' = wrote - Len(lwip.rx) - Len(Rest(pump.down, k))
      BY <1>1, <2>2, <2>8 DEF DownTo
    <3>2. DownTo' = DownTo + k
      BY <2>7, <3>1, Zenon
    <3> QED BY <1>1, <2>2, <2>3, <2>8, <3>2 DEF UpTo, Live, OnTo
  <2>13. delivered' \in DeliveredLogs /\ DeliveredAt(delivered', owner, usb.session, DownTo + k, Live)
    <3> DEFINE b == First(pump.down, k)
    <3>1. /\ usb.session \in 1 .. MaxSessions /\ Len(owner) >= 1 /\ owner[Len(owner)] = usb.session
      BY <1>1, BatchFacts
    <3>2. DeliveredAt(delivered, owner, usb.session, DownTo, Live)
      BY DEF TunnelInv, DeliveredInv
    <3>3. b \in Seq(TunnelBytes) /\ Len(b) = k /\ Len(b) >= 1 /\ Ends(b, Len(owner), DownTo + Len(b))
      BY <2>7
    <3> HIDE DEF b
    <3>4. delivered' = [delivered EXCEPT ![usb.session] = @ \o b]
      BY <2>1 DEF b
    <3>5. /\ [delivered EXCEPT ![usb.session] = @ \o b] \in DeliveredLogs
          /\ DeliveredAt([delivered EXCEPT ![usb.session] = @ \o b], owner, usb.session, DownTo + Len(b), Live)
      BY <2>4, <2>5, <3>1, <3>2, <3>3, DeliveredGrows, ZenonT(30)
    <3> QED BY <3>3, <3>4, <3>5
  <2>14. TunnelTypes'
    BY <1>1, <2>2, <2>3, <2>8, <2>13 DEF TunnelInv, TunnelTypes, OnTo
  <2>15. SentInv' /\ DeliveredInv'
    BY <1>1, <2>12, <2>13, ZenonT(30) DEF TunnelInv, SentInv, DeliveredInv
  <2> QED BY <2>9, <2>10, <2>11, <2>14, <2>15 DEF TunnelInv
<1> QED BY <1>2, <1>3

(* A step of the pump that is not complete ends with bytes held back only  *)
(* under the deadline.                                                     *)
LEMMA EndStepFacts ==
  ASSUME TunnelInv, loop.pc = "read_down", NEW p \in Pumps, ~ p.dead, NEW progress \in BOOLEAN,
         ~ Complete(p), EndStep(p, progress), UNCHANGED <<usb, net>>
  PROVE  /\ pump' = p /\ loop' \in Loops /\ loop'.connected = loop.connected
         /\ LoopInv' /\ HeldBytesHaveADeadline'
<1>1. loop \in Loops /\ usb \in Ports /\ loop.pc \in InBatch
  BY DEF TunnelInv, TunnelTypes, InBatch
<1>2. pump' = p
  BY ZenonT(30) DEF EndStep
<1>3. CASE (loop.progress \/ progress) /\ MoreSteps
  <2>1. loop' = [loop EXCEPT !.pc = "write_up", !.progress = FALSE, !.steps = @ + 1]
    BY <1>3 DEF EndStep
  <2>2. loop.steps + 1 \in Nat
    BY <1>1 DEF Loops
  <2>3. OnTo("write_up")
    BY <1>1, <2>1, <2>2, Zenon DEF OnTo, Loops, InBatch
  <2>4. LoopInv' /\ HeldBytesHaveADeadline'
    BY <1>1, <1>2, <2>3, OnToKeeps DEF InBatch
  <2> QED BY <1>2, <2>3, <2>4 DEF OnTo
<1>4. CASE ~ ((loop.progress \/ progress) /\ MoreSteps)
  <2>1. PICK t \in BOOLEAN : t = TailPending(p)
    BY Zenon DEF TailPending
  <2>2. loop' = [loop EXCEPT !.pc = "observe", !.progress = FALSE, !.steps = 0, !.force = FALSE, !.tail = t]
    BY <1>4, <2>1 DEF EndStep
  <2>3. /\ loop' \in Loops /\ loop'.connected = loop.connected /\ loop'.was_ready = loop.was_ready
        /\ loop'.pc = "observe" /\ loop'.tail = t
    BY <1>1, <2>2, Zenon DEF Loops
  <2>4. loop.connected = TRUE /\ net = "READY" /\ loop.was_ready = TRUE
    BY <1>1, BatchFacts, Zenon
  <2>5. LoopInv'
    BY <1>2, <2>3, <2>4 DEF TunnelInv, LoopInv, InBatch
  <2>6. HeldBytesHaveADeadline'
    BY <1>2, <2>1, <2>3, Zenon DEF HeldBytesHaveADeadline, TailPending
  <2> QED BY <1>2, <2>3, <2>5, <2>6
<1> QED BY <1>3, <1>4

(* The end of a step that read nothing.                                    *)
LEMMA EndStepKeeps ==
  ASSUME TunnelInv, loop.pc = "read_down", NEW p \in Pumps, p.up = pump.up, p.down = pump.down,
         p.dead = pump.dead, NEW progress \in BOOLEAN, EndStep(p, progress),
         UNCHANGED <<usb, net, lwip, owner, wrote, sent, delivered>>
  PROVE  TunnelInv'
<1>1. loop.pc \in InBatch /\ lwip \in Networks /\ ~ pump.dead
  BY Zenon DEF TunnelInv, TunnelTypes, LoopInv, InBatch
<1>2. CASE Complete(p)
  <2>1. Failing
    BY <1>2, Zenon DEF EndStep
  <2> QED BY <1>1, <2>1, FailingKeeps
<1>3. CASE ~ Complete(p)
  <2>1. /\ pump' = p /\ loop' \in Loops /\ loop'.connected = loop.connected
        /\ LoopInv' /\ HeldBytesHaveADeadline'
    BY <1>1, <1>3, EndStepFacts
  <2> QED BY <1>1, <2>1, StillKeeps, Zenon
<1> QED BY <1>2, <1>3, Zenon

(* The pump reads the next bytes of the connection.                        *)
LEMMA ReceiveKeeps ==
  ASSUME TunnelInv, loop.pc = "read_down", NEW k \in 1 .. Len(lwip.rx),
         EndStep([pump EXCEPT !.down = pump.down \o First(lwip.rx, k)], TRUE),
         lwip' = [lwip EXCEPT !.rx = Rest(lwip.rx, k)],
         UNCHANGED <<usb, net, owner, wrote, sent, delivered>>
  PROVE  TunnelInv'
<1> DEFINE p == [pump EXCEPT !.down = pump.down \o First(lwip.rx, k)]
<1>1. loop.pc \in InBatch /\ lwip \in Networks /\ pump \in Pumps /\ ~ pump.dead
  BY DEF TunnelInv, TunnelTypes, LoopInv, InBatch
<1>2. Reads(lwip.rx, pump.down, Len(owner), wrote, k)
  <2>1. /\ Len(owner) \in Nat /\ wrote \in Nat /\ lwip.rx \in Seq(TunnelBytes) /\ pump.down \in Seq(TunnelBytes)
        /\ Ends(lwip.rx, Len(owner), wrote) /\ Ends(pump.down, Len(owner), wrote - Len(lwip.rx))
    BY TunnelNumbers DEF TunnelInv, BytesInv
  <2> QED BY <2>1, ReadFacts, Zenon
<1>3. /\ Rest(lwip.rx, k) \in Seq(TunnelBytes) /\ Ends(Rest(lwip.rx, k), Len(owner), wrote)
      /\ pump.down \o First(lwip.rx, k) \in Seq(TunnelBytes)
      /\ Ends(pump.down \o First(lwip.rx, k), Len(owner), wrote - Len(Rest(lwip.rx, k)))
      /\ wrote - Len(Rest(lwip.rx, k)) - Len(pump.down \o First(lwip.rx, k))
           = wrote - Len(lwip.rx) - Len(pump.down)
      /\ Len(pump.down \o First(lwip.rx, k)) = Len(pump.down) + k
  BY <1>2, Zenon DEF Reads
<1>4. p \in Pumps /\ p.down = pump.down \o First(lwip.rx, k) /\ p.up = pump.up /\ p.dead = pump.dead
  BY <1>1, <1>3, Zenon DEF Pumps
<1>5. EndStep(p, TRUE)
  BY Zenon
<1> HIDE DEF p
<1>6. ~ Complete(p)
  <2>1. PICK n \in Nat : n = Len(pump.down)
    BY TunnelNumbers, Zenon DEF TunnelInv
  <2>2. Len(p.down) # 0
    <3>1. Len(p.down) = n + k
      BY <1>3, <1>4, <2>1, ZenonT(30)
    <3>2. n + k # 0
      BY TunnelNumbers DEF TunnelInv
    <3> QED BY <3>1, <3>2
  <2> QED BY <2>2 DEF Complete
<1>7. /\ pump' = p /\ loop' \in Loops /\ loop'.connected = loop.connected
      /\ LoopInv' /\ HeldBytesHaveADeadline'
  <2>1. ~ p.dead
    BY <1>1, <1>4
  <2> QED BY <1>4, <1>5, <1>6, <2>1, EndStepFacts, Zenon
<1>8. /\ lwip' \in Networks /\ lwip'.rx = Rest(lwip.rx, k) /\ lwip'.tcp_started = lwip.tcp_started
      /\ lwip'.connection = lwip.connection
  BY <1>1, <1>3, Zenon DEF Networks
<1>9. TunnelTypes'
  BY <1>4, <1>7, <1>8 DEF TunnelInv, TunnelTypes
<1>10. ConnectionInv'
  <2>1. lwip.tcp_started = TRUE
    BY <1>1, BatchFacts, Zenon
  <2> QED BY <1>7, <1>8, <2>1 DEF TunnelInv, ConnectionInv
<1>11. BytesInv'
  BY <1>3, <1>4, <1>7, <1>8, Zenon DEF TunnelInv, BytesInv
<1>12. UpTo' = UpTo /\ DownTo' = DownTo /\ Live' = Live
  <2>1. DownTo' = DownTo
    BY <1>3, <1>4, <1>7, <1>8, Zenon DEF DownTo
  <2> QED BY <1>4, <1>7, <1>8, <2>1 DEF UpTo, Live
<1>13. SentInv' /\ DeliveredInv'
  BY <1>12 DEF TunnelInv, SentInv, DeliveredInv
<1> QED BY <1>7, <1>9, <1>10, <1>11, <1>13 DEF TunnelInv

LEMMA ReadDownKeeps ==
  ASSUME TunnelInv, ReadDown
  PROVE  TunnelInv'
<1>1. loop.pc = "read_down" /\ loop.pc \in InBatch /\ UNCHANGED <<usb, net, owner, wrote, sent, delivered>>
  BY DEF ReadDown, InBatch, logs
<1>2. pump \in Pumps /\ lwip \in Networks
  BY DEF TunnelInv, TunnelTypes
<1>3. CASE EndStep(pump, FALSE) /\ UNCHANGED lwip
  BY <1>1, <1>2, <1>3, EndStepKeeps, Zenon
<1>4. CASE EndStep([pump EXCEPT !.tls_closed = TRUE], TRUE) /\ UNCHANGED lwip
  <2> DEFINE p == [pump EXCEPT !.tls_closed = TRUE]
  <2>1. p \in Pumps /\ p.up = pump.up /\ p.down = pump.down /\ p.dead = pump.dead
    BY <1>2, Zenon DEF Pumps
  <2>2. EndStep(p, TRUE)
    BY <1>4, Zenon
  <2> HIDE DEF p
  <2> QED BY <1>1, <1>4, <2>1, <2>2, EndStepKeeps, Zenon
<1>5. ASSUME NEW k \in 1 .. Len(lwip.rx), EndStep([pump EXCEPT !.down = @ \o First(lwip.rx, k)], TRUE),
             lwip' = [lwip EXCEPT !.rx = Rest(@, k)]
      PROVE  TunnelInv'
  BY <1>1, <1>5, ReceiveKeeps, Zenon
<1>6. CASE Failing /\ lwip' = [lwip EXCEPT !.rx = <<>>, !.failed = TRUE]
  <2>1. <<>> \in Seq(TunnelBytes)
    OBVIOUS
  <2>2. /\ lwip' \in Networks /\ lwip'.rx = <<>> /\ lwip'.tcp_started = lwip.tcp_started
        /\ lwip'.connection = lwip.connection
    BY <1>2, <1>6, <2>1, ZenonT(30) DEF Networks
  <2> QED BY <1>1, <1>6, <2>2, FailingKeeps
<1> QED BY <1>3, <1>4, <1>5, <1>6, Zenon DEF ReadDown

LEMMA DeinitKeeps ==
  ASSUME TunnelInv, Deinit
  PROVE  TunnelInv'
<1>1. UNCHANGED <<usb, owner, wrote, sent, delivered>> /\ net' = "OFF" /\ lwip' = Fresh
  BY DEF Deinit, logs
<1>2. loop \in Loops
  BY DEF TunnelInv, TunnelTypes
<1>3. loop' \in Loops /\ loop'.pc = "off" /\ loop'.connected = loop.connected /\ loop'.was_ready = FALSE
  BY <1>2, ZenonT(30) DEF Deinit, Loops
<1>4. pump' \in Pumps /\ pump'.up = <<>> /\ pump'.down = <<>>
  <2>1. pump' = [up |-> <<>>, down |-> <<>>, usb_closed |-> FALSE, tls_closed |-> FALSE, dead |-> TRUE]
    BY ZenonT(30) DEF Deinit, Empty
  <2>2. <<>> \in Seq(TunnelBytes)
    OBVIOUS
  <2>3. pump' \in Pumps
    BY <2>1, <2>2 DEF Pumps
  <2> QED BY <2>1, <2>3
<1>5. /\ lwip' \in Networks /\ lwip'.connection = 0 /\ lwip'.rx = <<>> /\ lwip'.tcp_started = FALSE
  BY <1>1, FreshNetwork
<1>6. TunnelTypes'
  BY <1>1, <1>3, <1>4, <1>5, ZenonT(30) DEF TunnelInv, TunnelTypes, States
<1>7. LoopInv' /\ ConnectionInv' /\ HeldBytesHaveADeadline'
  BY <1>1, <1>3, <1>4, <1>5, ZenonT(30) DEF TunnelInv, LoopInv, ConnectionInv, HeldBytesHaveADeadline, InBatch
<1>8. Dropped(usb.rx, pump.up) /\ Dropped(lwip.rx, pump.down)
  BY <1>1, <1>4, <1>5 DEF Dropped
<1>9. ~ Live'
  BY <1>5 DEF Live
<1> QED BY <1>1, <1>6, <1>7, <1>8, <1>9, DropKeeps

(* The inductive invariant of the tunnel: where the loop, the controller   *)
(* and the pump are, which connection there is and in which session, and   *)
(* that every queue on the way holds the bytes that come next.             *)
THEOREM TunnelInvariant ==
  TunnelSpec => []TunnelInv
<1>1. TunnelInv /\ [TunnelNext]_tunnelVars => TunnelInv'
  <2> SUFFICES ASSUME TunnelInv, [TunnelNext]_tunnelVars PROVE TunnelInv'
    OBVIOUS
  <2>1. CASE Host
    BY <2>1, HostOpenKeeps, HostCloseKeeps, HostWriteKeeps DEF Host
  <2>2. CASE Lwip
    BY <2>2, CallbackKeeps, TcpReceivedKeeps DEF Lwip
  <2>3. CASE Batch
    BY <2>3, StartBatchKeeps, BlockedKeeps, WriteUpKeeps, WriteUpFailsKeeps, ReadUpKeeps, WriteDownKeeps, ReadDownKeeps, ZenonT(30)
    DEF Batch
  <2>4. CASE UNCHANGED tunnelVars
    BY <2>4, ZenonT(30) DEF tunnelVars, netVars, logs, TunnelInv, TunnelTypes, LoopInv, ConnectionInv, BytesInv, SentInv,
                DeliveredInv, Live, UpTo, DownTo, HeldBytesHaveADeadline
  <2> QED BY <2>1, <2>2, <2>3, <2>4, ObserveKeeps, NetworkStepKeeps, DeinitKeeps DEF TunnelNext
<1> QED BY <1>1, TunnelStarts, PTL DEF TunnelSpec

(* What a connection carries, and what a session is given, is in order and *)
(* without a gap, from one session or from its own connections, whatever   *)
(* fails and whenever it does.                                             *)
THEOREM StreamsStayOrdered ==
  TunnelSpec => []StreamsAreOrdered
<1>1. TunnelInv => StreamsAreOrdered
  BY ZenonT(30) DEF TunnelInv, SentInv, SentAt, DeliveredInv, DeliveredAt, Follows, StreamsAreOrdered
<1> QED BY <1>1, TunnelInvariant, PTL

(* No connection outlives the states of the controller that close it.      *)
THEOREM NoConnectionIsOrphaned ==
  TunnelSpec => []NoOrphan
<1>1. TunnelInv => NoOrphan
  BY Zenon DEF TunnelInv, ConnectionInv, NoOrphan
<1> QED BY <1>1, TunnelInvariant, PTL

(* Bytes held back for aggregation always have their deadline running.     *)
THEOREM HeldBytesKeepADeadline ==
  TunnelSpec => []HeldBytesHaveADeadline
<1>1. TunnelInv => HeldBytesHaveADeadline
  BY DEF TunnelInv
<1> QED BY <1>1, TunnelInvariant, PTL
=============================================================================
