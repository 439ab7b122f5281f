----------------------------- MODULE PicoTunnel -----------------------------
(***************************************************************************)
(* The Pico's tunnel in normal mode (src/pico/src/main.c): the main loop   *)
(* polls the USB data port, steps the network controller (network.c) over  *)
(* the Wi-Fi and lwIP operations (pico_network.c), and pumps bytes between *)
(* USB and TCP (byte_pump.c, tail_deadline.c).  lwIP runs its callbacks in *)
(* the background, between any two of the loop's locked sections.          *)
(*                                                                         *)
(* A byte is [from, n]: the n-th of a USB session, or of what the gateway  *)
(* sends on a connection.  Time is abstracted: a stage may time out, and a *)
(* back-off or the aggregation deadline end, whenever the loop looks.      *)
(***************************************************************************)
EXTENDS Naturals, Sequences

CONSTANTS MaxSessions, MaxConnections,   \* bounds: USB sessions, TCP connections
          HostBytes, GatewayBytes,       \* bounds: bytes of each
          Ring,                          \* TUNNEL_RING_CAPACITY and PBNS_PICO_TCP_RX_CAPACITY
          Threshold,                     \* TUNNEL_AGGREGATION_THRESHOLD
          MaxQueries,                    \* DNS queries lwIP has room for
          BatchSteps                     \* PBNS_BYTE_PUMP_BATCH_MAX_STEPS

ASSUME TunnelAssumption ==
  /\ Ring \in Nat /\ Threshold \in 1 .. Ring /\ BatchSteps \in Nat \ {0}
  /\ MaxSessions \in Nat /\ MaxConnections \in Nat /\ HostBytes \in Nat /\ GatewayBytes \in Nat /\ MaxQueries \in Nat

VARIABLES usb,       \* data port: DTR, session, bytes the host wrote, receive queue
          net,       \* pbns_network: its state
          lwip,      \* pbns_pico_network
          queries,   \* DNS queries lwIP has not answered
          owner,     \* the session each connection was made in (history)
          wrote,     \* bytes the gateway wrote on the last connection
          pump,      \* pbns_byte_pump
          loop,      \* where the loop is, and its locals
          sent,      \* per connection: the bytes TCP took
          delivered  \* per session: the bytes USB took

netVars == <<net, lwip, queries, owner, wrote>>
logs == <<sent, delivered>>
tunnelVars == <<usb, netVars, pump, loop, logs>>

Byte(from, n) == [from |-> from, n |-> n]
Connecting == {"WIFI", "TCP", "SESSION"}

Fresh == [dns_started |-> FALSE, dns_ready |-> FALSE, tcp_started |-> FALSE, tcp_connected |-> FALSE,
          remote_closed |-> FALSE, failed |-> FALSE, connection |-> 0, rx |-> <<>>]
Empty == [up |-> <<>>, down |-> <<>>, usb_closed |-> FALSE, tls_closed |-> FALSE, dead |-> FALSE]

TunnelInit ==
  /\ usb = [dtr |-> FALSE, session |-> 0, written |-> 0, rx |-> <<>>]
  /\ net = "DOWN" /\ lwip = Fresh /\ queries = 0 /\ owner = <<>> /\ wrote = 0
  /\ pump = Empty
  /\ loop = [pc |-> "observe", connected |-> FALSE, was_ready |-> FALSE, tail |-> FALSE,
             force |-> FALSE, progress |-> FALSE, steps |-> 0]
  /\ sent = [c \in 1 .. MaxConnections |-> <<>>]
  /\ delivered = [s \in 1 .. MaxSessions |-> <<>>]

-----------------------------------------------------------------------------
(* The USB host.  It leaves the port open, and closed, for at least one    *)
(* turn of the loop; see the README on a shorter pause.                    *)

HostOpen ==
  /\ ~ usb.dtr /\ ~ loop.connected /\ usb.session < MaxSessions
  /\ usb' = [usb EXCEPT !.dtr = TRUE, !.session = @ + 1, !.written = 0]
  /\ UNCHANGED <<netVars, pump, loop, logs>>

HostClose ==
  /\ usb.dtr /\ loop.connected /\ usb' = [usb EXCEPT !.dtr = FALSE]
  /\ UNCHANGED <<netVars, pump, loop, logs>>

HostWrite ==
  /\ usb.dtr /\ usb.written < HostBytes
  /\ usb' = [usb EXCEPT !.written = @ + 1, !.rx = Append(@, Byte(usb.session, usb.written + 1))]
  /\ UNCHANGED <<netVars, pump, loop, logs>>

-----------------------------------------------------------------------------
(* lwIP's callbacks.  pico_close takes its own off the connection it       *)
(* aborts; a DNS query cannot be taken back.                               *)

Callback == UNCHANGED <<usb, net, pump, loop, logs>>

tcp_connected ==
  /\ lwip.connection # 0 /\ ~ lwip.tcp_connected
  /\ lwip' = [lwip EXCEPT !.tcp_connected = TRUE]
  /\ Callback /\ UNCHANGED <<queries, owner, wrote>>

(* tcp_failed, and tcp_received or tcp_connected with an error. *)
tcp_failed ==
  /\ lwip.connection # 0
  /\ lwip' \in {[lwip EXCEPT !.connection = 0, !.failed = TRUE],
                [lwip EXCEPT !.connection = 0, !.failed = TRUE, !.tcp_connected = FALSE]}
  /\ Callback /\ UNCHANGED <<queries, owner, wrote>>

(* A packet the ring has no room for is refused; lwIP brings it again. *)
tcp_received ==
  /\ lwip.tcp_connected /\ lwip.connection # 0 /\ ~ lwip.remote_closed
  /\ wrote < GatewayBytes /\ Len(lwip.rx) < Ring
  /\ wrote' = wrote + 1
  /\ lwip' = [lwip EXCEPT !.rx = Append(@, Byte(lwip.connection, wrote + 1))]
  /\ Callback /\ UNCHANGED <<queries, owner>>

tcp_received_end ==
  /\ lwip.tcp_connected /\ lwip.connection # 0 /\ ~ lwip.remote_closed
  /\ lwip' = [lwip EXCEPT !.remote_closed = TRUE]
  /\ Callback /\ UNCHANGED <<queries, owner, wrote>>

(* A late answer finds the network as it is now, not as it was asked. *)
dns_result(found) ==
  /\ queries > 0 /\ queries' = queries - 1
  /\ lwip' = IF net = "OFF" \/ lwip.failed THEN lwip
             ELSE IF found THEN [lwip EXCEPT !.dns_ready = TRUE]
             ELSE [lwip EXCEPT !.failed = TRUE]
  /\ Callback /\ UNCHANGED <<owner, wrote>>

-----------------------------------------------------------------------------
(* tunnel_task, first part: the port.                                      *)

(* pbns_byte_pump_reset *)
Reset == Empty

Observe ==
  /\ loop.pc = "observe"
  /\ loop' = [loop EXCEPT !.pc = "network", !.connected = usb.dtr, !.tail = @ /\ (usb.dtr \/ ~ loop.connected)]
  /\ IF loop.connected /\ ~ usb.dtr
     THEN usb' = [usb EXCEPT !.rx = <<>>] /\ pump' = Reset
     ELSE UNCHANGED <<usb, pump>>
  /\ UNCHANGED <<netVars, logs>>

-----------------------------------------------------------------------------
(* tunnel_task, second part: pbns_network_step, then the comparison with   *)
(* the last turn, which empties the pump when the tunnel came up or went.  *)

Enter(state) ==
  LET ready == state = "READY" IN
  /\ loop.pc = "network" /\ net' = state
  /\ pump' = IF ready # loop.was_ready THEN Reset ELSE pump
  /\ loop' = [loop EXCEPT !.was_ready = ready,
                          !.pc = IF ready /\ loop.connected THEN "batch" ELSE "observe",
                          !.tail = @ /\ ready = loop.was_ready /\ ready /\ loop.connected]
  /\ UNCHANGED <<usb, logs>>

(* pico_close: callbacks off, abort, and every field as new. *)
close == lwip' = Fresh /\ UNCHANGED <<queries, owner, wrote>>

(* schedule_backoff, when an operation failed or a stage took too long. *)
unclosed == UNCHANGED <<lwip, queries, owner, wrote>>
BackoffCloses == close

Backoff == BackoffCloses /\ Enter("BACKOFF")

Unplugged ==
  /\ ~ loop.connected
  /\ IF net = "DOWN" THEN UNCHANGED <<lwip, queries, owner, wrote>> ELSE close
  /\ Enter("DOWN")

Timeout == loop.connected /\ net \in Connecting /\ Backoff

wifi_start ==
  /\ loop.connected /\ net = "DOWN"
  /\ \/ lwip' = [Fresh EXCEPT !.connection = lwip.connection] /\ UNCHANGED <<queries, owner, wrote>> /\ Enter("WIFI")
     \/ Backoff

wifi_poll ==
  /\ loop.connected /\ net = "WIFI"
  /\ \/ UNCHANGED <<lwip, queries, owner, wrote>> /\ Enter("TCP")
     \/ UNCHANGED <<lwip, queries, owner, wrote>> /\ Enter("WIFI")
     \/ Backoff

(* pico_tcp_poll asks for the address once, connects once when it is       *)
(* known, and then waits for the callbacks.                                *)
start_tcp_connection(l) == [l EXCEPT !.tcp_started = TRUE, !.connection = Len(owner) + 1]

tcp_poll ==
  /\ loop.connected /\ net = "TCP"
  /\ \/ (lwip.failed \/ ~ lwip.tcp_started) /\ Backoff
     \/ /\ ~ lwip.failed /\ lwip.tcp_started
        /\ UNCHANGED <<lwip, queries, owner, wrote>> /\ Enter(IF lwip.tcp_connected THEN "SESSION" ELSE "TCP")
     \/ /\ ~ lwip.failed /\ ~ lwip.tcp_started
        /\ \E cached \in BOOLEAN :
             /\ cached => ~ lwip.dns_started
             /\ lwip.dns_started \/ cached \/ queries < MaxQueries
             /\ queries' = IF lwip.dns_started \/ cached THEN queries ELSE queries + 1
             /\ IF cached \/ lwip.dns_ready
                THEN /\ Len(owner) < MaxConnections
                     /\ lwip' = start_tcp_connection([lwip EXCEPT !.dns_started = TRUE, !.dns_ready = TRUE])
                     /\ owner' = Append(owner, usb.session) /\ wrote' = 0
                ELSE lwip' = [lwip EXCEPT !.dns_started = TRUE] /\ UNCHANGED <<owner, wrote>>
        /\ Enter("TCP")

failure_not_polled ==
  /\ loop.connected /\ net \in {"SESSION", "READY"}
  /\ UNCHANGED <<lwip, queries, owner, wrote>>
  /\ Enter(IF lwip.tcp_connected /\ lwip.connection # 0 THEN "READY" ELSE net)

session_poll ==
  /\ loop.connected /\ net \in {"SESSION", "READY"}
  /\ \/ lwip.failed /\ Backoff
     \/ /\ ~ lwip.failed /\ UNCHANGED <<lwip, queries, owner, wrote>>
        /\ Enter(IF lwip.tcp_connected /\ lwip.connection # 0 THEN "READY" ELSE net)

BackoffEnds ==
  /\ loop.connected /\ net = "BACKOFF"
  /\ \E state \in {"BACKOFF", "DOWN"} : Enter(state)
  /\ UNCHANGED <<lwip, queries, owner, wrote>>

NetworkStep == Unplugged \/ Timeout \/ wifi_start \/ wifi_poll \/ tcp_poll \/ session_poll \/ BackoffEnds

-----------------------------------------------------------------------------
(* tunnel_task, third part: a batch of pump steps.  Each of the four moves *)
(* of a step is one locked section.                                        *)

Goto(pc, progress) == loop' = [loop EXCEPT !.pc = pc, !.progress = @ \/ progress]

(* The batch ends.  A pump that failed, or is complete, is cancelled; the  *)
(* network learns of a failure only.                                       *)
Failing ==
  /\ pump' = [Empty EXCEPT !.dead = TRUE, !.usb_closed = pump.usb_closed, !.tls_closed = pump.tls_closed]
  /\ loop' = [loop EXCEPT !.pc = "observe", !.tail = FALSE]

Reported == [lwip EXCEPT !.failed = TRUE]

(* The aggregation deadline forces one write when it has passed. *)
StartBatch(force) ==
  /\ loop.pc = "batch" /\ (force => loop.tail)
  /\ IF pump.dead
     THEN Failing /\ lwip' = Reported
     ELSE loop' = [loop EXCEPT !.pc = "write_up", !.force = force, !.steps = 0] /\ UNCHANGED <<pump, lwip>>
  /\ UNCHANGED <<usb, net, queries, owner, wrote, logs>>

(* should_hold_write *)
HoldWrite == Len(pump.up) < Threshold /\ ~ loop.force /\ ~ pump.usb_closed

First(bytes, k) == SubSeq(bytes, 1, k)
Rest(bytes, k) == SubSeq(bytes, k + 1, Len(bytes))

(* tcp_write_endpoint.  When tcp_output fails after tcp_write the bytes    *)
(* are queued, and the connection counts as failed.                        *)
retried == FALSE
OutputFailureIsFatal == TRUE

WriteUpBlocked ==
  /\ loop.pc = "write_up" /\ Goto("read_up", FALSE)
  /\ UNCHANGED <<usb, netVars, pump, logs>>

Writable == pump.up # <<>> /\ ~ HoldWrite /\ lwip.tcp_connected /\ lwip.connection # 0

WriteUp ==
  /\ loop.pc = "write_up" /\ Writable
  /\ \E k \in 1 .. Len(pump.up) :
       /\ sent' = [sent EXCEPT ![lwip.connection] = @ \o First(pump.up, k)]
       /\ pump' = [pump EXCEPT !.up = Rest(@, k)]
  /\ loop' = [loop EXCEPT !.pc = "read_up", !.progress = TRUE, !.force = FALSE]
  /\ UNCHANGED <<usb, netVars, delivered>>

WriteUpFails ==
  /\ loop.pc = "write_up" /\ Writable
  /\ \E k \in 0 .. Len(pump.up) : sent' = [sent EXCEPT ![lwip.connection] = @ \o First(pump.up, k)]
  /\ IF OutputFailureIsFatal THEN Failing /\ lwip' = [lwip EXCEPT !.failed = TRUE]
                             ELSE Goto("read_up", FALSE) /\ UNCHANGED <<pump, lwip>>
  /\ UNCHANGED <<usb, net, queries, owner, wrote, delivered>>

(* data_usb_read *)
ReadUp ==
  /\ loop.pc = "read_up"
  /\ \/ /\ pump.usb_closed \/ Len(pump.up) = Ring \/ (usb.dtr /\ usb.rx = <<>>)
        /\ Goto("write_down", FALSE) /\ UNCHANGED <<usb, pump>>
     \/ /\ ~ pump.usb_closed /\ Len(pump.up) < Ring /\ ~ usb.dtr
        /\ pump' = [pump EXCEPT !.usb_closed = TRUE] /\ Goto("write_down", TRUE) /\ UNCHANGED usb
     \/ /\ ~ pump.usb_closed /\ Len(pump.up) < Ring /\ usb.dtr
        /\ \E k \in 1 .. Len(usb.rx) :
             /\ Len(pump.up) + k <= Ring
             /\ pump' = [pump EXCEPT !.up = @ \o First(usb.rx, k)] /\ usb' = [usb EXCEPT !.rx = Rest(@, k)]
        /\ Goto("write_down", TRUE)
  /\ UNCHANGED <<netVars, logs>>

(* data_usb_write *)
WriteDownBlocked ==
  /\ loop.pc = "write_down" /\ (pump.down # <<>> => usb.dtr)
  /\ Goto("read_down", FALSE) /\ UNCHANGED <<usb, netVars, pump, logs>>

WriteDown ==
  /\ loop.pc = "write_down" /\ pump.down # <<>>
  /\ IF usb.dtr
     THEN /\ \E k \in 1 .. Len(pump.down) :
               /\ delivered' = [delivered EXCEPT ![usb.session] = @ \o First(pump.down, k)]
               /\ pump' = [pump EXCEPT !.down = Rest(@, k)]
          /\ Goto("read_down", TRUE) /\ UNCHANGED lwip
     ELSE Failing /\ lwip' = Reported /\ UNCHANGED delivered
  /\ UNCHANGED <<usb, net, queries, owner, wrote, sent>>

(* The end of a step: another one after progress, or the end of the batch. *)
Complete(p) == p.usb_closed /\ p.tls_closed /\ p.up = <<>> /\ p.down = <<>>
tail_lost(p) == FALSE
TailPending(p) == p.up # <<>> /\ Len(p.up) < Threshold /\ ~ p.usb_closed

MoreSteps == loop.steps + 1 < BatchSteps

EndStep(p, progress) ==
  IF Complete(p)
  THEN Failing
  ELSE /\ pump' = p
       /\ loop' = IF (loop.progress \/ progress) /\ MoreSteps
                  THEN [loop EXCEPT !.pc = "write_up", !.progress = FALSE, !.steps = @ + 1]
                  ELSE [loop EXCEPT !.pc = "observe", !.progress = FALSE, !.steps = 0, !.force = FALSE, !.tail = TailPending(p)]

(* tcp_read.  Bytes of a connection lost meanwhile are dropped with it. *)
ReadDown ==
  /\ loop.pc = "read_down"
  /\ \/ /\ pump.tls_closed \/ pump.down # <<>> \/ (lwip.rx = <<>> /\ ~ lwip.remote_closed)
        /\ EndStep(pump, FALSE) /\ UNCHANGED lwip
     \/ /\ ~ pump.tls_closed /\ Len(pump.down) < Ring /\ lwip.rx = <<>> /\ lwip.remote_closed
        /\ EndStep([pump EXCEPT !.tls_closed = TRUE], TRUE) /\ UNCHANGED lwip
     \/ /\ ~ pump.tls_closed /\ lwip.connection # 0
        /\ \E k \in 1 .. Len(lwip.rx) :
             /\ Len(pump.down) + k <= Ring
             /\ EndStep([pump EXCEPT !.down = @ \o First(lwip.rx, k)], TRUE)
             /\ lwip' = [lwip EXCEPT !.rx = Rest(@, k)]
     \/ /\ ~ pump.tls_closed /\ Len(pump.down) < Ring /\ lwip.rx # <<>> /\ lwip.connection = 0
        /\ Failing /\ lwip' = [lwip EXCEPT !.rx = <<>>, !.failed = TRUE]
  /\ UNCHANGED <<usb, net, queries, owner, wrote, logs>>

(* tunnel_deinit, when the button activates provisioning. *)
Deinit ==
  /\ loop.pc = "observe"
  /\ loop' = [loop EXCEPT !.pc = "off", !.was_ready = FALSE, !.tail = FALSE]
  /\ net' = "OFF" /\ lwip' = Fresh /\ pump' = [Empty EXCEPT !.dead = TRUE]
  /\ UNCHANGED <<usb, queries, owner, wrote, logs>>

Host == HostOpen \/ HostClose \/ HostWrite
Lwip == tcp_connected \/ tcp_failed \/ tcp_received \/ tcp_received_end \/ \E found \in BOOLEAN : dns_result(found)
Batch ==
  \/ \E force \in BOOLEAN : StartBatch(force)
  \/ WriteUpBlocked \/ WriteUp \/ WriteUpFails \/ ReadUp \/ WriteDownBlocked \/ WriteDown \/ ReadDown

TunnelNext == Host \/ Lwip \/ Observe \/ NetworkStep \/ Batch \/ Deinit
TunnelSpec == TunnelInit /\ [][TunnelNext]_tunnelVars

-----------------------------------------------------------------------------
(* "CDC instance 0 is an opaque ordered path" (pico/README.md).  What a    *)
(* connection carries is a run of one USB session's bytes, in order, with  *)
(* none missing inside it, twice or from another session; after a loss the *)
(* next connection goes on behind a gap, but never repeats.  What a        *)
(* session receives comes from connections made in it, one after the       *)
(* other, from the first byte of each and without a gap.                   *)
Run(bytes) == \A i \in 1 .. Len(bytes) - 1 : bytes[i + 1] = Byte(bytes[i].from, bytes[i].n + 1)

Before(a, b) == a.from < b.from \/ (a.from = b.from /\ a.n < b.n)

StreamsAreOrdered ==
  /\ \A c \in 1 .. MaxConnections : Run(sent[c])
  /\ \A c, d \in 1 .. MaxConnections :
       c < d => \A i \in 1 .. Len(sent[c]), j \in 1 .. Len(sent[d]) : Before(sent[c][i], sent[d][j])
  /\ \A s \in 1 .. MaxSessions : \A i \in 1 .. Len(delivered[s]) :
       /\ owner[delivered[s][i].from] = s
       /\ IF i > 1 /\ delivered[s][i - 1].from = delivered[s][i].from
          THEN delivered[s][i].n = delivered[s][i - 1].n + 1
          ELSE delivered[s][i].n = 1
       /\ i > 1 => delivered[s][i - 1].from <= delivered[s][i].from

(* A connection exists only while the controller is in a state that will   *)
(* close it: none survives a back-off, an unplugged host or provisioning,  *)
(* whatever callbacks come late.                                           *)
NoOrphan == lwip.connection # 0 \/ lwip.tcp_started => net \in {"TCP", "SESSION", "READY"}

(* Bytes the pump holds back because they are fewer than the aggregation   *)
(* threshold always have a deadline running that will force them out: no   *)
(* turn of the loop, change of the network or callback leaves the last     *)
(* bytes of a request waiting for bytes the host will not send.            *)
HeldBytesHaveADeadline ==
  loop.pc \in {"observe", "network", "batch"} /\ pump.up # <<>> /\ Len(pump.up) < Threshold /\ ~ pump.usb_closed
    => loop.tail

-----------------------------------------------------------------------------
(* The loop never stops (main). *)
LoopStep == Observe \/ NetworkStep \/ Batch

FairSpec == TunnelSpec /\ WF_tunnelVars(LoopStep)

(* A pump that failed or is complete does not stay behind a tunnel that    *)
(* counts as ready: the network learns of it, and the next connection has  *)
(* a new one, or the tunnel is gone.                                       *)
DeadPumpRestarts == pump.dead /\ net = "READY" ~> ~ pump.dead \/ net = "OFF"
=============================================================================
