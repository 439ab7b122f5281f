------------------------------ MODULE HostLink ------------------------------
(***************************************************************************)
(* A host program's link to the gateway: the USB transport to the Pico,    *)
(* the TLS transport above it, the UEFI owner of the TLS transport, and    *)
(* the program that builds the three and takes them down again.            *)
(*                                                                         *)
(* A unit is a piece of the encrypted stream.  The Pico gives the host one *)
(* tunnel for every rise of the DTR line, and unit <<t, i>> is the i-th    *)
(* unit of tunnel t.  The broker is the caller: it may make any transport  *)
(* call at any time between two others.                                    *)
(***************************************************************************)
EXTENDS Integers, Sequences, FiniteSetsExt

CONSTANTS MaxCalls,   \* transport calls of one program
          MaxRuns,    \* programs run one after the other
          MaxUnits,   \* units a tunnel carries towards the host
          Packet,     \* units one bulk transfer brings at most
          Attempts    \* times a program tries to destroy its TLS transport

ASSUME LinkAssumption == /\ MaxCalls \in Nat /\ MaxRuns \in Nat /\ MaxUnits \in Nat
                         /\ Packet \in Nat \ {0} /\ Attempts \in Nat \ {0}

VARIABLES app,      \* the program: phase, attempts made, programs started
          identity, \* whether the identity (and its random source) is held
          wrapper,  \* PBNS_TLS_UEFI_TRANSPORT: active, and a pool to free
          tls,      \* pbns_tls_transport
          usb,      \* pbns_usb_transport
          device,   \* the Pico's end: DTR line, tunnel, next unit to send
          op,       \* the transport call in progress
          taken     \* units given to the TLS session since it was opened

vars == <<app, identity, wrapper, tls, usb, device, op, taken>>

NoCall == [call |-> "none", step |-> "none", id |-> 0]
NoTls == [exists |-> FALSE, state |-> "created", lowerOpen |-> FALSE,
          keys |-> FALSE, deadline |-> 0]
NoUsb == [exists |-> FALSE, open |-> FALSE, staged |-> <<>>, lost |-> FALSE]
NoWrapper == [active |-> FALSE, pending |-> FALSE]

Init == /\ app = [phase |-> "start", tries |-> 0, calls |-> 0, runs |-> 1]
        /\ identity = FALSE
        /\ wrapper = NoWrapper
        /\ tls = NoTls
        /\ usb = NoUsb
        /\ device = [line |-> FALSE, tunnel |-> 0, next |-> 1]
        /\ op = NoCall
        /\ taken = <<>>

-----------------------------------------------------------------------------
(***************************************************************************)
(* The device.                                                             *)
(***************************************************************************)
LineUp(d) ==
  IF d.line THEN d
  ELSE [line |-> TRUE, tunnel |-> d.tunnel + 1, next |-> 1]

LineDown(d) == [d EXCEPT !.line = FALSE]

\* SET_CONTROL_LINE_STATE: a transfer that fails may have taken effect.
SetConnected(d, up) ==
  LET moved == IF up THEN LineUp(d) ELSE LineDown(d)
  IN {[ok |-> TRUE, device |-> moved], [ok |-> FALSE, device |-> moved],
      [ok |-> FALSE, device |-> d]}

\* A port reset that succeeds drops the line.
PortReset(d) == {[ok |-> TRUE, device |-> LineDown(d)],
                 [ok |-> FALSE, device |-> d]}

\* The Pico is unplugged, or restarts.
Unplug == /\ device.line
          /\ device' = LineDown(device)
          /\ UNCHANGED <<app, identity, wrapper, tls, usb, op, taken>>

-----------------------------------------------------------------------------
(***************************************************************************)
(* The USB transport.  "lost" records that both the control transfer and   *)
(* the port reset that should have dropped the line failed.                *)
(***************************************************************************)
ClearStaging(u) == [u EXCEPT !.staged = <<>>]

\* set_connected, and the port reset when it fails.
Connect(d, up) ==
  {[ok |-> TRUE, device |-> s.device, lost |-> FALSE] :
     s \in {s \in SetConnected(d, up) : s.ok}}
  \cup UNION {{[ok |-> FALSE, device |-> r.device, lost |-> ~r.ok] :
                 r \in PortReset(s.device)} :
                s \in {s \in SetConnected(d, up) : ~s.ok}}

\* transport_open: the staging of an earlier session is cleared.
UsbOpen(u, d) ==
  {[ok |-> c.ok, device |-> c.device,
    usb |-> IF c.ok THEN [ClearStaging(u) EXCEPT !.open = TRUE, !.lost = FALSE]
                    ELSE [u EXCEPT !.lost = c.lost]] :
     c \in Connect(d, TRUE)}

\* transport_close: the transport is closed whatever the transfers answer.
UsbClose(u, d) ==
  IF u.open
  THEN {[device |-> c.device,
         usb |-> [ClearStaging(u) EXCEPT !.open = FALSE, !.lost = c.lost]] :
          c \in Connect(d, FALSE)}
  ELSE {[device |-> d, usb |-> ClearStaging(u)]}

\* The program's part of the enumeration: one matching interface, no more.
Discovered(matches) == matches = 1

\* Units a bulk IN transfer may bring now.
Arriving(d) ==
  IF d.line THEN 0 .. Min({Packet, MaxUnits + 1 - d.next}) ELSE {0}

Units(d, n) == [i \in 1 .. n |-> <<d.tunnel, d.next + i - 1>>]

\* receive_from_staging: what the caller has room for, and what stays.
FromStaging(staged, room) ==
  LET n == Min({room, Len(staged)})
  IN [given |-> SubSeq(staged, 1, n),
      left |-> SubSeq(staged, n + 1, Len(staged))]

-----------------------------------------------------------------------------
(***************************************************************************)
(* The TLS transport.  A deadline carries the number of the call that      *)
(* began it; 0 is no deadline.                                             *)
(***************************************************************************)
BeginDeadline(t) == [t EXCEPT !.deadline = IF @ = 0 THEN op.id ELSE @]

EndDeadline(t) == [t EXCEPT !.deadline = 0]

Return == op' = NoCall

Step(s) == op' = [op EXCEPT !.step = s]

At(call, s) == op.call = call /\ op.step = s

\* release_mbedtls, the policy and observer wiped, the state back to CREATED.
Forgotten(t) == [EndDeadline(t) EXCEPT !.lowerOpen = FALSE, !.keys = FALSE,
                                       !.state = "created"]

ResetSession(t) ==
  /\ tls' = Forgotten(t)
  /\ IF t.lowerOpen
     THEN \E c \in UsbClose(usb, device) : usb' = c.usb /\ device' = c.device
     ELSE UNCHANGED <<usb, device>>

FailSession == /\ ResetSession(tls)
               /\ taken' = <<>>
               /\ Return
               /\ UNCHANGED <<app, identity, wrapper>>

\* A failed transfer ends the session: bytes may have been lost with it.
session_kept ==
  /\ usb' = ClearStaging(usb)
  /\ Step("read")
  /\ UNCHANGED <<app, identity, wrapper, tls, device, taken>>

AfterFailedTransfer == FailSession

\* begin_transport_operation: one call at a time, on an active transport.
Call(c) ==
  /\ app.phase = "running" /\ app.calls < MaxCalls
  /\ op = NoCall /\ wrapper.active /\ tls.exists
  /\ app' = [app EXCEPT !.calls = @ + 1]
  /\ op' = [call |-> c, step |-> "begin", id |-> app.calls + 1]
  /\ UNCHANGED <<identity, wrapper, tls, usb, device, taken>>

\* Calls a transport in another state answers without doing anything.
Refuse ==
  /\ op.step = "begin"
  /\ \/ op.call = "open" /\ tls.state # "created"
     \/ op.call \in {"send", "receive"} /\ tls.state # "ready"
  /\ Return
  /\ UNCHANGED <<app, identity, wrapper, tls, usb, device, taken>>

\* begin_deadline cannot read the clock.
ClockFails ==
  /\ op.step = "begin"
  /\ \/ op.call = "open" /\ tls.state = "created"
     \/ op.call \in {"send", "receive", "close"} /\ tls.state = "ready"
  /\ FailSession

\* The USB transport does not open: it is closed and the deadline dropped.
kept_deadline(t) == t

AbandonOpen(t) == EndDeadline(t)

OpenLower ==
  /\ At("open", "begin") /\ tls.state = "created"
  /\ \E o \in UsbOpen(usb, device) :
       IF o.ok
       THEN /\ usb' = o.usb /\ device' = o.device
            /\ tls' = [BeginDeadline(tls) EXCEPT !.lowerOpen = TRUE,
                                                 !.state = "opening"]
            /\ taken' = <<>>
            /\ Step("configure")
       ELSE /\ \E c \in UsbClose(o.usb, o.device) :
                 usb' = c.usb /\ device' = c.device
            /\ tls' = AbandonOpen(BeginDeadline(tls))
            /\ Return
            /\ UNCHANGED taken
  /\ UNCHANGED <<app, identity, wrapper>>

\* configure_mbedtls: entropy and memory are needed.
Configure ==
  /\ At("open", "configure")
  /\ tls' = [tls EXCEPT !.keys = TRUE]
  /\ Step("write")
  /\ UNCHANGED <<app, identity, wrapper, usb, device, taken>>

ConfigureFails == At("open", "configure") /\ FailSession

\* A call on a ready session begins its deadline and its transfer.
Begin(call, step) ==
  /\ At(call, "begin") /\ tls.state = "ready"
  /\ tls' = BeginDeadline(tls)
  /\ Step(step)
  /\ UNCHANGED <<app, identity, wrapper, usb, device, taken>>

BeginSend == Begin("send", "write")
BeginReceive == Begin("receive", "read")
BeginClose == Begin("close", "write")

\* encrypted_send: the whole record goes out.  A handshake then reads.
Write ==
  /\ op.step = "write" /\ device.line
  /\ Step(CASE op.call = "open" -> "read"
            [] op.call = "send" -> "check"
            [] op.call = "close" -> "reset")
  /\ UNCHANGED <<app, identity, wrapper, tls, usb, device, taken>>

\* encrypted_receive: from staging, or from a bulk transfer that brings units.
\* The record may need more of them.
Read(room) ==
  /\ op.step = "read"
  /\ IF usb.staged # <<>>
     THEN LET f == FromStaging(usb.staged, room)
          IN /\ usb' = [usb EXCEPT !.staged = f.left]
             /\ taken' = taken \o f.given
             /\ UNCHANGED device
     ELSE \E n \in Arriving(device) \ {0} :
            LET f == FromStaging(Units(device, n), room)
            IN /\ usb' = [usb EXCEPT !.staged = f.left]
               /\ taken' = taken \o f.given
               /\ device' = [device EXCEPT !.next = @ + n]
  /\ \/ Step("check")
     \/ UNCHANGED op
  /\ UNCHANGED <<app, identity, wrapper, tls>>

\* A transfer that times out, fails, or brings only empty packets; units it
\* brought are gone.  A stall also resets the port.
TransferFails ==
  /\ op.step \in {"write", "read"}
  /\ op.call # "close"
  /\ AfterFailedTransfer

\* Units that arrive with a transfer that the host controller reports failed.
LoseUnits ==
  /\ op.step = "read" /\ usb.staged = <<>>
  /\ \E n \in Arriving(device) \ {0} :
       device' = [device EXCEPT !.next = @ + n]
  /\ Step("broken")
  /\ UNCHANGED <<app, identity, wrapper, tls, usb, taken>>

Stall ==
  /\ op.step \in {"write", "read"}
  /\ \E r \in PortReset(device) : device' = r.device
  /\ usb' = ClearStaging(usb)
  /\ Step("broken")
  /\ UNCHANGED <<app, identity, wrapper, tls, taken>>

Broken == op.step = "broken" /\ AfterFailedTransfer

\* deadline_remaining or continue_after_want: the time is over, or the
\* session makes no progress.
TimesOut ==
  /\ op.call # "close"
  /\ op.step \in {"configure", "write", "read", "check"}
  /\ FailSession

\* The handshake observer or the record layer refuses what was read.
RefuseRecord == op.step = "check" /\ FailSession

\* The certificate policy, or the negotiated profile, refuses the gateway.
RefuseCertificate == At("open", "check") /\ FailSession

RefuseHandshake == At("open", "check") /\ FailSession

\* The last look at the deadline, and the session is ready.  Only the first
\* flight of a new tunnel completes a handshake.
Handshaken ==
  /\ At("open", "check") /\ taken[1][2] = 1
  /\ tls' = [EndDeadline(tls) EXCEPT !.state = "ready"]
  /\ Return
  /\ UNCHANGED <<app, identity, wrapper, usb, device, taken>>

Transferred ==
  /\ op.step = "check" /\ op.call \in {"send", "receive"}
  /\ tls' = EndDeadline(tls)
  /\ Return
  /\ UNCHANGED <<app, identity, wrapper, usb, device, taken>>

\* transport_close: after the close notification, sent or not.
Close ==
  /\ op.call = "close"
  /\ \/ op.step = "begin" /\ tls.state # "ready"
     \/ op.step = "write"
     \/ op.step = "reset"
  /\ FailSession

\* transport_cancel: the lower transport does not support it.
Cancel == At("cancel", "begin") /\ FailSession

-----------------------------------------------------------------------------
(***************************************************************************)
(* The program: UefiMain.                                                  *)
(***************************************************************************)
Phase(p) == app' = [app EXCEPT !.phase = p]

OpenIdentity ==
  /\ app.phase = "start"
  /\ identity' = TRUE /\ Phase("usb")
  /\ UNCHANGED <<wrapper, tls, usb, device, op, taken>>

Leave(phase) ==
  /\ app.phase = phase
  /\ Phase("cleanup")
  /\ UNCHANGED <<identity, wrapper, tls, usb, device, op, taken>>

OpenIdentityFails == Leave("start")

CreateUsb ==
  /\ app.phase = "usb"
  /\ \E matches \in 0 .. 2 :
       IF Discovered(matches)
       THEN /\ usb' = [NoUsb EXCEPT !.exists = TRUE, !.lost = usb.lost]
            /\ Phase("tls")
       ELSE UNCHANGED usb /\ Phase("cleanup")
  /\ UNCHANGED <<identity, wrapper, tls, device, op, taken>>

\* An interface cannot be read.
EnumerationFails == Leave("usb")

CreateTls ==
  /\ app.phase = "tls"
  /\ wrapper' = [NoWrapper EXCEPT !.active = TRUE]
  /\ tls' = [NoTls EXCEPT !.exists = TRUE]
  /\ Phase("running")
  /\ UNCHANGED <<identity, usb, device, op, taken>>

\* A failed creation may leave an owner whose pool could not be freed.
CreateTlsFails ==
  /\ app.phase = "tls"
  /\ \E kept \in BOOLEAN : wrapper' = [NoWrapper EXCEPT !.active = kept]
  /\ Phase("cleanup")
  /\ UNCHANGED <<identity, tls, usb, device, op, taken>>

\* The run ends, well or not.
Finish == op = NoCall /\ Leave("running")

Cleanup ==
  /\ app.phase = "cleanup"
  /\ Phase(IF wrapper.active THEN "retry" ELSE "release")
  /\ UNCHANGED <<identity, wrapper, tls, usb, device, op, taken>>

\* PbnsTlsTransportDestroy answered an error: the program tries again, or
\* gives up and keeps what the transport still refers to.
TryAgain == app' = [app EXCEPT !.tries = @ + 1,
                      !.phase = IF app.tries + 1 < Attempts THEN "retry"
                                                            ELSE "release"]

RetryPending ==
  /\ app.phase = "retry"
  /\ \/ wrapper' = [wrapper EXCEPT !.pending = FALSE] /\ Phase("inner")
     \/ wrapper.pending /\ UNCHANGED wrapper /\ TryAgain
  /\ UNCHANGED <<identity, tls, usb, device, op, taken>>

DestroyInner ==
  /\ app.phase = "inner"
  /\ IF tls.exists
     THEN \E c \in IF tls.lowerOpen THEN UsbClose(usb, device)
                   ELSE {[usb |-> usb, device |-> device]} :
            /\ tls' = NoTls /\ usb' = c.usb /\ device' = c.device
            /\ \/ Phase("free") /\ UNCHANGED wrapper
               \/ wrapper' = [wrapper EXCEPT !.pending = TRUE] /\ TryAgain
     ELSE Phase("free") /\ UNCHANGED <<wrapper, tls, usb, device>>
  /\ UNCHANGED <<identity, op, taken>>

FreeContext ==
  /\ app.phase = "free"
  /\ \/ wrapper' = NoWrapper /\ Phase("release")
     \/ UNCHANGED wrapper /\ TryAgain
  /\ UNCHANGED <<identity, tls, usb, device, op, taken>>

\* pbns_usb_transport_destroy drops the line of a transport still open.
UsbDestroyed(u, d) ==
  {[device |-> c.device, usb |-> [NoUsb EXCEPT !.lost = c.usb.lost]] :
     c \in UsbClose(u, d)}

\* What the TLS transport refers to is freed only once it is gone.
freed_regardless == TRUE

Unreferenced == ~wrapper.active

Release ==
  /\ app.phase = "release"
  /\ IF Unreferenced
     THEN /\ \E c \in UsbDestroyed(usb, device) :
               usb' = c.usb /\ device' = c.device
          /\ identity' = FALSE
     ELSE UNCHANGED <<usb, device, identity>>
  /\ Phase("done")
  /\ UNCHANGED <<wrapper, tls, op, taken>>

\* Another program is started, in memory of its own.
NextProgram ==
  /\ app.phase = "done" /\ app.runs < MaxRuns
  /\ app' = [phase |-> "start", tries |-> 0, calls |-> 0, runs |-> app.runs + 1]
  /\ identity' = FALSE /\ wrapper' = NoWrapper /\ tls' = NoTls
  /\ usb' = [NoUsb EXCEPT !.lost = usb.lost]
  /\ taken' = <<>>
  /\ UNCHANGED <<device, op>>

Next == \/ Unplug
        \/ \E c \in {"open", "send", "receive", "close", "cancel"} : Call(c)
        \/ Refuse \/ ClockFails \/ OpenLower \/ Configure \/ ConfigureFails
        \/ BeginSend \/ BeginReceive \/ BeginClose
        \/ Write \/ \E room \in 1 .. Packet : Read(room)
        \/ TransferFails \/ LoseUnits \/ Stall \/ Broken \/ TimesOut
        \/ RefuseRecord \/ RefuseCertificate \/ RefuseHandshake
        \/ Handshaken \/ Transferred \/ Close \/ Cancel
        \/ OpenIdentity \/ OpenIdentityFails \/ CreateUsb \/ EnumerationFails
        \/ CreateTls \/ CreateTlsFails \/ Finish \/ Cleanup
        \/ RetryPending \/ DestroyInner \/ FreeContext \/ Release
        \/ NextProgram

Spec == Init /\ [][Next]_vars

-----------------------------------------------------------------------------
(***************************************************************************)
(* What a TLS session is given is a stretch of one tunnel without a gap,   *)
(* and from its first unit once the session is ready: no unit staged by    *)
(* the USB transport before a close, a port reset or a failed transfer     *)
(* reaches it, and a transfer that loses units ends the session.           *)
(***************************************************************************)
BytesInOrder ==
  /\ \A i \in DOMAIN taken :
       taken[i] = <<taken[1][1], taken[1][2] + i - 1>>
  /\ tls.state = "ready" => taken[1][2] = 1

(***************************************************************************)
(* A call leaves nothing to the next.  The deadline in force is that of    *)
(* the call in progress: begin_deadline silently keeps one that is active, *)
(* so one left behind by an early return would cut a later call short or   *)
(* let it run on.  Between calls the line to the Pico is up only for an    *)
(* open transport: otherwise the Pico would go on serving a session the    *)
(* host has forgotten.  The one exception is a control transfer and a port *)
(* reset that both failed.                                                 *)
(***************************************************************************)
CallsLeaveNothing ==
  /\ tls.deadline # 0 => tls.deadline = op.id
  /\ op = NoCall /\ device.line => usb.lost \/ (usb.exists /\ usb.open)

(***************************************************************************)
(* While the owner of the TLS transport is active, what it calls into (the *)
(* USB transport, and the identity its random source draws on) exists; and *)
(* a program that leaves without an owner leaves neither of them.          *)
(***************************************************************************)
UsersOutlived ==
  /\ wrapper.active => usb.exists /\ identity
  /\ app.phase = "done" /\ ~wrapper.active => ~usb.exists /\ ~identity
=============================================================================
