--------------------------- MODULE HostLinkProofs ---------------------------
(***************************************************************************)
(* HostLink for every number of calls, programs, units, packet sizes and   *)
(* attempts: the bytes a TLS session is given are one tunnel's and in      *)
(* order, a transport call leaves no deadline and no line behind, and what *)
(* the TLS transport calls into outlives it.                               *)
(*                                                                         *)
(* The first needs the whole pipeline: what the session has been given,    *)
(* then what the USB transport has staged, then what the Pico sends next   *)
(* are consecutive units of one tunnel, until a transfer fails; and from   *)
(* there the only way on ends the session.                                 *)
(***************************************************************************)
EXTENDS HostLink, TLAPS

Calls == {"open", "send", "receive", "close", "cancel"}
Phases == {"start", "usb", "tls", "running", "cleanup", "retry", "inner", "free", "release", "done"}

(* The steps a call goes through once it has begun its deadline.           *)
Ongoing == {"configure", "write", "read", "check", "broken", "reset"}

Apps == [phase : Phases, tries : Nat, calls : Nat, runs : Nat]
Wrappers == [active : BOOLEAN, pending : BOOLEAN]
Sessions == [exists : BOOLEAN, state : {"created", "opening", "ready"}, lowerOpen : BOOLEAN,
             keys : BOOLEAN, deadline : Nat]
Unit == Nat \X Nat
Ports == [exists : BOOLEAN, open : BOOLEAN, staged : Seq(Unit), lost : BOOLEAN]
Devices == [line : BOOLEAN, tunnel : Nat, next : Nat \ {0}]
Ops == {NoCall} \cup [call : Calls, step : {"begin"} \cup Ongoing, id : Nat]

TypeInv ==
  /\ app \in Apps /\ identity \in BOOLEAN /\ wrapper \in Wrappers
  /\ tls \in Sessions /\ usb \in Ports /\ device \in Devices
  /\ op \in Ops /\ taken \in Seq(Unit)

(* What exists in each phase of the program.                               *)
PhaseInv ==
  /\ app.phase = "start" => ~ identity
  /\ app.phase = "usb" => identity
  /\ app.phase \in {"start", "usb"} => ~ usb.exists
  /\ app.phase \in {"start", "usb", "tls"} => ~ wrapper.active
  /\ app.phase \in {"tls", "running"} => usb.exists /\ identity
  /\ app.phase = "running" => wrapper.active /\ tls.exists
  /\ app.phase \in {"retry", "inner", "free"} => wrapper.active
  /\ wrapper.active => usb.exists /\ identity
  /\ wrapper.pending => ~ tls.exists
  /\ tls.exists => app.phase \in {"running", "cleanup", "retry", "inner"} /\ wrapper.active
  /\ app.phase = "done" /\ ~ wrapper.active => ~ usb.exists /\ ~ identity
  /\ op # NoCall => app.phase = "running"
  /\ app.phase \in {"start", "usb", "tls"} => taken = <<>>

(* A call in progress, and the state of the TLS transport it needs.        *)
CallInv ==
  /\ op.step \in Ongoing => tls.lowerOpen
  /\ op.step \in Ongoing /\ op.call = "open" => tls.state = "opening"
  /\ op.step \in Ongoing /\ op.call # "open" => tls.state = "ready"
  /\ op.step = "write" => op.call \in {"open", "send", "close"}
  /\ op.step \notin Ongoing => tls.state # "opening" /\ tls.deadline = 0
  /\ tls.deadline # 0 => tls.deadline = op.id

(* The two transports agree on what is open; a transport that does not     *)
(* exist, or is closed, holds nothing.                                     *)
LayerInv ==
  /\ tls.lowerOpen <=> tls.state # "created"
  /\ usb.open <=> tls.lowerOpen
  /\ ~ tls.exists => ~ tls.lowerOpen
  /\ tls.exists /\ ~ tls.lowerOpen => taken = <<>>
  /\ ~ usb.open => usb.staged = <<>>
  /\ device.line => usb.lost \/ usb.open

(* The units of s are those of tunnel t from the n-th on.                  *)
Consecutive(s, t, n) == \A i \in 1 .. Len(s) : s[i] = <<t, n + i - 1>>

Live == device.line /\ tls.lowerOpen /\ op.step # "broken"

StreamInv ==
  \E t \in Nat, n \in Nat \ {0} :
    /\ Consecutive(taken, t, n)
    /\ Consecutive(usb.staged, t, n + Len(taken))
    /\ Live => device.tunnel = t /\ device.next = n + Len(taken) + Len(usb.staged)

FirstInv ==
  /\ tls.state = "ready" => taken # <<>> /\ taken[1][2] = 1
  /\ At("open", "check") => taken # <<>>

LinkInv == TypeInv /\ PhaseInv /\ CallInv /\ LayerInv /\ StreamInv /\ FirstInv
-----------------------------------------------------------------------------
(* The device and the USB transport, as values.                            *)
LEMMA LineMoves ==
  ASSUME NEW d \in Devices
  PROVE  /\ LineUp(d) \in Devices
         /\ LineDown(d) \in Devices /\ ~ LineDown(d).line
         /\ LineDown(d).tunnel = d.tunnel /\ LineDown(d).next = d.next
<1>1. LineUp(d) \in Devices
  <2>1. d.tunnel + 1 \in Nat
    BY DEF Devices
  <2> QED
    BY <2>1 DEF LineUp, Devices
<1>2. LineDown(d) \in Devices /\ LineDown(d).line = FALSE
      /\ LineDown(d).tunnel = d.tunnel /\ LineDown(d).next = d.next
  BY DEF LineDown, Devices
<1> QED
  BY <1>1, <1>2

LEMMA PortResetResult ==
  ASSUME NEW d \in Devices, NEW r \in PortReset(d)
  PROVE  /\ r.device \in Devices /\ r.ok \in BOOLEAN /\ (r.ok => ~ r.device.line)
         /\ r.device = d \/ ~ r.device.line
<1>1. \/ r.ok = TRUE /\ r.device = LineDown(d)
      \/ r.ok = FALSE /\ r.device = d
  BY DEF PortReset
<1> QED
  BY <1>1, LineMoves

LEMMA SetConnectedResult ==
  ASSUME NEW d \in Devices, NEW up \in BOOLEAN, NEW s \in SetConnected(d, up)
  PROVE  /\ s.device \in Devices /\ s.ok \in BOOLEAN /\ (s.ok /\ ~ up => ~ s.device.line)
<1>1. PICK moved \in Devices : moved = (IF up THEN LineUp(d) ELSE LineDown(d)) /\ (~ up => ~ moved.line)
  BY LineMoves
<1>2. \/ s = [ok |-> TRUE, device |-> moved]
      \/ s = [ok |-> FALSE, device |-> moved]
      \/ s = [ok |-> FALSE, device |-> d]
  BY <1>1 DEF SetConnected
<1>3. CASE s = [ok |-> TRUE, device |-> moved]
  BY <1>1, <1>3
<1>4. CASE s = [ok |-> FALSE, device |-> moved]
  BY <1>1, <1>4
<1>5. CASE s = [ok |-> FALSE, device |-> d]
  BY <1>5
<1> QED
  BY <1>2, <1>3, <1>4, <1>5

(* After the two transfers the line is down, or wanted up, or lost.        *)
LEMMA ConnectResult ==
  ASSUME NEW d \in Devices, NEW up \in BOOLEAN, NEW c \in Connect(d, up)
  PROVE  /\ c.device \in Devices /\ c.ok \in BOOLEAN /\ c.lost \in BOOLEAN
         /\ c.device.line => c.lost \/ (up /\ c.ok)
<1>1. CASE \E s \in SetConnected(d, up) : s.ok /\ c = [ok |-> TRUE, device |-> s.device, lost |-> FALSE]
  <2>1. PICK s \in SetConnected(d, up) : s.ok /\ c = [ok |-> TRUE, device |-> s.device, lost |-> FALSE]
    BY <1>1
  <2> QED
    BY <2>1, SetConnectedResult
<1>2. CASE \E s \in SetConnected(d, up) : \E r \in PortReset(s.device) :
             c = [ok |-> FALSE, device |-> r.device, lost |-> ~ r.ok]
  <2>1. PICK s \in SetConnected(d, up) : \E r \in PortReset(s.device) :
               c = [ok |-> FALSE, device |-> r.device, lost |-> ~ r.ok]
    BY <1>2
  <2>2. PICK r \in PortReset(s.device) : c = [ok |-> FALSE, device |-> r.device, lost |-> ~ r.ok]
    BY <2>1
  <2>3. s.device \in Devices
    BY SetConnectedResult
  <2> QED
    BY <2>2, <2>3, PortResetResult
<1> QED
  BY <1>1, <1>2 DEF Connect

LEMMA Cleared ==
  ASSUME NEW u \in Ports
  PROVE  /\ ClearStaging(u) \in Ports /\ ClearStaging(u).staged = <<>>
         /\ ClearStaging(u).open = u.open /\ ClearStaging(u).exists = u.exists /\ ClearStaging(u).lost = u.lost
<1>1. ClearStaging(u) = [exists |-> u.exists, open |-> u.open, staged |-> <<>>, lost |-> u.lost]
  BY DEF ClearStaging, Ports
<1>2. u.exists \in BOOLEAN /\ u.open \in BOOLEAN /\ u.lost \in BOOLEAN
  BY DEF Ports
<1> QED
  BY <1>1, <1>2 DEF Ports

(* A closed transport stages nothing, and the line is down or lost.        *)
LEMMA UsbCloseResult ==
  ASSUME NEW u \in Ports, NEW d \in Devices, NEW c \in UsbClose(u, d), d.line => u.lost \/ u.open
  PROVE  /\ c.usb \in Ports /\ c.device \in Devices
         /\ ~ c.usb.open /\ c.usb.staged = <<>> /\ c.usb.exists = u.exists
         /\ c.device.line => c.usb.lost
<1>1. CASE u.open
  <2>1. PICK k \in Connect(d, FALSE) :
          c = [device |-> k.device, usb |-> [ClearStaging(u) EXCEPT !.open = FALSE, !.lost = k.lost]]
    BY <1>1 DEF UsbClose
  <2>2. /\ k.device \in Devices /\ k.lost \in BOOLEAN
        /\ k.device.line => k.lost
    BY <2>1, ConnectResult
  <2> DEFINE v == [ClearStaging(u) EXCEPT !.open = FALSE, !.lost = k.lost]
  <2>3. v \in Ports /\ ~ v.open /\ v.staged = <<>> /\ v.exists = u.exists /\ v.lost = k.lost
    BY <2>2, Cleared DEF Ports
  <2> HIDE DEF v
  <2>4. c.usb = v /\ c.device = k.device
    BY <2>1 DEF v
  <2> QED
    BY <2>2, <2>3, <2>4
<1>2. CASE ~ u.open
  <2>1. c = [device |-> d, usb |-> ClearStaging(u)]
    BY <1>2 DEF UsbClose
  <2> QED
    BY <1>2, <2>1, Cleared
<1>3. u.open \in BOOLEAN
  BY DEF Ports
<1> QED
  BY <1>1, <1>2, <1>3

LEMMA UsbOpenResult ==
  ASSUME NEW u \in Ports, NEW d \in Devices, NEW o \in UsbOpen(u, d)
  PROVE  /\ o.usb \in Ports /\ o.device \in Devices /\ o.ok \in BOOLEAN /\ o.usb.exists = u.exists
         /\ o.ok => o.usb.open /\ o.usb.staged = <<>>
         /\ ~ o.ok => o.usb.open = u.open /\ o.usb.staged = u.staged /\ (o.device.line => o.usb.lost)
<1>1. PICK k \in Connect(d, TRUE) :
        o = [ok |-> k.ok, device |-> k.device,
             usb |-> IF k.ok THEN [ClearStaging(u) EXCEPT !.open = TRUE, !.lost = FALSE]
                             ELSE [u EXCEPT !.lost = k.lost]]
  BY DEF UsbOpen
<1>2. /\ k.device \in Devices /\ k.ok \in BOOLEAN /\ k.lost \in BOOLEAN
      /\ k.device.line => k.lost \/ k.ok
  BY <1>1, ConnectResult
<1>3. CASE k.ok
  <2> DEFINE v == [ClearStaging(u) EXCEPT !.open = TRUE, !.lost = FALSE]
  <2>1. v \in Ports /\ v.open /\ v.staged = <<>> /\ v.exists = u.exists
    BY Cleared DEF Ports
  <2> HIDE DEF v
  <2>2. o.usb = v /\ o.device = k.device /\ o.ok
    BY <1>1, <1>3 DEF v
  <2> QED
    BY <1>2, <2>1, <2>2
<1>4. CASE ~ k.ok
  <2> DEFINE v == [u EXCEPT !.lost = k.lost]
  <2>1. v \in Ports /\ v.open = u.open /\ v.staged = u.staged /\ v.exists = u.exists /\ v.lost = k.lost
    BY <1>2 DEF Ports
  <2> HIDE DEF v
  <2>2. o.usb = v /\ o.device = k.device /\ o.ok = FALSE
    BY <1>1, <1>2, <1>4 DEF v
  <2>3. o.device.line => o.usb.lost
    BY <1>2, <1>4, <2>1, <2>2
  <2> QED
    BY <1>2, <2>1, <2>2, <2>3
<1> QED
  BY <1>2, <1>3, <1>4

(* Stretches of consecutive units.                                         *)
LEMMA Joined ==
  ASSUME NEW a \in Seq(Unit), NEW b \in Seq(Unit), NEW t \in Nat, NEW n \in Nat,
         Consecutive(a, t, n), Consecutive(b, t, n + Len(a))
  PROVE  /\ a \o b \in Seq(Unit) /\ Len(a \o b) = Len(a) + Len(b)
         /\ Consecutive(a \o b, t, n)
         /\ a # <<>> => (a \o b)[1] = a[1]
<1>1. a \o b \in Seq(Unit) /\ Len(a \o b) = Len(a) + Len(b)
  OBVIOUS
<1>2. \A i \in 1 .. Len(a) + Len(b) : (a \o b)[i] = IF i <= Len(a) THEN a[i] ELSE b[i - Len(a)]
  OBVIOUS
<1>3. Consecutive(a \o b, t, n)
  BY <1>1, <1>2 DEF Consecutive
<1>4. a # <<>> => (a \o b)[1] = a[1]
  BY <1>2
<1> QED
  BY <1>1, <1>3, <1>4

LEMMA Taken ==
  ASSUME NEW s \in Seq(Unit), NEW t \in Nat, NEW n \in Nat, Consecutive(s, t, n), NEW k \in 0 .. Len(s)
  PROVE  /\ SubSeq(s, 1, k) \in Seq(Unit) /\ Len(SubSeq(s, 1, k)) = k /\ Consecutive(SubSeq(s, 1, k), t, n)
         /\ SubSeq(s, k + 1, Len(s)) \in Seq(Unit) /\ Len(SubSeq(s, k + 1, Len(s))) = Len(s) - k
         /\ Consecutive(SubSeq(s, k + 1, Len(s)), t, n + k)
<1>1. /\ SubSeq(s, 1, k) \in Seq(Unit) /\ Len(SubSeq(s, 1, k)) = k
      /\ \A i \in 1 .. k : SubSeq(s, 1, k)[i] = s[i]
  OBVIOUS
<1>2. /\ SubSeq(s, k + 1, Len(s)) \in Seq(Unit) /\ Len(SubSeq(s, k + 1, Len(s))) = Len(s) - k
      /\ \A i \in 1 .. Len(s) - k : SubSeq(s, k + 1, Len(s))[i] = s[k + i]
  OBVIOUS
<1> QED
  BY <1>1, <1>2, SMTT(30) DEF Consecutive

(* What a receive takes, and what it leaves, of n units that are there.    *)
LEMMA StagingSplit ==
  ASSUME NEW s \in Seq(Unit), s # <<>>, NEW room \in Nat \ {0}, NEW t \in Nat, NEW n \in Nat, Consecutive(s, t, n)
  PROVE  LET f == FromStaging(s, room) IN
         /\ f.given \in Seq(Unit) /\ f.given # <<>> /\ Consecutive(f.given, t, n)
         /\ f.left \in Seq(Unit) /\ Consecutive(f.left, t, n + Len(f.given))
         /\ Len(f.given) + Len(f.left) = Len(s)
<1> DEFINE k == Min({room, Len(s)})
<1>1. Len(s) \in Nat /\ Len(s) # 0
  OBVIOUS
<1>2. k \in 1 .. Len(s)
  <2>1. \E x \in {room, Len(s)} : \A y \in {room, Len(s)} : x <= y
    BY <1>1
  <2>2. k \in {room, Len(s)} /\ \A y \in {room, Len(s)} : k <= y
    BY <2>1 DEF Min
  <2> QED
    BY <1>1, <2>2
<1>3. FromStaging(s, room).given = SubSeq(s, 1, k) /\ FromStaging(s, room).left = SubSeq(s, k + 1, Len(s))
  BY DEF FromStaging
<1> HIDE DEF k
<1>4. k \in 0 .. Len(s) /\ k # 0
  BY <1>1, <1>2
<1>5. /\ SubSeq(s, 1, k) \in Seq(Unit) /\ Len(SubSeq(s, 1, k)) = k /\ Consecutive(SubSeq(s, 1, k), t, n)
      /\ SubSeq(s, k + 1, Len(s)) \in Seq(Unit) /\ Len(SubSeq(s, k + 1, Len(s))) = Len(s) - k
      /\ Consecutive(SubSeq(s, k + 1, Len(s)), t, n + k)
  BY <1>4, Taken
<1>6. SubSeq(s, 1, k) # <<>>
  BY <1>4, <1>5
<1>7. k + (Len(s) - k) = Len(s)
  BY <1>1, <1>4
<1> QED
  BY <1>3, <1>5, <1>6, <1>7
-----------------------------------------------------------------------------
(* The records the actions update, written out.                            *)
LEMMA OpFacts ==
  ASSUME TypeInv
  PROVE  /\ op.step \in {"none", "begin"} \cup Ongoing /\ op.id \in Nat
         /\ (op = NoCall <=> op.step = "none")
         /\ op # NoCall => op.call \in Calls
<1>1. CASE op = NoCall
  BY <1>1 DEF NoCall
<1>2. CASE op \in [call : Calls, step : {"begin"} \cup Ongoing, id : Nat]
  <2>1. op.step \in {"begin"} \cup Ongoing /\ op.id \in Nat /\ op.call \in Calls
    BY <1>2
  <2>2. op.step # "none"
    BY <2>1 DEF Ongoing
  <2> QED
    BY <2>1, <2>2 DEF NoCall
<1> QED
  BY <1>1, <1>2 DEF TypeInv, Ops

LEMMA StepResult ==
  ASSUME TypeInv, op # NoCall, NEW s \in {"begin"} \cup Ongoing, Step(s)
  PROVE  op' \in Ops /\ op' # NoCall /\ op'.step = s /\ op'.call = op.call /\ op'.id = op.id
<1>1. op \in [call : Calls, step : {"begin"} \cup Ongoing, id : Nat]
  BY DEF TypeInv, Ops
<1>2. op' = [call |-> op.call, step |-> s, id |-> op.id]
  BY <1>1 DEF Step
<1>3. op' \in Ops /\ op'.step = s /\ op'.call = op.call /\ op'.id = op.id
  BY <1>1, <1>2 DEF Ops
<1>4. s # "none"
  BY DEF Ongoing
<1> QED
  BY <1>3, <1>4 DEF NoCall

LEMMA PhaseResult ==
  ASSUME NEW a \in Apps, NEW p \in Phases, NEW n \in Nat
  PROVE  /\ [a EXCEPT !.phase = p] \in Apps /\ [a EXCEPT !.phase = p].phase = p
         /\ [a EXCEPT !.tries = n, !.phase = p] \in Apps /\ [a EXCEPT !.tries = n, !.phase = p].phase = p
BY DEF Apps

LEMMA TriedAgain ==
  ASSUME TypeInv, TryAgain
  PROVE  app' \in Apps /\ app'.phase \in {"retry", "release"}
<1>1. app \in Apps /\ app.tries + 1 \in Nat
  BY DEF TypeInv, Apps
<1>2. PICK p \in {"retry", "release"} : app' = [app EXCEPT !.tries = app.tries + 1, !.phase = p]
  BY DEF TryAgain
<1>3. p \in Phases
  BY DEF Phases
<1> DEFINE a == [app EXCEPT !.tries = app.tries + 1, !.phase = p]
<1>4. a \in Apps /\ a.phase = p
  BY <1>1, <1>3 DEF Apps
<1> HIDE DEF a
<1>5. app' = a
  BY <1>2 DEF a
<1> QED
  BY <1>4, <1>5

LEMMA SessionShape ==
  ASSUME NEW t \in Sessions
  PROVE  /\ EndDeadline(t) \in Sessions /\ EndDeadline(t).deadline = 0
         /\ EndDeadline(t).exists = t.exists /\ EndDeadline(t).state = t.state
         /\ EndDeadline(t).lowerOpen = t.lowerOpen
BY DEF EndDeadline, Sessions

LEMMA ForgottenShape ==
  ASSUME NEW t \in Sessions
  PROVE  /\ Forgotten(t) \in Sessions /\ Forgotten(t).exists = t.exists /\ Forgotten(t).state = "created"
         /\ Forgotten(t).lowerOpen = FALSE /\ Forgotten(t).deadline = 0
<1>1. PICK e \in Sessions : e = EndDeadline(t) /\ e.exists = t.exists /\ e.deadline = 0
  BY SessionShape
<1> DEFINE v == [e EXCEPT !.lowerOpen = FALSE, !.keys = FALSE, !.state = "created"]
<1>2. v \in Sessions /\ v.exists = e.exists /\ v.state = "created" /\ v.lowerOpen = FALSE /\ v.deadline = e.deadline
  BY DEF Sessions
<1>3. Forgotten(t) = v
  BY <1>1, Zenon DEF Forgotten
<1> HIDE DEF v
<1> QED
  BY <1>1, <1>2, <1>3

(* The deadline of a call that has none yet is its own.                    *)
LEMMA BegunShape ==
  ASSUME TypeInv, tls.deadline = 0
  PROVE  BeginDeadline(tls) = [exists |-> tls.exists, state |-> tls.state, lowerOpen |-> tls.lowerOpen,
                               keys |-> tls.keys, deadline |-> op.id]
BY DEF TypeInv, BeginDeadline, Sessions

LEMMA Empty ==
  /\ <<>> \in Seq(Unit) /\ Len(<<>>) = 0
  /\ \A t \in Nat, n \in Nat : Consecutive(<<>>, t, n)
BY DEF Consecutive

(* Nothing taken, nothing staged: any tunnel will do, the current one too. *)
LEMMA StreamEmpty ==
  ASSUME taken' = <<>>, usb'.staged = <<>>, device' \in Devices
  PROVE  StreamInv'
<1>1. device'.tunnel \in Nat /\ device'.next \in Nat \ {0}
  BY DEF Devices
<1>2. device'.next = device'.next + 0 + 0
  BY <1>1
<1>3. /\ Consecutive(taken', device'.tunnel, device'.next)
      /\ Consecutive(usb'.staged, device'.tunnel, device'.next + Len(taken'))
  BY <1>1, Empty DEF Consecutive
<1>4. device'.next = device'.next + Len(taken') + Len(usb'.staged)
  BY <1>2, Empty
<1> QED
  BY <1>1, <1>3, <1>4 DEF StreamInv

(* The stream is as it was, and no more live.                              *)
LEMMA StreamKept ==
  ASSUME StreamInv, UNCHANGED taken, usb'.staged = usb.staged,
         Live' => Live /\ device'.tunnel = device.tunnel /\ device'.next = device.next
  PROVE  StreamInv'
BY DEF StreamInv

LEMMA LinkInit ==
  ASSUME Init
  PROVE  LinkInv
<1>1. TypeInv
  <2>1. app \in Apps
    BY DEF Init, Apps, Phases
  <2>2. identity \in BOOLEAN /\ wrapper \in Wrappers /\ tls \in Sessions
    BY DEF Init, NoWrapper, Wrappers, NoTls, Sessions
  <2>3. usb \in Ports /\ device \in Devices /\ op \in Ops /\ taken \in Seq(Unit)
    BY Empty DEF Init, NoUsb, Ports, Devices, Ops
  <2> QED
    BY <2>1, <2>2, <2>3 DEF TypeInv
<1>2. PhaseInv
  BY DEF Init, PhaseInv, NoWrapper, NoTls, NoUsb
<1>3. CallInv /\ LayerInv /\ FirstInv
  BY DEF Init, CallInv, LayerInv, FirstInv, NoCall, NoTls, NoUsb, At, Ongoing
<1>4. StreamInv
  <2>1. Consecutive(taken, 0, 1) /\ Consecutive(usb.staged, 0, 1 + Len(taken)) /\ ~ Live
    BY Empty DEF Init, NoUsb, Live, NoTls
  <2>2. 0 \in Nat /\ 1 \in Nat \ {0}
    OBVIOUS
  <2> QED
    BY <2>1, <2>2, Zenon DEF StreamInv
<1> QED
  BY <1>1, <1>2, <1>3, <1>4 DEF LinkInv

(* A failed session is forgotten, its USB transport closed, and nothing of *)
(* what was staged or taken is left.                                       *)
LEMMA FailSessionKeeps ==
  ASSUME LinkInv, op # NoCall, FailSession
  PROVE  LinkInv'
<1>1. /\ tls \in Sessions /\ usb \in Ports /\ device \in Devices
      /\ UNCHANGED <<app, identity, wrapper>> /\ taken' = <<>> /\ op' = NoCall
  BY DEF LinkInv, TypeInv, FailSession, Return
<1>2. /\ tls' \in Sessions /\ tls'.exists = tls.exists /\ tls'.state = "created"
      /\ tls'.lowerOpen = FALSE /\ tls'.deadline = 0
  <2>1. tls' = Forgotten(tls)
    BY DEF FailSession, ResetSession
  <2> QED
    BY <1>1, <2>1, ForgottenShape
<1>3. /\ usb' \in Ports /\ device' \in Devices
      /\ ~ usb'.open /\ usb'.staged = <<>> /\ usb'.exists = usb.exists
      /\ device'.line => usb'.lost
  <2>1. CASE tls.lowerOpen
    <3>1. PICK c \in UsbClose(usb, device) : usb' = c.usb /\ device' = c.device
      BY <2>1 DEF FailSession, ResetSession
    <3>2. device.line => usb.lost \/ usb.open
      BY DEF LinkInv, LayerInv
    <3> QED
      BY <1>1, <3>1, <3>2, UsbCloseResult
  <2>2. CASE ~ tls.lowerOpen
    <3>1. usb' = usb /\ device' = device
      BY <2>2 DEF FailSession, ResetSession
    <3> QED
      BY <1>1, <2>2, <3>1 DEF LinkInv, LayerInv
  <2> QED
    BY <2>1, <2>2
<1>4. TypeInv'
  BY <1>1, <1>2, <1>3, Empty DEF LinkInv, TypeInv, Ops
<1>5. PhaseInv'
  BY <1>1, <1>2, <1>3 DEF LinkInv, PhaseInv
<1>6. CallInv'
  BY <1>1, <1>2 DEF CallInv, NoCall, Ongoing
<1>7. LayerInv'
  BY <1>1, <1>2, <1>3 DEF LayerInv
<1>8. StreamInv'
  BY <1>1, <1>3, StreamEmpty
<1>9. FirstInv'
  BY <1>1, <1>2 DEF FirstInv, At, NoCall
<1> QED
  BY <1>4, <1>5, <1>6, <1>7, <1>8, <1>9 DEF LinkInv

-----------------------------------------------------------------------------
(* The steps of a call.                                                    *)
LEMMA UnplugKeeps ==
  ASSUME LinkInv, Unplug
  PROVE  LinkInv'
<1>1. /\ device' \in Devices /\ ~ device'.line
      /\ UNCHANGED <<app, identity, wrapper, tls, usb, op, taken>>
  BY LineMoves DEF LinkInv, TypeInv, Unplug
<1>2. TypeInv' /\ PhaseInv' /\ CallInv' /\ FirstInv'
  BY <1>1 DEF LinkInv, TypeInv, PhaseInv, CallInv, FirstInv, At
<1>3. LayerInv'
  BY <1>1 DEF LinkInv, LayerInv
<1>4. StreamInv'
  BY <1>1, StreamKept DEF LinkInv, Live
<1> QED
  BY <1>2, <1>3, <1>4 DEF LinkInv

(* A step that changes the call and nothing of the transports.             *)
LEMMA TransportsKept ==
  ASSUME LinkInv, UNCHANGED <<tls, usb, device, taken>>, op'.step # "broken", op.step # "broken"
  PROVE  LayerInv' /\ StreamInv' /\ (tls.state = "ready" => taken # <<>> /\ taken[1][2] = 1)'
<1>1. LayerInv' /\ (tls.state = "ready" => taken # <<>> /\ taken[1][2] = 1)'
  BY DEF LinkInv, LayerInv, FirstInv
<1>2. StreamInv'
  BY StreamKept DEF LinkInv, Live
<1> QED
  BY <1>1, <1>2

LEMMA CallKeeps ==
  ASSUME LinkInv, NEW c \in Calls, Call(c)
  PROVE  LinkInv'
<1>1. /\ op = NoCall /\ app.phase = "running" /\ app \in Apps
      /\ UNCHANGED <<identity, wrapper, tls, usb, device, taken>>
  BY DEF LinkInv, TypeInv, Call
<1>2. app' \in Apps /\ app'.phase = app.phase
  BY <1>1 DEF Call, Apps
<1>3. op' = [call |-> c, step |-> "begin", id |-> app.calls + 1] /\ app.calls + 1 \in Nat
  BY <1>1 DEF Call, Apps
<1>4. op' \in Ops /\ op'.step = "begin"
  BY <1>3 DEF Ops
<1>5. TypeInv'
  BY <1>1, <1>2, <1>4 DEF LinkInv, TypeInv
<1>6. PhaseInv'
  BY <1>1, <1>2 DEF LinkInv, PhaseInv
<1>7. CallInv'
  BY <1>1, <1>4 DEF LinkInv, CallInv, NoCall, Ongoing
<1>8. op.step = "none"
  BY <1>1 DEF NoCall
<1>9. LayerInv' /\ StreamInv' /\ FirstInv'
  BY <1>1, <1>4, <1>8, TransportsKept DEF FirstInv, At
<1> QED
  BY <1>5, <1>6, <1>7, <1>9 DEF LinkInv

LEMMA RefuseKeeps ==
  ASSUME LinkInv, Refuse
  PROVE  LinkInv'
<1>1. /\ op.step = "begin" /\ op' = NoCall /\ op'.step = "none"
      /\ UNCHANGED <<app, identity, wrapper, tls, usb, device, taken>>
  BY DEF Refuse, Return, NoCall
<1>2. TypeInv' /\ PhaseInv'
  BY <1>1 DEF LinkInv, TypeInv, PhaseInv, Ops
<1>3. CallInv'
  BY <1>1 DEF LinkInv, CallInv, Ongoing
<1>4. LayerInv' /\ StreamInv' /\ FirstInv'
  BY <1>1, TransportsKept DEF FirstInv, At
<1> QED
  BY <1>2, <1>3, <1>4 DEF LinkInv

LEMMA WriteKeeps ==
  ASSUME LinkInv, Write
  PROVE  LinkInv'
<1>1. /\ op.step = "write" /\ op # NoCall /\ UNCHANGED <<app, identity, wrapper, tls, usb, device, taken>>
  BY DEF Write, NoCall
<1>2. op.call \in {"open", "send", "close"}
  BY <1>1 DEF LinkInv, CallInv
<1>3. PICK s \in {"read", "check", "reset"} : Step(s) /\ (op.call = "open" => s = "read")
  <2>1. CASE op.call = "open"
    BY <2>1 DEF Write
  <2>2. CASE op.call = "send"
    BY <2>2 DEF Write
  <2>3. CASE op.call = "close"
    BY <2>3 DEF Write
  <2> QED
    BY <1>2, <2>1, <2>2, <2>3
<1>4. s \in {"begin"} \cup Ongoing /\ s \in Ongoing
  BY DEF Ongoing
<1>5. op' \in Ops /\ op' # NoCall /\ op'.step = s /\ op'.call = op.call /\ op'.id = op.id
  BY <1>1, <1>3, <1>4, StepResult DEF LinkInv
<1>6. TypeInv' /\ PhaseInv'
  BY <1>1, <1>5 DEF LinkInv, TypeInv, PhaseInv
<1>7. op.step \in Ongoing
  BY <1>1 DEF Ongoing
<1>8. CallInv'
  BY <1>1, <1>4, <1>5, <1>7 DEF LinkInv, CallInv
<1>9. LayerInv' /\ StreamInv' /\ FirstInv'
  BY <1>1, <1>3, <1>5, TransportsKept DEF FirstInv, At
<1> QED
  BY <1>6, <1>8, <1>9 DEF LinkInv

(* A step that changes the TLS transport's keys, state or deadline.        *)
LEMMA SessionStep ==
  ASSUME LinkInv, op # NoCall, op' \in Ops, op.step # "broken", op'.step # "broken",
         tls' \in Sessions, tls'.exists = tls.exists, tls'.lowerOpen = tls.lowerOpen,
         (tls'.state = "created") <=> (tls.state = "created"),
         UNCHANGED <<app, identity, wrapper, usb, device, taken>>
  PROVE  TypeInv' /\ PhaseInv' /\ LayerInv' /\ StreamInv'
<1>1. TypeInv' /\ PhaseInv'
  BY DEF LinkInv, TypeInv, PhaseInv
<1>2. LayerInv'
  BY DEF LinkInv, LayerInv
<1>3. StreamInv'
  BY StreamKept DEF LinkInv, Live
<1> QED
  BY <1>1, <1>2, <1>3

LEMMA ConfigureKeeps ==
  ASSUME LinkInv, Configure
  PROVE  LinkInv'
<1>1. /\ op.step = "configure" /\ op.call = "open" /\ op # NoCall /\ op.step \in Ongoing
      /\ UNCHANGED <<app, identity, wrapper, usb, device, taken>>
  BY DEF Configure, At, NoCall, Ongoing
<1>2. /\ tls' \in Sessions /\ tls'.exists = tls.exists /\ tls'.lowerOpen = tls.lowerOpen
      /\ tls'.state = tls.state /\ tls'.deadline = tls.deadline
  BY DEF LinkInv, TypeInv, Configure, Sessions
<1>3. op' \in Ops /\ op'.step = "write" /\ op'.call = op.call /\ op'.id = op.id /\ op'.step \in Ongoing
  <2>1. Step("write") /\ "write" \in {"begin"} \cup Ongoing /\ "write" \in Ongoing
    BY DEF Configure, Ongoing
  <2> QED
    BY <1>1, <2>1, StepResult DEF LinkInv
<1>4. TypeInv' /\ PhaseInv' /\ LayerInv' /\ StreamInv'
  BY <1>1, <1>2, <1>3, SessionStep
<1>5. CallInv'
  BY <1>1, <1>2, <1>3 DEF LinkInv, CallInv
<1>6. FirstInv'
  BY <1>1, <1>2, <1>3 DEF LinkInv, FirstInv, At
<1> QED
  BY <1>4, <1>5, <1>6 DEF LinkInv

LEMMA BeginKeeps ==
  ASSUME LinkInv, NEW call \in {"send", "receive", "close"}, NEW step \in {"write", "read"},
         step = "write" => call # "receive", Begin(call, step)
  PROVE  LinkInv'
<1>1. /\ op.step = "begin" /\ op.call = call /\ op # NoCall /\ op.step \notin Ongoing /\ tls.state = "ready"
      /\ UNCHANGED <<app, identity, wrapper, usb, device, taken>>
  BY DEF Begin, At, NoCall, Ongoing
<1>2. tls.deadline = 0 /\ op.id \in Nat
  BY <1>1, OpFacts DEF LinkInv, CallInv
<1>3. /\ tls' \in Sessions /\ tls'.exists = tls.exists /\ tls'.lowerOpen = tls.lowerOpen
      /\ tls'.state = tls.state /\ tls'.deadline = op.id
  <2>1. tls' = [exists |-> tls.exists, state |-> tls.state, lowerOpen |-> tls.lowerOpen,
                keys |-> tls.keys, deadline |-> op.id]
    BY <1>2, BegunShape DEF LinkInv, Begin
  <2> QED
    BY <1>2, <2>1 DEF LinkInv, TypeInv, Sessions
<1>4. op' \in Ops /\ op'.step = step /\ op'.call = op.call /\ op'.id = op.id /\ op'.step \in Ongoing
  <2>1. Step(step) /\ step \in {"begin"} \cup Ongoing /\ step \in Ongoing
    BY DEF Begin, Ongoing
  <2> QED
    BY <1>1, <2>1, StepResult DEF LinkInv
<1>5. TypeInv' /\ PhaseInv' /\ LayerInv' /\ StreamInv'
  BY <1>1, <1>3, <1>4, SessionStep
<1>6. tls.lowerOpen
  BY <1>1 DEF LinkInv, LayerInv
<1>7. CallInv'
  BY <1>1, <1>3, <1>4, <1>6 DEF CallInv
<1>8. FirstInv'
  BY <1>1, <1>3, <1>4 DEF LinkInv, FirstInv, At
<1> QED
  BY <1>5, <1>7, <1>8 DEF LinkInv

(* A call that succeeds returns without a deadline, on a ready session.    *)
LEMMA ReturnReady ==
  ASSUME LinkInv, op.step = "check", op # NoCall, Return, NEW t \in Sessions,
         t.deadline = 0, t.exists = tls.exists, t.lowerOpen = tls.lowerOpen, t.state = "ready",
         tls' = t, taken # <<>>, taken[1][2] = 1,
         UNCHANGED <<app, identity, wrapper, usb, device, taken>>
  PROVE  LinkInv'
<1>1. op' \in Ops /\ op' = NoCall /\ op'.step = "none" /\ op.step \in Ongoing
  BY DEF Return, Ops, NoCall, Ongoing
<1>2. tls.state # "created"
  BY <1>1 DEF LinkInv, CallInv, LayerInv
<1>3. TypeInv' /\ PhaseInv' /\ LayerInv' /\ StreamInv'
  BY <1>1, <1>2, SessionStep
<1>4. CallInv'
  BY <1>1 DEF CallInv, Ongoing
<1>5. FirstInv'
  BY <1>1 DEF FirstInv, At
<1> QED
  BY <1>3, <1>4, <1>5 DEF LinkInv

LEMMA HandshakenKeeps ==
  ASSUME LinkInv, Handshaken
  PROVE  LinkInv'
<1>1. /\ op.step = "check" /\ op # NoCall /\ Return /\ taken # <<>> /\ taken[1][2] = 1
      /\ UNCHANGED <<app, identity, wrapper, usb, device, taken>>
  BY DEF Handshaken, At, NoCall, LinkInv, FirstInv
<1>2. PICK e \in Sessions : /\ e = EndDeadline(tls) /\ e.deadline = 0
                            /\ e.exists = tls.exists /\ e.lowerOpen = tls.lowerOpen
  BY SessionShape DEF LinkInv, TypeInv
<1> DEFINE t == [e EXCEPT !.state = "ready"]
<1>3. /\ t \in Sessions /\ t.deadline = 0 /\ t.exists = tls.exists
      /\ t.lowerOpen = tls.lowerOpen /\ t.state = "ready"
  BY <1>2 DEF Sessions
<1>4. tls' = t
  BY <1>2, Zenon DEF Handshaken
<1> HIDE DEF t
<1> QED
  BY <1>1, <1>3, <1>4, ReturnReady

LEMMA TransferredKeeps ==
  ASSUME LinkInv, Transferred
  PROVE  LinkInv'
<1>1. /\ op.step = "check" /\ op # NoCall /\ Return /\ op.call # "open" /\ op.step \in Ongoing
      /\ tls' = EndDeadline(tls) /\ UNCHANGED <<app, identity, wrapper, usb, device, taken>>
  BY DEF Transferred, NoCall, Ongoing
<1>2. tls.state = "ready"
  BY <1>1 DEF LinkInv, CallInv
<1>3. taken # <<>> /\ taken[1][2] = 1
  BY <1>2 DEF LinkInv, FirstInv
<1>4. /\ EndDeadline(tls) \in Sessions /\ EndDeadline(tls).deadline = 0
      /\ EndDeadline(tls).exists = tls.exists /\ EndDeadline(tls).lowerOpen = tls.lowerOpen
      /\ EndDeadline(tls).state = "ready"
  BY <1>2, SessionShape DEF LinkInv, TypeInv
<1> QED
  BY <1>1, <1>3, <1>4, ReturnReady


LEMMA OpenLowerKeeps ==
  ASSUME LinkInv, OpenLower
  PROVE  LinkInv'
<1>1. /\ op.step = "begin" /\ op.call = "open" /\ op # NoCall /\ op.step \notin Ongoing
      /\ tls.state = "created" /\ UNCHANGED <<app, identity, wrapper>>
  BY DEF OpenLower, At, NoCall, Ongoing
<1>2. /\ tls.deadline = 0 /\ op.id \in Nat /\ ~ tls.lowerOpen /\ ~ usb.open /\ usb.staged = <<>>
      /\ usb \in Ports /\ device \in Devices /\ tls \in Sessions
  BY <1>1, OpFacts DEF LinkInv, TypeInv, CallInv, LayerInv
<1>3. tls.exists /\ app.phase = "running" /\ taken = <<>>
  BY <1>1, <1>2 DEF LinkInv, PhaseInv, LayerInv
<1>4. PICK b \in Sessions : /\ b = BeginDeadline(tls) /\ b.exists = tls.exists /\ b.state = "created"
                            /\ b.lowerOpen = FALSE /\ b.deadline = op.id
  <2>1. BeginDeadline(tls) = [exists |-> tls.exists, state |-> tls.state, lowerOpen |-> tls.lowerOpen,
                              keys |-> tls.keys, deadline |-> op.id]
    BY <1>2, BegunShape DEF LinkInv
  <2>2. tls.exists \in BOOLEAN /\ tls.keys \in BOOLEAN
    BY <1>2 DEF Sessions
  <2>3. BeginDeadline(tls) \in Sessions
    BY <1>1, <1>2, <2>1, <2>2 DEF Sessions
  <2> QED
    BY <1>1, <1>2, <2>1, <2>3
<1>5. PICK o \in UsbOpen(usb, device) :
        IF o.ok
        THEN /\ usb' = o.usb /\ device' = o.device
             /\ tls' = [b EXCEPT !.lowerOpen = TRUE, !.state = "opening"]
             /\ taken' = <<>>
             /\ Step("configure")
        ELSE /\ \E c \in UsbClose(o.usb, o.device) : usb' = c.usb /\ device' = c.device
             /\ tls' = EndDeadline(b)
             /\ Return
             /\ UNCHANGED taken
  BY <1>4, Zenon DEF OpenLower, AbandonOpen
<1>6. /\ o.usb \in Ports /\ o.device \in Devices /\ o.ok \in BOOLEAN /\ o.usb.exists = usb.exists
      /\ o.ok => o.usb.open /\ o.usb.staged = <<>>
      /\ ~ o.ok => o.usb.open = usb.open /\ o.usb.staged = usb.staged /\ (o.device.line => o.usb.lost)
  BY <1>2, UsbOpenResult
<1>7. CASE o.ok
  <2>1. usb' = o.usb /\ device' = o.device /\ taken' = <<>> /\ Step("configure")
    BY <1>5, <1>7
  <2>2. /\ tls' \in Sessions /\ tls'.exists = tls.exists /\ tls'.state = "opening"
        /\ tls'.lowerOpen = TRUE /\ tls'.deadline = op.id
    <3>1. tls' = [b EXCEPT !.lowerOpen = TRUE, !.state = "opening"]
      BY <1>5, <1>7
    <3> QED
      BY <1>4, <3>1 DEF Sessions
  <2>3. op' \in Ops /\ op' # NoCall /\ op'.step = "configure" /\ op'.call = "open" /\ op'.id = op.id
    <3>1. "configure" \in {"begin"} \cup Ongoing
      BY DEF Ongoing
    <3> QED
      BY <1>1, <2>1, <3>1, StepResult DEF LinkInv
  <2>4. TypeInv'
    BY <1>1, <1>6, <2>1, <2>2, <2>3, Empty DEF LinkInv, TypeInv
  <2>5. PhaseInv'
    BY <1>1, <1>3, <1>6, <2>1, <2>2 DEF LinkInv, PhaseInv
  <2>6. CallInv'
    BY <2>2, <2>3 DEF CallInv, Ongoing
  <2>7. LayerInv'
    BY <1>3, <1>6, <1>7, <2>1, <2>2 DEF LayerInv
  <2>8. StreamInv'
    BY <1>6, <1>7, <2>1, StreamEmpty
  <2>9. FirstInv'
    BY <2>2, <2>3 DEF FirstInv, At
  <2> QED
    BY <2>4, <2>5, <2>6, <2>7, <2>8, <2>9 DEF LinkInv
<1>8. CASE ~ o.ok
  <2>1. /\ \E c \in UsbClose(o.usb, o.device) : usb' = c.usb /\ device' = c.device
        /\ tls' = EndDeadline(b) /\ op' = NoCall /\ taken' = <<>>
    BY <1>3, <1>5, <1>8 DEF Return
  <2>2. /\ usb' \in Ports /\ device' \in Devices /\ ~ usb'.open /\ usb'.staged = <<>>
        /\ usb'.exists = usb.exists /\ (device'.line => usb'.lost)
    <3>1. PICK c \in UsbClose(o.usb, o.device) : usb' = c.usb /\ device' = c.device
      BY <2>1
    <3>2. o.device.line => o.usb.lost \/ o.usb.open
      BY <1>6, <1>8
    <3> QED
      BY <1>6, <3>1, <3>2, UsbCloseResult
  <2>3. /\ tls' \in Sessions /\ tls'.exists = tls.exists /\ tls'.state = "created"
        /\ tls'.lowerOpen = FALSE /\ tls'.deadline = 0
    BY <1>4, <2>1, SessionShape
  <2>4. TypeInv'
    BY <1>1, <2>1, <2>2, <2>3, Empty, SMTT(30) DEF LinkInv, TypeInv, Ops
  <2>5. PhaseInv'
    BY <1>1, <1>3, <2>1, <2>2, <2>3, SMTT(30) DEF LinkInv, PhaseInv
  <2>6. CallInv' /\ FirstInv'
    BY <2>1, <2>3 DEF CallInv, FirstInv, NoCall, Ongoing, At
  <2>7. LayerInv'
    BY <2>1, <2>2, <2>3 DEF LayerInv
  <2>8. StreamInv'
    BY <2>1, <2>2, StreamEmpty
  <2> QED
    BY <2>4, <2>5, <2>6, <2>7, <2>8 DEF LinkInv
<1> QED
  BY <1>6, <1>7, <1>8

(* The units of a bulk transfer, as they arrive.                           *)
LEMMA ArrivingUnits ==
  ASSUME NEW d \in Devices, NEW k \in Arriving(d) \ {0}
  PROVE  /\ d.line /\ k \in Nat \ {0} /\ Units(d, k) \in Seq(Unit) /\ Len(Units(d, k)) = k
         /\ Units(d, k) # <<>> /\ Consecutive(Units(d, k), d.tunnel, d.next)
         /\ [d EXCEPT !.next = @ + k] \in Devices
         /\ [d EXCEPT !.next = @ + k].line = d.line /\ [d EXCEPT !.next = @ + k].tunnel = d.tunnel
         /\ [d EXCEPT !.next = @ + k].next = d.next + k
<1>1. d.tunnel \in Nat /\ d.next \in Nat \ {0} /\ d.line \in BOOLEAN
  BY DEF Devices
<1>2. d.line /\ k \in Nat \ {0}
  <2>1. CASE d.line
    <3>1. k \in 0 .. Min({Packet, MaxUnits + 1 - d.next}) /\ k # 0
      BY <2>1 DEF Arriving
    <3>2. PICK m : m = Min({Packet, MaxUnits + 1 - d.next})
      OBVIOUS
    <3>3. Packet \in Int /\ MaxUnits + 1 - d.next \in Int
      BY <1>1, LinkAssumption
    <3>4. \E x \in {Packet, MaxUnits + 1 - d.next} : \A y \in {Packet, MaxUnits + 1 - d.next} : x <= y
      BY <3>3
    <3>5. m \in {Packet, MaxUnits + 1 - d.next}
      BY <3>2, <3>4 DEF Min
    <3>6. m \in Int
      BY <3>3, <3>5
    <3> QED
      BY <2>1, <3>1, <3>2, <3>6
  <2>2. CASE ~ d.line
    BY <2>2 DEF Arriving
  <2> QED
    BY <2>1, <2>2
<1>3. Units(d, k) \in Seq(Unit) /\ Len(Units(d, k)) = k
  <2>1. \A i \in 1 .. k : d.next + i - 1 \in Nat
    BY <1>1, <1>2
  <2>2. \A i \in 1 .. k : <<d.tunnel, d.next + i - 1>> \in Unit
    BY <1>1, <2>1 DEF Unit
  <2>3. Units(d, k) \in [1 .. k -> Unit]
    BY <2>2 DEF Units
  <2> QED
    BY <1>2, <2>3
<1>4. Consecutive(Units(d, k), d.tunnel, d.next)
  BY <1>3 DEF Consecutive, Units
<1>5. Units(d, k) # <<>>
  BY <1>2, <1>3
<1>6. d.next + k \in Nat \ {0}
  BY <1>1, <1>2
<1>7. /\ [d EXCEPT !.next = @ + k] \in Devices
      /\ [d EXCEPT !.next = @ + k].line = d.line /\ [d EXCEPT !.next = @ + k].tunnel = d.tunnel
      /\ [d EXCEPT !.next = @ + k].next = d.next + k
  BY <1>6 DEF Devices
<1> QED
  BY <1>2, <1>3, <1>4, <1>5, <1>7

(* The TLS session takes g, and l stays staged, of what follows the stream.*)
LEMMA StreamRead ==
  ASSUME NEW t \in Nat, NEW n \in Nat \ {0}, NEW g \in Seq(Unit), NEW l \in Seq(Unit), taken \in Seq(Unit),
         Consecutive(taken, t, n), g # <<>>,
         Consecutive(g, t, n + Len(taken)), Consecutive(l, t, n + Len(taken) + Len(g)),
         Live' => device'.tunnel = t /\ device'.next = n + Len(taken) + Len(g) + Len(l),
         taken' = taken \o g, usb'.staged = l
  PROVE  /\ taken' \in Seq(Unit) /\ StreamInv' /\ taken' # <<>>
         /\ taken # <<>> => taken'[1] = taken[1]
<1>1. /\ taken \o g \in Seq(Unit) /\ Len(taken \o g) = Len(taken) + Len(g)
      /\ Consecutive(taken \o g, t, n)
      /\ taken # <<>> => (taken \o g)[1] = taken[1]
  BY Joined
<1>2. Len(taken) \in Nat /\ Len(g) \in Nat \ {0} /\ Len(l) \in Nat
  OBVIOUS
<1>3. n + Len(taken') = n + Len(taken) + Len(g)
  BY <1>1, <1>2
<1>4. taken' # <<>>
  BY <1>1, <1>2
<1>5. /\ Consecutive(taken', t, n) /\ Consecutive(usb'.staged, t, n + Len(taken'))
      /\ Live' => device'.tunnel = t /\ device'.next = n + Len(taken') + Len(usb'.staged)
  BY <1>1, <1>3
<1>6. StreamInv'
  BY <1>5 DEF StreamInv
<1> QED
  BY <1>1, <1>4, <1>6


LEMMA Sums ==
  ASSUME NEW a \in Nat, NEW b \in Nat, NEW c \in Nat, NEW k, b + c = k
  PROVE  a + k = a + b + c
OBVIOUS

(* A step of a call with a transfer under way: what is left to show is how *)
(* the stream moves.                                                       *)
LEMMA TransferStep ==
  ASSUME LinkInv, op.step \in {"write", "read"}, op' \in Ops, op'.call = op.call, op'.id = op.id,
         op'.step \in {"read", "check", "broken"}, UNCHANGED <<app, identity, wrapper, tls>>,
         usb' \in Ports, usb'.open = usb.open, usb'.exists = usb.exists, usb'.lost = usb.lost,
         device' \in Devices, taken' \in Seq(Unit)
  PROVE  TypeInv' /\ PhaseInv' /\ CallInv' /\ LayerInv' /\ tls.lowerOpen
<1>1. op.step \in Ongoing /\ op'.step \in Ongoing /\ op'.step # "write" /\ op # NoCall
  <2>1. op.step \in Ongoing /\ op'.step \in Ongoing /\ op'.step # "write"
    BY DEF Ongoing
  <2>2. op # NoCall
    BY DEF NoCall
  <2> QED
    BY <2>1, <2>2
<1>2. tls.lowerOpen /\ tls.exists /\ usb.open /\ app.phase = "running"
  BY <1>1 DEF LinkInv, CallInv, PhaseInv, LayerInv
<1>3. TypeInv'
  BY SMTT(30) DEF LinkInv, TypeInv
<1>4. PhaseInv'
  BY <1>2 DEF LinkInv, PhaseInv
<1>5. CallInv'
  BY <1>1, SMTT(30) DEF LinkInv, CallInv
<1>6. LayerInv'
  BY <1>2 DEF LinkInv, LayerInv
<1> QED
  BY <1>2, <1>3, <1>4, <1>5, <1>6

LEMMA ReadKeeps ==
  ASSUME LinkInv, NEW room \in 1 .. Packet, Read(room)
  PROVE  LinkInv'
<1>1. /\ op.step = "read" /\ op # NoCall /\ UNCHANGED <<app, identity, wrapper, tls>>
      /\ usb \in Ports /\ device \in Devices /\ taken \in Seq(Unit) /\ op \in Ops
  BY DEF Read, NoCall, LinkInv, TypeInv
<1>2. op' \in Ops /\ op'.call = op.call /\ op'.id = op.id /\ op'.step \in {"read", "check"}
  <2>1. CASE Step("check")
    <3>1. "check" \in {"begin"} \cup Ongoing
      BY DEF Ongoing
    <3> QED
      BY <1>1, <2>1, <3>1, StepResult DEF LinkInv
  <2>2. CASE UNCHANGED op
    BY <1>1, <2>2
  <2> QED
    BY <2>1, <2>2 DEF Read
<1>3. PICK t \in Nat, n \in Nat \ {0} :
        /\ Consecutive(taken, t, n)
        /\ Consecutive(usb.staged, t, n + Len(taken))
        /\ Live => device.tunnel = t /\ device.next = n + Len(taken) + Len(usb.staged)
  BY DEF LinkInv, StreamInv
<1>4. Len(taken) \in Nat /\ n + Len(taken) \in Nat /\ room \in Nat \ {0} /\ usb.staged \in Seq(Unit)
  BY <1>1, LinkAssumption DEF Ports
<1>5. Live <=> device.line
  BY <1>1 DEF LinkInv, CallInv, Ongoing, Live
<1>6. \E g \in Seq(Unit), l \in Seq(Unit) :
        /\ g # <<>> /\ Consecutive(g, t, n + Len(taken)) /\ Consecutive(l, t, n + Len(taken) + Len(g))
        /\ device'.line => device'.tunnel = t /\ device'.next = n + Len(taken) + Len(g) + Len(l)
        /\ taken' = taken \o g /\ usb' = [usb EXCEPT !.staged = l] /\ device' \in Devices
  <2>1. CASE usb.staged # <<>>
    <3>1. PICK f : f = FromStaging(usb.staged, room)
      OBVIOUS
    <3>2. /\ f.given \in Seq(Unit) /\ f.given # <<>> /\ Consecutive(f.given, t, n + Len(taken))
          /\ f.left \in Seq(Unit) /\ Consecutive(f.left, t, n + Len(taken) + Len(f.given))
          /\ Len(f.given) + Len(f.left) = Len(usb.staged)
      BY <1>3, <1>4, <2>1, <3>1, StagingSplit
    <3>3. taken' = taken \o f.given /\ usb' = [usb EXCEPT !.staged = f.left] /\ device' = device
      BY <2>1, <3>1 DEF Read
    <3>4. Len(f.given) \in Nat /\ Len(f.left) \in Nat
      BY <3>2
    <3>5. n + Len(taken) + Len(usb.staged) = n + Len(taken) + Len(f.given) + Len(f.left)
      <4>1. PICK z \in Nat, x \in Nat, y \in Nat : z = n + Len(taken) /\ x = Len(f.given) /\ y = Len(f.left)
        BY <1>4, <3>4
      <4>2. x + y = Len(usb.staged)
        BY <3>2, <4>1
      <4>3. z + (x + y) = z + x + y
        OBVIOUS
      <4> QED
        BY <4>1, <4>2, <4>3
    <3>6. device'.line => device'.tunnel = t /\ device'.next = n + Len(taken) + Len(f.given) + Len(f.left)
      BY <1>3, <1>5, <3>3, <3>5
    <3> QED
      BY <1>1, <3>2, <3>3, <3>6
  <2>2. CASE usb.staged = <<>>
    <3>1. PICK k \in Arriving(device) \ {0} :
            LET f == FromStaging(Units(device, k), room)
            IN /\ usb' = [usb EXCEPT !.staged = f.left]
               /\ taken' = taken \o f.given
               /\ device' = [device EXCEPT !.next = @ + k]
      BY <2>2 DEF Read
    <3>2. /\ device.line /\ k \in Nat \ {0} /\ Units(device, k) \in Seq(Unit) /\ Len(Units(device, k)) = k
          /\ Units(device, k) # <<>> /\ Consecutive(Units(device, k), device.tunnel, device.next)
          /\ device' \in Devices /\ device'.tunnel = device.tunnel /\ device'.next = device.next + k
      BY <1>1, <3>1, ArrivingUnits
    <3>3. device.tunnel = t /\ device.next = n + Len(taken)
      BY <1>3, <1>4, <1>5, <2>2, <3>2, Empty
    <3>4. PICK f : f = FromStaging(Units(device, k), room)
      OBVIOUS
    <3>5. /\ f.given \in Seq(Unit) /\ f.given # <<>> /\ Consecutive(f.given, t, n + Len(taken))
          /\ f.left \in Seq(Unit) /\ Consecutive(f.left, t, n + Len(taken) + Len(f.given))
          /\ Len(f.given) + Len(f.left) = k
      <4>1. Consecutive(Units(device, k), t, n + Len(taken))
        BY <3>2, <3>3
      <4> QED
        BY <1>4, <3>2, <3>4, <4>1, StagingSplit
    <3>6. taken' = taken \o f.given /\ usb' = [usb EXCEPT !.staged = f.left]
      BY <3>1, <3>4
    <3>7. Len(f.given) \in Nat /\ Len(f.left) \in Nat
      BY <3>5
    <3>8. device'.next = n + Len(taken) + Len(f.given) + Len(f.left)
      <4>1. n + Len(taken) + k = n + Len(taken) + Len(f.given) + Len(f.left)
        <5>1. PICK z \in Nat, x \in Nat, y \in Nat : z = n + Len(taken) /\ x = Len(f.given) /\ y = Len(f.left)
          BY <1>4, <3>7
        <5>2. x + y = k
          BY <3>5, <5>1
        <5>3. z + k = z + x + y
          BY <5>2, Sums
        <5> QED
          BY <5>1, <5>3
      <4> QED
        BY <3>2, <3>3, <4>1
    <3> QED
      BY <3>2, <3>3, <3>5, <3>6, <3>8
  <2> QED
    BY <2>1, <2>2
<1>7. PICK g \in Seq(Unit), l \in Seq(Unit) :
        /\ g # <<>> /\ Consecutive(g, t, n + Len(taken)) /\ Consecutive(l, t, n + Len(taken) + Len(g))
        /\ device'.line => device'.tunnel = t /\ device'.next = n + Len(taken) + Len(g) + Len(l)
        /\ taken' = taken \o g /\ usb' = [usb EXCEPT !.staged = l] /\ device' \in Devices
  BY <1>6
<1>8. /\ usb' \in Ports /\ usb'.staged = l /\ usb'.open = usb.open
      /\ usb'.exists = usb.exists /\ usb'.lost = usb.lost
  BY <1>1, <1>7 DEF Ports
<1>9. Live' => device'.tunnel = t /\ device'.next = n + Len(taken) + Len(g) + Len(l)
  BY <1>7 DEF Live
<1>10. /\ taken' \in Seq(Unit) /\ StreamInv' /\ taken' # <<>>
       /\ taken # <<>> => taken'[1] = taken[1]
  BY <1>1, <1>3, <1>7, <1>8, <1>9, StreamRead
<1>11. TypeInv' /\ PhaseInv' /\ CallInv' /\ LayerInv'
  BY <1>1, <1>2, <1>7, <1>8, <1>10, TransferStep
<1>12. FirstInv'
  BY <1>1, <1>10 DEF LinkInv, FirstInv
<1> QED
  BY <1>10, <1>11, <1>12 DEF LinkInv

(* A transfer that failed: whatever is lost, the session is not live.      *)
LEMMA BrokenStep ==
  ASSUME LinkInv, op.step \in {"write", "read"}, Step("broken"),
         usb' \in {usb, ClearStaging(usb)}, device' \in Devices,
         UNCHANGED <<app, identity, wrapper, tls, taken>>
  PROVE  LinkInv'
<1>1. op # NoCall /\ "broken" \in {"begin"} \cup Ongoing /\ usb \in Ports /\ taken \in Seq(Unit)
  BY DEF NoCall, Ongoing, LinkInv, TypeInv
<1>2. op' \in Ops /\ op'.step = "broken" /\ op'.call = op.call /\ op'.id = op.id
  BY <1>1, StepResult DEF LinkInv
<1>3. /\ usb' \in Ports /\ usb'.open = usb.open /\ usb'.exists = usb.exists /\ usb'.lost = usb.lost
      /\ usb'.staged = usb.staged \/ usb'.staged = <<>>
  BY <1>1, Cleared
<1>4. TypeInv' /\ PhaseInv' /\ CallInv' /\ LayerInv'
  BY <1>1, <1>2, <1>3, TransferStep
<1>5. StreamInv'
  <2>1. PICK t \in Nat, n \in Nat \ {0} :
          Consecutive(taken, t, n) /\ Consecutive(usb.staged, t, n + Len(taken))
    BY DEF LinkInv, StreamInv
  <2>2. n + Len(taken) \in Nat
    BY <1>1
  <2>3. Consecutive(usb'.staged, t, n + Len(taken))
    BY <1>3, <2>1, <2>2, Empty
  <2>4. ~ Live'
    BY <1>2 DEF Live
  <2> QED
    BY <2>1, <2>3, <2>4 DEF StreamInv
<1>6. FirstInv'
  BY <1>2 DEF LinkInv, FirstInv, At
<1> QED
  BY <1>4, <1>5, <1>6 DEF LinkInv

LEMMA LoseUnitsKeeps ==
  ASSUME LinkInv, LoseUnits
  PROVE  LinkInv'
<1>1. PICK k \in Arriving(device) \ {0} : device' = [device EXCEPT !.next = @ + k]
  BY DEF LoseUnits
<1>2. device' \in Devices
  BY <1>1, ArrivingUnits DEF LinkInv, TypeInv
<1> QED
  BY <1>2, BrokenStep DEF LoseUnits

LEMMA StallKeeps ==
  ASSUME LinkInv, Stall
  PROVE  LinkInv'
<1>1. PICK r \in PortReset(device) : device' = r.device
  BY DEF Stall
<1>2. device' \in Devices
  BY <1>1, PortResetResult DEF LinkInv, TypeInv
<1> QED
  BY <1>2, BrokenStep DEF Stall

-----------------------------------------------------------------------------
(* The steps of the program, none of them during a call.                   *)
LEMMA ProgramStep ==
  ASSUME LinkInv, app.phase # "running" \/ op = NoCall, UNCHANGED <<tls, usb, device, op, taken>>
  PROVE  CallInv' /\ LayerInv' /\ StreamInv' /\ FirstInv'
<1>1. CallInv' /\ LayerInv' /\ FirstInv'
  BY DEF LinkInv, CallInv, LayerInv, FirstInv, At
<1>2. StreamInv'
  BY StreamKept DEF LinkInv, Live
<1> QED
  BY <1>1, <1>2

LEMMA PhaseMoves ==
  ASSUME LinkInv, NEW p \in Phases, Phase(p)
  PROVE  app' \in Apps /\ app'.phase = p
BY PhaseResult DEF LinkInv, TypeInv, Phase, Apps

LEMMA OpenIdentityKeeps ==
  ASSUME LinkInv, OpenIdentity
  PROVE  LinkInv'
<1>1. /\ app.phase = "start" /\ identity' = TRUE /\ Phase("usb") /\ "usb" \in Phases
      /\ UNCHANGED <<wrapper, tls, usb, device, op, taken>>
  BY DEF OpenIdentity, Phases
<1>2. app' \in Apps /\ app'.phase = "usb"
  BY <1>1, PhaseMoves
<1>3. TypeInv' /\ PhaseInv'
  BY <1>1, <1>2 DEF LinkInv, TypeInv, PhaseInv
<1> QED
  BY <1>1, <1>3, ProgramStep DEF LinkInv

LEMMA LeaveKeeps ==
  ASSUME LinkInv, NEW p \in {"start", "usb", "running"}, Leave(p), op = NoCall
  PROVE  LinkInv'
<1>1. /\ app.phase = p /\ Phase("cleanup") /\ "cleanup" \in Phases
      /\ UNCHANGED <<identity, wrapper, tls, usb, device, op, taken>>
  BY DEF Leave, Phases
<1>2. app' \in Apps /\ app'.phase = "cleanup"
  BY <1>1, PhaseMoves
<1>3. TypeInv' /\ PhaseInv'
  BY <1>1, <1>2 DEF LinkInv, TypeInv, PhaseInv
<1> QED
  BY <1>1, <1>3, ProgramStep DEF LinkInv

LEMMA NewPort ==
  ASSUME NEW b \in BOOLEAN, NEW e \in BOOLEAN
  PROVE  /\ [NoUsb EXCEPT !.exists = e, !.lost = b] \in Ports
         /\ [NoUsb EXCEPT !.exists = e, !.lost = b].exists = e
         /\ [NoUsb EXCEPT !.exists = e, !.lost = b].open = FALSE
         /\ [NoUsb EXCEPT !.exists = e, !.lost = b].staged = <<>>
         /\ [NoUsb EXCEPT !.exists = e, !.lost = b].lost = b
         /\ [NoUsb EXCEPT !.lost = b] \in Ports
         /\ [NoUsb EXCEPT !.lost = b].exists = FALSE
         /\ [NoUsb EXCEPT !.lost = b].open = FALSE
         /\ [NoUsb EXCEPT !.lost = b].staged = <<>>
         /\ [NoUsb EXCEPT !.lost = b].lost = b
BY Empty DEF NoUsb, Ports

(* The USB transport becomes a closed one: no session is using it.         *)
LEMMA PortReplaced ==
  ASSUME LinkInv, op = NoCall, UNCHANGED <<op, taken, tls>>, ~ tls.exists,
         usb' \in Ports, usb'.open = FALSE, usb'.staged = <<>>,
         device' \in Devices, device'.line => usb'.lost
  PROVE  CallInv' /\ LayerInv' /\ StreamInv' /\ FirstInv'
<1>1. CallInv' /\ FirstInv'
  BY DEF LinkInv, CallInv, FirstInv, At
<1>2. ~ tls.lowerOpen
  BY DEF LinkInv, LayerInv
<1>3. LayerInv'
  BY <1>2 DEF LinkInv, LayerInv
<1>4. StreamInv'
  <2>1. PICK t \in Nat, n \in Nat \ {0} : Consecutive(taken, t, n)
    BY DEF LinkInv, StreamInv
  <2>2. n + Len(taken) \in Nat
    BY DEF LinkInv, TypeInv
  <2>3. Consecutive(usb'.staged, t, n + Len(taken))
    BY <2>2, Empty
  <2>4. ~ Live'
    BY <1>2 DEF Live
  <2> QED
    BY <2>1, <2>3, <2>4 DEF StreamInv
<1> QED
  BY <1>1, <1>3, <1>4

LEMMA CreateUsbKeeps ==
  ASSUME LinkInv, CreateUsb
  PROVE  LinkInv'
<1>1. /\ app.phase = "usb" /\ UNCHANGED <<identity, wrapper, tls, device, op, taken>> /\ usb \in Ports
      /\ op = NoCall /\ "tls" \in Phases /\ "cleanup" \in Phases
  BY DEF CreateUsb, LinkInv, TypeInv, PhaseInv, Phases
<1>2. CASE usb' = [NoUsb EXCEPT !.exists = TRUE, !.lost = usb.lost] /\ Phase("tls")
  <2>1. app' \in Apps /\ app'.phase = "tls"
    BY <1>1, <1>2, PhaseMoves
  <2>2. usb.lost \in BOOLEAN /\ ~ tls.exists /\ identity /\ ~ wrapper.active /\ taken = <<>>
    BY <1>1 DEF Ports, LinkInv, PhaseInv
  <2>3. usb' \in Ports /\ usb'.exists = TRUE /\ usb'.open = FALSE /\ usb'.staged = <<>> /\ usb'.lost = usb.lost
    BY <1>2, <2>2, NewPort
  <2>4. device.line => usb.lost
    BY <2>2, SMTT(30) DEF LinkInv, LayerInv
  <2>5. TypeInv' /\ PhaseInv'
    BY <1>1, <2>1, <2>2, <2>3 DEF LinkInv, TypeInv, PhaseInv
  <2>6. device' \in Devices /\ (device'.line => usb'.lost)
    BY <1>1, <2>3, <2>4 DEF LinkInv, TypeInv
  <2> QED
    BY <1>1, <2>2, <2>3, <2>5, <2>6, PortReplaced DEF LinkInv
<1>3. CASE UNCHANGED usb /\ Phase("cleanup")
  <2>1. app' \in Apps /\ app'.phase = "cleanup"
    BY <1>1, <1>3, PhaseMoves, SMTT(30)
  <2>2. TypeInv' /\ PhaseInv'
    BY <1>1, <1>3, <2>1 DEF LinkInv, TypeInv, PhaseInv
  <2> QED
    BY <1>1, <1>3, <2>2, ProgramStep DEF LinkInv
<1> QED
  BY <1>2, <1>3 DEF CreateUsb

LEMMA CreateTlsKeeps ==
  ASSUME LinkInv, CreateTls
  PROVE  LinkInv'
<1>1. /\ app.phase = "tls" /\ UNCHANGED <<identity, usb, device, op, taken>> /\ op = NoCall
      /\ Phase("running") /\ "running" \in Phases /\ taken = <<>> /\ usb.exists /\ identity /\ ~ tls.exists
  BY DEF CreateTls, LinkInv, PhaseInv, Phases
<1>2. app' \in Apps /\ app'.phase = "running"
  BY <1>1, PhaseMoves
<1>3. wrapper' \in Wrappers /\ wrapper'.active = TRUE /\ wrapper'.pending = FALSE
  BY DEF CreateTls, NoWrapper, Wrappers
<1>4. /\ tls' \in Sessions /\ tls'.exists = TRUE /\ tls'.state = "created"
      /\ tls'.lowerOpen = FALSE /\ tls'.deadline = 0
  BY DEF CreateTls, NoTls, Sessions
<1>5. ~ usb.open /\ usb.staged = <<>> /\ (device.line => usb.lost)
  BY <1>1 DEF LinkInv, LayerInv
<1>6. TypeInv'
  BY <1>1, <1>2, <1>3, <1>4 DEF LinkInv, TypeInv
<1>7. PhaseInv'
  BY <1>1, <1>2, <1>3, <1>4 DEF PhaseInv
<1>8. CallInv' /\ FirstInv'
  BY <1>1, <1>4 DEF CallInv, FirstInv, NoCall, Ongoing, At
<1>9. LayerInv'
  BY <1>1, <1>4, <1>5 DEF LayerInv
<1>10. StreamInv'
  BY <1>1, <1>5, StreamEmpty DEF LinkInv, TypeInv
<1> QED
  BY <1>6, <1>7, <1>8, <1>9, <1>10 DEF LinkInv

LEMMA CreateTlsFailsKeeps ==
  ASSUME LinkInv, CreateTlsFails
  PROVE  LinkInv'
<1>1. /\ app.phase = "tls" /\ UNCHANGED <<identity, tls, usb, device, op, taken>> /\ op = NoCall
      /\ Phase("cleanup") /\ "cleanup" \in Phases /\ usb.exists /\ identity /\ ~ tls.exists
  BY DEF CreateTlsFails, LinkInv, PhaseInv, Phases
<1>2. app' \in Apps /\ app'.phase = "cleanup"
  BY <1>1, PhaseMoves
<1>3. wrapper' \in Wrappers
  BY DEF CreateTlsFails, NoWrapper, Wrappers
<1>4. TypeInv' /\ PhaseInv'
  BY <1>1, <1>2, <1>3 DEF LinkInv, TypeInv, PhaseInv
<1> QED
  BY <1>1, <1>4, ProgramStep DEF LinkInv

LEMMA CleanupKeeps ==
  ASSUME LinkInv, Cleanup
  PROVE  LinkInv'
<1>1. /\ app.phase = "cleanup" /\ UNCHANGED <<identity, wrapper, tls, usb, device, op, taken>> /\ op = NoCall
      /\ {"retry", "release"} \subseteq Phases
  BY DEF Cleanup, LinkInv, PhaseInv, Phases
<1>2. app' \in Apps /\ app'.phase = (IF wrapper.active THEN "retry" ELSE "release")
  BY <1>1, PhaseMoves, SMTT(30) DEF Cleanup
<1>3. TypeInv' /\ PhaseInv'
  BY <1>1, <1>2 DEF LinkInv, TypeInv, PhaseInv
<1> QED
  BY <1>1, <1>3, ProgramStep DEF LinkInv


LEMMA RetryPendingKeeps ==
  ASSUME LinkInv, RetryPending
  PROVE  LinkInv'
<1>1. /\ app.phase = "retry" /\ UNCHANGED <<identity, tls, usb, device, op, taken>> /\ op = NoCall
      /\ wrapper.active /\ wrapper \in Wrappers /\ "inner" \in Phases
  BY DEF RetryPending, LinkInv, TypeInv, PhaseInv, Phases
<1>2. CASE wrapper' = [wrapper EXCEPT !.pending = FALSE] /\ Phase("inner")
  <2>1. app' \in Apps /\ app'.phase = "inner"
    BY <1>1, <1>2, PhaseMoves
  <2>2. wrapper' \in Wrappers /\ wrapper'.active = wrapper.active /\ wrapper'.pending = FALSE
    BY <1>1, <1>2 DEF Wrappers
  <2>3. TypeInv' /\ PhaseInv'
    BY <1>1, <2>1, <2>2 DEF LinkInv, TypeInv, PhaseInv
  <2> QED
    BY <1>1, <2>3, ProgramStep DEF LinkInv
<1>3. CASE wrapper.pending /\ UNCHANGED wrapper /\ TryAgain
  <2>1. app' \in Apps /\ app'.phase \in {"retry", "release"}
    BY <1>3, TriedAgain DEF LinkInv
  <2>2. TypeInv' /\ PhaseInv'
    BY <1>1, <1>3, <2>1 DEF LinkInv, TypeInv, PhaseInv
  <2> QED
    BY <1>1, <2>2, ProgramStep DEF LinkInv
<1> QED
  BY <1>2, <1>3 DEF RetryPending

(* The TLS transport is gone, and with it what the USB transport staged.   *)
LEMMA InnerGone ==
  ASSUME LinkInv, op = NoCall, UNCHANGED <<op, taken>>, tls' = NoTls,
         usb' \in Ports, ~ usb'.open, usb'.staged = <<>>,
         device' \in Devices, device'.line => usb'.lost
  PROVE  CallInv' /\ LayerInv' /\ StreamInv' /\ FirstInv'
<1>1. tls'.exists = FALSE /\ tls'.state = "created" /\ tls'.lowerOpen = FALSE /\ tls'.deadline = 0
  BY DEF NoTls
<1>2. CallInv' /\ FirstInv'
  BY <1>1 DEF CallInv, FirstInv, At, NoCall, Ongoing
<1>3. LayerInv'
  BY <1>1 DEF LayerInv
<1>4. StreamInv'
  <2>1. PICK t \in Nat, n \in Nat \ {0} : Consecutive(taken, t, n)
    BY DEF LinkInv, StreamInv
  <2>2. n + Len(taken) \in Nat
    BY DEF LinkInv, TypeInv
  <2>3. Consecutive(usb'.staged, t, n + Len(taken))
    BY <2>2, Empty
  <2>4. ~ Live'
    BY <1>1 DEF Live
  <2> QED
    BY <2>1, <2>3, <2>4 DEF StreamInv
<1> QED
  BY <1>2, <1>3, <1>4

LEMMA DestroyInnerKeeps ==
  ASSUME LinkInv, DestroyInner
  PROVE  LinkInv'
<1>1. /\ app.phase = "inner" /\ UNCHANGED <<identity, op, taken>> /\ op = NoCall
      /\ wrapper.active /\ wrapper \in Wrappers /\ "free" \in Phases
      /\ usb \in Ports /\ device \in Devices /\ usb.exists /\ identity
  BY DEF DestroyInner, LinkInv, TypeInv, PhaseInv, Phases
<1>2. CASE tls.exists
  <2>1. PICK c \in (IF tls.lowerOpen THEN UsbClose(usb, device) ELSE {[usb |-> usb, device |-> device]}) :
          /\ tls' = NoTls /\ usb' = c.usb /\ device' = c.device
          /\ \/ Phase("free") /\ UNCHANGED wrapper
             \/ wrapper' = [wrapper EXCEPT !.pending = TRUE] /\ TryAgain
    BY <1>2, SMTT(30) DEF DestroyInner
  <2>2. /\ usb' \in Ports /\ device' \in Devices /\ ~ usb'.open /\ usb'.staged = <<>>
        /\ usb'.exists = usb.exists /\ (device'.line => usb'.lost)
    <3>1. device.line => usb.lost \/ usb.open
      BY DEF LinkInv, LayerInv
    <3>2. CASE tls.lowerOpen
      BY <1>1, <2>1, <3>1, <3>2, UsbCloseResult
    <3>3. CASE ~ tls.lowerOpen
      <4>1. usb' = usb /\ device' = device
        BY <2>1, <3>3
      <4>2. ~ usb.open /\ usb.staged = <<>>
        BY <3>3 DEF LinkInv, LayerInv
      <4> QED
        BY <1>1, <3>1, <4>1, <4>2
    <3> QED
      BY <3>2, <3>3, SMTT(30)
  <2>3. CallInv' /\ LayerInv' /\ StreamInv' /\ FirstInv'
    BY <1>1, <2>1, <2>2, InnerGone
  <2>4. tls' \in Sessions /\ tls'.exists = FALSE
    BY <2>1 DEF NoTls, Sessions
  <2>5. /\ app' \in Apps /\ app'.phase \in {"free", "retry", "release"}
        /\ wrapper' \in Wrappers /\ wrapper'.active
    <3>1. CASE Phase("free") /\ UNCHANGED wrapper
      BY <1>1, <3>1, PhaseMoves
    <3>2. CASE wrapper' = [wrapper EXCEPT !.pending = TRUE] /\ TryAgain
      <4>1. app' \in Apps /\ app'.phase \in {"retry", "release"}
        BY <3>2, TriedAgain DEF LinkInv
      <4>2. wrapper' \in Wrappers /\ wrapper'.active = wrapper.active
        BY <1>1, <3>2 DEF Wrappers
      <4> QED
        BY <1>1, <4>1, <4>2
    <3> QED
      BY <2>1, <3>1, <3>2
  <2>6. TypeInv'
    BY <1>1, <2>2, <2>4, <2>5 DEF LinkInv, TypeInv
  <2>7. PhaseInv'
    BY <1>1, <2>2, <2>4, <2>5 DEF PhaseInv
  <2> QED
    BY <2>3, <2>6, <2>7 DEF LinkInv
<1>3. CASE ~ tls.exists
  <2>1. Phase("free") /\ UNCHANGED <<wrapper, tls, usb, device>>
    BY <1>3 DEF DestroyInner
  <2>2. app' \in Apps /\ app'.phase = "free"
    BY <1>1, <2>1, PhaseMoves, SMTT(30)
  <2>3. TypeInv' /\ PhaseInv'
    BY <1>1, <1>3, <2>1, <2>2 DEF LinkInv, TypeInv, PhaseInv
  <2> QED
    BY <1>1, <2>1, <2>3, ProgramStep DEF LinkInv
<1> QED
  BY <1>2, <1>3

LEMMA FreeContextKeeps ==
  ASSUME LinkInv, FreeContext
  PROVE  LinkInv'
<1>1. /\ app.phase = "free" /\ UNCHANGED <<identity, tls, usb, device, op, taken>> /\ op = NoCall
      /\ ~ tls.exists /\ wrapper.active /\ "release" \in Phases
  BY DEF FreeContext, LinkInv, PhaseInv, Phases
<1>2. CASE wrapper' = NoWrapper /\ Phase("release")
  <2>1. app' \in Apps /\ app'.phase = "release"
    BY <1>1, <1>2, PhaseMoves
  <2>2. wrapper' \in Wrappers /\ wrapper'.active = FALSE /\ wrapper'.pending = FALSE
    BY <1>2, SMTT(30) DEF NoWrapper, Wrappers
  <2>3. TypeInv' /\ PhaseInv'
    BY <1>1, <2>1, <2>2 DEF LinkInv, TypeInv, PhaseInv
  <2> QED
    BY <1>1, <2>3, ProgramStep DEF LinkInv
<1>3. CASE UNCHANGED wrapper /\ TryAgain
  <2>1. app' \in Apps /\ app'.phase \in {"retry", "release"}
    BY <1>3, TriedAgain, SMTT(30) DEF LinkInv
  <2>2. TypeInv' /\ PhaseInv'
    BY <1>1, <1>3, <2>1 DEF LinkInv, TypeInv, PhaseInv
  <2> QED
    BY <1>1, <2>2, ProgramStep DEF LinkInv
<1> QED
  BY <1>2, <1>3 DEF FreeContext

LEMMA ReleaseKeeps ==
  ASSUME LinkInv, Release
  PROVE  LinkInv'
<1>1. /\ app.phase = "release" /\ UNCHANGED <<wrapper, tls, op, taken>> /\ op = NoCall
      /\ ~ tls.exists /\ Phase("done") /\ "done" \in Phases /\ usb \in Ports /\ device \in Devices
  BY DEF Release, LinkInv, TypeInv, PhaseInv, Phases
<1>2. app' \in Apps /\ app'.phase = "done"
  BY <1>1, PhaseMoves
<1>3. CASE wrapper.active
  <2>1. UNCHANGED <<usb, device, identity>>
    BY <1>3, SMTT(30) DEF Release, Unreferenced
  <2>2. TypeInv' /\ PhaseInv'
    BY <1>1, <1>2, <1>3, <2>1, SMTT(30) DEF LinkInv, TypeInv, PhaseInv
  <2> QED
    BY <1>1, <2>1, <2>2, ProgramStep DEF LinkInv
<1>4. CASE ~ wrapper.active
  <2>1. identity' = FALSE /\ \E c \in UsbDestroyed(usb, device) : usb' = c.usb /\ device' = c.device
    BY <1>4 DEF Release, Unreferenced
  <2>2. PICK c \in UsbClose(usb, device) :
          usb' = [NoUsb EXCEPT !.lost = c.usb.lost] /\ device' = c.device
    <3>1. PICK k \in UsbDestroyed(usb, device) : usb' = k.usb /\ device' = k.device
      BY <2>1
    <3>2. PICK c \in UsbClose(usb, device) :
            k = [device |-> c.device, usb |-> [NoUsb EXCEPT !.lost = c.usb.lost]]
      BY Zenon DEF UsbDestroyed
    <3>3. k.usb = [NoUsb EXCEPT !.lost = c.usb.lost] /\ k.device = c.device
      BY <3>2
    <3> QED
      BY <3>1, <3>3, Zenon
  <2>3. device.line => usb.lost \/ usb.open
    BY DEF LinkInv, LayerInv
  <2>4. c.usb \in Ports /\ c.device \in Devices /\ (c.device.line => c.usb.lost)
    BY <1>1, <2>3, UsbCloseResult, SMTT(30)
  <2>5. c.usb.lost \in BOOLEAN
    BY <2>4, SMTT(30) DEF Ports
  <2>6. /\ usb' \in Ports /\ usb'.exists = FALSE /\ usb'.open = FALSE
        /\ usb'.staged = <<>> /\ usb'.lost = c.usb.lost
    BY <2>2, <2>5, NewPort
  <2>7. device' \in Devices /\ (device'.line => usb'.lost)
    BY <2>2, <2>4, <2>6, SMTT(30)
  <2>8. TypeInv'
    BY <1>1, <1>2, <2>1, <2>6, <2>7 DEF LinkInv, TypeInv
  <2>9. PhaseInv'
    BY <1>1, <1>2, <1>4, <2>1, <2>6 DEF LinkInv, PhaseInv
  <2> QED
    BY <1>1, <2>6, <2>7, <2>8, <2>9, PortReplaced DEF LinkInv
<1> QED
  BY <1>3, <1>4, SMTT(30)

LEMMA NextProgramKeeps ==
  ASSUME LinkInv, NextProgram
  PROVE  LinkInv'
<1>1. /\ app.phase = "done" /\ op = NoCall /\ UNCHANGED <<device, op>> /\ ~ tls.exists
      /\ identity' = FALSE /\ wrapper' = NoWrapper /\ tls' = NoTls /\ taken' = <<>>
      /\ usb' = [NoUsb EXCEPT !.lost = usb.lost] /\ device \in Devices
  BY DEF NextProgram, LinkInv, TypeInv, PhaseInv
<1>2. app' \in Apps /\ app'.phase = "start"
  <2>1. app.runs + 1 \in Nat /\ 0 \in Nat /\ "start" \in Phases
    BY DEF LinkInv, TypeInv, Apps, Phases
  <2>2. app' = [phase |-> "start", tries |-> 0, calls |-> 0, runs |-> app.runs + 1]
    BY DEF NextProgram
  <2> QED
    BY <2>1, <2>2 DEF Apps
<1>3. device.line => usb.lost
  BY <1>1 DEF LinkInv, LayerInv
<1>4. usb.lost \in BOOLEAN
  BY SMTT(30) DEF LinkInv, TypeInv, Ports
<1>5. usb' \in Ports /\ usb'.exists = FALSE /\ usb'.open = FALSE /\ usb'.staged = <<>> /\ usb'.lost = usb.lost
  BY <1>1, <1>4, NewPort
<1>6. wrapper' \in Wrappers /\ wrapper'.active = FALSE /\ wrapper'.pending = FALSE
  BY <1>1 DEF NoWrapper, Wrappers
<1>7. /\ tls' \in Sessions /\ tls'.exists = FALSE /\ tls'.state = "created"
      /\ tls'.lowerOpen = FALSE /\ tls'.deadline = 0
  BY <1>1 DEF NoTls, Sessions
<1>8. TypeInv'
  BY <1>1, <1>2, <1>5, <1>6, <1>7, Empty DEF LinkInv, TypeInv
<1>9. PhaseInv'
  BY <1>1, <1>2, <1>5, <1>6, <1>7 DEF PhaseInv
<1>10. CallInv' /\ FirstInv'
  BY <1>1, <1>7 DEF CallInv, FirstInv, NoCall, Ongoing, At
<1>11. LayerInv'
  BY <1>1, <1>3, <1>5, <1>7 DEF LayerInv
<1>12. StreamInv'
  BY <1>1, <1>5, StreamEmpty
<1> QED
  BY <1>8, <1>9, <1>10, <1>11, <1>12 DEF LinkInv


LEMMA LinkStep ==
  ASSUME LinkInv, [Next]_vars
  PROVE  LinkInv'
<1>1. ASSUME FailSession, op # NoCall
      PROVE  LinkInv'
  BY <1>1, FailSessionKeeps
<1>2. CASE \/ ClockFails \/ ConfigureFails \/ TransferFails \/ Broken \/ TimesOut
           \/ RefuseRecord \/ RefuseCertificate \/ RefuseHandshake \/ Close \/ Cancel
  <2>1. FailSession
    BY <1>2 DEF ClockFails, ConfigureFails, TransferFails, Broken, TimesOut, RefuseRecord,
                RefuseCertificate, RefuseHandshake, Close, Cancel, AfterFailedTransfer
  <2>2. op.step \in {"begin"} \cup Ongoing
    BY <1>2 DEF ClockFails, ConfigureFails, TransferFails, Broken, TimesOut, RefuseRecord,
                RefuseCertificate, RefuseHandshake, Close, Cancel, At, Ongoing
  <2>3. op # NoCall
    BY <2>2 DEF NoCall, Ongoing
  <2> QED
    BY <1>1, <2>1, <2>3
<1>3. CASE BeginSend \/ BeginReceive \/ BeginClose
  BY <1>3, BeginKeeps DEF BeginSend, BeginReceive, BeginClose
<1>4. CASE \E c \in {"open", "send", "receive", "close", "cancel"} : Call(c)
  BY <1>4, CallKeeps DEF Calls
<1>5. CASE \E room \in 1 .. Packet : Read(room)
  BY <1>5, ReadKeeps
<1>6. CASE OpenIdentityFails \/ EnumerationFails \/ Finish
  <2>1. op = NoCall
    BY <1>6 DEF OpenIdentityFails, EnumerationFails, Finish, Leave, LinkInv, PhaseInv
  <2> QED
    BY <1>6, <2>1, LeaveKeeps DEF OpenIdentityFails, EnumerationFails, Finish
<1>7. CASE UNCHANGED vars
  <2>1. UNCHANGED <<app, identity, wrapper, tls, usb, device, op, taken>>
    BY <1>7, SMTT(30) DEF vars
  <2>2. TypeInv' /\ PhaseInv'
    BY <2>1, SMTT(30) DEF LinkInv, TypeInv, PhaseInv
  <2>3. CallInv' /\ LayerInv' /\ FirstInv'
    BY <2>1 DEF LinkInv, CallInv, LayerInv, FirstInv, At
  <2>4. StreamInv'
    BY <2>1, StreamKept DEF LinkInv, Live
  <2> QED
    BY <2>2, <2>3, <2>4 DEF LinkInv
<1>8. CASE Unplug \/ Refuse \/ OpenLower \/ Configure \/ Write \/ LoseUnits \/ Stall \/ Handshaken \/ Transferred
  BY <1>8, UnplugKeeps, RefuseKeeps, OpenLowerKeeps, ConfigureKeeps, WriteKeeps, LoseUnitsKeeps, StallKeeps,
     HandshakenKeeps, TransferredKeeps
<1>9. CASE \/ OpenIdentity \/ CreateUsb \/ CreateTls \/ CreateTlsFails \/ Cleanup
           \/ RetryPending \/ DestroyInner \/ FreeContext \/ Release \/ NextProgram
  BY <1>9, OpenIdentityKeeps, CreateUsbKeeps, CreateTlsKeeps, CreateTlsFailsKeeps, CleanupKeeps,
     RetryPendingKeeps, DestroyInnerKeeps, FreeContextKeeps, ReleaseKeeps, NextProgramKeeps
<1> QED
  BY <1>2, <1>3, <1>4, <1>5, <1>6, <1>7, <1>8, <1>9 DEF Next

LEMMA LinkInvariant == Spec => []LinkInv
<1>1. Init => LinkInv
  BY LinkInit
<1>2. LinkInv /\ [Next]_vars => LinkInv'
  BY LinkStep
<1> QED
  BY <1>1, <1>2, PTL DEF Spec

(***************************************************************************)
(* encrypted_receive, receive_from_staging and the session's resets: for   *)
(* every packet size and every receive buffer, what one TLS session has    *)
(* been given is a stretch of one tunnel without a gap or a repeat, from   *)
(* the tunnel's first unit once the session is ready.                      *)
(***************************************************************************)
THEOREM SessionsReadOneTunnel == Spec => []BytesInOrder
<1>1. LinkInv => BytesInOrder
  <2> SUFFICES ASSUME LinkInv
               PROVE  BytesInOrder
    OBVIOUS
  <2>1. PICK t \in Nat, n \in Nat \ {0} : Consecutive(taken, t, n)
    BY DEF LinkInv, StreamInv
  <2>2. taken \in Seq(Unit)
    BY DEF LinkInv, TypeInv
  <2>3. ASSUME NEW i \in DOMAIN taken
        PROVE  taken[i] = <<taken[1][1], taken[1][2] + i - 1>>
    <3>1. i \in 1 .. Len(taken) /\ 1 \in 1 .. Len(taken)
      BY <2>2, <2>3
    <3>2. taken[i] = <<t, n + i - 1>> /\ taken[1] = <<t, n + 1 - 1>>
      BY <2>1, <3>1 DEF Consecutive
    <3>3. n + 1 - 1 = n
      OBVIOUS
    <3>4. taken[1][1] = t /\ taken[1][2] = n
      BY <3>2, <3>3
    <3> QED
      BY <3>2, <3>4
  <2>4. tls.state = "ready" => taken[1][2] = 1
    BY DEF LinkInv, FirstInv
  <2> QED
    BY <2>3, <2>4 DEF BytesInOrder
<1> QED
  BY <1>1, LinkInvariant, PTL

(***************************************************************************)
(* begin_deadline, end_deadline and the transports' open and close: no     *)
(* call finds the deadline of an earlier one, and between calls the line   *)
(* to the Pico is up only for an open transport, unless both the control   *)
(* transfer and the port reset failed.                                     *)
(***************************************************************************)
THEOREM CallsAreSelfContained == Spec => []CallsLeaveNothing
<1>1. LinkInv => CallsLeaveNothing
  BY DEF LinkInv, CallInv, LayerInv, PhaseInv, CallsLeaveNothing
<1> QED
  BY <1>1, LinkInvariant, PTL

(***************************************************************************)
(* UefiMain's cleanup and PbnsTlsTransportDestroy, for every number of     *)
(* attempts: what an active owner of the TLS transport calls into is not   *)
(* freed before it, and a program without an owner leaves nothing.         *)
(***************************************************************************)
THEOREM DependenciesOutlive == Spec => []UsersOutlived
<1>1. LinkInv => UsersOutlived
  BY DEF LinkInv, PhaseInv, UsersOutlived
<1> QED
  BY <1>1, LinkInvariant, PTL

=============================================================================
