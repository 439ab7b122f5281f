---------------------------- MODULE MeasuredBoot ----------------------------
(***************************************************************************)
(* Capturing measured-boot evidence (src/core/measured_boot.c) while the   *)
(* firmware can go on measuring: the event log is copied first, then the   *)
(* selected PCRs are read in chunks, at least twice, until two reads       *)
(* agree.                                                                  *)
(*                                                                         *)
(* An event is the index of the PCR it extends.  A PCR's value is          *)
(* determined by the events that extended it in order; two values of one   *)
(* PCR are equal exactly when as many events went into them, so a value is *)
(* that number.  log holds the events since the application started.       *)
(***************************************************************************)
EXTENDS Naturals, Sequences, FiniteSets

CONSTANTS MaxEvents  \* bound on the events measured during a behaviour

ASSUME MeasuredBootAssumption == MaxEvents \in Nat

VARIABLES log,     \* TCG event log; its length moves with the PCR update counter
          capture  \* pbns_measured_boot_capture_evidence's locals, then its result

bootVars == <<log, capture>>

(* The selection, read one PCR to a chunk. *)
Pcrs == {1, 2}

NoCapture == [pc |-> "idle"]
CaptureFailed == [pc |-> "failed"]
NotRead == [counter |-> 0, value |-> 0, read |-> FALSE]

BootInit == log = <<>> /\ capture = NoCapture

(* Firmware or a driver measures an event: the log and the PCR move together. *)
Measure(p) == Len(log) < MaxEvents /\ log' = Append(log, p) /\ UNCHANGED capture

Value(l, p) == Cardinality({i \in DOMAIN l : l[i] = p})

(* Replaying a log, PCR by PCR. *)
Replay(l) == [p \in Pcrs |-> Value(l, p)]

(* The log and the final-events table are located, checked and copied. *)
CaptureLog ==
  /\ capture = NoCapture
  /\ capture' = [pc |-> "read", log |-> log, nth |-> 1, retry |-> FALSE, first |-> <<>>, part |-> NotRead]
  /\ UNCHANGED log

(* The first chunk of a snapshot fixes its update counter. *)
ReadFirstChunk ==
  /\ capture.pc = "read" /\ ~ capture.part.read
  /\ capture' = [capture EXCEPT !.part = [counter |-> Len(log), value |-> Value(log, 1), read |-> TRUE]]
  /\ UNCHANGED log

(* A later chunk must carry the counter of the first. *)
ChunksAgree(part) == part.counter = Len(log)

Snapshot == [counter |-> capture.part.counter, values |-> [p \in Pcrs |-> IF p = 1 THEN capture.part.value ELSE Value(log, p)]]

(* A snapshot torn by an event is read once more, over the whole capture. *)
Torn == IF capture.retry THEN CaptureFailed ELSE [capture EXCEPT !.retry = TRUE, !.part = NotRead]

(* A whole snapshot: two that agree in a row are the evidence; the first    *)
(* pair may differ, and then the third read must agree with the second.     *)
Whole(s) ==
  IF capture.nth > 1 /\ capture.first = s THEN [pc |-> "done", log |-> capture.log, pcrs |-> s.values]
  ELSE IF capture.nth = 3 THEN CaptureFailed
  ELSE [capture EXCEPT !.nth = @ + 1, !.first = s, !.part = NotRead]

ReadLastChunk ==
  /\ capture.pc = "read" /\ capture.part.read
  /\ capture' = IF ChunksAgree(capture.part) THEN Whole(Snapshot) ELSE Torn
  /\ UNCHANGED log

(* A selection out of order, of another bank, or not the challenge's. *)
RefuseSelection == capture = NoCapture /\ capture' = CaptureFailed /\ UNCHANGED log

(* A truncated or malformed log or final-events table. *)
RefuseLog == capture = NoCapture /\ capture' = CaptureFailed /\ UNCHANGED log

(* A TPM command that fails. *)
FailChunk == capture.pc = "read" /\ capture' = CaptureFailed /\ UNCHANGED log

CaptureStep == CaptureLog \/ ReadFirstChunk \/ ReadLastChunk \/ RefuseSelection \/ RefuseLog \/ FailChunk
=============================================================================
