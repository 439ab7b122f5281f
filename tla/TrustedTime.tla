----------------------------- MODULE TrustedTime -----------------------------
(***************************************************************************)
(* The trusted-time query of a host (src/core/trusted_time.c) and the      *)
(* gateway service that answers it.  The host has no wall clock it trusts: *)
(* it turns the gateway's signed assertion, the uncertainty in it and the  *)
(* round trip it measured into an interval.                                *)
(*                                                                         *)
(* Time passes in ticks, shorter than the millisecond in which the host    *)
(* reads its clock, so that a read can fall anywhere in a millisecond.     *)
(* The gateway's clock is the reference the tick counter stands for.       *)
(* A request, its signature and the signed assertion are not represented:  *)
(* an assertion for another request, host, nonce or key fails the query.   *)
(***************************************************************************)
EXTENDS Naturals

CONSTANTS TicksPerMs,   \* ticks in the millisecond the host's clock counts
          MaxTime,      \* bound on the ticks of a behaviour
          MaxRoundTrip, \* maximum_round_trip_ms of the client
          Uncertainty   \* TimeUncertainty of the gateway, in ticks

ASSUME TrustedTimeAssumption ==
  /\ TicksPerMs \in Nat \ {0} /\ MaxTime \in Nat
  /\ MaxRoundTrip \in Nat \ {0} /\ Uncertainty \in Nat

VARIABLES now,   \* ticks since the host's clock was first read
          query  \* pbns_trusted_time_query's locals, then its result

timeVars == <<now, query>>

NoQuery == [pc |-> "idle"]
NoInterval == [pc |-> "failed"]

TimeInit == now = 0 /\ query = NoQuery

Tick == now < MaxTime /\ now' = now + 1 /\ UNCHANGED query

(* pbns_uefi_clock_elapsed_ms: whole milliseconds only. *)
Ms(t) == t \div TicksPerMs

(* The request is made and signed, and the clock read, before the exchange. *)
BeginQuery ==
  /\ query = NoQuery
  /\ query' = [pc |-> "exchange", started |-> Ms(now)]
  /\ UNCHANGED now

(* Service.Handle: the host's signature verified, the gateway's clock is    *)
(* read and the assertion signed.                                          *)
AssertTime ==
  /\ query.pc = "exchange"
  /\ query' = [pc |-> "answered", started |-> query.started, asserted |-> now]
  /\ UNCHANGED now

(* pbns_time_interval_from_assertion, for a round trip in milliseconds. *)
without_the_round_trip(asserted, rtt) ==
  [earliest |-> asserted - Uncertainty, latest |-> asserted + Uncertainty]
IntervalFromAssertion(asserted, rtt) ==
  [earliest |-> asserted - Uncertainty, latest |-> asserted + rtt * TicksPerMs + Uncertainty]

(* pbns_trusted_time_accept_verified_assertion.  No caller passes a         *)
(* previous interval, so its replay test is left out.                      *)
AcceptAssertion(asserted, rtt) ==
  IF rtt > MaxRoundTrip \/ Uncertainty > asserted THEN NoInterval
  ELSE LET i == IntervalFromAssertion(asserted, rtt)
       IN [pc |-> "interval", earliest |-> i.earliest, latest |-> i.latest, at |-> now]

(* The clock is read again after the exchange and the assertion accepted.  *)
EndQuery ==
  /\ query.pc = "answered"
  /\ query' = AcceptAssertion(query.asserted, Ms(now) - query.started)
  /\ UNCHANGED now

(* No randomness, no encoding or no signature: nothing was sent. *)
NoRequest == query = NoQuery /\ query' = NoInterval /\ UNCHANGED now

(* The broker's timeout, an error answered, an empty or oversized response. *)
NoAnswer == query.pc \in {"exchange", "answered"} /\ query' = NoInterval /\ UNCHANGED now

(* An assertion that is not for this request, host, nonce and key, is not   *)
(* in its one canonical encoding, or repeats another maximum age.           *)
RefuseAssertion == query.pc = "answered" /\ query' = NoInterval /\ UNCHANGED now

QueryStep == BeginQuery \/ AssertTime \/ EndQuery \/ NoRequest \/ NoAnswer \/ RefuseAssertion

(* The interval a query returns (trusted_time.c, query and                 *)
(* interval_from_assertion) holds the gateway's time at the moment it      *)
(* returns, up to the millisecond that reading the host's clock in whole   *)
(* milliseconds can hide of the round trip.                                *)
IntervalEncloses ==
  query.pc = "interval" => query.earliest <= query.at /\ query.at < query.latest + TicksPerMs
=============================================================================
