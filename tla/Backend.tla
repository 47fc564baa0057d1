------------------------------ MODULE Backend ------------------------------
(***************************************************************************)
(* One backend of a pool as a record, with the three mechanisms that       *)
(* decide whether it may get a request: active health, outlier ejection    *)
(* and the circuit breaker, and with the EWMA latency layer that ejects    *)
(* and ramps.  Every operation is one of the pool's loop bodies or one of  *)
(* its per-index methods.                                                  *)
(*                                                                         *)
(* Left out: the name (the ring's parameter), the upstream (its answers    *)
(* are inputs), and the statistics served, ejections and ewma_ejections,   *)
(* which nothing reads back.  Three counters stop at the threshold they    *)
(* are compared with, since nothing tells larger values apart.             *)
(***************************************************************************)
EXTENDS Breaker

CONSTANTS
    ProbeIntervalMs, UnhealthyProbeThreshold, HealthyProbeThreshold,
    OutlierConsecutiveFailures, EjectionBaseMs, StartHealthy,
    AlphaMilli, FactorMilli, WindowMs, MinSamples, EwmaEjectionMs,
    ReinstatePercent, RampWindowMs,
    MaxEwma     \* stands for u64::MAX in the latency arithmetic

ASSUME HealthAssumption ==
    /\ ProbeIntervalMs \in Nat /\ EjectionBaseMs \in Nat
    /\ UnhealthyProbeThreshold \in Nat /\ HealthyProbeThreshold \in Nat
    /\ OutlierConsecutiveFailures \in Nat
    /\ StartHealthy \in BOOLEAN

ASSUME EwmaAssumption ==
    /\ AlphaMilli \in Nat /\ FactorMilli \in Nat /\ WindowMs \in Nat
    /\ MinSamples \in Nat /\ EwmaEjectionMs \in Nat
    /\ ReinstatePercent \in Nat /\ RampWindowMs \in Nat
    /\ MaxEwma \in Nat

Capped(n, cap) == IF n > cap THEN cap ELSE n

UpTo(threshold) == 0 .. AtLeastOne(threshold)

\* One more, as far as the threshold.
CountTo(n, threshold) == Capped(n + 1, AtLeastOne(threshold))

BackendType ==
    [weight             : Nat,
     in_flight          : Nat,
     healthy            : BOOLEAN,
     probe_failures     : UpTo(UnhealthyProbeThreshold),
     probe_successes    : UpTo(HealthyProbeThreshold),
     last_probe         : OptMillis,
     outlier_failures   : UpTo(OutlierConsecutiveFailures),
     ejected_until      : OptMillis,
     breaker            : BreakerType,
     current_weight     : Int,
     latency_ewma_milli : 0 .. MaxEwma \cup {None},
     ewma_samples       : Nat,
     over_since         : OptMillis,
     over_since_samples : Nat,
     ramp_percent       : 1 .. 100,
     last_ramp_step     : OptMillis]

NewBackend(weight) ==
    [weight |-> weight, in_flight |-> 0, healthy |-> StartHealthy,
     probe_failures |-> 0, probe_successes |-> 0, last_probe |-> None,
     outlier_failures |-> 0, ejected_until |-> None, breaker |-> NewBreaker,
     current_weight |-> 0, latency_ewma_milli |-> None, ewma_samples |-> 0,
     over_since |-> None, over_since_samples |-> 0, ramp_percent |-> 100,
     last_ramp_step |-> None]

IsEjected(b, t) == b.ejected_until # None /\ t < b.ejected_until

IsAvailable(b, t) ==
    /\ b.healthy
    /\ ~IsEjected(b, t)
    /\ Admits(b.breaker, t, b.in_flight)

-----------------------------------------------------------------------------
\* The three stages poll() takes a backend through after its breaker.

\* Mutant: the deadline must be exceeded, not reached.
EjectionPast(b, t) == b.ejected_until # None /\ t > b.ejected_until

EjectionOver(b, t) == b.ejected_until # None /\ t >= b.ejected_until

Reinstate(b, t, ewma) ==
    IF ~EjectionOver(b, t) THEN b
    ELSE LET r == [b EXCEPT !.ejected_until = None, !.outlier_failures = 0]
         IN  IF ewma
             THEN [r EXCEPT !.ramp_percent = AtLeastOne(Capped(ReinstatePercent, 100)),
                            !.last_ramp_step = t]
             ELSE r

\* Mutant: every poll is a step of the ramp.
RampAtEveryPoll(b, t) == b.ejected_until = None /\ b.ramp_percent < 100

RampDue(b, t) ==
    /\ b.ejected_until = None /\ b.ramp_percent < 100
    /\ b.last_ramp_step # None => SatSub(t, b.last_ramp_step) >= RampWindowMs

RampUp(b, t) ==
    IF RampDue(b, t)
    THEN [b EXCEPT !.ramp_percent = Capped(2 * @, 100), !.last_ramp_step = t]
    ELSE b

\* Mutant: a backend on the line is over it.
OnOrOverLine(b, line) ==
    /\ b.ewma_samples >= MinSamples
    /\ (IF b.latency_ewma_milli = None THEN 0 ELSE b.latency_ewma_milli) >= line

OverLine(b, line) ==
    /\ b.ewma_samples >= MinSamples
    /\ (IF b.latency_ewma_milli = None THEN 0 ELSE b.latency_ewma_milli) > line

\* Mutant: only the time over the line counts, not the samples.
LongOver(b, t) == SatSub(t, b.over_since) >= WindowMs

SustainedOver(b, t) ==
    /\ SatSub(t, b.over_since) >= WindowMs
    /\ SatSub(b.ewma_samples, b.over_since_samples) >= MinSamples

\* Mutant: an ejected backend is judged as well.
JudgeEveryone(b, t, line) ==
    CASE ~OverLine(b, line) -> [b EXCEPT !.over_since = None]
      [] OverLine(b, line) /\ b.over_since = None ->
            [b EXCEPT !.over_since = t, !.over_since_samples = b.ewma_samples]
      [] OverLine(b, line) /\ b.over_since # None ->
            IF SustainedOver(b, t)
            THEN [b EXCEPT !.ejected_until = SatAdd(t, EwmaEjectionMs),
                           !.over_since = None]
            ELSE b

JudgeLatency(b, t, line) ==
    CASE b.ejected_until # None -> b
      [] b.ejected_until = None /\ ~OverLine(b, line) ->
            [b EXCEPT !.over_since = None]
      [] b.ejected_until = None /\ OverLine(b, line) /\ b.over_since = None ->
            [b EXCEPT !.over_since = t, !.over_since_samples = b.ewma_samples]
      [] b.ejected_until = None /\ OverLine(b, line) /\ b.over_since # None ->
            IF SustainedOver(b, t)
            THEN [b EXCEPT !.ejected_until = SatAdd(t, EwmaEjectionMs),
                           !.over_since = None]
            ELSE b

PollBackend(b, t, ewma, line) ==
    LET r == Reinstate([b EXCEPT !.breaker = BreakerPoll(@, t)], t, ewma)
    IN  IF ewma THEN JudgeLatency(RampUp(r, t), t, line) ELSE r

-----------------------------------------------------------------------------
RecordSuccess(b, t) ==
    [b EXCEPT !.outlier_failures = 0, !.breaker = OnSuccess(@, t)]

\* A latency of MaxEwma milliseconds or more saturates when scaled.
Fold(ewma, latency) ==
    LET sample == Capped(latency * 1000, MaxEwma)
        alpha  == Capped(AlphaMilli, 1000)
    IN  IF ewma = None THEN sample
        ELSE Capped((alpha * sample + (1000 - alpha) * ewma) \div 1000, MaxEwma)

RecordSuccessLatency(b, t, ewma, latency) ==
    IF ewma
    THEN [RecordSuccess(b, t) EXCEPT
            !.latency_ewma_milli = Fold(@, latency), !.ewma_samples = @ + 1]
    ELSE RecordSuccess(b, t)

\* Mutant: failures during an ejection extend it.
RecordFailureAnew(b, t) ==
    LET c == [b EXCEPT !.breaker = OnFailure(@, t),
                       !.outlier_failures = CountTo(@, OutlierConsecutiveFailures)]
    IN  IF c.outlier_failures >= OutlierConsecutiveFailures
        THEN [c EXCEPT !.ejected_until = SatAdd(t, EjectionBaseMs)]
        ELSE c

RecordFailure(b, t) ==
    LET c == [b EXCEPT !.breaker = OnFailure(@, t),
                       !.outlier_failures = CountTo(@, OutlierConsecutiveFailures)]
    IN  IF c.outlier_failures >= OutlierConsecutiveFailures /\ ~IsEjected(b, t)
        THEN [c EXCEPT !.ejected_until = SatAdd(t, EjectionBaseMs)]
        ELSE c

-----------------------------------------------------------------------------
\* Mutant: more than an interval must have passed.
ProbeOverdue(b, t) ==
    b.last_probe # None => SatSub(t, b.last_probe) > ProbeIntervalMs

ProbeDue(b, t) ==
    b.last_probe # None => SatSub(t, b.last_probe) >= ProbeIntervalMs

\* Mutant: a good probe does not end a run of bad ones.
ProbeLiveForgetsNothing(b) ==
    LET c == [b EXCEPT !.probe_successes = CountTo(@, HealthyProbeThreshold)]
    IN  IF ~b.healthy /\ c.probe_successes >= HealthyProbeThreshold
        THEN [c EXCEPT !.healthy = TRUE, !.probe_successes = 0]
        ELSE c

ProbeLive(b) ==
    LET c == [b EXCEPT !.probe_failures = 0,
                       !.probe_successes = CountTo(@, HealthyProbeThreshold)]
    IN  IF ~b.healthy /\ c.probe_successes >= HealthyProbeThreshold
        THEN [c EXCEPT !.healthy = TRUE, !.probe_successes = 0]
        ELSE c

ProbeDead(b) ==
    LET c == [b EXCEPT !.probe_successes = 0,
                       !.probe_failures = CountTo(@, UnhealthyProbeThreshold)]
    IN  IF b.healthy /\ c.probe_failures >= UnhealthyProbeThreshold
        THEN [c EXCEPT !.healthy = FALSE, !.probe_failures = 0]
        ELSE c

HealthCheckCatchesUp(b, t, live) ==
    IF ~ProbeDue(b, t) THEN b
    ELSE [(IF live THEN ProbeLive(b) ELSE ProbeDead(b)) EXCEPT
             !.last_probe = IF @ = None THEN t ELSE SatAdd(@, ProbeIntervalMs)]

HealthCheck(b, t, live) ==
    IF ~ProbeDue(b, t) THEN b
    ELSE [(IF live THEN ProbeLive(b) ELSE ProbeDead(b)) EXCEPT !.last_probe = t]
=============================================================================
