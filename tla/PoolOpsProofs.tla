--------------------------- MODULE PoolOpsProofs ---------------------------
(***************************************************************************)
(* What the operations of a breaker, of a backend and of a pool return and *)
(* what they leave alone, for every value of the constants.  The theorems  *)
(* about the modules that run pools rest on these lemmas.                  *)
(***************************************************************************)
EXTENDS PoolOps, NumberLemmas, TLAPS

USE MaxClockAssumption, BreakerAssumption

-----------------------------------------------------------------------------
\* The breaker.

\* The time arithmetic stays in the clock range (clock.rs).
LEMMA SatTypes ==
    ASSUME NEW a \in Millis, NEW d \in Nat
    PROVE  SatAdd(a, d) \in Millis /\ SatSub(a, d) \in Millis
BY DEF SatAdd, SatSub, Millis

LEMMA ZeroCount == ASSUME NEW n \in Nat PROVE 0 \in CountsBelow(n)
BY DEF CountsBelow, AtLeastOne

\* A breaker whose cooldown, if it is open, is not over: what poll() leaves.
Settled(b, t) == b.state = "Open" => ~CooledDown(b, t)

\* Polling keeps the record well formed and settles it (breaker.rs poll).
LEMMA PolledBreaker ==
    ASSUME NEW b \in BreakerType, NEW t \in Millis
    PROVE  BreakerPoll(b, t) \in BreakerType /\ Settled(BreakerPoll(b, t), t)
<1>1. BreakerPoll(b, t) \in BreakerType
  BY ZeroCount DEF BreakerType, BreakerPoll, BreakerStates
<1>2. Settled(BreakerPoll(b, t), t)
  BY DEF Settled, BreakerPoll, BreakerType
<1> QED BY <1>1, <1>2

LEMMA TripType ==
    ASSUME NEW b \in BreakerType, NEW t \in Millis
    PROVE  Trip(b, t) \in BreakerType
BY ZeroCount DEF BreakerType, Trip, BreakerStates

\* A circuit that has just been opened has no cooldown behind it, unless the
\* cooldown is no time at all (breaker.rs trip).
LEMMA TripSettled ==
    ASSUME NEW b \in BreakerType, NEW t \in Millis, CooldownMs > 0
    PROVE  Settled(Trip(b, t), t)
BY DEF Settled, Trip, CooledDown, SatSub, Millis

LEMMA CountType ==
    ASSUME NEW b \in BreakerType, NEW t \in Millis
    PROVE  CountSuccess(b) \in BreakerType /\ CountFailure(b, t) \in BreakerType
<1>1. CountSuccess(b) \in BreakerType
  <2>1. CASE b.consecutive_successes + 1 >= SuccessThreshold
    BY <2>1, ZeroCount DEF BreakerType, CountSuccess, BreakerStates
  <2>2. CASE ~(b.consecutive_successes + 1 >= SuccessThreshold)
    BY <2>2 DEF BreakerType, CountSuccess, BreakerStates, CountsBelow, AtLeastOne
  <2> QED BY <2>1, <2>2
<1>2. CountFailure(b, t) \in BreakerType
  <2>1. CASE b.consecutive_failures + 1 >= FailureThreshold
    BY <2>1, TripType DEF CountFailure
  <2>2. CASE ~(b.consecutive_failures + 1 >= FailureThreshold)
    BY <2>2 DEF BreakerType, CountFailure, BreakerStates, CountsBelow, AtLeastOne
  <2> QED BY <2>1, <2>2
<1> QED BY <1>1, <1>2

\* An outcome keeps the record well formed, and settled if it opens the
\* circuit for some time (breaker.rs on_success, on_failure).
LEMMA OutcomeBreaker ==
    ASSUME NEW b \in BreakerType, NEW t \in Millis
    PROVE  /\ OnSuccess(b, t) \in BreakerType /\ Settled(OnSuccess(b, t), t)
           /\ OnFailure(b, t) \in BreakerType
           /\ CooldownMs > 0 => Settled(OnFailure(b, t), t)
<1>1. PICK p \in BreakerType : p = BreakerPoll(b, t)
  BY PolledBreaker
<1>2. Settled(p, t) /\ p.state \in {"Closed", "HalfOpen", "Open"}
  BY <1>1, PolledBreaker DEF BreakerType, BreakerStates
<1>3. CASE p.state = "Closed"
  <2>1. [p EXCEPT !.consecutive_failures = 0] \in BreakerType
    BY ZeroCount DEF BreakerType
  <2>2. CountFailure(p, t).state = "Open" => CountFailure(p, t) = Trip(p, t)
    BY <1>3 DEF CountFailure, BreakerType
  <2>3. CooldownMs > 0 => Settled(CountFailure(p, t), t)
    BY <2>2, TripSettled DEF Settled
  <2>4. OnSuccess(b, t) = [p EXCEPT !.consecutive_failures = 0]
        /\ OnFailure(b, t) = CountFailure(p, t)
    BY <1>1, <1>3 DEF OnSuccess, OnFailure
  <2>5. Settled([p EXCEPT !.consecutive_failures = 0], t)
    BY <1>3 DEF Settled, BreakerType
  <2> QED BY <2>1, <2>3, <2>4, <2>5, CountType
<1>4. CASE p.state = "HalfOpen"
  <2>1. OnSuccess(b, t) = CountSuccess(p) /\ OnFailure(b, t) = Trip(p, t)
    BY <1>1, <1>4 DEF OnSuccess, OnFailure
  <2>2. CountSuccess(p).state # "Open"
    BY <1>4 DEF CountSuccess, BreakerType
  <2> QED BY <2>1, <2>2, CountType, TripType, TripSettled DEF Settled
<1>5. CASE p.state = "Open"
  BY <1>1, <1>2, <1>5 DEF OnSuccess, OnFailure
<1> QED BY <1>2, <1>3, <1>4, <1>5
-----------------------------------------------------------------------------
\* The backend.

LEMMA NewBackendType ==
    ASSUME NEW w \in Nat
    PROVE  /\ NewBackend(w) \in BackendType
           /\ \A t : Settled(NewBackend(w).breaker, t)
<1>1. NewBreaker \in BreakerType
  BY ZeroCount DEF NewBreaker, BreakerType, BreakerStates, Millis
<1>2. \A n \in Nat : 0 \in UpTo(n)
  BY DEF UpTo, AtLeastOne
<1> QED BY <1>1, <1>2, HealthAssumption, EwmaAssumption
        DEF NewBackend, BackendType, OptMillis, Settled, NewBreaker

LEMMA CountToType ==
    ASSUME NEW threshold \in Nat, NEW n \in UpTo(threshold)
    PROVE  0 \in UpTo(threshold) /\ CountTo(n, threshold) \in UpTo(threshold)
BY DEF UpTo, CountTo, Capped, AtLeastOne

\* What the stages of a poll and the outcomes of calls have in common: the
\* administrative and health fields and the calls in flight stay as they are.
SameStanding(b, c) ==
    /\ c.weight = b.weight /\ c.in_flight = b.in_flight
    /\ c.healthy = b.healthy /\ c.last_probe = b.last_probe
    /\ c.probe_failures = b.probe_failures /\ c.probe_successes = b.probe_successes

\* A backend is not let back before its deadline, and nobody moves it.
KeepsEjection(b, c, t) == IsEjected(b, t) => c.ejected_until = b.ejected_until

\* The first stage of poll() (pool.rs poll).
LEMMA ReinstateStage ==
    ASSUME NEW b \in BackendType, NEW t \in Millis, NEW ewma \in BOOLEAN,
           NEW c, c = Reinstate(b, t, ewma)
    PROVE  /\ c \in BackendType /\ c.breaker = b.breaker
           /\ SameStanding(b, c) /\ KeepsEjection(b, c, t)
<1>0. b.ejected_until \in OptMillis /\ t \in Int
  BY DEF BackendType, Millis
<1>1. CASE ~EjectionOver(b, t)
  BY <1>1 DEF Reinstate, SameStanding, KeepsEjection
<1>2. CASE EjectionOver(b, t)
  <2>1. 0 \in UpTo(OutlierConsecutiveFailures) /\ None \in OptMillis /\ t \in OptMillis
    BY HealthAssumption DEF UpTo, AtLeastOne, OptMillis
  <2>2. PICK r \in 1 .. 100 : r = AtLeastOne(Capped(ReinstatePercent, 100))
    BY EwmaAssumption DEF AtLeastOne, Capped
  <2>3. ~IsEjected(b, t)
    BY <1>0, <1>2 DEF IsEjected, EjectionOver, OptMillis, Millis, None
  <2>4. PICK d : d = [b EXCEPT !.ejected_until = None, !.outlier_failures = 0]
    OBVIOUS
  <2>5. d \in BackendType /\ d.breaker = b.breaker /\ SameStanding(b, d)
    BY <2>1, <2>4 DEF BackendType, SameStanding
  <2>6. CASE ewma
    <3>1. c = [d EXCEPT !.ramp_percent = r, !.last_ramp_step = t]
      BY <1>2, <2>2, <2>4, <2>6 DEF Reinstate
    <3>2. c \in BackendType /\ c.breaker = d.breaker /\ SameStanding(d, c)
      BY <2>1, <2>5, <3>1, ZenonT(60) DEF BackendType, SameStanding
    <3> QED BY <2>3, <2>5, <3>2 DEF SameStanding, KeepsEjection
  <2>7. CASE ~ewma
    BY <1>2, <2>3, <2>4, <2>5, <2>7 DEF Reinstate, KeepsEjection
  <2> QED BY <2>6, <2>7
<1> QED BY <1>1, <1>2

\* The second stage (pool.rs poll).
LEMMA RampStage ==
    ASSUME NEW b \in BackendType, NEW t \in Millis, NEW c, c = RampUp(b, t)
    PROVE  /\ c \in BackendType /\ c.breaker = b.breaker
           /\ SameStanding(b, c) /\ KeepsEjection(b, c, t)
<1>1. CASE ~RampDue(b, t)
  BY <1>1 DEF RampUp, SameStanding, KeepsEjection
<1>2. CASE RampDue(b, t)
  <2>1. Capped(2 * b.ramp_percent, 100) \in 1 .. 100 /\ t \in OptMillis
    BY DEF BackendType, Capped, OptMillis
  <2>2. c = [b EXCEPT !.ramp_percent = Capped(2 * b.ramp_percent, 100),
                      !.last_ramp_step = t]
    BY <1>2 DEF RampUp, BackendType
  <2> QED BY <2>1, <2>2, ZenonT(60) DEF BackendType, SameStanding, KeepsEjection
<1> QED BY <1>1, <1>2

\* The third stage, whatever the line (pool.rs poll_ewma).
LEMMA JudgeStage ==
    ASSUME NEW b \in BackendType, NEW t \in Millis, NEW line,
           NEW c, c = JudgeLatency(b, t, line)
    PROVE  /\ c \in BackendType /\ c.breaker = b.breaker
           /\ SameStanding(b, c) /\ KeepsEjection(b, c, t)
<1>0. None \in OptMillis /\ t \in OptMillis
  BY DEF OptMillis
<1>u. PICK u \in OptMillis : u = SatAdd(t, EwmaEjectionMs)
  BY SatTypes, EwmaAssumption DEF OptMillis
<1>n. PICK n \in Nat : n = b.ewma_samples
  BY DEF BackendType
<1>1. CASE b.ejected_until # None
  BY <1>1 DEF JudgeLatency, SameStanding, KeepsEjection
<1>2. CASE b.ejected_until = None
  <2>1. ~IsEjected(b, t)
    BY <1>2 DEF IsEjected
  <2>2. \/ c = b
        \/ c = [b EXCEPT !.over_since = None]
        \/ c = [b EXCEPT !.over_since = t, !.over_since_samples = n]
        \/ c = [b EXCEPT !.ejected_until = u, !.over_since = None]
    <3>1. CASE ~OverLine(b, line)
      BY <1>2, <3>1 DEF JudgeLatency
    <3>2. CASE OverLine(b, line) /\ b.over_since = None
      BY <1>2, <1>n, <3>2 DEF JudgeLatency
    <3>3. CASE OverLine(b, line) /\ b.over_since # None
      BY <1>2, <1>u, <3>3 DEF JudgeLatency
    <3> QED BY <3>1, <3>2, <3>3
  <2>3. c \in BackendType
    <3>1. [b EXCEPT !.over_since = None] \in BackendType
      BY <1>0 DEF BackendType
    <3>2. [b EXCEPT !.over_since = t, !.over_since_samples = n] \in BackendType
      BY <1>0 DEF BackendType
    <3>3. [b EXCEPT !.ejected_until = u, !.over_since = None] \in BackendType
      BY <1>0, <1>u DEF BackendType
    <3> QED BY <2>2, <3>1, <3>2, <3>3
  <2>4. c.breaker = b.breaker /\ SameStanding(b, c)
    BY <2>2, ZenonT(60) DEF BackendType, SameStanding
  <2> QED BY <2>1, <2>3, <2>4 DEF KeepsEjection
<1> QED BY <1>1, <1>2

\* The loop body of poll() as a whole: the breaker is settled, and who stands
\* where and who is ejected until when does not change (pool.rs poll).
LEMMA PolledBackend ==
    ASSUME NEW b \in BackendType, NEW t \in Millis, NEW ewma \in BOOLEAN,
           NEW line, NEW c, c = PollBackend(b, t, ewma, line)
    PROVE  /\ c \in BackendType /\ c.breaker = BreakerPoll(b.breaker, t)
           /\ Settled(c.breaker, t)
           /\ SameStanding(b, c) /\ KeepsEjection(b, c, t)
<1> DEFINE Kept(x, y) == /\ y.breaker = x.breaker /\ SameStanding(x, y)
                         /\ KeepsEjection(x, y, t)
<1>1. PICK k \in BreakerType : k = BreakerPoll(b.breaker, t) /\ Settled(k, t)
  BY PolledBreaker DEF BackendType
<1>2. PICK d : d = [b EXCEPT !.breaker = k]
  OBVIOUS
<1>3. /\ d \in BackendType /\ d.breaker = k /\ SameStanding(b, d)
      /\ d.ejected_until = b.ejected_until
  BY <1>1, <1>2 DEF BackendType, SameStanding
<1>4. PICK r : r = Reinstate(d, t, ewma)
  OBVIOUS
<1>5. r \in BackendType /\ Kept(d, r)
  BY <1>3, <1>4, ReinstateStage
<1>6. c = IF ewma THEN JudgeLatency(RampUp(r, t), t, line) ELSE r
  BY <1>1, <1>2, <1>4 DEF PollBackend, BackendType
<1>7. PICK u : u = RampUp(r, t)
  OBVIOUS
<1>8. u \in BackendType /\ Kept(r, u)
  BY <1>5, <1>7, RampStage
<1>9. PICK j : j = JudgeLatency(u, t, line)
  OBVIOUS
<1>10. j \in BackendType /\ Kept(u, j)
  BY <1>8, <1>9, JudgeStage
<1>11. c = r \/ c = j
  BY <1>6, <1>7, <1>9
<1> QED BY <1>1, <1>3, <1>5, <1>8, <1>10, <1>11 DEF SameStanding, KeepsEjection, IsEjected

\* The EWMA stays in the range of the latency arithmetic (pool.rs record_latency).
LEMMA FoldType ==
    ASSUME NEW ewma \in 0 .. MaxEwma \cup {None}, NEW latency \in Nat
    PROVE  Fold(ewma, latency) \in 0 .. MaxEwma
<1>1. PICK s \in 0 .. MaxEwma : s = Capped(latency * 1000, MaxEwma)
  BY EwmaAssumption DEF Capped
<1>2. PICK a \in 0 .. 1000 : a = Capped(AlphaMilli, 1000)
  BY EwmaAssumption DEF Capped
<1>3. CASE ewma = None
  BY <1>1, <1>3 DEF Fold
<1>4. CASE ewma # None
  <2>1. PICK e \in Nat : e = ewma
    BY <1>4, EwmaAssumption
  <2>2. PICK x \in Nat : x = a * s
    BY EwmaAssumption
  <2>3. PICK y \in Nat : y = (1000 - a) * e
    <3>1. 1000 - a \in Nat
      OBVIOUS
    <3> QED BY <3>1
  <2>4. Fold(ewma, latency) = Capped((x + y) \div 1000, MaxEwma)
    BY <1>1, <1>2, <1>4, <2>1, <2>2, <2>3 DEF Fold
  <2>5. (x + y) \div 1000 \in Nat
    OBVIOUS
  <2> QED BY <2>4, <2>5, EwmaAssumption DEF Capped
<1> QED BY <1>3, <1>4

\* A success heard: only the breaker and the run of failures change, and the
\* latency with its count if one is recorded (pool.rs record_success,
\* record_success_latency).
LEMMA SucceededBackend ==
    ASSUME NEW b \in BackendType, NEW t \in Millis, NEW ewma \in BOOLEAN,
           NEW latency \in Nat,
           NEW c, c = RecordSuccess(b, t) \/ c = RecordSuccessLatency(b, t, ewma, latency)
    PROVE  /\ c \in BackendType /\ c.breaker = OnSuccess(b.breaker, t)
           /\ SameStanding(b, c) /\ c.ejected_until = b.ejected_until
<1>1. PICK k \in BreakerType : k = OnSuccess(b.breaker, t)
  BY OutcomeBreaker DEF BackendType
<1>2. PICK d : d = RecordSuccess(b, t)
  OBVIOUS
<1>3. d = [b EXCEPT !.outlier_failures = 0, !.breaker = k]
  BY <1>1, <1>2 DEF RecordSuccess, BackendType
<1>4. 0 \in UpTo(OutlierConsecutiveFailures)
  BY HealthAssumption DEF UpTo, AtLeastOne
<1>5. /\ d \in BackendType /\ d.breaker = k
      /\ SameStanding(b, d) /\ d.ejected_until = b.ejected_until
  BY <1>3, <1>4 DEF BackendType, SameStanding
<1>6. ASSUME c = RecordSuccessLatency(b, t, ewma, latency), ewma
      PROVE  c \in BackendType /\ c.breaker = k
             /\ SameStanding(b, c) /\ c.ejected_until = b.ejected_until
  <2>1. PICK e \in 0 .. MaxEwma : e = Fold(d.latency_ewma_milli, latency)
    BY <1>5, FoldType DEF BackendType
  <2>2. PICK n \in Nat : n = d.ewma_samples + 1
    BY <1>5 DEF BackendType
  <2>3. c = [d EXCEPT !.latency_ewma_milli = e, !.ewma_samples = n]
    BY <1>2, <1>5, <1>6, <2>1, <2>2 DEF RecordSuccessLatency, BackendType
  <2>4. c \in BackendType
    BY <1>5, <2>3 DEF BackendType
  <2> QED BY <1>5, <2>3, <2>4 DEF BackendType, SameStanding
<1> QED BY <1>1, <1>2, <1>5, <1>6 DEF RecordSuccessLatency

\* A failure heard: it may eject, but not again who is ejected (pool.rs
\* record_failure).
LEMMA FailedBackend ==
    ASSUME NEW b \in BackendType, NEW t \in Millis, NEW c, c = RecordFailure(b, t)
    PROVE  /\ c \in BackendType /\ c.breaker = OnFailure(b.breaker, t)
           /\ SameStanding(b, c) /\ KeepsEjection(b, c, t)
<1>1. PICK k \in BreakerType : k = OnFailure(b.breaker, t)
  BY OutcomeBreaker DEF BackendType
<1>2. PICK n \in UpTo(OutlierConsecutiveFailures) :
          n = CountTo(b.outlier_failures, OutlierConsecutiveFailures)
  BY HealthAssumption, CountToType DEF BackendType
<1>3. PICK d : d = [b EXCEPT !.breaker = k, !.outlier_failures = n]
  OBVIOUS
<1>4. /\ d \in BackendType /\ d.breaker = k
      /\ SameStanding(b, d) /\ d.ejected_until = b.ejected_until
  BY <1>3 DEF BackendType, SameStanding
<1>5. PICK u \in OptMillis : u = SatAdd(t, EjectionBaseMs)
  BY SatTypes, HealthAssumption DEF OptMillis
<1>6. c = d \/ (~IsEjected(b, t) /\ c = [d EXCEPT !.ejected_until = u])
  BY <1>1, <1>2, <1>3, <1>5 DEF RecordFailure, BackendType
<1>7. CASE c = d
  BY <1>1, <1>4, <1>7 DEF KeepsEjection
<1>8. CASE ~IsEjected(b, t) /\ c = [d EXCEPT !.ejected_until = u]
  <2>1. c \in BackendType /\ c.breaker = d.breaker /\ SameStanding(d, c)
    BY <1>4, <1>8 DEF BackendType, SameStanding
  <2> QED BY <1>1, <1>4, <1>8, <2>1 DEF SameStanding, KeepsEjection
<1> QED BY <1>6, <1>7, <1>8

\* A probe touches health alone (pool.rs run_health_checks).
LEMMA CheckedBackend ==
    ASSUME NEW b \in BackendType, NEW t \in Millis, NEW live \in BOOLEAN,
           NEW c, c = HealthCheck(b, t, live)
    PROVE  /\ c \in BackendType /\ c.breaker = b.breaker
           /\ c.weight = b.weight /\ c.in_flight = b.in_flight
           /\ c.ejected_until = b.ejected_until
<1> DEFINE Kept(x, y) == /\ y \in BackendType /\ y.breaker = x.breaker
                         /\ y.weight = x.weight /\ y.in_flight = x.in_flight
                         /\ y.ejected_until = x.ejected_until
<1>1. CASE ~ProbeDue(b, t)
  BY <1>1 DEF HealthCheck
<1>2. CASE ProbeDue(b, t)
  <2>0. t \in OptMillis /\ 0 \in UpTo(HealthyProbeThreshold) /\ 0 \in UpTo(UnhealthyProbeThreshold)
    BY HealthAssumption, CountToType DEF OptMillis, UpTo, AtLeastOne
  <2>1. PICK l : l = ProbeLive(b)
    OBVIOUS
  <2>2. Kept(b, l)
    <3>1. PICK n \in UpTo(HealthyProbeThreshold) :
              n = CountTo(b.probe_successes, HealthyProbeThreshold)
      BY HealthAssumption, CountToType DEF BackendType
    <3>2. PICK d : d = [b EXCEPT !.probe_failures = 0, !.probe_successes = n]
      OBVIOUS
    <3>3. Kept(b, d)
      BY <2>0, <3>2 DEF BackendType
    <3>4. l = d \/ l = [d EXCEPT !.healthy = TRUE, !.probe_successes = 0]
      BY <2>1, <3>1, <3>2 DEF ProbeLive, BackendType
    <3> QED BY <2>0, <3>3, <3>4, ZenonT(60) DEF BackendType
  <2>3. PICK e : e = ProbeDead(b)
    OBVIOUS
  <2>4. Kept(b, e)
    <3>1. PICK n \in UpTo(UnhealthyProbeThreshold) :
              n = CountTo(b.probe_failures, UnhealthyProbeThreshold)
      BY HealthAssumption, CountToType DEF BackendType
    <3>2. PICK d : d = [b EXCEPT !.probe_successes = 0, !.probe_failures = n]
      OBVIOUS
    <3>3. Kept(b, d)
      BY <2>0, <3>2 DEF BackendType
    <3>4. e = d \/ e = [d EXCEPT !.healthy = FALSE, !.probe_failures = 0]
      BY <2>3, <3>1, <3>2 DEF ProbeDead, BackendType
    <3> QED BY <2>0, <3>3, <3>4, ZenonT(60) DEF BackendType
  <2>5. c = [l EXCEPT !.last_probe = t] \/ c = [e EXCEPT !.last_probe = t]
    BY <1>2, <2>1, <2>3 DEF HealthCheck
  <2>6. CASE c = [l EXCEPT !.last_probe = t]
    BY <2>0, <2>2, <2>6 DEF BackendType
  <2>7. CASE c = [e EXCEPT !.last_probe = t]
    BY <2>0, <2>4, <2>7 DEF BackendType
  <2> QED BY <2>5, <2>6, <2>7
<1> QED BY <1>1, <1>2

-----------------------------------------------------------------------------
\* The pool.

LEMMA IndicesAre ==
    ASSUME NEW p \in PoolType
    PROVE  /\ Len(p.backends) \in Nat /\ Indices(p) = 1 .. Len(p.backends)
           /\ IsFiniteSet(Indices(p))
           /\ p.backends \in [Indices(p) -> BackendType]
           /\ \A i \in Indices(p) : p.backends[i] \in BackendType
<1>1. p.backends \in Seq(BackendType)
  BY DEF PoolType
<1>2. Len(p.backends) \in Nat /\ Indices(p) = 1 .. Len(p.backends)
  BY <1>1 DEF Indices
<1>3. IsFiniteSet(1 .. Len(p.backends))
  BY <1>2, FS_Interval
<1> QED BY <1>1, <1>2, <1>3

\* The cached ring is the one of its signature, unless it was invalidated.
RingFresh(p) == p.ring_signature # {} => p.ring = p.ring_signature

\* Two pools that differ in the contents of their backends alone.
SameShape(p, q) ==
    /\ Indices(q) = Indices(p) /\ q.strategy = p.strategy /\ q.ewma = p.ewma
    /\ q.ring = p.ring /\ q.ring_signature = p.ring_signature
    /\ q.rr_cursor = p.rr_cursor

\* A loop over the backends.
LEMMA AllBackends ==
    ASSUME NEW p \in PoolType, NEW f, DOMAIN f = Indices(p),
           \A i \in Indices(p) : f[i] \in BackendType, f = [i \in Indices(p) |-> f[i]],
           NEW q, q = [p EXCEPT !.backends = f]
    PROVE  q \in PoolType /\ q.backends = f /\ SameShape(p, q)
<1>1. f \in Seq(BackendType)
  <2>1. PICK n \in Nat : n = Len(p.backends) /\ Indices(p) = 1 .. n
    BY IndicesAre
  <2>2. f \in [1 .. n -> BackendType]
    BY <2>1
  <2> QED BY <2>2
<1>2. q.backends = f
  BY DEF PoolType
<1>3. q \in PoolType
  BY <1>1 DEF PoolType
<1> QED BY <1>2, <1>3 DEF SameShape, PoolType, Indices

\* A method of one backend.
LEMMA OneBackend ==
    ASSUME NEW p \in PoolType, NEW i \in Indices(p), NEW c \in BackendType,
           NEW q, q = [p EXCEPT !.backends[i] = c]
    PROVE  /\ q \in PoolType /\ SameShape(p, q) /\ q.backends[i] = c
           /\ \A j \in Indices(p) \ {i} : q.backends[j] = p.backends[j]
<1>1. PICK f : f = [p.backends EXCEPT ![i] = c]
  OBVIOUS
<1>2. p.backends \in [Indices(p) -> BackendType]
  BY IndicesAre
<1>3. /\ DOMAIN f = Indices(p) /\ f = [j \in Indices(p) |-> f[j]] /\ f[i] = c
      /\ \A j \in Indices(p) : f[j] \in BackendType
      /\ \A j \in Indices(p) \ {i} : f[j] = p.backends[j]
  BY <1>1, <1>2
<1>4. q = [p EXCEPT !.backends = f]
  BY <1>1 DEF PoolType
<1>5. q \in PoolType /\ q.backends = f /\ SameShape(p, q)
  BY <1>3, <1>4, AllBackends
<1> QED BY <1>3, <1>5

\* poll(): every backend takes its stages (pool.rs poll).
LEMMA PolledPool ==
    ASSUME NEW p \in PoolType, NEW t \in Millis, NEW q, q = PoolPoll(p, t)
    PROVE  /\ q \in PoolType /\ SameShape(p, q)
           /\ \A i \in Indices(p) :
                 /\ Settled(q.backends[i].breaker, t)
                 /\ q.backends[i].breaker = BreakerPoll(p.backends[i].breaker, t)
                 /\ SameStanding(p.backends[i], q.backends[i])
                 /\ KeepsEjection(p.backends[i], q.backends[i], t)
<1>1. PICK line : line = IF p.ewma THEN Line(p) ELSE 0
  OBVIOUS
<1>2. PICK f : f = [i \in Indices(p) |-> PollBackend(p.backends[i], t, p.ewma, line)]
  OBVIOUS
<1>3. q = [p EXCEPT !.backends = f]
  BY <1>1, <1>2 DEF PoolPoll
<1>4. ASSUME NEW i \in Indices(p)
      PROVE  /\ f[i] \in BackendType /\ Settled(f[i].breaker, t)
             /\ f[i].breaker = BreakerPoll(p.backends[i].breaker, t)
             /\ SameStanding(p.backends[i], f[i])
             /\ KeepsEjection(p.backends[i], f[i], t)
  <2>1. PICK b \in BackendType : b = p.backends[i]
    BY IndicesAre
  <2>2. PICK c : c = f[i]
    OBVIOUS
  <2>3. PICK e \in BOOLEAN : e = p.ewma
    BY DEF PoolType
  <2>4. c = PollBackend(b, t, e, line)
    BY <1>2, <2>1, <2>2, <2>3
  <2> QED BY <2>1, <2>2, <2>4, PolledBackend
<1>5. DOMAIN f = Indices(p) /\ f = [i \in Indices(p) |-> f[i]]
  BY <1>2
<1>6. q \in PoolType /\ q.backends = f /\ SameShape(p, q)
  BY <1>3, <1>4, <1>5, AllBackends
<1> QED BY <1>4, <1>6

\* run_health_checks(): every backend is probed when it is due.
LEMMA CheckedPool ==
    ASSUME NEW p \in PoolType, NEW t \in Millis, NEW live \in [Indices(p) -> BOOLEAN],
           NEW q, q = RunHealthChecks(p, t, live)
    PROVE  /\ q \in PoolType /\ SameShape(p, q)
           /\ \A i \in Indices(p) :
                 /\ q.backends[i] = HealthCheck(p.backends[i], t, live[i])
                 /\ q.backends[i].breaker = p.backends[i].breaker
                 /\ q.backends[i].weight = p.backends[i].weight
                 /\ q.backends[i].in_flight = p.backends[i].in_flight
                 /\ q.backends[i].ejected_until = p.backends[i].ejected_until
<1>2. PICK f : f = [i \in Indices(p) |-> HealthCheck(p.backends[i], t, live[i])]
  OBVIOUS
<1>3. q = [p EXCEPT !.backends = f]
  BY <1>2 DEF RunHealthChecks
<1>4. ASSUME NEW i \in Indices(p)
      PROVE  /\ f[i] \in BackendType
             /\ f[i].breaker = p.backends[i].breaker
             /\ f[i].weight = p.backends[i].weight
             /\ f[i].in_flight = p.backends[i].in_flight
             /\ f[i].ejected_until = p.backends[i].ejected_until
  <2>1. PICK b \in BackendType : b = p.backends[i]
    BY IndicesAre
  <2>2. PICK c : c = f[i]
    OBVIOUS
  <2>3. PICK l \in BOOLEAN : l = live[i]
    OBVIOUS
  <2>4. c = HealthCheck(b, t, l)
    BY <1>2, <2>1, <2>2, <2>3
  <2> QED BY <2>1, <2>2, <2>4, CheckedBackend
<1>5. DOMAIN f = Indices(p) /\ f = [i \in Indices(p) |-> f[i]]
  BY <1>2
<1>6. q \in PoolType /\ q.backends = f /\ SameShape(p, q)
  BY <1>3, <1>4, <1>5, AllBackends
<1> QED BY <1>2, <1>4, <1>6

\* What begin() and end() do: the number of calls in flight on one backend
\* changes, and nothing else.
Recounted(p, i, m, q) ==
    /\ q \in PoolType /\ SameShape(p, q)
    /\ q.backends[i] = [p.backends[i] EXCEPT !.in_flight = m]
    /\ q.backends[i].in_flight = m
    /\ \A j \in Indices(p) \ {i} : q.backends[j] = p.backends[j]

\* begin() (pool.rs begin).
LEMMA BegunCall ==
    ASSUME NEW p \in PoolType, NEW i \in Indices(p), NEW q, q = Begin(p, i)
    PROVE  Recounted(p, i, p.backends[i].in_flight + 1, q)
<1>1. PICK n \in Nat : n = p.backends[i].in_flight
  BY IndicesAre DEF BackendType
<1>2. PICK m \in Nat : m = n + 1
  OBVIOUS
<1>3. PICK c : c = [p.backends[i] EXCEPT !.in_flight = m]
  OBVIOUS
<1>4. c \in BackendType /\ c.in_flight = m
  <2>1. p.backends[i] \in BackendType
    BY IndicesAre
  <2> QED BY <1>3, <2>1 DEF BackendType
<1>5. q = [p EXCEPT !.backends[i] = c]
  BY <1>1, <1>2, <1>3, IndicesAre DEF Begin, PoolType
<1>6. q \in PoolType /\ SameShape(p, q)
  BY <1>4, <1>5, OneBackend
<1>7. q.backends[i] = c
  BY <1>5, IndicesAre DEF PoolType
<1>8. \A j \in Indices(p) \ {i} : q.backends[j] = p.backends[j]
  BY <1>4, <1>5, OneBackend
<1> QED BY <1>1, <1>2, <1>3, <1>4, <1>6, <1>7, <1>8 DEF Recounted

\* end(), which stops at zero (pool.rs end).
LEMMA EndedCall ==
    ASSUME NEW p \in PoolType, NEW i \in Indices(p), NEW q, q = End(p, i)
    PROVE  Recounted(p, i, SatSub(p.backends[i].in_flight, 1), q)
<1>1. PICK n \in Nat : n = p.backends[i].in_flight
  BY IndicesAre DEF BackendType
<1>2. PICK m \in Nat : m = SatSub(n, 1)
  BY DEF SatSub
<1>3. PICK c : c = [p.backends[i] EXCEPT !.in_flight = m]
  OBVIOUS
<1>4. c \in BackendType /\ c.in_flight = m
  <2>1. p.backends[i] \in BackendType
    BY IndicesAre
  <2> QED BY <1>3, <2>1 DEF BackendType
<1>5. q = [p EXCEPT !.backends[i] = c]
  BY <1>1, <1>2, <1>3, IndicesAre DEF End, PoolType
<1>6. q \in PoolType /\ SameShape(p, q)
  BY <1>4, <1>5, OneBackend
<1>7. q.backends[i] = c
  BY <1>5, IndicesAre DEF PoolType
<1>8. \A j \in Indices(p) \ {i} : q.backends[j] = p.backends[j]
  BY <1>4, <1>5, OneBackend
<1> QED BY <1>1, <1>2, <1>3, <1>4, <1>6, <1>7, <1>8 DEF Recounted

\* The outcome of a call reaches the backend it was made to and no other
\* (pool.rs record_success, record_success_latency, record_failure).
LEMMA RecordedOutcome ==
    ASSUME NEW p \in PoolType, NEW i \in Indices(p), NEW t \in Millis,
           NEW latency \in Nat, NEW q,
           \/ q = [p EXCEPT !.backends[i] = RecordSuccess(@, t)]
           \/ q = PoolRecordSuccess(p, i, t, latency)
           \/ q = PoolRecordFailure(p, i, t)
    PROVE  /\ q \in PoolType /\ SameShape(p, q)
           /\ SameStanding(p.backends[i], q.backends[i])
           /\ KeepsEjection(p.backends[i], q.backends[i], t)
           /\ CooldownMs > 0 => Settled(q.backends[i].breaker, t)
           /\ \A j \in Indices(p) \ {i} : q.backends[j] = p.backends[j]
<1>1. PICK b \in BackendType : b = p.backends[i]
  BY IndicesAre
<1>2. PICK e \in BOOLEAN : e = p.ewma
  BY DEF PoolType
<1>3. PICK c : /\ q = [p EXCEPT !.backends[i] = c]
               /\ \/ c = RecordSuccess(b, t)
                  \/ c = RecordSuccessLatency(b, t, e, latency)
                  \/ c = RecordFailure(b, t)
  BY <1>1, <1>2 DEF PoolRecordSuccess, PoolRecordFailure, PoolType
<1>4. b.breaker \in BreakerType
  BY DEF BackendType
<1>5. /\ c \in BackendType /\ SameStanding(b, c) /\ KeepsEjection(b, c, t)
      /\ CooldownMs > 0 => Settled(c.breaker, t)
  <2>1. CASE c = RecordFailure(b, t)
    BY <1>4, <2>1, FailedBackend, OutcomeBreaker
  <2>2. CASE c = RecordSuccess(b, t) \/ c = RecordSuccessLatency(b, t, e, latency)
    BY <1>4, <2>2, SucceededBackend, OutcomeBreaker DEF KeepsEjection
  <2> QED BY <1>3, <2>1, <2>2
<1> QED BY <1>1, <1>3, <1>5, OneBackend

\* A backend more, which invalidates the ring (pool.rs add_backend).
LEMMA GrownPool ==
    ASSUME NEW p \in PoolType, NEW w \in Nat, NEW q, q = AddBackend(p, w)
    PROVE  /\ q \in PoolType /\ RingFresh(q)
           /\ q.strategy = p.strategy /\ q.ewma = p.ewma
           /\ Len(q.backends) = Len(p.backends) + 1
           /\ Indices(q) = Indices(p) \cup {Len(p.backends) + 1}
           /\ q.backends[Len(p.backends) + 1] = NewBackend(w)
           /\ \A i \in Indices(p) : q.backends[i] = p.backends[i]
<1>1. PICK b \in BackendType : b = NewBackend(w)
  BY NewBackendType
<1>2. PICK s \in Seq(BackendType) : s = p.backends
  BY DEF PoolType
<1>3. PICK u : u = Append(s, b)
  OBVIOUS
<1>4. /\ u \in Seq(BackendType) /\ Len(s) \in Nat /\ Len(u) = Len(s) + 1
      /\ u[Len(s) + 1] = b /\ \A i \in 1 .. Len(s) : u[i] = s[i]
      /\ DOMAIN u = 1 .. Len(s) + 1 /\ DOMAIN s = 1 .. Len(s)
  BY <1>3
<1>5. q = [p EXCEPT !.backends = u, !.ring_signature = {}]
  BY <1>1, <1>2, <1>3 DEF AddBackend, PoolType
<1>6. /\ q.backends = u /\ q.strategy = p.strategy /\ q.ewma = p.ewma
      /\ q.ring_signature = {}
  BY <1>5 DEF PoolType
<1>7. q \in PoolType
  BY <1>4, <1>5 DEF PoolType
<1>8. Indices(q) = Indices(p) \cup {Len(p.backends) + 1}
  BY <1>2, <1>4, <1>6 DEF Indices
<1> QED BY <1>1, <1>2, <1>4, <1>6, <1>7, <1>8 DEF RingFresh, Indices

-----------------------------------------------------------------------------
\* The choice of a backend.

LEMMA AvailableAre ==
    ASSUME NEW p \in PoolType, NEW t, NEW exclude, NEW S, S = Available(p, t, exclude)
    PROVE  /\ S \in SUBSET Indices(p) /\ IsFiniteSet(S)
           /\ \A i \in Indices(p) :
                 i \in S <=> i \notin exclude /\ IsAvailable(p.backends[i], t)
BY IndicesAre, FS_Subset DEF Available

LEMMA NthIs ==
    ASSUME NEW n \in Nat, NEW S \in SUBSET (1 .. n), NEW k \in Nat, k < Cardinality(S)
    PROVE  Nth(S, k) \in S
<1>1. \E x \in S : Cardinality({y \in S : y < x}) = k
  BY HasNth, ZenonT(60)
<1> QED BY <1>1 DEF Nth

\* The cursor points into the set (pool.rs select_round_robin).
LEMMA RoundRobinPicks ==
    ASSUME NEW n \in Nat, NEW S \in SUBSET (1 .. n), S # {}, NEW cursor \in Nat
    PROVE  RoundRobinPick(cursor, S) \in S
<1>1. IsFiniteSet(S)
  <2>1. IsFiniteSet(1 .. n)
    BY FS_Interval
  <2> QED BY <2>1, FS_Subset
<1>2. PICK c \in Nat \ {0} : c = Cardinality(S)
  BY <1>1, FS_CardinalityType, FS_EmptySet
<1>3. PICK k \in 0 .. c - 1 : k = cursor % c
  BY RemainderRange
<1>4. k \in Nat /\ k < Cardinality(S)
  BY <1>2
<1>5. Nth(S, k) \in S
  BY <1>4, NthIs
<1> QED BY <1>2, <1>3, <1>5 DEF RoundRobinPick

\* The heaviest and the lightest are members (pool.rs select_weighted,
\* select_least_conn).
LEMMA HeaviestPicks ==
    ASSUME NEW n \in Nat, NEW S \in SUBSET (1 .. n), S # {}, NEW w \in [1 .. n -> Int]
    PROVE  Heaviest(w, S) \in S
<1>1. \E i \in S : \A j \in S : w[j] < w[i] \/ (w[j] = w[i] /\ i <= j)
  BY HasFirstLargest
<1> QED BY <1>1 DEF Heaviest

LEMMA LightestPicks ==
    ASSUME NEW n \in Nat, NEW S \in SUBSET (1 .. n), S # {}, NEW w \in [1 .. n -> Int]
    PROVE  Lightest(w, S) \in S
<1>1. \E i \in S : \A j \in S : w[i] < w[j] \/ (w[j] = w[i] /\ i <= j)
  BY HasFirstLeast
<1> QED BY <1>1 DEF Lightest

\* The walk over a ring of members ends at a point that one of them owns
\* (hashring.rs lookup).
LEMMA LookupPicks ==
    ASSUME NEW n \in Nat, NEW ring \in SUBSET (1 .. n), ring # {},
           ring \subseteq DOMAIN PointsOf, NEW k \in Keys
    PROVE  Lookup(ring, k) \in ring /\ Serves(ring, k, Lookup(ring, k))
<1>1. PICK h \in Nat : h = KeyHash[k]
  BY RingAssumption
<1>2. \A m \in ring : PointsOf[m] \in SUBSET Nat /\ PointsOf[m] # {}
  BY RingAssumption
<1>3. RingPoints(ring) \in SUBSET Nat /\ RingPoints(ring) # {}
  <2>1. RingPoints(ring) \in SUBSET Nat
    BY <1>2 DEF RingPoints
  <2>2. PICK m \in ring : PointsOf[m] # {}
    BY <1>2
  <2> QED BY <2>1, <2>2 DEF RingPoints
<1>4. PICK p \in RingPoints(ring) : WalkEnds(ring, h, p)
  <2>1. PICK P : P = RingPoints(ring)
    OBVIOUS
  <2>2. PICK p \in P : \/ h <= p /\ \A q \in P : h <= q => p <= q
                       \/ \A q \in P : q < h /\ p <= q
    BY <1>3, <2>1, WalkHasEnd
  <2> QED BY <2>1, <2>2 DEF WalkEnds
<1> DEFINE Owners == {m \in ring : p \in PointsOf[m]}
<1>5. Owners # {} /\ Owners \in SUBSET (1 .. n)
  BY <1>4 DEF RingPoints
<1>6. PICK m \in Owners : \A x \in Owners : x <= m
  <2> HIDE DEF Owners
  <2> QED BY <1>5, MaxOfIndices
<1>7. m \in ring /\ Owns(ring, m, p)
  BY <1>6 DEF Owns
<1>8. Serves(ring, k, m)
  BY <1>1, <1>4, <1>7 DEF Serves
<1> QED BY <1>7, <1>8 DEF Lookup

\* Among the available backends, those a strategy may choose.
Eligible(p, S) ==
    {i \in S : p.strategy = "Weighted" => p.backends[i].weight # 0}

\* What a selection leaves of a pool: the backends but for their balances.
Rebalanced(p, q) ==
    /\ q \in PoolType /\ RingFresh(q)
    /\ Indices(q) = Indices(p) /\ q.strategy = p.strategy /\ q.ewma = p.ewma
    /\ \A i \in Indices(p) : \E w \in Int :
          q.backends[i] = [p.backends[i] EXCEPT !.current_weight = w]

\* Putting a backend's balance to what it is changes nothing.
LEMMA SameBalance ==
    ASSUME NEW p \in PoolType, NEW q \in PoolType, RingFresh(q),
           q.backends = p.backends, q.strategy = p.strategy, q.ewma = p.ewma
    PROVE  Rebalanced(p, q)
<1>1. ASSUME NEW i \in Indices(p)
      PROVE  \E w \in Int : q.backends[i] = [p.backends[i] EXCEPT !.current_weight = w]
  <2>1. PICK b \in BackendType : b = p.backends[i]
    BY IndicesAre
  <2>2. b.current_weight \in Int /\ b = [b EXCEPT !.current_weight = b.current_weight]
    BY DEF BackendType
  <2> QED BY <2>1, <2>2
<1> QED BY <1>1 DEF Rebalanced, Indices

\* Round robin moves the cursor and takes a member (pool.rs select_round_robin).
LEMMA RoundRobinChooses ==
    ASSUME NEW p \in PoolType, RingFresh(p), NEW S \in SUBSET Indices(p), S # {},
           NEW r, r = SelectRoundRobin(p, S)
    PROVE  r.idx \in S /\ Rebalanced(p, r.pool)
<1>1. PICK c \in Nat : c = p.rr_cursor
  BY CursorAssumption DEF PoolType
<1>2. PICK n \in Nat : n = Len(p.backends) /\ Indices(p) = 1 .. n
  BY IndicesAre
<1>3. RoundRobinPick(c, S) \in S
  BY <1>2, RoundRobinPicks
<1>4. PICK d \in 0 .. CursorWidth - 1 : d = NextCursor(c)
  BY CursorAssumption, RemainderRange DEF NextCursor
<1>5. PICK q : q = [p EXCEPT !.rr_cursor = d]
  OBVIOUS
<1>6. q \in PoolType /\ q.backends = p.backends /\ q.strategy = p.strategy
      /\ q.ewma = p.ewma /\ q.ring = p.ring /\ q.ring_signature = p.ring_signature
  BY <1>4, <1>5 DEF PoolType
<1>7. RingFresh(q)
  BY <1>6 DEF RingFresh
<1>8. r = [idx |-> RoundRobinPick(c, S), pool |-> q]
  BY <1>1, <1>4, <1>5 DEF SelectRoundRobin, Picked, PoolType
<1> QED BY <1>3, <1>6, <1>7, <1>8, SameBalance

\* The balances and scores of a pool are integers.
LEMMA BalanceTypes ==
    ASSUME NEW p \in PoolType, NEW S \in SUBSET Indices(p), S # {},
           NEW cur, cur = CurrentWeight(p), NEW score, score = WeightedScore(p)
    PROVE  /\ WeightedPick(cur, score, S) \in S
           /\ \A i \in Indices(p) : WeightedCharge(cur, score, S)[i] \in Int
<1>1. PICK n \in Nat : n = Len(p.backends) /\ Indices(p) = 1 .. n
  BY IndicesAre
<1>2. cur \in [1 .. n -> Int]
  BY <1>1, IndicesAre DEF CurrentWeight, BackendType
<1>3. score \in [1 .. n -> Int]
  <2>1. ASSUME NEW i \in 1 .. n
        PROVE  p.backends[i].weight * p.backends[i].ramp_percent \in Int
    <3>0. p.backends[i] \in BackendType
      BY <1>1, IndicesAre
    <3>1. PICK a \in Nat : a = p.backends[i].weight
      BY <3>0 DEF BackendType
    <3>2. PICK b \in Nat : b = p.backends[i].ramp_percent
      BY <3>0 DEF BackendType
    <3> QED BY <3>1, <3>2
  <2> QED BY <1>1, <2>1 DEF WeightedScore
<1>4. PICK e : e = Earned(cur, score, S)
  OBVIOUS
<1>5. e \in [1 .. n -> Int]
  BY <1>2, <1>3, <1>4 DEF Earned
<1>6. PICK h \in S : h = WeightedPick(cur, score, S)
  BY <1>1, <1>4, <1>5, HeaviestPicks DEF WeightedPick
<1>7. PICK t \in Int : t = TotalOf(score, S)
  <2>1. IsFiniteSet(S)
    BY IndicesAre, FS_Subset
  <2>2. \A x \in S : score[x] \in Int
    BY <1>1, <1>3
  <2> QED BY <2>1, <2>2, TotalType
<1>8. WeightedCharge(cur, score, S) = [e EXCEPT ![h] = e[h] - t]
  BY <1>1, <1>4, <1>5, <1>6, <1>7 DEF WeightedCharge
<1>9. e[h] - t \in Int
  BY <1>1, <1>5, <1>6
<1> QED BY <1>1, <1>5, <1>6, <1>8, <1>9

\* Smooth weighted round robin takes a member with a weight, if there is one
\* (pool.rs select_weighted).
LEMMA WeightedChooses ==
    ASSUME NEW p \in PoolType, RingFresh(p), p.strategy = "Weighted",
           NEW S \in SUBSET Indices(p), NEW r, r = SelectWeighted(p, S)
    PROVE  /\ Rebalanced(p, r.pool)
           /\ IF Eligible(p, S) = {} THEN r.idx = None ELSE r.idx \in Eligible(p, S)
<1>1. PICK C \in SUBSET Indices(p) : C = Eligible(p, S)
                                     /\ C = {i \in S : p.backends[i].weight # 0}
  BY DEF Eligible
<1>2. CASE C = {}
  <2>1. r = [idx |-> None, pool |-> p]
    BY <1>1, <1>2 DEF SelectWeighted, Picked
  <2> QED BY <1>1, <1>2, <2>1, SameBalance
<1>3. CASE C # {}
  <2>1. PICK cur : cur = CurrentWeight(p)
    OBVIOUS
  <2>2. PICK score : score = WeightedScore(p)
    OBVIOUS
  <2>3. PICK h : h = WeightedPick(cur, score, C)
    OBVIOUS
  <2>4. PICK w : w = WeightedCharge(cur, score, C)
    OBVIOUS
  <2>5. h \in C /\ \A i \in Indices(p) : w[i] \in Int
    BY <1>3, <2>1, <2>2, <2>3, <2>4, BalanceTypes
  <2>6. PICK f : f = [i \in Indices(p) |-> [p.backends[i] EXCEPT !.current_weight = w[i]]]
    OBVIOUS
  <2>7. PICK q : q = [p EXCEPT !.backends = f]
    OBVIOUS
  <2>8. r = [idx |-> h, pool |-> q]
    BY <1>1, <1>3, <2>1, <2>2, <2>3, <2>4, <2>6, <2>7 DEF SelectWeighted, Picked
  <2>9. ASSUME NEW i \in Indices(p)
        PROVE  /\ f[i] \in BackendType
               /\ \E v \in Int : f[i] = [p.backends[i] EXCEPT !.current_weight = v]
    <3>1. PICK b \in BackendType : b = p.backends[i]
      BY IndicesAre
    <3>2. PICK v \in Int : v = w[i]
      BY <2>5
    <3>3. f[i] = [b EXCEPT !.current_weight = v]
      BY <2>6, <3>1, <3>2
    <3>4. f[i] \in BackendType
      BY <3>3 DEF BackendType
    <3> QED BY <3>1, <3>3, <3>4
  <2>10. DOMAIN f = Indices(p) /\ f = [i \in Indices(p) |-> f[i]]
    BY <2>6
  <2>11. q \in PoolType /\ q.backends = f /\ SameShape(p, q)
    BY <2>7, <2>9, <2>10, AllBackends
  <2>12. Rebalanced(p, q)
    BY <2>9, <2>11 DEF Rebalanced, SameShape, RingFresh
  <2> QED BY <1>1, <1>3, <2>5, <2>8, <2>12
<1> QED BY <1>2, <1>3

\* Least connections takes a member (pool.rs select_least_conn).
LEMMA LeastConnChooses ==
    ASSUME NEW p \in PoolType, RingFresh(p), NEW S \in SUBSET Indices(p), S # {},
           NEW r, r = SelectLeastConn(p, S)
    PROVE  r.idx \in S /\ Rebalanced(p, r.pool)
<1>1. PICK n \in Nat : n = Len(p.backends) /\ Indices(p) = 1 .. n
  BY IndicesAre
<1>2. PICK load : load = [i \in Indices(p) |-> p.backends[i].in_flight]
  OBVIOUS
<1>3. load \in [1 .. n -> Int]
  BY <1>1, <1>2, IndicesAre DEF BackendType
<1>4. Lightest(load, S) \in S
  BY <1>1, <1>3, LightestPicks
<1>5. r = [idx |-> Lightest(load, S), pool |-> p]
  BY <1>2 DEF SelectLeastConn, Picked
<1> QED BY <1>4, <1>5, SameBalance

\* A sticky key goes where the ring of the available set sends it, and that
\* ring is the one cached (pool.rs select_hash).
LEMMA HashChooses ==
    ASSUME NEW p \in PoolType, RingFresh(p), NEW S \in SUBSET Indices(p), S # {},
           Indices(p) \subseteq DOMAIN PointsOf, NEW key \in Keys,
           NEW r, r = SelectHash(p, S, key)
    PROVE  r.idx = Lookup(S, key) /\ r.idx \in S /\ Rebalanced(p, r.pool)
<1>1. PICK n \in Nat : n = Len(p.backends) /\ Indices(p) = 1 .. n
  BY IndicesAre
<1>2. RingFor(p, S) = S
  BY DEF RingFor, RingFresh
<1>3. PICK q : q = [p EXCEPT !.ring = S, !.ring_signature = S]
  OBVIOUS
<1>4. r = [idx |-> Lookup(S, key), pool |-> q]
  BY <1>2, <1>3, NoKeyAssumption DEF SelectHash, Picked
<1>5. Lookup(S, key) \in S
  <2>1. S \subseteq DOMAIN PointsOf
    OBVIOUS
  <2> QED BY <1>1, <2>1, LookupPicks
<1>6. S \in SUBSET Nat
  BY <1>1
<1>7. q \in PoolType /\ q.backends = p.backends /\ q.strategy = p.strategy
      /\ q.ewma = p.ewma /\ q.ring = S /\ q.ring_signature = S
  BY <1>3, <1>6 DEF PoolType
<1> QED BY <1>4, <1>5, <1>7, SameBalance DEF RingFresh

(***************************************************************************)
(* A selection, under any strategy, takes an eligible backend that is      *)
(* available and was not excluded, none only if there is none, follows the *)
(* ring of the available set for a sticky key, and changes nothing of the  *)
(* backends but their balances (pool.rs select).                           *)
(***************************************************************************)
LEMMA SelectChooses ==
    ASSUME NEW p \in PoolType, RingFresh(p), Indices(p) \subseteq DOMAIN PointsOf,
           NEW t, NEW key \in Keys \cup {NoKey}, NEW exclude,
           NEW S, S = Available(p, t, exclude), NEW r, r = Select(p, t, key, exclude)
    PROVE  /\ Rebalanced(p, r.pool)
           /\ IF Eligible(p, S) = {} THEN r.idx = None ELSE r.idx \in Eligible(p, S)
           /\ p.strategy = "ConsistentHash" /\ key \in Keys /\ S # {}
                 => r.idx = Lookup(S, key)
<1>1. S \in SUBSET Indices(p)
  BY AvailableAre
<1>2. p.strategy # "Weighted" => Eligible(p, S) = S
  BY DEF Eligible
<1>3. CASE S = {}
  <2>1. r = [idx |-> None, pool |-> p]
    BY <1>3 DEF Select, Picked
  <2>2. Eligible(p, S) = {}
    BY <1>3 DEF Eligible
  <2> QED BY <1>3, <2>1, <2>2, SameBalance
<1>4. CASE S # {} /\ p.strategy = "RoundRobin"
  <2>1. r = SelectRoundRobin(p, S)
    BY <1>4 DEF Select
  <2> QED BY <1>1, <1>2, <1>4, <2>1, RoundRobinChooses
<1>5. CASE S # {} /\ p.strategy = "Weighted"
  <2>1. r = SelectWeighted(p, S)
    BY <1>5 DEF Select
  <2> QED BY <1>1, <1>5, <2>1, WeightedChooses
<1>6. CASE S # {} /\ p.strategy = "LeastConnections"
  <2>1. r = SelectLeastConn(p, S)
    BY <1>6 DEF Select
  <2> QED BY <1>1, <1>2, <1>6, <2>1, LeastConnChooses
<1>7. CASE S # {} /\ p.strategy = "ConsistentHash"
  <2>1. r = SelectHash(p, S, key)
    BY <1>7 DEF Select
  <2>2. CASE key \in Keys
    BY <1>1, <1>2, <1>7, <2>1, <2>2, HashChooses
  <2>3. CASE key = NoKey
    <3>1. r = SelectRoundRobin(p, S) /\ key \notin Keys
      BY <2>1, <2>3, NoKeyAssumption DEF SelectHash
    <3> QED BY <1>1, <1>2, <1>7, <3>1, RoundRobinChooses
  <2> QED BY <2>2, <2>3
<1>8. p.strategy \in AllStrategies
  BY DEF PoolType
<1> QED BY <1>3, <1>4, <1>5, <1>6, <1>7, <1>8 DEF AllStrategies

-----------------------------------------------------------------------------
\* The latency layer.

RampStart == AtLeastOne(Capped(ReinstatePercent, 100))

\* A reinstated backend gets between 1 and 100 percent of its share.
LEMMA RampStarts == RampStart \in 1 .. 100
BY EwmaAssumption DEF RampStart, AtLeastOne, Capped

\* The fields of the latency layer.
SameEvidence(b, c) ==
    /\ c.latency_ewma_milli = b.latency_ewma_milli /\ c.ewma_samples = b.ewma_samples
    /\ c.over_since = b.over_since /\ c.over_since_samples = b.over_since_samples

SameRamp(b, c) ==
    c.ramp_percent = b.ramp_percent /\ c.last_ramp_step = b.last_ramp_step

\* What the layer makes of its evidence: it starts to watch a backend with
\* the samples it has, and ejects one it has watched long enough.
WatchedOnly(b, c) ==
    /\ c.latency_ewma_milli = b.latency_ewma_milli /\ c.ewma_samples = b.ewma_samples
    /\ c.over_since # None =>
          \/ b.over_since # None /\ c.over_since_samples = b.over_since_samples
          \/ c.over_since_samples = b.ewma_samples

EjectedFairly(b, c, t, line) ==
    /\ OverLine(b, line) /\ b.over_since # None /\ SustainedOver(b, t)
    /\ c.over_since = None

\* A reinstated backend starts at the bottom of its ramp.
RampRestarts(b, c, t) ==
    RampWindowMs > 0 /\ EjectionOver(b, t) =>
        c.ramp_percent = RampStart /\ c.last_ramp_step = t

\* A step of the ramp, or none.
SteppedOnce(b, c, t) ==
    \/ SameRamp(b, c)
    \/ /\ RampDue(b, t)
       /\ c.ramp_percent = Capped(2 * b.ramp_percent, 100)
       /\ c.last_ramp_step = t

\* With the layer attached the first stage of poll() puts a backend whose
\* deadline has come to the bottom of its ramp, and keeps the layer's evidence
\* (pool.rs poll).
LEMMA LayerReinstates ==
    ASSUME NEW b \in BackendType, NEW t \in Millis, NEW c, c = Reinstate(b, t, TRUE)
    PROVE  /\ SameEvidence(b, c)
           /\ IF EjectionOver(b, t)
              THEN /\ c.ejected_until = None
                   /\ c.ramp_percent = RampStart /\ c.last_ramp_step = t
              ELSE c = b
<1>1. CASE ~EjectionOver(b, t)
  BY <1>1 DEF Reinstate, SameEvidence
<1>2. CASE EjectionOver(b, t)
  <2>1. PICK r : r = RampStart
    OBVIOUS
  <2>2. PICK d : d = [b EXCEPT !.ejected_until = None, !.outlier_failures = 0]
    OBVIOUS
  <2>3. c = [d EXCEPT !.ramp_percent = r, !.last_ramp_step = t]
    BY <1>2, <2>1, <2>2 DEF Reinstate, RampStart
  <2>4. DOMAIN d = DOMAIN b /\ d.ejected_until = None /\ SameEvidence(b, d)
    BY <2>2 DEF BackendType, SameEvidence
  <2>5. /\ c.ejected_until = None /\ SameEvidence(d, c)
        /\ c.ramp_percent = r /\ c.last_ramp_step = t
    BY <2>3, <2>4, <2>2 DEF BackendType, SameEvidence
  <2> QED BY <1>2, <2>1, <2>4, <2>5 DEF SameEvidence
<1> QED BY <1>1, <1>2

\* The second stage takes one step of the ramp, or none.
LEMMA LayerRamps ==
    ASSUME NEW b \in BackendType, NEW t \in Millis, NEW c, c = RampUp(b, t)
    PROVE  /\ SameEvidence(b, c) /\ c.ejected_until = b.ejected_until
           /\ SteppedOnce(b, c, t)
<1>1. CASE ~RampDue(b, t)
  BY <1>1 DEF RampUp, SameEvidence, SameRamp, SteppedOnce
<1>2. CASE RampDue(b, t)
  <2>1. PICK r : r = Capped(2 * b.ramp_percent, 100)
    OBVIOUS
  <2>2. c = [b EXCEPT !.ramp_percent = r, !.last_ramp_step = t]
    BY <1>2, <2>1 DEF RampUp, BackendType
  <2>3. c.ramp_percent = r /\ c.last_ramp_step = t /\ c.ejected_until = b.ejected_until
    BY <2>2 DEF BackendType
  <2>4. SameEvidence(b, c)
    BY <2>2 DEF BackendType, SameEvidence
  <2> QED BY <1>2, <2>1, <2>3, <2>4 DEF SteppedOnce
<1> QED BY <1>1, <1>2

\* The third stage ejects only who was over the line for long enough, and
\* begins its watch with the samples of that moment (pool.rs poll_ewma).
LEMMA LayerJudges ==
    ASSUME NEW b \in BackendType, NEW t \in Millis, NEW line,
           NEW c, c = JudgeLatency(b, t, line)
    PROVE  /\ WatchedOnly(b, c) /\ SameRamp(b, c)
           /\ b.ejected_until = None /\ c.ejected_until # None =>
                 EjectedFairly(b, c, t, line)
<1>u. PICK u : u = SatAdd(t, EwmaEjectionMs)
  OBVIOUS
<1>n. PICK n \in Nat : n = b.ewma_samples
  BY DEF BackendType
<1>1. CASE b.ejected_until # None
  BY <1>1 DEF JudgeLatency, WatchedOnly, SameRamp
<1>2. CASE b.ejected_until = None /\ ~OverLine(b, line)
  <2>1. c = [b EXCEPT !.over_since = None]
    BY <1>2 DEF JudgeLatency
  <2> QED BY <1>2, <2>1 DEF BackendType, WatchedOnly, EjectedFairly, SameRamp
<1>3. CASE b.ejected_until = None /\ OverLine(b, line) /\ b.over_since = None
  <2>1. c = [b EXCEPT !.over_since = t, !.over_since_samples = n]
    BY <1>3, <1>n DEF JudgeLatency
  <2> QED BY <1>3, <1>n, <2>1 DEF BackendType, WatchedOnly, EjectedFairly, SameRamp
<1>4. CASE b.ejected_until = None /\ OverLine(b, line) /\ b.over_since # None
  <2>1. CASE SustainedOver(b, t)
    <3>1. c = [b EXCEPT !.ejected_until = u, !.over_since = None]
      BY <1>4, <1>u, <2>1 DEF JudgeLatency
    <3> QED BY <1>4, <2>1, <3>1 DEF BackendType, WatchedOnly, EjectedFairly, SameRamp
  <2>2. CASE ~SustainedOver(b, t)
    <3>1. c = b
      BY <1>4, <2>2 DEF JudgeLatency
    <3> QED BY <1>4, <3>1 DEF WatchedOnly, EjectedFairly, SameRamp
  <2> QED BY <2>1, <2>2
<1> QED BY <1>1, <1>2, <1>3, <1>4

\* The loop body of poll() with the layer attached, as a whole.
LEMMA LayerPollsBackend ==
    ASSUME NEW b \in BackendType, NEW t \in Millis, NEW line,
           NEW c, c = PollBackend(b, t, TRUE, line)
    PROVE  /\ WatchedOnly(b, c)
           /\ (b.ejected_until = None \/ EjectionOver(b, t)) /\ c.ejected_until # None =>
                 EjectedFairly(b, c, t, line)
           /\ RampRestarts(b, c, t)
           /\ ~EjectionOver(b, t) => SteppedOnce(b, c, t)
<1>1. PICK k \in BreakerType : k = BreakerPoll(b.breaker, t)
  BY PolledBreaker DEF BackendType
<1>2. PICK d : d = [b EXCEPT !.breaker = k]
  OBVIOUS
<1>3. /\ d \in BackendType /\ SameEvidence(b, d) /\ SameRamp(b, d)
      /\ d.ejected_until = b.ejected_until
  BY <1>1, <1>2 DEF BackendType, SameEvidence, SameRamp
<1>4. PICK r : r = Reinstate(d, t, TRUE)
  OBVIOUS
<1>5. r \in BackendType
  BY <1>3, <1>4, ReinstateStage
<1>6. PICK u : u = RampUp(r, t)
  OBVIOUS
<1>7. u \in BackendType
  BY <1>5, <1>6, RampStage
<1>8. c = JudgeLatency(u, t, line)
  BY <1>1, <1>2, <1>4, <1>6 DEF PollBackend, BackendType
<1>9. /\ WatchedOnly(u, c) /\ SameRamp(u, c)
      /\ u.ejected_until = None /\ c.ejected_until # None => EjectedFairly(u, c, t, line)
  BY <1>7, <1>8, LayerJudges
<1>10. /\ SameEvidence(d, r)
       /\ EjectionOver(d, t) => /\ r.ejected_until = None
                                /\ r.ramp_percent = RampStart /\ r.last_ramp_step = t
       /\ ~EjectionOver(d, t) => r = d
  BY <1>3, <1>4, LayerReinstates
<1>11. /\ SameEvidence(r, u) /\ u.ejected_until = r.ejected_until /\ SteppedOnce(r, u, t)
  BY <1>5, <1>6, LayerRamps
<1>12. EjectionOver(d, t) <=> EjectionOver(b, t)
  BY <1>3 DEF EjectionOver
<1>13. SameEvidence(b, u)
  BY <1>3, <1>10, <1>11 DEF SameEvidence
<1>14. ASSUME b.ejected_until = None \/ EjectionOver(b, t)
       PROVE  u.ejected_until = None
  BY <1>3, <1>10, <1>11, <1>12, <1>14
<1>15. WatchedOnly(b, c)
  BY <1>9, <1>13 DEF WatchedOnly, SameEvidence
<1>16. ASSUME b.ejected_until = None \/ EjectionOver(b, t), c.ejected_until # None
       PROVE  EjectedFairly(b, c, t, line)
  BY <1>9, <1>13, <1>14, <1>16
     DEF EjectedFairly, SameEvidence, OverLine, SustainedOver
<1>17. ASSUME RampWindowMs > 0, EjectionOver(b, t)
       PROVE  c.ramp_percent = RampStart /\ c.last_ramp_step = t
  <2>1. ~RampDue(r, t)
    <3>1. r.last_ramp_step = t /\ t # None /\ SatSub(t, t) = 0
      BY <1>10, <1>12, <1>17 DEF Millis, None, SatSub
    <3> QED BY <1>17, <3>1, EwmaAssumption DEF RampDue
  <2>2. SameRamp(r, u)
    BY <1>11, <2>1 DEF SteppedOnce
  <2> QED BY <1>9, <1>10, <1>12, <1>17, <2>2 DEF SameRamp
<1>18. ASSUME ~EjectionOver(b, t)
       PROVE  SteppedOnce(b, c, t)
  <2>1. r = d
    BY <1>10, <1>12, <1>18
  <2>2. RampDue(d, t) => RampDue(b, t)
    BY <1>3 DEF RampDue, SameRamp
  <2> QED BY <1>3, <1>9, <1>11, <2>1, <2>2 DEF SteppedOnce, SameRamp
<1> QED BY <1>15, <1>16, <1>17, <1>18 DEF RampRestarts

\* A step of the ramp never lowers a share.
LEMMA StepOnlyRaises ==
    ASSUME NEW b \in BackendType, NEW c, NEW t, SteppedOnce(b, c, t)
    PROVE  b.ramp_percent <= c.ramp_percent
<1>1. b.ramp_percent \in 1 .. 100
  BY DEF BackendType
<1> QED BY <1>1 DEF SteppedOnce, SameRamp, Capped

\* Every backend is judged by the same line.
LEMMA LayerPollsPool ==
    ASSUME NEW p \in PoolType, p.ewma = TRUE, NEW t \in Millis, NEW q, q = PoolPoll(p, t),
           NEW i \in Indices(p)
    PROVE  q.backends[i] = PollBackend(p.backends[i], t, TRUE, Line(p))
<1>1. PICK line : line = Line(p)
  OBVIOUS
<1>2. PICK f : f = [j \in Indices(p) |-> PollBackend(p.backends[j], t, p.ewma, line)]
  OBVIOUS
<1>3. q = [p EXCEPT !.backends = f]
  BY <1>1, <1>2 DEF PoolPoll
<1>4. q.backends = f
  BY <1>3 DEF PoolType
<1> QED BY <1>1, <1>2, <1>4

\* What the calls of a backend do to its evidence: they may add a sample.
Heard(b, c) ==
    /\ c.over_since = b.over_since /\ c.over_since_samples = b.over_since_samples
    /\ SameRamp(b, c)
    /\ c.ewma_samples = b.ewma_samples \/ c.ewma_samples = b.ewma_samples + 1

LEMMA SameIsHeard ==
    ASSUME NEW b, NEW c, SameEvidence(b, c), SameRamp(b, c)
    PROVE  Heard(b, c)
BY DEF SameEvidence, Heard

\* An outcome moves neither the ramp nor the layer's watch (pool.rs
\* record_success, record_success_latency, record_failure).
LEMMA HeardBackend ==
    ASSUME NEW b \in BackendType, NEW t \in Millis, NEW ewma \in BOOLEAN,
           NEW latency \in Nat, NEW c,
           \/ c = RecordSuccess(b, t)
           \/ c = RecordSuccessLatency(b, t, ewma, latency)
           \/ c = RecordFailure(b, t)
    PROVE  Heard(b, c)
<1>1. CASE c = RecordFailure(b, t)
  <2>1. PICK k : k = OnFailure(b.breaker, t)
    OBVIOUS
  <2>2. PICK n : n = CountTo(b.outlier_failures, OutlierConsecutiveFailures)
    OBVIOUS
  <2>3. PICK d : d = [b EXCEPT !.breaker = k, !.outlier_failures = n]
    OBVIOUS
  <2>4. DOMAIN d = DOMAIN b /\ SameEvidence(b, d) /\ SameRamp(b, d)
    BY <2>3 DEF BackendType, SameEvidence, SameRamp
  <2>5. PICK u : u = SatAdd(t, EjectionBaseMs)
    OBVIOUS
  <2>6. c = d \/ c = [d EXCEPT !.ejected_until = u]
    BY <1>1, <2>1, <2>2, <2>3, <2>5 DEF RecordFailure, BackendType
  <2>7. SameEvidence(d, c) /\ SameRamp(d, c)
    BY <2>3, <2>4, <2>6 DEF BackendType, SameEvidence, SameRamp
  <2> QED BY <2>4, <2>7 DEF Heard, SameEvidence, SameRamp
<1>2. CASE c = RecordSuccess(b, t) \/ c = RecordSuccessLatency(b, t, ewma, latency)
  <2>1. PICK k : k = OnSuccess(b.breaker, t)
    OBVIOUS
  <2>2. PICK d : d = RecordSuccess(b, t)
    OBVIOUS
  <2>3. d = [b EXCEPT !.outlier_failures = 0, !.breaker = k]
    BY <2>1, <2>2 DEF RecordSuccess, BackendType
  <2>4. DOMAIN d = DOMAIN b /\ SameEvidence(b, d) /\ SameRamp(b, d)
    BY <2>3 DEF BackendType, SameEvidence, SameRamp
  <2>5. CASE c = d
    BY <2>4, <2>5, SameIsHeard
  <2>6. ASSUME c = RecordSuccessLatency(b, t, ewma, latency), ewma
        PROVE  Heard(b, c)
    <3>1. PICK e : e = Fold(d.latency_ewma_milli, latency)
      OBVIOUS
    <3>2. PICK n : n = d.ewma_samples + 1
      OBVIOUS
    <3>3. c = [d EXCEPT !.latency_ewma_milli = e, !.ewma_samples = n]
      BY <2>2, <2>3, <2>6, <3>1, <3>2 DEF RecordSuccessLatency, BackendType
    <3>4. /\ c.over_since = d.over_since /\ c.over_since_samples = d.over_since_samples
          /\ SameRamp(d, c) /\ c.ewma_samples = n
      BY <2>3, <2>4, <3>3 DEF BackendType, SameRamp
    <3> QED BY <2>4, <3>2, <3>4 DEF Heard, SameEvidence, SameRamp
  <2> QED BY <1>2, <2>2, <2>5, <2>6 DEF RecordSuccessLatency
<1> QED BY <1>1, <1>2

\* The same for the pool.
LEMMA HeardPool ==
    ASSUME NEW p \in PoolType, NEW i \in Indices(p), NEW t \in Millis,
           NEW latency \in Nat, NEW q,
           \/ q = [p EXCEPT !.backends[i] = RecordSuccess(@, t)]
           \/ q = PoolRecordSuccess(p, i, t, latency)
           \/ q = PoolRecordFailure(p, i, t)
    PROVE  \A j \in Indices(p) : Heard(p.backends[j], q.backends[j])
<1>1. PICK b \in BackendType : b = p.backends[i]
  BY IndicesAre
<1>2. PICK e \in BOOLEAN : e = p.ewma
  BY DEF PoolType
<1>3. PICK c : /\ q = [p EXCEPT !.backends[i] = c]
               /\ \/ c = RecordSuccess(b, t)
                  \/ c = RecordSuccessLatency(b, t, e, latency)
                  \/ c = RecordFailure(b, t)
  BY <1>1, <1>2 DEF PoolRecordSuccess, PoolRecordFailure, PoolType
<1>4. Heard(b, c)
  BY <1>3, HeardBackend
<1>5. q.backends[i] = c
  BY <1>3, IndicesAre DEF PoolType
<1>6. \A j \in Indices(p) \ {i} : q.backends[j] = p.backends[j]
  BY <1>3, RecordedOutcome
<1>7. \A j \in Indices(p) \ {i} : Heard(p.backends[j], q.backends[j])
  BY <1>6 DEF Heard, SameRamp
<1> QED BY <1>1, <1>4, <1>5, <1>7

\* begin() and end() leave the layer alone.
LEMMA RecountedIsSame ==
    ASSUME NEW p \in PoolType, NEW i \in Indices(p), NEW m, NEW q, Recounted(p, i, m, q)
    PROVE  \A j \in Indices(p) : SameEvidence(p.backends[j], q.backends[j])
                                 /\ SameRamp(p.backends[j], q.backends[j])
<1>1. PICK b \in BackendType : b = p.backends[i]
  BY IndicesAre
<1>2. PICK c : c = q.backends[i]
  OBVIOUS
<1>3. c = [b EXCEPT !.in_flight = m]
  BY <1>1, <1>2 DEF Recounted
<1>4. SameEvidence(b, c) /\ SameRamp(b, c)
  BY <1>3 DEF BackendType, SameEvidence, SameRamp
<1>5. \A j \in Indices(p) \ {i} : q.backends[j] = p.backends[j]
  BY DEF Recounted
<1> QED BY <1>1, <1>2, <1>4, <1>5 DEF SameEvidence, SameRamp

\* So does select().
LEMMA RebalancedIsSame ==
    ASSUME NEW p \in PoolType, NEW q, Rebalanced(p, q)
    PROVE  \A j \in Indices(p) : SameEvidence(p.backends[j], q.backends[j])
                                 /\ SameRamp(p.backends[j], q.backends[j])
<1> SUFFICES ASSUME NEW j \in Indices(p)
             PROVE  SameEvidence(p.backends[j], q.backends[j])
                    /\ SameRamp(p.backends[j], q.backends[j])
  OBVIOUS
<1>1. PICK b \in BackendType : b = p.backends[j]
  BY IndicesAre
<1>2. PICK w \in Int : q.backends[j] = [b EXCEPT !.current_weight = w]
  BY <1>1 DEF Rebalanced
<1> QED BY <1>1, <1>2 DEF BackendType, SameEvidence, SameRamp

\* The EWMAs are in the range of the latency arithmetic.
LEMMA EwmaTypes ==
    ASSUME NEW p \in PoolType, NEW i \in Indices(p)
    PROVE  EwmaOf(p.backends[i]) \in 0 .. MaxEwma
<1>1. PICK b \in BackendType : b = p.backends[i]
  BY IndicesAre
<1>2. b.latency_ewma_milli \in 0 .. MaxEwma \cup {None} /\ 0 \in 0 .. MaxEwma
  BY EwmaAssumption DEF BackendType
<1> QED BY <1>1, <1>2 DEF EwmaOf

\* Not everybody is over the mean (pool.rs ewma_mean).
LEMMA SomebodyIsNotOverMean ==
    ASSUME NEW p \in PoolType, Sampled(p) # {}
    PROVE  EwmaMean(p) \in Nat /\ \E i \in Sampled(p) : EwmaOf(p.backends[i]) <= EwmaMean(p)
<1>1. PICK S : S = Sampled(p)
  OBVIOUS
<1>2. S \in SUBSET Indices(p) /\ S # {}
  BY <1>1 DEF Sampled
<1>3. IsFiniteSet(S)
  BY <1>2, IndicesAre, FS_Subset
<1>4. PICK n \in Nat \ {0} : n = Cardinality(S)
  BY <1>2, <1>3, FS_CardinalityType, FS_EmptySet
<1>5. PICK w : w = [i \in S |-> EwmaOf(p.backends[i])]
  OBVIOUS
<1>6. \A i \in S : w[i] \in Nat /\ w[i] = EwmaOf(p.backends[i])
  BY <1>2, <1>5, EwmaTypes
<1>7. PICK T \in Nat : T = TotalOf(w, S)
  BY <1>3, <1>6, TotalNonneg
<1>8. PICK m \in Nat, r \in 0 .. n - 1 : m = T \div n /\ T = n * m + r
  BY RemainderRange, ZenonT(60)
<1>9. EwmaMean(p) = m
  <2>1. EwmaMean(p) = T \div n
    BY <1>1, <1>2, <1>4, <1>5, <1>7, Zenon DEF EwmaMean
  <2> QED BY <1>8, <2>1
<1>10. ASSUME \A i \in S : ~(w[i] <= m)
       PROVE  FALSE
  <2>1. PICK a \in Int : a = m + 1
    OBVIOUS
  <2>2. PICK v : v = [i \in S |-> a]
    OBVIOUS
  <2>3. \A i \in S : v[i] = a
    BY <2>2
  <2>4. \A i \in S : v[i] \in Int /\ w[i] \in Int /\ v[i] <= w[i]
    BY <1>6, <1>10, <2>1, <2>3
  <2>5. TotalOf(v, S) <= TotalOf(w, S)
    BY <1>3, <2>4, TotalLeq
  <2>6. TotalOf(v, S) = n * a
    BY <1>3, <1>4, <2>3, TotalConstant
  <2>7. n * a = n * m + n
    BY <2>1
  <2>8. n * m \in Nat
    OBVIOUS
  <2> QED BY <1>7, <1>8, <2>5, <2>6, <2>7, <2>8
<1> QED BY <1>1, <1>6, <1>9, <1>10

\* With a factor of one or more the line is not under the mean, unless it is
\* the largest EWMA there is (pool.rs threshold_milli).
LEMMA LineIsNotUnderMean ==
    ASSUME FactorMilli >= 1000, NEW p, EwmaMean(p) \in Nat,
           NEW e \in 0 .. MaxEwma, e <= EwmaMean(p)
    PROVE  Line(p) \in Nat /\ e <= Line(p)
<1>1. PICK m \in Nat : m = EwmaMean(p)
  OBVIOUS
<1>2. PICK k \in Nat : FactorMilli = 1000 + k
  <2>1. FactorMilli - 1000 \in Nat
    BY EwmaAssumption
  <2> QED BY <2>1, EwmaAssumption
<1>3. PICK z \in Nat : z = m * k
  OBVIOUS
<1>4. PICK x \in Nat : x = m * FactorMilli /\ x = 1000 * m + z
  <2>1. m * (1000 + k) = 1000 * m + m * k
    OBVIOUS
  <2> QED BY <1>2, <1>3, <2>1
<1>5. PICK q \in Nat : q = x \div 1000 /\ m <= q
  BY <1>4
<1>6. Line(p) = Capped(q, MaxEwma)
  BY <1>1, <1>4, <1>5 DEF Line
<1> QED BY <1>1, <1>5, <1>6, EwmaAssumption DEF Capped
=============================================================================
