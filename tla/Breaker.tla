------------------------------ MODULE Breaker ------------------------------
(***************************************************************************)
(* The circuit breaker of one upstream as a value: a record and the        *)
(* operations that map it to its next value.  CircuitBreaker.tla runs it   *)
(* on its own, PoolOps.tla keeps one in every backend.                     *)
(*                                                                         *)
(* The trips statistic is left out: nothing in the engine reads it.        *)
(***************************************************************************)
EXTENDS U64

CONSTANTS
    FailureThreshold,
    SuccessThreshold,
    CooldownMs,
    HalfOpenMaxCalls

ASSUME BreakerAssumption ==
    /\ FailureThreshold \in Nat
    /\ SuccessThreshold \in Nat
    /\ CooldownMs \in Nat
    /\ HalfOpenMaxCalls \in Nat

BreakerStates == {"Closed", "Open", "HalfOpen"}

\* The counts a breaker may show between two calls: below the threshold that
\* ends the count, and a threshold of zero acts as a threshold of one.
CountsBelow(threshold) == 0 .. AtLeastOne(threshold) - 1

BreakerType ==
    [state                 : BreakerStates,
     consecutive_failures  : CountsBelow(FailureThreshold),
     consecutive_successes : CountsBelow(SuccessThreshold),
     opened_at             : Millis]

NewBreaker ==
    [state |-> "Closed", consecutive_failures |-> 0,
     consecutive_successes |-> 0, opened_at |-> 0]

CooledDown(b, t) == SatSub(t, b.opened_at) >= CooldownMs

\* Mutant: the cooldown must be exceeded, not reached.
PollPastCooldown(b, t) ==
    IF b.state = "Open" /\ SatSub(t, b.opened_at) > CooldownMs
    THEN [b EXCEPT !.state = "HalfOpen", !.consecutive_successes = 0]
    ELSE b

BreakerPoll(b, t) ==
    IF b.state = "Open" /\ CooledDown(b, t)
    THEN [b EXCEPT !.state = "HalfOpen", !.consecutive_successes = 0]
    ELSE b

IsCallable(b, t) == b.state = "Open" => CooledDown(b, t)

Admits(b, t, inFlight) ==
    /\ IsCallable(b, t)
    /\ b.state = "HalfOpen" => inFlight < AtLeastOne(HalfOpenMaxCalls)

\* Mutant: the moment of opening is kept from the time before.
TripKeepsTime(b, t) ==
    [b EXCEPT !.state = "Open", !.consecutive_failures = 0,
              !.consecutive_successes = 0]

Trip(b, t) ==
    [state |-> "Open", opened_at |-> t,
     consecutive_failures |-> 0, consecutive_successes |-> 0]

\* Mutant: one success more than the threshold is asked for.
CountSuccessOffByOne(b) ==
    IF b.consecutive_successes + 1 > SuccessThreshold
    THEN [b EXCEPT !.state = "Closed", !.consecutive_failures = 0,
                   !.consecutive_successes = 0]
    ELSE [b EXCEPT !.consecutive_successes = @ + 1]

CountSuccess(b) ==
    IF b.consecutive_successes + 1 >= SuccessThreshold
    THEN [b EXCEPT !.state = "Closed", !.consecutive_failures = 0,
                   !.consecutive_successes = 0]
    ELSE [b EXCEPT !.consecutive_successes = @ + 1]

\* Mutant: a success in Closed leaves the failure count alone.
OnSuccessKeepsFailures(b, t) ==
    LET p == BreakerPoll(b, t)
    IN  IF p.state = "HalfOpen" THEN CountSuccess(p) ELSE p

OnSuccess(b, t) ==
    LET p == BreakerPoll(b, t)
    IN  CASE p.state = "Closed"   -> [p EXCEPT !.consecutive_failures = 0]
          [] p.state = "HalfOpen" -> CountSuccess(p)
          [] p.state = "Open"     -> p

CountFailure(b, t) ==
    IF b.consecutive_failures + 1 >= FailureThreshold
    THEN Trip(b, t)
    ELSE [b EXCEPT !.consecutive_failures = @ + 1]

\* Mutant: the failure is counted without polling first.
OnFailureUnpolled(b, t) ==
    CASE b.state = "Closed"   -> CountFailure(b, t)
      [] b.state = "HalfOpen" -> Trip(b, t)
      [] b.state = "Open"     -> b

OnFailure(b, t) ==
    LET p == BreakerPoll(b, t)
    IN  CASE p.state = "Closed"   -> CountFailure(p, t)
          [] p.state = "HalfOpen" -> Trip(p, t)
          [] p.state = "Open"     -> p
=============================================================================
