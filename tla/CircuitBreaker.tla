--------------------------- MODULE CircuitBreaker ---------------------------
(***************************************************************************)
(* One circuit breaker driven by the clock, by poll() and by the outcomes  *)
(* of calls, in any order: an outcome may arrive long after the call that  *)
(* earned it, and on_success / on_failure poll on their own before they    *)
(* look at the state.                                                      *)
(*                                                                         *)
(* log and reports are history variables: the outcomes the breaker heard   *)
(* since its state last changed, and the parity of the number of outcomes  *)
(* reported to it.  MaxLog bounds log for model checking.                  *)
(***************************************************************************)
EXTENDS Clock, Breaker, Sequences

CONSTANT MaxLog

ASSUME MaxLogAssumption == MaxLog \in Nat

VARIABLES br, log, reports

vars == <<now, br, log, reports>>

Outcomes == {"success", "failure"}

TypeOK ==
    /\ now \in Millis
    /\ br \in BreakerType
    /\ log \in Seq(Outcomes)
    /\ reports \in {0, 1}

Init == ClockInit /\ br = NewBreaker /\ log = <<>> /\ reports = 0

Advance == AdvanceClock /\ UNCHANGED <<br, log, reports>>

Jump == JumpClock /\ UNCHANGED <<br, log, reports>>

Poll ==
    /\ br' = BreakerPoll(br, now)
    /\ log' = IF br'.state = br.state THEN log ELSE <<>>
    /\ UNCHANGED <<now, reports>>

\* The history after outcome o: p is the breaker the outcome was counted on,
\* after the poll that precedes counting.
Logged(p, o) ==
    IF br'.state # p.state THEN <<>>
    ELSE IF p.state = "Open" THEN log
    ELSE Append(IF br.state = "Open" THEN <<>> ELSE log, o)

Success ==
    /\ Len(log) < MaxLog
    /\ br' = OnSuccess(br, now)
    /\ log' = Logged(BreakerPoll(br, now), "success")
    /\ reports' = 1 - reports
    /\ UNCHANGED now

Failure ==
    /\ Len(log) < MaxLog
    /\ br' = OnFailure(br, now)
    /\ log' = Logged(BreakerPoll(br, now), "failure")
    /\ reports' = 1 - reports
    /\ UNCHANGED now

Next == Advance \/ Jump \/ Poll \/ Success \/ Failure

Spec == Init /\ [][Next]_vars

\* A clock that runs and is not set by hand for ever, and a client that polls
\* before it reads, which the proxy does on every request to the pool.
Fairness == WF_vars(Advance) /\ WF_vars(Poll) /\ <>[][~Jump]_vars

FairSpec == Spec /\ Fairness

-----------------------------------------------------------------------------
\* Outcomes of the last n entries of the log.
AllOf(o, first, last) == \A i \in first .. last : log[i] = o

(***************************************************************************)
(* The counters mean what their names say: a Closed breaker's failure      *)
(* count is the length of the run of failures that ends its history (the   *)
(* entry before the run, if any, is a success), a HalfOpen one has heard   *)
(* successes only and has counted each, and the counter a state does not   *)
(* use is zero, so nothing counted before a trip survives into the trial   *)
(* or into the next Closed period (breaker.rs on_success, on_failure).     *)
(***************************************************************************)
CountersTellHistory ==
    /\ br.state = "Closed" =>
        /\ br.consecutive_failures <= Len(log)
        /\ AllOf("failure", Len(log) - br.consecutive_failures + 1, Len(log))
        /\ br.consecutive_failures < Len(log) =>
              log[Len(log) - br.consecutive_failures] = "success"
    /\ br.state = "HalfOpen" =>
        /\ br.consecutive_successes = Len(log)
        /\ AllOf("success", 1, Len(log))
    /\ br.state = "Open" => log = <<>>
    /\ br.state # "Closed" => br.consecutive_failures = 0
    /\ br.state # "HalfOpen" => br.consecutive_successes = 0

\* The abstract breaker this one implements; opened_at is a stamp only while
\* Open, in the other states it is a leftover nobody reads.
Promise ==
    INSTANCE RefBreaker WITH
        mode <- br.state,
        since <- IF br.state = "Open" THEN br.opened_at ELSE None

(***************************************************************************)
(* The counting breaker of breaker.rs implements the reference breaker:    *)
(* the gate-2 claim of tests/gates.rs, for every order of calls and every  *)
(* clock, also one that steps back.  No outcome is lost: one that arrives  *)
(* after the cooldown counts for the trial although nobody polled.         *)
(***************************************************************************)
ImplementsReference == Promise!RefSpec

(***************************************************************************)
(* No breaker stays Open for ever: an Open period whose cooldown fits the  *)
(* clock range ends in a trial, or in the fresh cooldown that a failure    *)
(* reported after the cooldown starts (breaker.rs poll, on_failure).       *)
(***************************************************************************)
OpenEnds ==
    \A t \in Millis :
        (br.state = "Open" /\ br.opened_at = t /\ t + CooldownMs <= MaxClock)
            ~> (br.state # "Open" \/ br.opened_at # t)
=============================================================================
