------------------------ MODULE CircuitBreakerProofs ------------------------
(***************************************************************************)
(* For every threshold, cooldown, clock range and set of clock movements:  *)
(* the breaker is type correct, its counters tell its history, and it      *)
(* implements the reference breaker.                                       *)
(***************************************************************************)
EXTENDS CircuitBreaker, TLAPS

USE MaxClockAssumption, ClockAssumption, BreakerAssumption, MaxLogAssumption

\* A saturating addition stays in the clock range (clock.rs advance).
LEMMA SatAddType ==
    ASSUME NEW a \in Millis, NEW d \in Nat PROVE SatAdd(a, d) \in Millis
BY DEF SatAdd, Millis

\* A threshold of zero or more leaves room for the count zero.
LEMMA ZeroCount ==
    ASSUME NEW n \in Nat PROVE 0 \in CountsBelow(n)
BY DEF CountsBelow, AtLeastOne

\* Polling keeps the record well formed (breaker.rs poll).
LEMMA PollType ==
    ASSUME NEW b \in BreakerType, NEW t \in Millis
    PROVE  BreakerPoll(b, t) \in BreakerType
BY ZeroCount DEF BreakerType, BreakerPoll, BreakerStates

\* So does tripping (breaker.rs trip).
LEMMA TripType ==
    ASSUME NEW b \in BreakerType, NEW t \in Millis
    PROVE  Trip(b, t) \in BreakerType
BY ZeroCount DEF BreakerType, Trip, BreakerStates

\* And counting an outcome (breaker.rs on_success, on_failure).
LEMMA CountType ==
    ASSUME NEW b \in BreakerType, NEW t \in Millis
    PROVE  CountSuccess(b) \in BreakerType /\ CountFailure(b, t) \in BreakerType
<1>1. CountSuccess(b) \in BreakerType
  <2>1. CASE b.consecutive_successes + 1 >= SuccessThreshold
    BY <2>1, ZeroCount DEF BreakerType, CountSuccess, BreakerStates
  <2>2. CASE ~(b.consecutive_successes + 1 >= SuccessThreshold)
    BY <2>2 DEF BreakerType, CountSuccess, BreakerStates, CountsBelow, AtLeastOne
  <2> QED BY <2>1, <2>2
<1>2. CountFailure(b, t) \in BreakerType
  <2>1. CASE b.consecutive_failures + 1 >= FailureThreshold
    BY <2>1, TripType DEF CountFailure
  <2>2. CASE ~(b.consecutive_failures + 1 >= FailureThreshold)
    BY <2>2 DEF BreakerType, CountFailure, BreakerStates, CountsBelow, AtLeastOne
  <2> QED BY <2>1, <2>2
<1> QED BY <1>1, <1>2

\* on_success and on_failure as a whole.
LEMMA OutcomeType ==
    ASSUME NEW b \in BreakerType, NEW t \in Millis
    PROVE  OnSuccess(b, t) \in BreakerType /\ OnFailure(b, t) \in BreakerType
<1> DEFINE p == BreakerPoll(b, t)
<1>1. p \in BreakerType
  BY PollType
<1>2. [p EXCEPT !.consecutive_failures = 0] \in BreakerType
  BY <1>1, ZeroCount DEF BreakerType
<1>3. p.state \in {"Closed", "HalfOpen", "Open"}
  BY <1>1 DEF BreakerType, BreakerStates
<1> QED BY <1>1, <1>2, <1>3, CountType, TripType DEF OnSuccess, OnFailure

(***************************************************************************)
(* Type correctness of the breaker and of its history.                     *)
(***************************************************************************)
THEOREM TypeCorrect == Spec => []TypeOK
<1>1. Init => TypeOK
  BY ZeroCount DEF Init, ClockInit, TypeOK, NewBreaker, BreakerType, BreakerStates, Millis
<1>2. TypeOK /\ [Next]_vars => TypeOK'
  <2> SUFFICES ASSUME TypeOK, [Next]_vars PROVE TypeOK'
    OBVIOUS
  <2> USE DEF TypeOK
  <2>1. CASE Advance
    BY <2>1, SatAddType DEF Advance, AdvanceClock
  <2>2. CASE Jump
    BY <2>2 DEF Jump, JumpClock
  <2>3. CASE Poll
    BY <2>3, PollType DEF Poll
  <2>4. ASSUME NEW o \in Outcomes, NEW p, log' = Logged(p, o)
        PROVE  log' \in Seq(Outcomes)
    BY <2>4 DEF Logged
  <2>5. CASE Success
    BY <2>5, <2>4, OutcomeType DEF Success, Outcomes
  <2>6. CASE Failure
    BY <2>6, <2>4, OutcomeType DEF Failure, Outcomes
  <2>7. CASE UNCHANGED vars
    BY <2>7 DEF vars
  <2> QED BY <2>1, <2>2, <2>3, <2>5, <2>6, <2>7 DEF Next
<1> QED BY <1>1, <1>2, PTL DEF Spec

-----------------------------------------------------------------------------
\* What is counted, and what the history becomes, in each state the outcome
\* may find the breaker in after its poll (breaker.rs on_success).
LEMMA SuccessStep ==
    ASSUME TypeOK, Success, NEW p, p = BreakerPoll(br, now)
    PROVE  /\ p.state = "Open" => br' = br /\ log' = log /\ p = br
           /\ p.state = "Closed" =>
                /\ p = br /\ br' = [br EXCEPT !.consecutive_failures = 0]
                /\ log' = Append(log, "success")
           /\ p.state = "HalfOpen" =>
                LET h == IF br.state = "Open" THEN <<>> ELSE log IN
                /\ p.consecutive_successes =
                       (IF br.state = "Open" THEN 0 ELSE br.consecutive_successes)
                /\ p.consecutive_failures = br.consecutive_failures
                /\ br' = CountSuccess(p)
                /\ log' = IF br'.state = "Closed" THEN <<>> ELSE Append(h, "success")
           /\ p \in BreakerType
<1>1. p \in BreakerType /\ br \in BreakerType /\ now \in Millis
  BY PollType DEF TypeOK
<1>2. br' = OnSuccess(br, now) /\ log' = Logged(p, "success")
  BY DEF Success
<1>3. CASE p.state = "Open"
  BY <1>1, <1>2, <1>3 DEF OnSuccess, Logged, BreakerPoll, BreakerType
<1>4. CASE p.state = "Closed"
  <2>1. p = br
    BY <1>1, <1>4 DEF BreakerPoll, BreakerType
  <2>2. br' = [br EXCEPT !.consecutive_failures = 0]
    BY <1>2, <1>4, <2>1 DEF OnSuccess
  <2>3. br'.state = p.state
    BY <2>1, <2>2, <1>1 DEF BreakerType
  <2> QED BY <1>1, <1>2, <1>4, <2>1, <2>2, <2>3 DEF Logged
<1>5. CASE p.state = "HalfOpen"
  <2>1. br' = CountSuccess(p)
    BY <1>2, <1>5 DEF OnSuccess
  <2>2. br'.state \in {"Closed", "HalfOpen"}
    BY <2>1, <1>1, <1>5 DEF CountSuccess, BreakerType
  <2>3. /\ br.state = "Open" => p.consecutive_successes = 0
        /\ br.state # "Open" => p = br
        /\ p.consecutive_failures = br.consecutive_failures
    BY <1>1, <1>5 DEF BreakerPoll, BreakerType
  <2>4. log' = IF br'.state = "Closed" THEN <<>>
               ELSE Append(IF br.state = "Open" THEN <<>> ELSE log, "success")
    BY <1>2, <1>5, <2>2 DEF Logged
  <2> QED BY <1>1, <1>5, <2>1, <2>3, <2>4
<1> QED BY <1>1, <1>3, <1>4, <1>5 DEF BreakerType, BreakerStates

\* The same for a failure (breaker.rs on_failure).
LEMMA FailureStep ==
    ASSUME TypeOK, Failure, NEW p, p = BreakerPoll(br, now)
    PROVE  /\ p.state = "Open" => br' = br /\ log' = log /\ p = br
           /\ p.state = "Closed" =>
                /\ p = br /\ br' = CountFailure(br, now)
                /\ log' = IF br'.state = "Open" THEN <<>> ELSE Append(log, "failure")
           /\ p.state = "HalfOpen" => br' = Trip(p, now) /\ log' = <<>>
           /\ p \in BreakerType
<1>1. p \in BreakerType /\ br \in BreakerType /\ now \in Millis
  BY PollType DEF TypeOK
<1>2. br' = OnFailure(br, now) /\ log' = Logged(p, "failure")
  BY DEF Failure
<1>3. CASE p.state = "Open"
  BY <1>1, <1>2, <1>3 DEF OnFailure, Logged, BreakerPoll, BreakerType
<1>4. CASE p.state = "Closed"
  <2>1. p = br
    BY <1>1, <1>4 DEF BreakerPoll, BreakerType
  <2>2. br' = CountFailure(br, now)
    BY <1>2, <1>4, <2>1 DEF OnFailure
  <2>3. br'.state \in {"Closed", "Open"}
    BY <2>1, <2>2, <1>1, <1>4 DEF CountFailure, Trip, BreakerType
  <2> QED BY <1>1, <1>2, <1>4, <2>1, <2>2, <2>3 DEF Logged
<1>5. CASE p.state = "HalfOpen"
  <2>1. br' = Trip(p, now)
    BY <1>2, <1>5 DEF OnFailure
  <2>2. log' = <<>>
    BY <1>2, <1>5, <2>1 DEF Logged, Trip
  <2> QED BY <1>1, <1>5, <2>1, <2>2
<1> QED BY <1>1, <1>3, <1>4, <1>5 DEF BreakerType, BreakerStates

(***************************************************************************)
(* The counters of the breaker agree with the outcomes it heard, whatever  *)
(* the thresholds and however the clock moves.                             *)
(***************************************************************************)
THEOREM CountersCorrect == Spec => []CountersTellHistory
<1>1. Init => CountersTellHistory
  BY DEF Init, NewBreaker, CountersTellHistory, AllOf
<1>2. TypeOK /\ CountersTellHistory /\ [Next]_vars => CountersTellHistory'
  <2> SUFFICES ASSUME TypeOK, CountersTellHistory, [Next]_vars
               PROVE  CountersTellHistory'
    OBVIOUS
  <2> USE DEF CountersTellHistory, AllOf
  <2>t. br \in BreakerType /\ now \in Millis /\ log \in Seq(Outcomes)
    BY DEF TypeOK
  <2>1. CASE Advance \/ Jump
    BY <2>1 DEF Advance, Jump
  <2>2. CASE Poll
    <3>1. CASE br' = br
      BY <2>2, <3>1 DEF Poll
    <3>2. CASE br' # br
      <4>1. /\ br.state = "Open" /\ br'.state = "HalfOpen" /\ log' = <<>>
            /\ br'.consecutive_successes = 0
            /\ br'.consecutive_failures = br.consecutive_failures
        BY <2>2, <3>2, <2>t DEF Poll, BreakerPoll, BreakerType
      <4> QED BY <4>1
    <3> QED BY <3>1, <3>2
  <2>3. CASE Success
    <3> DEFINE p == BreakerPoll(br, now)
    <3>1. CASE p.state = "Open"
      BY <2>3, <3>1, SuccessStep
    <3>2. CASE p.state = "Closed"
      <4>1. /\ br'.consecutive_failures = 0 /\ br'.state = "Closed"
            /\ br'.consecutive_successes = br.consecutive_successes
            /\ br.state = "Closed" /\ log' = Append(log, "success")
        BY <2>3, <3>2, <2>t, SuccessStep DEF BreakerType
      <4> QED BY <4>1, <2>t
    <3>3. CASE p.state = "HalfOpen"
      <4> DEFINE h == IF br.state = "Open" THEN <<>> ELSE log
      <4>1. br.state \in {"Open", "HalfOpen"}
        BY <3>3, <2>t DEF BreakerPoll, BreakerType
      <4>2. /\ p.consecutive_successes = Len(h) /\ p.consecutive_failures = 0
            /\ h \in Seq(Outcomes) /\ \A i \in 1 .. Len(h) : h[i] = "success"
            /\ p \in BreakerType /\ br' = CountSuccess(p)
            /\ log' = IF br'.state = "Closed" THEN <<>> ELSE Append(h, "success")
        BY <2>3, <3>3, <4>1, <2>t, SuccessStep
      <4>3. CASE br'.state = "Closed"
        BY <4>2, <4>3, <3>3 DEF CountSuccess, BreakerType
      <4>4. CASE br'.state # "Closed"
        <5>1. /\ br'.state = "HalfOpen" /\ br'.consecutive_successes = Len(h) + 1
              /\ br'.consecutive_failures = 0 /\ log' = Append(h, "success")
          BY <4>2, <4>4, <3>3 DEF CountSuccess, BreakerType
        <5> QED BY <5>1, <4>2
      <4> QED BY <4>3, <4>4
    <3> QED BY <3>1, <3>2, <3>3, SuccessStep, <2>3 DEF BreakerType, BreakerStates
  <2>4. CASE Failure
    <3> DEFINE p == BreakerPoll(br, now)
    <3>1. CASE p.state = "Open"
      BY <2>4, <3>1, FailureStep
    <3>2. CASE p.state = "Closed"
      <4>1. /\ p = br /\ br' = CountFailure(br, now) /\ br.state = "Closed"
            /\ log' = IF br'.state = "Open" THEN <<>> ELSE Append(log, "failure")
        BY <2>4, <3>2, FailureStep
      <4>2. CASE br'.state = "Open"
        BY <4>1, <4>2, <2>t DEF CountFailure, Trip, BreakerType
      <4>3. CASE br'.state # "Open"
        <5>1. /\ br'.state = "Closed" /\ log' = Append(log, "failure")
              /\ br'.consecutive_failures = br.consecutive_failures + 1
              /\ br'.consecutive_successes = br.consecutive_successes
              /\ br.consecutive_failures \in Nat
          BY <4>1, <4>3, <2>t DEF CountFailure, Trip, BreakerType, CountsBelow
        <5> QED BY <5>1, <4>1, <2>t
      <4> QED BY <4>2, <4>3
    <3>3. CASE p.state = "HalfOpen"
      BY <2>4, <3>3, FailureStep DEF Trip
    <3> QED BY <3>1, <3>2, <3>3, FailureStep, <2>4 DEF BreakerType, BreakerStates
  <2>5. CASE UNCHANGED vars
    BY <2>5 DEF vars
  <2> QED BY <2>1, <2>2, <2>3, <2>4, <2>5 DEF Next
<1> QED BY <1>1, <1>2, TypeCorrect, PTL DEF Spec

-----------------------------------------------------------------------------
\* The mode and history the reference breaker works on are those of the
\* breaker after its own poll.
LEMMA PollMatches ==
    ASSUME TypeOK, CountersTellHistory, NEW p, p = BreakerPoll(br, now)
    PROVE  /\ Promise!Mode = p.state
           /\ Promise!History = IF p.state = br.state THEN log ELSE <<>>
           /\ Promise!CooldownOver <=> p.state # br.state
BY DEF TypeOK, BreakerType, BreakerPoll, CooledDown, SatSub, Promise!SatSub,
       Promise!Mode, Promise!History, Promise!CooldownOver, CountersTellHistory

\* A history ends in a run of n failures, the last one just reported, exactly
\* when the count that came before it was n - 1 or more.
LEMMA RunIsCount ==
    ASSUME TypeOK, CountersTellHistory, br.state = "Closed"
    PROVE  Promise!EndsInRun(Append(log, "failure"), "failure", FailureThreshold)
           <=> br.consecutive_failures + 1 >= FailureThreshold
<1> DEFINE l == Append(log, "failure")
           c == br.consecutive_failures
<1>1. /\ log \in Seq(Outcomes) /\ c \in Nat /\ c <= Len(log)
      /\ Len(l) = Len(log) + 1 /\ l[Len(l)] = "failure"
      /\ \A i \in 1 .. Len(log) : l[i] = log[i]
  BY DEF TypeOK, BreakerType, CountsBelow, CountersTellHistory
<1>2. CASE c + 1 >= FailureThreshold
  <2>1. ASSUME NEW i \in Len(l) - FailureThreshold + 1 .. Len(l)
        PROVE  l[i] = "failure"
    <3>1. i = Len(l) \/ i \in Len(log) - c + 1 .. Len(log)
      BY <1>1, <1>2
    <3> QED BY <3>1, <1>1 DEF CountersTellHistory, AllOf
  <2>2. Len(l) >= FailureThreshold
    BY <1>1, <1>2
  <2> QED BY <1>2, <2>1, <2>2 DEF Promise!EndsInRun
<1>3. CASE ~(c + 1 >= FailureThreshold)
  <2>1. CASE c = Len(log)
    BY <1>1, <1>3, <2>1 DEF Promise!EndsInRun
  <2>2. CASE c < Len(log)
    <3>1. l[Len(log) - c] = "success"
      BY <1>1, <2>2 DEF CountersTellHistory
    <3>2. Len(log) - c \in Len(l) - FailureThreshold + 1 .. Len(l)
      BY <1>1, <1>3, <2>2
    <3> QED BY <1>3, <3>1, <3>2 DEF Promise!EndsInRun
  <2> QED BY <1>1, <2>1, <2>2
<1> QED BY <1>2, <1>3

(***************************************************************************)
(* The breaker of breaker.rs, with its counters and its lazy cooldown,     *)
(* implements the breaker that decides on the outcomes themselves.         *)
(***************************************************************************)
THEOREM ImplementsRefBreaker == Spec => ImplementsReference
<1> USE DEF Promise!Enter, Promise!StayWith, Promise!Ignore
<1>1. Init => Promise!RefInit
  BY DEF Init, ClockInit, NewBreaker, Promise!RefInit, Promise!ClockInit,
         None, Promise!None
<1>2. TypeOK /\ CountersTellHistory /\ [Next]_vars => [Promise!RefNext]_Promise!refVars
  <2> SUFFICES ASSUME TypeOK, CountersTellHistory, [Next]_vars
               PROVE  Promise!RefNext \/ UNCHANGED Promise!refVars
    OBVIOUS
  <2> DEFINE p == BreakerPoll(br, now)
  <2>t. br \in BreakerType /\ now \in Millis /\ log \in Seq(Outcomes)
    BY DEF TypeOK
  <2>1. CASE Advance \/ Jump
    BY <2>1 DEF Advance, Jump, AdvanceClock, JumpClock, Promise!RefNext,
                Promise!AdvanceClock, Promise!JumpClock, SatAdd, Promise!SatAdd
  <2>2. CASE Poll
    <3>1. CASE br' = br
      BY <2>2, <3>1 DEF Poll, Promise!refVars
    <3>2. CASE br' # br
      <4>1. /\ br.state = "Open" /\ br'.state = "HalfOpen" /\ log' = <<>>
            /\ now' = now /\ reports' = reports
        BY <2>2, <3>2, <2>t DEF Poll, BreakerPoll, BreakerType
      <4>2. Promise!CooldownOver
        BY <4>1, <2>2, PollMatches DEF Poll
      <4> QED BY <4>1, <4>2 DEF Promise!RefNext, None, Promise!None
    <3> QED BY <3>1, <3>2
  <2>3. CASE Success
    <3>0. now' = now /\ reports' = 1 - reports
      BY <2>3 DEF Success
    <3> SUFFICES Promise!ReportSuccess
      BY <3>0 DEF Promise!RefNext
    <3>1. CASE p.state = "Open"
      BY <2>3, <3>1, SuccessStep, PollMatches DEF Promise!ReportSuccess
    <3>2. CASE p.state = "Closed"
      <4>1. br.state = "Closed" /\ br'.state = "Closed" /\ log' = Append(log, "success")
        BY <2>3, <3>2, <2>t, SuccessStep DEF BreakerType
      <4>2. Promise!Mode = "Closed" /\ Promise!History = log
        BY <3>2, <4>1, PollMatches
      <4> QED BY <4>1, <4>2 DEF Promise!ReportSuccess, None, Promise!None
    <3>3. CASE p.state = "HalfOpen"
      <4> DEFINE h == IF br.state = "Open" THEN <<>> ELSE log
                 l == Append(h, "success")
      <4>1. br.state \in {"Open", "HalfOpen"}
        BY <3>3, <2>t DEF BreakerPoll, BreakerType
      <4>2. /\ p.consecutive_successes = Len(h)
            /\ h \in Seq(Outcomes) /\ \A i \in 1 .. Len(h) : h[i] = "success"
            /\ p \in BreakerType /\ br' = CountSuccess(p)
            /\ log' = IF br'.state = "Closed" THEN <<>> ELSE l
        BY <2>3, <3>3, <4>1, <2>t, SuccessStep DEF CountersTellHistory, AllOf
      <4>3. Promise!Mode = "HalfOpen" /\ Promise!History = h
        BY <3>3, <4>1, PollMatches DEF CountersTellHistory
      <4>4. Promise!EndsInRun(l, "success", SuccessThreshold)
            <=> Len(h) + 1 >= SuccessThreshold
        BY <4>2 DEF Promise!EndsInRun
      <4>5. br'.state = IF Len(h) + 1 >= SuccessThreshold THEN "Closed" ELSE "HalfOpen"
        BY <4>2, <3>3 DEF CountSuccess, BreakerType
      <4> QED BY <4>2, <4>3, <4>4, <4>5 DEF Promise!ReportSuccess, None, Promise!None
    <3> QED BY <3>1, <3>2, <3>3, SuccessStep, <2>3 DEF BreakerType, BreakerStates
  <2>4. CASE Failure
    <3>0. now' = now /\ reports' = 1 - reports
      BY <2>4 DEF Failure
    <3> SUFFICES Promise!ReportFailure
      BY <3>0 DEF Promise!RefNext
    <3>1. CASE p.state = "Open"
      BY <2>4, <3>1, FailureStep, PollMatches DEF Promise!ReportFailure
    <3>2. CASE p.state = "Closed"
      <4>1. /\ p = br /\ br' = CountFailure(br, now) /\ br.state = "Closed"
            /\ log' = IF br'.state = "Open" THEN <<>> ELSE Append(log, "failure")
        BY <2>4, <3>2, FailureStep
      <4>2. Promise!Mode = "Closed" /\ Promise!History = log
        BY <3>2, <4>1, PollMatches
      <4>3. CASE br.consecutive_failures + 1 >= FailureThreshold
        <5>1. br'.state = "Open" /\ br'.opened_at = now /\ log' = <<>>
          BY <4>1, <4>3 DEF CountFailure, Trip
        <5> QED BY <4>1, <4>2, <4>3, <5>1, RunIsCount DEF Promise!ReportFailure
      <4>4. CASE ~(br.consecutive_failures + 1 >= FailureThreshold)
        <5>1. br'.state = "Closed" /\ log' = Append(log, "failure")
          BY <4>1, <4>4, <2>t DEF CountFailure, BreakerType
        <5> QED BY <4>1, <4>2, <4>4, <5>1, RunIsCount
                DEF Promise!ReportFailure, None, Promise!None
      <4> QED BY <4>3, <4>4
    <3>3. CASE p.state = "HalfOpen"
      <4>1. br'.state = "Open" /\ br'.opened_at = now /\ log' = <<>>
        BY <2>4, <3>3, FailureStep DEF Trip
      <4> QED BY <3>3, <4>1, PollMatches DEF Promise!ReportFailure
    <3> QED BY <3>1, <3>2, <3>3, FailureStep, <2>4 DEF BreakerType, BreakerStates
  <2>5. CASE UNCHANGED vars
    BY <2>5 DEF vars, Promise!refVars
  <2> QED BY <2>1, <2>2, <2>3, <2>4, <2>5 DEF Next
<1> QED
  BY <1>1, <1>2, TypeCorrect, CountersCorrect, PTL
  DEF Spec, ImplementsReference, Promise!RefSpec
=============================================================================
