----------------------------- MODULE RefBreaker -----------------------------
(***************************************************************************)
(* What a circuit breaker promises, told by the outcomes reported to it    *)
(* and not by counters.  log holds the outcomes reported since the mode    *)
(* last changed:                                                           *)
(*                                                                         *)
(*   - a Closed breaker opens exactly when its last FailureThreshold       *)
(*     outcomes were failures;                                             *)
(*   - an Open one hears nothing until CooldownMs has passed since it      *)
(*     opened, whoever asks;                                               *)
(*   - a HalfOpen one closes after SuccessThreshold successes and opens    *)
(*     again, with a fresh cooldown, at the first failure.                 *)
(*                                                                         *)
(* reports changes with every outcome reported, so that no report can pass *)
(* for a step in which nothing happened: it is heard or, Open, ignored.    *)
(***************************************************************************)
EXTENDS Clock, Sequences

CONSTANTS FailureThreshold, SuccessThreshold, CooldownMs, MaxLog

VARIABLES mode, since, log, reports

refVars == <<now, mode, since, log, reports>>

\* The last n entries of l are all o.
EndsInRun(l, o, n) ==
    Len(l) >= n /\ \A i \in Len(l) - n + 1 .. Len(l) : l[i] = o

CooldownOver == mode = "Open" /\ SatSub(now, since) >= CooldownMs

Mode == IF CooldownOver THEN "HalfOpen" ELSE mode

History == IF CooldownOver THEN <<>> ELSE log

Enter(m, s) == mode' = m /\ since' = s /\ log' = <<>>

StayWith(l) == mode' = Mode /\ since' = None /\ log' = l

Ignore == Mode = "Open" /\ UNCHANGED <<mode, since, log>>

ReportFailure ==
    LET l == Append(History, "failure")
    IN  \/ Ignore
        \/ /\ Mode = "Closed"
           /\ \/ EndsInRun(l, "failure", FailureThreshold) /\ Enter("Open", now)
              \/ ~EndsInRun(l, "failure", FailureThreshold) /\ StayWith(l)
        \/ Mode = "HalfOpen" /\ Enter("Open", now)

ReportSuccess ==
    LET l == Append(History, "success")
    IN  \/ Ignore
        \/ Mode = "Closed" /\ StayWith(l)
        \/ /\ Mode = "HalfOpen"
           /\ \/ EndsInRun(l, "success", SuccessThreshold) /\ Enter("Closed", None)
              \/ ~EndsInRun(l, "success", SuccessThreshold) /\ StayWith(l)

RefInit ==
    /\ ClockInit
    /\ mode = "Closed" /\ since = None /\ log = <<>> /\ reports = 0

RefNext ==
    \/ (AdvanceClock \/ JumpClock) /\ UNCHANGED <<mode, since, log, reports>>
    \/ CooldownOver /\ Enter("HalfOpen", None) /\ UNCHANGED <<now, reports>>
    \/ (ReportFailure \/ ReportSuccess) /\ reports' = 1 - reports /\ UNCHANGED now

RefSpec == RefInit /\ [][RefNext]_refVars
=============================================================================
