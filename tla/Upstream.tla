------------------------------ MODULE Upstream ------------------------------
(***************************************************************************)
(* Upstreams as the engine sees them, and the scripted upstream the        *)
(* scenarios are written with, as a value.  A step of its script is what   *)
(* it does with one request, and a reply what the engine gets to see of    *)
(* it; what an upstream is asked does not matter to the scripted one.  An  *)
(* outcome has a status, or an error where there is no answer at all.      *)
(*                                                                         *)
(* Left out: the name, which is the body of every answer.                  *)
(***************************************************************************)
EXTENDS Naturals, Sequences

Answer(status) == [status |-> status]

Error(kind) == [error |-> kind]

Answered(outcome) == "status" \in DOMAIN outcome

Outcomes == [status : Nat] \cup [error : STRING]

StepType(latencies) == [outcome : Outcomes, latency_ms : latencies]

\* A script and probe results still to come, what is done without one, and
\* the calls so far.
MockType(latencies) ==
    [script : Seq(StepType(latencies)), default : StepType(latencies),
     probes : Seq(BOOLEAN), probe_default : BOOLEAN,
     calls : Nat, probe_calls : Nat]

Step(outcome, latency) == [outcome |-> outcome, latency_ms |-> latency]

\* Step::ok and Step::fail; ok_slow is Step itself.
OkStep(status) == Step(Answer(status), 5)

FailStep(kind) == Step(Error(kind), 5)

NewMock(default, probe_default) ==
    [script |-> <<>>, default |-> default,
     probes |-> <<>>, probe_default |-> probe_default,
     calls |-> 0, probe_calls |-> 0]

Healthy == NewMock(OkStep(200), TRUE)

AlwaysFailing(kind) == NewMock(FailStep(kind), FALSE)

Push(m, step) == [m EXCEPT !.script = Append(@, step)]

PushProbe(m, live) == [m EXCEPT !.probes = Append(@, live)]

-----------------------------------------------------------------------------
\* What is left of a queue after its head, if any, was taken.
Rest(queue) == IF queue = <<>> THEN queue ELSE Tail(queue)

NextStep(m) == IF m.script = <<>> THEN m.default ELSE Head(m.script)

\* An answer of 500 or more is an error to the engine.
ReplyOutcome(outcome) ==
    IF Answered(outcome) /\ outcome.status >= 500
    THEN Error("ServerError") ELSE outcome

\* send(): the reply, and the upstream afterwards.
Reply(m) ==
    [outcome    |-> ReplyOutcome(NextStep(m).outcome),
     latency_ms |-> NextStep(m).latency_ms]

AfterSend(m) == [m EXCEPT !.calls = @ + 1, !.script = Rest(@)]

\* probe(): whether it is live, and the upstream afterwards.
ProbeResult(m) == IF m.probes = <<>> THEN m.probe_default ELSE Head(m.probes)

AfterProbe(m) == [m EXCEPT !.probe_calls = @ + 1, !.probes = Rest(@)]
=============================================================================
