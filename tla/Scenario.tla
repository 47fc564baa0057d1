------------------------------ MODULE Scenario ------------------------------
(***************************************************************************)
(* The proxy in front of scripted upstreams, as the scenarios of the demo  *)
(* and of the tests run it: whoever writes the scenario pushes steps and   *)
(* probe results onto the upstreams' queues between requests, the proxy's  *)
(* dispatches and probes take them off.  What an upstream answers is here  *)
(* no choice of the environment's but the head of its queue.               *)
(*                                                                         *)
(* checked, probed and streak are history variables: the time of the last  *)
(* health check, and per upstream, by its own count of probes, the time of *)
(* its last one, both None before the first, and the result of its last    *)
(* probe with the number of probes in a row that had it, up to MaxStreak.  *)
(* The clock of a scenario only goes forward.                              *)
(* MaxScript and MaxProbes bound what waits in an upstream's queues.       *)
(***************************************************************************)
EXTENDS Proxy, Upstream, Sums

CONSTANTS
    Mocks,      \* the upstreams the scenario begins with
    Steps,      \* what it may push
    MaxScript, MaxProbes

ASSUME ScenarioAssumption ==
    /\ IsFiniteSet(Members)
    /\ Mocks \in [Members -> MockType(ReplyLatencies)]
    /\ \A m \in Members : Mocks[m].calls = 0 /\ Mocks[m].probe_calls = 0
    /\ Steps \subseteq StepType(ReplyLatencies)
    /\ MaxScript \in Nat /\ MaxProbes \in Nat

VARIABLES mocks, checked, probed, streak

scenarioVars == <<vars, mocks, checked, probed, streak>>

MaxStreak ==
    LET bad  == AtLeastOne(UnhealthyProbeThreshold)
        good == AtLeastOne(HealthyProbeThreshold)
    IN  IF bad > good THEN bad ELSE good

NoProbe == [live |-> StartHealthy, length |-> 0]

ScenarioInit ==
    /\ Init
    /\ mocks = Mocks
    /\ checked = None
    /\ probed = [m \in Members |-> None]
    /\ streak = [m \in Members |-> NoProbe]

-----------------------------------------------------------------------------
PushStep ==
    /\ ~Busy
    /\ \E m \in Members, step \in Steps :
          /\ Len(mocks[m].script) < MaxScript
          /\ mocks' = [mocks EXCEPT ![m] = Push(@, step)]
    /\ UNCHANGED <<vars, checked, probed, streak>>

PushLiveness ==
    /\ ~Busy
    /\ \E m \in Members, live \in BOOLEAN :
          /\ Len(mocks[m].probes) < MaxProbes
          /\ mocks' = [mocks EXCEPT ![m] = PushProbe(@, live)]
    /\ UNCHANGED <<vars, checked, probed, streak>>

\* handle() as far as its dispatch, and without one.
Undispatched ==
    /\ StartRequest \/ Send \/ GiveUp
    /\ UNCHANGED <<mocks, checked, probed, streak>>

\* The dispatch: the upstream's step decides how handle() goes on.
Dispatch ==
    /\ call.phase = "sent"
    /\ LET m     == <<Target, call.idx>>
           reply == Reply(mocks[m])
       IN  /\ mocks' = [mocks EXCEPT ![m] = AfterSend(@)]
           /\ IF Answered(reply.outcome) THEN SucceedAfter(reply.latency_ms) ELSE Fail
    /\ UNCHANGED <<checked, probed, streak>>

Longer(s, live) ==
    IF s.live = live /\ s.length > 0
    THEN [s EXCEPT !.length = Capped(@ + 1, MaxStreak)]
    ELSE [live |-> live, length |-> 1]

Due(m) == ProbeDue(BackendsOf(m[1])[m[2]], now)

\* m is sent a probe in this step.
Probes(m) == mocks'[m].probe_calls > mocks[m].probe_calls

\* The probes that are due take the probe results off the queues.
Probe ==
    /\ CheckHealthBut({m \in Members : ~ProbeResult(mocks[m])})
    /\ mocks' = [m \in Members |-> IF Due(m) THEN AfterProbe(mocks[m]) ELSE mocks[m]]
    /\ checked' = now
    /\ probed' = [m \in Members |-> IF Probes(m) THEN now ELSE probed[m]]
    /\ streak' = [m \in Members |->
          IF Probes(m) THEN Longer(streak[m], ProbeResult(mocks[m])) ELSE streak[m]]

Tick == Advance /\ UNCHANGED <<mocks, checked, probed, streak>>

Reconfigure == Restrategize /\ UNCHANGED <<mocks, checked, probed, streak>>

ScenarioNext ==
    \/ PushStep \/ PushLiveness
    \/ Undispatched \/ Dispatch
    \/ Probe \/ Tick \/ Reconfigure

ScenarioSpec == ScenarioInit /\ [][ScenarioNext]_scenarioVars

-----------------------------------------------------------------------------
Calls == TotalOf([m \in Members |-> mocks[m].calls], Members)

(***************************************************************************)
(* What the upstreams see of the proxy's clients: no more calls than there *)
(* were requests and failovers, so never more than the requests and what   *)
(* the budget grants for them, in every incident (proxy.rs handle; gate 5: *)
(* granted retries stay under (max_milli + requests * deposit) / cost).    *)
(***************************************************************************)
AmplificationBounded ==
    /\ Calls <= total.requests + total.failovers
    /\ RetryCostMilli * (Calls - total.requests)
           <= MaxMilli + DepositMilli * total.requests

(***************************************************************************)
(* Probes keep their cadence: one probe of an upstream at a time and no    *)
(* two within one interval, so an upstream that was checked late is not    *)
(* made up for; and no health check leaves anybody whose last probe is an  *)
(* interval ago.  With a check at every moment the probes are exactly one  *)
(* interval apart (pool.rs run_health_checks; gate 5, probe cadence).      *)
(***************************************************************************)
ProbeCadence ==
    [][ProbeIntervalMs > 0 =>
          \A m \in Members :
              /\ mocks'[m].probe_calls # mocks[m].probe_calls =>
                     /\ mocks'[m].probe_calls = mocks[m].probe_calls + 1
                     /\ probed[m] # None => now - probed[m] >= ProbeIntervalMs
              /\ checked' # None =>
                     /\ probed'[m] # None
                     /\ checked' - probed'[m] < ProbeIntervalMs]_scenarioVars

\* The probes in a row that agree with the last one are enough to believe it.
Believed(s) ==
    s.length >= AtLeastOne(IF s.live THEN HealthyProbeThreshold
                           ELSE UnhealthyProbeThreshold)

(***************************************************************************)
(* Active health has hysteresis: an upstream's health changes only by as   *)
(* many agreeing probes in a row as the threshold says, never by a request *)
(* that failed or succeeded, and it does change then, wherever earlier     *)
(* runs of probes broke off (pool.rs run_health_checks; gate 3).           *)
(***************************************************************************)
HealthFollowsProbes ==
    [][\A m \in Members :
          LET before == BackendsOf(m[1])[m[2]].healthy
              after  == pools'[m[1]].backends[m[2]].healthy
          IN  after = (IF Believed(streak'[m]) THEN streak'[m].live ELSE before)]_scenarioVars
=============================================================================
