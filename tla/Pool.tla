-------------------------------- MODULE Pool --------------------------------
(***************************************************************************)
(* One pool used by callers whose requests overlap: a caller polls,        *)
(* selects and begins a call in one go, the call is in flight for a while, *)
(* and when it ends its outcome is recorded with the time of that moment.  *)
(* Between the two anything may happen: other calls begin and end, the     *)
(* health checker runs, the clock moves, backends are added, the strategy  *)
(* is changed.  Least connections and the half open trial cap only make    *)
(* sense with such callers; the tests in tests/gates.rs are some.          *)
(*                                                                         *)
(* polled is a history variable: poll() has been called with the present   *)
(* time.  The methods' contract is that select() follows poll(now).        *)
(* MaxInFlight and MaxSamples bound the calls in flight on one backend and *)
(* the latency samples of one backend.                                     *)
(***************************************************************************)
EXTENDS Clock, PoolOps

CONSTANTS Weights, InitialBackends, Latencies, MaxInFlight, MaxSamples

ASSUME PoolAssumption ==
    /\ Weights \in Seq(Nat)
    /\ InitialBackends \in 0 .. Len(Weights)
    /\ Latencies \subseteq Nat
    /\ MaxInFlight \in Nat /\ MaxSamples \in Nat
    /\ DOMAIN PointsOf = DOMAIN Weights

VARIABLES pool, polled

vars == <<now, pool, polled>>

Callable == Indices(pool)

BackendOf(i) == pool.backends[i]

TypeOK ==
    /\ now \in Millis
    /\ pool \in PoolType
    /\ Len(pool.backends) <= Len(Weights)
    /\ polled \in BOOLEAN

StartingPool(s) ==
    [NewPool(s) EXCEPT
        !.backends = [i \in 1 .. InitialBackends |-> NewBackend(Weights[i])]]

Init == ClockInit /\ polled = FALSE /\ \E s \in Strategies : pool = StartingPool(s)

Advance == AdvanceClock /\ polled' = (polled /\ now' = now) /\ UNCHANGED pool

Jump == JumpClock /\ polled' = (polled /\ now' = now) /\ UNCHANGED pool

Poll == pool' = PoolPoll(pool, now) /\ polled' = TRUE /\ UNCHANGED now

\* select() and begin(): exclude holds the backends the caller tried before.
Request ==
    /\ polled
    /\ \E key \in Keys \cup {NoKey}, exclude \in SUBSET Callable :
          LET r == Select(pool, now, key, exclude)
          IN  \/ r.idx = None /\ pool' = r.pool
              \/ /\ r.idx # None
                 /\ r.pool.backends[r.idx].in_flight < MaxInFlight
                 /\ pool' = Begin(r.pool, r.idx)
    /\ UNCHANGED <<now, polled>>

\* end() and record_success_latency(), or record_success() for a caller that
\* measures no latency.
Succeed(i) ==
    /\ BackendOf(i).in_flight > 0
    /\ \/ /\ BackendOf(i).ewma_samples < MaxSamples
          /\ \E l \in Latencies :
                pool' = PoolRecordSuccess(End(pool, i), i, now, l)
       \/ pool' = [End(pool, i) EXCEPT !.backends[i] = RecordSuccess(@, now)]
    /\ UNCHANGED <<now, polled>>

\* end() and record_failure().
Fail(i) ==
    /\ BackendOf(i).in_flight > 0
    /\ pool' = PoolRecordFailure(End(pool, i), i, now)
    /\ UNCHANGED <<now, polled>>

Finish == \E i \in Callable : Succeed(i) \/ Fail(i)

CheckHealth ==
    /\ \E live \in [Callable -> BOOLEAN] : pool' = RunHealthChecks(pool, now, live)
    /\ UNCHANGED <<now, polled>>

Grow ==
    /\ Len(pool.backends) < Len(Weights)
    /\ pool' = AddBackend(pool, Weights[Len(pool.backends) + 1])
    /\ UNCHANGED <<now, polled>>

Restrategize ==
    /\ \E s \in Strategies : pool' = SetStrategy(pool, s)
    /\ UNCHANGED <<now, polled>>

AttachEwma == pool' = EnableEwma(pool) /\ UNCHANGED <<now, polled>>

Traffic == Advance \/ Poll \/ Request \/ Finish

Next ==
    \/ Traffic
    \/ CheckHealth \/ Grow \/ Restrategize \/ AttachEwma
    \/ Jump

Spec == Init /\ [][Next]_vars

\* The same without the actions a question may not need.
TrafficSpec == Init /\ [][Traffic]_vars

\* Time passes and callers keep polling; nothing is asked of their calls.
FairTrafficSpec == TrafficSpec /\ WF_vars(Advance) /\ WF_vars(Poll)

-----------------------------------------------------------------------------
\* The design's words for a backend that may be given a request: healthy, not
\* ejected, no open circuit, a trial slot free while HalfOpen, and a weight if
\* weights count.
Routable(i) ==
    LET b == BackendOf(i)
    IN  /\ b.healthy
        /\ b.ejected_until # None => now >= b.ejected_until
        /\ b.breaker.state # "Open"
        /\ b.breaker.state = "HalfOpen" =>
              b.in_flight < AtLeastOne(HalfOpenMaxCalls)
        /\ pool.strategy = "Weighted" => b.weight # 0

(***************************************************************************)
(* After a poll, every selection, under every strategy, with every key and *)
(* every set of backends already tried, returns a routable backend that    *)
(* was not tried, and returns none only if there is none: the pool never   *)
(* routes to a bad backend and never refuses while a good one is left      *)
(* (pool.rs select; DESIGN.md, gate 4).                                    *)
(***************************************************************************)
SelectsExactlyRoutable ==
    polled =>
        \A key \in Keys \cup {NoKey}, exclude \in SUBSET Callable :
            LET idx == Select(pool, now, key, exclude).idx
                candidates == {i \in Callable \ exclude : Routable(i)}
            IN  IF candidates = {} THEN idx = None ELSE idx \in candidates

(***************************************************************************)
(* What poll() established stays true until the clock moves, whatever      *)
(* outcomes are recorded meanwhile: no Open breaker whose cooldown is over *)
(* and so no difference between "not Open" and "callable" (breaker.rs      *)
(* poll, is_callable).  A retry selects again without polling.             *)
(***************************************************************************)
PollLasts ==
    polled => \A i \in Callable :
        BackendOf(i).breaker.state = "Open" => ~CooledDown(BackendOf(i).breaker, now)

(***************************************************************************)
(* An ejection is final: until its deadline passes no step, not another    *)
(* failure, a success, a poll or a judgement of the latency layer, moves   *)
(* or lifts it (pool.rs record_failure, poll; gate 5 "counts once").       *)
(***************************************************************************)
EjectionIsFinal ==
    [][\A i \in Callable : IsEjected(BackendOf(i), now) =>
          pool'.backends[i].ejected_until = BackendOf(i).ejected_until]_vars

(***************************************************************************)
(* A sticky key goes where a ring of exactly the available backends sends  *)
(* it, whatever ring is cached (pool.rs select_hash, ring_signature).      *)
(***************************************************************************)
StickyIgnoresCache ==
    pool.strategy = "ConsistentHash" =>
        \A key \in Keys, exclude \in SUBSET Callable :
            LET S == Available(pool, now, exclude)
            IN  S # {} => Select(pool, now, key, exclude).idx = Lookup(S, key)

(***************************************************************************)
(* Every ejection ends, also one armed at the top of the clock range:      *)
(* polled callers and a running clock are enough (pool.rs poll).           *)
(***************************************************************************)
EjectionEnds ==
    \A i \in DOMAIN Weights, u \in Millis :
        (i \in Callable /\ BackendOf(i).ejected_until = u)
            ~> (BackendOf(i).ejected_until # u)

(***************************************************************************)
(* DESIGN.md: "while Half-Open, at most half_open_max_calls calls may be   *)
(* in flight concurrently on that backend".                                *)
(***************************************************************************)
TrialIsRateLimited ==
    \A i \in Callable :
        BackendOf(i).breaker.state = "HalfOpen" =>
            BackendOf(i).in_flight <= AtLeastOne(HalfOpenMaxCalls)
=============================================================================
