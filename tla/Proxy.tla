-------------------------------- MODULE Proxy --------------------------------
(***************************************************************************)
(* The proxy: one pool per service, one retry budget for all of them, and  *)
(* handle(), which takes a request through routing, selection, dispatch,   *)
(* the recording of the outcome and, on failure, a retry elsewhere.        *)
(*                                                                         *)
(* handle() borrows the proxy exclusively, so nothing but the clock and    *)
(* the upstreams moves while it runs.  Its locals between two of its calls *)
(* are call: phase "selecting" is the head of its loop, "sent" the         *)
(* dispatch to backend idx, and now the time it read once, at its start.   *)
(* result is what the last handle() returned.                              *)
(*                                                                         *)
(* incident, the upstreams' and not the proxy's, says whether they may     *)
(* fail.  MaxTotal bounds the requests; zero bounds nothing, and then the  *)
(* statistics in total are not kept.                                       *)
(***************************************************************************)
EXTENDS Clock, PoolOps, Budget, Routing

CONSTANTS
    PoolWeights,    \* per service that has a pool, the weights of its backends
    RouteTable,     \* the router the proxy was made with
    Requests,       \* by host, path and the value of the sticky header
    MaxRetries,
    ReplyLatencies,
    MaxTotal

Services == DOMAIN PoolWeights

\* The sticky header's value, or else the host.
StickyKey(r) ==
    IF r.session # NoKey THEN r.session ELSE IF r.host # NoHost THEN r.host ELSE NoKey

ASSUME ProxyAssumption ==
    /\ \A s \in Services :
          PoolWeights[s] \in Seq(Nat) /\ DOMAIN PoolWeights[s] \subseteq DOMAIN PointsOf
    /\ \A r \in Requests : StickyKey(r) \in Keys \cup {NoKey}
    /\ MaxRetries \in Nat /\ MaxTotal \in Nat
    /\ ReplyLatencies \subseteq Nat

VARIABLES pools, tokens, call, result, total, incident

vars == <<now, pools, tokens, call, result, total, incident>>

Failures == {"NoRoute", "NoHealthyUpstream", "AllAttemptsFailed"}

NoResult == [kind |-> "none", attempts |-> 0]

NoCall == [phase |-> "idle"]

Busy == call.phase # "idle"

Target == call.service

BackendsOf(s) == pools[s].backends

Members == UNION {{s} \X DOMAIN PoolWeights[s] : s \in Services}

\* Mutant: the last failure is not in it yet.
TriedBefore == {call.tried[k] : k \in 1 .. Len(call.tried) - 1}

\* The backends in the vector tried.
Tried == {call.tried[k] : k \in DOMAIN call.tried}

TypeOK ==
    /\ now \in Millis
    /\ pools \in [Services -> PoolType]
    /\ tokens \in 0 .. MaxMilli
    /\ Busy =>
        /\ call.phase \in {"selecting", "sent"}
        /\ Target \in Services /\ call.key \in Keys \cup {NoKey}
        /\ call.now \in Millis
        /\ Tried \subseteq Indices(pools[Target])
        /\ Len(call.tried) <= MaxRetries
        /\ call.phase = "sent" => <<Target, call.idx>> \in Members
    /\ result \in [kind : {"none", "Ok"} \cup Failures, attempts : 0 .. MaxRetries + 1]
    /\ total \in [requests : 0 .. MaxTotal, retries : Nat, failovers : Nat]
    /\ incident \in BOOLEAN

NewService(s, strategy) ==
    [NewPool(strategy) EXCEPT
        !.backends = [i \in DOMAIN PoolWeights[s] |-> NewBackend(PoolWeights[s][i])]]

Init ==
    /\ ClockInit
    /\ \E f \in [Services -> Strategies] :
          pools = [s \in Services |-> NewService(s, f[s])]
    /\ tokens = FullBucket
    /\ call = NoCall /\ result = NoResult
    /\ total = [requests |-> 0, retries |-> 0, failovers |-> 0]
    /\ incident = TRUE

Count(statistic) ==
    IF MaxTotal = 0 THEN total ELSE [total EXCEPT ![statistic] = @ + 1]

-----------------------------------------------------------------------------
Advance == AdvanceClock /\ UNCHANGED <<pools, tokens, call, result, total, incident>>

Jump == JumpClock /\ UNCHANGED <<pools, tokens, call, result, total, incident>>

EndIncident ==
    /\ incident
    /\ incident' = FALSE
    /\ UNCHANGED <<now, pools, tokens, call, result, total>>

\* Between requests, with those in dead not answering their probes.
CheckHealthBut(dead) ==
    /\ ~Busy
    /\ pools' = [s \in Services |->
          RunHealthChecks(pools[s], now,
                          [i \in Indices(pools[s]) |-> <<s, i>> \notin dead])]
    /\ UNCHANGED <<now, tokens, call, result, total, incident>>

CheckHealth ==
    \E dead \in SUBSET Members : (dead # {} => incident) /\ CheckHealthBut(dead)

\* add_pool() with a new pool for a service, which replaces the old one.
AddPool ==
    /\ ~Busy
    /\ \E s \in Services, strategy \in Strategies :
          pools' = [pools EXCEPT ![s] = NewService(s, strategy)]
    /\ UNCHANGED <<now, tokens, call, result, total, incident>>

\* pool_mut().set_strategy(); Pool.tla has the other operations of a pool.
Restrategize ==
    /\ ~Busy
    /\ \E s \in Services, strategy \in Strategies :
          pools' = [pools EXCEPT ![s] = SetStrategy(@, strategy)]
    /\ UNCHANGED <<now, tokens, call, result, total, incident>>

-----------------------------------------------------------------------------
\* What handle() does, in its order.

\* Mutant: the loop goes on.
ReturnNot(kind, attempts) ==
    /\ call' = call
    /\ result' = [kind |-> kind, attempts |-> attempts]

Return(kind, attempts) ==
    /\ call' = NoCall
    /\ result' = [kind |-> kind, attempts |-> attempts]

\* Up to the loop.  A request without a route, or whose service has no pool,
\* has put its deposit in the bucket all the same.
StartRequest ==
    /\ ~Busy
    /\ total.requests < MaxTotal \/ MaxTotal = 0
    /\ tokens' = Deposit(tokens)
    /\ total' = Count("requests")
    /\ \E r \in Requests :
          LET service == RouteFor(RouteTable, r)
          IN  IF service \notin Services
              THEN Return("NoRoute", 0) /\ UNCHANGED pools
              ELSE /\ call' = [phase |-> "selecting", service |-> service,
                               key |-> StickyKey(r), now |-> now, tried |-> <<>>]
                   /\ pools' = [pools EXCEPT ![service] = PoolPoll(@, now)]
                   /\ result' = NoResult
    /\ UNCHANGED <<now, incident>>

Selection == Select(pools[Target], call.now, call.key, Tried)

\* The head of the loop, up to dispatch().
Send ==
    /\ call.phase = "selecting"
    /\ Selection.idx # None
    /\ pools' = [pools EXCEPT ![Target] = Begin(Selection.pool, Selection.idx)]
    /\ call' = [phase |-> "sent", service |-> Target, key |-> call.key,
                now |-> call.now, tried |-> call.tried, idx |-> Selection.idx]
    /\ total' = IF call.tried = <<>> THEN total ELSE Count("failovers")
    /\ UNCHANGED <<now, tokens, result, incident>>

GiveUp ==
    /\ call.phase = "selecting"
    /\ Selection.idx = None
    /\ Return(IF call.tried = <<>> THEN "NoHealthyUpstream" ELSE "AllAttemptsFailed",
              Len(call.tried))
    /\ pools' = [pools EXCEPT ![Target] = Selection.pool]
    /\ UNCHANGED <<now, tokens, total, incident>>

\* dispatch() returns a response, after l milliseconds by the upstream's word.
SucceedAfter(l) ==
    /\ call.phase = "sent"
    /\ pools' = [pools EXCEPT ![Target] =
                    PoolRecordSuccess(End(@, call.idx), call.idx, call.now, l)]
    /\ Return("Ok", Len(call.tried) + 1)
    /\ UNCHANGED <<now, tokens, total, incident>>

Succeed == \E l \in ReplyLatencies : SucceedAfter(l)

\* Mutants: no cap on the retries of a request, or one retry fewer.
MayRetryUncapped(attempts) == Affords(tokens)

MayRetryOneFewer(attempts) == attempts < MaxRetries /\ Affords(tokens)

\* The attempts made so far leave a retry, and the bucket pays for it.
MayRetry(attempts) == attempts <= MaxRetries /\ Affords(tokens)

\* dispatch() returns an error.
Fail ==
    /\ call.phase = "sent" /\ incident
    /\ pools' = [pools EXCEPT ![Target] =
                    PoolRecordFailure(End(@, call.idx), call.idx, call.now)]
    /\ LET tried == Append(call.tried, call.idx)
       IN  IF MayRetry(Len(tried))
           THEN /\ tokens' = Spend(tokens)
                /\ total' = Count("retries")
                /\ call' = [phase |-> "selecting", service |-> Target,
                            key |-> call.key, now |-> call.now, tried |-> tried]
                /\ UNCHANGED result
           ELSE /\ Return("AllAttemptsFailed", Len(tried))
                /\ UNCHANGED <<tokens, total>>
    /\ UNCHANGED <<now, incident>>

Handle == Send \/ GiveUp \/ Succeed \/ Fail

Next ==
    \/ Advance \/ Jump \/ EndIncident
    \/ CheckHealth \/ AddPool \/ Restrategize
    \/ StartRequest \/ Handle

Spec == Init /\ [][Next]_vars

\* handle() keeps running, an upstream answers a call sooner or later, if only
\* with a timeout, and the caller runs the health checks between requests,
\* however many it sends, while time passes.
FairSpec ==
    /\ Spec
    /\ WF_vars(Handle) /\ WF_vars(Advance) /\ SF_vars(CheckHealth)

-----------------------------------------------------------------------------
(***************************************************************************)
(* The statistics add up over all services: retries never outrun the       *)
(* bucket and the deposits, no request had more than MaxRetries, and every *)
(* failover was paid for, at most one paid retry per request finding no    *)
(* other backend (proxy.rs handle; gate 5, retry amplification).           *)
(***************************************************************************)
RetriesPaidFor ==
    /\ RetryCostMilli * total.retries + tokens
           <= MaxMilli + DepositMilli * total.requests
    /\ total.retries <= MaxRetries * total.requests
    /\ total.failovers <= total.retries
    /\ total.retries - total.failovers <= total.requests

(***************************************************************************)
(* A retry is a failover: no request is sent twice to one backend, though  *)
(* the pool is polled only once per request (proxy.rs tried, pool.rs       *)
(* available_indices).                                                     *)
(***************************************************************************)
EveryTryElsewhere ==
    Busy => /\ Cardinality(Tried) = Len(call.tried)
            /\ call.phase = "sent" => call.idx \notin Tried

\* Each service's backends.
Group(s) == {s} \X DOMAIN PoolWeights[s]

\* What Failover.tla sees of a request: its service's backends, the one it is
\* sent to, and those that failed it.
OpenGroup == IF Busy THEN Group(Target) ELSE {}

AskedBackend == IF call.phase = "sent" THEN {<<Target, call.idx>>} ELSE {}

FailedBackends == IF Busy THEN {Target} \X Tried ELSE {}

Promise ==
    INSTANCE Failover WITH
        Groups   <- {Group(s) : s \in Services},
        MaxTries <- MaxRetries + 1,
        group    <- OpenGroup,
        asked    <- AskedBackend,
        failed   <- FailedBackends,
        open     <- Busy,
        verdict  <- result

(***************************************************************************)
(* handle() keeps the promise of Failover.tla: the request stays with one  *)
(* service and is asked of its backends one at a time, never of one twice, *)
(* the first answer is returned, and the verdict counts the attempts,      *)
(* whatever selection, clock, health checks and budget do (proxy.rs        *)
(* handle; DESIGN.md, "retries against a different backend").              *)
(***************************************************************************)
ImplementsFailover == Promise!FailoverSpec

(***************************************************************************)
(* Calls in flight are exactly the one of the running handle(): on every   *)
(* way out of it the count is given back (proxy.rs begin, end; stress      *)
(* invariant 2, "least conn accounting returns to zero").                  *)
(***************************************************************************)
NoCallLeaks ==
    \A m \in Members :
        BackendsOf(m[1])[m[2]].in_flight =
            (IF call.phase = "sent" /\ m = <<Target, call.idx>> THEN 1 ELSE 0)

(***************************************************************************)
(* An error is the last resort: after a failed attempt handle() returns    *)
(* one only when the retries are used up or the bucket cannot pay for      *)
(* another, and on a selection only when every backend that was available  *)
(* at the time handle() read has been tried, where the weighted strategy   *)
(* gives none to a backend without weight.  The error counts the attempts, *)
(* and no token is taken for it (proxy.rs handle; pool.rs                  *)
(* select_weighted).                                                       *)
(***************************************************************************)
ErrorIsLastResort ==
    [][Busy /\ ~Busy' /\ result'.kind \in Failures =>
          LET failed == result'.attempts
          IN  /\ failed = Len(call.tried) + (IF call.phase = "sent" THEN 1 ELSE 0)
              /\ IF call.phase = "sent"
                 THEN failed > MaxRetries \/ tokens < RetryCostMilli
                 ELSE \A i \in Indices(pools[Target]) :
                         \/ i \in Tried
                         \/ ~IsAvailable(pools'[Target].backends[i], call.now)
                         \/ /\ pools[Target].strategy = "Weighted"
                            /\ BackendsOf(Target)[i].weight = 0
              /\ (result'.kind = "NoHealthyUpstream" <=> failed = 0)
              /\ tokens' = tokens]_vars

\* Every request is answered, whatever the upstreams and the clock do.
RequestEnds == Busy ~> ~Busy

\* The clock of a model ends; what is left of it is enough for a cooldown or
\* a probe, and one more good probe is enough for the backend.
CanComeBack(b) ==
    /\ SatSub(MaxClock, now) >= CooldownMs
    /\ SatSub(MaxClock, now) >= ProbeIntervalMs
    /\ b.healthy \/ b.probe_successes + 1 >= HealthyProbeThreshold

Back(b) == b.in_flight = 0 => IsAvailable(b, now)

(***************************************************************************)
(* Recovery: once upstreams stop failing, every backend comes back into    *)
(* rotation for good, whichever of the three mechanisms took it out and in *)
(* whatever order, also if no request is ever sent to it (pool.rs poll,    *)
(* run_health_checks, breaker.rs is_callable).                             *)
(***************************************************************************)
EveryoneComesBack ==
    \A m \in Members :
        LET b == BackendsOf(m[1])[m[2]]
        IN  (~incident /\ CanComeBack(b)) ~> []Back(b)

(***************************************************************************)
(* DESIGN.md: "The breaker records when it opened, and once the cooldown   *)
(* has elapsed it moves to Half-Open": after a failure opened it, it keeps *)
(* the backend out for a cooldown from that moment on the injected clock.  *)
(***************************************************************************)
OpensForACooldown ==
    [][\A m \in Members :
          LET before == BackendsOf(m[1])[m[2]].breaker
              after  == pools'[m[1]].backends[m[2]].breaker
          IN  before.state # "Open" /\ after.state = "Open" =>
                  \A t \in now .. MaxClock :
                      t - now < CooldownMs => ~IsCallable(after, t)]_vars
=============================================================================
