------------------------------ MODULE PoolOps ------------------------------
(***************************************************************************)
(* A pool of backends as a value, and its methods.  Pool.tla runs one pool *)
(* with its callers; Proxy.tla keeps one per service.                      *)
(*                                                                         *)
(* ring is the set of members the hash ring was last rebuilt from and      *)
(* ring_signature the available set it was built for, empty when a new     *)
(* backend invalidated it.                                                 *)
(***************************************************************************)
EXTENDS Backend, Balancing, HashRing, Sequences

CONSTANT Strategies

AllStrategies == {"RoundRobin", "Weighted", "LeastConnections", "ConsistentHash"}

ASSUME StrategiesAssumption == Strategies \subseteq AllStrategies

\* A request without a session key.
NoKey == "NoKey"

ASSUME NoKeyAssumption == NoKey \notin Keys

Indices(p) == DOMAIN p.backends

PoolType ==
    [backends       : Seq(BackendType),
     strategy       : AllStrategies,
     rr_cursor      : 0 .. CursorWidth - 1,
     ring           : SUBSET Nat,
     ring_signature : SUBSET Nat,
     ewma           : BOOLEAN]

NewPool(strategy) ==
    [backends |-> <<>>, strategy |-> strategy, rr_cursor |-> 0,
     ring |-> {}, ring_signature |-> {}, ewma |-> FALSE]

AddBackend(p, weight) ==
    [p EXCEPT !.backends = Append(@, NewBackend(weight)), !.ring_signature = {}]

SetStrategy(p, s) == [p EXCEPT !.strategy = s]

EnableEwma(p) == [p EXCEPT !.ewma = TRUE]

-----------------------------------------------------------------------------
\* The backends that count for the pool mean.
Sampled(p) == {i \in Indices(p) : p.backends[i].ewma_samples >= MinSamples}

EwmaOf(b) == IF b.latency_ewma_milli = None THEN 0 ELSE b.latency_ewma_milli

EwmaMean(p) ==
    IF Sampled(p) = {} THEN 0
    ELSE TotalOf([i \in Sampled(p) |-> EwmaOf(p.backends[i])], Sampled(p))
            \div Cardinality(Sampled(p))

\* The ejection line; a pool without the EWMA layer has none and uses none.
Line(p) == Capped((EwmaMean(p) * FactorMilli) \div 1000, MaxEwma)

PoolPoll(p, t) ==
    LET line == IF p.ewma THEN Line(p) ELSE 0
    IN  [p EXCEPT !.backends =
            [i \in Indices(p) |-> PollBackend(p.backends[i], t, p.ewma, line)]]

-----------------------------------------------------------------------------
\* Mutant: the backends to exclude are not.
AvailableAgain(p, t, exclude) ==
    {i \in Indices(p) : IsAvailable(p.backends[i], t)}

Available(p, t, exclude) ==
    {i \in Indices(p) : i \notin exclude /\ IsAvailable(p.backends[i], t)}

\* What a selection returns: the index, or None, and the pool it leaves.
Picked(p, i) == [idx |-> i, pool |-> p]

SelectRoundRobin(p, S) ==
    Picked([p EXCEPT !.rr_cursor = NextCursor(@)], RoundRobinPick(p.rr_cursor, S))

WeightedScore(p) ==
    [i \in Indices(p) |-> p.backends[i].weight * p.backends[i].ramp_percent]

CurrentWeight(p) == [i \in Indices(p) |-> p.backends[i].current_weight]

\* Mutant: backends without weight are candidates too.
SelectAnyWeight(p, S) ==
    Picked([p EXCEPT !.backends =
               [i \in Indices(p) |->
                   [p.backends[i] EXCEPT
                       !.current_weight =
                           WeightedCharge(CurrentWeight(p), WeightedScore(p), S)[i]]]],
           WeightedPick(CurrentWeight(p), WeightedScore(p), S))

SelectWeighted(p, S) ==
    LET C == {i \in S : p.backends[i].weight # 0}
        w == WeightedCharge(CurrentWeight(p), WeightedScore(p), C)
    IN  IF C = {} THEN Picked(p, None)
        ELSE Picked([p EXCEPT !.backends =
                        [i \in Indices(p) |->
                            [p.backends[i] EXCEPT !.current_weight = w[i]]]],
                    WeightedPick(CurrentWeight(p), WeightedScore(p), C))

SelectLeastConn(p, S) ==
    Picked(p, Lightest([i \in Indices(p) |-> p.backends[i].in_flight], S))

\* Mutant: only the size of the available set is compared.
RingForSize(p, S) ==
    IF Cardinality(p.ring_signature) # Cardinality(S) \/ p.ring = {}
    THEN S ELSE p.ring

\* The ring for the available set S, rebuilt unless the cached one is for S.
RingFor(p, S) == IF p.ring_signature # S \/ p.ring = {} THEN S ELSE p.ring

SelectHash(p, S, key) ==
    IF key = NoKey THEN SelectRoundRobin(p, S)
    ELSE Picked([p EXCEPT !.ring = RingFor(p, S), !.ring_signature = S],
                Lookup(RingFor(p, S), key))

Select(p, t, key, exclude) ==
    LET S == Available(p, t, exclude)
    IN  CASE S = {} -> Picked(p, None)
          [] S # {} /\ p.strategy = "RoundRobin"       -> SelectRoundRobin(p, S)
          [] S # {} /\ p.strategy = "Weighted"         -> SelectWeighted(p, S)
          [] S # {} /\ p.strategy = "LeastConnections" -> SelectLeastConn(p, S)
          [] S # {} /\ p.strategy = "ConsistentHash"   -> SelectHash(p, S, key)

-----------------------------------------------------------------------------
Begin(p, i) == [p EXCEPT !.backends[i].in_flight = @ + 1]

\* Mutant: the count is given back to the wrong backend.
EndFirst(p, i) == [p EXCEPT !.backends[1].in_flight = SatSub(@, 1)]

End(p, i) == [p EXCEPT !.backends[i].in_flight = SatSub(@, 1)]

PoolRecordSuccess(p, i, t, latency) ==
    [p EXCEPT !.backends[i] = RecordSuccessLatency(@, t, p.ewma, latency)]

PoolRecordFailure(p, i, t) == [p EXCEPT !.backends[i] = RecordFailure(@, t)]

RunHealthChecks(p, t, live) ==
    [p EXCEPT !.backends =
        [i \in Indices(p) |-> HealthCheck(p.backends[i], t, live[i])]]
=============================================================================
