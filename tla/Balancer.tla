------------------------------ MODULE Balancer ------------------------------
(***************************************************************************)
(* The two stateful balancing strategies of a pool, round robin and smooth *)
(* weighted round robin, and the hash ring, while backends come and go.    *)
(* The health layers that decide who is available are the environment: at  *)
(* any moment they may change the set of available backends and, through   *)
(* the ramp of the EWMA layer, the effective weights.  Pool.tla composes   *)
(* the real ones, and its StickyIgnoresCache says that the ring in use is  *)
(* always the one of the available set.                                    *)
(*                                                                         *)
(* turns and served are history variables: who was picked since the last   *)
(* change, counted up to one full cycle or period.                         *)
(***************************************************************************)
EXTENDS Balancing, HashRing, Sequences

CONSTANTS
    Weights,    \* the configured weight of each backend
    Ramps,      \* the ramp percents the EWMA layer may set
    Granule     \* divides every effective weight

ASSUME BalancerAssumption ==
    /\ Weights \in Seq(Nat)
    /\ Ramps \subseteq 1 .. 100 /\ 100 \in Ramps
    /\ Granule \in Nat \ {0}
    /\ \A i \in DOMAIN Weights, r \in Ramps : (Weights[i] * r) % Granule = 0
    /\ DOMAIN Weights \subseteq DOMAIN PointsOf

Backends == DOMAIN Weights

VARIABLES up, ramp, rr_cursor, current_weight, turns, served, undisturbed

history == <<turns, served, undisturbed>>
vars == <<up, ramp, rr_cursor, current_weight, history>>

Nobody == [i \in Backends |-> 0]

Score == [i \in Backends |-> Weights[i] * ramp[i]]

\* Weight zero means no traffic under the weighted strategy.
Competing == {i \in up : Weights[i] # 0}

TypeOK ==
    /\ up \subseteq Backends
    /\ ramp \in [Backends -> Ramps]
    /\ rr_cursor \in 0 .. CursorWidth - 1
    /\ current_weight \in [Backends -> Int]
    /\ turns \in [Backends -> Nat] /\ served \in [Backends -> Nat]
    /\ undisturbed \in BOOLEAN

Init ==
    /\ up = Backends
    /\ ramp = [i \in Backends |-> 100]
    /\ rr_cursor = 0
    /\ current_weight = Nobody
    /\ turns = Nobody /\ served = Nobody /\ undisturbed = TRUE

Cycle == Cardinality(up)

Period == TotalOf(Score, Competing) \div Granule

\* Count one more pick of i, from zero again once the last round is complete.
CountPick(count, full, i) ==
    [(IF TotalOf(count, Backends) = full THEN Nobody ELSE count)
        EXCEPT ![i] = @ + 1]

SelectRoundRobin ==
    /\ up # {}
    /\ rr_cursor' = NextCursor(rr_cursor)
    /\ turns' = CountPick(turns, Cycle, RoundRobinPick(rr_cursor, up))
    /\ UNCHANGED <<up, ramp, current_weight, served, undisturbed>>

SelectWeighted ==
    /\ Competing # {}
    /\ current_weight' = WeightedCharge(current_weight, Score, Competing)
    /\ served' = CountPick(served, Period,
                           WeightedPick(current_weight, Score, Competing))
    /\ UNCHANGED <<up, ramp, rr_cursor, turns, undisturbed>>

\* Health, ejection, breaker or ramp changed.
Disturb ==
    /\ \/ up' \in SUBSET Backends /\ up' # up /\ UNCHANGED ramp
       \/ \E i \in Backends, r \in Ramps :
              r # ramp[i] /\ ramp' = [ramp EXCEPT ![i] = r] /\ UNCHANGED up
    /\ turns' = Nobody /\ served' = Nobody /\ undisturbed' = FALSE
    /\ UNCHANGED <<rr_cursor, current_weight>>

Next == SelectRoundRobin \/ SelectWeighted \/ Disturb

Spec == Init /\ [][Next]_vars

-----------------------------------------------------------------------------
CycleDone == up # {} /\ TotalOf(turns, Backends) = Cycle

PeriodDone == Competing # {} /\ TotalOf(served, Backends) = Period

Share(i) == IF i \in Competing THEN Score[i] \div Granule ELSE 0

(***************************************************************************)
(* As long as the available set stands, every len() consecutive round      *)
(* robin picks visit each available backend exactly once, wherever the     *)
(* cursor stood when the set formed (pool.rs select_round_robin, gate 1).  *)
(* Only the cycle in which the usize cursor wraps is not covered: its      *)
(* width need not be a multiple of len().                                  *)
(***************************************************************************)
RoundRobinCycle ==
    CycleDone /\ rr_cursor >= Cycle => \A i \in up : turns[i] = 1

(***************************************************************************)
(* The current weights are a redistribution: they always add up to zero,   *)
(* although backends leave with their balance and come back with it.       *)
(***************************************************************************)
WeightsCancel == TotalOf(current_weight, Backends) = 0

\* Those that ever compete, and the most that their rivals can make the
\* heaviest of them wait for, or lend it.
Contenders == {i \in Backends : Weights[i] # 0}

MostScore == 100 * Max({Weights[i] : i \in Backends})

MostDrift == MostScore * (Cardinality(Contenders) - 1)

(***************************************************************************)
(* No balance drifts further from zero than the largest score once for     *)
(* each rival, however often the available set and the ramps change; so    *)
(* what a backend can be starved or favoured for its past is bounded       *)
(* (select_weighted).                                                      *)
(***************************************************************************)
DriftBounded ==
    \A i \in Backends : current_weight[i] \in -MostDrift .. MostDrift

(***************************************************************************)
(* In a pool whose availability and ramps never changed one full period    *)
(* serves every backend its exact share (select_weighted, gate 1).         *)
(***************************************************************************)
ExactWhileUndisturbed ==
    PeriodDone /\ undisturbed => \A i \in Backends : served[i] = Share(i)

(***************************************************************************)
(* However many backends leave and return at once, a key moves only if its *)
(* own backend left or one that returned takes it: no key changes hands    *)
(* between two backends that stayed (hashring.rs lookup; gate 1).          *)
(***************************************************************************)
MinimalRemap ==
    [][up # {} /\ up' # {} =>
          \A key \in Keys :
              \/ Lookup(up', key) = Lookup(up, key)
              \/ Lookup(up, key) \notin up'
              \/ Lookup(up', key) \notin up]_vars
=============================================================================
