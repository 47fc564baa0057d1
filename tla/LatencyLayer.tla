---------------------------- MODULE LatencyLayer ----------------------------
(***************************************************************************)
(* The pool with its EWMA layer attached, watched over time.  fresh[i],    *)
(* judged[i] and back[i] are history variables: how many latency samples   *)
(* backend i has delivered since it was last reinstated, and since the     *)
(* layer last ejected it, where one that never was counts as having        *)
(* delivered enough; and when it was reinstated, None if it has its full   *)
(* share again.                                                            *)
(***************************************************************************)
EXTENDS Pool

VARIABLES fresh, judged, back

layerVars == <<vars, fresh, judged, back>>

Enough == [i \in DOMAIN Weights |-> MinSamples]

\* The layer ejects i in this step; record_failure ejects too, but while a
\* caller records an outcome, when the counts of failures move.
Judges(i) ==
    /\ pool'.backends[i].ejected_until # None
    /\ BackendOf(i).ejected_until = None \/ EjectionOver(BackendOf(i), now)
    /\ Poll

Reinstates(i) == EjectionOver(BackendOf(i), now) /\ Poll

Sampling(i) == pool'.backends[i].ewma_samples > BackendOf(i).ewma_samples

CountFresh(count, restart) ==
    [i \in DOMAIN count |->
        IF restart[i] THEN 0
        ELSE IF Sampling(i) THEN Capped(count[i] + 1, MinSamples) ELSE count[i]]

\* enable_ewma() right after construction; Pool.tla also attaches it later.
LayerInit ==
    /\ ClockInit /\ polled = FALSE
    /\ \E s \in Strategies : pool = EnableEwma(StartingPool(s))
    /\ fresh = Enough /\ judged = Enough
    /\ back = [i \in DOMAIN Weights |-> None]

LayerNext ==
    /\ Traffic
    /\ fresh' = CountFresh(fresh, [i \in DOMAIN fresh |-> Reinstates(i)])
    /\ judged' = CountFresh(judged, [i \in DOMAIN judged |-> Judges(i)])
    /\ back' = [i \in DOMAIN back |->
          CASE Reinstates(i) -> now
            [] ~Reinstates(i) /\ pool'.backends[i].ramp_percent = 100 -> None
            [] ~Reinstates(i) /\ pool'.backends[i].ramp_percent < 100 -> back[i]]

LayerSpec == LayerInit /\ [][LayerNext]_layerVars

-----------------------------------------------------------------------------
(***************************************************************************)
(* The layer never ejects a backend twice on the same evidence: between    *)
(* two of its ejections the backend has delivered at least MinSamples new  *)
(* samples, whatever outlier ejections fall in between (pool.rs poll).     *)
(***************************************************************************)
JudgedOnNewEvidence ==
    [][\A i \in Callable : Judges(i) => judged[i] >= MinSamples]_layerVars

(***************************************************************************)
(* Not everyone is over the line: at every poll some backend that          *)
(* delivered enough samples is at or under it, and unless that one stands  *)
(* ejected the poll leaves it in place.  So a poll that finds everyone     *)
(* with enough samples in place never ejects them all.  If the one within  *)
(* the line stands ejected the poll may take out all the others: it does   *)
(* not judge that one, yet has it in the mean (pool.rs poll, ewma_mean,    *)
(* ewma.rs threshold_milli).                                               *)
(***************************************************************************)
SomeoneIsWithinLine ==
    [][Poll /\ pool.ewma /\ FactorMilli >= 1000 /\ Sampled(pool) # {} =>
          \E i \in Sampled(pool) :
              /\ EwmaOf(BackendOf(i)) <= Line(pool)
              /\ ~IsEjected(BackendOf(i), now) =>
                     pool'.backends[i].ejected_until = None]_layerVars

Doublings[n \in Nat] == IF n = 0 THEN 1 ELSE 2 * Doublings[n - 1]

\* The largest share a backend may have t milliseconds after reinstatement.
ShareAfter(t) ==
    Capped(AtLeastOne(Capped(ReinstatePercent, 100)) * Doublings[t \div RampWindowMs],
           100)

(***************************************************************************)
(* The ramp is gradual: between a reinstatement and the full share, the    *)
(* share has doubled at most once for every full window that passed since, *)
(* however often the pool is polled, also if the backend is over the line  *)
(* or judged and ejected meanwhile; and only a reinstatement lowers it     *)
(* (pool.rs poll).                                                         *)
(***************************************************************************)
RampIsGradual ==
    [][\A i \in Callable :
          LET share == pool'.backends[i].ramp_percent
          IN  ~Reinstates(i) /\ RampWindowMs > 0 =>
                  /\ share >= BackendOf(i).ramp_percent
                  /\ back[i] # None => share <= ShareAfter(now - back[i])]_layerVars

(***************************************************************************)
(* pool.rs poll: "a reinstated node is never re ejected on stale samples   *)
(* it cannot improve while it receives little traffic".                    *)
(***************************************************************************)
NoStaleReejection ==
    [][\A i \in Callable :
          Judges(i) => ~Reinstates(i) /\ fresh[i] >= MinSamples]_layerVars
=============================================================================
