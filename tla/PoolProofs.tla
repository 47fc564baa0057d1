----------------------------- MODULE PoolProofs -----------------------------
(***************************************************************************)
(* For every clock range, threshold, cooldown and deadline, every number   *)
(* of backends with any weights, every strategy and every placement of     *)
(* virtual nodes: whatever its callers, the health checker and the clock   *)
(* do in whatever order, the pool chooses exactly among the routable       *)
(* backends, its cached ring never misleads a sticky key, and nothing      *)
(* moves an ejection before its deadline.                                  *)
(*                                                                         *)
(* The invariant all this rests on says that a cached ring is the ring of  *)
(* its signature, and that no breaker is open past its cooldown between a  *)
(* poll and the next movement of the clock.  For the second, a cooldown    *)
(* must last: with CooldownMs = 0 the failure that opens a circuit also    *)
(* leaves it callable, which is what the code does with such a setting.    *)
(*                                                                         *)
(* The second part is about the pool with its latency layer.  Its          *)
(* invariant adds that the layer never watched a backend for more samples  *)
(* than were delivered since it last ejected it, and that at the last step *)
(* of its ramp a backend had at most the share allowed at that time.       *)
(***************************************************************************)
EXTENDS LatencyLayer, PoolOpsProofs

USE ClockAssumption

RingInv == RingFresh(pool)

AllSettled ==
    polled /\ CooldownMs > 0 =>
        \A i \in Callable : Settled(BackendOf(i).breaker, now)

Inv == TypeOK /\ RingInv /\ AllSettled

\* What a step on a pool with the time at t keeps: the number of backends, a
\* fresh ring, settled breakers, and every ejection.
Orderly(p, q, t) ==
    /\ q \in PoolType /\ RingFresh(q) /\ Indices(q) = Indices(p)
    /\ \A i \in Indices(p) :
          /\ \/ q.backends[i].breaker = p.backends[i].breaker
             \/ CooldownMs > 0 => Settled(q.backends[i].breaker, t)
          /\ KeepsEjection(p.backends[i], q.backends[i], t)

LEMMA OrderlyTwice ==
    ASSUME NEW p, NEW q, NEW r, NEW t, Orderly(p, q, t), Orderly(q, r, t)
    PROVE  Orderly(p, r, t)
BY DEF Orderly, KeepsEjection, IsEjected

LEMMA WeightsFacts ==
    /\ Len(Weights) \in Nat /\ DOMAIN PointsOf = 1 .. Len(Weights)
    /\ \A i \in 1 .. Len(Weights) : Weights[i] \in Nat
BY PoolAssumption

LEMMA IndicesHavePoints ==
    ASSUME TypeOK
    PROVE  /\ pool \in PoolType /\ now \in Millis
           /\ Callable \subseteq DOMAIN PointsOf
<1>1. /\ pool \in PoolType /\ now \in Millis
      /\ Len(pool.backends) <= Len(Weights)
  BY DEF TypeOK
<1>2. Callable = 1 .. Len(pool.backends) /\ Len(pool.backends) \in Nat
  BY <1>1, IndicesAre DEF Callable
<1> QED BY <1>1, <1>2, WeightsFacts

\* There are no more backends than weights.
LEMMA CallableHasWeight == TypeOK => Callable \subseteq DOMAIN Weights
BY IndicesHavePoints, PoolAssumption

-----------------------------------------------------------------------------
\* Beginning and ending a call changes a count only.
LEMMA RecountedIsOrderly ==
    ASSUME NEW p \in PoolType, RingFresh(p), NEW i \in Indices(p), NEW m, NEW t,
           NEW q, Recounted(p, i, m, q)
    PROVE  Orderly(p, q, t)
<1>1. /\ q \in PoolType /\ Indices(q) = Indices(p) /\ RingFresh(q)
  BY DEF Recounted, SameShape, RingFresh
<1>2. PICK b \in BackendType : b = p.backends[i]
  BY IndicesAre
<1>3. PICK c : c = q.backends[i]
  OBVIOUS
<1>4. c = [b EXCEPT !.in_flight = m]
  BY <1>2, <1>3 DEF Recounted
<1>5. c.breaker = b.breaker /\ c.ejected_until = b.ejected_until
  BY <1>4 DEF BackendType
<1>6. \A j \in Indices(p) \ {i} : q.backends[j] = p.backends[j]
  BY DEF Recounted
<1> QED BY <1>1, <1>2, <1>3, <1>5, <1>6 DEF Orderly, KeepsEjection

\* select() with begin(), for any caller: the balances move, and a call may
\* begin (pool.rs select, begin).
LEMMA RequestTakes ==
    ASSUME TypeOK, RingInv, Request
    PROVE  \E q : /\ Rebalanced(pool, q)
                  /\ \/ pool' = q
                     \/ \E i \in Indices(q) :
                           Recounted(q, i, q.backends[i].in_flight + 1, pool')
<1>0. /\ pool \in PoolType /\ now \in Millis /\ Indices(pool) \subseteq DOMAIN PointsOf
      /\ RingFresh(pool)
  BY IndicesHavePoints DEF RingInv, Callable
<1>r. PICK key \in Keys \cup {NoKey}, exclude \in SUBSET Callable :
          LET s == Select(pool, now, key, exclude)
          IN  pool' = IF s.idx = None THEN s.pool ELSE Begin(s.pool, s.idx)
  BY DEF Request
<1>1. PICK r :
          /\ r = Select(pool, now, key, exclude)
          /\ \/ r.idx = None /\ pool' = r.pool
             \/ r.idx # None /\ pool' = Begin(r.pool, r.idx)
  BY <1>r
<1>2. PICK S : S = Available(pool, now, exclude)
  OBVIOUS
<1>3. PICK q : q = r.pool
  OBVIOUS
<1>4. PICK i : i = r.idx
  OBVIOUS
<1>5. Rebalanced(pool, q) /\ (i # None => i \in Eligible(pool, S))
  BY <1>0, <1>1, <1>2, <1>3, <1>4, SelectChooses
<1>6. CASE i = None
  BY <1>1, <1>3, <1>4, <1>5, <1>6
<1>7. CASE i # None
  <2>1. i \in Indices(pool)
    BY <1>0, <1>2, <1>5, <1>7, AvailableAre DEF Eligible
  <2>2. q \in PoolType /\ i \in Indices(q)
    BY <1>5, <2>1 DEF Rebalanced
  <2>3. PICK z : z = Begin(q, i)
    OBVIOUS
  <2>4. Recounted(q, i, q.backends[i].in_flight + 1, z)
    BY <2>2, <2>3, BegunCall
  <2>5. pool' = z
    BY <1>1, <1>3, <1>4, <1>7, <2>3
  <2> QED BY <1>5, <2>2, <2>4, <2>5
<1> QED BY <1>6, <1>7

LEMMA RequestIsOrderly ==
    ASSUME TypeOK, RingInv, Request
    PROVE  Orderly(pool, pool', now)
<1>0. pool \in PoolType /\ RingFresh(pool)
  BY IndicesHavePoints DEF RingInv
<1>1. PICK q : /\ Rebalanced(pool, q)
               /\ \/ pool' = q
                  \/ \E i \in Indices(q) :
                        Recounted(q, i, q.backends[i].in_flight + 1, pool')
  BY RequestTakes
<1>2. q \in PoolType /\ RingFresh(q)
  BY <1>1 DEF Rebalanced
<1>3. Orderly(pool, q, now)
  <2>1. ASSUME NEW j \in Indices(pool)
        PROVE  /\ q.backends[j].breaker = pool.backends[j].breaker
               /\ q.backends[j].ejected_until = pool.backends[j].ejected_until
    <3>1. PICK b \in BackendType : b = pool.backends[j]
      BY <1>0, IndicesAre
    <3>2. PICK w \in Int : q.backends[j] = [b EXCEPT !.current_weight = w]
      BY <1>1, <3>1 DEF Rebalanced
    <3> QED BY <3>1, <3>2 DEF BackendType
  <2> QED BY <1>1, <2>1 DEF Orderly, Rebalanced, KeepsEjection
<1>4. ASSUME NEW i \in Indices(q), Recounted(q, i, q.backends[i].in_flight + 1, pool')
      PROVE  Orderly(pool, pool', now)
  <2>1. PICK z : pool' = z
    OBVIOUS
  <2>2. Orderly(q, z, now)
    BY <1>2, <1>4, <2>1, RecountedIsOrderly
  <2> QED BY <1>3, <2>1, <2>2, OrderlyTwice
<1> QED BY <1>1, <1>3, <1>4

\* The end of a call with its outcome (pool.rs end, record_success,
\* record_success_latency, record_failure).
LEMMA FinishGives ==
    ASSUME TypeOK, RingInv, Finish
    PROVE  \E i \in Indices(pool), l \in Nat, q \in PoolType :
              /\ Recounted(pool, i, SatSub(pool.backends[i].in_flight, 1), q)
              /\ \/ pool' = [q EXCEPT !.backends[i] = RecordSuccess(@, now)]
                 \/ pool' = PoolRecordSuccess(q, i, now, l)
                 \/ pool' = PoolRecordFailure(q, i, now)
<1>0. pool \in PoolType
  BY IndicesHavePoints
<1>1. PICK i \in Indices(pool) : Succeed(i) \/ Fail(i)
  BY DEF Finish, Callable
<1>2. PICK q : q = End(pool, i)
  OBVIOUS
<1>3. Recounted(pool, i, SatSub(pool.backends[i].in_flight, 1), q)
  BY <1>0, <1>2, EndedCall
<1>4. PICK l \in Nat :
          \/ pool' = [q EXCEPT !.backends[i] = RecordSuccess(@, now)]
          \/ pool' = PoolRecordSuccess(q, i, now, l)
          \/ pool' = PoolRecordFailure(q, i, now)
  <2>1. PICK zero \in Nat : zero = 0
    OBVIOUS
  <2>2. CASE Fail(i)
    BY <1>2, <2>1, <2>2 DEF Fail
  <2>3. CASE Succeed(i)
    <3>1. CASE pool' = [End(pool, i) EXCEPT !.backends[i] = RecordSuccess(@, now)]
      BY <1>2, <2>1, <3>1
    <3>2. CASE \E l \in Latencies : pool' = PoolRecordSuccess(End(pool, i), i, now, l)
      <4>1. PICK l \in Nat : pool' = PoolRecordSuccess(End(pool, i), i, now, l)
        BY <3>2, PoolAssumption
      <4> QED BY <1>2, <4>1
    <3> QED BY <2>3, <3>1, <3>2 DEF Succeed
  <2> QED BY <1>1, <2>2, <2>3
<1> QED BY <1>3, <1>4 DEF Recounted

LEMMA FinishIsOrderly ==
    ASSUME TypeOK, RingInv, Finish
    PROVE  Orderly(pool, pool', now)
<1>0. pool \in PoolType /\ now \in Millis /\ RingFresh(pool)
  BY IndicesHavePoints DEF RingInv
<1>1. PICK i \in Indices(pool), l \in Nat, q \in PoolType :
          /\ Recounted(pool, i, SatSub(pool.backends[i].in_flight, 1), q)
          /\ \/ pool' = [q EXCEPT !.backends[i] = RecordSuccess(@, now)]
             \/ pool' = PoolRecordSuccess(q, i, now, l)
             \/ pool' = PoolRecordFailure(q, i, now)
  BY FinishGives
<1>2. Orderly(pool, q, now) /\ i \in Indices(q) /\ q \in PoolType /\ RingFresh(q)
  BY <1>0, <1>1, RecountedIsOrderly DEF Orderly
<1>z. PICK z : pool' = z
  OBVIOUS
<1>3. Orderly(q, z, now)
  <2>1. /\ z \in PoolType /\ SameShape(q, z)
        /\ KeepsEjection(q.backends[i], z.backends[i], now)
        /\ CooldownMs > 0 => Settled(z.backends[i].breaker, now)
        /\ \A j \in Indices(q) \ {i} : z.backends[j] = q.backends[j]
    BY <1>0, <1>1, <1>2, <1>z, RecordedOutcome
  <2> QED BY <1>2, <2>1 DEF Orderly, SameShape, RingFresh, KeepsEjection
<1> QED BY <1>2, <1>3, <1>z, OrderlyTwice

\* A round of health checks (pool.rs run_health_checks).
LEMMA CheckIsOrderly ==
    ASSUME TypeOK, RingInv, CheckHealth
    PROVE  Orderly(pool, pool', now)
<1>0. pool \in PoolType /\ now \in Millis /\ RingFresh(pool)
  BY IndicesHavePoints DEF RingInv
<1>r. PICK live \in [Indices(pool) -> BOOLEAN] :
          pool' = RunHealthChecks(pool, now, live)
  BY DEF CheckHealth, Callable
<1>1. PICK q : q = RunHealthChecks(pool, now, live) /\ pool' = q
  BY <1>r
<1>2. /\ q \in PoolType /\ SameShape(pool, q)
      /\ \A i \in Indices(pool) :
            /\ q.backends[i].breaker = pool.backends[i].breaker
            /\ q.backends[i].ejected_until = pool.backends[i].ejected_until
  BY <1>0, <1>1, CheckedPool
<1> QED BY <1>0, <1>1, <1>2 DEF Orderly, SameShape, RingFresh, KeepsEjection

\* A poll (pool.rs poll).
LEMMA PollIsOrderly ==
    ASSUME TypeOK, RingInv, Poll
    PROVE  /\ Orderly(pool, pool', now)
           /\ \A i \in Callable : Settled(pool'.backends[i].breaker, now)
<1>0. pool \in PoolType /\ now \in Millis /\ RingFresh(pool)
  BY IndicesHavePoints DEF RingInv
<1>1. PICK q : q = PoolPoll(pool, now) /\ pool' = q
  BY DEF Poll
<1>2. /\ q \in PoolType /\ SameShape(pool, q)
      /\ \A i \in Indices(pool) :
            /\ Settled(q.backends[i].breaker, now)
            /\ KeepsEjection(pool.backends[i], q.backends[i], now)
  BY <1>0, <1>1, PolledPool
<1> QED BY <1>0, <1>1, <1>2 DEF Orderly, SameShape, RingFresh, Callable

\* The configuration calls keep the ring fresh and leave the backends alone
\* (pool.rs add_backend, set_strategy, enable_ewma).
LEMMA GrowIsFresh ==
    ASSUME TypeOK, RingInv, Grow
    PROVE  /\ pool' \in PoolType /\ RingFresh(pool')
           /\ Len(pool'.backends) = Len(pool.backends) + 1
           /\ \A i \in Callable : pool'.backends[i] = pool.backends[i]
           /\ \A i \in Indices(pool') \ Callable : Settled(pool'.backends[i].breaker, now)
<1>0. pool \in PoolType /\ now \in Millis
  BY IndicesHavePoints
<1>1. PICK n \in Nat : n = Len(pool.backends) /\ Callable = 1 .. n
  BY <1>0, IndicesAre DEF Callable
<1>2. PICK w \in Nat : w = Weights[n + 1]
  BY <1>1, WeightsFacts DEF Grow
<1>3. PICK q : q = AddBackend(pool, w) /\ pool' = q
  BY <1>1, <1>2 DEF Grow
<1>4. /\ q \in PoolType /\ RingFresh(q) /\ Len(q.backends) = n + 1
      /\ Indices(q) = Indices(pool) \cup {n + 1}
      /\ q.backends[n + 1] = NewBackend(w)
      /\ \A i \in Indices(pool) : q.backends[i] = pool.backends[i]
  BY <1>0, <1>1, <1>3, GrownPool, ZenonT(60)
<1>5. Settled(NewBackend(w).breaker, now)
  BY NewBackendType
<1> QED BY <1>1, <1>3, <1>4, <1>5 DEF Callable

LEMMA ConfigureIsFresh ==
    ASSUME TypeOK, RingInv, Restrategize \/ AttachEwma
    PROVE  /\ pool' \in PoolType /\ RingFresh(pool')
           /\ pool'.backends = pool.backends
<1>0. pool \in PoolType
  BY IndicesHavePoints
<1>1. CASE Restrategize
  <2>1. PICK s \in AllStrategies : pool' = [pool EXCEPT !.strategy = s]
    BY <1>1, StrategiesAssumption DEF Restrategize, SetStrategy
  <2> QED BY <1>0, <2>1 DEF PoolType, RingInv, RingFresh
<1>2. CASE AttachEwma
  <2>1. pool' = [pool EXCEPT !.ewma = TRUE]
    BY <1>2 DEF AttachEwma, EnableEwma
  <2> QED BY <1>0, <2>1 DEF PoolType, RingInv, RingFresh
<1> QED BY <1>1, <1>2

-----------------------------------------------------------------------------
\* The pool as it is constructed (pool.rs new, add_backend).
LEMMA StartingIsFresh ==
    ASSUME NEW s \in AllStrategies, NEW p, p = StartingPool(s)
    PROVE  /\ p \in PoolType /\ Len(p.backends) <= Len(Weights) /\ RingFresh(p)
           /\ \A i \in Indices(p) : \E w \in Nat : p.backends[i] = NewBackend(w)
<1>1. PICK n \in Nat : n = InitialBackends /\ n <= Len(Weights)
  BY PoolAssumption
<1>2. PICK f : f = [i \in 1 .. n |-> NewBackend(Weights[i])]
  OBVIOUS
<1>3. \A i \in 1 .. n : Weights[i] \in Nat /\ f[i] = NewBackend(Weights[i])
  BY <1>1, <1>2, WeightsFacts
<1>4. f \in Seq(BackendType) /\ Len(f) = n /\ DOMAIN f = 1 .. n
  <2>1. \A i \in 1 .. n : NewBackend(Weights[i]) \in BackendType
    BY <1>3, NewBackendType
  <2>2. f \in [1 .. n -> BackendType]
    BY <1>2, <2>1
  <2> QED BY <2>2
<1>5. p = [backends |-> f, strategy |-> s, rr_cursor |-> 0, ring |-> {},
           ring_signature |-> {}, ewma |-> FALSE]
  BY <1>1, <1>2 DEF StartingPool, NewPool
<1>6. 0 \in 0 .. CursorWidth - 1
  BY CursorAssumption
<1>7. p \in PoolType /\ p.backends = f /\ RingFresh(p)
  BY <1>4, <1>5, <1>6 DEF PoolType, RingFresh
<1> QED BY <1>1, <1>3, <1>4, <1>7 DEF Indices

LEMMA InvInit == Init => Inv
<1> SUFFICES ASSUME Init PROVE Inv
  OBVIOUS
<1>1. now \in Millis /\ now = 0 /\ polled = FALSE
  BY MaxClockAssumption DEF Init, ClockInit, Millis
<1>2. PICK s \in AllStrategies : pool = StartingPool(s)
  BY StrategiesAssumption DEF Init
<1>3. pool \in PoolType /\ Len(pool.backends) <= Len(Weights) /\ RingFresh(pool)
  BY <1>2, StartingIsFresh
<1> QED BY <1>1, <1>3 DEF Inv, TypeOK, RingInv, AllSettled

\* An orderly step between two movements of the clock keeps the invariant.
LEMMA OrderlyKeepsInv ==
    ASSUME Inv, Orderly(pool, pool', now), UNCHANGED now, polled' \in BOOLEAN,
           \/ polled' = polled
           \/ \A i \in Callable : Settled(pool'.backends[i].breaker, now)
    PROVE  Inv'
<1>0. pool \in PoolType /\ now \in Millis /\ Len(pool.backends) <= Len(Weights)
  BY DEF Inv, TypeOK
<1>1. pool' \in PoolType /\ RingFresh(pool') /\ Indices(pool') = Indices(pool)
  BY DEF Orderly
<1>2. Len(pool'.backends) = Len(pool.backends)
  <2>1. PICK n \in Nat : n = Len(pool.backends) /\ Indices(pool) = 1 .. n
    BY <1>0, IndicesAre
  <2>2. PICK m \in Nat : m = Len(pool'.backends) /\ Indices(pool') = 1 .. m
    BY <1>1, IndicesAre
  <2> QED BY <1>1, <2>1, <2>2
<1>3. TypeOK' /\ RingInv'
  BY <1>0, <1>1, <1>2 DEF TypeOK, RingInv
<1>4. AllSettled'
  <2> SUFFICES ASSUME polled', CooldownMs > 0, NEW i \in Callable
               PROVE  Settled(pool'.backends[i].breaker, now)
    BY <1>1 DEF AllSettled, Callable, BackendOf
  <2>1. CASE \A j \in Callable : Settled(pool'.backends[j].breaker, now)
    BY <2>1
  <2>2. CASE polled' = polled
    <3>1. Settled(pool.backends[i].breaker, now)
      BY <2>2 DEF Inv, AllSettled, BackendOf
    <3> QED BY <3>1 DEF Orderly, Callable
  <2> QED BY <2>1, <2>2
<1> QED BY <1>3, <1>4 DEF Inv

LEMMA InvStep == Inv /\ [Next]_vars => Inv'
<1> SUFFICES ASSUME Inv, [Next]_vars PROVE Inv'
  OBVIOUS
<1>0. /\ TypeOK /\ RingInv /\ AllSettled /\ pool \in PoolType /\ now \in Millis
      /\ polled \in BOOLEAN /\ Len(pool.backends) <= Len(Weights)
  BY DEF Inv, TypeOK
<1>1. CASE Advance \/ Jump
  <2>1. now' \in Millis /\ pool' = pool /\ polled' = (polled /\ now' = now)
    BY <1>0, <1>1, SatTypes, ClockAssumption DEF Advance, Jump, AdvanceClock, JumpClock
  <2>2. TypeOK' /\ RingInv'
    BY <1>0, <2>1 DEF TypeOK, RingInv
  <2>3. AllSettled'
    BY <1>0, <2>1 DEF AllSettled, Callable, BackendOf
  <2> QED BY <2>2, <2>3 DEF Inv
<1>2. CASE Poll
  BY <1>0, <1>2, PollIsOrderly, OrderlyKeepsInv DEF Poll
<1>3. CASE Request
  BY <1>0, <1>3, RequestIsOrderly, OrderlyKeepsInv DEF Request
<1>4. CASE Finish
  <2>1. UNCHANGED <<now, polled>>
    BY <1>4 DEF Finish, Succeed, Fail
  <2> QED BY <1>0, <1>4, <2>1, FinishIsOrderly, OrderlyKeepsInv
<1>5. CASE CheckHealth
  BY <1>0, <1>5, CheckIsOrderly, OrderlyKeepsInv DEF CheckHealth
<1>6. CASE Grow
  <2>1. /\ pool' \in PoolType /\ RingFresh(pool')
        /\ Len(pool'.backends) = Len(pool.backends) + 1
        /\ \A i \in Callable : pool'.backends[i] = pool.backends[i]
        /\ \A i \in Indices(pool') \ Callable : Settled(pool'.backends[i].breaker, now)
    BY <1>0, <1>6, GrowIsFresh
  <2>2. Len(pool'.backends) <= Len(Weights) /\ now' = now /\ polled' = polled
    BY <1>0, <1>6, <2>1, IndicesAre, WeightsFacts DEF Grow
  <2>3. TypeOK' /\ RingInv'
    BY <1>0, <2>1, <2>2 DEF TypeOK, RingInv
  <2>4. AllSettled'
    BY <1>0, <2>1, <2>2 DEF AllSettled, Callable, BackendOf
  <2> QED BY <2>3, <2>4 DEF Inv
<1>7. CASE Restrategize \/ AttachEwma
  <2>1. /\ pool' \in PoolType /\ RingFresh(pool')
        /\ pool'.backends = pool.backends /\ now' = now /\ polled' = polled
    BY <1>0, <1>7, ConfigureIsFresh DEF Restrategize, AttachEwma
  <2>2. TypeOK' /\ RingInv'
    BY <1>0, <2>1 DEF TypeOK, RingInv
  <2>3. AllSettled'
    BY <1>0, <2>1 DEF AllSettled, Callable, BackendOf, Indices
  <2> QED BY <2>2, <2>3 DEF Inv
<1>8. CASE UNCHANGED vars
  BY <1>0, <1>8 DEF vars, Inv, TypeOK, RingInv, AllSettled, Callable, BackendOf
<1> QED BY <1>1, <1>2, <1>3, <1>4, <1>5, <1>6, <1>7, <1>8 DEF Next, Traffic

LEMMA InvHolds == Spec => []Inv
BY InvInit, InvStep, PTL DEF Spec

\* The runs that only have callers and a clock are runs of the whole pool.
LEMMA TrafficIsPart == (TrafficSpec => Spec) /\ (FairTrafficSpec => Spec)
<1>1. [Traffic]_vars => [Next]_vars
  BY DEF Next
<1> QED BY <1>1, PTL DEF FairTrafficSpec, TrafficSpec, Spec

(***************************************************************************)
(* The pool keeps its types: no counter, cursor, ramp or stamp leaves its  *)
(* range, however its methods are interleaved (pool.rs).                   *)
(***************************************************************************)
THEOREM TypeCorrect == Spec => []TypeOK
BY InvHolds, PTL DEF Inv

(***************************************************************************)
(* A sticky key always goes where a ring of exactly the available backends *)
(* sends it: no sequence of selections, additions and health changes       *)
(* leaves a cached ring that is used for another set (pool.rs select_hash).*)
(***************************************************************************)
THEOREM StickyKeysFollowAvailability == Spec => []StickyIgnoresCache
<1>1. Inv => StickyIgnoresCache
  <2> SUFFICES ASSUME Inv, pool.strategy = "ConsistentHash",
                      NEW key \in Keys, NEW exclude \in SUBSET Callable,
                      Available(pool, now, exclude) # {}
               PROVE  Select(pool, now, key, exclude).idx
                        = Lookup(Available(pool, now, exclude), key)
    BY DEF StickyIgnoresCache
  <2>1. /\ pool \in PoolType /\ RingFresh(pool) /\ Indices(pool) \subseteq DOMAIN PointsOf
    BY IndicesHavePoints DEF Inv, RingInv, Callable
  <2>2. PICK S : S = Available(pool, now, exclude)
    OBVIOUS
  <2>3. PICK r : r = Select(pool, now, key, exclude)
    OBVIOUS
  <2>4. r.idx = Lookup(S, key)
    BY <2>1, <2>2, <2>3, SelectChooses
  <2> QED BY <2>2, <2>3, <2>4
<1> QED BY <1>1, InvHolds, PTL

(***************************************************************************)
(* What poll() established lasts until the clock moves, if a cooldown is   *)
(* any time at all: with CooldownMs = 0 the failure that opens a circuit   *)
(* leaves it callable (breaker.rs poll, is_callable).                      *)
(***************************************************************************)
THEOREM PollIsNotUndone == CooldownMs > 0 => (Spec => []PollLasts)
<1> SUFFICES ASSUME CooldownMs > 0 PROVE Spec => []PollLasts
  OBVIOUS
<1>1. Inv => PollLasts
  BY DEF Inv, AllSettled, PollLasts, Settled
<1> QED BY <1>1, InvHolds, PTL

\* After a poll a backend is available exactly when it is routable, but for
\* the weight the weighted strategy asks of it (pool.rs is_available).
LEMMA RoutableIsEligible ==
    ASSUME Inv, polled, CooldownMs > 0, NEW exclude, NEW S, S = Available(pool, now, exclude)
    PROVE  {i \in Callable \ exclude : Routable(i)} = Eligible(pool, S)
<1>1. pool \in PoolType /\ now \in Millis
  BY DEF Inv, TypeOK
<1>2. ASSUME NEW i \in Callable
      PROVE  Routable(i) <=> /\ IsAvailable(pool.backends[i], now)
                             /\ pool.strategy = "Weighted" => pool.backends[i].weight # 0
  <2>1. PICK b \in BackendType : b = pool.backends[i]
    BY <1>1, IndicesAre DEF Callable
  <2>2. b.breaker.state = "Open" => ~CooledDown(b.breaker, now)
    BY <2>1 DEF Inv, AllSettled, Settled, BackendOf
  <2>3. (b.ejected_until # None => now >= b.ejected_until) <=> ~IsEjected(b, now)
    <3>1. CASE b.ejected_until = None
      BY <3>1 DEF IsEjected
    <3>2. CASE b.ejected_until # None
      <4>1. PICK u \in Int : u = b.ejected_until
        BY <3>2 DEF BackendType, OptMillis, Millis
      <4>2. PICK n \in Int : n = now
        BY <1>1 DEF Millis
      <4> QED BY <3>2, <4>1, <4>2 DEF IsEjected
    <3> QED BY <3>1, <3>2
  <2>4. b.healthy \in BOOLEAN
    BY DEF BackendType
  <2> QED BY <2>1, <2>2, <2>3, <2>4
          DEF Routable, IsAvailable, Admits, IsCallable, BackendOf
<1>3. \A i \in Callable : i \in S <=> i \notin exclude /\ IsAvailable(pool.backends[i], now)
  BY <1>1, AvailableAre DEF Callable
<1>4. S \in SUBSET Callable
  BY <1>1, AvailableAre DEF Callable
<1> QED BY <1>2, <1>3, <1>4 DEF Eligible

(***************************************************************************)
(* The pool never routes to a bad backend and never refuses while a good   *)
(* one is left: under every strategy, for every key and every set of       *)
(* backends already tried, however many backends there are (pool.rs        *)
(* select; DESIGN.md, gate 4).                                             *)
(***************************************************************************)
THEOREM RoutesExactlyToRoutable == CooldownMs > 0 => (Spec => []SelectsExactlyRoutable)
<1> SUFFICES ASSUME CooldownMs > 0 PROVE Spec => []SelectsExactlyRoutable
  OBVIOUS
<1>1. Inv => SelectsExactlyRoutable
  <2> SUFFICES ASSUME Inv, polled, NEW key \in Keys \cup {NoKey},
                      NEW exclude \in SUBSET Callable, NEW candidates,
                      candidates = {i \in Callable \ exclude : Routable(i)},
                      NEW r, r = Select(pool, now, key, exclude)
               PROVE  IF candidates = {} THEN r.idx = None ELSE r.idx \in candidates
    BY DEF SelectsExactlyRoutable
  <2>1. /\ pool \in PoolType /\ RingFresh(pool) /\ Indices(pool) \subseteq DOMAIN PointsOf
    BY IndicesHavePoints DEF Inv, RingInv, Callable
  <2>2. PICK S : S = Available(pool, now, exclude)
    OBVIOUS
  <2>3. candidates = Eligible(pool, S)
    BY <2>2, RoutableIsEligible
  <2>4. IF Eligible(pool, S) = {} THEN r.idx = None ELSE r.idx \in Eligible(pool, S)
    BY <2>1, <2>2, SelectChooses
  <2> QED BY <2>3, <2>4
<1> QED BY <1>1, InvHolds, PTL

\* Nor does any step move or lift an ejection before its deadline.
LEMMA EjectionStep ==
    Inv /\ [Next]_vars =>
        [\A i \in Callable : IsEjected(BackendOf(i), now) =>
            pool'.backends[i].ejected_until = BackendOf(i).ejected_until]_vars
<1> SUFFICES ASSUME Inv, Next, NEW i \in Callable, IsEjected(BackendOf(i), now)
             PROVE  pool'.backends[i].ejected_until = pool.backends[i].ejected_until
  BY DEF BackendOf
<1>0. TypeOK /\ RingInv
  BY DEF Inv
<1>1. CASE Advance \/ Jump
  BY <1>1 DEF Advance, Jump
<1>2. CASE Poll \/ Request \/ Finish \/ CheckHealth
  <2>1. Orderly(pool, pool', now)
    BY <1>0, <1>2, PollIsOrderly, RequestIsOrderly, FinishIsOrderly, CheckIsOrderly
  <2> QED BY <2>1 DEF Orderly, KeepsEjection, Callable, BackendOf
<1>3. CASE Grow
  BY <1>0, <1>3, GrowIsFresh
<1>4. CASE Restrategize \/ AttachEwma
  BY <1>0, <1>4, ConfigureIsFresh
<1> QED BY <1>1, <1>2, <1>3, <1>4 DEF Next, Traffic

(***************************************************************************)
(* No step moves or lifts an ejection whose deadline has not passed        *)
(* (pool.rs record_failure, poll; gate 5 "counts once").                   *)
(***************************************************************************)
THEOREM EjectionsStand == Spec => EjectionIsFinal
BY EjectionStep, InvHolds, PTL DEF Spec, EjectionIsFinal

-----------------------------------------------------------------------------
\* The pool with its latency layer, watched over time.

\* The recursion has a solution, so the doublings are what it says.
LEMMA DoublingsAre ==
    /\ Doublings[0] = 1
    /\ \A n \in Nat : Doublings[n + 1] = 2 * Doublings[n]
<1>1. Doublings = [n \in Nat |-> IF n = 0 THEN 1 ELSE 2 * Doublings[n - 1]]
  BY PowersExist DEF Doublings
<1>2. Doublings[0] = 1
  BY <1>1
<1>3. ASSUME NEW n \in Nat PROVE Doublings[n + 1] = 2 * Doublings[n]
  <2>1. PICK m \in Nat : m = n + 1 /\ m # 0 /\ m - 1 = n
    OBVIOUS
  <2>2. Doublings[m] = 2 * Doublings[m - 1]
    BY <1>1, <2>1
  <2> QED BY <2>1, <2>2
<1> QED BY <1>2, <1>3

\* The doublings are numbers, and grow.
LEMMA DoublingsAreNat == \A n \in Nat : Doublings[n] \in Nat
<1> DEFINE Bad == {n \in Nat : Doublings[n] \notin Nat}
<1> SUFFICES ASSUME Bad # {} PROVE FALSE
  OBVIOUS
<1>1. PICK n \in Bad : \A k \in Bad : n <= k
  <2>1. Bad \in SUBSET Nat
    OBVIOUS
  <2> HIDE DEF Bad
  <2> QED BY <2>1, HasLeast
<1>2. n # 0
  BY DoublingsAre
<1>3. PICK m \in Nat : n = m + 1 /\ m \notin Bad
  <2>1. n - 1 \in Nat /\ n = (n - 1) + 1 /\ n - 1 \notin Bad
    BY <1>1, <1>2
  <2> QED BY <2>1
<1>4. PICK d \in Nat : d = Doublings[m]
  BY <1>3
<1>5. Doublings[n] = 2 * d
  BY <1>3, <1>4, DoublingsAre
<1> QED BY <1>4, <1>5

LEMMA DoublingsGrow ==
    ASSUME NEW m \in Nat, NEW n \in Nat, m <= n
    PROVE  Doublings[m] <= Doublings[n]
<1> DEFINE Bad == {k \in Nat : m <= k /\ ~(Doublings[m] <= Doublings[k])}
<1> SUFFICES ASSUME Bad # {} PROVE FALSE
  OBVIOUS
<1>1. PICK k \in Bad : \A j \in Bad : k <= j
  <2>1. Bad \in SUBSET Nat
    OBVIOUS
  <2> HIDE DEF Bad
  <2> QED BY <2>1, HasLeast
<1>2. PICK d \in Nat : d = Doublings[m]
  BY DoublingsAreNat
<1>3. k # m
  BY <1>2
<1>4. PICK j \in Nat : k = j + 1 /\ m <= j /\ j \notin Bad
  <2>1. k - 1 \in Nat /\ k = (k - 1) + 1 /\ m <= k - 1 /\ k - 1 \notin Bad
    BY <1>1, <1>3
  <2> QED BY <2>1
<1>5. PICK e \in Nat : e = Doublings[j]
  BY DoublingsAreNat
<1>6. d <= e
  BY <1>2, <1>4, <1>5
<1>7. Doublings[k] = 2 * e
  BY <1>4, <1>5, DoublingsAre
<1> QED BY <1>2, <1>6, <1>7

\* The allowed share starts with the share of a reinstated backend, does not
\* shrink, and doubles with every window.
LEMMA ShareGrows ==
    ASSUME RampWindowMs > 0, NEW t \in Nat, NEW u \in Nat
    PROVE  /\ ShareAfter(t) \in 0 .. 100 /\ ShareAfter(u) \in 0 .. 100
           /\ RampStart <= ShareAfter(t)
           /\ t <= u => ShareAfter(t) <= ShareAfter(u)
           /\ t + RampWindowMs <= u => Capped(2 * ShareAfter(t), 100) <= ShareAfter(u)
<1>1. PICK w \in Nat \ {0} : w = RampWindowMs
  BY EwmaAssumption
<1>2. PICK m \in Nat : m = t \div w
  BY WindowsGrow
<1>3. PICK n \in Nat : n = u \div w
  BY WindowsGrow
<1>4. /\ t <= u => m <= n
      /\ t + w <= u => m + 1 <= n
  BY <1>2, <1>3, WindowsGrow
<1>5. PICK d \in Nat : d = Doublings[m] /\ 1 <= d
  <2>1. Doublings[m] \in Nat /\ Doublings[0] <= Doublings[m]
    BY DoublingsAreNat, DoublingsGrow
  <2> QED BY <2>1, DoublingsAre
<1>6. PICK e \in Nat : e = Doublings[n] /\ 1 <= e
  <2>1. Doublings[n] \in Nat /\ Doublings[0] <= Doublings[n]
    BY DoublingsAreNat, DoublingsGrow
  <2> QED BY <2>1, DoublingsAre
<1>7. t <= u => d <= e
  BY <1>4, <1>5, <1>6, DoublingsGrow
<1>8. t + w <= u => 2 * d <= e
  <2>1. Doublings[m + 1] = 2 * d
    BY <1>5, DoublingsAre
  <2>2. t + w <= u => Doublings[m + 1] <= Doublings[n]
    BY <1>4, DoublingsGrow
  <2> QED BY <1>6, <2>1, <2>2
<1>9. PICK r \in 1 .. 100 : r = RampStart
  BY RampStarts
<1>10. PICK x \in Nat : x = r * d /\ r <= x
  <2>1. PICK k \in Nat : d = 1 + k
    <3>1. d - 1 \in Nat
      BY <1>5
    <3> QED BY <3>1
  <2>2. r * d = r + r * k /\ r * k \in Nat
    BY <2>1
  <2> QED BY <2>2
<1>11. PICK y \in Nat : y = r * e
  OBVIOUS
<1>12. d <= e => x <= y
  <2> SUFFICES ASSUME d <= e PROVE x <= y
    OBVIOUS
  <2>1. PICK k \in Nat : e = d + k
    <3>1. e - d \in Nat
      OBVIOUS
    <3> QED BY <3>1
  <2>2. r * e = r * d + r * k /\ r * k \in Nat
    BY <2>1
  <2> QED BY <1>10, <1>11, <2>2
<1>13. 2 * d <= e => 2 * x <= y
  <2> SUFFICES ASSUME 2 * d <= e PROVE 2 * x <= y
    OBVIOUS
  <2>1. PICK k \in Nat : e = 2 * d + k
    <3>1. e - 2 * d \in Nat
      OBVIOUS
    <3> QED BY <3>1
  <2>2. r * e = 2 * (r * d) + r * k /\ r * k \in Nat
    BY <2>1
  <2> QED BY <1>10, <1>11, <2>2
<1>14. ShareAfter(t) = Capped(x, 100) /\ ShareAfter(u) = Capped(y, 100)
  BY <1>1, <1>2, <1>3, <1>5, <1>6, <1>9, <1>10, <1>11 DEF ShareAfter, RampStart
<1> QED BY <1>1, <1>7, <1>8, <1>9, <1>10, <1>12, <1>13, <1>14 DEF Capped

\* A step of the ramp stays within the share allowed since k.
LEMMA StepStaysGradual ==
    ASSUME RampWindowMs > 0, NEW b \in BackendType, NEW c, NEW t \in Millis,
           NEW k \in Millis, SteppedOnce(b, c, t),
           b.last_ramp_step \in k .. t, b.ramp_percent <= ShareAfter(b.last_ramp_step - k)
    PROVE  /\ c.last_ramp_step \in k .. t
           /\ c.ramp_percent <= ShareAfter(c.last_ramp_step - k)
           /\ c.ramp_percent <= ShareAfter(t - k)
<1>0. t \in Nat /\ k \in Nat /\ t - k \in Nat /\ k <= t
  BY DEF Millis
<1>1. PICK s \in k .. t : s = b.last_ramp_step
  OBVIOUS
<1>2. PICK r \in 1 .. 100 : r = b.ramp_percent
  BY DEF BackendType
<1>3. PICK x \in Nat : x = s - k
  BY <1>0
<1>4. PICK y \in Nat : y = t - k
  BY <1>0
<1>5. PICK f \in 0 .. 100 : f = ShareAfter(x)
  BY ShareGrows
<1>6. PICK g \in 0 .. 100 : g = ShareAfter(y)
  BY ShareGrows
<1>7. r <= f
  BY <1>1, <1>2, <1>3, <1>5
<1>8. x <= y
  BY <1>0, <1>1, <1>3, <1>4
<1>9. f <= g
  BY <1>5, <1>6, <1>8, ShareGrows
<1>10. CASE SameRamp(b, c)
  BY <1>1, <1>2, <1>3, <1>4, <1>5, <1>6, <1>7, <1>9, <1>10 DEF SameRamp
<1>11. CASE /\ RampDue(b, t) /\ c.ramp_percent = Capped(2 * b.ramp_percent, 100)
            /\ c.last_ramp_step = t
  <2>1. PICK w \in Nat \ {0} : w = RampWindowMs
    BY EwmaAssumption
  <2>2. s # None
    BY <1>0, <1>1 DEF None
  <2>3. x + w <= y
    BY <1>0, <1>1, <1>3, <1>4, <1>11, <2>1, <2>2 DEF RampDue, SatSub
  <2>4. Capped(2 * f, 100) <= g
    BY <1>5, <1>6, <2>1, <2>3, ShareGrows
  <2>5. Capped(2 * r, 100) <= g
    BY <1>7, <2>4 DEF Capped
  <2> QED BY <1>0, <1>2, <1>4, <1>6, <1>11, <2>5
<1> QED BY <1>10, <1>11 DEF SteppedOnce

\* Requests and ends of calls, seen by the latency layer.
LEMMA RequestIsHeard ==
    ASSUME TypeOK, RingInv, Request
    PROVE  /\ pool'.ewma = pool.ewma
           /\ \A i \in Callable : Heard(pool.backends[i], pool'.backends[i])
<1>0. pool \in PoolType
  BY IndicesHavePoints
<1>1. PICK q : /\ Rebalanced(pool, q)
               /\ \/ pool' = q
                  \/ \E i \in Indices(q) :
                        Recounted(q, i, q.backends[i].in_flight + 1, pool')
  BY RequestTakes
<1>2. /\ q \in PoolType /\ Indices(q) = Callable /\ q.ewma = pool.ewma
  BY <1>1 DEF Rebalanced, Callable
<1>3. \A j \in Callable : SameEvidence(pool.backends[j], q.backends[j])
                          /\ SameRamp(pool.backends[j], q.backends[j])
  BY <1>0, <1>1, RebalancedIsSame DEF Callable
<1>4. CASE pool' = q
  BY <1>2, <1>3, <1>4, SameIsHeard
<1>5. ASSUME NEW i \in Indices(q), Recounted(q, i, q.backends[i].in_flight + 1, pool')
      PROVE  /\ pool'.ewma = pool.ewma
             /\ \A j \in Callable : Heard(pool.backends[j], pool'.backends[j])
  <2>1. PICK z : pool' = z
    OBVIOUS
  <2>2. \A j \in Indices(q) : SameEvidence(q.backends[j], z.backends[j])
                              /\ SameRamp(q.backends[j], z.backends[j])
    BY <1>2, <1>5, <2>1, RecountedIsSame
  <2>3. \A j \in Callable : Heard(pool.backends[j], z.backends[j])
    BY <1>2, <1>3, <2>2 DEF Heard, SameEvidence, SameRamp
  <2>4. z.ewma = q.ewma
    BY <1>5, <2>1 DEF Recounted, SameShape
  <2> QED BY <1>2, <2>1, <2>3, <2>4
<1> QED BY <1>1, <1>4, <1>5

LEMMA FinishIsHeard ==
    ASSUME TypeOK, RingInv, Finish
    PROVE  /\ pool'.ewma = pool.ewma
           /\ \A i \in Callable : Heard(pool.backends[i], pool'.backends[i])
<1>0. pool \in PoolType /\ now \in Millis
  BY IndicesHavePoints
<1>1. PICK i \in Indices(pool), l \in Nat, q \in PoolType :
          /\ Recounted(pool, i, SatSub(pool.backends[i].in_flight, 1), q)
          /\ \/ pool' = [q EXCEPT !.backends[i] = RecordSuccess(@, now)]
             \/ pool' = PoolRecordSuccess(q, i, now, l)
             \/ pool' = PoolRecordFailure(q, i, now)
  BY FinishGives
<1>2. PICK z : pool' = z
  OBVIOUS
<1>3. /\ q \in PoolType /\ Indices(q) = Callable /\ q.ewma = pool.ewma
  BY <1>1 DEF Recounted, SameShape, Callable
<1>4. \A j \in Callable : SameEvidence(pool.backends[j], q.backends[j])
                          /\ SameRamp(pool.backends[j], q.backends[j])
  BY <1>0, <1>1, RecountedIsSame DEF Callable
<1>5. \A j \in Callable : Heard(q.backends[j], z.backends[j])
  BY <1>0, <1>1, <1>2, <1>3, HeardPool DEF Callable
<1>6. \A j \in Callable : Heard(pool.backends[j], z.backends[j])
  BY <1>4, <1>5 DEF Heard, SameEvidence, SameRamp
<1>7. z.ewma = q.ewma
  BY <1>0, <1>1, <1>2, <1>3, RecordedOutcome DEF SameShape, Callable
<1> QED BY <1>2, <1>3, <1>6, <1>7

-----------------------------------------------------------------------------
\* The layer has watched i for no more samples than i delivered since the
\* layer last ejected it.
Watched(i) ==
    LET b == BackendOf(i)
    IN  b.over_since # None =>
            /\ b.over_since_samples <= b.ewma_samples
            /\ Capped(b.ewma_samples - b.over_since_samples, MinSamples) <= judged[i]

\* At the last step of its ramp i had no more than the share allowed then.
Ramped(i) ==
    LET b == BackendOf(i)
    IN  RampWindowMs > 0 /\ back[i] # None =>
            /\ b.last_ramp_step \in back[i] .. now
            /\ b.ramp_percent <= ShareAfter(b.last_ramp_step - back[i])

LayerInv ==
    /\ Inv
    /\ pool.ewma = TRUE
    /\ DOMAIN judged = DOMAIN Weights /\ DOMAIN back = DOMAIN Weights
    /\ \A i \in Callable :
          judged[i] \in 0 .. MinSamples /\ back[i] \in OptMillis /\ Watched(i) /\ Ramped(i)

\* The same pool with the layer attached.
LEMMA LayerInitInv == LayerInit => LayerInv
<1> SUFFICES ASSUME LayerInit PROVE LayerInv
  OBVIOUS
<1>1. now \in Millis /\ now = 0 /\ polled = FALSE
  BY MaxClockAssumption DEF LayerInit, ClockInit, Millis
<1>2. PICK s \in AllStrategies : pool = EnableEwma(StartingPool(s))
  BY StrategiesAssumption DEF LayerInit
<1>3. PICK p : p = StartingPool(s)
  OBVIOUS
<1>4. /\ p \in PoolType /\ Len(p.backends) <= Len(Weights) /\ RingFresh(p)
      /\ \A i \in Indices(p) : \E w \in Nat : p.backends[i] = NewBackend(w)
  BY <1>3, StartingIsFresh
<1>5. pool = [p EXCEPT !.ewma = TRUE]
  BY <1>2, <1>3 DEF EnableEwma
<1>6. pool \in PoolType /\ pool.ewma = TRUE /\ pool.backends = p.backends /\ RingFresh(pool)
  BY <1>4, <1>5 DEF PoolType, RingFresh
<1>7. Inv
  BY <1>1, <1>4, <1>6 DEF Inv, TypeOK, RingInv, AllSettled
<1>8. judged = [i \in DOMAIN Weights |-> MinSamples] /\ back = [i \in DOMAIN Weights |-> None]
  BY DEF LayerInit, Enough
<1>9. DOMAIN judged = DOMAIN Weights /\ DOMAIN back = DOMAIN Weights
  BY <1>8
<1>10. ASSUME NEW i \in Callable
       PROVE  judged[i] \in 0 .. MinSamples /\ back[i] \in OptMillis /\ Watched(i) /\ Ramped(i)
  <2>1. i \in DOMAIN Weights
    BY <1>7, CallableHasWeight DEF Inv
  <2>2. judged[i] \in 0 .. MinSamples /\ back[i] = None
    BY <1>8, <2>1, EwmaAssumption
  <2>3. BackendOf(i).over_since = None
    <3>1. PICK w \in Nat : BackendOf(i) = NewBackend(w)
      BY <1>4, <1>6 DEF BackendOf, Callable, Indices
    <3> QED BY <3>1 DEF NewBackend
  <2> QED BY <2>2, <2>3 DEF Watched, Ramped, OptMillis
<1> QED BY <1>6, <1>7, <1>9, <1>10 DEF LayerInv

\* What a step of the layer is for one backend: a stage of a poll, or a call.
LEMMA LayerStepIs ==
    ASSUME LayerInv, LayerNext
    PROVE  /\ Inv' /\ pool'.ewma = TRUE /\ Indices(pool') = Callable
           /\ now \in Millis /\ now' \in Millis /\ now <= now'
           /\ \A i \in Callable :
                 /\ pool.backends[i] \in BackendType /\ pool'.backends[i] \in BackendType
                 /\ Poll => /\ now' = now
                            /\ pool'.backends[i] =
                                  PollBackend(pool.backends[i], now, TRUE, Line(pool))
                 /\ ~Poll => Heard(pool.backends[i], pool'.backends[i])
<1>0. /\ Inv /\ TypeOK /\ RingInv /\ pool.ewma = TRUE /\ pool \in PoolType /\ now \in Millis
  BY DEF LayerInv, Inv, TypeOK
<1>1. Traffic
  BY DEF LayerNext
<1>2. Inv'
  BY <1>0, <1>1, InvStep DEF Next
<1>3. now' \in Millis /\ pool' \in PoolType
  BY <1>2 DEF Inv, TypeOK
<1>4. CASE Advance
  <2>1. PICK d \in Nat : now' = SatAdd(now, d)
    BY <1>4, ClockAssumption DEF Advance, AdvanceClock
  <2>2. now <= now'
    BY <1>0, <2>1 DEF SatAdd, Millis
  <2>3. pool' = pool
    BY <1>4 DEF Advance
  <2>4. \A i \in Callable : Heard(pool.backends[i], pool'.backends[i])
    BY <2>3 DEF Heard, SameRamp
  <2>5. ASSUME NEW i \in Callable, Poll
        PROVE  now' = now /\ pool'.backends[i] =
                                PollBackend(pool.backends[i], now, TRUE, Line(pool))
    BY <1>0, <2>5, LayerPollsPool DEF Poll, Callable
  <2> QED BY <1>0, <1>2, <1>3, <2>2, <2>3, <2>4, <2>5, IndicesAre DEF Callable
<1>5. CASE Poll
  <2>1. now' = now /\ pool' = PoolPoll(pool, now)
    BY <1>5 DEF Poll
  <2>2. Indices(pool') = Callable /\ pool'.ewma = TRUE
    BY <1>0, <2>1, PolledPool DEF SameShape, Callable
  <2>3. \A i \in Callable :
           pool'.backends[i] = PollBackend(pool.backends[i], now, TRUE, Line(pool))
    BY <1>0, <2>1, LayerPollsPool DEF Callable
  <2>4. now <= now'
    BY <1>0, <2>1 DEF Millis
  <2> QED BY <1>0, <1>2, <1>3, <1>5, <2>1, <2>2, <2>3, <2>4, IndicesAre DEF Callable
<1>6. CASE (Request \/ Finish) /\ ~Poll
  <2>1. pool'.ewma = TRUE /\ \A i \in Callable : Heard(pool.backends[i], pool'.backends[i])
    BY <1>0, <1>6, RequestIsHeard, FinishIsHeard
  <2>2. Indices(pool') = Callable
    BY <1>0, <1>6, RequestIsOrderly, FinishIsOrderly DEF Orderly, Callable
  <2>3. now' = now
    BY <1>6 DEF Request, Finish, Succeed, Fail
  <2>4. now <= now'
    BY <1>0, <2>3 DEF Millis
  <2> QED BY <1>0, <1>2, <1>3, <1>6, <2>1, <2>2, <2>4, IndicesAre DEF Callable
<1> QED BY <1>1, <1>4, <1>5, <1>6 DEF Traffic

\* What it is for the history variables.
LEMMA HistoryIs ==
    ASSUME LayerInv, LayerNext, NEW i \in Callable
    PROVE  /\ Judges(i) => judged'[i] = 0
           /\ ~Judges(i) /\ Sampling(i) => judged'[i] = Capped(judged[i] + 1, MinSamples)
           /\ ~Judges(i) /\ ~Sampling(i) => judged'[i] = judged[i]
           /\ Reinstates(i) => back'[i] = now
           /\ ~Reinstates(i) => back'[i] \in {None, back[i]}
<1>1. /\ DOMAIN judged = DOMAIN Weights /\ DOMAIN back = DOMAIN Weights
      /\ i \in DOMAIN Weights
  BY CallableHasWeight DEF LayerInv, Inv
<1>2. judged'[i] = IF Judges(i) THEN 0
                   ELSE IF Sampling(i) THEN Capped(judged[i] + 1, MinSamples)
                   ELSE judged[i]
  BY <1>1 DEF LayerNext, CountFresh
<1>3. back'[i] = CASE Reinstates(i) -> now
                   [] ~Reinstates(i) /\ pool'.backends[i].ramp_percent = 100 -> None
                   [] ~Reinstates(i) /\ pool'.backends[i].ramp_percent < 100 -> back[i]
  BY <1>1 DEF LayerNext
<1>4. PICK r \in 1 .. 100 : r = pool'.backends[i].ramp_percent
  BY LayerStepIs DEF BackendType
<1>5. r = 100 \/ r < 100
  OBVIOUS
<1>6. Reinstates(i) => back'[i] = now
  BY <1>3
<1>7. ~Reinstates(i) => back'[i] \in {None, back[i]}
  BY <1>3, <1>4, <1>5
<1> QED BY <1>2, <1>6, <1>7

\* Nothing lets the watch run ahead of the samples delivered: a poll delivers
\* none, a call at most one, and a judgement ends the watch.
LEMMA WatchedStep ==
    ASSUME LayerInv, LayerNext, NEW i \in Callable
    PROVE  /\ judged'[i] \in 0 .. MinSamples
           /\ pool'.backends[i].over_since # None =>
                 /\ pool'.backends[i].over_since_samples <= pool'.backends[i].ewma_samples
                 /\ Capped(pool'.backends[i].ewma_samples
                              - pool'.backends[i].over_since_samples, MinSamples)
                       <= judged'[i]
<1>1. PICK b \in BackendType : b = pool.backends[i]
  BY LayerStepIs
<1>2. PICK c \in BackendType : c = pool'.backends[i]
  BY LayerStepIs
<1>3. PICK j \in 0 .. MinSamples : j = judged[i]
  BY DEF LayerInv
<1>4. b.over_since # None =>
          /\ b.over_since_samples <= b.ewma_samples
          /\ Capped(b.ewma_samples - b.over_since_samples, MinSamples) <= j
  BY <1>1, <1>3 DEF LayerInv, Watched, BackendOf
<1>5. PICK k : k = judged'[i]
  OBVIOUS
<1>6. /\ Judges(i) => k = 0
      /\ ~Judges(i) /\ Sampling(i) => k = Capped(j + 1, MinSamples)
      /\ ~Judges(i) /\ ~Sampling(i) => k = j
  BY <1>3, <1>5, HistoryIs
<1>7. MinSamples \in Nat
  BY EwmaAssumption
<1>8. k \in 0 .. MinSamples
  BY <1>6, <1>7 DEF Capped
<1>9. Sampling(i) <=> c.ewma_samples > b.ewma_samples
  BY <1>1, <1>2 DEF Sampling, BackendOf
<1>b. PICK m \in Nat, n \in Nat : m = b.ewma_samples /\ n = b.over_since_samples
  BY DEF BackendType
<1>10. CASE Poll
  <2>1. PICK line : line = Line(pool)
    OBVIOUS
  <2>2. c = PollBackend(b, now, TRUE, line) /\ now \in Millis
    BY <1>1, <1>2, <1>10, <2>1, LayerStepIs
  <2>3. /\ WatchedOnly(b, c)
        /\ (b.ejected_until = None \/ EjectionOver(b, now)) /\ c.ejected_until # None =>
              EjectedFairly(b, c, now, line)
    BY <2>2, LayerPollsBackend
  <2>4. c.ewma_samples = m /\ ~Sampling(i)
    BY <1>9, <1>b, <2>3 DEF WatchedOnly
  <2>5. Judges(i) => c.over_since = None
    BY <1>1, <1>2, <2>3 DEF Judges, EjectedFairly, BackendOf
  <2>6. c.over_since # None => k = j
    BY <1>6, <2>4, <2>5
  <2>7. c.over_since # None =>
            \/ b.over_since # None /\ c.over_since_samples = n
            \/ c.over_since_samples = m
    BY <1>b, <2>3 DEF WatchedOnly
  <2>8. c.over_since # None =>
            c.over_since_samples <= m /\ Capped(m - c.over_since_samples, MinSamples) <= k
    BY <1>3, <1>4, <1>7, <1>b, <2>6, <2>7 DEF Capped
  <2> QED BY <1>2, <1>5, <1>8, <2>4, <2>8
<1>11. CASE ~Poll
  <2>1. Heard(b, c)
    BY <1>1, <1>2, <1>11, LayerStepIs
  <2>2. ~Judges(i)
    BY <1>11 DEF Judges
  <2>3. c.over_since = b.over_since /\ c.over_since_samples = n
        /\ (c.ewma_samples = m \/ c.ewma_samples = m + 1)
    BY <1>b, <2>1 DEF Heard
  <2>4. CASE c.ewma_samples = m
    <3>1. k = j
      BY <1>6, <1>9, <1>b, <2>2, <2>4
    <3> QED BY <1>2, <1>4, <1>5, <1>8, <1>b, <2>3, <2>4, <3>1
  <2>5. CASE c.ewma_samples = m + 1
    <3>1. k = Capped(j + 1, MinSamples)
      BY <1>6, <1>9, <1>b, <2>2, <2>5
    <3>2. c.over_since # None => n <= m + 1 /\ Capped((m + 1) - n, MinSamples) <= k
      BY <1>3, <1>4, <1>7, <1>b, <2>3, <3>1 DEF Capped
    <3> QED BY <1>2, <1>5, <1>8, <2>3, <2>5, <3>2
  <2> QED BY <2>3, <2>4, <2>5
<1> QED BY <1>10, <1>11

\* Nothing takes a share past what is allowed since the reinstatement: a poll
\* doubles it only when a whole window has passed since the last step.
LEMMA RampedStep ==
    ASSUME LayerInv, LayerNext, NEW i \in Callable
    PROVE  /\ back'[i] \in OptMillis
           /\ RampWindowMs > 0 /\ back'[i] # None =>
                 /\ pool'.backends[i].last_ramp_step \in back'[i] .. now'
                 /\ pool'.backends[i].ramp_percent
                       <= ShareAfter(pool'.backends[i].last_ramp_step - back'[i])
           /\ RampWindowMs > 0 /\ ~Reinstates(i) =>
                 /\ BackendOf(i).ramp_percent <= pool'.backends[i].ramp_percent
                 /\ back[i] # None =>
                       pool'.backends[i].ramp_percent <= ShareAfter(now - back[i])
<1>1. PICK b \in BackendType : b = pool.backends[i]
  BY LayerStepIs
<1>2. PICK c \in BackendType : c = pool'.backends[i]
  BY LayerStepIs
<1>3. PICK k \in OptMillis : k = back[i]
  BY DEF LayerInv
<1>4. RampWindowMs > 0 /\ k # None =>
          /\ b.last_ramp_step \in k .. now
          /\ b.ramp_percent <= ShareAfter(b.last_ramp_step - k)
  BY <1>1, <1>3 DEF LayerInv, Ramped, BackendOf
<1>5. PICK l : l = back'[i]
  OBVIOUS
<1>6. /\ Reinstates(i) => l = now
      /\ ~Reinstates(i) => l \in {None, k}
  BY <1>3, <1>5, HistoryIs
<1>7. PICK u \in Millis : u = now' /\ now <= u /\ now \in Millis
  BY LayerStepIs
<1>8. l \in OptMillis
  BY <1>6, <1>7 DEF OptMillis
<1>9. CASE Reinstates(i)
  <2>1. EjectionOver(b, now) /\ Poll
    BY <1>1, <1>9 DEF Reinstates, BackendOf
  <2>2. c = PollBackend(b, now, TRUE, Line(pool)) /\ u = now
    BY <1>1, <1>2, <1>7, <2>1, LayerStepIs
  <2>3. PICK line : line = Line(pool)
    OBVIOUS
  <2>4. c = PollBackend(b, now, TRUE, line)
    BY <2>2, <2>3
  <2>5. ASSUME RampWindowMs > 0
        PROVE  c.ramp_percent = RampStart /\ c.last_ramp_step = now
    <3>1. EjectionOver(b, now) /\ now \in Millis
      BY <1>7, <2>1
    <3>2. RampRestarts(b, c, now)
      BY <2>4, <3>1, LayerPollsBackend
    <3> QED BY <2>5, <3>1, <3>2 DEF RampRestarts
  <2>6. now \in now .. u /\ now - now = 0
    BY <1>7, <2>2 DEF Millis
  <2>7. RampWindowMs > 0 => RampStart <= ShareAfter(0)
    BY ShareGrows
  <2> QED BY <1>2, <1>5, <1>6, <1>7, <1>8, <1>9, <2>2, <2>5, <2>6, <2>7
<1>10. CASE ~Reinstates(i)
  <2>1. SteppedOnce(b, c, now)
    <3>1. CASE Poll
      <4>1. ~EjectionOver(b, now)
        BY <1>1, <1>10, <3>1 DEF Reinstates, BackendOf
      <4>2. PICK line : line = Line(pool)
        OBVIOUS
      <4>3. c = PollBackend(b, now, TRUE, line)
        BY <1>1, <1>2, <3>1, <4>2, LayerStepIs
      <4> QED BY <1>7, <4>1, <4>3, LayerPollsBackend
    <3>2. CASE ~Poll
      BY <1>1, <1>2, <3>2, LayerStepIs DEF Heard, SteppedOnce
    <3> QED BY <3>1, <3>2
  <2>2. b.ramp_percent <= c.ramp_percent
    BY <2>1, StepOnlyRaises
  <2>3. ASSUME RampWindowMs > 0, k # None
        PROVE  /\ c.last_ramp_step \in k .. now
               /\ c.ramp_percent <= ShareAfter(c.last_ramp_step - k)
               /\ c.ramp_percent <= ShareAfter(now - k)
    <3>1. k \in Millis
      BY <2>3 DEF OptMillis
    <3> QED BY <1>4, <1>7, <2>1, <2>3, <3>1, StepStaysGradual
  <2>4. k # None => k .. now \subseteq k .. u
    BY <1>7 DEF Millis, OptMillis
  <2> QED BY <1>1, <1>2, <1>3, <1>5, <1>6, <1>7, <1>8, <1>10, <2>2, <2>3, <2>4 DEF BackendOf
<1> QED BY <1>9, <1>10

LEMMA LayerInvStep == LayerInv /\ [LayerNext]_layerVars => LayerInv'
<1> SUFFICES ASSUME LayerInv, [LayerNext]_layerVars PROVE LayerInv'
  OBVIOUS
<1>1. CASE LayerNext
  <2>1. Inv' /\ pool'.ewma = TRUE /\ Indices(pool') = Callable
    BY <1>1, LayerStepIs
  <2>2. DOMAIN judged' = DOMAIN Weights /\ DOMAIN back' = DOMAIN Weights
    BY <1>1 DEF LayerNext, CountFresh, LayerInv
  <2>3. ASSUME NEW i \in Callable
        PROVE  (judged[i] \in 0 .. MinSamples /\ back[i] \in OptMillis
                  /\ Watched(i) /\ Ramped(i))'
    BY <1>1, WatchedStep, RampedStep DEF Watched, Ramped, BackendOf
  <2> QED BY <2>1, <2>2, <2>3 DEF LayerInv, Callable
<1>2. CASE UNCHANGED layerVars
  <2>1. UNCHANGED <<now, pool, polled, fresh, judged, back>>
    BY <1>2 DEF layerVars, vars
  <2>2. Inv'
    BY <2>1, InvStep DEF LayerInv, vars
  <2> QED BY <2>1, <2>2 DEF LayerInv, Watched, Ramped, Callable, BackendOf
<1> QED BY <1>1, <1>2

LEMMA LayerInvHolds == LayerSpec => []LayerInv
BY LayerInitInv, LayerInvStep, PTL DEF LayerSpec

(***************************************************************************)
(* The layer never ejects a backend twice on the same evidence, however    *)
(* many samples it asks for and whatever outlier ejections fall in         *)
(* between: the watch that led to an ejection began after the one before   *)
(* (pool.rs poll, poll_ewma).                                              *)
(***************************************************************************)
THEOREM LayerJudgesOnNewEvidence == LayerSpec => JudgedOnNewEvidence
<1> DEFINE Fair == \A i \in Callable : Judges(i) => judged[i] >= MinSamples
<1>1. LayerInv /\ [LayerNext]_layerVars => [Fair]_layerVars
  <2> SUFFICES ASSUME LayerInv, LayerNext, NEW i \in Callable, Judges(i)
               PROVE  judged[i] >= MinSamples
    OBVIOUS
  <2>1. PICK b \in BackendType : b = pool.backends[i]
    BY LayerStepIs
  <2>2. PICK c : c = pool'.backends[i]
    OBVIOUS
  <2>3. PICK line : line = Line(pool)
    OBVIOUS
  <2>4. /\ c = PollBackend(b, now, TRUE, line) /\ now \in Millis
        /\ c.ejected_until # None
        /\ b.ejected_until = None \/ EjectionOver(b, now)
    BY <2>1, <2>2, <2>3, LayerStepIs DEF Judges, BackendOf
  <2>5. b.over_since # None /\ SustainedOver(b, now)
    BY <2>4, LayerPollsBackend DEF EjectedFairly
  <2>6. PICK m \in Nat, n \in Nat : m = b.ewma_samples /\ n = b.over_since_samples
    BY DEF BackendType
  <2>7. n <= m /\ Capped(m - n, MinSamples) <= judged[i]
    BY <2>1, <2>5, <2>6 DEF LayerInv, Watched, BackendOf
  <2>8. PICK j \in Nat : j = judged[i]
    BY EwmaAssumption DEF LayerInv
  <2>9. m - n >= MinSamples
    BY <2>5, <2>6, <2>7 DEF SustainedOver, SatSub
  <2> QED BY <2>7, <2>8, <2>9, EwmaAssumption DEF Capped
<1> QED BY <1>1, LayerInvHolds, PTL DEF LayerSpec, JudgedOnNewEvidence

(***************************************************************************)
(* The ramp is gradual for every percentage, window and history: the share *)
(* has doubled at most once for every full window since the reinstatement  *)
(* and only a reinstatement lowers it (pool.rs poll).                      *)
(***************************************************************************)
THEOREM RampsAreGradual == LayerSpec => RampIsGradual
<1> DEFINE Gradual ==
        \A i \in Callable :
            LET share == pool'.backends[i].ramp_percent
            IN  ~Reinstates(i) /\ RampWindowMs > 0 =>
                    /\ share >= BackendOf(i).ramp_percent
                    /\ back[i] # None => share <= ShareAfter(now - back[i])
<1>1. LayerInv /\ [LayerNext]_layerVars => [Gradual]_layerVars
  <2> SUFFICES ASSUME LayerInv, LayerNext, NEW i \in Callable,
                      ~Reinstates(i), RampWindowMs > 0
               PROVE  /\ pool'.backends[i].ramp_percent >= BackendOf(i).ramp_percent
                      /\ back[i] # None =>
                            pool'.backends[i].ramp_percent <= ShareAfter(now - back[i])
    OBVIOUS
  <2>1. PICK r \in 1 .. 100 : r = pool'.backends[i].ramp_percent
    BY LayerStepIs DEF BackendType
  <2>2. PICK s \in 1 .. 100 : s = BackendOf(i).ramp_percent
    BY LayerStepIs DEF BackendType, BackendOf
  <2>3. /\ s <= r
        /\ back[i] # None => r <= ShareAfter(now - back[i])
    BY <2>1, <2>2, RampedStep
  <2> QED BY <2>1, <2>2, <2>3
<1> QED BY <1>1, LayerInvHolds, PTL DEF LayerSpec, RampIsGradual

(***************************************************************************)
(* With a factor of one or more some backend with enough samples is at or  *)
(* under the line at every poll, whatever the latencies and however the    *)
(* arithmetic rounds or saturates, and unless it stands ejected already    *)
(* the poll leaves it in place (pool.rs poll, ewma_mean, ewma.rs           *)
(* threshold_milli).                                                       *)
(***************************************************************************)
THEOREM SomeoneStays == LayerSpec => SomeoneIsWithinLine
<1> DEFINE Stays ==
        Poll /\ pool.ewma /\ FactorMilli >= 1000 /\ Sampled(pool) # {} =>
            \E i \in Sampled(pool) :
                /\ EwmaOf(BackendOf(i)) <= Line(pool)
                /\ ~IsEjected(BackendOf(i), now) =>
                       pool'.backends[i].ejected_until = None
<1>1. LayerInv /\ [LayerNext]_layerVars => [Stays]_layerVars
  <2> SUFFICES ASSUME LayerInv, LayerNext, Poll, FactorMilli >= 1000, Sampled(pool) # {}
               PROVE  \E i \in Sampled(pool) :
                          /\ EwmaOf(BackendOf(i)) <= Line(pool)
                          /\ ~IsEjected(BackendOf(i), now) =>
                                 pool'.backends[i].ejected_until = None
    OBVIOUS
  <2>1. pool \in PoolType
    BY DEF LayerInv, Inv, TypeOK
  <2>2. PICK i \in Sampled(pool) : EwmaOf(pool.backends[i]) <= EwmaMean(pool)
    BY <2>1, SomebodyIsNotOverMean
  <2>3. i \in Indices(pool) /\ i \in Callable
    BY <2>2 DEF Sampled, Callable
  <2>4. PICK e \in 0 .. MaxEwma : e = EwmaOf(pool.backends[i])
    BY <2>1, <2>3, EwmaTypes
  <2>5. PICK line \in Nat : line = Line(pool) /\ e <= line
    BY <2>1, <2>2, <2>4, SomebodyIsNotOverMean, LineIsNotUnderMean
  <2>6. PICK b \in BackendType : b = pool.backends[i]
    BY <2>3, LayerStepIs
  <2>7. EwmaOf(BackendOf(i)) <= Line(pool)
    BY <2>4, <2>5 DEF BackendOf
  <2>8. ~OverLine(b, line)
    BY <2>4, <2>5, <2>6 DEF OverLine, EwmaOf
  <2>9. ASSUME ~IsEjected(BackendOf(i), now)
        PROVE  pool'.backends[i].ejected_until = None
    <3>1. PICK c : c = pool'.backends[i]
      OBVIOUS
    <3>2. c = PollBackend(b, now, TRUE, line) /\ now \in Millis
      BY <2>3, <2>5, <2>6, <3>1, LayerStepIs
    <3>3. b.ejected_until = None \/ EjectionOver(b, now)
      <4>1. PICK u \in Int, t \in Int : u = b.ejected_until /\ t = now
        BY <3>2, MaxClockAssumption DEF BackendType, OptMillis, Millis, None
      <4>2. ~(u # None /\ t < u)
        BY <2>6, <2>9, <4>1 DEF IsEjected, BackendOf
      <4>3. u = None \/ t >= u
        BY <4>1, <4>2
      <4> QED BY <4>1, <4>3 DEF EjectionOver
    <3>4. CASE c.ejected_until = None
      BY <3>1, <3>4
    <3>5. CASE c.ejected_until # None
      BY <2>8, <3>2, <3>3, <3>5, LayerPollsBackend DEF EjectedFairly
    <3> QED BY <3>4, <3>5
  <2> QED BY <2>2, <2>7, <2>9
<1> QED BY <1>1, LayerInvHolds, PTL DEF LayerSpec, SomeoneIsWithinLine

(***************************************************************************)
(* No judgement of the layer moves or lifts an ejection either.            *)
(***************************************************************************)
THEOREM LayerEjectionsStand == LayerSpec => EjectionIsFinal
<1>1. [LayerNext]_layerVars => [Next]_vars
  BY DEF LayerNext, Next, layerVars
<1>2. LayerInv => Inv
  BY DEF LayerInv
<1> QED BY <1>1, <1>2, EjectionStep, LayerInvHolds, PTL DEF LayerSpec, EjectionIsFinal
=============================================================================
