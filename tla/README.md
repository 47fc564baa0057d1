# Echofront in TLA+

This directory specifies the engine of Echofront, the reverse proxy and load
balancer in `src/`, as TLA+ modules. TLC checks them on small instances and
TLAPS proves theorems about the breaker, the budget, the balancer, the pool with
and without its latency layer, the proxy, the router and the parser for every
configuration. Every safety property that a passing run checks is also proved. Every
definition is a translation of the Rust source; `PROJECT.json` lists, for each,
the lines it stands for.

## The system

Echofront is single threaded and has no I/O of its own. An embedding program
owns a `Proxy` and calls it; time comes from an injected `Clock` and answers
come from `Upstream` objects.

| Part | State it keeps | Operations | Module |
|---|---|---|---|
| Circuit breaker, `breaker.rs` | state, two counters, `opened_at` | `poll`, `is_callable`, `admits`, `on_success`, `on_failure` | `Breaker`, `CircuitBreaker` |
| Retry budget, `retry.rs` | milli tokens | `on_request`, `try_retry` | `Budget`, `RetryBudget` |
| Clock, `clock.rs` | the time | `advance`, `set` | `U64`, `Clock` |
| Hash ring, `hashring.rs` | virtual nodes on a ring | `rebuild`, `lookup` | `HashRing` |
| Balancing, `pool.rs` | cursor, current weights | `select_*` | `Balancing`, `Balancer` |
| Backend, `pool.rs` | health, ejection, breaker, in flight, EWMA, ramp | loop bodies of `poll`, `record_*`, `run_health_checks` | `Backend` |
| Pool, `pool.rs` | backends, strategy, cached ring, EWMA switch | `add_backend`, `set_strategy`, `enable_ewma`, `poll`, `select`, `begin`, `end`, `record_*`, `run_health_checks` | `PoolOps`, `Pool` |
| Latency layer, `ewma.rs` and `pool.rs` | EWMA, samples, `over_since`, ramp | `fold`, `threshold_milli`, parts of `poll` | `Backend`, `LatencyLayer` |
| Proxy, `proxy.rs` | pools, budget, statistics | `handle`, `run_health_checks`, `add_pool`, `pool_mut` | `Failover`, `Proxy` |
| Router, `router.rs` | routes | `add`, `route` | `Routing`, `Router` |
| HTTP model, `http.rs` | none | `parse`, `header` | `HttpMessage`, `FrontEnd` |
| Upstream, `upstream.rs` | scripted answers and probe results, call counts | `send`, `probe`, `push`, `push_probe` | `Upstream`, `Scenario` |
| `rng.rs`, `lib.rs`, the CLI | | | not modelled |

How they interact: `handle` deposits into the budget, asks the router for a
service, polls that service's pool, and loops: select, begin, dispatch, end,
record the outcome, and after a failure ask the budget for a retry. `poll`
brings breakers, ejections and the latency layer up to the present time, and
`select` relies on it. Active probes run apart, whenever the embedding program
calls `run_health_checks`. `Pool` is public, and its counters of calls in
flight and its trial cap are for callers whose requests overlap. The text of a
request is parsed by the embedding program with `Request::parse` before it calls
`handle`; of what was parsed, the router sees host and path, and the sticky key
one header. The tests and the demo put scripted upstreams behind the pools.

What is hard here, and listed line by line under "hazards" in `PROJECT.json`:

- outcomes that arrive in a later state than their call began in;
- state that is only right just after `poll`, read again without polling;
- three independent reasons to take a backend out, each with its own way back;
- values that outlive what they were about: the cached ring, weighted balances,
  latency evidence, the time `handle` read at its start;
- retries: whom they go to, who pays for them, when they stop, and how many
  calls they make of one request;
- runs that break off and begin again: probes that disagree, windows of a ramp;
- texts with two kinds of line endings and with headers that are repeated;
- the ends of ranges: a saturating clock, a bucket at its cap, a wrapping cursor.

## Modules

Modules of two kinds. A *value module* (`U64`, `Breaker`, `Budget`, `Balancing`,
`HashRing`, `Backend`, `PoolOps`, `Routing`, `HttpMessage`, `Upstream`)
describes a component as a record and its methods as operators from record to
record; it has no variables. A *machine module* (`Clock`, `CircuitBreaker`,
`RetryBudget`, `Balancer`, `Pool`, `LatencyLayer`, `Router`, `FrontEnd`,
`Proxy`, `Scenario`) has the variables and one action per operation. So one
translation of each method is used by every machine that calls it:

    U64 -- Breaker -- Backend -+
     |                         +- PoolOps -- Pool -- LatencyLayer
    Clock      Balancing ------+     |
               HashRing -------+     +------ Proxy -- Budget, Routing
                                               |
    HttpMessage -- FrontEnd -- Router        Scenario -- Upstream

The proofs stand apart, each beside the machine it is about:

    NumberLemmas -+- FrontEndProofs            CircuitBreakerProofs
                  +- BalancerProofs            RetryBudgetProofs
                  +- PoolOpsProofs -+- PoolProofs
                                    +- ProxyProofs

`MC*` modules give constants their values for TLC. Definitions marked "Mutant"
are broken versions of the operator that follows them; `PROJECT.json` pairs each
checked property with one that violates it.

- **`U64`**: millisecond arithmetic that saturates at `MaxClock`, which stands
  for `u64::MAX`, and `None` for the optional stamps. The top of the clock range
  is thus part of every small model.
- **`Clock`**: `advance` saturates. `set`, and a system clock that is corrected,
  go anywhere in `Jumps`.
- **`Breaker`, `CircuitBreaker`**: the counting breaker. `Trip`, `CountSuccess`
  and `CountFailure` are the branches of `on_success` and `on_failure`, which
  poll first. `CircuitBreaker` adds the history `log` of outcomes heard since
  the last change of state, and the parity `reports` of the outcomes reported,
  without which a lost outcome would look like a step in which nothing happens.
- **`RefBreaker`**: the abstract breaker. Where the code counts, it looks at the
  log: Closed opens exactly when the log ends in a run of failures of the
  threshold's length. The reference model of gate 2 in `tests/gates.rs` is its
  origin. `CircuitBreaker` implements it with `mode <- br.state` and `since <-`
  the stamp while Open.
- **`Budget`, `RetryBudget`**: the token bucket. `RetryBudget` watches a window
  opened at any moment, so what holds of the window holds of every stretch of
  the budget's life.
- **`Balancing`, `Balancer`**: the picks as functions of the available set. In
  `Balancer` the health layers are an environment that changes availability and
  ramps at will.
- **`HashRing`**: members have given sets of points, which may collide; the
  later member of a rebuild wins the point, as in the B-tree.
- **`Routing`, `Router`**: the choice of a route as the code makes it, by string
  prefix, boundary and `max_by_key`. `Router` grows a table and compares the
  choice with one by whole path segments.
- **`Backend`, `PoolOps`**: `PollBackend` is the body of the loop of `poll`, in
  its order: breaker, reinstatement, ramp, judgement. The line for the judgement
  is computed before the loop. Counters that are only compared with a threshold
  stop there.
- **`Pool`**: one pool with overlapping callers. `Request` is select and begin
  with any key and any set of excluded backends; `Succeed` and `Fail` are end
  and record, any time later. `polled` remembers whether `poll` ran at the
  present time, the contract of `select`.
- **`LatencyLayer`**: `Pool` with the EWMA attached and a history: the samples
  since the last reinstatement and since the last judgement, and when a backend
  on its ramp was reinstated.
- **`Proxy`**: `handle` as a small program with the phases idle, selecting and
  sent. The clock may move in any phase, since `dispatch` takes time; `call.now`
  is the time read at the start. The answers of upstreams and probes are
  nondeterministic; `incident` says whether they may still fail. Between
  requests pools are replaced and strategies switched.
- **`Failover`**: what `handle` promises, with no pool, clock or budget in it: one
  request, asked of the members of one group, one at a time, of none twice and
  of no more than a limit, and one verdict. `Proxy` implements it with `asked <-`
  the backend of the dispatch and `failed <-` the vector `tried`.
- **`Upstream`, `Scenario`**: the scripted upstream with its two queues, and
  the proxy in front of such upstreams while somebody writes the script. There
  an answer is no free choice but the head of a queue, and the upstreams count
  their calls and probes themselves, which gives the proxy's promises a second
  witness. `checked`, `probed` and `streak` are the history of health checks and
  of each upstream's probes, by its own count, and not by the stamp of the pool.
- **`Sums`**: the sum of a function over a finite set, as a recursive function
  of the set, for the sums of weights and of scores.
- **`NumberLemmas`**: what the proofs need of finite sets of numbers and of
  sums: a least and a largest element exist, a sum splits at an element,
  changes by what its summands change by, and is bounded by them; what division
  with a remainder does to a wrapping cursor; and powers of two.
- **`HttpMessage`, `FrontEnd`**: the parser over a text as a sequence of lines.
  Of a line it sees the words, the header, whether it is empty and how it ends,
  since that is what finds the end of the head. `FrontEnd` builds a route table,
  then lets a text arrive line by line and parses and routes what is there.

## Runs

Bounds are small because the interesting cases need few of each: thresholds of 1
to 3, a clock of 1 to 7 ticks with cooldowns of 0 to 3, so that the top of the
range, where deadlines and `ManualClock` saturate, is always reached, and at
most three backends. Times and counts are only added and compared with
thresholds; where the code computes more with its numbers, with weights, tokens
and the cursor, the values are chosen without common divisors. Deadlock is
checked in all runs but `front_end`, where a text of full length is the end.

| Run | Bounds | Shows |
|---|---|---|
| `breaker` | 8 clock values, jumps, thresholds 3 and 2, logs of 6 outcomes | Counters tell the history; the breaker implements `RefBreaker`; every Open period ends. |
| `retry_budget` | windows of 9 events; deposit, cost and cap have no common divisor | Grants and denials of every window are what its deposits justify. |
| `balancer` | 3 backends of weights 1, 0, 2, two ramps, a cursor of width 7, 2 keys, a point shared by two backends | Full cycles of round robin, balances that cancel and stay within one score of every other contender, exact shares while nothing changes; no key moves between backends that stay. |
| `pool_traffic` | 2 backends, 2 calls in flight each, 6 clock values | Selection returns exactly a routable backend, or none if there is none; ejections are final and end; what a poll establishes lasts. |
| `pool_full` | 1 backend and a second one added, 2 clock values, clock set back | Types and exact selection with every operation: strategies switched, EWMA attached, probes, backends added. Sticky selection does not depend on the cached ring. |
| `front_end` | 3 routes of 2 hosts, 6 prefixes, 2 services, 10 paths; under one table texts of 4 lines out of 14 | The choice by string prefix is the choice by path segments; the order of routes does not matter. Line endings are alike, the body is opaque, and the first of several headers decides. |
| `latency` | 2 backends, answers of 1 and 9 ms, factor 1.5, 4 clock values | A reinstated backend's share at most doubles once in a full window, however often the pool is polled. Judgements rest on new samples; at every poll some backend with enough samples is within the line and stays in place, unless it stands ejected; the layer leaves standing ejections alone. |
| `proxy` | 1 service, 2 backends, 1 retry, a route to nowhere, one jump of the clock | `handle` implements `Failover`. Retries go elsewhere, in-flight counts are given back, an error is the last resort, counts its attempts and takes no token, every request is answered, and after an incident every backend comes back for good. |
| `scenario` | 1 service, 2 scripted upstreams with queues of 1, 2 requests, 5 clock values, probes every 2 | Retries, failovers and tokens add up; by the upstreams' own count, calls stay within requests and paid retries; no two probes fall into one interval and no health check leaves one due, however late checks are; health changes exactly by unbroken runs of probes. |

The EWMA layer is off, as it is by default, in `pool_traffic` and
the proxy runs; it may be attached at any moment in `pool_full` and is on in
`latency`, where alpha is one, so that the EWMA takes every value the line tells
apart, and a backend delivers up to three samples, enough to be judged a second
time. `pool_full` bounds the clock to one tick because it has the most actions;
the runs with longer clocks have fewer.
`proxy` has least values for the probe and success thresholds, since
`pool_traffic` and `breaker` count higher. `scenario` takes two bad probes in a
row before a backend counts as unhealthy, so that a good one between them tells a
run from a sum, and lets a retry cost three deposits, so that most are denied.
`front_end` reads texts under one table only: parsing does not look at the table.

What `SomeoneIsWithinLine` does not say, because it is not so: that a poll never
takes the last backend out. A backend that stands ejected is not judged, but its
EWMA still counts in the mean (`Sampled`); if it is the one within the line, one
poll may eject all the others. A poll that finds everyone with enough samples in
place always leaves one of them there.

`scenario` and `proxy` have one service. That services share one bucket, and an
incident of one cannot spend more than is in it for all, rests on the theorem
`RetriesArePaidFor`, which is for any number of them.

### Runs that end in a violation

Each states something the repository says that the code does not do.

| Run | Said | Done |
|---|---|---|
| `pool_trial_claim` | `DESIGN.md:55`: at most `half_open_max_calls` in flight while Half-Open | Calls from before the trip may still be in flight when the trial begins. No new one is admitted, which `SelectsExactlyRoutable` checks. |
| `latency_stale_claim` | `pool.rs:274`: never re-ejected on stale samples | `record_failure` ejects without clearing `over_since`; the poll that reinstates may eject again at once. `JudgedOnNewEvidence` is what holds. |
| `proxy_cooldown_claim` | `DESIGN.md:54`: the breaker records when it opened | It records when the request began; if the call was slow, the cooldown is shorter by that. |

Other differences between words and code, seen while modelling and visible in
the definitions, but without a run of their own:

- `DESIGN.md:21` promises exact proportion over one full period of weighted
  round robin. A period after a change of availability or ramp begins with
  leftover balances; `ExactWhileUndisturbed` and `DriftBounded` are what holds.
- `DESIGN.md:32` says a backend comes back exactly when the cooldown says. A
  failure that arrives after the deadline and before the next poll replaces the
  expired ejection by a new one (`RecordFailure`).
- `ewma.rs:28` says a clean window doubles the ramp. Any window does, also one
  spent over the line (`RampDue`).
- `http.rs:46` says only idempotent methods qualify for a retry. `handle`
  retries every method (`Fail`); nothing calls `is_idempotent`.
- `http.rs` calls the body everything after the blank line. The parser looks for
  "\r\n\r\n" in all of the text before it looks for "\n\n", so a head of bare
  newlines ends only where a body happens to hold the former, and an empty line
  "\r\n" after a bare newline is no blank line at all (`Blank`). `BodyIsOpaque`
  holds of texts that are `Sealed`: "\r\n\r\n" occurs, or "\n\n" does and the
  next line does not bring the former.

## Fairness

- `CircuitBreaker!FairSpec`, `Pool!FairTrafficSpec`: weak fairness of `Advance`
  and `Poll`. Time passes, and `handle` polls a pool on every request. Nothing
  is assumed of outcomes. `CircuitBreaker` also assumes that the clock is not
  set by hand for ever, which would postpone the end of a cooldown for ever.
- `Proxy!FairSpec`: weak fairness of `Handle`, since the loop of `handle` runs
  until it returns and an upstream's `send` returns, with `Timeout` if need be;
  weak fairness of `Advance`; strong fairness of `CheckHealth`, because
  the embedding program interleaves probes with requests, which disable probes
  while they run.
- `EveryoneComesBack` asks for a return only of a backend for which the rest of
  the bounded clock holds a cooldown and a probe, and one good probe is enough.
  Otherwise the model's clock could end before the probes do.

## Proofs

`CircuitBreakerProofs`, for all thresholds, cooldowns and clocks:

- `TypeCorrect`: the counters stay below their thresholds. The types are
  inductive: each operator maps `BreakerType` to itself.
- `CountersCorrect`: with the type, `CountersTellHistory` is inductive. A step
  that stays in a state extends the log and the counter together; a step that
  changes state empties both. `SuccessStep` and `FailureStep` hold the cases.
- `ImplementsRefBreaker`: by the invariant the counter is the length of the run
  at the end of the log (`RunIsCount`), so counting to the threshold and ending
  in a run of the threshold's length agree; every step is then a step of
  `RefBreaker` or a stutter.

`RetryBudgetProofs`, for all deposits, costs and caps:

- `BudgetTypeCorrect`: the bucket stays in `0 .. MaxMilli`.
- `BucketBounded`: `BucketBounds` relates what is in the bucket and what was
  spent to what was deposited, from above and from below. With the type it is
  inductive; neither promise is by itself, since neither mentions the tokens.
- `GrantsBounded` and `DenialsJustified` follow from it.

`BalancerProofs`, for all backends, weights, ramps, widths of the cursor and
rings:

- `BalancesCancel`: the balances of smooth weighted round robin add up to zero
  in every state. A selection adds to each contender its score and takes their
  total from the winner (`EarnedTotal`, `PaidTotal`); with the type that is
  inductive.
- `DriftIsBounded`: no balance leaves `MostScore * (contenders - 1)`. That is
  not inductive, since the bound on the highest balance before a charge is
  too weak for the highest after it. What is inductive (`Balanced`): every set X
  of n contenders has, taken together, at most `|X| * (n - |X|) * MostScore`.
  For a set with the winner the charge pays for what its members earn; for a set
  without it, either the set with the winner added gives the bound, or nobody's
  balance is high enough to break it (`SlackMeets`, `DriftStep`). The lower bound
  on one balance is the upper bound on all the others, because they cancel. An
  earlier form of the claim, one hundred times the sum of the weights, is false:
  with many backends of equal weight and an unlucky order of failures a balance
  passes it. Three backends are too few for TLC to meet that; the proof attempt
  did.
- `PeriodsAreExact`: while nothing changes, a full period serves exact shares.
  The invariant (`Exact`) is the ledger: a balance is what was earned in the
  picks counted so far less a full charge for each of its own, and nobody is a
  full charge behind. At the end of a period the ledger leaves no other shares.
- `CyclesAreComplete`: the invariant (`Turning`) says whom the last picks went
  to, by the cursor's remainders; picks less than a cycle apart differ
  (`RemaindersDiffer`). It holds where the cursor has not wrapped in the cycle,
  as `RoundRobinCycle` says.
- `RemapIsMinimal`: from the definition of the ring alone. The walk from a key
  ends at one point with one owner (`SomeoneServes`), and two rings that both
  hold both servers of a key agree on it (`ServersAgree`), however many points
  collide.

`PoolOpsProofs` holds the lemmas on one pool as a value: every operation maps
pools to pools, what each leaves alone (`SameStanding`, `SameShape`,
`Rebalanced`), and for each of the strategies that `Select` returns an eligible
backend whenever there is one, and none otherwise (`SelectChooses`).

`PoolProofs`, for all pools, strategies, thresholds and clocks:

- The inductive invariant (`Inv`) adds to the type that a cached ring is the
  ring of its signature (`RingFresh`) and that between a poll and the next
  movement of the clock no breaker is Open past its cooldown (`AllSettled`).
- `StickyKeysFollowAvailability`: from `RingFresh`; the sticky choice is a
  function of who is available now.
- `PollIsNotUndone` and `RoutesExactlyToRoutable`: from `AllSettled`, for
  cooldowns above zero. With a cooldown of zero both are false, which came out
  of the proof: the failure that trips a breaker leaves it Open with its
  cooldown already over, and `is_callable` admits it although its state reads
  Open. Nothing in the repository configures such a cooldown.
- `EjectionsStand`: no operation lifts or moves an ejection before its deadline.

and of `LatencyLayer`, for all windows, factors, ramps and sample counts:

- The history of the layer is tied to the pool by `LayerInv`, which is `Inv` and
  two statements about every backend. `Watched`: the samples the layer has
  counted for it are no more than it delivered since the last judgement.
  `Ramped`: after its last step the ramp was no further than one doubling per
  full window since the reinstatement allows. Neither property of the layer is
  inductive without them, since both look only at the step that ejects or ramps.
- `LayerJudgesOnNewEvidence` and `RampsAreGradual` follow, operation by
  operation: a poll is the only step that judges or ramps, and what the others
  do to the history only loosens both bounds. The powers of two that the ramp is
  compared with are a recursive function (`Doublings`), which has to be shown to
  exist; the prover knows no exponent.
- `SomeoneStays`: with a factor of one or more the line is at least the mean of
  the EWMAs with enough samples, rounded down, and they cannot all be over that.
  One that is not over it is not ejected by the poll, so it stays in place unless
  it stands ejected already.
- `LayerEjectionsStand`: `EjectionIsFinal` with the layer attached, too.

`ProxyProofs`, for all services, routes, pools, thresholds, costs and limits:

- `RetriesArePaidFor`: `RetriesPaidFor`, which compares statistics and tokens,
  says nothing of the request that is open, so it is not inductive. `Accounts`
  is: it adds what the open request has answered for so far, the failures in
  `tried` and a retry that is paid for but not yet sent. One lemma per phase of
  `handle` (`BeginAccounts`, `SendAccounts`, `ReturnAccounts`, `FailAccounts`)
  shows that a step keeps it; the embedding program's own steps do not touch
  the accounts.
- `InvHolds`: `ProxyInv` is the conjunction of `Accounts`, the types of clock
  and incident, `PoolsOK` (each pool is well formed with a fresh ring, and its
  only call in flight is the open one, if it was sent), `CallOK` (the backends in
  `tried` are different ones of the request's pool, and the one it is sent to is
  yet another) and `ResultOK`. From it follow `TypeCorrect`,
  `InFlightIsGivenBack`, `RetriesFailOver` and `GivesUpOnlyInTheEnd`, each by
  what `SelectChooses` says of the next choice.
- `ProxyImplementsFailover`: `OpenGroup`, `AskedBackend` and `FailedBackends`
  map the phases of `handle` to `Failover`; one lemma per action shows that the
  step is the abstract one or a stutter.

and of `Scenario`, for all scripts whose latencies the proxy knows:

- `ScenarioIsProxy`: with `Scripted` (what waits in the queues is well formed and
  upstreams may fail) every step of a scenario is a step of `Proxy` or a stutter, so
  the results above hold in front of scripted upstreams.
- `CallsAreBounded`: `AmplificationBounded` is not inductive, since it does not
  know the call that was sent and is not yet counted. `CallsCovered` adds it
  (`Waiting`); a dispatch turns the one into the other, and what failovers there
  are was paid for (`RetriesPaidFor`). It assumes `MaxTotal > 0`: with zero the
  model keeps no totals.
- `ProbesKeepTheirCadence` and `HealthIsByProbes`: both from `ProbesOK`. By
  `Told` the counters of a backend are the length of its last run of probes, as
  long as that run could still change its mind; its stamp is
  the time of the last probe the upstream counted, and by `InStep` that is not of
  the future and the last health check left it no interval old. Of everything else that can happen `RequestHealth` and `ScenarioHealth`
  show that it leaves active health alone, operation by operation.

`FrontEndProofs`, for all tables, prefixes and paths:

- `TheMostSpecificWins`: the code compares strings and then looks at the symbol
  at the boundary, and `MostSpecificWins` compares whole segments. That they
  agree is `MatchesWhatIsUnder`. The segments of the first m symbols of a path,
  with the symbol after them, decide how its segments go on (`NextSymbol`), so
  two paths part in their segments exactly where they part in their symbols
  (`NoParting`); `SegmentPrefix` and `SlashPrefix` are the cases of a prefix
  without and with a slash at its end. It holds of prefixes of every form.
- `OrderDoesNotMatter`: routes that match one request have its host or none,
  and prefixes of equal length are then equal, so the routes on top, of which the
  last is chosen, have one pattern (`TiesAreOnePattern`). Of two neighbours with
  different patterns at most one is on top; after the exchange it is the last as
  before, at its new place (`SwapKeepsService`). It assumes `Rooted`: a prefix is
  empty or begins with "/". The code does not check that, and without it the
  path "*" matches "*" and, by the default for the root, "/" with one length.

and for all texts, of any length and over lines with any words and headers:

- `EndingsDoNotMatter`: a text of "\n" lines has no "\r\n\r\n" and one of
  "\r\n" lines no "\n\n", and the blank lines of the one kind are where those
  of the other are (`EndedBlank`). Up to there the lines say the same, so the
  headers are the same (`SameHeaders`).
- `BodiesAreOpaque`: a line more does not move the end of the head up, and one
  that does not break the seal does not move it at all (`BlankMoves`).
- `FirstHeadersStand`: so what the loop over the lines has collected is only
  added to (`HeadersGrow`), and `header` takes the first (`FirstCounts`).

Three recursions are among the definitions that are proved about: `Doublings`,
`Parts` of a path and the headers collected up to each line. Each is a recursive
function, and what is needed of it at every number is shown by the least
counterexample (`HasLeast`): first that such a function exists, from the ones on
shorter domains, then what its values are.

The assumptions are those stated with the constants: natural numbers, a clock
range that is not empty, weights given for members that have points on the ring,
a key `NoKey` that stands for the absent header and is none of the keys, paths
and prefixes that are sequences of symbols, lines that are empty or not and end
in one of two ways; and of the theorems that say so, `Rooted`, positive
cooldowns and `MaxTotal > 0`.

Only model-checked is liveness (`RequestEnds`, `EveryoneComesBack`, `OpenEnds`,
`EjectionEnds`): the prover has no rule for fairness or ENABLED.

## Not modelled

- Text beyond what decides something: the bytes of names, values and bodies,
  carriage returns other than before a newline, reason phrases, and the
  formatting of responses.
- `is_idempotent`, which nothing calls, and the default `probe` of the `Upstream`
  trait, which every implementation here overrides.
- Hash functions: the points of members and keys are parameters, so how evenly
  keys spread is not a question here.
- Statistics nothing reads back (`served`, `trips`, `ejections`), and
  `distribution`.
- `i64` overflow of weights and milli tokens, and `u32` overflow of event
  counters: 2^32 events or extreme configurations.
- `rng.rs`, which only tests use, and the command line demo.

## Plan

1. Done: breaker, budget, balancer, ring, router, pool, latency layer, proxy, and
   the proofs of breaker and budget.
2. Done: `HttpMessage` and `FrontEnd`, the parser's control line by line;
   `Upstream` and `Scenario`, the scripted upstreams, the cadence of probes and
   health as their history; `Failover`, which `Proxy` implements; the ramp as
   shares over time; the proofs that retries are paid for and that the order of
   routes does not matter.
3. Done: the proofs of balancer, ring, pool and proxy, that the proxy implements
   `Failover`, and those of the scenarios; the latency layer on top of the
   invariant of the pool; the most specific route and the parser.
4. Left: a theorem for each new safety property, as the models grow. Liveness
   stays with TLC.
