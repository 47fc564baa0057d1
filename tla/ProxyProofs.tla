---------------------------- MODULE ProxyProofs ----------------------------
(***************************************************************************)
(* For every set of pools and strategies, every route table, budget and    *)
(* cap on retries: the proxy's statistics add up, so retries never outrun  *)
(* the bucket and the deposits, however many services share the bucket.    *)
(* For every script of the upstreams: the proxy in front of them is the    *)
(* proxy, they see no more calls than were paid for, and their health      *)
(* follows their probes.                                                   *)
(***************************************************************************)
EXTENDS Scenario, PoolOpsProofs, SequenceTheorems

\* One more unit of cost, deposit or retries, as a product.
LEMMA Product ==
    ASSUME NEW k \in Nat, NEW n \in Nat
    PROVE  k * n \in Nat /\ k * (n + 1) = k * n + k
OBVIOUS

\* The requests that were answered, the failures of the open one, and the
\* retry that was paid for and has not yet found a backend.
Answers == IF Busy THEN total.requests - 1 ELSE total.requests

OpenFailures == IF Busy THEN Len(call.tried) ELSE 0

PendingRetry == IF Busy /\ call.phase = "selecting" /\ Len(call.tried) > 0 THEN 1 ELSE 0

Totals == [requests : Nat, retries : Nat, failovers : Nat]

NoTotal == [requests |-> 0, retries |-> 0, failovers |-> 0]

CallShape ==
    Busy => /\ call.phase \in {"selecting", "sent"}
            /\ call.tried \in Seq(Tried)
            /\ Len(call.tried) <= MaxRetries

\* What retries cost, requests paid in, and answered requests may retry.
Paid == RetryCostMilli * total.retries

Income == DepositMilli * total.requests

Allowed == MaxRetries * Answers

TokensAddUp == tokens \in 0 .. MaxMilli /\ Paid + tokens <= MaxMilli + Income

CallsAddUp ==
    /\ Answers \in Nat
    /\ total.retries <= Allowed + OpenFailures
    /\ total.failovers + PendingRetry <= total.retries
    /\ total.retries - total.failovers <= Answers + PendingRetry

\* The inductive invariant: RetriesPaidFor says nothing of the open request
\* and of the retry it may already have paid for.
Accounts ==
    /\ total \in Totals
    /\ CallShape
    /\ TokensAddUp
    /\ IF MaxTotal = 0 THEN total = NoTotal ELSE CallsAddUp

USE BudgetAssumption

LEMMA CapType == MaxRetries \in Nat
BY ProxyAssumption

\* A sequence is one over its own elements, also with one more at its end.
LEMMA OwnElements ==
    ASSUME NEW S, NEW q \in Seq(S), NEW x,
           NEW r, r = Append(q, x)
    PROVE  /\ r \in Seq({r[k] : k \in DOMAIN r})
           /\ Len(r) = Len(q) + 1
<1>1. /\ r \in Seq(S \cup {x}) /\ Len(r) = Len(q) + 1
      /\ DOMAIN r = 1 .. Len(q) + 1 /\ Len(r) \in Nat
  OBVIOUS
<1> DEFINE T == {r[k] : k \in DOMAIN r}
<1>2. \A k \in 1 .. Len(r) : r[k] \in T
  BY <1>1
<1>3. r \in Seq(T)
  <2> HIDE DEF T
  <2>1. r \in [1 .. Len(r) -> T]
    BY <1>1, <1>2, LenProperties
  <2>2. [1 .. Len(r) -> T] \in {[1 .. n -> T] : n \in Nat}
    BY <1>1
  <2>3. r \in UNION {[1 .. n -> T] : n \in Nat}
    BY <2>1, <2>2
  <2> QED BY <2>3, SeqDef
<1> QED BY <1>1, <1>3

\* Counting one of the statistics.
LEMMA CountRequest ==
    ASSUME NEW t \in Totals, NEW u, u = [t EXCEPT !.requests = @ + 1]
    PROVE  u \in Totals /\ u.requests = t.requests + 1 /\ u.retries = t.retries /\ u.failovers = t.failovers
BY DEF Totals

LEMMA CountRetry ==
    ASSUME NEW t \in Totals, NEW u, u = [t EXCEPT !.retries = @ + 1]
    PROVE  u \in Totals /\ u.retries = t.retries + 1 /\ u.requests = t.requests /\ u.failovers = t.failovers
BY DEF Totals

LEMMA CountFailover ==
    ASSUME NEW t \in Totals, NEW u, u = [t EXCEPT !.failovers = @ + 1]
    PROVE  u \in Totals /\ u.failovers = t.failovers + 1 /\ u.requests = t.requests /\ u.retries = t.retries
BY DEF Totals

\* What the actions find: counts that are natural numbers, and products too.
LEMMA AccountsTypes ==
    ASSUME Accounts
    PROVE  /\ total.requests \in Nat /\ total.retries \in Nat /\ total.failovers \in Nat
           /\ tokens \in 0 .. MaxMilli
           /\ Paid \in Nat /\ Income \in Nat
           /\ Busy => Len(call.tried) \in Nat
<1>1. total.requests \in Nat /\ total.retries \in Nat /\ total.failovers \in Nat
  BY DEF Accounts, Totals
<1>2. tokens \in 0 .. MaxMilli /\ (Busy => Len(call.tried) \in Nat)
  BY DEF Accounts, TokensAddUp, CallShape
<1> QED BY <1>1, <1>2, Product DEF Paid, Income

\* Without a bound on the requests no statistics are kept.
LEMMA NothingKept ==
    ASSUME MaxTotal = 0, CallShape', tokens' \in 0 .. MaxMilli, total' = NoTotal
    PROVE  Accounts'
<1>1. Paid' = 0 /\ Income' = 0 /\ total' \in Totals
  BY DEF NoTotal, Totals, Paid, Income
<1>2. Paid' + tokens' <= MaxMilli + Income'
  <2>1. PICK n \in 0 .. MaxMilli : tokens' = n
    OBVIOUS
  <2> QED BY <1>1, <2>1
<1>3. TokensAddUp'
  BY <1>2 DEF TokensAddUp
<1> QED BY <1>1, <1>3 DEF Accounts

\* What the statistics add up to when a request begins.
LEMMA BeginAccounts ==
    ASSUME Accounts, ~Busy, tokens' = Deposit(tokens), total' = Count("requests"),
           \/ call' = NoCall
           \/ call'.phase = "selecting" /\ call'.tried = <<>>
    PROVE  Accounts'
<1>1. CallShape'
  <2>1. CASE call' = NoCall
    BY <2>1 DEF CallShape, Busy, NoCall
  <2>2. CASE call'.phase = "selecting" /\ call'.tried = <<>>
    BY <2>2, CapType DEF CallShape
  <2> QED BY <2>1, <2>2
<1>2. tokens' \in 0 .. MaxMilli /\ tokens' <= tokens + DepositMilli
  BY AccountsTypes DEF Deposit, AtMost
<1>3. CASE MaxTotal = 0
  BY <1>1, <1>2, <1>3, NothingKept DEF Accounts, Count
<1>4. CASE MaxTotal # 0
  <2>1. /\ total' \in Totals /\ total'.requests = total.requests + 1
        /\ total'.retries = total.retries /\ total'.failovers = total.failovers
    <3>1. total' = [total EXCEPT !.requests = @ + 1] /\ total \in Totals
      BY <1>4 DEF Accounts, Count
    <3> QED BY <3>1, CountRequest
  <2>2. Income' = Income + DepositMilli /\ Paid' = Paid
    BY <2>1, AccountsTypes, Product DEF Income, Paid
  <2>3. TokensAddUp'
    <3>1. PICK t \in Nat, paid \in Nat, income \in Nat :
              t = tokens /\ paid = Paid /\ income = Income
      BY AccountsTypes, CapType
    <3>2. paid + t <= MaxMilli + income
      BY <3>1 DEF Accounts, TokensAddUp
    <3>3. PICK u \in 0 .. MaxMilli : u = tokens' /\ u <= t + DepositMilli
      BY <1>2, <3>1
    <3>4. paid + u <= MaxMilli + (income + DepositMilli)
      BY <3>1, <3>2, <3>3, CapType, BudgetAssumption
    <3> QED BY <2>2, <3>1, <3>3, <3>4 DEF TokensAddUp
  <2>4. /\ Answers = total.requests /\ OpenFailures = 0 /\ PendingRetry = 0
        /\ OpenFailures' = 0 /\ PendingRetry' = 0
        /\ Answers' \in {total.requests, total.requests + 1}
    <3>1. Answers = total.requests /\ OpenFailures = 0 /\ PendingRetry = 0
      BY DEF Answers, OpenFailures, PendingRetry
    <3>2. OpenFailures' = 0 /\ PendingRetry' = 0
      BY DEF OpenFailures, PendingRetry, Busy, NoCall
    <3>3. PICK n \in Nat : total.requests = n /\ total'.requests = n + 1
      BY <2>1, AccountsTypes
    <3>4. Answers' \in {n, n + 1}
      BY <3>3 DEF Answers
    <3> QED BY <3>1, <3>2, <3>3, <3>4
  <2>5. Allowed \in Nat /\ Allowed' \in {Allowed, Allowed + MaxRetries}
    BY <2>4, CapType, AccountsTypes, Product DEF Allowed
  <2>6. CallsAddUp
    BY <1>4 DEF Accounts
  <2>7. CallsAddUp'
    BY <2>1, <2>4, <2>5, <2>6, CapType, AccountsTypes, SMTT(60) DEF CallsAddUp
  <2> QED BY <1>1, <1>4, <2>1, <2>3, <2>7 DEF Accounts
<1> QED BY <1>3, <1>4

\* When handle() returns from its loop: the failures of the request become
\* those of an answered one.
LEMMA ReturnAccounts ==
    ASSUME Accounts, Busy, call' = NoCall, UNCHANGED <<tokens, total>>
    PROVE  Accounts'
<1>1. CallShape' /\ TokensAddUp' /\ total' \in Totals
  BY DEF Accounts, CallShape, Busy, NoCall, TokensAddUp, Paid, Income
<1>2. CASE MaxTotal = 0
  BY <1>1, <1>2 DEF Accounts, NoTotal
<1>3. CASE MaxTotal # 0
  <2>1. CallsAddUp
    BY <1>3 DEF Accounts
  <2>2. /\ Answers = total.requests - 1 /\ Answers \in Nat
        /\ OpenFailures <= MaxRetries /\ OpenFailures \in Nat
        /\ PendingRetry \in 0 .. 1
    BY <2>1, AccountsTypes
       DEF Accounts, CallsAddUp, CallShape, Answers, OpenFailures, PendingRetry
  <2>3. /\ Answers' = Answers + 1 /\ OpenFailures' = 0 /\ PendingRetry' = 0
        /\ total' = total
    BY <2>2, AccountsTypes DEF Answers, OpenFailures, PendingRetry, Busy, NoCall
  <2>4. Allowed \in Nat /\ Allowed' = Allowed + MaxRetries
    BY <2>2, <2>3, CapType, Product DEF Allowed
  <2>5. /\ total.retries <= Allowed'
        /\ total.failovers <= total.retries
        /\ total.retries - total.failovers <= Answers'
    <3>1. /\ total.retries <= Allowed + OpenFailures
          /\ total.failovers + PendingRetry <= total.retries
          /\ total.retries - total.failovers <= Answers + PendingRetry
      BY <2>1 DEF CallsAddUp
    <3>2. total.retries <= Allowed'
      BY <2>2, <2>4, <3>1, CapType, AccountsTypes
    <3>3. total.failovers <= total.retries
      BY <2>2, <3>1, AccountsTypes, SMTT(60)
    <3>4. total.retries - total.failovers <= Answers + 1
      <4>1. total.retries \in Nat /\ total.failovers \in Nat /\ Answers \in Nat
        BY <2>2, AccountsTypes
      <4>2. PendingRetry <= 1 /\ PendingRetry \in Nat
        BY <2>2
      <4> QED BY <3>1, <4>1, <4>2
    <3> QED BY <2>3, <3>2, <3>3, <3>4
  <2>6. Allowed' + OpenFailures' = Allowed' /\ total.failovers + PendingRetry' = total.failovers
        /\ Answers' + PendingRetry' = Answers' /\ Answers' \in Nat
    BY <2>2, <2>3, <2>4, CapType, AccountsTypes, SMTT(60)
  <2>7. CallsAddUp'
    BY <2>3, <2>5, <2>6 DEF CallsAddUp
  <2> QED BY <1>1, <1>3, <2>7 DEF Accounts
<1> QED BY <1>2, <1>3

\* Sending a retry uses up the one that was paid for.
LEMMA SendAccounts ==
    ASSUME Accounts, Send PROVE Accounts'
<1>1. /\ call.phase = "selecting" /\ Busy /\ Busy' /\ call'.phase = "sent"
      /\ call'.tried = call.tried /\ tokens' = tokens
      /\ total' = IF call.tried = <<>> THEN total ELSE Count("failovers")
  BY DEF Send, Busy
<1>2. CallShape' /\ (Len(call.tried) > 0 <=> call.tried # <<>>)
  BY <1>1 DEF Accounts, CallShape, Tried
<1>3. CASE MaxTotal = 0
  BY <1>1, <1>2, <1>3, NothingKept, AccountsTypes DEF Accounts, Count
<1>4. CASE MaxTotal # 0
  <2>1. PendingRetry = IF call.tried = <<>> THEN 0 ELSE 1
    BY <1>1, <1>2 DEF PendingRetry
  <2>2. /\ total' \in Totals
        /\ total'.requests = total.requests /\ total'.retries = total.retries
        /\ total'.failovers = total.failovers + PendingRetry
    <3>1. CASE call.tried = <<>>
      BY <1>1, <2>1, <3>1, AccountsTypes DEF Accounts
    <3>2. CASE call.tried # <<>>
      <4>1. total' = [total EXCEPT !.failovers = @ + 1] /\ PendingRetry = 1
        BY <1>1, <1>4, <2>1, <3>2 DEF Count
      <4>2. total \in Totals
        BY DEF Accounts
      <4> QED BY <4>1, <4>2, CountFailover, SMTT(60)
    <3> QED BY <3>1, <3>2
  <2>3. /\ Answers' = Answers /\ OpenFailures' = OpenFailures /\ PendingRetry' = 0
        /\ Paid' = Paid /\ Income' = Income /\ Allowed' = Allowed
    BY <1>1, <2>2 DEF Answers, OpenFailures, PendingRetry, Paid, Income, Allowed
  <2>4. TokensAddUp'
    BY <1>1, <2>3 DEF Accounts, TokensAddUp
  <2>5. CallsAddUp /\ Answers \in Nat /\ PendingRetry \in 0 .. 1
    BY <1>4, <2>1 DEF Accounts, CallsAddUp
  <2>6. CallsAddUp'
    BY <2>2, <2>3, <2>5, AccountsTypes DEF CallsAddUp
  <2> QED BY <1>2, <1>4, <2>2, <2>4, <2>6 DEF Accounts
<1> QED BY <1>3, <1>4

\* A failure pays for a retry, if the cap and the bucket allow one.
LEMMA FailAccounts ==
    ASSUME Accounts, Fail PROVE Accounts'
<1> DEFINE tried == Append(call.tried, call.idx)
<1>1. call.phase = "sent" /\ Busy
  BY DEF Fail, Busy
<1>2. CASE ~MayRetry(Len(tried))
  BY <1>1, <1>2, ReturnAccounts DEF Fail, Return
<1>3. CASE MayRetry(Len(tried))
  <2>1. /\ tokens' = tokens - RetryCostMilli /\ total' = Count("retries")
        /\ call'.phase = "selecting" /\ call'.tried = tried /\ Busy'
        /\ tokens >= RetryCostMilli /\ Len(tried) <= MaxRetries
    BY <1>3 DEF Fail, Busy, MayRetry, Affords, Spend
  <2>2. call'.tried \in Seq(Tried') /\ Len(call'.tried) = Len(call.tried) + 1
    BY <1>1, <2>1, OwnElements DEF Accounts, CallShape, Tried
  <2>3. CallShape' /\ tokens' \in 0 .. MaxMilli
    BY <2>1, <2>2, AccountsTypes DEF CallShape
  <2>4. CASE MaxTotal = 0
    BY <2>1, <2>3, <2>4, NothingKept DEF Accounts, Count
  <2>5. CASE MaxTotal # 0
    <3>1. /\ total' \in Totals
          /\ total'.requests = total.requests /\ total'.retries = total.retries + 1
          /\ total'.failovers = total.failovers
      <4>1. total' = [total EXCEPT !.retries = @ + 1] /\ total \in Totals
        BY <2>1, <2>5 DEF Accounts, Count
      <4> QED BY <4>1, CountRetry
    <3>2. Paid' = Paid + RetryCostMilli /\ Income' = Income
      BY <3>1, AccountsTypes, Product DEF Paid, Income
    <3>3. TokensAddUp'
      BY <2>1, <2>3, <3>1, <3>2, AccountsTypes DEF Accounts, TokensAddUp
    <3>4. /\ Answers' = Answers /\ OpenFailures' = OpenFailures + 1
          /\ PendingRetry = 0 /\ PendingRetry' = 1 /\ OpenFailures \in Nat
          /\ Allowed' = Allowed
      <4>1. OpenFailures' = OpenFailures + 1 /\ OpenFailures \in Nat
        BY <1>1, <2>1, <2>2, AccountsTypes DEF OpenFailures
      <4>2. Answers' = Answers
        BY <1>1, <2>1, <3>1 DEF Answers
      <4>3. Allowed' = Allowed
        BY <4>2 DEF Allowed
      <4>4. PendingRetry = 0 /\ PendingRetry' = 1
        BY <1>1, <2>1, <2>2, AccountsTypes DEF PendingRetry
      <4> QED BY <4>1, <4>2, <4>3, <4>4
    <3>5. CallsAddUp /\ Answers \in Nat /\ Allowed \in Nat
      BY <2>5, CapType, Product DEF Accounts, CallsAddUp, Allowed
    <3>6. CallsAddUp'
      BY <3>1, <3>4, <3>5, AccountsTypes DEF CallsAddUp
    <3> QED BY <2>3, <2>5, <3>1, <3>3, <3>6 DEF Accounts
  <2> QED BY <2>4, <2>5
<1> QED BY <1>2, <1>3

\* The full bucket and no statistics.
LEMMA AccountsInit ==
    ASSUME tokens = MaxMilli, ~Busy, total = NoTotal PROVE Accounts
<1>1. /\ total.requests = 0 /\ total.retries = 0 /\ total.failovers = 0
      /\ total \in Totals
  BY DEF NoTotal, Totals
<1>2. /\ Paid = 0 /\ Income = 0 /\ Allowed = 0
      /\ Answers = 0 /\ OpenFailures = 0 /\ PendingRetry = 0
  BY <1>1, CapType DEF Paid, Income, Allowed, Answers, OpenFailures, PendingRetry
<1> QED BY <1>1, <1>2 DEF Accounts, CallShape, TokensAddUp, CallsAddUp

\* Every action keeps the accounts.
LEMMA AccountsStep ==
    ASSUME Accounts, [Next]_vars PROVE Accounts'
<1>1. CASE UNCHANGED <<tokens, total, call>>
  BY <1>1 DEF Accounts, CallShape, TokensAddUp, CallsAddUp, Answers, OpenFailures,
              PendingRetry, Busy, Tried, Paid, Income, Allowed
<1>2. CASE StartRequest
  <2>1. /\ ~Busy /\ tokens' = Deposit(tokens) /\ total' = Count("requests")
        /\ \/ call' = NoCall
           \/ call'.phase = "selecting" /\ call'.tried = <<>>
    BY <1>2 DEF StartRequest, Return
  <2> QED BY <2>1, BeginAccounts
<1>3. CASE Handle
  <2>1. CASE Send
    BY <2>1, SendAccounts
  <2>2. CASE GiveUp \/ Succeed
    <3>1. Busy /\ call' = NoCall /\ UNCHANGED <<tokens, total>>
      BY <2>2 DEF GiveUp, Succeed, SucceedAfter, Return, Busy
    <3> QED BY <3>1, ReturnAccounts
  <2>3. CASE Fail
    BY <2>3, FailAccounts
  <2> QED BY <1>3, <2>1, <2>2, <2>3 DEF Handle
<1>4. CASE Advance \/ Jump \/ EndIncident \/ CheckHealth \/ AddPool \/ Restrategize
  BY <1>1, <1>4 DEF Advance, Jump, EndIncident, CheckHealth, CheckHealthBut, AddPool,
                    Restrategize
<1>5. CASE UNCHANGED vars
  BY <1>1, <1>5 DEF vars
<1> QED BY <1>2, <1>3, <1>4, <1>5 DEF Next

(***************************************************************************)
(* Retries are paid for: in every state their cost is covered by the full  *)
(* bucket and the deposits, no request had more than MaxRetries, and every *)
(* failover was paid for (proxy.rs handle, retry.rs).                      *)
(***************************************************************************)
THEOREM RetriesArePaidFor == Spec => []RetriesPaidFor
<1>1. Init => Accounts
  BY AccountsInit DEF Init, FullBucket, NoTotal, NoCall, Busy
<1>2. Accounts => RetriesPaidFor
  <2> SUFFICES ASSUME Accounts PROVE RetriesPaidFor
    OBVIOUS
  <2>1. Paid + tokens <= MaxMilli + Income
    BY DEF Accounts, TokensAddUp
  <2>2. /\ total.retries <= MaxRetries * total.requests
        /\ total.failovers <= total.retries
        /\ total.retries - total.failovers <= total.requests
    <3>1. CASE MaxTotal = 0
      <4>1. total.requests = 0 /\ total.retries = 0 /\ total.failovers = 0
        BY <3>1 DEF Accounts, NoTotal
      <4> QED BY <4>1, CapType
    <3>2. CASE MaxTotal # 0 /\ Busy
      <4>1. /\ total.requests = Answers + 1 /\ Answers \in Nat
            /\ OpenFailures <= MaxRetries /\ OpenFailures \in Nat
            /\ PendingRetry \in 0 .. 1 /\ CallsAddUp
        BY <3>2, AccountsTypes
           DEF Accounts, CallsAddUp, CallShape, Answers, OpenFailures, PendingRetry
      <4>2. MaxRetries * total.requests = Allowed + MaxRetries /\ Allowed \in Nat
        BY <4>1, CapType, Product DEF Allowed
      <4> QED BY <4>1, <4>2, CapType, AccountsTypes, SMTT(60) DEF CallsAddUp
    <3>3. CASE MaxTotal # 0 /\ ~Busy
      <4>1. /\ total.requests = Answers /\ Allowed = MaxRetries * total.requests
            /\ OpenFailures = 0 /\ PendingRetry = 0 /\ CallsAddUp
        BY <3>3 DEF Accounts, Answers, OpenFailures, PendingRetry, Allowed
      <4>2. Allowed \in Nat
        BY <4>1, CapType, AccountsTypes, Product
      <4>3. total.retries <= Allowed
        BY <4>1, <4>2, AccountsTypes DEF CallsAddUp
      <4> QED BY <4>1, <4>3, AccountsTypes DEF CallsAddUp
    <3> QED BY <3>1, <3>2, <3>3
  <2> QED BY <2>1, <2>2 DEF RetriesPaidFor, Paid, Income
<1> QED BY <1>1, <1>2, AccountsStep, PTL DEF Spec

-----------------------------------------------------------------------------
\* The pool of a service is well formed, has that service's backends, and its
\* cached ring is fresh.
IsPoolOf(s, p) ==
    p \in PoolType /\ Indices(p) = DOMAIN PoolWeights[s] /\ RingFresh(p)

\* In the pool p of service s only the call c is in flight, if it was sent.
OnlyInFlight(c, s, p) ==
    \A i \in DOMAIN PoolWeights[s] :
        p.backends[i].in_flight =
            (IF c.phase = "sent" /\ s = c.service /\ i = c.idx THEN 1 ELSE 0)

PoolsOK ==
    /\ pools \in [Services -> PoolType]
    /\ \A s \in Services : IsPoolOf(s, pools[s]) /\ OnlyInFlight(call, s, pools[s])

\* The open request belongs to a service and has tried different backends of
\* it; the one it is sent to is another one.
CallOK ==
    Busy => /\ Target \in Services /\ call.key \in Keys \cup {NoKey}
            /\ call.now \in Millis
            /\ Tried \subseteq DOMAIN PoolWeights[Target]
            /\ Cardinality(Tried) = Len(call.tried)
            /\ call.phase = "sent" => call.idx \in DOMAIN PoolWeights[Target] \ Tried

ResultOK ==
    /\ result \in [kind : {"none", "Ok"} \cup Failures, attempts : 0 .. MaxRetries + 1]
    /\ total.requests <= MaxTotal

ProxyInv ==
    /\ Accounts
    /\ now \in Millis /\ incident \in BOOLEAN
    /\ PoolsOK /\ CallOK /\ ResultOK

\* One pool replaced.
LEMMA PoolReplaced ==
    ASSUME PoolsOK, NEW s \in Services, NEW q, IsPoolOf(s, q), OnlyInFlight(call', s, q),
           \A r \in Services \ {s} : OnlyInFlight(call', r, pools[r]),
           pools' = [pools EXCEPT ![s] = q]
    PROVE  PoolsOK'
<1>1. q \in PoolType
  BY DEF IsPoolOf
<1>2. pools' \in [Services -> PoolType] /\ pools'[s] = q
      /\ \A r \in Services \ {s} : pools'[r] = pools[r]
  BY <1>1 DEF PoolsOK
<1>3. ASSUME NEW r \in Services
      PROVE  IsPoolOf(r, pools'[r]) /\ OnlyInFlight(call', r, pools'[r])
  <2>1. CASE r = s
    BY <1>2, <2>1
  <2>2. CASE r # s
    BY <1>2, <2>2 DEF PoolsOK
  <2> QED BY <2>1, <2>2
<1> QED BY <1>2, <1>3 DEF PoolsOK, IsPoolOf, OnlyInFlight

\* The pools of a proxy when it starts a request, or between requests: nothing
\* is in flight.
LEMMA NothingInFlight ==
    ASSUME PoolsOK, call.phase # "sent", NEW c, c.phase # "sent", NEW s \in Services
    PROVE  OnlyInFlight(c, s, pools[s])
BY DEF PoolsOK, OnlyInFlight

LEMMA ServiceFacts ==
    ASSUME NEW s \in Services
    PROVE  /\ PoolWeights[s] \in Seq(Nat) /\ DOMAIN PoolWeights[s] \subseteq DOMAIN PointsOf
           /\ Len(PoolWeights[s]) \in Nat
           /\ DOMAIN PoolWeights[s] = 1 .. Len(PoolWeights[s])
           /\ \A i \in DOMAIN PoolWeights[s] : PoolWeights[s][i] \in Nat
BY ProxyAssumption

\* A new pool (pool.rs new, add_backend).
LEMMA NewServiceOK ==
    ASSUME NEW s \in Services, NEW strategy \in Strategies,
           NEW q, q = NewService(s, strategy), NEW c, c.phase # "sent"
    PROVE  IsPoolOf(s, q) /\ OnlyInFlight(c, s, q)
<1>1. PICK n \in Nat : n = Len(PoolWeights[s]) /\ DOMAIN PoolWeights[s] = 1 .. n
  BY ServiceFacts
<1>2. PICK f : f = [i \in DOMAIN PoolWeights[s] |-> NewBackend(PoolWeights[s][i])]
  OBVIOUS
<1>3. f \in [1 .. n -> BackendType]
  BY <1>1, <1>2, ServiceFacts, NewBackendType
<1>4. f \in Seq(BackendType) /\ DOMAIN f = 1 .. n
  BY <1>3
<1>5. \A i \in 1 .. n : f[i].in_flight = 0
  BY <1>1, <1>2 DEF NewBackend
<1>6. q = [backends |-> f, strategy |-> strategy, rr_cursor |-> 0, ring |-> {},
           ring_signature |-> {}, ewma |-> FALSE]
  BY <1>2 DEF NewService, NewPool
<1>7. q \in PoolType
  BY <1>4, <1>6, CursorAssumption, StrategiesAssumption DEF PoolType
<1>8. q.backends = f /\ RingFresh(q)
  BY <1>6 DEF RingFresh
<1> QED BY <1>1, <1>4, <1>5, <1>7, <1>8 DEF IsPoolOf, OnlyInFlight, Indices

\* What keeps the shape and the calls in flight keeps the pool well formed.
LEMMA SameFlight ==
    ASSUME NEW s \in Services, NEW p, IsPoolOf(s, p), NEW q \in PoolType, SameShape(p, q),
           NEW c, OnlyInFlight(c, s, p),
           \A i \in Indices(p) : q.backends[i].in_flight = p.backends[i].in_flight
    PROVE  IsPoolOf(s, q) /\ OnlyInFlight(c, s, q)
BY DEF IsPoolOf, OnlyInFlight, SameShape, RingFresh

-----------------------------------------------------------------------------
LEMMA InvFacts ==
    ASSUME ProxyInv
    PROVE  /\ PoolsOK /\ CallOK /\ ResultOK /\ now \in Millis /\ CallShape
           /\ ~Busy => call.phase = "idle"
           /\ Busy => /\ pools[Target] \in PoolType
                      /\ IsPoolOf(Target, pools[Target])
                      /\ OnlyInFlight(call, Target, pools[Target])
BY DEF ProxyInv, Accounts, CallOK, PoolsOK, Busy

\* The start of a request (proxy.rs handle up to its loop).
LEMMA StartPools ==
    ASSUME ProxyInv, StartRequest
    PROVE  PoolsOK' /\ CallOK' /\ ResultOK'
<1>0. PoolsOK /\ ResultOK /\ call.phase = "idle" /\ now \in Millis /\ ~Busy
  BY InvFacts DEF StartRequest
<1>1. total'.requests <= MaxTotal
  <2>1. CASE MaxTotal = 0
    BY <1>0, <2>1 DEF StartRequest, Count, ResultOK
  <2>2. CASE MaxTotal # 0
    <3>1. total \in Totals /\ total' = [total EXCEPT !.requests = @ + 1]
      BY <2>2 DEF ProxyInv, Accounts, StartRequest, Count
    <3>2. total'.requests = total.requests + 1 /\ total.requests \in Nat
      BY <3>1, CountRequest DEF Totals
    <3>3. total.requests < MaxTotal
      BY <2>2 DEF StartRequest
    <3> QED BY <3>2, <3>3, ProxyAssumption
  <2> QED BY <2>1, <2>2
<1>2. PICK service, r :
          /\ r \in Requests /\ service = RouteFor(RouteTable, r)
          /\ IF service \notin Services
             THEN Return("NoRoute", 0) /\ UNCHANGED pools
             ELSE /\ call' = [phase |-> "selecting", service |-> service,
                              key |-> StickyKey(r), now |-> now, tried |-> <<>>]
                  /\ pools' = [pools EXCEPT ![service] = PoolPoll(@, now)]
                  /\ result' = NoResult
  BY DEF StartRequest
<1>z. 0 \in 0 .. MaxRetries + 1
  BY CapType
<1>3. CASE service \notin Services
  <2>1. call' = NoCall /\ result' = [kind |-> "NoRoute", attempts |-> 0] /\ pools' = pools
    BY <1>2, <1>3 DEF Return
  <2>2. ~Busy' /\ call'.phase # "sent"
    BY <2>1 DEF Busy, NoCall
  <2>3. PoolsOK'
    BY <1>0, <2>1, <2>2, NothingInFlight DEF PoolsOK
  <2> QED BY <1>1, <1>z, <2>1, <2>2, <2>3 DEF CallOK, ResultOK, Failures
<1>4. CASE service \in Services
  <2>1. PICK p \in PoolType : p = pools[service]
    BY <1>0, <1>4 DEF PoolsOK
  <2>2. PICK q : q = PoolPoll(p, now)
    OBVIOUS
  <2>3. IsPoolOf(service, p) /\ OnlyInFlight(call', service, p)
    <3>1. call'.phase # "sent"
      BY <1>2, <1>4
    <3> QED BY <1>0, <1>4, <2>1, <3>1, NothingInFlight DEF PoolsOK
  <2>4. q \in PoolType /\ SameShape(p, q)
        /\ \A i \in Indices(p) : q.backends[i].in_flight = p.backends[i].in_flight
    BY <1>0, <2>2, PolledPool DEF SameStanding
  <2>5. IsPoolOf(service, q) /\ OnlyInFlight(call', service, q)
    BY <1>4, <2>3, <2>4, SameFlight
  <2>6. PoolsOK'
    <3>1. call'.phase # "sent"
      BY <1>2, <1>4
    <3>2. \A s \in Services \ {service} : OnlyInFlight(call', s, pools[s])
      BY <1>0, <3>1, NothingInFlight
    <3>3. pools' = [pools EXCEPT ![service] = q]
      BY <1>0, <1>2, <1>4, <2>1, <2>2 DEF PoolsOK
    <3> QED BY <1>0, <1>4, <2>5, <3>2, <3>3, PoolReplaced
  <2>7. CallOK'
    <3>1. /\ call'.service = service /\ call'.key = StickyKey(r) /\ call'.now = now
          /\ call'.tried = <<>> /\ call'.phase = "selecting"
      BY <1>2, <1>4
    <3>2. Tried' = {} /\ Cardinality({}) = 0 /\ Len(<<>>) = 0
      BY <3>1, FS_EmptySet DEF Tried
    <3>3. StickyKey(r) \in Keys \cup {NoKey}
      BY <1>2, ProxyAssumption
    <3> QED BY <1>0, <1>4, <3>1, <3>2, <3>3 DEF CallOK, Target
  <2>8. ResultOK'
    BY <1>1, <1>2, <1>4, <1>z DEF ResultOK, NoResult
  <2> QED BY <2>6, <2>7, <2>8
<1> QED BY <1>3, <1>4

\* The selection of the open request: an eligible backend of its service that
\* it has not tried, and the calls in flight as they were.
LEMMA SelectionOK ==
    ASSUME ProxyInv, call.phase = "selecting", NEW p, p = pools[Target],
           NEW S, S = Available(p, call.now, Tried), NEW r, r = Selection
    PROVE  /\ IsPoolOf(Target, r.pool)
           /\ \A c : c.phase # "sent" => OnlyInFlight(c, Target, r.pool)
           /\ Rebalanced(p, r.pool)
           /\ r.idx # None => /\ r.idx \in DOMAIN PoolWeights[Target] \ Tried
                              /\ r.idx \in Indices(r.pool)
           /\ r.idx = None => Eligible(p, S) = {}
<1>0. /\ p \in PoolType /\ IsPoolOf(Target, p) /\ OnlyInFlight(call, Target, p)
      /\ Target \in Services /\ call.key \in Keys \cup {NoKey}
  BY InvFacts DEF CallOK, Busy
<1>1. RingFresh(p) /\ Indices(p) = DOMAIN PoolWeights[Target]
      /\ Indices(p) \subseteq DOMAIN PointsOf
  BY <1>0, ServiceFacts DEF IsPoolOf
<1>2. PICK T : T = Tried
  OBVIOUS
<1>3. PICK key \in Keys \cup {NoKey} : key = call.key
  BY <1>0
<1>t. PICK t : t = call.now
  OBVIOUS
<1>4. r = Select(p, t, key, T) /\ S = Available(p, t, T)
  BY <1>2, <1>3, <1>t DEF Selection
<1>5. /\ Rebalanced(p, r.pool)
      /\ IF Eligible(p, S) = {} THEN r.idx = None ELSE r.idx \in Eligible(p, S)
  BY <1>0, <1>1, <1>4, SelectChooses
<1>6. IsPoolOf(Target, r.pool)
  BY <1>1, <1>5 DEF Rebalanced, IsPoolOf
<1>7. ASSUME NEW c, c.phase # "sent"
      PROVE  OnlyInFlight(c, Target, r.pool)
  <2>1. ASSUME NEW i \in DOMAIN PoolWeights[Target]
        PROVE  r.pool.backends[i].in_flight = 0
    <3>1. PICK b \in BackendType : b = p.backends[i]
      BY <1>0, <1>1, IndicesAre
    <3>2. PICK w \in Int : r.pool.backends[i] = [b EXCEPT !.current_weight = w]
      BY <1>1, <1>5, <3>1 DEF Rebalanced
    <3>3. b.in_flight = 0
      BY <1>0, <3>1 DEF OnlyInFlight
    <3> QED BY <3>2, <3>3 DEF BackendType
  <2> QED BY <1>7, <2>1 DEF OnlyInFlight
<1>8. S \in SUBSET Indices(p) /\ \A i \in S : i \notin T
  BY <1>0, <1>4, AvailableAre
<1>9. r.idx # None => r.idx \in DOMAIN PoolWeights[Target] \ Tried
                      /\ r.idx \in Indices(r.pool)
  BY <1>1, <1>2, <1>5, <1>8 DEF Eligible, Rebalanced
<1>10. r.idx = None => Eligible(p, S) = {}
  <2>1. \A i \in Indices(p) : i # None
    <3>1. Indices(p) \in SUBSET Nat
      BY <1>0, IndicesAre
    <3> QED BY <3>1 DEF None
  <2>2. Eligible(p, S) \in SUBSET Indices(p)
    BY <1>8 DEF Eligible
  <2> QED BY <1>5, <2>1, <2>2
<1> QED BY <1>5, <1>6, <1>7, <1>9, <1>10

\* The dispatch: one call more in flight (proxy.rs handle, the head of the loop).
LEMMA SendPools ==
    ASSUME ProxyInv, Send
    PROVE  PoolsOK' /\ CallOK' /\ ResultOK'
<1>0. /\ call.phase = "selecting" /\ Busy /\ PoolsOK /\ CallOK /\ ResultOK
      /\ Target \in Services
  BY InvFacts DEF Send, Busy, CallOK
<1>1. PICK r : r = Selection
  OBVIOUS
<1>2. PICK p : p = r.pool
  OBVIOUS
<1>3. PICK i : i = r.idx
  OBVIOUS
<1>4. /\ i # None /\ pools' = [pools EXCEPT ![Target] = Begin(p, i)]
      /\ call' = [phase |-> "sent", service |-> Target, key |-> call.key,
                  now |-> call.now, tried |-> call.tried, idx |-> i]
      /\ result' = result
  BY <1>1, <1>2, <1>3 DEF Send
<1>5. /\ IsPoolOf(Target, p) /\ i \in Indices(p)
      /\ i \in DOMAIN PoolWeights[Target] \ Tried
      /\ \A c : c.phase # "sent" => OnlyInFlight(c, Target, p)
  <2>1. PICK S : S = Available(pools[Target], call.now, Tried)
    OBVIOUS
  <2> QED BY <1>0, <1>1, <1>2, <1>3, <1>4, <2>1, SelectionOK
<1>6. PICK q : q = Begin(p, i)
  OBVIOUS
<1>7. p \in PoolType
  BY <1>5 DEF IsPoolOf
<1>8. Recounted(p, i, p.backends[i].in_flight + 1, q)
  BY <1>5, <1>6, <1>7, BegunCall
<1>9. \A j \in Indices(p) : p.backends[j].in_flight = 0
  <2>1. OnlyInFlight(call, Target, p)
    BY <1>0, <1>5
  <2> QED BY <1>0, <1>5, <2>1 DEF OnlyInFlight, IsPoolOf
<1>10. IsPoolOf(Target, q)
  BY <1>5, <1>8 DEF Recounted, IsPoolOf, SameShape, RingFresh
<1>11. call'.phase = "sent" /\ call'.service = Target /\ call'.idx = i
       /\ call'.tried = call.tried /\ call'.key = call.key /\ call'.now = call.now
  BY <1>4
<1>12. OnlyInFlight(call', Target, q)
  <2>1. q.backends[i].in_flight = 1
    BY <1>5, <1>8, <1>9 DEF Recounted
  <2>2. \A j \in DOMAIN PoolWeights[Target] \ {i} : q.backends[j].in_flight = 0
    BY <1>5, <1>8, <1>9 DEF Recounted, IsPoolOf
  <2> QED BY <1>11, <2>1, <2>2 DEF OnlyInFlight
<1>13. \A s \in Services \ {Target} : OnlyInFlight(call', s, pools[s])
  BY <1>0, <1>11 DEF PoolsOK, OnlyInFlight
<1>14. PoolsOK'
  <2>1. PICK g \in Services : g = Target
    BY <1>0
  <2>2. pools' = [pools EXCEPT ![g] = q]
    BY <1>4, <1>6, <2>1
  <2> QED BY <1>0, <1>10, <1>12, <1>13, <2>1, <2>2, PoolReplaced
<1>15. CallOK'
  <2>1. Tried' = Tried
    BY <1>11 DEF Tried
  <2> QED BY <1>0, <1>5, <1>11, <2>1 DEF CallOK, Target
<1>16. ResultOK'
  <2>1. total'.requests = total.requests
    <3>1. total \in Totals
      BY DEF ProxyInv, Accounts
    <3>2. total' = total \/ total' = [total EXCEPT !.failovers = @ + 1]
      BY DEF Send, Count
    <3> QED BY <3>1, <3>2 DEF Totals
  <2> QED BY <1>0, <1>4, <2>1 DEF ResultOK
<1> QED BY <1>14, <1>15, <1>16

\* No backend is left: handle() returns (proxy.rs handle).
LEMMA GiveUpPools ==
    ASSUME ProxyInv, GiveUp
    PROVE  PoolsOK' /\ CallOK' /\ ResultOK'
<1>0. /\ call.phase = "selecting" /\ Busy /\ PoolsOK /\ CallOK /\ ResultOK
      /\ CallShape /\ Target \in Services
  BY InvFacts DEF GiveUp, Busy, CallOK
<1>1. PICK r : r = Selection
  OBVIOUS
<1>2. PICK q : q = r.pool
  OBVIOUS
<1>3. /\ pools' = [pools EXCEPT ![Target] = q] /\ call' = NoCall
      /\ call'.phase # "sent" /\ ~Busy' /\ total' = total
      /\ \E k \in Failures : result' = [kind |-> k, attempts |-> Len(call.tried)]
  BY <1>1, <1>2 DEF GiveUp, Return, NoCall, Busy, Failures
<1>4. IsPoolOf(Target, q) /\ OnlyInFlight(call', Target, q)
  <2>1. PICK S : S = Available(pools[Target], call.now, Tried)
    OBVIOUS
  <2>2. PICK c : c = call'
    OBVIOUS
  <2> QED BY <1>0, <1>1, <1>2, <1>3, <2>1, <2>2, SelectionOK
<1>5. \A s \in Services \ {Target} : OnlyInFlight(call', s, pools[s])
  BY <1>0, <1>3, NothingInFlight
<1>6. PoolsOK'
  <2>1. PICK g \in Services : g = Target
    BY <1>0
  <2>2. pools' = [pools EXCEPT ![g] = q]
    BY <1>3, <2>1
  <2> QED BY <1>0, <1>4, <1>5, <2>1, <2>2, PoolReplaced
<1>7. CallOK'
  BY <1>3 DEF CallOK
<1>8. ResultOK'
  <2>1. Len(call.tried) \in 0 .. MaxRetries + 1
    BY <1>0, CapType DEF CallShape
  <2> QED BY <1>0, <1>3, <2>1 DEF ResultOK
<1> QED BY <1>6, <1>7, <1>8

\* The answer of the backend the call was sent to: the count is given back
\* and the outcome recorded with the time the request read (proxy.rs handle).
LEMMA AnswerPools ==
    ASSUME ProxyInv, call.phase = "sent", call'.phase # "sent", NEW l \in Nat,
           \/ pools' = [pools EXCEPT ![Target] =
                           PoolRecordSuccess(End(@, call.idx), call.idx, call.now, l)]
           \/ pools' = [pools EXCEPT ![Target] =
                           PoolRecordFailure(End(@, call.idx), call.idx, call.now)]
    PROVE  PoolsOK'
<1>0. /\ Busy /\ PoolsOK /\ CallOK /\ Target \in Services /\ call.now \in Millis
      /\ IsPoolOf(Target, pools[Target]) /\ pools[Target] \in PoolType
      /\ OnlyInFlight(call, Target, pools[Target])
      /\ call.idx \in DOMAIN PoolWeights[Target]
  BY InvFacts DEF Busy, CallOK
<1>1. PICK p \in PoolType : p = pools[Target]
  BY <1>0
<1>2. PICK i \in Indices(p) : i = call.idx
  BY <1>0, <1>1 DEF IsPoolOf
<1>3. PICK q : q = End(p, i)
  OBVIOUS
<1>t. PICK t \in Millis : t = call.now
  BY <1>0
<1>4. PICK z : z = pools'[Target]
  OBVIOUS
<1>5. /\ pools' = [pools EXCEPT ![Target] = z]
      /\ z = PoolRecordSuccess(q, i, t, l) \/ z = PoolRecordFailure(q, i, t)
  <2>1. DOMAIN pools = Services
    BY <1>0 DEF PoolsOK
  <2> QED BY <1>0, <1>1, <1>2, <1>3, <1>t, <1>4, <2>1
<1>6. Recounted(p, i, SatSub(p.backends[i].in_flight, 1), q)
  BY <1>3, EndedCall
<1>7. /\ p.backends[i].in_flight = 1 /\ Indices(p) = DOMAIN PoolWeights[Target]
      /\ \A j \in Indices(p) \ {i} : p.backends[j].in_flight = 0
  <2>1. Indices(p) = DOMAIN PoolWeights[Target]
    BY <1>0, <1>1 DEF IsPoolOf
  <2>2. \A j \in DOMAIN PoolWeights[Target] :
            p.backends[j].in_flight = (IF j = i THEN 1 ELSE 0)
    BY <1>0, <1>1, <1>2 DEF OnlyInFlight, Target
  <2> QED BY <1>2, <2>1, <2>2
<1>8. q \in PoolType /\ SameShape(p, q) /\ i \in Indices(q)
      /\ q.backends[i].in_flight = 0
      /\ \A j \in Indices(p) \ {i} : q.backends[j] = p.backends[j]
  <2>1. SatSub(1, 1) = 0
    BY DEF SatSub
  <2> QED BY <1>6, <1>7, <2>1 DEF Recounted, SameShape
<1>9. /\ z \in PoolType /\ SameShape(q, z)
      /\ SameStanding(q.backends[i], z.backends[i])
      /\ \A j \in Indices(q) \ {i} : z.backends[j] = q.backends[j]
  BY <1>5, <1>8, RecordedOutcome
<1>10. IsPoolOf(Target, z)
  BY <1>0, <1>1, <1>8, <1>9 DEF IsPoolOf, SameShape, RingFresh
<1>11. \A j \in Indices(p) : z.backends[j].in_flight = 0
  BY <1>7, <1>8, <1>9 DEF SameStanding, SameShape
<1>12. OnlyInFlight(call', Target, z)
  BY <1>7, <1>11 DEF OnlyInFlight
<1>13. \A s \in Services \ {Target} : OnlyInFlight(call', s, pools[s])
  BY <1>0 DEF PoolsOK, OnlyInFlight, Target
<1> QED
  <2>1. PICK g \in Services : g = Target
    BY <1>0
  <2>2. pools' = [pools EXCEPT ![g] = z]
    BY <1>5, <2>1
  <2> QED BY <1>0, <1>10, <1>12, <1>13, <2>1, <2>2, PoolReplaced

LEMMA SucceedPools ==
    ASSUME ProxyInv, Succeed
    PROVE  PoolsOK' /\ CallOK' /\ ResultOK'
<1>1. PICK l \in Nat : SucceedAfter(l)
  BY ProxyAssumption DEF Succeed
<1>2. /\ call.phase = "sent" /\ call' = NoCall /\ total' = total
      /\ result' = [kind |-> "Ok", attempts |-> Len(call.tried) + 1]
      /\ call'.phase # "sent" /\ ~Busy'
  BY <1>1 DEF SucceedAfter, Return, NoCall, Busy
<1>3. PoolsOK'
  BY <1>1, <1>2, AnswerPools DEF SucceedAfter
<1>4. Len(call.tried) \in Nat /\ Len(call.tried) <= MaxRetries /\ ResultOK
  BY <1>2, InvFacts DEF CallShape, Busy
<1>5. ResultOK'
  <2>1. Len(call.tried) + 1 \in 0 .. MaxRetries + 1
    BY <1>4, CapType
  <2> QED BY <1>2, <1>4, <2>1 DEF ResultOK
<1> QED BY <1>2, <1>3, <1>5 DEF CallOK

\* The backend that failed is added to the vector tried.
LEMMA TriedGrows ==
    ASSUME Busy, CallShape, NEW x, NEW q, q = Append(call.tried, x), call'.tried = q
    PROVE  Tried' = Tried \cup {x}
<1>1. PICK t \in Seq(Tried) : t = call.tried
  BY DEF CallShape
<1>2. /\ DOMAIN q = DOMAIN t \cup {Len(t) + 1} /\ q[Len(t) + 1] = x
      /\ \A k \in DOMAIN t : q[k] = t[k]
  BY <1>1
<1>3. {q[k] : k \in DOMAIN q} = {t[k] : k \in DOMAIN t} \cup {x}
  BY <1>2
<1> QED BY <1>1, <1>3 DEF Tried

LEMMA FailPools ==
    ASSUME ProxyInv, Fail
    PROVE  PoolsOK' /\ CallOK' /\ ResultOK'
<1>0. /\ call.phase = "sent" /\ Busy /\ CallOK /\ ResultOK /\ CallShape
      /\ PoolsOK /\ Target \in Services
  BY InvFacts DEF Fail, Busy, CallOK
<1>1. PICK q : q = Append(call.tried, call.idx)
  OBVIOUS
<1>2. Len(q) = Len(call.tried) + 1 /\ Len(call.tried) \in Nat
      /\ Len(call.tried) <= MaxRetries
  BY <1>0, <1>1 DEF CallShape
<1>z. PICK zero \in Nat : zero = 0
  OBVIOUS
<1>3. CASE ~MayRetry(Len(q))
  <2>1. /\ call' = NoCall /\ total' = total
        /\ result' = [kind |-> "AllAttemptsFailed", attempts |-> Len(q)]
        /\ call'.phase # "sent" /\ ~Busy'
    BY <1>1, <1>3 DEF Fail, Return, NoCall, Busy
  <2>2. PoolsOK'
    BY <1>0, <1>z, <2>1, AnswerPools DEF Fail
  <2>3. ResultOK'
    <3>1. Len(q) \in 0 .. MaxRetries + 1
      BY <1>2, CapType
    <3> QED BY <1>0, <2>1, <3>1 DEF ResultOK, Failures
  <2> QED BY <2>1, <2>2, <2>3 DEF CallOK
<1>4. CASE MayRetry(Len(q))
  <2>1. /\ call' = [phase |-> "selecting", service |-> Target, key |-> call.key,
                    now |-> call.now, tried |-> q]
        /\ result' = result /\ total' = Count("retries")
    BY <1>1, <1>4 DEF Fail
  <2>2. /\ call'.phase = "selecting" /\ call'.service = Target /\ call'.key = call.key
        /\ call'.now = call.now /\ call'.tried = q
    BY <2>1
  <2>3. PoolsOK'
    BY <1>0, <1>z, <2>2, AnswerPools DEF Fail
  <2>4. Tried' = Tried \cup {call.idx}
    BY <1>0, <1>1, <2>2, TriedGrows
  <2>5. Cardinality(Tried') = Len(q)
    <3>1. IsFiniteSet(Tried)
      <4>1. IsFiniteSet(DOMAIN PoolWeights[Target])
        <5>1. PICK n \in Nat : DOMAIN PoolWeights[Target] = 1 .. n
          BY <1>0, ServiceFacts
        <5> QED BY <5>1, FS_Interval
      <4>2. Tried \subseteq DOMAIN PoolWeights[Target]
        BY <1>0 DEF CallOK
      <4> QED BY <4>1, <4>2, FS_Subset
    <3>2. call.idx \notin Tried /\ Cardinality(Tried) = Len(call.tried)
      BY <1>0 DEF CallOK
    <3>3. Cardinality(Tried \cup {call.idx}) = Cardinality(Tried) + 1
      <4>1. PICK T : T = Tried
        OBVIOUS
      <4> QED BY <3>1, <3>2, <4>1, FS_AddElement
    <3> QED BY <1>2, <2>4, <3>2, <3>3
  <2>6. CallOK'
    <3>1. Tried' \subseteq DOMAIN PoolWeights[Target]
      BY <1>0, <2>4 DEF CallOK
    <3> QED BY <1>0, <2>2, <2>5, <3>1 DEF CallOK, Target
  <2>7. ResultOK'
    <3>1. total'.requests = total.requests
      <4>1. total \in Totals
        BY DEF ProxyInv, Accounts
      <4>2. total' = total \/ total' = [total EXCEPT !.retries = @ + 1]
        BY <2>1 DEF Count
      <4> QED BY <4>1, <4>2 DEF Totals
    <3> QED BY <1>0, <2>1, <3>1 DEF ResultOK
  <2> QED BY <2>3, <2>6, <2>7
<1> QED BY <1>3, <1>4

\* What happens between requests (pool.rs run_health_checks, set_strategy;
\* proxy.rs add_pool).
LEMMA IdlePools ==
    ASSUME ProxyInv, CheckHealth \/ AddPool \/ Restrategize
    PROVE  PoolsOK' /\ UNCHANGED <<now, tokens, call, result, total, incident>>
<1>0. PoolsOK /\ call.phase = "idle" /\ now \in Millis
      /\ UNCHANGED <<now, tokens, call, result, total, incident>>
  BY InvFacts DEF CheckHealth, CheckHealthBut, AddPool, Restrategize
<1>1. ASSUME NEW s \in Services
      PROVE  pools[s] \in PoolType /\ IsPoolOf(s, pools[s]) /\ OnlyInFlight(call, s, pools[s])
  BY <1>0 DEF PoolsOK
<1>2. CASE CheckHealth
  <2>1. PICK dead : CheckHealthBut(dead)
    BY <1>2 DEF CheckHealth
  <2>2. ASSUME NEW s \in Services
        PROVE  pools'[s] \in PoolType /\ IsPoolOf(s, pools'[s])
               /\ OnlyInFlight(call, s, pools'[s])
    <3>1. PICK p \in PoolType : p = pools[s]
      BY <1>1
    <3>2. PICK live \in [Indices(p) -> BOOLEAN] :
              live = [i \in Indices(p) |-> <<s, i>> \notin dead]
      OBVIOUS
    <3>3. PICK q : q = RunHealthChecks(p, now, live)
      OBVIOUS
    <3>4. pools'[s] = q
      BY <2>1, <3>1, <3>2, <3>3 DEF CheckHealthBut
    <3>5. q \in PoolType /\ SameShape(p, q)
          /\ \A i \in Indices(p) : q.backends[i].in_flight = p.backends[i].in_flight
      BY <1>0, <3>3, CheckedPool
    <3> QED BY <1>1, <3>1, <3>4, <3>5, SameFlight
  <2>3. pools' \in [Services -> PoolType]
    BY <2>1, <2>2 DEF CheckHealthBut
  <2> QED BY <1>0, <2>2, <2>3 DEF PoolsOK, IsPoolOf, OnlyInFlight
<1>3. CASE AddPool
  <2>s. PICK s \in Services, strategy \in Strategies :
            pools' = [pools EXCEPT ![s] = NewService(s, strategy)]
    BY <1>3 DEF AddPool
  <2>1. PICK q : q = NewService(s, strategy) /\ pools' = [pools EXCEPT ![s] = q]
    BY <2>s
  <2>2. IsPoolOf(s, q) /\ OnlyInFlight(call', s, q)
    <3>1. call'.phase # "sent"
      BY <1>0
    <3> QED BY <2>1, <3>1, NewServiceOK
  <2>3. \A r \in Services \ {s} : OnlyInFlight(call', r, pools[r])
    BY <1>0, <1>1
  <2> QED BY <1>0, <2>1, <2>2, <2>3, PoolReplaced
<1>4. CASE Restrategize
  <2>s. PICK s \in Services, strategy \in AllStrategies :
            pools' = [pools EXCEPT ![s] = SetStrategy(pools[s], strategy)]
    BY <1>0, <1>4, StrategiesAssumption DEF Restrategize, PoolsOK
  <2>1. PICK q : q = SetStrategy(pools[s], strategy) /\ pools' = [pools EXCEPT ![s] = q]
    BY <2>s
  <2>2. q \in PoolType /\ q.backends = pools[s].backends /\ q.ring = pools[s].ring
        /\ q.ring_signature = pools[s].ring_signature
    BY <1>1, <2>1 DEF SetStrategy, PoolType
  <2>3. IsPoolOf(s, q) /\ OnlyInFlight(call', s, q)
    BY <1>0, <1>1, <2>2 DEF IsPoolOf, OnlyInFlight, RingFresh, Indices
  <2>4. \A r \in Services \ {s} : OnlyInFlight(call', r, pools[r])
    BY <1>0, <1>1
  <2> QED BY <1>0, <2>1, <2>3, <2>4, PoolReplaced
<1> QED BY <1>0, <1>2, <1>3, <1>4

-----------------------------------------------------------------------------
\* In the initial state, and after every step (proxy.rs, all of handle).
LEMMA InvInit == Init => ProxyInv
<1> SUFFICES ASSUME Init PROVE ProxyInv
  OBVIOUS
<1>1. /\ tokens = MaxMilli /\ call = NoCall /\ ~Busy /\ call.phase # "sent"
      /\ total = NoTotal /\ total.requests = 0 /\ result = NoResult
      /\ now \in Millis /\ incident \in BOOLEAN
  <2>1. tokens = MaxMilli /\ call = NoCall /\ total = NoTotal /\ result = NoResult
        /\ now = 0 /\ incident = TRUE
    BY DEF Init, ClockInit, FullBucket, NoTotal
  <2>2. 0 \in Millis
    BY MaxClockAssumption DEF Millis
  <2>3. call.phase = "idle" /\ total.requests = 0
    BY <2>1 DEF NoCall, NoTotal
  <2> QED BY <2>1, <2>2, <2>3 DEF Busy
<1>2. Accounts
  BY <1>1, AccountsInit
<1>3. PoolsOK
  <2>1. PICK f \in [Services -> Strategies] :
            pools = [s \in Services |-> NewService(s, f[s])]
    BY DEF Init
  <2>2. ASSUME NEW s \in Services
        PROVE  IsPoolOf(s, pools[s]) /\ OnlyInFlight(call, s, pools[s])
    <3>1. PICK strategy : strategy = f[s]
      OBVIOUS
    <3>2. PICK q : q = NewService(s, strategy)
      OBVIOUS
    <3>3. pools[s] = q /\ strategy \in Strategies
      BY <2>1, <3>1, <3>2
    <3> QED BY <1>1, <3>2, <3>3, NewServiceOK
  <2> QED BY <2>1, <2>2 DEF PoolsOK, IsPoolOf
<1>4. CallOK /\ ResultOK
  <2>1. 0 \in 0 .. MaxRetries + 1 /\ 0 <= MaxTotal
    BY CapType, ProxyAssumption
  <2> QED BY <1>1, <2>1 DEF CallOK, ResultOK, NoResult
<1> QED BY <1>1, <1>2, <1>3, <1>4 DEF ProxyInv

LEMMA InvStep ==
    ASSUME ProxyInv, [Next]_vars PROVE ProxyInv'
<1>1. Accounts'
  BY AccountsStep DEF ProxyInv
<1>2. PoolsOK /\ CallOK /\ ResultOK /\ now \in Millis /\ incident \in BOOLEAN
  BY DEF ProxyInv
<1>3. CASE Send \/ GiveUp \/ Succeed \/ Fail \/ StartRequest
  <2>1. now' = now /\ incident' = incident
    BY <1>3 DEF Send, GiveUp, Succeed, SucceedAfter, Fail, StartRequest
  <2>2. PoolsOK' /\ CallOK' /\ ResultOK'
    BY <1>3, SendPools, GiveUpPools, SucceedPools, FailPools, StartPools
  <2> QED BY <1>1, <1>2, <2>1, <2>2 DEF ProxyInv
<1>4. CASE CheckHealth \/ AddPool \/ Restrategize
  <2>1. PoolsOK' /\ UNCHANGED <<now, tokens, call, result, total, incident>>
    BY <1>4, IdlePools
  <2>2. CallOK' /\ ResultOK'
    BY <1>2, <2>1 DEF CallOK, ResultOK, Busy, Tried, Target
  <2> QED BY <1>1, <1>2, <2>1, <2>2 DEF ProxyInv
<1>5. CASE Advance \/ Jump \/ EndIncident \/ UNCHANGED vars
  <2>1. UNCHANGED <<pools, call, result, total>>
    BY <1>5 DEF Advance, Jump, EndIncident, vars
  <2>2. now' \in Millis /\ incident' \in BOOLEAN
    BY <1>2, <1>5, SatTypes, ClockAssumption, MaxClockAssumption
       DEF Advance, AdvanceClock, Jump, JumpClock, EndIncident, vars
  <2>3. PoolsOK' /\ CallOK' /\ ResultOK'
    BY <1>2, <2>1
       DEF PoolsOK, IsPoolOf, OnlyInFlight, CallOK, ResultOK, Busy, Tried, Target
  <2> QED BY <1>1, <2>2, <2>3 DEF ProxyInv
<1> QED BY <1>3, <1>4, <1>5 DEF Next, Handle

\* The invariant holds throughout: RetriesPaidFor's accounts, the pools, the
\* open request and the last result support one another.
LEMMA InvHolds == Spec => []ProxyInv
BY InvInit, InvStep, PTL DEF Spec

(***************************************************************************)
(* The proxy's records are well formed: the pools are, a request that is   *)
(* handled belongs to a service with a pool, it has tried backends of that *)
(* service, and no result counts more attempts than the cap allows         *)
(* (proxy.rs handle).                                                      *)
(***************************************************************************)
THEOREM TypeCorrect == Spec => []TypeOK
<1>1. ProxyInv => TypeOK
  <2> SUFFICES ASSUME ProxyInv PROVE TypeOK
    OBVIOUS
  <2>1. /\ now \in Millis /\ incident \in BOOLEAN /\ pools \in [Services -> PoolType]
        /\ tokens \in 0 .. MaxMilli /\ total \in Totals /\ total.requests <= MaxTotal
        /\ result \in [kind : {"none", "Ok"} \cup Failures, attempts : 0 .. MaxRetries + 1]
    BY DEF ProxyInv, Accounts, TokensAddUp, PoolsOK, ResultOK
  <2>2. total \in [requests : 0 .. MaxTotal, retries : Nat, failovers : Nat]
    BY <2>1, ProxyAssumption DEF Totals
  <2>3. ASSUME Busy
        PROVE  /\ call.phase \in {"selecting", "sent"}
               /\ Target \in Services /\ call.key \in Keys \cup {NoKey}
               /\ call.now \in Millis
               /\ Tried \subseteq Indices(pools[Target])
               /\ Len(call.tried) <= MaxRetries
               /\ call.phase = "sent" => <<Target, call.idx>> \in Members
    <3>1. CallShape /\ CallOK /\ IsPoolOf(Target, pools[Target])
      BY <2>3, InvFacts
    <3>2. call.phase = "sent" => <<Target, call.idx>> \in Members
      BY <2>3, <3>1 DEF CallOK, Members
    <3> QED BY <2>3, <3>1, <3>2 DEF CallOK, CallShape, IsPoolOf
  <2> QED BY <2>1, <2>2, <2>3 DEF TypeOK
<1> QED BY <1>1, InvHolds, PTL

(***************************************************************************)
(* No call leaks: whatever strategies, clock and upstreams do, the calls   *)
(* in flight are the one of the running handle() and no other (proxy.rs    *)
(* handle, begin, end).                                                    *)
(***************************************************************************)
THEOREM InFlightIsGivenBack == Spec => []NoCallLeaks
<1>1. ProxyInv => NoCallLeaks
  <2> SUFFICES ASSUME ProxyInv, NEW m \in Members
               PROVE  BackendsOf(m[1])[m[2]].in_flight =
                         (IF call.phase = "sent" /\ m = <<Target, call.idx>> THEN 1 ELSE 0)
    BY DEF NoCallLeaks
  <2>1. PICK s \in Services : m \in {s} \X DOMAIN PoolWeights[s]
    BY DEF Members
  <2>i. PICK i \in DOMAIN PoolWeights[s] : m = <<s, i>>
    BY <2>1
  <2>2. OnlyInFlight(call, s, pools[s])
    BY DEF ProxyInv, PoolsOK
  <2> QED BY <2>i, <2>2 DEF OnlyInFlight, BackendsOf, Target
<1> QED BY <1>1, InvHolds, PTL

(***************************************************************************)
(* A retry is a failover: the backends a request was sent to are all       *)
(* different, in every pool and for every strategy, though the ring and    *)
(* the cursor know nothing of the request (proxy.rs tried).                *)
(***************************************************************************)
THEOREM RetriesFailOver == Spec => []EveryTryElsewhere
<1>1. ProxyInv => EveryTryElsewhere
  BY DEF ProxyInv, CallOK, EveryTryElsewhere
<1> QED BY <1>1, InvHolds, PTL

(***************************************************************************)
(* handle() returns an error only when, after a failed attempt, the        *)
(* retries are used up or the bucket cannot pay for another, or when       *)
(* nothing that can take the request is left; and takes no token for it    *)
(* (proxy.rs handle; pool.rs select).                                      *)
(***************************************************************************)
THEOREM GivesUpOnlyInTheEnd == Spec => ErrorIsLastResort
<1> DEFINE failed == result'.attempts
           AtTheEnd ==
              /\ failed = Len(call.tried) + (IF call.phase = "sent" THEN 1 ELSE 0)
              /\ IF call.phase = "sent"
                 THEN failed > MaxRetries \/ tokens < RetryCostMilli
                 ELSE \A i \in Indices(pools[Target]) :
                         \/ i \in Tried
                         \/ ~IsAvailable(pools'[Target].backends[i], call.now)
                         \/ /\ pools[Target].strategy = "Weighted"
                            /\ BackendsOf(Target)[i].weight = 0
              /\ (result'.kind = "NoHealthyUpstream" <=> failed = 0)
              /\ tokens' = tokens
           A == Busy /\ ~Busy' /\ result'.kind \in Failures => AtTheEnd
<1>1. ProxyInv /\ [Next]_vars => [A]_vars
  <2> SUFFICES ASSUME ProxyInv, Next, Busy, ~Busy', result'.kind \in Failures
               PROVE  AtTheEnd
    OBVIOUS
  <2>1. CallShape /\ Len(call.tried) \in Nat /\ Len(call.tried) <= MaxRetries
    BY InvFacts DEF CallShape
  <2>2. CASE GiveUp
    <3>1. PICK p, S, r : p = pools[Target] /\ S = Available(p, call.now, Tried) /\ r = Selection
      OBVIOUS
    <3>2. /\ call.phase = "selecting" /\ r.idx = None
          /\ pools' = [pools EXCEPT ![Target] = r.pool]
          /\ failed = Len(call.tried)
          /\ result'.kind = IF call.tried = <<>> THEN "NoHealthyUpstream"
                            ELSE "AllAttemptsFailed"
          /\ tokens' = tokens
      BY <2>2, <3>1 DEF GiveUp, Return
    <3>3. Rebalanced(p, r.pool) /\ Eligible(p, S) = {}
      BY <3>1, <3>2, SelectionOK
    <3>4. p \in PoolType /\ Target \in DOMAIN pools /\ pools'[Target] = r.pool
      BY <3>1, <3>2, InvFacts DEF CallOK, PoolsOK
    <3>5. ASSUME NEW i \in Indices(p), i \notin Tried,
                 IsAvailable(pools'[Target].backends[i], call.now)
          PROVE  p.strategy = "Weighted" /\ p.backends[i].weight = 0
      <4>1. PICK b \in BackendType : b = p.backends[i]
        BY <3>4, IndicesAre
      <4>2. PICK w \in Int : r.pool.backends[i] = [b EXCEPT !.current_weight = w]
        BY <3>3, <4>1 DEF Rebalanced
      <4>3. PICK c : c = r.pool.backends[i]
        OBVIOUS
      <4>4. /\ c.healthy = b.healthy /\ c.ejected_until = b.ejected_until
            /\ c.breaker = b.breaker /\ c.in_flight = b.in_flight
        BY <4>2, <4>3 DEF BackendType
      <4>5. IsAvailable(c, call.now)
        BY <3>4, <3>5, <4>3
      <4>6. IsAvailable(b, call.now)
        BY <4>4, <4>5 DEF IsAvailable, IsEjected
      <4>7. i \in S
        BY <3>1, <3>5, <4>1, <4>6 DEF Available
      <4> QED BY <3>3, <4>7 DEF Eligible
    <3>6. failed = 0 <=> call.tried = <<>>
      BY <2>1, <3>2 DEF CallShape
    <3> QED BY <3>1, <3>2, <3>5, <3>6 DEF BackendsOf
  <2>3. CASE Fail
    <3>1. call.phase = "sent" /\ Len(Append(call.tried, call.idx)) = Len(call.tried) + 1
      BY <2>1, <2>3 DEF Fail, CallShape
    <3>2. ~MayRetry(Len(call.tried) + 1)
      BY <2>3, <3>1 DEF Fail, Busy
    <3>3. /\ failed = Len(call.tried) + 1 /\ result'.kind = "AllAttemptsFailed"
          /\ tokens' = tokens
      BY <2>3, <3>1, <3>2 DEF Fail, Return
    <3>4. tokens \in Nat
      BY DEF ProxyInv, Accounts, TokensAddUp
    <3>5. failed > MaxRetries \/ tokens < RetryCostMilli
      <4>1. PICK n \in Nat : n = Len(call.tried) + 1 /\ n > 0
        BY <2>1
      <4>2. n > MaxRetries \/ tokens < RetryCostMilli
        BY <3>2, <3>4, <4>1, CapType DEF MayRetry, Affords
      <4>3. failed = n
        BY <3>3, <4>1
      <4> QED BY <4>1, <4>2, <4>3
    <3>6. ~(failed = 0)
      BY <2>1, <3>3
    <3> QED BY <3>1, <3>3, <3>5, <3>6
  <2>4. ~StartRequest /\ ~CheckHealth /\ ~AddPool /\ ~Restrategize
    BY DEF StartRequest, CheckHealth, CheckHealthBut, AddPool, Restrategize
  <2>5. ~Send
    BY DEF Send, Busy
  <2>6. ~Succeed
    BY DEF Succeed, SucceedAfter, Return, Failures
  <2>7. ~Advance /\ ~Jump /\ ~EndIncident
    BY DEF Advance, Jump, EndIncident, Busy
  <2> QED BY <2>2, <2>3, <2>4, <2>5, <2>6, <2>7 DEF Next, Handle
<1>2. [][A]_vars => ErrorIsLastResort
  BY PTL DEF ErrorIsLastResort
<1> QED BY <1>1, <1>2, InvHolds, PTL DEF Spec

-----------------------------------------------------------------------------
\* The backends tried, paired with their service, are as many as the attempts.
LEMMA TriedOf ==
    ASSUME NEW g, NEW T, IsFiniteSet(T)
    PROVE  /\ Cardinality({g} \X T) = Cardinality(T)
           /\ {g} \X T = {} <=> Cardinality(T) = 0
           /\ \A i : i \notin T =>
                 /\ Cardinality(({g} \X T) \cup {<<g, i>>}) = Cardinality(T) + 1
                 /\ ({g} \X T) \cup {<<g, i>>} = {g} \X (T \cup {i})
<1>1. IsFiniteSet({g}) /\ Cardinality({g}) = 1
  BY FS_Singleton
<1>2. PICK n \in Nat : n = Cardinality(T)
  BY FS_CardinalityType
<1>3. PICK F : F = {g} \X T
  OBVIOUS
<1>4. IsFiniteSet(F) /\ Cardinality(F) = n
  BY <1>1, <1>2, <1>3, FS_Product
<1>5. F = {} <=> n = 0
  BY <1>4, FS_EmptySet
<1>6. ASSUME NEW i, i \notin T
      PROVE  /\ Cardinality(F \cup {<<g, i>>}) = n + 1
             /\ F \cup {<<g, i>>} = {g} \X (T \cup {i})
  <2>0. <<g, i>> \notin F
    BY <1>3, <1>6
  <2>1. PICK x : x = <<g, i>> /\ x \notin F
    BY <2>0
  <2>2. Cardinality(F \cup {x}) = n + 1
    BY <1>4, <2>1, FS_AddElement
  <2> QED BY <1>3, <2>1, <2>2
<1> QED BY <1>2, <1>3, <1>4, <1>5, <1>6

\* Failover.tla counts as this module does.
LEMMA SameCount == \A S : Promise!Cardinality(S) = Cardinality(S)
BY DEF Promise!Cardinality, Cardinality

\* What Failover.tla sees of an open request, and of none.
LEMMA PromiseOf ==
    ASSUME ProxyInv
    PROVE  /\ Busy =>
              /\ OpenGroup = Group(Target) /\ FailedBackends = {Target} \X Tried
              /\ Len(call.tried) \in Nat /\ Len(call.tried) <= MaxRetries
              /\ Cardinality(FailedBackends) = Len(call.tried)
              /\ FailedBackends = {} <=> call.tried = <<>>
           /\ call.phase = "selecting" => AskedBackend = {} /\ Busy
           /\ call.phase = "sent" =>
              /\ AskedBackend = {<<Target, call.idx>>} /\ Busy
              /\ Cardinality(FailedBackends \cup AskedBackend) = Len(call.tried) + 1
              /\ FailedBackends \cup AskedBackend = {Target} \X (Tried \cup {call.idx})
           /\ ~Busy => OpenGroup = {} /\ AskedBackend = {} /\ FailedBackends = {}
<1>1. CASE ~Busy
  BY <1>1 DEF Busy, OpenGroup, AskedBackend, FailedBackends
<1>2. CASE Busy
  <2>1. /\ CallShape /\ CallOK /\ Target \in Services
        /\ Len(call.tried) \in Nat /\ Len(call.tried) <= MaxRetries
    BY <1>2, InvFacts DEF CallOK, CallShape
  <2>2. PICK T : T = Tried
    OBVIOUS
  <2>3. PICK g : g = Target
    OBVIOUS
  <2>4. PICK n \in Nat : n = Len(call.tried)
    BY <2>1
  <2>5. IsFiniteSet(T)
    <3>1. PICK k \in Nat : DOMAIN PoolWeights[Target] = 1 .. k
      BY <2>1, ServiceFacts
    <3>2. IsFiniteSet(1 .. k)
      BY FS_Interval
    <3>3. T \subseteq 1 .. k
      BY <1>2, <2>1, <2>2, <3>1 DEF CallOK
    <3> QED BY <3>2, <3>3, FS_Subset
  <2>6. Cardinality(T) = n
    BY <1>2, <2>1, <2>2, <2>4 DEF CallOK
  <2>7. PICK F : F = {g} \X T
    OBVIOUS
  <2>8. /\ Cardinality(F) = n /\ (F = {} <=> n = 0)
        /\ \A i : i \notin T => /\ Cardinality(F \cup {<<g, i>>}) = n + 1
                               /\ F \cup {<<g, i>>} = {g} \X (T \cup {i})
    <3>1. /\ Cardinality({g} \X T) = Cardinality(T)
          /\ {g} \X T = {} <=> Cardinality(T) = 0
          /\ \A i : i \notin T =>
                /\ Cardinality(({g} \X T) \cup {<<g, i>>}) = Cardinality(T) + 1
                /\ ({g} \X T) \cup {<<g, i>>} = {g} \X (T \cup {i})
      BY <2>5, TriedOf
    <3> QED BY <2>6, <2>7, <3>1
  <2>9. n = 0 <=> call.tried = <<>>
    BY <1>2, <2>1, <2>4 DEF CallShape
  <2>10. OpenGroup = Group(Target) /\ FailedBackends = F
    BY <1>2, <2>2, <2>3, <2>7 DEF OpenGroup, FailedBackends
  <2>11. call.phase = "selecting" => AskedBackend = {}
    BY DEF AskedBackend
  <2>12. ASSUME call.phase = "sent"
         PROVE  /\ AskedBackend = {<<Target, call.idx>>}
                /\ Cardinality(FailedBackends \cup AskedBackend) = Len(call.tried) + 1
                /\ FailedBackends \cup AskedBackend = {Target} \X (Tried \cup {call.idx})
    <3>1. PICK i : i = call.idx
      OBVIOUS
    <3>2. i \notin T
      BY <1>2, <2>1, <2>2, <2>12, <3>1 DEF CallOK
    <3>3. AskedBackend = {<<g, i>>}
      BY <2>3, <2>12, <3>1 DEF AskedBackend
    <3> QED BY <2>2, <2>3, <2>4, <2>8, <2>10, <3>1, <3>2, <3>3
  <2> QED BY <1>2, <2>1, <2>2, <2>3, <2>4, <2>7, <2>8, <2>9, <2>10, <2>11, <2>12
<1> QED BY <1>1, <1>2

LEMMA PromiseStep ==
    ASSUME ProxyInv, Next
    PROVE  Promise!FailoverNext \/ UNCHANGED Promise!failoverVars
<1>1. CASE UNCHANGED <<call, result>>
  BY <1>1 DEF Promise!failoverVars, OpenGroup, AskedBackend, FailedBackends, Group, Busy,
              Target, Tried
<1>2. CASE StartRequest
  <2>1. PICK service, r :
            /\ ~Busy
            /\ IF service \notin Services
               THEN call' = NoCall /\ result' = [kind |-> "NoRoute", attempts |-> 0]
               ELSE /\ call' = [phase |-> "selecting", service |-> service,
                                key |-> StickyKey(r), now |-> now, tried |-> <<>>]
                    /\ result' = NoResult
    BY <1>2 DEF StartRequest, Return
  <2>2. OpenGroup = {} /\ AskedBackend = {} /\ FailedBackends = {}
    BY <2>1, PromiseOf
  <2>3. CASE service \notin Services
    <3>1. Busy' = Busy /\ OpenGroup' = {} /\ AskedBackend' = {} /\ FailedBackends' = {}
      BY <2>1, <2>3 DEF Busy, NoCall, OpenGroup, AskedBackend, FailedBackends
    <3>2. Promise!TurnAway
      BY <2>1, <2>2, <2>3, <3>1 DEF Promise!TurnAway, Promise!Verdict
    <3> QED BY <3>2 DEF Promise!FailoverNext
  <2>4. CASE service \in Services
    <3>1. Busy' /\ call'.phase = "selecting" /\ Target' = service /\ Tried' = {}
      BY <2>1, <2>4 DEF Busy, Target, Tried
    <3>2. OpenGroup' = Group(service) /\ AskedBackend' = {} /\ FailedBackends' = {}
      BY <3>1 DEF OpenGroup, AskedBackend, FailedBackends, Group
    <3>3. Promise!Take
      BY <2>1, <2>2, <2>4, <3>1, <3>2 DEF Promise!Take, Promise!Verdict, NoResult
    <3> QED BY <3>3 DEF Promise!FailoverNext
  <2> QED BY <2>3, <2>4
<1>3. CASE Send
  <2>1. PICK i, p, S, r : p = pools[Target] /\ S = Available(p, call.now, Tried)
                          /\ r = Selection /\ i = r.idx
    OBVIOUS
  <2>2. /\ call.phase = "selecting" /\ i # None /\ result' = result
        /\ call' = [phase |-> "sent", service |-> Target, key |-> call.key,
                    now |-> call.now, tried |-> call.tried, idx |-> i]
    BY <1>3, <2>1 DEF Send
  <2>3. i \in DOMAIN PoolWeights[Target] \ Tried
    BY <2>1, <2>2, SelectionOK
  <2>4. /\ Busy /\ AskedBackend = {} /\ OpenGroup = Group(Target)
        /\ FailedBackends = {Target} \X Tried
        /\ Cardinality(FailedBackends) < MaxRetries + 1
    BY <2>2, PromiseOf, CapType
  <2>5. /\ Busy' = Busy /\ Target' = Target /\ Tried' = Tried /\ call'.phase = "sent"
        /\ call'.idx = i
    BY <2>2, <2>4 DEF Busy, Target, Tried
  <2>6. /\ OpenGroup' = OpenGroup /\ FailedBackends' = FailedBackends
        /\ AskedBackend' = {<<Target, i>>}
    BY <2>4, <2>5 DEF OpenGroup, FailedBackends, AskedBackend, Group
  <2>7. PICK b \in OpenGroup \ FailedBackends : b = <<Target, i>>
    BY <2>3, <2>4 DEF Group
  <2>8. Promise!Ask
    <3>1. AskedBackend' = {b}
      BY <2>6, <2>7
    <3> QED BY <2>2, <2>4, <2>5, <2>6, <3>1, SameCount DEF Promise!Ask
  <2> QED BY <2>8 DEF Promise!FailoverNext
<1>4. CASE GiveUp
  <2>1. /\ call.phase = "selecting" /\ Busy' = FALSE
        /\ result' = [kind |-> IF call.tried = <<>> THEN "NoHealthyUpstream"
                               ELSE "AllAttemptsFailed",
                      attempts |-> Len(call.tried)]
    BY <1>4 DEF GiveUp, Return, Busy, NoCall
  <2>2. OpenGroup' = {} /\ AskedBackend' = {} /\ FailedBackends' = {}
    <3>1. call'.phase # "sent"
      BY <2>1 DEF Busy
    <3> QED BY <2>1, <3>1 DEF OpenGroup, AskedBackend, FailedBackends
  <2>3. /\ Busy /\ Cardinality(FailedBackends \cup AskedBackend) = Len(call.tried)
        /\ FailedBackends \cup AskedBackend = {} <=> call.tried = <<>>
    <3>1. FailedBackends \cup AskedBackend = FailedBackends
      BY <2>1, PromiseOf
    <3> QED BY <2>1, <3>1, PromiseOf
  <2>4. Promise!GiveUp
    BY <2>1, <2>2, <2>3, SameCount DEF Promise!GiveUp, Promise!Close, Promise!Verdict
  <2> QED BY <2>4 DEF Promise!FailoverNext
<1>5. CASE Succeed \/ (Fail /\ ~MayRetry(Len(Append(call.tried, call.idx))))
  <2>1. /\ call.phase = "sent" /\ call' = NoCall
        /\ \/ result' = [kind |-> "Ok", attempts |-> Len(call.tried) + 1]
           \/ result' = [kind |-> "AllAttemptsFailed",
                         attempts |-> Len(Append(call.tried, call.idx))]
    BY <1>5 DEF Succeed, SucceedAfter, Fail, Return
  <2>2. Busy' = FALSE /\ OpenGroup' = {} /\ AskedBackend' = {} /\ FailedBackends' = {}
    BY <2>1 DEF Busy, NoCall, OpenGroup, AskedBackend, FailedBackends
  <2>3. /\ Busy /\ AskedBackend # {} /\ FailedBackends \cup AskedBackend # {}
        /\ Cardinality(FailedBackends \cup AskedBackend) = Len(call.tried) + 1
    BY <2>1, PromiseOf
  <2>4. Len(Append(call.tried, call.idx)) = Len(call.tried) + 1
    BY <2>3, InvFacts DEF CallShape
  <2>5. CASE result' = [kind |-> "Ok", attempts |-> Len(call.tried) + 1]
    <3>1. Promise!Answer
      BY <2>2, <2>3, <2>5, SameCount DEF Promise!Answer, Promise!Close, Promise!Verdict
    <3> QED BY <3>1 DEF Promise!FailoverNext
  <2>6. CASE result' = [kind |-> "AllAttemptsFailed",
                        attempts |-> Len(Append(call.tried, call.idx))]
    <3>1. Promise!GiveUp
      BY <2>2, <2>3, <2>4, <2>6, SameCount DEF Promise!GiveUp, Promise!Close, Promise!Verdict
    <3> QED BY <3>1 DEF Promise!FailoverNext
  <2> QED BY <2>1, <2>5, <2>6
<1>6. CASE Fail /\ MayRetry(Len(Append(call.tried, call.idx)))
  <2>1. PICK q : q = Append(call.tried, call.idx)
    OBVIOUS
  <2>2. /\ call.phase = "sent" /\ result' = result
        /\ call' = [phase |-> "selecting", service |-> Target, key |-> call.key,
                    now |-> call.now, tried |-> q]
    BY <1>6, <2>1 DEF Fail
  <2>3. /\ Busy /\ CallShape /\ AskedBackend # {} /\ OpenGroup = Group(Target)
        /\ FailedBackends \cup AskedBackend = {Target} \X (Tried \cup {call.idx})
    BY <2>2, PromiseOf, InvFacts
  <2>4. Busy' = Busy /\ Target' = Target /\ call'.phase = "selecting" /\ call'.tried = q
    BY <2>2, <2>3 DEF Busy, Target
  <2>5. Tried' = Tried \cup {call.idx}
    BY <2>1, <2>3, <2>4, TriedGrows
  <2>6. /\ OpenGroup' = OpenGroup /\ AskedBackend' = {}
        /\ FailedBackends' = FailedBackends \cup AskedBackend
    BY <2>3, <2>4, <2>5 DEF OpenGroup, AskedBackend, FailedBackends, Group
  <2>7. Promise!GoOn
    BY <2>2, <2>3, <2>4, <2>6 DEF Promise!GoOn
  <2> QED BY <2>7 DEF Promise!FailoverNext
<1>7. CASE Advance \/ Jump \/ EndIncident \/ CheckHealth \/ AddPool \/ Restrategize
  <2>1. UNCHANGED <<call, result>>
    BY <1>7 DEF Advance, Jump, EndIncident, CheckHealth, CheckHealthBut, AddPool,
                Restrategize
  <2> QED BY <1>1, <2>1
<1> QED BY <1>2, <1>3, <1>4, <1>5, <1>6, <1>7 DEF Next, Handle

(***************************************************************************)
(* handle() implements Failover.tla: with pools, health checks, clock and  *)
(* budget left out, every step of the proxy is one of the promise's or     *)
(* changes nothing it speaks of (proxy.rs handle).                         *)
(***************************************************************************)
THEOREM ProxyImplementsFailover == Spec => ImplementsFailover
<1>1. Init => Promise!FailoverInit
  <2> SUFFICES ASSUME Init PROVE Promise!FailoverInit
    OBVIOUS
  <2>1. ~Busy /\ call.phase # "sent" /\ result = [kind |-> "none", attempts |-> 0]
    <3>1. call = NoCall /\ result = NoResult
      BY DEF Init
    <3> QED BY <3>1 DEF NoCall, NoResult, Busy
  <2> QED BY <2>1 DEF Promise!FailoverInit, Promise!Verdict, OpenGroup, AskedBackend,
                      FailedBackends
<1>2. ProxyInv /\ [Next]_vars => [Promise!FailoverNext]_Promise!failoverVars
  <2> SUFFICES ASSUME ProxyInv, [Next]_vars
               PROVE  [Promise!FailoverNext]_Promise!failoverVars
    OBVIOUS
  <2>1. CASE Next
    BY <2>1, PromiseStep
  <2>2. CASE UNCHANGED vars
    BY <2>2 DEF vars, Promise!failoverVars, OpenGroup, AskedBackend, FailedBackends, Group,
                Busy, Target, Tried
  <2> QED BY <2>1, <2>2
<1> QED BY <1>1, <1>2, InvHolds, PTL DEF Spec, ImplementsFailover, Promise!FailoverSpec

-----------------------------------------------------------------------------
\* Scenarios: the proxy in front of scripted upstreams.

\* Whom an upstream belongs to.
BackendAt(m) == BackendsOf(m[1])[m[2]]

LEMMA MemberFacts ==
    ASSUME PoolsOK, NEW m \in Members
    PROVE  /\ m[1] \in Services /\ m[2] \in DOMAIN PoolWeights[m[1]]
           /\ pools[m[1]] \in PoolType /\ m[2] \in Indices(pools[m[1]])
           /\ BackendAt(m) \in BackendType
<1>1. PICK s \in Services : m \in {s} \X DOMAIN PoolWeights[s]
  BY DEF Members
<1>2. m[1] = s /\ m[2] \in DOMAIN PoolWeights[s]
  BY <1>1
<1>3. PICK p \in PoolType : p = pools[s] /\ Indices(p) = DOMAIN PoolWeights[s]
  BY DEF PoolsOK, IsPoolOf
<1>4. PICK i \in Indices(p) : i = m[2]
  BY <1>2, <1>3
<1>5. p.backends[i] \in BackendType
  BY IndicesAre
<1> QED BY <1>2, <1>3, <1>4, <1>5 DEF BackendAt, BackendsOf

LEMMA TargetIsMember ==
    ASSUME ProxyInv, call.phase = "sent"
    PROVE  <<Target, call.idx>> \in Members
<1>1. Target \in Services /\ call.idx \in DOMAIN PoolWeights[Target]
  BY InvFacts DEF CallOK, Busy
<1> QED BY <1>1 DEF Members

\* What send() and probe() make of a scripted upstream (upstream.rs).
LEMMA MockAnswers ==
    ASSUME NEW L, NEW k \in MockType(L)
    PROVE  /\ NextStep(k) \in StepType(L) /\ AfterSend(k) \in MockType(L)
           /\ AfterSend(k).calls = k.calls + 1
           /\ AfterSend(k).probe_calls = k.probe_calls
<1>1. PICK T : T = StepType(L)
  OBVIOUS
<1>2. k.script \in Seq(T) /\ k.default \in T /\ k.calls \in Nat /\ k.calls + 1 \in Nat
  BY <1>1 DEF MockType
<1>3. NextStep(k) \in T /\ Rest(k.script) \in Seq(T)
  BY <1>2 DEF NextStep, Rest
<1>4. PICK q \in Seq(T) : q = Rest(k.script)
  BY <1>3
<1>5. AfterSend(k) = [k EXCEPT !.calls = k.calls + 1, !.script = q]
  BY <1>2, <1>4 DEF AfterSend, MockType
<1> QED BY <1>1, <1>2, <1>3, <1>5 DEF MockType

LEMMA MockProbed ==
    ASSUME NEW L, NEW k \in MockType(L)
    PROVE  /\ ProbeResult(k) \in BOOLEAN /\ AfterProbe(k) \in MockType(L)
           /\ AfterProbe(k).calls = k.calls
           /\ AfterProbe(k).probe_calls = k.probe_calls + 1
<1>1. PICK B : B = BOOLEAN
  OBVIOUS
<1>2. /\ k.probes \in Seq(B) /\ k.probe_default \in B
      /\ k.probe_calls \in Nat /\ k.probe_calls + 1 \in Nat
  BY <1>1 DEF MockType
<1>3. ProbeResult(k) \in B /\ Rest(k.probes) \in Seq(B)
  BY <1>2 DEF ProbeResult, Rest
<1>4. PICK q \in Seq(B) : q = Rest(k.probes)
  BY <1>3
<1>5. AfterProbe(k) = [k EXCEPT !.probe_calls = k.probe_calls + 1, !.probes = q]
  BY <1>2, <1>4 DEF AfterProbe, MockType
<1> QED BY <1>1, <1>2, <1>3, <1>5 DEF MockType

\* push() and push_probe() (upstream.rs).
LEMMA MockPushed ==
    ASSUME NEW L, NEW k \in MockType(L), NEW step \in StepType(L)
    PROVE  /\ Push(k, step) \in MockType(L) /\ Push(k, step).calls = k.calls
           /\ Push(k, step).probe_calls = k.probe_calls
<1>1. PICK T : T = StepType(L)
  OBVIOUS
<1>2. PICK q \in Seq(T) : q = Append(k.script, step)
  BY <1>1, AppendProperties DEF MockType
<1>3. Push(k, step) = [k EXCEPT !.script = q]
  BY <1>2 DEF Push, MockType
<1> QED BY <1>1, <1>2, <1>3 DEF MockType

LEMMA MockProbePushed ==
    ASSUME NEW L, NEW k \in MockType(L), NEW B, B = BOOLEAN, NEW live \in B
    PROVE  /\ PushProbe(k, live) \in MockType(L) /\ PushProbe(k, live).calls = k.calls
           /\ PushProbe(k, live).probe_calls = k.probe_calls
<1>1. k.probes \in Seq(B)
  BY DEF MockType
<1>2. PICK q \in Seq(B) : q = Append(k.probes, live)
  BY <1>1, AppendProperties
<1>3. PushProbe(k, live) = [k EXCEPT !.probes = q]
  BY <1>2 DEF PushProbe, MockType
<1> QED BY <1>2, <1>3 DEF MockType

-----------------------------------------------------------------------------
\* The scenario stays one: whatever is scripted, upstreams may still fail, and
\* their replies take a time that the proxy knows.
Scripted == incident = TRUE /\ mocks \in [Members -> MockType(ReplyLatencies)]

\* Every step of a scenario is a step of the proxy, or none.
LEMMA ScenarioIsStep ==
    ASSUME ProxyInv, Scripted, [ScenarioNext]_scenarioVars
    PROVE  [Next]_vars
<1>1. CASE Dispatch
  <2>1. PICK m \in Members : m = <<Target, call.idx>>
    BY <1>1, TargetIsMember DEF Dispatch
  <2>2. PICK k \in MockType(ReplyLatencies) : k = mocks[m]
    BY DEF Scripted
  <2>3. PICK l \in ReplyLatencies : l = Reply(k).latency_ms
    BY MockAnswers DEF Reply, StepType
  <2>4. SucceedAfter(l) \/ Fail
    BY <1>1, <2>1, <2>2, <2>3 DEF Dispatch
  <2> QED BY <2>4 DEF Next, Handle, Succeed
<1>2. CASE Probe
  <2>1. PICK dead : dead = {m \in Members : ~ProbeResult(mocks[m])}
    OBVIOUS
  <2>2. dead \in SUBSET Members /\ CheckHealthBut(dead)
    BY <1>2, <2>1 DEF Probe
  <2> QED BY <2>2 DEF Next, CheckHealth, Scripted
<1>3. CASE PushStep \/ PushLiveness \/ UNCHANGED scenarioVars
  BY <1>3 DEF PushStep, PushLiveness, scenarioVars
<1>4. CASE Undispatched
  BY <1>4 DEF Undispatched, Next, Handle
<1>5. CASE Tick \/ Reconfigure
  BY <1>5 DEF Tick, Reconfigure, Next
<1> QED BY <1>1, <1>2, <1>3, <1>4, <1>5 DEF ScenarioNext

LEMMA ScriptedStep ==
    ASSUME ProxyInv, Scripted, [ScenarioNext]_scenarioVars
    PROVE  Scripted'
<1>1. mocks \in [Members -> MockType(ReplyLatencies)] /\ incident = TRUE
  BY DEF Scripted
<1>2. CASE Dispatch
  <2>1. PICK m \in Members : m = <<Target, call.idx>>
    BY <1>2, TargetIsMember DEF Dispatch
  <2>2. PICK k \in MockType(ReplyLatencies) : k = mocks[m]
    BY <1>1
  <2>3. PICK l \in MockType(ReplyLatencies) : l = AfterSend(k)
    BY MockAnswers
  <2>4. mocks' = [mocks EXCEPT ![m] = l]
    BY <1>1, <1>2, <2>1, <2>2, <2>3 DEF Dispatch
  <2>5. incident' = incident
    BY <1>2 DEF Dispatch, SucceedAfter, Fail
  <2> QED BY <1>1, <2>4, <2>5 DEF Scripted, Members
<1>3. CASE Probe
  <2>1. ASSUME NEW m \in Members
        PROVE  mocks'[m] \in MockType(ReplyLatencies)
    <3>1. PICK k \in MockType(ReplyLatencies) : k = mocks[m]
      BY <1>1
    <3>2. mocks'[m] \in {k, AfterProbe(k)}
      BY <1>3, <3>1 DEF Probe
    <3> QED BY <3>1, <3>2, MockProbed
  <2>2. mocks' = [m \in Members |-> mocks'[m]] /\ incident' = incident
    BY <1>3 DEF Probe, CheckHealthBut
  <2> QED BY <1>1, <2>1, <2>2 DEF Scripted, Members
<1>4. CASE PushStep \/ PushLiveness
  <2>1. PICK m \in Members :
            \/ \E step \in Steps : mocks' = [mocks EXCEPT ![m] = Push(@, step)]
            \/ \E live \in BOOLEAN : mocks' = [mocks EXCEPT ![m] = PushProbe(@, live)]
    BY <1>4 DEF PushStep, PushLiveness
  <2>2. PICK k \in MockType(ReplyLatencies) : k = mocks[m]
    BY <1>1
  <2>3. PICK l \in MockType(ReplyLatencies) : mocks' = [mocks EXCEPT ![m] = l]
    <3>1. CASE \E step \in Steps : mocks' = [mocks EXCEPT ![m] = Push(@, step)]
      <4>1. PICK step \in StepType(ReplyLatencies) :
                mocks' = [mocks EXCEPT ![m] = Push(k, step)]
        BY <1>1, <2>2, <3>1, ScenarioAssumption
      <4> QED BY <4>1, MockPushed
    <3>2. CASE \E live \in BOOLEAN : mocks' = [mocks EXCEPT ![m] = PushProbe(@, live)]
      <4>1. PICK live \in BOOLEAN : mocks' = [mocks EXCEPT ![m] = PushProbe(k, live)]
        BY <1>1, <2>2, <3>2
      <4> QED BY <4>1, MockProbePushed
    <3> QED BY <2>1, <3>1, <3>2
  <2>4. incident' = incident
    BY <1>4 DEF PushStep, PushLiveness, vars
  <2> QED BY <1>1, <2>3, <2>4 DEF Scripted, Members
<1>5. CASE Undispatched \/ Tick \/ Reconfigure \/ UNCHANGED scenarioVars
  <2>1. mocks' = mocks /\ incident' = incident
    BY <1>5 DEF Undispatched, StartRequest, Send, GiveUp, Tick, Advance,
                Reconfigure, Restrategize, scenarioVars, vars
  <2> QED BY <1>1, <2>1 DEF Scripted, Members
<1> QED BY <1>2, <1>3, <1>4, <1>5 DEF ScenarioNext

LEMMA ScenarioHolds == ScenarioSpec => [](ProxyInv /\ Scripted)
<1>1. ScenarioInit => ProxyInv /\ Scripted
  BY InvInit, ScenarioAssumption DEF ScenarioInit, Init, Scripted
<1>2. ProxyInv /\ Scripted /\ [ScenarioNext]_scenarioVars => (ProxyInv /\ Scripted)'
  BY ScenarioIsStep, ScriptedStep, InvStep
<1> QED BY <1>1, <1>2, PTL DEF ScenarioSpec

(***************************************************************************)
(* A scenario is a behaviour of the proxy, whatever its script: so all     *)
(* that is proved of the proxy holds in front of scripted upstreams.       *)
(***************************************************************************)
THEOREM ScenarioIsProxy == ScenarioSpec => Spec
<1>1. ScenarioInit => Init
  BY DEF ScenarioInit
<1>2. ProxyInv /\ Scripted /\ [ScenarioNext]_scenarioVars => [Next]_vars
  BY ScenarioIsStep
<1> QED BY <1>1, <1>2, ScenarioHolds, PTL DEF ScenarioSpec, Spec

-----------------------------------------------------------------------------
\* What active health keeps of a backend.
HealthAlike(b, c) ==
    /\ c.healthy = b.healthy /\ c.last_probe = b.last_probe
    /\ c.probe_failures = b.probe_failures /\ c.probe_successes = b.probe_successes

HealthKept(p, q) == \A i \in Indices(p) : HealthAlike(p.backends[i], q.backends[i])

LEMMA OnePoolHealth ==
    ASSUME PoolsOK, NEW s \in Services, NEW p, p = pools[s], NEW q, HealthKept(p, q),
           pools' = [pools EXCEPT ![s] = q]
    PROVE  \A m \in Members : HealthAlike(BackendAt(m), BackendAt(m)')
<1> SUFFICES ASSUME NEW m \in Members PROVE HealthAlike(BackendAt(m), BackendAt(m)')
  OBVIOUS
<1>1. m[1] \in Services /\ m[2] \in Indices(pools[m[1]])
  BY MemberFacts
<1>2. pools'[m[1]] = IF m[1] = s THEN q ELSE pools[m[1]]
  BY <1>1 DEF PoolsOK
<1> QED BY <1>1, <1>2 DEF HealthKept, HealthAlike, BackendAt, BackendsOf

\* A selection changes balances only.
LEMMA SelectionHealth ==
    ASSUME NEW p \in PoolType, NEW q, Rebalanced(p, q)
    PROVE  HealthKept(p, q)
<1> SUFFICES ASSUME NEW i \in Indices(p)
             PROVE  HealthAlike(p.backends[i], q.backends[i])
  BY DEF HealthKept
<1>1. PICK b \in BackendType : b = p.backends[i]
  BY IndicesAre
<1>2. PICK w \in Int : q.backends[i] = [b EXCEPT !.current_weight = w]
  BY <1>1 DEF Rebalanced
<1> QED BY <1>1, <1>2 DEF HealthAlike, BackendType

LEMMA RecountedHealth ==
    ASSUME NEW p \in PoolType, NEW i \in Indices(p), NEW n, NEW q, Recounted(p, i, n, q)
    PROVE  HealthKept(p, q)
<1>1. PICK b \in BackendType : b = p.backends[i]
  BY IndicesAre
<1>2. q.backends[i] = [b EXCEPT !.in_flight = n]
  BY <1>1 DEF Recounted
<1>3. HealthAlike(b, q.backends[i])
  BY <1>2 DEF HealthAlike, BackendType
<1> QED BY <1>1, <1>3 DEF HealthKept, HealthAlike, Recounted

LEMMA HealthKeptTwice ==
    ASSUME NEW p, NEW q, NEW r, HealthKept(p, q), HealthKept(q, r), Indices(q) = Indices(p)
    PROVE  HealthKept(p, r)
BY DEF HealthKept, HealthAlike

\* A request never touches active health, whatever becomes of it (pool.rs
\* select, begin, end, record_success, record_failure, poll).
LEMMA RequestHealth ==
    ASSUME ProxyInv, StartRequest \/ Handle
    PROVE  \A m \in Members : HealthAlike(BackendAt(m), BackendAt(m)')
<1>0. PoolsOK /\ now \in Millis
  BY InvFacts
<1>1. CASE StartRequest
  <2>1. pools' = pools \/ \E s \in Services : pools' = [pools EXCEPT ![s] = PoolPoll(@, now)]
    BY <1>1 DEF StartRequest
  <2>2. CASE pools' = pools
    BY <2>2 DEF HealthAlike, BackendAt, BackendsOf
  <2>3. CASE \E s \in Services : pools' = [pools EXCEPT ![s] = PoolPoll(@, now)]
    <3>1. PICK s \in Services : pools' = [pools EXCEPT ![s] = PoolPoll(@, now)]
      BY <2>3
    <3>2. PICK p \in PoolType : p = pools[s]
      BY <1>0 DEF PoolsOK
    <3>3. PICK q : q = PoolPoll(p, now)
      OBVIOUS
    <3>4. HealthKept(p, q)
      BY <1>0, <3>3, PolledPool DEF HealthKept, HealthAlike, SameStanding
    <3>5. pools' = [pools EXCEPT ![s] = q]
      BY <3>1, <3>2, <3>3
    <3> QED BY <1>0, <3>2, <3>4, <3>5, OnePoolHealth
  <2> QED BY <2>1, <2>2, <2>3
<1>2. CASE Send \/ GiveUp
  <2>0. call.phase = "selecting" /\ Target \in Services
    BY <1>2, InvFacts DEF Send, GiveUp, CallOK, Busy
  <2>1. PICK p \in PoolType : p = pools[Target]
    BY <1>0, <2>0 DEF PoolsOK
  <2>2. PICK r : r = Selection
    OBVIOUS
  <2>3. PICK S : S = Available(p, call.now, Tried)
    OBVIOUS
  <2>4. PICK u : u = r.pool
    OBVIOUS
  <2>5. Rebalanced(p, u) /\ (r.idx # None => r.idx \in Indices(u))
    BY <2>0, <2>1, <2>2, <2>3, <2>4, SelectionOK
  <2>6. u \in PoolType /\ HealthKept(p, u) /\ Indices(u) = Indices(p)
    BY <2>5, SelectionHealth DEF Rebalanced
  <2>7. CASE GiveUp
    <3>1. pools' = [pools EXCEPT ![Target] = u]
      BY <2>2, <2>4, <2>7 DEF GiveUp
    <3>2. PICK s \in Services : s = Target
      BY <2>0
    <3> QED BY <1>0, <2>1, <2>6, <3>1, <3>2, OnePoolHealth
  <2>8. CASE Send
    <3>1. PICK i : i = r.idx
      OBVIOUS
    <3>2. i \in Indices(u)
      BY <2>2, <2>5, <2>8, <3>1 DEF Send
    <3>3. PICK q : q = Begin(u, i)
      OBVIOUS
    <3>4. PICK n : n = u.backends[i].in_flight + 1
      OBVIOUS
    <3>5. Recounted(u, i, n, q)
      BY <2>6, <3>2, <3>3, <3>4, BegunCall
    <3>6. HealthKept(p, q)
      BY <2>6, <3>2, <3>5, RecountedHealth, HealthKeptTwice
    <3>7. pools' = [pools EXCEPT ![Target] = q]
      BY <2>2, <2>4, <2>8, <3>1, <3>3 DEF Send
    <3>8. PICK s \in Services : s = Target
      BY <2>0
    <3> QED BY <1>0, <2>1, <3>6, <3>7, <3>8, OnePoolHealth
  <2> QED BY <1>2, <2>7, <2>8
<1>3. CASE Succeed \/ Fail
  <2>0. call.phase = "sent" /\ Target \in Services /\ call.now \in Millis
        /\ call.idx \in DOMAIN PoolWeights[Target] /\ IsPoolOf(Target, pools[Target])
    BY <1>3, InvFacts DEF Succeed, SucceedAfter, Fail, CallOK, Busy
  <2>1. PICK p \in PoolType : p = pools[Target]
    BY <1>0, <2>0 DEF PoolsOK
  <2>2. PICK i \in Indices(p) : i = call.idx
    BY <2>0, <2>1 DEF IsPoolOf
  <2>3. PICK t \in Millis : t = call.now
    BY <2>0
  <2>4. PICK q : q = End(p, i)
    OBVIOUS
  <2>5. PICK s \in Services : s = Target
    BY <2>0
  <2>6. PICK z : /\ pools' = [pools EXCEPT ![s] = z]
                 /\ \E l \in Nat : \/ z = PoolRecordSuccess(q, i, t, l)
                                  \/ z = PoolRecordFailure(q, i, t)
    <3>1. DOMAIN pools = Services
      BY <1>0 DEF PoolsOK
    <3>2. CASE Fail
      <4>1. PICK z : z = PoolRecordFailure(q, i, t)
        OBVIOUS
      <4>2. pools' = [pools EXCEPT ![s] = z]
        BY <2>1, <2>2, <2>3, <2>4, <2>5, <3>1, <3>2, <4>1 DEF Fail
      <4>3. 0 \in Nat
        OBVIOUS
      <4> QED BY <4>1, <4>2, <4>3
    <3>3. CASE Succeed
      <4>1. PICK l \in Nat : SucceedAfter(l)
        BY <3>3, ProxyAssumption DEF Succeed
      <4>2. PICK z : z = PoolRecordSuccess(q, i, t, l)
        OBVIOUS
      <4>3. pools' = [pools EXCEPT ![s] = z]
        BY <2>1, <2>2, <2>3, <2>4, <2>5, <3>1, <4>1, <4>2 DEF SucceedAfter
      <4> QED BY <4>2, <4>3
    <3> QED BY <1>3, <3>2, <3>3
  <2>7. PICK n : n = SatSub(p.backends[i].in_flight, 1)
    OBVIOUS
  <2>8. Recounted(p, i, n, q)
    BY <2>4, <2>7, EndedCall
  <2>9. q \in PoolType /\ Indices(q) = Indices(p) /\ HealthKept(p, q)
    <3>1. HealthKept(p, q)
      BY <2>8, RecountedHealth
    <3> QED BY <2>8, <3>1 DEF Recounted, SameShape
  <2>10. /\ SameStanding(q.backends[i], z.backends[i])
         /\ \A j \in Indices(q) \ {i} : z.backends[j] = q.backends[j]
    BY <2>6, <2>9, RecordedOutcome
  <2>11. HealthKept(q, z)
    BY <2>10 DEF HealthKept, HealthAlike, SameStanding
  <2>12. HealthKept(p, z)
    BY <2>9, <2>11, HealthKeptTwice
  <2> QED BY <1>0, <2>1, <2>5, <2>6, <2>12, OnePoolHealth
<1> QED BY <1>1, <1>2, <1>3 DEF Handle

\* Of all that happens in a scenario, only probes touch active health.
LEMMA ScenarioHealth ==
    ASSUME ProxyInv, Scripted, [ScenarioNext]_scenarioVars, ~Probe
    PROVE  \A m \in Members : HealthAlike(BackendAt(m), BackendAt(m)')
<1>1. CASE Undispatched
  BY <1>1, RequestHealth DEF Undispatched, Handle
<1>2. CASE Dispatch
  <2>1. [Next]_vars
    BY <1>2, ScenarioIsStep DEF ScenarioNext
  <2>2. PICK m \in Members : m = <<Target, call.idx>>
    BY <1>2, TargetIsMember DEF Dispatch
  <2>3. PICK k \in MockType(ReplyLatencies) : k = mocks[m]
    BY DEF Scripted
  <2>4. PICK l \in ReplyLatencies : l = Reply(k).latency_ms
    BY MockAnswers DEF Reply, StepType
  <2>5. SucceedAfter(l) \/ Fail
    BY <1>2, <2>2, <2>3, <2>4 DEF Dispatch
  <2> QED BY <2>5, RequestHealth DEF Handle, Succeed
<1>3. CASE Reconfigure
  <2>0. PoolsOK
    BY InvFacts
  <2>1. PICK s \in Services, strategy \in Strategies :
            pools' = [pools EXCEPT ![s] = SetStrategy(pools[s], strategy)]
    BY <1>3, <2>0 DEF Reconfigure, Restrategize, PoolsOK
  <2>2. PICK p \in PoolType : p = pools[s]
    BY <2>0 DEF PoolsOK
  <2>3. PICK q : q = SetStrategy(p, strategy)
    OBVIOUS
  <2>4. HealthKept(p, q)
    BY <2>3 DEF SetStrategy, PoolType, HealthKept, HealthAlike
  <2> QED BY <2>0, <2>1, <2>2, <2>3, <2>4, OnePoolHealth
<1>4. CASE PushStep \/ PushLiveness \/ Tick \/ UNCHANGED scenarioVars
  <2>1. pools' = pools
    BY <1>4 DEF PushStep, PushLiveness, Tick, Advance, scenarioVars, vars
  <2> QED BY <2>1 DEF HealthAlike, BackendAt, BackendsOf
<1> QED BY <1>1, <1>2, <1>3, <1>4 DEF ScenarioNext

-----------------------------------------------------------------------------
\* The calls the upstreams counted.

CallsOf == [m \in Members |-> mocks[m].calls]

LEMMA CallsAre ==
    ASSUME Scripted
    PROVE  /\ IsFiniteSet(Members) /\ Calls = TotalOf(CallsOf, Members)
           /\ \A m \in Members : CallsOf[m] \in Nat /\ CallsOf[m] = mocks[m].calls
           /\ Calls \in Int
<1>1. \A m \in Members : CallsOf[m] \in Nat /\ CallsOf[m] = mocks[m].calls
  BY DEF Scripted, CallsOf, MockType
<1>2. PICK w : w = CallsOf
  OBVIOUS
<1>3. PICK S : S = Members
  OBVIOUS
<1>4. IsFiniteSet(S) /\ \A m \in S : w[m] \in Int
  BY <1>1, <1>2, <1>3, ScenarioAssumption
<1>5. TotalOf(w, S) \in Int
  BY <1>4, TotalType
<1>6. Calls = TotalOf(CallsOf, Members)
  BY DEF Calls, CallsOf
<1> QED BY <1>1, <1>2, <1>3, <1>4, <1>5, <1>6

LEMMA CallsStand ==
    ASSUME Scripted, Scripted', \A m \in Members : mocks'[m].calls = mocks[m].calls
    PROVE  Calls' = Calls
<1>1. Calls' = TotalOf(CallsOf', Members)
  BY DEF Calls, CallsOf, Members, Services
<1>2. CallsOf' = [m \in Members |-> mocks'[m].calls]
  BY DEF CallsOf, Members, Services
<1>3. \A m \in Members : CallsOf'[m] = CallsOf[m]
  BY <1>2 DEF CallsOf
<1>4. PICK w : w = CallsOf
  OBVIOUS
<1>5. PICK v : v = CallsOf'
  OBVIOUS
<1>6. PICK S : S = Members
  OBVIOUS
<1>7. TotalOf(v, S) = TotalOf(w, S)
  BY <1>3, <1>4, <1>5, <1>6, CallsAre, TotalAlike
<1> QED BY <1>1, <1>4, <1>5, <1>6, <1>7, CallsAre

LEMMA CallsGrow ==
    ASSUME Scripted, Scripted', NEW x \in Members, mocks'[x].calls = mocks[x].calls + 1,
           \A m \in Members \ {x} : mocks'[m].calls = mocks[m].calls
    PROVE  Calls' = Calls + 1
<1>1. Calls' = TotalOf(CallsOf', Members)
  BY DEF Calls, CallsOf, Members, Services
<1>2. CallsOf' = [m \in Members |-> mocks'[m].calls]
  BY DEF CallsOf, Members, Services
<1>3. PICK w : w = CallsOf
  OBVIOUS
<1>4. PICK v : v = CallsOf'
  OBVIOUS
<1>5. PICK S : S = Members
  OBVIOUS
<1>6. /\ \A m \in S \ {x} : v[m] = w[m]
      /\ v[x] = w[x] + 1 /\ \A m \in S : w[m] \in Int
  BY <1>2, <1>3, <1>4, <1>5, CallsAre DEF CallsOf
<1>7. \A m \in S : v[m] \in Int
  BY <1>6
<1>8. PICK T : T = S \ {x}
  OBVIOUS
<1>9. IsFiniteSet(S) /\ IsFiniteSet(T)
  BY <1>5, <1>8, CallsAre, FS_Subset
<1>10. TotalOf(v, T) = TotalOf(w, T)
  BY <1>6, <1>8, <1>9, TotalAlike
<1>a. x \in S
  BY <1>5
<1>11. TotalOf(w, S) = w[x] + TotalOf(w, T)
  <2>1. TotalOf(w, S) = w[x] + TotalOf(w, S \ {x})
    BY <1>6, <1>9, <1>a, TotalWithout
  <2> QED BY <1>8, <2>1
<1>12. TotalOf(v, S) = v[x] + TotalOf(v, T)
  <2>1. TotalOf(v, S) = v[x] + TotalOf(v, S \ {x})
    BY <1>7, <1>9, <1>a, TotalWithout
  <2> QED BY <1>8, <2>1
<1>13. TotalOf(w, T) \in Int
  BY <1>6, <1>8, <1>9, TotalType
<1>14. w[x] \in Int
  BY <1>5, <1>6
<1>15. TotalOf(v, S) = TotalOf(w, S) + 1
  BY <1>6, <1>10, <1>11, <1>12, <1>13, <1>14
<1> QED BY <1>1, <1>3, <1>4, <1>5, <1>15, CallsAre

\* The call of the open request that no upstream has counted yet.
Waiting ==
    IF call.phase = "sent" \/ (call.phase = "selecting" /\ call.tried = <<>>) THEN 1 ELSE 0

\* AmplificationBounded says nothing of that call, so it is not inductive.
CallsCovered ==
    MaxTotal # 0 => Calls + Waiting <= total.requests + total.failovers

LEMMA CoveredStep ==
    ASSUME ProxyInv, Scripted, CallsCovered, [ScenarioNext]_scenarioVars, MaxTotal # 0
    PROVE  CallsCovered'
<1>0. /\ Scripted' /\ total \in Totals
      /\ total.requests \in Nat /\ total.failovers \in Nat
  BY ScriptedStep, AccountsTypes DEF ProxyInv, Accounts
<1>1. PICK n \in Int : n = Calls
  BY CallsAre
<1>2. n + Waiting <= total.requests + total.failovers
  BY <1>1 DEF CallsCovered
<1>3. CASE Dispatch
  <2>1. PICK x \in Members : x = <<Target, call.idx>>
    BY <1>3, TargetIsMember DEF Dispatch
  <2>2. PICK k \in MockType(ReplyLatencies) : k = mocks[x]
    BY DEF Scripted
  <2>3. PICK l : l = AfterSend(k)
    OBVIOUS
  <2>4. mocks' = [mocks EXCEPT ![x] = l] /\ l.calls = k.calls + 1
    BY <1>3, <2>1, <2>2, <2>3, MockAnswers DEF Dispatch, Scripted
  <2>5. mocks'[x] = l /\ \A m \in Members \ {x} : mocks'[m] = mocks[m]
    BY <2>4 DEF Scripted
  <2>6. Calls' = n + 1
    BY <1>0, <1>1, <2>2, <2>4, <2>5, CallsGrow
  <2>7. Waiting = 1 /\ Waiting' = 0
    <3>1. call.phase = "sent"
      BY <1>3 DEF Dispatch
    <3>2. call' = NoCall \/ (call'.phase = "selecting" /\ call'.tried = Append(call.tried, call.idx))
      BY <1>3 DEF Dispatch, SucceedAfter, Fail, Return
    <3>3. CASE call' = NoCall
      BY <3>1, <3>3 DEF Waiting, NoCall
    <3>4. CASE call'.phase = "selecting" /\ call'.tried = Append(call.tried, call.idx)
      <4>1. PICK t \in Seq(Tried) : t = call.tried
        BY <3>1 DEF ProxyInv, Accounts, CallShape, Busy
      <4>2. Append(t, call.idx) # <<>>
        OBVIOUS
      <4> QED BY <3>1, <3>4, <4>1, <4>2 DEF Waiting
    <3> QED BY <3>2, <3>3, <3>4
  <2>8. total'.requests = total.requests /\ total'.failovers = total.failovers
    <3>1. total' = total \/ total' = [total EXCEPT !.retries = @ + 1]
      BY <1>3 DEF Dispatch, SucceedAfter, Fail, Count
    <3> QED BY <1>0, <3>1, CountRetry
  <2> QED BY <1>0, <1>2, <2>6, <2>7, <2>8 DEF CallsCovered
<1>4. CASE ~Dispatch
  <2>1. \A m \in Members : mocks'[m].calls = mocks[m].calls
    <3>1. SUFFICES ASSUME NEW m \in Members PROVE mocks'[m].calls = mocks[m].calls
      OBVIOUS
    <3>2. PICK k \in MockType(ReplyLatencies) : k = mocks[m]
      BY DEF Scripted
    <3>3. CASE PushStep
      <4>1. PICK x \in Members, step \in StepType(ReplyLatencies) :
                mocks' = [mocks EXCEPT ![x] = Push(@, step)]
        BY <3>3, ScenarioAssumption DEF PushStep
      <4>2. mocks'[m] \in {k, Push(k, step)}
        BY <3>2, <4>1 DEF Scripted
      <4> QED BY <3>2, <4>2, MockPushed
    <3>4. CASE PushLiveness
      <4>1. PICK x \in Members, live \in BOOLEAN :
                mocks' = [mocks EXCEPT ![x] = PushProbe(@, live)]
        BY <3>4 DEF PushLiveness
      <4>2. mocks'[m] \in {k, PushProbe(k, live)}
        BY <3>2, <4>1 DEF Scripted
      <4> QED BY <3>2, <4>2, MockProbePushed
    <3>5. CASE Probe
      <4>1. mocks'[m] \in {k, AfterProbe(k)}
        BY <3>2, <3>5 DEF Probe
      <4> QED BY <3>2, <4>1, MockProbed
    <3>6. CASE Undispatched \/ Tick \/ Reconfigure \/ UNCHANGED scenarioVars
      BY <3>6 DEF Undispatched, Tick, Reconfigure, scenarioVars
    <3> QED BY <1>4, <3>3, <3>4, <3>5, <3>6 DEF ScenarioNext
  <2>2. Calls' = n
    BY <1>0, <1>1, <2>1, CallsStand
  <2>3. /\ total'.requests \in Nat /\ total'.failovers \in Nat
        /\ n + Waiting' <= total'.requests + total'.failovers
    <3>1. CASE StartRequest
      <4>1. total' = [total EXCEPT !.requests = @ + 1]
        BY <3>1 DEF StartRequest, Count
      <4>2. Waiting = 0 /\ Waiting' \in 0 .. 1
        BY <3>1 DEF StartRequest, Busy, Waiting
      <4> QED BY <1>0, <1>2, <4>1, <4>2, CountRequest
    <3>2. CASE Send
      <4>1. call'.phase = "sent" /\ call.phase = "selecting"
            /\ total' = IF call.tried = <<>> THEN total ELSE [total EXCEPT !.failovers = @ + 1]
        BY <3>2 DEF Send, Count
      <4>2. CASE call.tried = <<>>
        BY <1>0, <1>2, <4>1, <4>2 DEF Waiting
      <4>3. CASE call.tried # <<>>
        <5>1. Waiting = 0 /\ Waiting' = 1
          BY <4>1, <4>3 DEF Waiting
        <5>2. total'.requests = total.requests /\ total'.failovers = total.failovers + 1
          BY <1>0, <4>1, <4>3, CountFailover
        <5> QED BY <1>0, <1>2, <5>1, <5>2
      <4> QED BY <4>2, <4>3
    <3>3. CASE GiveUp
      <4>1. total' = total /\ Waiting' = 0 /\ Waiting \in 0 .. 1
        BY <3>3 DEF GiveUp, Return, NoCall, Waiting
      <4> QED BY <1>0, <1>2, <4>1
    <3>4. CASE PushStep \/ PushLiveness \/ Probe \/ Tick \/ Reconfigure \/ UNCHANGED scenarioVars
      <4>1. total' = total /\ call' = call
        BY <3>4 DEF PushStep, PushLiveness, Probe, CheckHealthBut, Tick, Advance,
                    Reconfigure, Restrategize, scenarioVars, vars
      <4>2. Waiting' = Waiting
        BY <4>1 DEF Waiting
      <4> QED BY <1>0, <1>2, <4>1, <4>2
    <3> QED BY <1>4, <3>1, <3>2, <3>3, <3>4 DEF ScenarioNext, Undispatched
  <2> QED BY <2>2, <2>3 DEF CallsCovered
<1> QED BY <1>3, <1>4

(***************************************************************************)
(* By the upstreams' own count the proxy's clients cause no more calls     *)
(* than requests and paid retries, whatever the script: in front of        *)
(* upstreams that fail for ever, too.  Of MaxTotal only that totals are    *)
(* kept, that is that it is not zero (proxy.rs handle; gate 5, retry       *)
(* amplification).                                                         *)
(***************************************************************************)
THEOREM CallsAreBounded == MaxTotal > 0 => (ScenarioSpec => []AmplificationBounded)
<1> SUFFICES ASSUME MaxTotal > 0 PROVE ScenarioSpec => []AmplificationBounded
  OBVIOUS
<1>0. MaxTotal # 0
  BY ProxyAssumption
<1>1. ScenarioInit => CallsCovered
  <2> SUFFICES ASSUME ScenarioInit PROVE Calls + Waiting <= total.requests + total.failovers
    BY DEF CallsCovered
  <2>1. Scripted
    BY ScenarioAssumption DEF ScenarioInit, Init, Scripted
  <2>2. \A m \in Members : CallsOf[m] = 0
    BY ScenarioAssumption DEF ScenarioInit, CallsOf
  <2>3. PICK w : w = CallsOf
    OBVIOUS
  <2>4. PICK S : S = Members
    OBVIOUS
  <2>5. TotalOf(w, S) = 0
    BY <2>1, <2>2, <2>3, <2>4, CallsAre, TotalZero
  <2>6. Calls = 0
    BY <2>1, <2>3, <2>4, <2>5, CallsAre
  <2>7. Waiting = 0 /\ total.requests = 0 /\ total.failovers = 0
    BY DEF ScenarioInit, Init, NoCall, Waiting
  <2> QED BY <2>6, <2>7
<1>2. ProxyInv /\ Scripted /\ CallsCovered /\ [ScenarioNext]_scenarioVars => CallsCovered'
  BY <1>0, CoveredStep
<1>3. ProxyInv /\ Scripted /\ CallsCovered /\ RetriesPaidFor => AmplificationBounded
  <2> SUFFICES ASSUME ProxyInv, Scripted, CallsCovered, RetriesPaidFor
               PROVE  AmplificationBounded
    OBVIOUS
  <2>1. PICK n \in Int : n = Calls
    BY CallsAre
  <2>2. PICK q \in Nat, f \in Nat, r \in Nat, t \in Nat :
            q = total.requests /\ f = total.failovers /\ r = total.retries /\ t = tokens
    BY AccountsTypes DEF ProxyInv
  <2>3. n <= q + f
    <3>1. Waiting \in 0 .. 1
      BY DEF Waiting
    <3> QED BY <1>0, <2>1, <2>2, <3>1 DEF CallsCovered
  <2>4. RetryCostMilli * r + t <= MaxMilli + DepositMilli * q /\ f <= r
    BY <2>2 DEF RetriesPaidFor
  <2>5. RetryCostMilli * (n - q) <= RetryCostMilli * r
    <3>1. PICK c \in Nat : c = RetryCostMilli
      OBVIOUS
    <3>2. PICK d \in Nat : d = r - (n - q)
      BY <2>3, <2>4
    <3>3. c * d >= 0 /\ n - q = r - d
      BY <3>2
    <3>4. c * (r - d) = c * r - c * d
      BY <3>2
    <3>5. c * r \in Int /\ c * d \in Int
      OBVIOUS
    <3> QED BY <3>1, <3>3, <3>4, <3>5
  <2>6. RetryCostMilli * (n - q) \in Int /\ RetryCostMilli * r \in Int
        /\ DepositMilli * q \in Int /\ MaxMilli \in Int
    OBVIOUS
  <2>7. RetryCostMilli * (n - q) <= MaxMilli + DepositMilli * q
    BY <2>4, <2>5, <2>6
  <2> QED BY <2>1, <2>2, <2>3, <2>7 DEF AmplificationBounded
<1> QED BY <1>1, <1>2, <1>3, ScenarioHolds, ScenarioIsProxy, RetriesArePaidFor, PTL
        DEF ScenarioSpec

-----------------------------------------------------------------------------
\* The runs of probes, and when they happen.

StreakType == [live : BOOLEAN, length : 0 .. MaxStreak]

\* What a backend's counters know of the last run of probes: they start over
\* with each run, and what they count falls short of the threshold.
Told(b, s) ==
    /\ s.length = 0 => b.probe_successes = 0 /\ b.probe_failures = 0
    /\ s.length > 0 /\ s.live =>
          /\ b.probe_failures = 0
          /\ ~b.healthy => /\ b.probe_successes = s.length
                           /\ s.length < AtLeastOne(HealthyProbeThreshold)
    /\ s.length > 0 /\ ~s.live =>
          /\ b.probe_successes = 0
          /\ b.healthy => /\ b.probe_failures = s.length
                          /\ s.length < AtLeastOne(UnhealthyProbeThreshold)

\* At time t: the last probe, at p, is not of the future, and the last health
\* check, at c, left none due.
InStep(p, t, c) ==
    /\ p # None => p <= t
    /\ ProbeIntervalMs > 0 /\ c # None => p # None /\ c - p < ProbeIntervalMs

LEMMA StreakFacts ==
    /\ MaxStreak \in Nat
    /\ AtLeastOne(HealthyProbeThreshold) \in 1 .. MaxStreak
    /\ AtLeastOne(UnhealthyProbeThreshold) \in 1 .. MaxStreak
BY HealthAssumption DEF MaxStreak, AtLeastOne

LEMMA LongerRun ==
    ASSUME NEW s \in StreakType, NEW live \in BOOLEAN, NEW z, z = Longer(s, live)
    PROVE  /\ z \in StreakType /\ z.live = live /\ z.length >= 1
           /\ s.live = live /\ s.length > 0 => z.length = Capped(s.length + 1, MaxStreak)
           /\ ~(s.live = live /\ s.length > 0) => z.length = 1
<1>1. PICK n \in 0 .. MaxStreak : n = s.length
  BY DEF StreakType
<1>2. PICK m \in Nat \ {0} : m = MaxStreak
  BY StreakFacts
<1>3. CASE s.live = live /\ n > 0
  <2>1. PICK k \in 0 .. MaxStreak : k = Capped(n + 1, MaxStreak) /\ k >= 1
    BY <1>2 DEF Capped
  <2>2. z = [s EXCEPT !.length = k]
    BY <1>1, <1>3, <2>1 DEF Longer, StreakType
  <2> QED BY <1>1, <1>3, <2>1, <2>2 DEF StreakType
<1>4. CASE ~(s.live = live /\ n > 0)
  <2>1. z = [live |-> live, length |-> 1] /\ 1 \in 0 .. MaxStreak
    BY <1>1, <1>2, <1>4 DEF Longer
  <2> QED BY <1>1, <1>4, <2>1 DEF StreakType
<1> QED BY <1>3, <1>4

LEMMA CountsRun ==
    ASSUME NEW h \in Nat, NEW m \in Nat, AtLeastOne(h) <= m,
           NEW n \in Nat, n < AtLeastOne(h)
    PROVE  /\ CountTo(n, h) = n + 1 /\ Capped(n + 1, m) = n + 1
           /\ n + 1 >= h <=> n + 1 >= AtLeastOne(h)
BY DEF CountTo, Capped, AtLeastOne

\* What a probe makes of a backend (pool.rs run_health_checks).
LEMMA GoodProbe ==
    ASSUME NEW b \in BackendType, NEW c, c = ProbeLive(b),
           NEW n, n = CountTo(b.probe_successes, HealthyProbeThreshold)
    PROVE  /\ c \in BackendType /\ c.probe_failures = 0
           /\ b.healthy = FALSE /\ n >= HealthyProbeThreshold
                 => c.healthy = TRUE /\ c.probe_successes = 0
           /\ ~(b.healthy = FALSE /\ n >= HealthyProbeThreshold)
                 => c.healthy = b.healthy /\ c.probe_successes = n
<1>0. /\ n \in UpTo(HealthyProbeThreshold)
      /\ 0 \in UpTo(HealthyProbeThreshold) /\ 0 \in UpTo(UnhealthyProbeThreshold)
  BY HealthAssumption, CountToType DEF BackendType, UpTo, AtLeastOne
<1>1. PICK d : d = [b EXCEPT !.probe_failures = 0, !.probe_successes = n]
  OBVIOUS
<1>2. d \in BackendType /\ d.probe_failures = 0 /\ d.probe_successes = n /\ d.healthy = b.healthy
  BY <1>0, <1>1 DEF BackendType
<1>3. CASE b.healthy = FALSE /\ n >= HealthyProbeThreshold
  <2>1. c = [d EXCEPT !.healthy = TRUE, !.probe_successes = 0]
    BY <1>1, <1>2, <1>3 DEF ProbeLive, BackendType
  <2>2. c \in BackendType
    BY <1>0, <1>2, <2>1, ZenonT(60) DEF BackendType
  <2>3. c.probe_failures = 0 /\ c.healthy = TRUE /\ c.probe_successes = 0
    BY <1>2, <2>1 DEF BackendType
  <2> QED BY <1>3, <2>2, <2>3
<1>4. CASE ~(b.healthy = FALSE /\ n >= HealthyProbeThreshold)
  <2>1. c = d
    BY <1>1, <1>2, <1>4 DEF ProbeLive, BackendType
  <2> QED BY <1>2, <1>4, <2>1
<1> QED BY <1>3, <1>4

LEMMA BadProbe ==
    ASSUME NEW b \in BackendType, NEW c, c = ProbeDead(b),
           NEW n, n = CountTo(b.probe_failures, UnhealthyProbeThreshold)
    PROVE  /\ c \in BackendType /\ c.probe_successes = 0
           /\ b.healthy = TRUE /\ n >= UnhealthyProbeThreshold
                 => c.healthy = FALSE /\ c.probe_failures = 0
           /\ ~(b.healthy = TRUE /\ n >= UnhealthyProbeThreshold)
                 => c.healthy = b.healthy /\ c.probe_failures = n
<1>0. /\ n \in UpTo(UnhealthyProbeThreshold)
      /\ 0 \in UpTo(UnhealthyProbeThreshold) /\ 0 \in UpTo(HealthyProbeThreshold)
  BY HealthAssumption, CountToType DEF BackendType, UpTo, AtLeastOne
<1>1. PICK d : d = [b EXCEPT !.probe_successes = 0, !.probe_failures = n]
  OBVIOUS
<1>2. d \in BackendType /\ d.probe_successes = 0 /\ d.probe_failures = n /\ d.healthy = b.healthy
  BY <1>0, <1>1 DEF BackendType
<1>3. CASE b.healthy = TRUE /\ n >= UnhealthyProbeThreshold
  <2>1. c = [d EXCEPT !.healthy = FALSE, !.probe_failures = 0]
    BY <1>1, <1>2, <1>3 DEF ProbeDead, BackendType
  <2>2. c \in BackendType
    BY <1>0, <1>2, <2>1, ZenonT(60) DEF BackendType
  <2>3. c.probe_successes = 0 /\ c.healthy = FALSE /\ c.probe_failures = 0
    BY <1>2, <2>1 DEF BackendType
  <2> QED BY <1>3, <2>2, <2>3
<1>4. CASE ~(b.healthy = TRUE /\ n >= UnhealthyProbeThreshold)
  <2>1. c = d
    BY <1>1, <1>2, <1>4 DEF ProbeDead, BackendType
  <2> QED BY <1>2, <1>4, <2>1
<1> QED BY <1>3, <1>4

\* The health a run of probes leads to.
Verdict(b, z) == IF Believed(z) THEN z.live ELSE b.healthy

LEMMA ToldLive ==
    ASSUME NEW b \in BackendType, NEW s \in StreakType, Told(b, s),
           NEW c, c = ProbeLive(b),
           NEW z, NEW y \in Nat, y > 0, z.length = y, z.live = TRUE,
           s.live = TRUE /\ s.length > 0 => y = Capped(s.length + 1, MaxStreak),
           ~(s.live = TRUE /\ s.length > 0) => y = 1
    PROVE  Told(c, z) /\ c.healthy = Verdict(b, z)
<1>1. PICK n : n = CountTo(b.probe_successes, HealthyProbeThreshold)
  OBVIOUS
<1>2. /\ c.probe_failures = 0
      /\ b.healthy = FALSE /\ n >= HealthyProbeThreshold
            => c.healthy = TRUE /\ c.probe_successes = 0
      /\ ~(b.healthy = FALSE /\ n >= HealthyProbeThreshold)
            => c.healthy = b.healthy /\ c.probe_successes = n
  BY <1>1, GoodProbe
<1>3. PICK h \in Nat : h = HealthyProbeThreshold
  BY HealthAssumption
<1>4. Believed(z) <=> y >= AtLeastOne(h)
  BY <1>3 DEF Believed
<1>5. CASE b.healthy = TRUE
  <2>1. c.healthy = TRUE /\ Verdict(b, z) = TRUE
    BY <1>2, <1>5 DEF Verdict
  <2>2. Told(c, z)
    BY <1>2, <2>1 DEF Told
  <2> QED BY <2>1, <2>2
<1>6. CASE b.healthy = FALSE
  <2>1. PICK k \in Nat : k = b.probe_successes /\ k < AtLeastOne(h)
                         /\ (s.live = TRUE /\ s.length > 0 => s.length = k)
                         /\ (~(s.live = TRUE /\ s.length > 0) => k = 0)
    BY <1>3, <1>6 DEF Told, StreakType, BackendType, UpTo, AtLeastOne
  <2>2. n = k + 1 /\ Capped(k + 1, MaxStreak) = k + 1
        /\ (k + 1 >= h <=> k + 1 >= AtLeastOne(h))
    <3>1. PICK m \in Nat : m = MaxStreak /\ AtLeastOne(h) <= m
      BY <1>3, StreakFacts
    <3> QED BY <1>1, <1>3, <2>1, <3>1, CountsRun
  <2>3. y = k + 1
    <3>1. CASE s.live = TRUE /\ s.length > 0
      BY <2>1, <2>2, <3>1
    <3>2. CASE ~(s.live = TRUE /\ s.length > 0)
      BY <2>1, <3>2
    <3> QED BY <3>1, <3>2
  <2>4. AtLeastOne(h) \in Nat
    BY DEF AtLeastOne
  <2>5. CASE k + 1 >= h
    <3>1. c.healthy = TRUE /\ c.probe_failures = 0
      BY <1>2, <1>3, <1>6, <2>2, <2>5
    <3>2. Verdict(b, z) = TRUE
      BY <1>4, <2>2, <2>3, <2>5 DEF Verdict
    <3>3. Told(c, z)
      BY <3>1 DEF Told
    <3> QED BY <3>1, <3>2, <3>3
  <2>6. CASE ~(k + 1 >= h)
    <3>1. c.healthy = FALSE /\ c.probe_failures = 0 /\ c.probe_successes = k + 1
      BY <1>2, <1>3, <1>6, <2>2, <2>6
    <3>2. k + 1 < AtLeastOne(h)
      BY <2>2, <2>4, <2>6
    <3>3. Verdict(b, z) = FALSE
      BY <1>4, <1>6, <2>2, <2>3, <2>6 DEF Verdict
    <3>4. c.probe_successes = y /\ y < AtLeastOne(HealthyProbeThreshold)
      BY <1>3, <2>3, <3>1, <3>2
    <3> QED BY <3>1, <3>3, <3>4 DEF Told
  <2> QED BY <2>5, <2>6
<1> QED BY <1>5, <1>6 DEF BackendType

LEMMA ToldDead ==
    ASSUME NEW b \in BackendType, NEW s \in StreakType, Told(b, s),
           NEW c, c = ProbeDead(b),
           NEW z, NEW y \in Nat, y > 0, z.length = y, z.live = FALSE,
           s.live = FALSE /\ s.length > 0 => y = Capped(s.length + 1, MaxStreak),
           ~(s.live = FALSE /\ s.length > 0) => y = 1
    PROVE  Told(c, z) /\ c.healthy = Verdict(b, z)
<1>1. PICK n : n = CountTo(b.probe_failures, UnhealthyProbeThreshold)
  OBVIOUS
<1>2. /\ c.probe_successes = 0
      /\ b.healthy = TRUE /\ n >= UnhealthyProbeThreshold
            => c.healthy = FALSE /\ c.probe_failures = 0
      /\ ~(b.healthy = TRUE /\ n >= UnhealthyProbeThreshold)
            => c.healthy = b.healthy /\ c.probe_failures = n
  BY <1>1, BadProbe
<1>3. PICK h \in Nat : h = UnhealthyProbeThreshold
  BY HealthAssumption
<1>4. Believed(z) <=> y >= AtLeastOne(h)
  BY <1>3 DEF Believed
<1>5. CASE b.healthy = FALSE
  <2>1. c.healthy = FALSE /\ Verdict(b, z) = FALSE
    BY <1>2, <1>5 DEF Verdict
  <2>2. Told(c, z)
    BY <1>2, <2>1 DEF Told
  <2> QED BY <2>1, <2>2
<1>6. CASE b.healthy = TRUE
  <2>1. PICK k \in Nat : k = b.probe_failures /\ k < AtLeastOne(h)
                         /\ (s.live = FALSE /\ s.length > 0 => s.length = k)
                         /\ (~(s.live = FALSE /\ s.length > 0) => k = 0)
    BY <1>3, <1>6 DEF Told, StreakType, BackendType, UpTo, AtLeastOne
  <2>2. n = k + 1 /\ Capped(k + 1, MaxStreak) = k + 1
        /\ (k + 1 >= h <=> k + 1 >= AtLeastOne(h))
    <3>1. PICK m \in Nat : m = MaxStreak /\ AtLeastOne(h) <= m
      BY <1>3, StreakFacts
    <3> QED BY <1>1, <1>3, <2>1, <3>1, CountsRun
  <2>3. y = k + 1
    <3>1. CASE s.live = FALSE /\ s.length > 0
      BY <2>1, <2>2, <3>1
    <3>2. CASE ~(s.live = FALSE /\ s.length > 0)
      BY <2>1, <3>2
    <3> QED BY <3>1, <3>2
  <2>4. AtLeastOne(h) \in Nat
    BY DEF AtLeastOne
  <2>5. CASE k + 1 >= h
    <3>1. c.healthy = FALSE /\ c.probe_successes = 0
      BY <1>2, <1>3, <1>6, <2>2, <2>5
    <3>2. Verdict(b, z) = FALSE
      BY <1>4, <2>2, <2>3, <2>5 DEF Verdict
    <3>3. Told(c, z)
      BY <3>1 DEF Told
    <3> QED BY <3>1, <3>2, <3>3
  <2>6. CASE ~(k + 1 >= h)
    <3>1. c.healthy = TRUE /\ c.probe_successes = 0 /\ c.probe_failures = k + 1
      BY <1>2, <1>3, <1>6, <2>2, <2>6
    <3>2. k + 1 < AtLeastOne(h)
      BY <2>2, <2>4, <2>6
    <3>3. Verdict(b, z) = TRUE
      BY <1>4, <1>6, <2>2, <2>3, <2>6 DEF Verdict
    <3>4. c.probe_failures = y /\ y < AtLeastOne(UnhealthyProbeThreshold)
      BY <1>3, <2>3, <3>1, <3>2
    <3> QED BY <3>1, <3>3, <3>4 DEF Told
  <2> QED BY <2>5, <2>6
<1> QED BY <1>5, <1>6 DEF BackendType

\* Without a probe the last run has had its say.
LEMMA ToldStands ==
    ASSUME NEW b \in BackendType, NEW s \in StreakType, Told(b, s)
    PROVE  b.healthy = Verdict(b, s)
<1>1. CASE ~Believed(s)
  BY <1>1 DEF Verdict
<1>2. CASE Believed(s)
  <2>1. PICK h \in Nat \ {0} : h = AtLeastOne(HealthyProbeThreshold)
    BY StreakFacts
  <2>2. PICK u \in Nat \ {0} : u = AtLeastOne(UnhealthyProbeThreshold)
    BY StreakFacts
  <2>3. PICK n \in Nat : n = s.length
    BY StreakFacts DEF StreakType
  <2>4. CASE s.live = TRUE
    <3>1. n >= h
      BY <1>2, <2>1, <2>3, <2>4 DEF Believed
    <3>2. b.healthy
      BY <2>1, <2>3, <2>4, <3>1 DEF Told
    <3> QED BY <1>2, <2>4, <3>2 DEF Verdict, BackendType
  <2>5. CASE s.live = FALSE
    <3>1. n >= u
      BY <1>2, <2>2, <2>3, <2>5 DEF Believed
    <3>2. ~b.healthy
      BY <2>2, <2>3, <2>5, <3>1 DEF Told
    <3> QED BY <1>2, <2>5, <3>2 DEF Verdict, BackendType
  <2> QED BY <2>4, <2>5 DEF StreakType
<1> QED BY <1>1, <1>2

LEMMA ToldProbe ==
    ASSUME NEW b \in BackendType, NEW t \in Millis, ProbeDue(b, t),
           NEW s \in StreakType, Told(b, s), NEW live \in BOOLEAN,
           NEW c, c = HealthCheck(b, t, live), NEW z, z = Longer(s, live)
    PROVE  Told(c, z) /\ c.healthy = Verdict(b, z) /\ c.last_probe = t
<1>1. /\ z \in StreakType /\ z.live = live /\ z.length >= 1
      /\ s.live = live /\ s.length > 0 => z.length = Capped(s.length + 1, MaxStreak)
      /\ ~(s.live = live /\ s.length > 0) => z.length = 1
  BY LongerRun
<1>2. PICK y \in Nat : y = z.length /\ y > 0
  <2>1. z.length \in 0 .. MaxStreak /\ z.length >= 1 /\ MaxStreak \in Nat
    BY <1>1, StreakFacts DEF StreakType
  <2> QED BY <2>1
<1>3. PICK e : e = IF live THEN ProbeLive(b) ELSE ProbeDead(b)
  OBVIOUS
<1>4. e \in BackendType /\ Told(e, z) /\ e.healthy = Verdict(b, z)
  <2>1. CASE live = TRUE
    <3>1. PICK f : f = ProbeLive(b)
      OBVIOUS
    <3>2. e = f
      BY <1>3, <2>1, <3>1
    <3>3. f \in BackendType
      <4>1. PICK n : n = CountTo(b.probe_successes, HealthyProbeThreshold)
        OBVIOUS
      <4> QED BY <3>1, <4>1, GoodProbe
    <3>4. /\ z.live = TRUE
          /\ s.live = TRUE /\ s.length > 0 => y = Capped(s.length + 1, MaxStreak)
          /\ ~(s.live = TRUE /\ s.length > 0) => y = 1
      BY <1>1, <1>2, <2>1
    <3>5. Told(f, z) /\ f.healthy = Verdict(b, z)
      BY <1>2, <3>1, <3>4, ToldLive, ZenonT(60)
    <3> QED BY <3>2, <3>3, <3>5
  <2>2. CASE live = FALSE
    <3>1. PICK f : f = ProbeDead(b)
      OBVIOUS
    <3>2. e = f
      BY <1>3, <2>2, <3>1
    <3>3. f \in BackendType
      <4>1. PICK n : n = CountTo(b.probe_failures, UnhealthyProbeThreshold)
        OBVIOUS
      <4> QED BY <3>1, <4>1, BadProbe
    <3>4. /\ z.live = FALSE
          /\ s.live = FALSE /\ s.length > 0 => y = Capped(s.length + 1, MaxStreak)
          /\ ~(s.live = FALSE /\ s.length > 0) => y = 1
      BY <1>1, <1>2, <2>2
    <3>5. Told(f, z) /\ f.healthy = Verdict(b, z)
      BY <1>2, <3>1, <3>4, ToldDead
    <3> QED BY <3>2, <3>3, <3>5
  <2> QED BY <2>1, <2>2
<1>5. c = [e EXCEPT !.last_probe = t]
  BY <1>3 DEF HealthCheck
<1>6. /\ c.healthy = e.healthy /\ c.last_probe = t
      /\ c.probe_failures = e.probe_failures /\ c.probe_successes = e.probe_successes
  BY <1>4, <1>5 DEF BackendType
<1> QED BY <1>4, <1>6 DEF Told

\* A health check at t finds a probe due: the last one is an interval ago.
LEMMA DueInStep ==
    ASSUME NEW b \in BackendType, NEW t \in Millis, NEW c,
           InStep(b.last_probe, t, c), ProbeDue(b, t), b.last_probe # None
    PROVE  t - b.last_probe >= ProbeIntervalMs
<1>1. PICK l \in Millis : l = b.last_probe
  BY DEF BackendType, OptMillis
<1>2. t \in Nat /\ l \in Nat
  BY MaxClockAssumption DEF Millis
<1>3. l <= t /\ SatSub(t, l) >= ProbeIntervalMs
  BY <1>1 DEF InStep, ProbeDue
<1> QED BY <1>1, <1>2, <1>3 DEF SatSub

\* A probe keeps the step, and so does a check that finds none due.
LEMMA CheckedInStep ==
    ASSUME NEW b \in BackendType, NEW t \in Millis, NEW c, InStep(b.last_probe, t, c)
    PROVE  /\ InStep(t, t, t)
           /\ ~ProbeDue(b, t) => InStep(b.last_probe, t, t)
<1>1. PICK g \in Nat : g = ProbeIntervalMs
  BY HealthAssumption
<1>2. t \in Nat /\ t # None
  BY MaxClockAssumption DEF Millis, None
<1>3. InStep(t, t, t)
  BY <1>1, <1>2 DEF InStep
<1>4. ASSUME ~ProbeDue(b, t) PROVE InStep(b.last_probe, t, t)
  <2>1. PICK l \in Nat : l = b.last_probe /\ l # None
    BY <1>4, MaxClockAssumption DEF ProbeDue, BackendType, OptMillis, Millis
  <2>2. l <= t /\ ~(SatSub(t, l) >= g)
    BY <1>1, <1>4, <2>1 DEF InStep, ProbeDue
  <2>3. t - l < g
    BY <1>1, <1>2, <2>2 DEF SatSub
  <2> QED BY <1>1, <2>1, <2>2, <2>3 DEF InStep
<1> QED BY <1>3, <1>4

\* Time passes without a check.
LEMMA LaterInStep ==
    ASSUME NEW p \in OptMillis, NEW t \in Nat, NEW u \in Nat, t <= u,
           NEW c, InStep(p, t, c)
    PROVE  InStep(p, u, c)
<1>1. p \in Int
  BY MaxClockAssumption DEF OptMillis, Millis, None
<1> QED BY <1>1 DEF InStep

-----------------------------------------------------------------------------
(***************************************************************************)
(* The invariant behind ProbeCadence and HealthFollowsProbes: the counters *)
(* of each upstream tell of its last run of probes, its stamp is the time  *)
(* of its last probe, and that is in step with the clock.                  *)
(***************************************************************************)
ProbesOK ==
    /\ streak \in [Members -> StreakType]
    /\ \A m \in Members : Told(BackendAt(m), streak[m])
    /\ \A m \in Members : BackendAt(m).last_probe = probed[m]
    /\ \A m \in Members : InStep(probed[m], now, checked)

\* What a health check finds and leaves of one upstream.
LEMMA CheckedMember ==
    ASSUME ProxyInv, Scripted, Probe, NEW m \in Members,
           NEW b, b = BackendAt(m), NEW live, live = ProbeResult(mocks[m])
    PROVE  /\ live \in BOOLEAN /\ BackendAt(m)' = HealthCheck(b, now, live)
           /\ Due(m) <=> ProbeDue(b, now)
           /\ mocks'[m].probe_calls = mocks[m].probe_calls + (IF Due(m) THEN 1 ELSE 0)
           /\ probed'[m] = IF Due(m) THEN now ELSE probed[m]
           /\ streak'[m] = IF Due(m) THEN Longer(streak[m], live) ELSE streak[m]
           /\ now' = now /\ checked' = now
<1>1. PICK k \in MockType(ReplyLatencies) : k = mocks[m]
  BY DEF Scripted
<1>2. live \in BOOLEAN
  BY <1>1, MockProbed
<1>3. PICK dead : dead = {x \in Members : ~ProbeResult(mocks[x])}
  OBVIOUS
<1>4. PICK s \in Services : s = m[1]
  BY MemberFacts, InvFacts
<1>5. PICK p \in PoolType : p = pools[s]
  BY MemberFacts, InvFacts, <1>4
<1>6. PICK i \in Indices(p) : i = m[2] /\ <<s, i>> = m
  BY MemberFacts, InvFacts, <1>4, <1>5 DEF Members
<1>7. PICK f : f = [j \in Indices(p) |-> <<s, j>> \notin dead]
  OBVIOUS
<1>8. f \in [Indices(p) -> BOOLEAN] /\ f[i] = live
  BY <1>2, <1>3, <1>6, <1>7
<1>9. PICK q : q = RunHealthChecks(p, now, f)
  OBVIOUS
<1>10. pools'[s] = q
  BY <1>3, <1>5, <1>7, <1>9 DEF Probe, CheckHealthBut
<1>11. now \in Millis
  BY InvFacts
<1>12. q.backends[i] = HealthCheck(p.backends[i], now, f[i])
  BY <1>8, <1>9, <1>11, CheckedPool
<1>13. b = p.backends[i] /\ BackendAt(m)' = q.backends[i]
  BY <1>4, <1>5, <1>6, <1>10 DEF BackendAt, BackendsOf
<1>14. BackendAt(m)' = HealthCheck(b, now, live)
  BY <1>8, <1>12, <1>13
<1>15. Due(m) <=> ProbeDue(b, now)
  BY DEF Due, BackendAt
<1>16. PICK n \in Nat : n = k.probe_calls
  BY <1>1 DEF MockType
<1>17. mocks'[m] = IF Due(m) THEN AfterProbe(k) ELSE k
  BY <1>1 DEF Probe
<1>18. mocks'[m].probe_calls = n + (IF Due(m) THEN 1 ELSE 0)
  BY <1>16, <1>17, <1>1, MockProbed
<1>19. Probes(m) <=> Due(m)
  BY <1>1, <1>16, <1>18 DEF Probes
<1>20. /\ probed'[m] = IF Due(m) THEN now ELSE probed[m]
       /\ streak'[m] = IF Due(m) THEN Longer(streak[m], live) ELSE streak[m]
       /\ now' = now /\ checked' = now
  BY <1>19 DEF Probe, CheckHealthBut
<1> QED BY <1>1, <1>2, <1>14, <1>15, <1>16, <1>18, <1>20

\* Elsewhere nobody is probed and nothing is learnt of anybody.
LEMMA Unprobed ==
    ASSUME ProxyInv, Scripted, [ScenarioNext]_scenarioVars, ~Probe
    PROVE  /\ streak' = streak /\ probed' = probed /\ checked' = checked
           /\ \A m \in Members : mocks'[m].probe_calls = mocks[m].probe_calls
           /\ now' \in Nat /\ now <= now'
<1>0. now \in Nat /\ MaxClock \in Nat /\ now <= MaxClock
  BY InvFacts, MaxClockAssumption DEF Millis
<1>1. CASE PushStep
  <2>1. PICK x \in Members, step \in StepType(ReplyLatencies) :
            mocks' = [mocks EXCEPT ![x] = Push(@, step)]
    BY <1>1, ScenarioAssumption DEF PushStep
  <2>2. ASSUME NEW m \in Members PROVE mocks'[m].probe_calls = mocks[m].probe_calls
    <3>1. PICK k \in MockType(ReplyLatencies) : k = mocks[m]
      BY DEF Scripted
    <3>2. mocks'[m] \in {k, Push(k, step)}
      BY <2>1, <3>1 DEF Scripted
    <3> QED BY <3>1, <3>2, MockPushed
  <2> QED BY <1>0, <1>1, <2>2 DEF PushStep, vars
<1>2. CASE PushLiveness
  <2>0. PICK B : B = BOOLEAN
    OBVIOUS
  <2>1. PICK x \in Members, live \in B :
            mocks' = [mocks EXCEPT ![x] = PushProbe(@, live)]
    BY <1>2, <2>0 DEF PushLiveness
  <2>2. ASSUME NEW m \in Members PROVE mocks'[m].probe_calls = mocks[m].probe_calls
    <3>1. PICK k \in MockType(ReplyLatencies) : k = mocks[m]
      BY DEF Scripted
    <3>2. mocks'[m] \in {k, PushProbe(k, live)}
      BY <2>1, <3>1 DEF Scripted
    <3> QED BY <2>0, <3>1, <3>2, MockProbePushed
  <2> QED BY <1>0, <1>2, <2>2 DEF PushLiveness, vars
<1>3. CASE Dispatch
  <2>1. PICK x \in Members : x = <<Target, call.idx>>
    BY <1>3, TargetIsMember DEF Dispatch
  <2>2. mocks' = [mocks EXCEPT ![x] = AfterSend(@)]
    BY <1>3, <2>1 DEF Dispatch
  <2>3. ASSUME NEW m \in Members PROVE mocks'[m].probe_calls = mocks[m].probe_calls
    <3>1. PICK k \in MockType(ReplyLatencies) : k = mocks[m]
      BY DEF Scripted
    <3>2. mocks'[m] \in {k, AfterSend(k)}
      BY <2>2, <3>1 DEF Scripted
    <3> QED BY <3>1, <3>2, MockAnswers
  <2> QED BY <1>0, <1>3, <2>3 DEF Dispatch, SucceedAfter, Fail
<1>4. CASE Tick
  <2>1. PICK d \in Nat : now' = SatAdd(now, d)
    BY <1>4, ClockAssumption DEF Tick, Advance, AdvanceClock
  <2>2. now' \in Nat /\ now <= now'
    BY <1>0, <2>1 DEF SatAdd
  <2> QED BY <1>4, <2>2 DEF Tick
<1>5. CASE Undispatched \/ Reconfigure \/ UNCHANGED scenarioVars
  BY <1>0, <1>5 DEF Undispatched, StartRequest, Send, GiveUp, Reconfigure, Restrategize,
                    scenarioVars, vars
<1> QED BY <1>1, <1>2, <1>3, <1>4, <1>5 DEF ScenarioNext

LEMMA ProbesStep ==
    ASSUME ProxyInv, ProxyInv', Scripted, ProbesOK, [ScenarioNext]_scenarioVars
    PROVE  ProbesOK'
<1>0. now \in Millis /\ now \in Nat /\ PoolsOK /\ PoolsOK'
  BY InvFacts, MaxClockAssumption DEF Millis, ProxyInv
<1>1. CASE Probe
  <2>1. ASSUME NEW m \in Members
        PROVE  /\ streak'[m] \in StreakType /\ Told(BackendAt(m)', streak'[m])
               /\ BackendAt(m)'.last_probe = probed'[m]
               /\ InStep(probed'[m], now', checked')
    <3>1. PICK b \in BackendType : b = BackendAt(m)
      BY <1>0, MemberFacts
    <3>2. PICK live \in BOOLEAN : live = ProbeResult(mocks[m])
      BY MockProbed DEF Scripted
    <3>3. PICK s \in StreakType : s = streak[m]
      BY DEF ProbesOK
    <3>4. PICK c : c = HealthCheck(b, now, live)
      OBVIOUS
    <3>5. /\ BackendAt(m)' = c
          /\ Due(m) <=> ProbeDue(b, now)
          /\ probed'[m] = IF Due(m) THEN now ELSE probed[m]
          /\ streak'[m] = IF Due(m) THEN Longer(s, live) ELSE s
          /\ now' = now /\ checked' = now
      BY <1>1, <3>1, <3>2, <3>3, <3>4, CheckedMember
    <3>6. Told(b, s) /\ b.last_probe = probed[m] /\ InStep(b.last_probe, now, checked)
      BY <3>1, <3>3 DEF ProbesOK
    <3>7. CASE ProbeDue(b, now)
      <4>1. PICK z : z = Longer(s, live)
        OBVIOUS
      <4>2. z \in StreakType /\ streak'[m] = z /\ probed'[m] = now
        BY <3>5, <3>7, <4>1, LongerRun
      <4>3. Told(c, z) /\ c.last_probe = now
        BY <1>0, <3>4, <3>6, <3>7, <4>1, ToldProbe
      <4>4. InStep(now, now, now)
        BY <1>0, <3>6, CheckedInStep
      <4> QED BY <3>5, <4>2, <4>3, <4>4
    <3>8. CASE ~ProbeDue(b, now)
      <4>1. c = b
        BY <3>4, <3>8 DEF HealthCheck
      <4>2. InStep(b.last_probe, now, now)
        BY <1>0, <3>6, <3>8, CheckedInStep
      <4> QED BY <3>5, <3>6, <3>8, <4>1, <4>2
    <3> QED BY <3>7, <3>8
  <2>2. streak' = [m \in Members |-> streak'[m]]
    BY <1>1 DEF Probe
  <2>3. streak' \in [Members -> StreakType]
    BY <2>1, <2>2
  <2> QED BY <2>1, <2>3 DEF ProbesOK, Members, Services, MaxStreak, StreakType
<1>2. CASE ~Probe
  <2>1. /\ streak' = streak /\ probed' = probed /\ checked' = checked
        /\ now' \in Nat /\ now <= now'
    BY <1>2, Unprobed
  <2>2. ASSUME NEW m \in Members
        PROVE  /\ Told(BackendAt(m)', streak'[m])
               /\ BackendAt(m)'.last_probe = probed'[m]
               /\ InStep(probed'[m], now', checked')
    <3>1. HealthAlike(BackendAt(m), BackendAt(m)')
      BY <1>2, ScenarioHealth
    <3>2. Told(BackendAt(m)', streak'[m])
      BY <2>1, <3>1 DEF HealthAlike, Told, ProbesOK
    <3>3. BackendAt(m)'.last_probe = probed'[m]
      BY <2>1, <3>1 DEF HealthAlike, ProbesOK
    <3>4. PICK b \in BackendType : b = BackendAt(m)
      BY <1>0, MemberFacts
    <3>5. PICK p \in OptMillis : p = probed[m] /\ InStep(p, now, checked)
      BY <3>4 DEF BackendType, ProbesOK
    <3>6. PICK t \in Nat, u \in Nat : t = now /\ u = now' /\ t <= u
      BY <1>0, <2>1
    <3>7. InStep(p, u, checked)
      BY <3>5, <3>6, LaterInStep
    <3> QED BY <2>1, <3>2, <3>3, <3>5, <3>6, <3>7
  <2> QED BY <2>1, <2>2 DEF ProbesOK, Members, Services, MaxStreak, StreakType
<1> QED BY <1>1, <1>2

LEMMA ProbesInit == ScenarioInit => ProbesOK
<1> SUFFICES ASSUME ScenarioInit PROVE ProbesOK
  OBVIOUS
<1>2. PICK s \in StreakType : s = NoProbe /\ s.length = 0
  <2>1. 0 \in 0 .. MaxStreak /\ StartHealthy \in BOOLEAN
    BY StreakFacts, HealthAssumption
  <2>2. PICK l \in BOOLEAN : l = StartHealthy
    BY <2>1
  <2>3. NoProbe = [live |-> l, length |-> 0]
    BY <2>2 DEF NoProbe
  <2> QED BY <2>1, <2>3 DEF StreakType
<1>3. streak \in [Members -> StreakType] /\ \A m \in Members : streak[m] = s
  BY <1>2 DEF ScenarioInit
<1>4. ASSUME NEW m \in Members
      PROVE  /\ Told(BackendAt(m), streak[m])
             /\ BackendAt(m).last_probe = probed[m]
             /\ InStep(probed[m], now, checked)
  <2>1. m[1] \in Services /\ m[2] \in DOMAIN PoolWeights[m[1]]
    BY MemberFacts, InvInit, InvFacts DEF ScenarioInit
  <2>2. BackendAt(m) = NewBackend(PoolWeights[m[1]][m[2]])
    BY <2>1 DEF ScenarioInit, Init, NewService, NewPool, BackendAt, BackendsOf
  <2>3. PICK b : b = BackendAt(m)
    OBVIOUS
  <2>4. b.probe_successes = 0 /\ b.probe_failures = 0 /\ b.last_probe = None
    BY <2>2, <2>3 DEF NewBackend
  <2>5. Told(b, s)
    BY <1>2, <2>4 DEF Told
  <2>6. probed[m] = None /\ checked = None
    BY DEF ScenarioInit
  <2>7. InStep(None, now, None)
    BY DEF InStep
  <2> QED BY <1>3, <2>3, <2>4, <2>5, <2>6, <2>7
<1> QED BY <1>3, <1>4 DEF ProbesOK

LEMMA ProbesHold == ScenarioSpec => []ProbesOK
<1>1. ProxyInv /\ ProxyInv' /\ Scripted /\ ProbesOK /\ [ScenarioNext]_scenarioVars
          => ProbesOK'
  BY ProbesStep
<1> QED BY <1>1, ProbesInit, ScenarioHolds, PTL DEF ScenarioSpec

(***************************************************************************)
(* Whatever the scenario and however late health checks are: no two probes *)
(* of an upstream are sent within an interval, and no health check leaves  *)
(* a probe due (pool.rs run_health_checks; gate 5).                        *)
(***************************************************************************)
THEOREM ProbesKeepTheirCadence == ScenarioSpec => ProbeCadence
<1> DEFINE Kept(m) ==
              /\ mocks'[m].probe_calls # mocks[m].probe_calls =>
                     /\ mocks'[m].probe_calls = mocks[m].probe_calls + 1
                     /\ probed[m] # None => now - probed[m] >= ProbeIntervalMs
              /\ checked' # None =>
                     /\ probed'[m] # None
                     /\ checked' - probed'[m] < ProbeIntervalMs
           Kept0 == ProbeIntervalMs > 0 => \A m \in Members : Kept(m)
<1>1. ProxyInv /\ ProxyInv' /\ Scripted /\ ProbesOK /\ ProbesOK'
      /\ [ScenarioNext]_scenarioVars => [Kept0]_scenarioVars
  <2> SUFFICES ASSUME ProxyInv, ProxyInv', Scripted, ProbesOK, ProbesOK',
                      [ScenarioNext]_scenarioVars, ProbeIntervalMs > 0, NEW m \in Members
               PROVE  Kept(m)
    OBVIOUS
  <2>1. checked' # None => probed'[m] # None /\ checked' - probed'[m] < ProbeIntervalMs
    BY DEF ProbesOK, InStep, Members, Services
  <2>2. ASSUME mocks'[m].probe_calls # mocks[m].probe_calls
        PROVE  /\ mocks'[m].probe_calls = mocks[m].probe_calls + 1
               /\ probed[m] # None => now - probed[m] >= ProbeIntervalMs
    <3>1. PICK b \in BackendType : b = BackendAt(m)
      BY InvFacts, MemberFacts
    <3>2. PICK live \in BOOLEAN : live = ProbeResult(mocks[m])
      BY MockProbed DEF Scripted
    <3>3. PICK n \in Nat : n = mocks[m].probe_calls
      BY DEF Scripted, MockType
    <3>4. Probe
      BY <2>2, Unprobed
    <3>5. /\ Due(m) <=> ProbeDue(b, now)
          /\ mocks'[m].probe_calls = n + (IF Due(m) THEN 1 ELSE 0)
      BY <3>1, <3>2, <3>3, <3>4, CheckedMember
    <3>6. ProbeDue(b, now) /\ mocks'[m].probe_calls = n + 1
      BY <2>2, <3>3, <3>5
    <3>7. b.last_probe = probed[m] /\ InStep(b.last_probe, now, checked)
      BY <3>1 DEF ProbesOK
    <3>8. b.last_probe # None => now - b.last_probe >= ProbeIntervalMs
      BY <3>1, <3>6, <3>7, InvFacts, DueInStep
    <3> QED BY <3>3, <3>6, <3>7, <3>8
  <2> QED BY <2>1, <2>2
<1>2. [][Kept0]_scenarioVars => ProbeCadence
  BY PTL DEF ProbeCadence
<1> QED BY <1>1, <1>2, ScenarioHolds, ProbesHold, PTL DEF ScenarioSpec

(***************************************************************************)
(* Only runs of agreeing probes as long as the threshold change the health *)
(* of an upstream, and every one of them does (pool.rs run_health_checks;  *)
(* gate 3).                                                                *)
(***************************************************************************)
THEOREM HealthIsByProbes == ScenarioSpec => HealthFollowsProbes
<1>1. ProxyInv /\ Scripted /\ ProbesOK /\ [ScenarioNext]_scenarioVars
      => \A m \in Members :
             LET before == BackendsOf(m[1])[m[2]].healthy
                 after  == pools'[m[1]].backends[m[2]].healthy
             IN  after = (IF Believed(streak'[m]) THEN streak'[m].live ELSE before)
  <2> SUFFICES ASSUME ProxyInv, Scripted, ProbesOK, [ScenarioNext]_scenarioVars
               PROVE  \A m \in Members :
                          LET before == BackendsOf(m[1])[m[2]].healthy
                              after  == pools'[m[1]].backends[m[2]].healthy
                          IN  after = (IF Believed(streak'[m]) THEN streak'[m].live
                                       ELSE before)
    OBVIOUS
  <2>1. ASSUME NEW m \in Members
        PROVE  BackendAt(m)'.healthy = Verdict(BackendAt(m), streak'[m])
    <3>0. now \in Millis /\ PoolsOK
      BY InvFacts
    <3>1. PICK b \in BackendType : b = BackendAt(m)
      BY <3>0, MemberFacts
    <3>2. PICK s \in StreakType : s = streak[m]
      BY DEF ProbesOK
    <3>3. Told(b, s)
      BY <3>1, <3>2 DEF ProbesOK
    <3>4. b.healthy = Verdict(b, s)
      BY <3>3, ToldStands
    <3>5. CASE Probe
      <4>1. PICK k \in MockType(ReplyLatencies) : k = mocks[m]
        BY DEF Scripted
      <4>2. PICK live \in BOOLEAN : live = ProbeResult(k)
        BY <4>1, MockProbed
      <4>3. PICK c : c = HealthCheck(b, now, live)
        OBVIOUS
      <4>4. /\ BackendAt(m)' = c
            /\ Due(m) <=> ProbeDue(b, now)
            /\ streak'[m] = IF Due(m) THEN Longer(s, live) ELSE s
        BY <3>1, <3>2, <3>5, <4>1, <4>2, <4>3, CheckedMember
      <4>5. CASE ProbeDue(b, now)
        <5>1. PICK z : z = Longer(s, live)
          OBVIOUS
        <5>2. c.healthy = Verdict(b, z)
          BY <3>0, <3>3, <4>3, <4>5, <5>1, ToldProbe
        <5> QED BY <3>1, <4>4, <4>5, <5>1, <5>2
      <4>6. CASE ~ProbeDue(b, now)
        <5>1. c = b
          BY <4>3, <4>6 DEF HealthCheck
        <5> QED BY <3>1, <3>4, <4>4, <4>6, <5>1
      <4> QED BY <4>5, <4>6
    <3>6. CASE ~Probe
      <4>1. streak' = streak
        BY <3>6, Unprobed
      <4>2. BackendAt(m)'.healthy = b.healthy
        BY <3>1, <3>6, ScenarioHealth DEF HealthAlike
      <4> QED BY <3>1, <3>2, <3>4, <4>1, <4>2
    <3> QED BY <3>5, <3>6
  <2> QED BY <2>1 DEF BackendAt, BackendsOf, Verdict
<1> QED BY <1>1, ScenarioHolds, ProbesHold, PTL DEF ScenarioSpec, HealthFollowsProbes
=============================================================================
