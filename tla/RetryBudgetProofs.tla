------------------------- MODULE RetryBudgetProofs -------------------------
(***************************************************************************)
(* The bounds on granted and denied retries for every deposit, cost and    *)
(* capacity, over windows of any length.                                   *)
(***************************************************************************)
EXTENDS RetryBudget, TLAPS

\* One more unit of cost or deposit, as a product.
LEMMA OneMore ==
    ASSUME NEW k \in Nat, NEW n \in Nat
    PROVE  k * (n + 1) = k * n + k /\ k * n \in Nat
OBVIOUS

(***************************************************************************)
(* The bucket never goes negative and never exceeds its capacity.          *)
(***************************************************************************)
THEOREM BudgetTypeCorrect == Spec => []TypeOK
<1> USE BudgetAssumption DEF TypeOK
<1>1. Init => TypeOK
  BY DEF Init, FullBucket, NewWindow, Counters
<1>2. TypeOK /\ [Next]_vars => TypeOK'
  BY DEF Next, vars, OnRequest, Grant, Deny, OpenWindow, Deposit, AtMost,
         Affords, Spend, NewWindow, Counters
<1> QED BY <1>1, <1>2, PTL DEF Spec

\* The bucket holds what the window leaves of a full bucket and the deposits,
\* from above and from below.
LEMMA BucketStep ==
    ASSUME TypeOK, BucketBounds, [Next]_vars PROVE BucketBounds'
<1> USE BudgetAssumption DEF BucketBounds, AtMost
<1> DEFINE g == RetryCostMilli * win.granted
           d == DepositMilli * win.requests
<1>t. /\ tokens \in 0 .. MaxMilli /\ win \in Counters
      /\ win.requests \in Nat /\ win.granted \in Nat /\ g \in Nat /\ d \in Nat
  BY OneMore DEF TypeOK, Counters
<1>1. CASE OnRequest
  <2>1. /\ tokens' = Deposit(tokens) /\ win'.granted = win.granted
        /\ win'.requests = win.requests + 1
    BY <1>t, <1>1 DEF OnRequest, Counters
  <2>2. g' = g /\ d' = d + DepositMilli
    BY <1>t, <2>1, OneMore
  <2> HIDE DEF g, d
  <2>3. /\ g + tokens <= MaxMilli + d
        /\ tokens + g >= IF d > MaxMilli THEN MaxMilli ELSE d
    BY DEF g, d
  <2>4. /\ g' + tokens' <= MaxMilli + d'
        /\ tokens' + g' >= IF d' > MaxMilli THEN MaxMilli ELSE d'
    BY <1>t, <2>1, <2>2, <2>3 DEF Deposit
  <2> QED BY <2>4 DEF g, d
<1>2. CASE Grant
  <2>1. /\ tokens' = tokens - RetryCostMilli /\ win'.granted = win.granted + 1
        /\ win'.requests = win.requests
    BY <1>t, <1>2 DEF Grant, Spend, Counters
  <2>2. g' = g + RetryCostMilli /\ d' = d
    BY <1>t, <2>1, OneMore
  <2> HIDE DEF g, d
  <2>3. /\ g + tokens <= MaxMilli + d
        /\ tokens + g >= IF d > MaxMilli THEN MaxMilli ELSE d
    BY DEF g, d
  <2>4. /\ g' + tokens' <= MaxMilli + d'
        /\ tokens' + g' >= IF d' > MaxMilli THEN MaxMilli ELSE d'
    BY <1>t, <2>1, <2>2, <2>3
  <2> QED BY <2>4 DEF g, d
<1>3. CASE Deny \/ UNCHANGED vars
  BY <1>t, <1>3 DEF Deny, vars, Counters
<1>4. CASE OpenWindow
  BY <1>t, <1>4 DEF OpenWindow, NewWindow
<1> QED BY <1>1, <1>2, <1>3, <1>4 DEF Next

(***************************************************************************)
(* Tokens spent and tokens left are at most, and at least, what the window *)
(* began with and deposited (retry.rs on_request, try_retry).              *)
(***************************************************************************)
THEOREM BucketBounded == Spec => []BucketBounds
<1>1. Init => BucketBounds
  BY BudgetAssumption DEF Init, FullBucket, NewWindow, BucketBounds, AtMost
<1> QED BY <1>1, BucketStep, BudgetTypeCorrect, PTL DEF Spec

(***************************************************************************)
(* Granted retries stay within the budget of every window.                 *)
(***************************************************************************)
THEOREM GrantsBounded == Spec => []GrantsWithinBudget
<1>1. TypeOK /\ BucketBounds => GrantsWithinBudget
  BY BudgetAssumption, OneMore DEF TypeOK, BucketBounds, GrantsWithinBudget, Counters
<1> QED BY <1>1, BucketBounded, BudgetTypeCorrect, PTL

(***************************************************************************)
(* A retry is denied only when the window has spent what it earned.        *)
(***************************************************************************)
THEOREM DenialsJustified == Spec => DeniedOnlyWhenSpent
<1> DEFINE Justified ==
        win'.denied = win.denied + 1 =>
          RetryCostMilli * (win.granted + 1)
              > AtMost(MaxMilli, DepositMilli * win.requests)
<1>1. TypeOK /\ BucketBounds /\ [Next]_vars => [Justified]_vars
  <2> SUFFICES ASSUME TypeOK, BucketBounds, Next, win'.denied = win.denied + 1
               PROVE  RetryCostMilli * (win.granted + 1)
                        > AtMost(MaxMilli, DepositMilli * win.requests)
    OBVIOUS
  <2>1. win \in Counters /\ win.denied \in Nat
    BY DEF TypeOK, Counters
  <2>2. ~Affords(tokens)
    BY <2>1 DEF Next, OnRequest, Grant, Deny, OpenWindow, NewWindow, Counters
  <2>3. RetryCostMilli * (win.granted + 1) = RetryCostMilli * win.granted + RetryCostMilli
    BY <2>1, OneMore, BudgetAssumption DEF Counters
  <2>4. RetryCostMilli * win.granted \in Nat /\ DepositMilli * win.requests \in Nat
    BY <2>1, OneMore, BudgetAssumption DEF Counters
  <2> QED BY <2>2, <2>3, <2>4, BudgetAssumption DEF TypeOK, BucketBounds, Affords, AtMost
<1> QED BY <1>1, BucketBounded, BudgetTypeCorrect, PTL DEF Spec, DeniedOnlyWhenSpent
=============================================================================
