------------------------------- MODULE Budget -------------------------------
(***************************************************************************)
(* The retry budget as a value: the milli tokens in the bucket and the     *)
(* operations on them.  RetryBudget.tla runs it on its own, Proxy.tla      *)
(* shares one bucket among all the requests of a proxy.                    *)
(*                                                                         *)
(* The i64 arithmetic is modelled unbounded: it would overflow only for a  *)
(* configured MaxMilli + DepositMilli above i64::MAX.                      *)
(***************************************************************************)
EXTENDS Integers

CONSTANTS DepositMilli, RetryCostMilli, MaxMilli

ASSUME BudgetAssumption ==
    DepositMilli \in Nat /\ RetryCostMilli \in Nat /\ MaxMilli \in Nat

AtMost(cap, n) == IF n > cap THEN cap ELSE n

\* The bucket starts full.
FullBucket == MaxMilli

\* Mutant: the cap on the bucket is forgotten.
DepositUncapped(tokens) == tokens + DepositMilli

\* Mutant: a bucket that the deposit would overfill is left as it is.
DepositOrDrop(tokens) ==
    IF tokens + DepositMilli > MaxMilli THEN tokens ELSE tokens + DepositMilli

Deposit(tokens) == AtMost(MaxMilli, tokens + DepositMilli)

\* Mutant: a bucket that is not empty is enough.
AnyTokenAffords(tokens) == tokens > 0

Affords(tokens) == tokens >= RetryCostMilli

\* Mutant: a retry costs what a request deposits.
SpendDeposit(tokens) == tokens - DepositMilli

Spend(tokens) == tokens - RetryCostMilli
=============================================================================
