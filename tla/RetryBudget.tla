----------------------------- MODULE RetryBudget -----------------------------
(***************************************************************************)
(* The retry budget under any sequence of new requests and retry attempts. *)
(*                                                                         *)
(* win is a history variable: what happened since a window was opened, at  *)
(* a moment of an observer's choice.  What holds of win holds of every     *)
(* stretch of the budget's life.  MaxEvents bounds a window's length.      *)
(***************************************************************************)
EXTENDS Budget

CONSTANT MaxEvents

ASSUME MaxEventsAssumption == MaxEvents \in Nat

VARIABLES tokens, win

vars == <<tokens, win>>

Counters == [requests : Nat, granted : Nat, denied : Nat]

NewWindow == [requests |-> 0, granted |-> 0, denied |-> 0]

TypeOK == tokens \in 0 .. MaxMilli /\ win \in Counters

Init == tokens = FullBucket /\ win = NewWindow

WindowOpen == win.requests + win.granted + win.denied < MaxEvents

OnRequest ==
    /\ WindowOpen
    /\ tokens' = Deposit(tokens)
    /\ win' = [win EXCEPT !.requests = @ + 1]

Grant ==
    /\ WindowOpen
    /\ Affords(tokens)
    /\ tokens' = Spend(tokens)
    /\ win' = [win EXCEPT !.granted = @ + 1]

Deny ==
    /\ WindowOpen
    /\ ~Affords(tokens)
    /\ win' = [win EXCEPT !.denied = @ + 1]
    /\ UNCHANGED tokens

OpenWindow == win' = NewWindow /\ UNCHANGED tokens

Next == OnRequest \/ Grant \/ Deny \/ OpenWindow

Spec == Init /\ [][Next]_vars

-----------------------------------------------------------------------------
(***************************************************************************)
(* Retries never outrun the deposits: in every window, whenever it was     *)
(* opened, the retries granted cost at most a full bucket plus what the    *)
(* window's requests deposited.  Gate 5 tests this from the start of a     *)
(* run only (retry.rs on_request, try_retry).                              *)
(***************************************************************************)
GrantsWithinBudget ==
    RetryCostMilli * win.granted <= MaxMilli + DepositMilli * win.requests

(***************************************************************************)
(* Nor are they withheld: a retry is denied only if one more would cost    *)
(* more than the window's own requests deposited, as far as the bucket     *)
(* could hold it.  So a bucket emptied by an incident recovers after       *)
(* cost / deposit requests, no matter how it was emptied.                  *)
(***************************************************************************)
DeniedOnlyWhenSpent ==
    [][win'.denied = win.denied + 1 =>
          RetryCostMilli * (win.granted + 1)
              > AtMost(MaxMilli, DepositMilli * win.requests)]_vars

\* The two facts about the bucket behind them.
BucketBounds ==
    /\ RetryCostMilli * win.granted + tokens
           <= MaxMilli + DepositMilli * win.requests
    /\ tokens + RetryCostMilli * win.granted
           >= AtMost(MaxMilli, DepositMilli * win.requests)
=============================================================================
