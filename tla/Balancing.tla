----------------------------- MODULE Balancing -----------------------------
(***************************************************************************)
(* The load balancing decisions of the pool, as functions of the set S of  *)
(* backends a request may go to.  Backends are numbered from 1; the code's *)
(* ascending vector of available indices is the set S in numeric order.    *)
(***************************************************************************)
EXTENDS Integers, FiniteSets, Sums

CONSTANT CursorWidth    \* the cursor is a usize that wraps at this value

ASSUME CursorAssumption == CursorWidth \in Nat \ {0}

\* The member of S that has k smaller ones: available[k] in the code.
Nth(S, k) == CHOOSE x \in S : Cardinality({y \in S : y < x}) = k

RoundRobinPick(cursor, S) == Nth(S, cursor % Cardinality(S))

\* Mutants: a pick advances the cursor twice, or the cursor never wraps.
AdvanceTwice(cursor) == (cursor + 2) % CursorWidth

NeverWraps(cursor) == cursor + 1

NextCursor(cursor) == (cursor + 1) % CursorWidth

\* The first member of S with the largest w, the loops' strict comparison.
Heaviest(w, S) ==
    CHOOSE i \in S : \A j \in S : w[j] < w[i] \/ (w[j] = w[i] /\ i <= j)

Lightest(w, S) ==
    CHOOSE i \in S : \A j \in S : w[i] < w[j] \/ (w[j] = w[i] /\ i <= j)

\* Smooth weighted round robin: everyone in S earns its score, the one who
\* then has most is picked and pays for all.
Earned(current, score, S) ==
    [i \in DOMAIN current |-> current[i] + IF i \in S THEN score[i] ELSE 0]

\* Mutant: always the largest weight.
PickByScoreAlone(current, score, S) == Heaviest(score, S)

WeightedPick(current, score, S) == Heaviest(Earned(current, score, S), S)

\* Mutants: the pick pays only its own score, or the score of everyone.
ChargeOwnScore(current, score, S) ==
    [Earned(current, score, S) EXCEPT
        ![WeightedPick(current, score, S)] = @ - score[WeightedPick(current, score, S)]]

ChargeForAbsent(current, score, S) ==
    [Earned(current, score, S) EXCEPT
        ![WeightedPick(current, score, S)] = @ - TotalOf(score, DOMAIN current)]

WeightedCharge(current, score, S) ==
    [Earned(current, score, S) EXCEPT
        ![WeightedPick(current, score, S)] = @ - TotalOf(score, S)]
=============================================================================
