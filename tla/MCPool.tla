------------------------------- MODULE MCPool -------------------------------
(* Instances of the pool for TLC. *)
EXTENDS Pool

\* Two backends, the first without weight.
TwoWeights == <<0, 1>>

\* Their virtual nodes: interleaved, with one collision at point 4.
TwoPoints == <<{1, 4}, {2, 4}>>

TwoKeys == [k \in Keys |-> IF k = "k1" THEN 3 ELSE 7]
=============================================================================
