--------------------------- MODULE MCLatencyLayer ---------------------------
(* Instances of the pool with the EWMA layer for TLC. *)
EXTENDS LatencyLayer

TwoWeights == <<1, 1>>
TwoPoints == <<{1}, {2}>>
TwoKeys == [k \in Keys |-> 1]
=============================================================================
