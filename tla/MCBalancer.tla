----------------------------- MODULE MCBalancer -----------------------------
(* Instances of the balancer for TLC. *)
EXTENDS Balancer

WeightsSmall == <<1, 0, 2>>

\* Virtual nodes, with a collision of the first two backends at 5.
ThreePoints == <<{1, 5}, {2, 5}, {3, 6}>>

\* One key between points and one past the last of them.
TwoKeys == [k \in Keys |-> IF k = "k1" THEN 4 ELSE 7]
=============================================================================
