------------------------------ MODULE HashRing ------------------------------
(***************************************************************************)
(* The consistent hash ring.  What hashing does to names and keys is a     *)
(* parameter: PointsOf[m] is the set of points the virtual nodes of member *)
(* m fall on and KeyHash[k] the point of key k, in a hash space 0 .. Nat.  *)
(* A ring is the set of members it was last rebuilt from, since rebuild()  *)
(* clears it first.  Points may collide.                                   *)
(***************************************************************************)
EXTENDS Integers, FiniteSets

CONSTANTS Keys, PointsOf, KeyHash

\* Every member has at least one virtual node.
ASSUME RingAssumption ==
    /\ KeyHash \in [Keys -> Nat]
    /\ \A m \in DOMAIN PointsOf : PointsOf[m] \in (SUBSET Nat) \ {{}}
    /\ DOMAIN PointsOf \subseteq Nat

RingPoints(ring) == UNION {PointsOf[m] : m \in ring}

\* Where the clockwise walk from h ends: the first point at or after h, or
\* the first of all when there is none.
WalkEnds(ring, h, p) ==
    /\ p \in RingPoints(ring)
    /\ \/ h <= p /\ \A q \in RingPoints(ring) : h <= q => p <= q
       \/ \A q \in RingPoints(ring) : q < h /\ p <= q

\* rebuild() inserts the members in ascending order, so at a shared point the
\* largest one stays.
Owns(ring, m, p) ==
    /\ m \in ring /\ p \in PointsOf[m]
    /\ \A n \in ring : p \in PointsOf[n] => n <= m

Serves(ring, k, m) ==
    \E p \in RingPoints(ring) : WalkEnds(ring, KeyHash[k], p) /\ Owns(ring, m, p)

\* Mutant: the key's hash modulo the number of members.
LookupModulo(ring, k) ==
    CHOOSE m \in ring :
        Cardinality({n \in ring : n < m}) = KeyHash[k] % Cardinality(ring)

Lookup(ring, k) == CHOOSE m \in ring : Serves(ring, k, m)
=============================================================================
