--------------------------- MODULE BalancerProofs ---------------------------
(***************************************************************************)
(* Proofs about the balancing strategies: what the weighted selection does *)
(* to the balances, how far they can drift, that an undisturbed period is  *)
(* exact, that round robin cycles are complete, and that the ring moves no *)
(* key it need not move.                                                   *)
(***************************************************************************)
EXTENDS Balancer, NumberLemmas, TLAPS

LEMMA HeaviestIs ==
    ASSUME NEW n \in Nat, NEW S \in SUBSET (1 .. n), S # {}, NEW w \in [1 .. n -> Int]
    PROVE  Heaviest(w, S) \in S /\ \A j \in S : w[j] <= w[Heaviest(w, S)]
<1>1. PICK i \in S : \A j \in S : w[j] < w[i] \/ (w[j] = w[i] /\ i <= j)
  BY HasFirstLargest
<1>2. PICK h : h = Heaviest(w, S)
  OBVIOUS
<1>3. h \in S /\ \A j \in S : w[j] < w[h] \/ (w[j] = w[h] /\ h <= j)
  BY <1>1, <1>2 DEF Heaviest
<1>4. \A j \in S : w[j] \in Int /\ w[h] \in Int
  BY <1>3
<1>5. \A j \in S : w[j] <= w[h]
  BY <1>3, <1>4
<1> QED BY <1>2, <1>3, <1>5

LEMMA EarnedType ==
    ASSUME NEW D, NEW S \in SUBSET D, NEW current \in [D -> Int],
           NEW score \in [D -> Int], NEW e, e = Earned(current, score, S)
    PROVE  /\ e \in [D -> Int]
           /\ \A i \in S : e[i] = current[i] + score[i]
           /\ \A i \in D \ S : e[i] = current[i]
<1>1. \A i \in D : current[i] \in Int /\ score[i] \in Int
  OBVIOUS
<1>2. DOMAIN current = D
  OBVIOUS
<1>3. e = [i \in D |-> current[i] + IF i \in S THEN score[i] ELSE 0]
  BY <1>2 DEF Earned
<1> QED BY <1>1, <1>3

\* What everyone in X has once S has earned its scores.
LEMMA EarnedTotal ==
    ASSUME NEW D, IsFiniteSet(D), NEW S \in SUBSET D, NEW X \in SUBSET D,
           NEW current \in [D -> Int], NEW score \in [D -> Int],
           NEW e, e = Earned(current, score, S)
    PROVE  TotalOf(e, X) = TotalOf(current, X) + TotalOf(score, X \cap S)
<1> DEFINE v == [i \in D |-> IF i \in S THEN score[i] ELSE 0]
<1>1. e \in [D -> Int] /\ \A i \in D : e[i] = current[i] + v[i]
  BY DEF Earned
<1>2. \A i \in X : current[i] \in Int /\ v[i] \in Int
  OBVIOUS
<1>3. /\ \A i \in D \cap S : v[i] = score[i]
      /\ \A i \in D \ S : v[i] = 0
  OBVIOUS
<1> DEFINE A == X \cap S
           B == X \ S
<1>4. A \in SUBSET X /\ X \ A = B /\ A \in SUBSET (D \cap S) /\ B \in SUBSET (D \ S)
  OBVIOUS
<1>5. IsFiniteSet(X) /\ IsFiniteSet(A) /\ IsFiniteSet(B)
  <2>1. A \in SUBSET D /\ B \in SUBSET D
    OBVIOUS
  <2> QED BY <2>1, FS_Subset
<1> HIDE DEF v, A, B
<1>6. TotalOf(e, X) = TotalOf(current, X) + TotalOf(v, X)
  <2>1. \A i \in X : current[i] \in Int /\ v[i] \in Int /\ e[i] = current[i] + v[i]
    BY <1>1, <1>2
  <2> QED BY <1>5, <2>1, TotalPlus
<1>7. TotalOf(v, X) = TotalOf(v, A) + TotalOf(v, B)
  <2>1. TotalOf(v, X) = TotalOf(v, A) + TotalOf(v, X \ A)
    BY <1>2, <1>4, <1>5, TotalSplit
  <2> QED BY <1>4, <2>1, Zenon
<1>8. TotalOf(v, A) = TotalOf(score, A)
  <2>1. \A i \in A : v[i] = score[i]
    BY <1>3, <1>4
  <2> QED BY <1>5, <2>1, TotalAlike
<1>9. TotalOf(v, B) = 0
  <2>1. \A i \in B : v[i] = 0
    BY <1>3, <1>4
  <2> QED BY <1>5, <2>1, TotalZero
<1>10. TotalOf(score, A) \in Int
  <2>1. \A i \in A : score[i] \in Int
    BY <1>4
  <2> QED BY <1>5, <2>1, TotalType
<1>11. TotalOf(e, X) = TotalOf(current, X) + TotalOf(score, A)
  BY <1>6, <1>7, <1>8, <1>9, <1>10
<1> QED BY <1>11 DEF A

\* Only the one that is picked pays, for all.
LEMMA PaidTotal ==
    ASSUME NEW X, IsFiniteSet(X), NEW p, NEW t \in Int, NEW e, NEW c,
           c[p] = e[p] - t, \A x \in X : e[x] \in Int /\ (x # p => c[x] = e[x])
    PROVE  /\ p \in X => TotalOf(c, X) = TotalOf(e, X) - t
           /\ p \notin X => TotalOf(c, X) = TotalOf(e, X)
<1>1. ASSUME p \in X PROVE TotalOf(c, X) = TotalOf(e, X) - t
  <2> DEFINE Y == X \ {p}
  <2>1. IsFiniteSet(Y) /\ \A x \in Y : c[x] = e[x] /\ e[x] \in Int
    BY FS_Subset
  <2>2. e[p] \in Int /\ c[p] \in Int
    BY <1>1
  <2>3. \A x \in X : c[x] \in Int /\ e[x] \in Int
    BY <2>2
  <2>4. TotalOf(c, X) = c[p] + TotalOf(c, Y)
    BY <1>1, <2>3, TotalWithout
  <2>5. TotalOf(e, X) = e[p] + TotalOf(e, Y)
    BY <1>1, <2>3, TotalWithout
  <2> HIDE DEF Y
  <2>6. TotalOf(c, Y) = TotalOf(e, Y) /\ TotalOf(e, Y) \in Int
    BY <2>1, TotalAlike, TotalType
  <2> QED BY <2>2, <2>4, <2>5, <2>6
<1>2. ASSUME p \notin X PROVE TotalOf(c, X) = TotalOf(e, X)
  <2>1. \A x \in X : c[x] = e[x]
    BY <1>2
  <2> QED BY <2>1, TotalAlike
<1> QED BY <1>1, <1>2
-----------------------------------------------------------------------------
\* The bound on what k of n backends can have together, m the largest score.
Slack(n, k, m) == (k * (n - k)) * m

LEMMA Products ==
    ASSUME NEW a \in Int, NEW b \in Int, NEW k \in Nat, a <= b
    PROVE  k * a \in Int /\ k * b \in Int /\ k * a <= k * b
<1>1. k * (b - a) >= 0
  OBVIOUS
<1>2. k * (b - a) = k * b - k * a
  OBVIOUS
<1>3. k * a \in Int /\ k * b \in Int
  OBVIOUS
<1> QED BY <1>1, <1>2, <1>3

\* The two bounds on the sum meet at one value of e.
LEMMA SlackMeets ==
    ASSUME NEW n \in Int, NEW k \in Int, NEW m \in Int, NEW y \in Nat,
           NEW s \in Int, NEW e \in Int,
           NEW a \in Int, a = Slack(n, k + 1, m) + (y + 1) * m, s <= a - e,
           NEW b \in Int, b = Slack(n, k - y, m), s <= b + y * e
    PROVE  s <= Slack(n, k, m)
<1> DEFINE w == (n - 2 * k + y) * m
<1>1. w \in Int /\ Slack(n, k, m) \in Int /\ Slack(n, k + 1, m) \in Int
      /\ Slack(n, k - y, m) \in Int
  BY DEF Slack
<1>2. Slack(n, k + 1, m) + (y + 1) * m - w = Slack(n, k, m)
  BY DEF Slack
<1>3. Slack(n, k - y, m) + y * w = Slack(n, k, m)
  BY DEF Slack
<1> HIDE DEF w
<1>4. CASE w <= e
  BY <1>1, <1>2, <1>4
<1>5. CASE e <= w
  <2>1. y * e <= y * w /\ y * e \in Int /\ y * w \in Int
    BY <1>1, <1>5, Products
  <2> QED BY <1>1, <1>3, <2>1
<1> QED BY <1>1, <1>4, <1>5

\* The bound is invariant for all sets of backends, not for single ones: who
\* is not picked may take from the picked, as far as those have something.
Within(w, C, m) ==
    \A X \in SUBSET C : TotalOf(w, X) <= Slack(Cardinality(C), Cardinality(X), m)

\* One weighted selection keeps every set of backends within its bound.
LEMMA DriftStep ==
    ASSUME NEW D, IsFiniteSet(D), NEW C \in SUBSET D, NEW S \in SUBSET C,
           NEW m \in Nat, NEW current \in [D -> Int], NEW score \in [D -> Int],
           \A i \in S : score[i] \in 0 .. m,
           NEW e, e = Earned(current, score, S),
           NEW p \in S, \A j \in S : e[j] <= e[p],
           NEW c, c[p] = e[p] - TotalOf(score, S),
           \A x \in D : x # p => c[x] = e[x],
           Within(current, C, m)
    PROVE  Within(c, C, m)
<1> SUFFICES ASSUME NEW X \in SUBSET C
             PROVE  TotalOf(c, X) <= Slack(Cardinality(C), Cardinality(X), m)
  BY DEF Within
<1> DEFINE Y == X \cap S
           Z == X \cup {p}
           W == X \ S
           R == S \ Y
<1>1. /\ X \in SUBSET D /\ Y \in SUBSET D /\ Z \in SUBSET D /\ W \in SUBSET D
      /\ R \in SUBSET D /\ S \in SUBSET D /\ p \in D /\ Z \in SUBSET C /\ W \in SUBSET C
      /\ Y \in SUBSET S /\ R \in SUBSET S /\ Y \in SUBSET X /\ W = X \ Y
      /\ W \cap S = {}
  OBVIOUS
<1>2. /\ IsFiniteSet(X) /\ IsFiniteSet(Y) /\ IsFiniteSet(Z) /\ IsFiniteSet(W)
      /\ IsFiniteSet(R) /\ IsFiniteSet(S) /\ IsFiniteSet(C)
  BY <1>1, FS_Subset
<1>3. PICK t \in Int : t = TotalOf(score, S)
  BY <1>2, TotalType
<1>4. PICK n \in Nat : n = Cardinality(C)
  BY <1>2, FS_CardinalityType
<1>5. PICK k \in Nat : k = Cardinality(X)
  BY <1>2, FS_CardinalityType
<1>6. PICK y \in Nat : y = Cardinality(Y)
  BY <1>2, FS_CardinalityType
<1>7. e \in [D -> Int] /\ e[p] \in Int
  <2>1. e \in [D -> Int]
    BY <1>1, EarnedType
  <2> QED BY <1>1, <2>1
<1>8. PICK s \in Int : s = TotalOf(e, X)
  <2>1. \A x \in X : e[x] \in Int
    BY <1>1, <1>7
  <2> QED BY <1>2, <2>1, TotalType
<1>9. /\ p \in X => TotalOf(c, X) = s - t
      /\ p \notin X => TotalOf(c, X) = s
  <2>1. /\ c[p] = e[p] - t
        /\ \A x \in X : e[x] \in Int /\ (x # p => c[x] = e[x])
    BY <1>1, <1>3, <1>7
  <2>2. p \in X => TotalOf(c, X) = TotalOf(e, X) - t
    BY <1>2, <2>1, PaidTotal
  <2>3. p \notin X => TotalOf(c, X) = TotalOf(e, X)
    BY <1>2, <2>1, PaidTotal
  <2> QED BY <1>8, <2>2, <2>3
<1>10. /\ TotalOf(e, X) = TotalOf(current, X) + TotalOf(score, Y)
       /\ TotalOf(e, Z) = TotalOf(current, Z) + TotalOf(score, Z \cap S)
       /\ TotalOf(e, W) = TotalOf(current, W) + TotalOf(score, W \cap S)
  <2> HIDE DEF Z, W
  <2> QED BY <1>1, EarnedTotal
<1>11. /\ TotalOf(current, X) \in Int /\ TotalOf(current, Z) \in Int
       /\ TotalOf(current, W) \in Int /\ TotalOf(score, Y) \in Int
       /\ TotalOf(score, R) \in Int /\ TotalOf(e, Y) \in Int
       /\ Slack(n, k, m) \in Int
  <2>1. \A x \in D : current[x] \in Int /\ score[x] \in Int /\ e[x] \in Int
    BY <1>7
  <2>2. Slack(n, k, m) \in Int
    BY DEF Slack
  <2> HIDE DEF Y, Z, W, R
  <2>3. /\ \A x \in X : current[x] \in Int
        /\ \A x \in Z : current[x] \in Int
        /\ \A x \in W : current[x] \in Int
        /\ \A x \in Y : score[x] \in Int /\ e[x] \in Int
        /\ \A x \in R : score[x] \in Int
    BY <1>1, <2>1
  <2> QED BY <1>2, <2>2, <2>3, TotalType
<1>12. CASE p \in X
  <2>1. TotalOf(score, S) = TotalOf(score, Y) + TotalOf(score, R)
    <3>1. \A x \in S : score[x] \in Int
      BY <1>1
    <3> HIDE DEF Y
    <3> QED BY <1>1, <1>2, <3>1, TotalSplit
  <2>2. TotalOf(score, R) >= 0
    <3> DEFINE zero == [x \in R |-> 0]
    <3>1. \A x \in R : zero[x] = 0
      OBVIOUS
    <3>2. \A x \in R : score[x] \in 0 .. m
      BY <1>1
    <3> HIDE DEF zero, R
    <3>3. \A x \in R : zero[x] \in Int /\ score[x] \in Int /\ zero[x] <= score[x]
      BY <3>1, <3>2
    <3>4. TotalOf(zero, R) <= TotalOf(score, R) /\ TotalOf(zero, R) = 0
      BY <1>2, <3>1, <3>3, TotalLeq, TotalZero
    <3> QED BY <1>11, <3>4
  <2>3. TotalOf(current, X) <= Slack(n, k, m)
    BY <1>4, <1>5 DEF Within
  <2>4. TotalOf(c, X) = s - t
    BY <1>9, <1>12
  <2> HIDE DEF Y, Z, W, R
  <2>5. s - t <= Slack(n, k, m)
    BY <1>3, <1>8, <1>10, <1>11, <2>1, <2>2, <2>3
  <2> QED BY <1>4, <1>5, <2>4, <2>5
<1>13. CASE p \notin X
  <2>1. /\ Cardinality(Z) = k + 1 /\ Cardinality(W) = k - y
    <3>1. Cardinality(Z) = Cardinality(X) + 1
      BY <1>2, <1>13, FS_AddElement
    <3>2. Cardinality(W) = Cardinality(X) - Cardinality(X \cap S)
      BY <1>2, FS_Difference
    <3> QED BY <1>5, <1>6, <3>1, <3>2
  <2>2. TotalOf(e, Z) = e[p] + s
    <3>1. \A x \in X \cup {p} : e[x] \in Int
      BY <1>1, <1>7
    <3> QED BY <1>2, <1>8, <1>13, <3>1, TotalWith
  <2>3. TotalOf(score, Z \cap S) <= (y + 1) * m /\ TotalOf(score, Z \cap S) \in Int
    <3> DEFINE V == Y \cup {p}
    <3>1. Z \cap S = V /\ p \notin Y /\ V \in SUBSET S
      BY <1>1, <1>13
    <3>2. IsFiniteSet(V) /\ Cardinality(V) = y + 1
      <4> HIDE DEF Y
      <4> QED BY <1>2, <1>6, <3>1, FS_AddElement
    <3>3. \A x \in V : score[x] \in 0 .. m
      BY <3>1
    <3> HIDE DEF V
    <3>4. \A x \in V : score[x] \in Int /\ score[x] <= m
      BY <3>3
    <3>5. TotalOf(score, V) \in Int
      BY <3>2, <3>4, TotalType
    <3>6. TotalOf(score, V) <= Cardinality(V) * m
      <4>1. m \in Int
        OBVIOUS
      <4> QED BY <3>2, <3>4, <4>1, TotalAtMost, Zenon
    <3>7. Z \cap S = V
      BY <3>1
    <3> QED BY <3>2, <3>5, <3>6, <3>7
  <2>4. TotalOf(current, Z) <= Slack(n, k + 1, m)
    <3> HIDE DEF Z
    <3> QED BY <1>1, <1>4, <2>1 DEF Within
  <2>5. s <= Slack(n, k + 1, m) + (y + 1) * m - e[p]
    <3>1. Slack(n, k + 1, m) \in Int /\ (y + 1) * m \in Int
      BY DEF Slack
    <3> HIDE DEF Z
    <3> QED BY <1>7, <1>10, <1>11, <2>2, <2>3, <2>4, <3>1
  <2>6. TotalOf(e, X) = TotalOf(e, Y) + TotalOf(e, W)
    <3>1. \A x \in X : e[x] \in Int
      BY <1>1, <1>7
    <3>2. TotalOf(e, X) = TotalOf(e, Y) + TotalOf(e, X \ Y)
      <4> HIDE DEF Y
      <4> QED BY <1>1, <1>2, <3>1, TotalSplit
    <3> QED BY <1>1, <3>2, Zenon
  <2>7. TotalOf(e, W) = TotalOf(current, W)
    <3>1. TotalOf(score, W \cap S) = 0
      BY <1>1, TotalOfEmpty, Zenon
    <3> QED BY <1>10, <1>11, <3>1
  <2>8. TotalOf(current, W) <= Slack(n, k - y, m)
    <3> HIDE DEF W
    <3> QED BY <1>1, <1>4, <2>1 DEF Within
  <2>9. TotalOf(e, Y) <= y * e[p]
    <3>1. \A x \in Y : e[x] \in Int /\ e[x] <= e[p]
      BY <1>1, <1>7
    <3> HIDE DEF Y
    <3> QED BY <1>2, <1>6, <1>7, <3>1, TotalAtMost
  <2>10. s <= Slack(n, k - y, m) + y * e[p]
    <3>1. Slack(n, k - y, m) \in Int /\ y * e[p] \in Int
      BY <1>7 DEF Slack
    <3> HIDE DEF Y, W
    <3> QED BY <1>8, <1>11, <2>6, <2>7, <2>8, <2>9, <3>1
  <2>11. s <= Slack(n, k, m)
    <3>1. PICK h \in Int : h = e[p]
      BY <1>7
    <3>2. PICK a \in Int : a = Slack(n, k + 1, m) + (y + 1) * m
      BY DEF Slack
    <3>3. PICK b \in Int : b = Slack(n, k - y, m)
      BY DEF Slack
    <3>4. Slack(n, k + 1, m) \in Int /\ (y + 1) * m \in Int
      BY DEF Slack
    <3>5. s <= a - h /\ s <= b + y * h
      BY <2>5, <2>10, <3>1, <3>2, <3>3, <3>4
    <3>6. n \in Int /\ k \in Int /\ m \in Int
      OBVIOUS
    <3> QED BY <3>2, <3>3, <3>5, <3>6, SlackMeets, Zenon
  <2> QED BY <1>4, <1>5, <1>9, <1>13, <2>11
<1> QED BY <1>12, <1>13

-----------------------------------------------------------------------------
LEMMA BackendsFacts ==
    /\ Backends = 1 .. Len(Weights) /\ Len(Weights) \in Nat
    /\ IsFiniteSet(Backends) /\ IsFiniteSet(Contenders)
    /\ \A i \in Backends : Weights[i] \in Nat
<1>1. Backends = 1 .. Len(Weights) /\ Len(Weights) \in Nat
  BY BalancerAssumption DEF Backends
<1>2. \A i \in Backends : Weights[i] \in Nat
  BY BalancerAssumption DEF Backends
<1>3. IsFiniteSet(Backends)
  BY <1>1, FS_Interval
<1>4. IsFiniteSet(Contenders)
  BY <1>3, FS_Subset DEF Contenders
<1> QED BY <1>1, <1>2, <1>3, <1>4

\* The largest score is one of the scores at full ramp, and bounds them all.
LEMMA MostScoreBounds ==
    ASSUME Backends # {}
    PROVE  MostScore \in Nat /\ \A i \in Backends : Weights[i] * 100 <= MostScore
<1>1. Weights \in [1 .. Len(Weights) -> Int]
  BY BalancerAssumption
<1>2. PICK i \in Backends : \A j \in Backends : Weights[j] <= Weights[i]
  <2>1. Backends \in SUBSET (1 .. Len(Weights)) /\ Len(Weights) \in Nat
    BY BackendsFacts
  <2> QED BY <1>1, <2>1, HasLargest
<1> DEFINE Ws == {Weights[j] : j \in Backends}
<1>3. \A x \in Ws : x \in Nat
  BY BackendsFacts
<1>4. Weights[i] \in Ws /\ \A x \in Ws : Weights[i] >= x
  BY <1>2, BackendsFacts
<1>5. PICK h : h = Max(Ws)
  OBVIOUS
<1>6. h \in Ws /\ \A x \in Ws : h >= x
  <2> HIDE DEF Ws
  <2> QED BY <1>4, <1>5 DEF Max
<1>7. h \in Nat /\ \A j \in Backends : Weights[j] <= h
  BY <1>3, <1>6, BackendsFacts
<1>8. MostScore = 100 * h
  BY <1>5 DEF MostScore
<1> HIDE DEF Ws
<1> QED BY <1>7, <1>8, BackendsFacts

\* Those who compete have a score of at least one and at most the largest.
LEMMA ScoreBounds ==
    ASSUME TypeOK
    PROVE  /\ Score \in [Backends -> Int]
           /\ Competing \in SUBSET Contenders
           /\ \A i \in Competing : Score[i] \in 1 .. MostScore
<1>1. ASSUME NEW i \in Backends PROVE Weights[i] * ramp[i] \in Int
  <2>1. ramp[i] \in 1 .. 100 /\ Weights[i] \in Nat
    BY BackendsFacts, BalancerAssumption DEF TypeOK
  <2> QED BY <2>1
<1>2. Competing \in SUBSET Contenders
  BY DEF Competing, Contenders, TypeOK
<1>3. ASSUME NEW i \in Competing PROVE Score[i] \in 1 .. MostScore
  <2>1. i \in Backends /\ Backends # {}
    BY DEF Competing, TypeOK
  <2>2. PICK w \in Nat : w = Weights[i] /\ w # 0
    BY <2>1, BackendsFacts DEF Competing
  <2>3. PICK r \in 1 .. 100 : r = ramp[i]
    BY <2>1, BalancerAssumption DEF TypeOK
  <2>4. Score[i] = w * r
    BY <2>1, <2>2, <2>3 DEF Score
  <2>5. w * 100 <= MostScore /\ MostScore \in Nat
    BY <2>1, <2>2, MostScoreBounds
  <2>6. 1 <= w * r /\ w * r <= w * 100 /\ w * r \in Int
    <3>1. w * (100 - r) >= 0 /\ (w - 1) * r >= 0
      BY <2>2
    <3>2. w * (100 - r) = w * 100 - w * r /\ (w - 1) * r = w * r - r
      OBVIOUS
    <3> QED BY <3>1, <3>2
  <2> QED BY <2>4, <2>5, <2>6
<1> QED BY <1>1, <1>2, <1>3 DEF Score

\* What one weighted selection does: everyone competing earns its score, a
\* richest one among them is picked and pays for all.
LEMMA WeightedStep ==
    ASSUME TypeOK, SelectWeighted
    PROVE  \E e \in [Backends -> Int], p \in Competing, t \in Int :
              /\ e = Earned(current_weight, Score, Competing)
              /\ p = WeightedPick(current_weight, Score, Competing)
              /\ t = TotalOf(Score, Competing)
              /\ \A j \in Competing : e[j] <= e[p]
              /\ current_weight' \in [Backends -> Int]
              /\ current_weight'[p] = e[p] - t
              /\ \A x \in Backends : x # p => current_weight'[x] = e[x]
<1>1. PICK e : e = Earned(current_weight, Score, Competing)
  OBVIOUS
<1>2. PICK S : S = Competing /\ S \in SUBSET Backends /\ S # {} /\ IsFiniteSet(S)
  <2>1. PICK S : S = Competing
    OBVIOUS
  <2>2. S \in SUBSET Backends /\ S # {}
    BY <2>1 DEF TypeOK, Competing, SelectWeighted
  <2>3. IsFiniteSet(S)
    BY <2>2, BackendsFacts, FS_Subset
  <2> QED BY <2>1, <2>2, <2>3
<1>3. e \in [Backends -> Int]
  BY <1>1, <1>2, ScoreBounds, EarnedType DEF TypeOK
<1>4. PICK p : p = Heaviest(e, S)
  OBVIOUS
<1>5. p \in S /\ \A j \in S : e[j] <= e[p]
  <2>1. Len(Weights) \in Nat /\ e \in [1 .. Len(Weights) -> Int]
        /\ S \in SUBSET (1 .. Len(Weights))
    BY <1>2, <1>3, BackendsFacts
  <2> QED BY <1>2, <1>4, <2>1, HeaviestIs
<1>6. p = WeightedPick(current_weight, Score, Competing)
  BY <1>1, <1>2, <1>4 DEF WeightedPick
<1>7. PICK t \in Int : t = TotalOf(Score, Competing)
  <2>1. \A x \in S : Score[x] \in Int
    BY <1>2, ScoreBounds
  <2> QED BY <1>2, <2>1, TotalType
<1>8. current_weight' = [e EXCEPT ![p] = @ - t]
  BY <1>1, <1>6, <1>7 DEF SelectWeighted, WeightedCharge
<1>9. /\ current_weight' \in [Backends -> Int]
      /\ current_weight'[p] = e[p] - t
      /\ \A x \in Backends : x # p => current_weight'[x] = e[x]
  BY <1>2, <1>3, <1>5, <1>8
<1> QED BY <1>1, <1>2, <1>3, <1>5, <1>6, <1>7, <1>9

-----------------------------------------------------------------------------
\* The balances of those who ever compete cancel, and every set of them is
\* within its bound.
Balanced ==
    /\ \A i \in Backends \ Contenders : current_weight[i] = 0
    /\ TotalOf(current_weight, Contenders) = 0
    /\ Backends # {} => Within(current_weight, Contenders, MostScore)

LEMMA CountPickType ==
    ASSUME NEW count \in [Backends -> Nat], NEW full, NEW i \in Backends
    PROVE  CountPick(count, full, i) \in [Backends -> Nat]
BY DEF CountPick, Nobody

LEMMA SelectWeightedBalanced ==
    ASSUME TypeOK, Balanced, SelectWeighted
    PROVE  Balanced'
<1>1. PICK e \in [Backends -> Int], p \in Competing, t \in Int :
          /\ e = Earned(current_weight, Score, Competing)
          /\ p = WeightedPick(current_weight, Score, Competing)
          /\ t = TotalOf(Score, Competing)
          /\ \A j \in Competing : e[j] <= e[p]
          /\ current_weight' \in [Backends -> Int]
          /\ current_weight'[p] = e[p] - t
          /\ \A x \in Backends : x # p => current_weight'[x] = e[x]
  BY WeightedStep
<1>2. PICK c \in [Backends -> Int] : c = current_weight'
  BY <1>1
<1>3. PICK a \in [Backends -> Int] : a = current_weight
  BY DEF TypeOK
<1>4. PICK S : S = Competing
  OBVIOUS
<1>5. PICK C : C = Contenders /\ IsFiniteSet(C) /\ C \in SUBSET Backends
  BY BackendsFacts DEF Contenders
<1>6. PICK w \in [Backends -> Int] : w = Score /\ \A i \in S : w[i] \in 1 .. MostScore
  BY <1>4, ScoreBounds
<1>7. S \in SUBSET C /\ p \in S /\ S \in SUBSET Backends
  BY <1>4, <1>5, ScoreBounds
<1>8. /\ e = Earned(a, w, S) /\ t = TotalOf(w, S)
      /\ \A j \in S : e[j] <= e[p]
      /\ c[p] = e[p] - t
      /\ \A x \in Backends : x # p => c[x] = e[x]
  BY <1>1, <1>2, <1>3, <1>4, <1>6
<1>9. \A i \in Backends \ S : e[i] = a[i]
  BY <1>7, <1>8, EarnedType
<1>10. ASSUME NEW i \in Backends \ Contenders PROVE c[i] = 0
  <2>1. i \in Backends /\ i # p /\ i \notin S /\ a[i] = 0
    BY <1>3, <1>5, <1>7 DEF Balanced
  <2> QED BY <1>8, <1>9, <2>1
<1>11. TotalOf(c, C) = 0
  <2>1. TotalOf(e, C) = TotalOf(a, C) + TotalOf(w, C \cap S)
    <3>1. PICK D : D = Backends
      OBVIOUS
    <3>2. /\ IsFiniteSet(D) /\ S \in SUBSET D /\ C \in SUBSET D
          /\ a \in [D -> Int] /\ w \in [D -> Int]
      BY <1>5, <1>7, <3>1, BackendsFacts
    <3>3. e = Earned(a, w, S)
      BY <1>8
    <3> QED BY <3>2, <3>3, EarnedTotal
  <2>2. C \cap S = S
    BY <1>7
  <2>3. TotalOf(e, C) = TotalOf(a, C) + t
    BY <1>8, <2>1, <2>2, Zenon
  <2>4. TotalOf(a, C) = 0
    BY <1>3, <1>5 DEF Balanced
  <2>5. \A x \in C : e[x] \in Int /\ (x # p => c[x] = e[x])
    BY <1>5, <1>8
  <2>6. p \in C => TotalOf(c, C) = TotalOf(e, C) - t
    BY <1>5, <1>8, <2>5, PaidTotal
  <2> QED BY <1>7, <2>3, <2>4, <2>6
<1>12. Within(c, C, MostScore)
  <2>1. Backends # {}
    BY <1>7
  <2>2. PICK m \in Nat : m = MostScore
    BY <2>1, MostScoreBounds
  <2>3. \A i \in S : w[i] \in 0 .. m
    BY <1>6, <2>2
  <2>4. Within(a, C, m)
    BY <1>3, <1>5, <2>1, <2>2 DEF Balanced
  <2>5. c[p] = e[p] - TotalOf(w, S)
    BY <1>8
  <2>6. Within(c, C, m)
    <3>1. PICK D : D = Backends
      OBVIOUS
    <3>2. /\ IsFiniteSet(D) /\ C \in SUBSET D
          /\ a \in [D -> Int] /\ w \in [D -> Int]
          /\ \A x \in D : x # p => c[x] = e[x]
      BY <1>5, <1>8, <3>1, BackendsFacts
    <3>3. e = Earned(a, w, S) /\ \A j \in S : e[j] <= e[p]
      BY <1>8
    <3> QED BY <1>7, <2>3, <2>4, <2>5, <3>2, <3>3, DriftStep
  <2> QED BY <2>2, <2>6
<1>13. Backends' = Backends /\ Contenders' = Contenders /\ MostScore' = MostScore
  BY DEF Backends, Contenders, MostScore
<1> QED BY <1>2, <1>5, <1>10, <1>11, <1>12, <1>13 DEF Balanced

-----------------------------------------------------------------------------
LEMMA NthIs ==
    ASSUME NEW n \in Nat, NEW S \in SUBSET (1 .. n), NEW k \in Nat, k < Cardinality(S)
    PROVE  Nth(S, k) \in S /\ Cardinality({y \in S : y < Nth(S, k)}) = k
<1>1. \E x \in S : Cardinality({y \in S : y < x}) = k
  BY HasNth
<1> QED BY <1>1 DEF Nth

\* The cursor points into the available set.
LEMMA PickInRange ==
    ASSUME NEW S \in SUBSET Backends, S # {}, NEW cursor \in Nat
    PROVE  RoundRobinPick(cursor, S) \in S
<1>1. IsFiniteSet(S)
  BY BackendsFacts, FS_Subset
<1>2. PICK n \in Nat \ {0} : n = Cardinality(S)
  <2>1. Cardinality(S) \in Nat /\ Cardinality(S) # 0
    BY <1>1, FS_CardinalityType, FS_EmptySet
  <2> QED BY <2>1
<1>3. PICK k \in 0 .. n - 1 : k = cursor % n
  BY RemainderRange
<1>4. k \in Nat /\ k < Cardinality(S)
  BY <1>2
<1>5. Len(Weights) \in Nat /\ S \in SUBSET (1 .. Len(Weights))
  BY BackendsFacts
<1>6. Nth(S, k) \in S
  BY <1>4, <1>5, NthIs
<1> QED BY <1>2, <1>3, <1>6 DEF RoundRobinPick

(***************************************************************************)
(* The balancer keeps its types: the cursor stays below its width, and the *)
(* balances stay integers (pool.rs select_round_robin, select_weighted).   *)
(***************************************************************************)
THEOREM TypeCorrect == Spec => []TypeOK
<1>1. Init => TypeOK
  <2> SUFFICES ASSUME Init PROVE TypeOK
    OBVIOUS
  <2>1. 100 \in Ramps /\ 0 \in 0 .. CursorWidth - 1
    BY BalancerAssumption, CursorAssumption
  <2> QED BY <2>1 DEF Init, TypeOK, Nobody
<1>2. TypeOK /\ [Next]_vars => TypeOK'
  <2> SUFFICES ASSUME TypeOK, [Next]_vars PROVE TypeOK'
    OBVIOUS
  <2>0. Backends' = Backends
    BY DEF Backends
  <2>1. CASE SelectRoundRobin
    <3>1. rr_cursor \in Nat /\ up # {} /\ up \in SUBSET Backends
      BY <2>1, CursorAssumption DEF SelectRoundRobin, TypeOK
    <3>2. PICK i \in Backends : i = RoundRobinPick(rr_cursor, up)
      BY <3>1, PickInRange
    <3>3. turns' = CountPick(turns, Cycle, i)
      BY <2>1, <3>2 DEF SelectRoundRobin
    <3>4. turns' \in [Backends -> Nat]
      BY <3>3, CountPickType DEF TypeOK
    <3>5. rr_cursor' \in 0 .. CursorWidth - 1
      <4>1. (rr_cursor + 1) % CursorWidth \in 0 .. CursorWidth - 1
        BY <3>1, CursorAssumption, RemainderRange
      <4> QED BY <2>1, <4>1 DEF SelectRoundRobin, NextCursor
    <3> QED BY <2>1, <3>4, <3>5 DEF SelectRoundRobin, TypeOK, Backends
  <2>2. CASE SelectWeighted
    <3>1. PICK e \in [Backends -> Int], p \in Competing, t \in Int :
              /\ p = WeightedPick(current_weight, Score, Competing)
              /\ current_weight' \in [Backends -> Int]
      BY <2>2, WeightedStep
    <3>2. p \in Backends
      BY DEF Competing, TypeOK
    <3>3. served' = CountPick(served, Period, p)
      BY <2>2, <3>1 DEF SelectWeighted
    <3>4. served' \in [Backends -> Nat]
      BY <3>2, <3>3, CountPickType DEF TypeOK
    <3> QED BY <2>2, <3>1, <3>4 DEF SelectWeighted, TypeOK, Backends
  <2>3. CASE Disturb
    <3>1. ramp' \in [Backends -> Ramps]
      BY <2>3 DEF Disturb, TypeOK
    <3>2. up' \in SUBSET Backends
      BY <2>3 DEF Disturb, TypeOK
    <3>3. Nobody \in [Backends -> Nat]
      BY DEF Nobody
    <3> QED BY <2>3, <3>1, <3>2, <3>3 DEF Disturb, TypeOK, Backends
  <2>4. CASE UNCHANGED vars
    BY <2>4 DEF vars, history, TypeOK, Backends
  <2> QED BY <2>1, <2>2, <2>3, <2>4 DEF Next
<1> QED BY <1>1, <1>2, PTL DEF Spec

LEMMA BalancedInvariant == Spec => []Balanced
<1>1. Init => Balanced
  <2> SUFFICES ASSUME Init PROVE Balanced
    OBVIOUS
  <2>1. \A i \in Backends : current_weight[i] = 0
    BY DEF Init, Nobody
  <2>2. PICK a : a = current_weight
    OBVIOUS
  <2>3. \A X \in SUBSET Contenders : IsFiniteSet(X) /\ TotalOf(a, X) = 0
    <3> TAKE X \in SUBSET Contenders
    <3>1. IsFiniteSet(X) /\ X \in SUBSET Backends
      BY BackendsFacts, FS_Subset DEF Contenders
    <3>2. \A i \in X : a[i] = 0
      BY <2>1, <2>2, <3>1
    <3> QED BY <3>1, <3>2, TotalZero
  <2>4. ASSUME Backends # {} PROVE Within(a, Contenders, MostScore)
    <3> SUFFICES ASSUME NEW X \in SUBSET Contenders
                 PROVE  TotalOf(a, X) <= Slack(Cardinality(Contenders), Cardinality(X), MostScore)
      BY DEF Within
    <3>1. PICK m \in Nat : m = MostScore
      BY <2>4, MostScoreBounds
    <3>2. PICK n \in Nat : n = Cardinality(Contenders)
      BY BackendsFacts, FS_CardinalityType
    <3>3. PICK k \in Nat : k = Cardinality(X)
      BY <2>3, FS_CardinalityType
    <3>4. k <= n
      BY <3>2, <3>3, BackendsFacts, FS_Subset
    <3>5. (k * (n - k)) * m >= 0
      <4>1. n - k \in Nat
        BY <3>4
      <4>2. PICK x \in Nat : x = k * (n - k)
        BY <4>1
      <4>3. x * m >= 0
        OBVIOUS
      <4> QED BY <4>2, <4>3
    <3> QED BY <2>3, <3>1, <3>2, <3>3, <3>5 DEF Slack
  <2>5. Contenders \in SUBSET Contenders /\ \A i \in Backends \ Contenders : i \in Backends
    OBVIOUS
  <2> QED BY <2>1, <2>2, <2>3, <2>4, <2>5 DEF Balanced
<1>2. TypeOK /\ Balanced /\ [Next]_vars => Balanced'
  <2> SUFFICES ASSUME TypeOK, Balanced, [Next]_vars PROVE Balanced'
    OBVIOUS
  <2>1. CASE SelectWeighted
    BY <2>1, SelectWeightedBalanced
  <2>2. CASE UNCHANGED current_weight
    BY <2>2 DEF Balanced, Backends, Contenders, MostScore, Within
  <2> QED BY <2>1, <2>2 DEF Next, SelectRoundRobin, Disturb, vars
<1> QED BY <1>1, <1>2, TypeCorrect, PTL DEF Spec

(***************************************************************************)
(* The balances of a weighted pool always cancel, whoever is available and *)
(* however fast it ramps (pool.rs select_weighted).                        *)
(***************************************************************************)
THEOREM BalancesCancel == Spec => []WeightsCancel
<1>1. TypeOK /\ Balanced => WeightsCancel
  <2> SUFFICES ASSUME TypeOK, Balanced PROVE WeightsCancel
    OBVIOUS
  <2>1. PICK a \in [Backends -> Int] : a = current_weight
    BY DEF TypeOK
  <2>2. \A x \in Backends : a[x] \in Int
    OBVIOUS
  <2>3. \A x \in Backends \ Contenders : a[x] = 0
    BY <2>1 DEF Balanced
  <2>4. Contenders \in SUBSET Backends /\ IsFiniteSet(Backends)
    BY BackendsFacts DEF Contenders
  <2>5. TotalOf(a, Backends) = TotalOf(a, Contenders)
    BY <2>2, <2>3, <2>4, TotalElsewhereZero
  <2> QED BY <2>1, <2>5 DEF Balanced, WeightsCancel
<1> QED BY <1>1, TypeCorrect, BalancedInvariant, PTL

(***************************************************************************)
(* No balance leaves the bounds, for every list of weights and every       *)
(* history of availability and ramps (pool.rs select_weighted).            *)
(***************************************************************************)
THEOREM DriftIsBounded == Spec => []DriftBounded
<1>1. TypeOK /\ Balanced => DriftBounded
  <2> SUFFICES ASSUME TypeOK, Balanced, NEW i \in Backends
               PROVE  current_weight[i] \in -MostDrift .. MostDrift
    BY DEF DriftBounded
  <2>1. PICK a \in [Backends -> Int] : a = current_weight
    BY DEF TypeOK
  <2>2. PICK C : C = Contenders /\ C \in SUBSET Backends /\ IsFiniteSet(C)
    BY BackendsFacts DEF Contenders
  <2>3. PICK n \in Nat : n = Cardinality(C)
    BY <2>2, FS_CardinalityType
  <2>4. PICK m \in Nat : m = MostScore
    BY MostScoreBounds
  <2>5. MostDrift = m * (n - 1)
    BY <2>2, <2>3, <2>4 DEF MostDrift
  <2>6. a[i] \in Int
    OBVIOUS
  <2>7. CASE i \in C
    <3>1. PICK one : one = {i}
      OBVIOUS
    <3>2. PICK R : R = C \ {i}
      OBVIOUS
    <3>3. one \in SUBSET C /\ R \in SUBSET C /\ IsFiniteSet(one) /\ IsFiniteSet(R)
          /\ one = {} \cup {i}
      BY <2>2, <2>7, <3>1, <3>2, FS_Subset
    <3>4. Cardinality(one) = 1
      BY <3>1, FS_Singleton
    <3>5. Cardinality(R) = n - 1
      BY <2>2, <2>3, <2>7, <3>2, FS_RemoveElement
    <3>6. \A X \in SUBSET C : TotalOf(a, X) <= Slack(n, Cardinality(X), m)
      BY <2>1, <2>2, <2>3, <2>4 DEF Balanced, Within
    <3>7. \A x \in C : a[x] \in Int
      BY <2>2
    <3>8. TotalOf(a, C) = a[i] + TotalOf(a, R)
      BY <2>2, <2>7, <3>2, <3>7, TotalWithout
    <3>9. TotalOf(a, one) = a[i]
      <4>1. TotalOf(a, one) = a[i] + TotalOf(a, one \ {i})
        BY <2>7, <3>1, <3>3, <3>7, TotalWithout
      <4>2. one \ {i} = {}
        BY <3>1
      <4>3. TotalOf(a, one) = a[i] + 0
        BY <4>1, <4>2, TotalOfEmpty, Zenon
      <4> QED BY <2>6, <4>3
    <3>10. TotalOf(a, C) = 0
      BY <2>1, <2>2 DEF Balanced
    <3>11. TotalOf(a, one) <= Slack(n, 1, m) /\ TotalOf(a, R) <= Slack(n, n - 1, m)
      BY <3>3, <3>4, <3>5, <3>6
    <3>12. Slack(n, 1, m) = m * (n - 1) /\ Slack(n, n - 1, m) = m * (n - 1)
      BY DEF Slack
    <3>13. TotalOf(a, R) \in Int
      BY <3>3, <3>7, TotalType
    <3>14. PICK d \in Int : d = m * (n - 1)
      OBVIOUS
    <3>15. a[i] <= d /\ -d <= a[i]
      BY <2>6, <3>8, <3>9, <3>10, <3>11, <3>12, <3>13, <3>14
    <3> QED BY <2>1, <2>5, <2>6, <3>14, <3>15
  <2>8. CASE i \notin C
    <3>1. a[i] = 0
      BY <2>1, <2>2, <2>8 DEF Balanced
    <3>2. PICK d \in Nat : d = m * (n - 1)
      <4>1. CASE n = 0
        <5>1. C = {}
          BY <2>2, <2>3, <4>1, FS_EmptySet
        <5>2. \A j \in Backends : Weights[j] = 0
          BY <2>2, <5>1 DEF Contenders
        <5>3. {Weights[j] : j \in Backends} = {0}
          BY <5>2
        <5>4. Max({0}) = 0
          BY DEF Max
        <5>5. m = 0
          <6>1. MostScore = 100 * Max({0})
            BY <5>3, Zenon DEF MostScore
          <6> QED BY <2>4, <5>4, <6>1
        <5> QED BY <4>1, <5>5
      <4>2. CASE n # 0
        <5>1. n - 1 \in Nat
          BY <4>2
        <5> QED BY <5>1
      <4> QED BY <4>1, <4>2
    <3> QED BY <2>1, <2>5, <3>1, <3>2
  <2> QED BY <2>7, <2>8
<1> QED BY <1>1, TypeCorrect, BalancedInvariant, PTL

-----------------------------------------------------------------------------
\* A whole period of n picks among C: the scores f are g times the shares a,
\* s counts the picks, and nobody is a full charge behind.
WholePeriod(C, g, f, a, s, n) ==
    /\ \A i \in C : a[i] \in Nat /\ s[i] \in Nat /\ f[i] = g * a[i]
    /\ TotalOf(a, C) = n /\ TotalOf(s, C) = n
    /\ \A i \in C : n * f[i] - (g * n) * s[i] > -(g * n)

LEMMA PeriodExact ==
    ASSUME NEW C, IsFiniteSet(C), NEW g \in Nat \ {0}, NEW f, NEW a, NEW s, NEW n \in Int,
           WholePeriod(C, g, f, a, s, n)
    PROVE  \A i \in C : s[i] = a[i]
<1>0. /\ \A i \in C : a[i] \in Nat /\ s[i] \in Nat /\ f[i] = g * a[i]
      /\ TotalOf(a, C) = n /\ TotalOf(s, C) = n
      /\ \A i \in C : n * f[i] - (g * n) * s[i] > -(g * n)
  BY DEF WholePeriod
<1>1. ASSUME NEW i \in C PROVE s[i] <= a[i]
  <2>1. PICK x \in Nat : x = a[i]
    BY <1>0
  <2>2. PICK y \in Nat : y = s[i]
    BY <1>0
  <2>3. n * (g * x) - (g * n) * y > -(g * n)
    BY <1>0, <2>1, <2>2
  <2>4. PICK k \in Int : k = g * n
    OBVIOUS
  <2>5. n * (g * x) = k * x
    BY <2>4
  <2>6. k * x - k * y > -k /\ k * x \in Int /\ k * y \in Int
    BY <2>3, <2>4, <2>5
  <2>7. n >= 0
    <3>1. TotalOf(s, C) \in Nat
      BY <1>0, TotalNonneg
    <3> QED BY <1>0, <3>1
  <2>8. k >= 0
    BY <2>4, <2>7
  <2>9. CASE y >= x + 1
    <3>1. k * (y - x - 1) >= 0
      BY <2>8, <2>9
    <3>2. k * (y - x - 1) = k * y - k * x - k
      OBVIOUS
    <3> QED BY <2>6, <3>1, <3>2
  <2>10. CASE ~(y >= x + 1)
    BY <2>1, <2>2, <2>10
  <2> QED BY <2>9, <2>10
<1>2. \A i \in C : s[i] \in Int /\ a[i] \in Int /\ s[i] <= a[i]
  BY <1>0, <1>1
<1>3. TotalOf(s, C) = TotalOf(a, C)
  BY <1>0
<1> QED BY <1>2, <1>3, TotalTight

-----------------------------------------------------------------------------
\* The scores, the shares and their sums when everyone competes at full ramp.
FullScore == [i \in Backends |-> Weights[i] * 100]

FullShare == [i \in Backends |-> FullScore[i] \div Granule]

Shares == TotalOf(FullShare, Contenders)

\* While nothing was disturbed the balances are what the picks so far make
\* them, nobody is a full charge behind, and the period is not exceeded.
Exact ==
    undisturbed =>
        LET n == TotalOf(served, Contenders)
        IN  /\ up = Backends /\ ramp = [i \in Backends |-> 100]
            /\ n <= Shares
            /\ \A i \in Backends \ Contenders : served[i] = 0
            /\ \A i \in Contenders :
                  /\ current_weight[i] = n * FullScore[i] - (Granule * Shares) * served[i]
                  /\ current_weight[i] > -(Granule * Shares)

LEMMA FullFacts ==
    /\ FullScore \in [Backends -> Int] /\ FullShare \in [Backends -> Nat]
    /\ \A i \in Backends : FullScore[i] = Granule * FullShare[i]
    /\ \A i \in Contenders : FullScore[i] > 0
    /\ Shares \in Nat
    /\ TotalOf(FullScore, Contenders) = Granule * Shares
<1>1. ASSUME NEW i \in Backends
      PROVE  /\ FullScore[i] \in Nat /\ FullShare[i] \in Nat
             /\ FullScore[i] = Granule * FullShare[i]
             /\ i \in Contenders => FullScore[i] > 0
  <2>1. PICK w \in Nat : w = Weights[i]
    BY BackendsFacts
  <2>2. PICK f \in Nat : f = w * 100
    BY <2>1
  <2>3. f = FullScore[i] /\ FullShare[i] = f \div Granule
    BY <2>1, <2>2 DEF FullScore, FullShare
  <2>4. f % Granule = 0
    BY <2>1, <2>2, BalancerAssumption DEF Backends
  <2>5. f \div Granule \in Nat /\ f = Granule * (f \div Granule) + (f % Granule)
    BY BalancerAssumption, RemainderRange
  <2>6. PICK q \in Nat : q = f \div Granule
    BY <2>5
  <2>7. Granule * q \in Nat
    BY BalancerAssumption
  <2>8. f = Granule * q
    BY <2>4, <2>5, <2>6, <2>7
  <2>9. i \in Contenders => f > 0
    BY <2>1, <2>2 DEF Contenders
  <2> QED BY <2>3, <2>6, <2>8, <2>9
<1>2. FullScore \in [Backends -> Int] /\ FullShare \in [Backends -> Nat]
  <2>1. FullScore = [i \in Backends |-> FullScore[i]]
    BY DEF FullScore
  <2>2. FullShare = [i \in Backends |-> FullShare[i]]
    BY DEF FullShare
  <2> QED BY <1>1, <2>1, <2>2
<1>3. PICK f \in [Backends -> Int] : f = FullScore
  BY <1>2
<1>4. PICK a \in [Backends -> Nat] : a = FullShare
  BY <1>2
<1>5. PICK C : C = Contenders /\ C \in SUBSET Backends /\ IsFiniteSet(C)
  BY BackendsFacts DEF Contenders
<1>6. PICK g \in Int : g = Granule
  BY BalancerAssumption
<1>7. \A i \in C : a[i] \in Int /\ f[i] = g * a[i]
  BY <1>1, <1>3, <1>4, <1>5, <1>6
<1>8. TotalOf(f, C) = g * TotalOf(a, C)
  BY <1>5, <1>7, TotalTimes
<1>9. TotalOf(a, C) \in Nat
  <2>1. \A i \in C : a[i] \in Nat
    BY <1>5
  <2> QED BY <1>5, <2>1, TotalNonneg
<1>10. \A i \in Contenders : FullScore[i] > 0
  BY <1>1, <1>5
<1> QED BY <1>1, <1>2, <1>3, <1>4, <1>5, <1>6, <1>8, <1>9, <1>10 DEF Shares

\* Undisturbed, the scores and the competitors are the full ones.
LEMMA FullCompetition ==
    ASSUME TypeOK, Exact, undisturbed
    PROVE  /\ Score = FullScore /\ Competing = Contenders
           /\ TotalOf(Score, Competing) = Granule * Shares
           /\ Period = Shares
           /\ TotalOf(served, Backends) = TotalOf(served, Contenders)
<1>1. Score = FullScore
  <2>1. \A i \in Backends : ramp[i] = 100
    BY DEF Exact
  <2> QED BY <2>1 DEF Score, FullScore
<1>2. Competing = Contenders
  BY DEF Exact, Competing, Contenders
<1>3. TotalOf(Score, Competing) = Granule * Shares
  BY <1>1, <1>2, FullFacts, Zenon
<1>4. Period = Shares
  <2>1. PICK g \in Nat \ {0} : g = Granule
    BY BalancerAssumption
  <2>2. PICK n \in Nat : n = Shares
    BY FullFacts
  <2>3. (g * n) \div g = n
    BY ExactQuotient
  <2>4. Period = (g * n) \div g
    BY <1>3, <2>1, <2>2 DEF Period
  <2> QED BY <2>2, <2>3, <2>4
<1>5. TotalOf(served, Backends) = TotalOf(served, Contenders)
  <2>1. Contenders \in SUBSET Backends /\ IsFiniteSet(Backends)
    BY BackendsFacts DEF Contenders
  <2>2. PICK s \in [Backends -> Nat] : s = served
    BY DEF TypeOK
  <2>3. \A x \in Backends : s[x] \in Int
    OBVIOUS
  <2>4. \A x \in Backends \ Contenders : s[x] = 0
    BY <2>2 DEF Exact
  <2>5. TotalOf(s, Backends) = TotalOf(s, Contenders)
    BY <2>1, <2>3, <2>4, TotalElsewhereZero
  <2> QED BY <2>2, <2>5
<1> QED BY <1>1, <1>2, <1>3, <1>4, <1>5

\* At the end of a period everyone has had its share.
LEMMA ExactAtTheEnd ==
    ASSUME TypeOK, Exact, undisturbed, TotalOf(served, Contenders) = Shares
    PROVE  \A i \in Contenders : served[i] = FullShare[i]
<1>1. PICK C : C = Contenders /\ IsFiniteSet(C) /\ C \in SUBSET Backends
  BY BackendsFacts DEF Contenders
<1>2. PICK g \in Nat \ {0} : g = Granule
  BY BalancerAssumption
<1>3. PICK n \in Int : n = Shares
  BY FullFacts
<1>4. PICK f \in [Backends -> Int] : f = FullScore
  BY FullFacts
<1>5. PICK a \in [Backends -> Nat] : a = FullShare
  BY FullFacts
<1>6. PICK s \in [Backends -> Nat] : s = served
  BY DEF TypeOK
<1>7. TotalOf(a, C) = n /\ TotalOf(s, C) = n
  BY <1>1, <1>3, <1>5, <1>6 DEF Shares
<1>8. \A i \in C : a[i] \in Nat /\ s[i] \in Nat /\ f[i] = g * a[i]
  BY <1>1, <1>2, <1>4, <1>5, FullFacts
<1>9. \A i \in C : n * f[i] - (g * n) * s[i] > -(g * n)
  BY <1>1, <1>2, <1>3, <1>4, <1>6, <1>7 DEF Exact
<1>10. \A i \in C : s[i] = a[i]
  <2>1. WholePeriod(C, g, f, a, s, n)
    BY <1>7, <1>8, <1>9 DEF WholePeriod
  <2> QED BY <1>1, <2>1, PeriodExact
<1> QED BY <1>1, <1>5, <1>6, <1>10

-----------------------------------------------------------------------------
LEMMA SharesPositive ==
    ASSUME NEW p \in Contenders
    PROVE  Shares \in Nat /\ Shares >= 1 /\ Granule * Shares > 0
<1>1. PICK C : C = Contenders /\ IsFiniteSet(C) /\ C \in SUBSET Backends
  BY BackendsFacts DEF Contenders
<1>2. PICK a \in [Backends -> Nat] : a = FullShare
  BY FullFacts
<1>3. PICK q \in Nat : q = a[p]
  BY <1>1
<1>4. PICK g \in Nat \ {0} : g = Granule
  BY BalancerAssumption
<1>5. g * q > 0
  BY <1>1, <1>2, <1>3, <1>4, FullFacts
<1>6. q # 0
  <2>1. CASE q = 0
    BY <1>5, <2>1
  <2> QED BY <2>1
<1>7. q <= TotalOf(a, C)
  <2>1. \A i \in C : a[i] \in Nat
    BY <1>1
  <2>2. p \in C
    BY <1>1
  <2> QED BY <1>1, <1>3, <2>1, <2>2, TotalAtLeast
<1>8. PICK n \in Nat : n = Shares /\ q <= n
  BY <1>1, <1>2, <1>7, FullFacts DEF Shares
<1>9. g * n > 0
  <2>1. g * (n - 1) >= 0 /\ g * (n - 1) = g * n - g
    BY <1>6, <1>8
  <2> QED BY <1>4, <2>1
<1> QED BY <1>4, <1>6, <1>8, <1>9

\* The picks counted before the next one, from none again after a period.
LEMMA CountedBefore ==
    ASSUME TypeOK, Balanced, Exact, undisturbed, NEW p \in Contenders,
           served' = CountPick(served, Period, p)
    PROVE  \E b \in [Backends -> Nat], n \in Nat :
              /\ n = TotalOf(b, Contenders) /\ n + 1 <= Shares
              /\ \A i \in Backends \ Contenders : b[i] = 0
              /\ \A i \in Contenders :
                    current_weight[i] = n * FullScore[i] - (Granule * Shares) * b[i]
              /\ served' = [b EXCEPT ![p] = @ + 1]
<1>1. PICK s \in [Backends -> Nat] : s = served
  BY DEF TypeOK
<1>2. PICK C : C = Contenders /\ IsFiniteSet(C) /\ C \in SUBSET Backends
  BY BackendsFacts DEF Contenders
<1>3. PICK m \in Nat : m = Shares
  BY FullFacts
<1>4. PICK n \in Nat : n = TotalOf(s, C)
  <2>1. \A i \in C : s[i] \in Nat
    BY <1>2
  <2> QED BY <1>2, <2>1, TotalNonneg
<1>5. n <= m
  BY <1>1, <1>2, <1>3, <1>4 DEF Exact
<1>6. CASE n # m
  <2>1. TotalOf(served, Backends) # Period
    BY <1>1, <1>2, <1>3, <1>4, <1>6, FullCompetition
  <2>2. served' = [s EXCEPT ![p] = @ + 1]
    BY <1>1, <2>1 DEF CountPick
  <2>3. n + 1 <= m
    BY <1>5, <1>6
  <2>4. /\ \A i \in Backends \ Contenders : s[i] = 0
        /\ \A i \in Contenders :
              current_weight[i] = n * FullScore[i] - (Granule * Shares) * s[i]
    BY <1>1, <1>2, <1>4 DEF Exact
  <2> QED BY <1>2, <1>3, <1>4, <2>2, <2>3, <2>4
<1>7. CASE n = m
  <2>1. TotalOf(served, Backends) = Period
    BY <1>1, <1>2, <1>3, <1>4, <1>7, FullCompetition
  <2>2. PICK z \in [Backends -> Nat] : z = Nobody /\ \A i \in Backends : z[i] = 0
    <3>1. Nobody \in [Backends -> Nat] /\ \A i \in Backends : Nobody[i] = 0
      BY DEF Nobody
    <3> QED BY <3>1
  <2>0. PICK o \in Nat : o = 0
    OBVIOUS
  <2>3. served' = [z EXCEPT ![p] = @ + 1]
    BY <2>1, <2>2 DEF CountPick
  <2>4. TotalOf(z, C) = 0
    <3>1. \A i \in C : z[i] = 0
      BY <1>2, <2>2
    <3> QED BY <1>2, <3>1, TotalZero
  <2>5. m >= 1
    BY <1>3, SharesPositive
  <2>6. ASSUME NEW i \in Contenders
        PROVE  current_weight[i] = o * FullScore[i] - (Granule * Shares) * z[i]
    <3>1. s[i] = FullShare[i]
      BY <1>1, <1>2, <1>3, <1>4, <1>7, ExactAtTheEnd
    <3>2. PICK q \in Nat : q = FullShare[i]
      BY <1>2, FullFacts
    <3>3. PICK g \in Nat : g = Granule
      BY BalancerAssumption
    <3>4. FullScore[i] = g * q
      BY <1>2, <3>2, <3>3, FullFacts
    <3>5. current_weight[i] = m * (g * q) - (g * m) * q
      BY <1>1, <1>2, <1>3, <1>4, <1>7, <3>1, <3>2, <3>3, <3>4 DEF Exact
    <3>6. m * (g * q) = (g * m) * q /\ m * (g * q) \in Int
      OBVIOUS
    <3>7. current_weight[i] = 0
      BY <3>5, <3>6
    <3>8. z[i] = 0 /\ o * (g * q) - (g * m) * 0 = 0
      BY <1>2, <2>0, <2>2
    <3> QED BY <1>3, <3>3, <3>4, <3>7, <3>8
  <2>7. o = TotalOf(z, Contenders) /\ o + 1 <= Shares
    BY <1>2, <1>3, <2>0, <2>4, <2>5
  <2>8. \A i \in Backends \ Contenders : z[i] = 0
    BY <2>2
  <2> QED BY <2>3, <2>6, <2>7, <2>8
<1> QED BY <1>6, <1>7

LEMMA SelectWeightedExact ==
    ASSUME TypeOK, Balanced, Exact, SelectWeighted, undisturbed
    PROVE  Exact'
<1>1. PICK e \in [Backends -> Int], p \in Competing, t \in Int :
          /\ e = Earned(current_weight, Score, Competing)
          /\ p = WeightedPick(current_weight, Score, Competing)
          /\ t = TotalOf(Score, Competing)
          /\ \A j \in Competing : e[j] <= e[p]
          /\ current_weight' \in [Backends -> Int]
          /\ current_weight'[p] = e[p] - t
          /\ \A x \in Backends : x # p => current_weight'[x] = e[x]
  BY WeightedStep
<1>2. PICK c \in [Backends -> Int] : c = current_weight'
  BY <1>1
<1>3. PICK a \in [Backends -> Int] : a = current_weight
  BY DEF TypeOK
<1>4. PICK C : C = Contenders /\ IsFiniteSet(C) /\ C \in SUBSET Backends /\ C = Competing
  BY BackendsFacts, FullCompetition DEF Contenders
<1>5. PICK f \in [Backends -> Int] : f = Score /\ f = FullScore /\ \A i \in C : f[i] > 0
  BY <1>4, FullCompetition, FullFacts
<1>6. PICK k \in Int : k = Granule * Shares /\ k = t
  BY <1>1, FullCompetition
<1>7. p \in C
  BY <1>4
<1>8. PICK b \in [Backends -> Nat], n \in Nat :
          /\ n = TotalOf(b, Contenders) /\ n + 1 <= Shares
          /\ \A i \in Backends \ Contenders : b[i] = 0
          /\ \A i \in Contenders :
                current_weight[i] = n * FullScore[i] - (Granule * Shares) * b[i]
          /\ served' = [b EXCEPT ![p] = @ + 1]
  <2>1. served' = CountPick(served, Period, p)
    BY <1>1 DEF SelectWeighted
  <2>2. p \in Contenders
    BY <1>4, <1>7
  <2> QED BY <2>1, <2>2, CountedBefore
<1>9. \A i \in C : a[i] = n * f[i] - k * b[i] /\ a[i] > -k
  BY <1>3, <1>4, <1>5, <1>6, <1>8 DEF Exact
<1>10. PICK d \in [Backends -> Nat] :
           /\ d = served'
           /\ d[p] = b[p] + 1 /\ \A x \in Backends : x # p => d[x] = b[x]
  BY <1>4, <1>7, <1>8
<1>11. \A i \in C : e[i] = a[i] + f[i]
  <2>1. C \in SUBSET Backends /\ e = Earned(a, f, C)
    BY <1>1, <1>3, <1>4, <1>5
  <2> QED BY <2>1, EarnedType
<1>12. TotalOf(d, C) = n + 1
  <2>1. d[p] = b[p] - (-1)
    <3>1. b[p] \in Int
      BY <1>4, <1>7
    <3> QED BY <1>10, <3>1
  <2>2. \A x \in C : b[x] \in Int /\ (x # p => d[x] = b[x])
    BY <1>4, <1>10
  <2>3. PICK o \in Int : o = -1
    OBVIOUS
  <2>4. d[p] = b[p] - o
    BY <2>1, <2>3
  <2>5. TotalOf(d, C) = TotalOf(b, C) - o
    BY <1>4, <1>7, <2>2, <2>4, PaidTotal
  <2>6. TotalOf(b, C) = n
    BY <1>4, <1>8
  <2> QED BY <2>3, <2>5, <2>6
<1>13. e[p] > 0
  <2> SUFFICES ASSUME ~(e[p] > 0) PROVE FALSE
    OBVIOUS
  <2>1. TotalOf(e, C) = TotalOf(a, C) + TotalOf(f, C)
    <3>1. PICK D : D = Backends
      OBVIOUS
    <3>2. IsFiniteSet(D) /\ C \in SUBSET D /\ a \in [D -> Int] /\ f \in [D -> Int]
      BY <1>4, <3>1, BackendsFacts
    <3>3. e = Earned(a, f, C)
      BY <1>1, <1>3, <1>4, <1>5
    <3>4. TotalOf(e, C) = TotalOf(a, C) + TotalOf(f, C \cap C)
      BY <3>2, <3>3, EarnedTotal
    <3>5. C \cap C = C
      OBVIOUS
    <3> QED BY <3>4, <3>5, Zenon
  <2>2. TotalOf(a, C) = 0
    BY <1>3, <1>4 DEF Balanced
  <2>3. TotalOf(f, C) >= f[p] /\ TotalOf(f, C) \in Int
    <3>1. \A i \in C : f[i] \in Nat
      BY <1>4, <1>5
    <3>2. TotalOf(f, C) >= f[p]
      BY <1>4, <1>7, <3>1, TotalAtLeast
    <3>3. TotalOf(f, C) \in Nat
      BY <1>4, <3>1, TotalNonneg
    <3> QED BY <3>2, <3>3
  <2>4. TotalOf(e, C) <= 0
    <3> DEFINE zero == [x \in C |-> 0]
    <3>1. \A i \in C : zero[i] = 0
      OBVIOUS
    <3> HIDE DEF zero
    <3>2. \A i \in C : e[i] \in Int /\ zero[i] \in Int /\ e[i] <= zero[i]
      <4>1. \A i \in C : e[i] \in Int /\ e[i] <= e[p] /\ e[p] \in Int
        BY <1>1, <1>4, <1>7
      <4> QED BY <3>1, <4>1
    <3>3. TotalOf(e, C) <= TotalOf(zero, C)
      BY <1>4, <3>2, TotalLeq
    <3>4. TotalOf(zero, C) = 0
      BY <1>4, <3>1, TotalZero
    <3> QED BY <3>3, <3>4
  <2>5. f[p] > 0 /\ f[p] \in Int
    BY <1>4, <1>5, <1>7
  <2> QED BY <2>1, <2>2, <2>3, <2>4, <2>5
<1>14. ASSUME NEW i \in C
       PROVE  c[i] = (n + 1) * f[i] - k * d[i] /\ c[i] > -k
  <2>1. i \in Backends /\ f[i] \in Int /\ b[i] \in Int /\ a[i] \in Int /\ e[i] \in Int
    BY <1>4
  <2>2. PICK x \in Int : x = f[i]
    BY <2>1
  <2>3. PICK y \in Int : y = b[i]
    BY <2>1
  <2>4. a[i] = n * x - k * y /\ a[i] > -k /\ e[i] = a[i] + x /\ x > 0
    BY <1>5, <1>9, <1>11, <2>2, <2>3
  <2>5. (n + 1) * x = n * x + x /\ k * (y + 1) = k * y + k /\ n * x \in Int /\ k * y \in Int
    OBVIOUS
  <2>6. CASE i = p
    <3>1. c[i] = e[i] - k /\ d[i] = y + 1 /\ e[i] > 0
      BY <1>1, <1>2, <1>6, <1>10, <1>13, <2>3, <2>6
    <3>2. c[i] = (n + 1) * x - k * (y + 1) /\ c[i] > -k
      BY <2>1, <2>4, <2>5, <3>1
    <3> QED BY <2>2, <3>1, <3>2
  <2>7. CASE i # p
    <3>1. c[i] = e[i] /\ d[i] = y
      BY <1>1, <1>2, <1>10, <2>1, <2>3, <2>7
    <3>2. c[i] = (n + 1) * x - k * y /\ c[i] > -k
      BY <2>1, <2>4, <2>5, <3>1
    <3> QED BY <2>2, <3>1, <3>2
  <2> QED BY <2>6, <2>7
<1>15. \A i \in Backends \ C : d[i] = 0
  BY <1>4, <1>7, <1>8, <1>10
<1>16. up' = Backends /\ ramp' = [i \in Backends |-> 100] /\ n + 1 <= Shares
  BY <1>8 DEF SelectWeighted, Exact
<1>17. /\ Backends' = Backends /\ Contenders' = Contenders
       /\ FullScore' = FullScore /\ Shares' = Shares
  BY DEF Backends, Contenders, FullScore, Shares, FullShare
<1>18. TotalOf(served', Contenders) = n + 1
  BY <1>4, <1>10, <1>12
<1>19. \A i \in Contenders :
          /\ current_weight'[i] = (n + 1) * FullScore[i] - (Granule * Shares) * served'[i]
          /\ current_weight'[i] > -(Granule * Shares)
  BY <1>2, <1>4, <1>5, <1>6, <1>10, <1>14
<1>20. \A i \in Backends \ Contenders : served'[i] = 0
  BY <1>4, <1>10, <1>15
<1> QED BY <1>16, <1>17, <1>18, <1>19, <1>20 DEF Exact

LEMMA ExactInvariant == Spec => []Exact
<1>1. Init => Exact
  <2> SUFFICES ASSUME Init PROVE Exact
    OBVIOUS
  <2>1. PICK z \in [Backends -> Nat] : z = Nobody /\ \A i \in Backends : z[i] = 0
    <3>1. Nobody \in [Backends -> Nat] /\ \A i \in Backends : Nobody[i] = 0
      BY DEF Nobody
    <3> QED BY <3>1
  <2>2. served = z /\ current_weight = z
    BY <2>1 DEF Init
  <2>3. PICK n \in Nat : n = TotalOf(z, Contenders) /\ n = 0
    <3>1. IsFiniteSet(Contenders) /\ \A i \in Contenders : z[i] = 0
      BY <2>1, BackendsFacts DEF Contenders
    <3>2. TotalOf(z, Contenders) = 0
      BY <3>1, TotalZero
    <3> QED BY <3>2
  <2>4. ASSUME NEW i \in Contenders
        PROVE  /\ z[i] = n * FullScore[i] - (Granule * Shares) * z[i]
               /\ z[i] > -(Granule * Shares)
    <3>1. i \in Backends /\ z[i] = 0
      BY <2>1 DEF Contenders
    <3>2. PICK k \in Int : k = Granule * Shares /\ k > 0
      BY SharesPositive, BalancerAssumption
    <3>3. PICK f \in Int : f = FullScore[i]
      BY <3>1, FullFacts
    <3>4. n * f - k * 0 = 0 /\ 0 > -k
      BY <2>3, <3>2
    <3> QED BY <3>1, <3>2, <3>3, <3>4
  <2>5. n <= Shares
    BY <2>3, FullFacts
  <2>6. \A i \in Backends \ Contenders : z[i] = 0
    BY <2>1
  <2>7. up = Backends /\ ramp = [i \in Backends |-> 100]
    BY DEF Init
  <2> QED BY <2>2, <2>3, <2>4, <2>5, <2>6, <2>7 DEF Exact
<1>2. TypeOK /\ Balanced /\ Exact /\ [Next]_vars => Exact'
  <2> SUFFICES ASSUME TypeOK, Balanced, Exact, [Next]_vars PROVE Exact'
    OBVIOUS
  <2>1. CASE SelectWeighted
    <3>1. CASE undisturbed
      BY <2>1, <3>1, SelectWeightedExact
    <3>2. CASE ~undisturbed
      BY <2>1, <3>2 DEF SelectWeighted, Exact
    <3> QED BY <3>1, <3>2
  <2>2. CASE Disturb
    BY <2>2 DEF Disturb, Exact
  <2>3. CASE UNCHANGED <<up, ramp, current_weight, served, undisturbed>>
    BY <2>3 DEF Exact, Backends, Contenders, FullScore, FullShare, Shares
  <2> QED BY <2>1, <2>2, <2>3 DEF Next, SelectRoundRobin, vars, history
<1> QED BY <1>1, <1>2, TypeCorrect, BalancedInvariant, PTL DEF Spec

(***************************************************************************)
(* A weighted pool that nothing disturbs serves every backend its exact    *)
(* share in each full period, whatever the weights (pool.rs                *)
(* select_weighted, gate 1).                                               *)
(***************************************************************************)
THEOREM PeriodsAreExact == Spec => []ExactWhileUndisturbed
<1>1. TypeOK /\ Exact => ExactWhileUndisturbed
  <2> SUFFICES ASSUME TypeOK, Exact, PeriodDone, undisturbed, NEW i \in Backends
               PROVE  served[i] = Share(i)
    BY DEF ExactWhileUndisturbed
  <2>1. TotalOf(served, Contenders) = Shares
    BY FullCompetition DEF PeriodDone
  <2>2. CASE i \in Contenders
    <3>1. served[i] = FullShare[i]
      BY <2>1, <2>2, ExactAtTheEnd
    <3> QED BY <2>2, <3>1, FullCompetition DEF Share, FullShare
  <2>3. CASE i \notin Contenders
    <3>1. served[i] = 0
      BY <2>3 DEF Exact
    <3> QED BY <2>3, <3>1, FullCompetition DEF Share
  <2> QED BY <2>2, <2>3
<1> QED BY <1>1, TypeCorrect, ExactInvariant, PTL

-----------------------------------------------------------------------------
\* Cursors less than a cycle apart pick different backends.
LEMMA PicksDiffer ==
    ASSUME NEW S \in SUBSET Backends, S # {}, NEW c \in Nat,
           NEW d \in 1 .. Cardinality(S) - 1, d <= c
    PROVE  RoundRobinPick(c - d, S) # RoundRobinPick(c, S)
<1>1. IsFiniteSet(S)
  BY BackendsFacts, FS_Subset
<1>2. PICK n \in Nat \ {0} : n = Cardinality(S)
  <2>1. Cardinality(S) \in Nat /\ Cardinality(S) # 0
    BY <1>1, FS_CardinalityType, FS_EmptySet
  <2> QED BY <2>1
<1>3. PICK b \in Nat : b = c - d
  OBVIOUS
<1>4. PICK x \in 0 .. n - 1 : x = b % n
  BY RemainderRange
<1>5. PICK y \in 0 .. n - 1 : y = c % n
  BY RemainderRange
<1>6. x # y
  <2>1. b < c /\ c < b + n
    BY <1>2, <1>3
  <2> QED BY <1>4, <1>5, <2>1, RemaindersDiffer
<1>7. Len(Weights) \in Nat /\ S \in SUBSET (1 .. Len(Weights))
  BY BackendsFacts
<1>8. x \in Nat /\ x < Cardinality(S) /\ y \in Nat /\ y < Cardinality(S)
  BY <1>2
<1>9. Cardinality({z \in S : z < Nth(S, x)}) = x
  BY <1>7, <1>8, NthIs
<1>10. Cardinality({z \in S : z < Nth(S, y)}) = y
  BY <1>7, <1>8, NthIs
<1>11. Nth(S, x) # Nth(S, y)
  BY <1>6, <1>9, <1>10
<1> QED BY <1>2, <1>3, <1>4, <1>5, <1>11 DEF RoundRobinPick

\* Who has been picked since the cycle began, unless the cursor wrapped.
Turned(i, n) == \E d \in 1 .. n : i = RoundRobinPick(rr_cursor - d, up)

Turning ==
    LET n == TotalOf(turns, Backends)
    IN  /\ n <= Cycle
        /\ n <= rr_cursor =>
              \A i \in Backends : turns[i] = IF Turned(i, n) THEN 1 ELSE 0

LEMMA NobodyFacts ==
    /\ Nobody \in [Backends -> Nat] /\ \A i \in Backends : Nobody[i] = 0
    /\ TotalOf(Nobody, Backends) = 0
<1>1. Nobody \in [Backends -> Nat] /\ \A i \in Backends : Nobody[i] = 0
  BY DEF Nobody
<1>2. TotalOf(Nobody, Backends) = 0
  BY <1>1, BackendsFacts, TotalZero
<1> QED BY <1>1, <1>2

\* The turns before the next pick, from none again after a cycle.
LEMMA TurnsBefore ==
    ASSUME TypeOK, Turning, up # {}, NEW p \in Backends,
           turns' = CountPick(turns, Cycle, p)
    PROVE  \E b \in [Backends -> Nat], n \in Nat :
              /\ n = TotalOf(b, Backends) /\ n + 1 <= Cycle
              /\ n <= rr_cursor =>
                    \A i \in Backends : b[i] = IF Turned(i, n) THEN 1 ELSE 0
              /\ turns' = [b EXCEPT ![p] = @ + 1]
<1>1. PICK s \in [Backends -> Nat] : s = turns
  BY DEF TypeOK
<1>2. PICK n \in Nat : n = TotalOf(s, Backends)
  <2>1. \A i \in Backends : s[i] \in Nat
    OBVIOUS
  <2> QED BY <2>1, BackendsFacts, TotalNonneg
<1>3. PICK m \in Nat : m = Cycle /\ m # 0
  <2>1. IsFiniteSet(up)
    BY BackendsFacts, FS_Subset DEF TypeOK
  <2>2. Cardinality(up) \in Nat /\ Cardinality(up) # 0
    BY <2>1, FS_CardinalityType, FS_EmptySet
  <2> QED BY <2>2 DEF Cycle
<1>4. n <= m
  BY <1>1, <1>2, <1>3 DEF Turning
<1>5. CASE n # m
  <2>1. turns' = [s EXCEPT ![p] = @ + 1]
    BY <1>1, <1>2, <1>3, <1>5 DEF CountPick
  <2>2. n <= rr_cursor => \A i \in Backends : s[i] = IF Turned(i, n) THEN 1 ELSE 0
    BY <1>1, <1>2 DEF Turning
  <2>3. n + 1 <= Cycle
    BY <1>3, <1>4, <1>5
  <2> QED BY <1>2, <2>1, <2>2, <2>3
<1>6. CASE n = m
  <2>1. PICK z \in [Backends -> Nat] : z = Nobody
    BY NobodyFacts
  <2>2. PICK o \in Nat : o = 0
    OBVIOUS
  <2>3. turns' = [z EXCEPT ![p] = @ + 1]
    BY <1>1, <1>2, <1>3, <1>6, <2>1 DEF CountPick
  <2>4. o = TotalOf(z, Backends) /\ \A i \in Backends : z[i] = 0
    BY <2>1, <2>2, NobodyFacts
  <2>5. \A i \in Backends : z[i] = IF Turned(i, o) THEN 1 ELSE 0
    <3>1. \A i \in Backends : ~Turned(i, o)
      BY <2>2 DEF Turned
    <3> QED BY <2>4, <3>1
  <2>6. o + 1 <= Cycle
    BY <1>3, <2>2
  <2> QED BY <2>3, <2>4, <2>5, <2>6
<1> QED BY <1>5, <1>6

LEMMA SelectRoundRobinTurning ==
    ASSUME TypeOK, Turning, SelectRoundRobin
    PROVE  Turning'
<1>1. PICK c \in 0 .. CursorWidth - 1 : c = rr_cursor
  BY DEF TypeOK
<1>2. PICK S \in SUBSET Backends : S = up /\ S # {}
  BY DEF TypeOK, SelectRoundRobin
<1>3. c \in Nat /\ CursorWidth \in Nat \ {0}
  BY CursorAssumption
<1>4. PICK p \in Backends : p = RoundRobinPick(c, S)
  BY <1>2, <1>3, PickInRange
<1>5. turns' = CountPick(turns, Cycle, p) /\ up' = up /\ up # {}
  BY <1>1, <1>2, <1>4 DEF SelectRoundRobin
<1>6. PICK b \in [Backends -> Nat], n \in Nat :
          /\ n = TotalOf(b, Backends) /\ n + 1 <= Cycle
          /\ n <= rr_cursor =>
                \A i \in Backends : b[i] = IF Turned(i, n) THEN 1 ELSE 0
          /\ turns' = [b EXCEPT ![p] = @ + 1]
  BY <1>5, TurnsBefore
<1>7. PICK d \in [Backends -> Nat] :
          /\ d = turns'
          /\ d[p] = b[p] + 1 /\ \A x \in Backends : x # p => d[x] = b[x]
  BY <1>6
<1>8. TotalOf(d, Backends) = n + 1
  <2>1. PICK o \in Int : o = -1
    OBVIOUS
  <2>2. PICK D : D = Backends
    OBVIOUS
  <2>3. IsFiniteSet(D) /\ p \in D /\ d[p] = b[p] - o
        /\ \A x \in D : b[x] \in Int /\ (x # p => d[x] = b[x])
    <3>1. \A x \in Backends : b[x] \in Int
      OBVIOUS
    <3> QED BY <1>7, <2>1, <2>2, <3>1, BackendsFacts
  <2>4. TotalOf(d, D) = TotalOf(b, D) - o
    BY <2>3, PaidTotal
  <2> QED BY <1>6, <2>1, <2>2, <2>4
<1>9. Backends' = Backends /\ Cycle' = Cycle
  BY <1>5 DEF Backends, Cycle
<1>10. PICK e \in Nat : e = rr_cursor' /\ (e = c + 1 \/ e = 0)
  <2>1. rr_cursor' = (c + 1) % CursorWidth
    BY <1>1 DEF SelectRoundRobin, NextCursor
  <2>2. CASE c + 1 < CursorWidth
    <3>1. (c + 1) % CursorWidth = c + 1
      BY <1>3, <2>2
    <3> QED BY <1>3, <2>1, <3>1
  <2>3. CASE ~(c + 1 < CursorWidth)
    <3>1. c + 1 = CursorWidth
      BY <1>3, <2>3
    <3>2. CursorWidth % CursorWidth = 0
      BY <1>3
    <3> QED BY <2>1, <3>1, <3>2
  <2> QED BY <2>2, <2>3
<1>11. ASSUME n + 1 <= e, NEW i \in Backends
       PROVE  d[i] = IF \E j \in 1 .. n + 1 : i = RoundRobinPick(e - j, S) THEN 1 ELSE 0
  <2>1. e = c + 1 /\ n <= c
    BY <1>10, <1>11
  <2>2. \A k \in Backends : b[k] = IF Turned(k, n) THEN 1 ELSE 0
    BY <1>1, <1>6, <2>1
  <2>3. b[i] = IF \E j \in 1 .. n : i = RoundRobinPick(c - j, S) THEN 1 ELSE 0
    BY <1>1, <1>2, <2>2 DEF Turned
  <2>4. CASE i = p
    <3>1. \A j \in 1 .. n : p # RoundRobinPick(c - j, S)
      <4> TAKE j \in 1 .. n
      <4>1. j \in 1 .. Cardinality(S) - 1 /\ j <= c
        <5>1. PICK m \in Nat : m = Cardinality(S)
          BY <1>2, BackendsFacts, FS_Subset, FS_CardinalityType
        <5>2. n + 1 <= m
          BY <1>2, <1>6, <5>1 DEF Cycle
        <5> QED BY <2>1, <5>1, <5>2
      <4> QED BY <1>2, <1>3, <1>4, <4>1, PicksDiffer
    <3>2. d[i] = 1
      BY <1>7, <2>3, <2>4, <3>1
    <3>3. 1 \in 1 .. n + 1 /\ e - 1 = c
      BY <1>3, <2>1
    <3>4. i = RoundRobinPick(e - 1, S)
      BY <1>4, <2>4, <3>3
    <3> QED BY <3>2, <3>3, <3>4
  <2>5. CASE i # p
    <3>1. d[i] = b[i]
      BY <1>7, <2>5
    <3>2. ASSUME NEW j \in 1 .. n + 1, i = RoundRobinPick(e - j, S)
          PROVE  \E k \in 1 .. n : i = RoundRobinPick(c - k, S)
      <4>1. CASE j = 1
        <5>1. e - j = c
          BY <1>3, <2>1, <4>1
        <5> QED BY <1>4, <2>5, <3>2, <5>1
      <4>2. CASE j # 1
        <5>1. j - 1 \in 1 .. n /\ c - (j - 1) = e - j
          BY <1>3, <2>1, <4>2
        <5> QED BY <3>2, <5>1
      <4> QED BY <4>1, <4>2
    <3>3. ASSUME NEW k \in 1 .. n, i = RoundRobinPick(c - k, S)
          PROVE  \E j \in 1 .. n + 1 : i = RoundRobinPick(e - j, S)
      <4>1. k + 1 \in 1 .. n + 1 /\ e - (k + 1) = c - k
        BY <1>3, <2>1
      <4> QED BY <3>3, <4>1
    <3> QED BY <2>3, <3>1, <3>2, <3>3
  <2> QED BY <2>4, <2>5
<1>12. TotalOf(turns', Backends) = n + 1 /\ n + 1 <= Cycle'
  BY <1>6, <1>7, <1>8, <1>9
<1>13. n + 1 <= rr_cursor' =>
           \A i \in Backends :
              turns'[i] = IF \E j \in 1 .. n + 1 : i = RoundRobinPick(rr_cursor' - j, up')
                          THEN 1 ELSE 0
  BY <1>2, <1>5, <1>7, <1>10, <1>11
<1> QED BY <1>9, <1>12, <1>13 DEF Turning, Turned

LEMMA TurningInvariant == Spec => []Turning
<1>1. ASSUME turns = Nobody, TypeOK PROVE Turning
  <2>1. TotalOf(turns, Backends) = 0 /\ \A i \in Backends : turns[i] = 0
    BY <1>1, NobodyFacts
  <2>2. Cycle \in Nat
    BY <1>1, BackendsFacts, FS_Subset, FS_CardinalityType DEF Cycle, TypeOK
  <2>3. \A i \in Backends : ~Turned(i, 0)
    BY DEF Turned
  <2> QED BY <2>1, <2>2, <2>3 DEF Turning
<1>2. Init /\ TypeOK => Turning
  BY <1>1 DEF Init
<1>3. ASSUME turns' = Nobody, TypeOK' PROVE Turning'
  <2>1. TotalOf(turns', Backends) = 0 /\ \A i \in Backends : turns'[i] = 0
    BY <1>3, NobodyFacts
  <2>2. Backends' = Backends
    BY DEF Backends
  <2>3. Cardinality(up') \in Nat
    <3>1. PICK S : S = up'
      OBVIOUS
    <3>2. S \in SUBSET Backends
      BY <1>3, <2>2, <3>1 DEF TypeOK
    <3>3. IsFiniteSet(S)
      BY <3>2, BackendsFacts, FS_Subset
    <3> QED BY <3>1, <3>3, FS_CardinalityType
  <2>4. \A i \in Backends : ~Turned(i, 0)'
    BY DEF Turned
  <2> QED BY <2>1, <2>2, <2>3, <2>4 DEF Turning, Cycle
<1>4. TypeOK /\ Turning /\ [Next]_vars /\ TypeOK' => Turning'
  <2> SUFFICES ASSUME TypeOK, Turning, [Next]_vars, TypeOK' PROVE Turning'
    OBVIOUS
  <2>1. CASE SelectRoundRobin
    BY <2>1, SelectRoundRobinTurning
  <2>2. CASE Disturb
    BY <1>3, <2>2 DEF Disturb, Nobody, Backends
  <2>3. CASE UNCHANGED <<up, rr_cursor, turns>>
    BY <2>3 DEF Turning, Turned, Cycle, Backends
  <2> QED BY <2>1, <2>2, <2>3 DEF Next, SelectWeighted, vars, history
<1> QED BY <1>2, <1>4, TypeCorrect, PTL DEF Spec

(***************************************************************************)
(* Round robin is fair for every set of available backends and every width *)
(* of the cursor: a cycle in which the cursor does not wrap visits each of *)
(* them exactly once (pool.rs select_round_robin, gate 1).                 *)
(***************************************************************************)
THEOREM CyclesAreComplete == Spec => []RoundRobinCycle
<1>1. TypeOK /\ Turning => RoundRobinCycle
  <2> SUFFICES ASSUME TypeOK, Turning, CycleDone, rr_cursor >= Cycle, NEW i \in up
               PROVE  turns[i] = 1
    BY DEF RoundRobinCycle
  <2>1. PICK s \in [Backends -> Nat] : s = turns
    BY DEF TypeOK
  <2>2. PICK S \in SUBSET Backends : S = up /\ S # {} /\ IsFiniteSet(S)
    <3>1. PICK S \in SUBSET Backends : S = up /\ i \in S
      BY DEF TypeOK
    <3>2. IsFiniteSet(S)
      BY BackendsFacts, FS_Subset
    <3> QED BY <3>1, <3>2
  <2>3. PICK n \in Nat : n = Cardinality(S)
    BY <2>2, FS_CardinalityType
  <2>4. PICK c \in Nat : c = rr_cursor /\ n <= c
    BY <2>2, <2>3, CursorAssumption DEF TypeOK, Cycle
  <2>5. TotalOf(s, Backends) = n
    BY <2>1, <2>2, <2>3 DEF CycleDone, Cycle
  <2>6. \A k \in Backends : s[k] = IF Turned(k, n) THEN 1 ELSE 0
    BY <2>1, <2>4, <2>5 DEF Turning
  <2>7. \A k \in Backends \ S : s[k] = 0
    <3> SUFFICES ASSUME NEW k \in Backends \ S PROVE ~Turned(k, n)
      BY <2>6
    <3>1. \A d \in 1 .. n : c - d \in Nat
      BY <2>4
    <3>2. \A d \in 1 .. n : RoundRobinPick(c - d, S) \in S
      BY <2>2, <3>1, PickInRange
    <3> QED BY <2>2, <2>4, <3>2 DEF Turned
  <2>8. TotalOf(s, S) = n
    <3>1. \A x \in Backends : s[x] \in Int
      OBVIOUS
    <3>2. TotalOf(s, Backends) = TotalOf(s, S)
      BY <2>7, <3>1, BackendsFacts, TotalElsewhereZero
    <3> QED BY <2>5, <3>2
  <2> DEFINE one == [k \in S |-> 1]
  <2>9. \A k \in S : one[k] = 1
    OBVIOUS
  <2> HIDE DEF one
  <2>10. PICK o \in Int : o = 1
    OBVIOUS
  <2>11. TotalOf(one, S) = n
    <3>1. \A k \in S : one[k] = o
      BY <2>9, <2>10
    <3>2. TotalOf(one, S) = Cardinality(S) * o
      BY <2>2, <3>1, TotalConstant
    <3> QED BY <2>3, <2>10, <3>2
  <2>12. \A k \in S : s[k] \in Int /\ one[k] \in Int /\ s[k] <= one[k]
    BY <2>6, <2>9
  <2>13. \A k \in S : s[k] = one[k]
    BY <2>2, <2>8, <2>11, <2>12, TotalTight
  <2> QED BY <2>1, <2>2, <2>9, <2>13
<1> QED BY <1>1, TypeCorrect, TurningInvariant, PTL

-----------------------------------------------------------------------------
\* The walk over a ring of members ends at a point that one of them owns.
LEMMA SomeoneServes ==
    ASSUME NEW ring \in SUBSET Backends, ring # {}, NEW k \in Keys
    PROVE  Lookup(ring, k) \in ring /\ Serves(ring, k, Lookup(ring, k))
<1>1. PICK h \in Nat : h = KeyHash[k]
  BY RingAssumption
<1>2. \A m \in ring : PointsOf[m] \in SUBSET Nat /\ PointsOf[m] # {}
  BY RingAssumption, BalancerAssumption DEF Backends
<1>3. RingPoints(ring) \in SUBSET Nat /\ RingPoints(ring) # {}
  BY <1>2 DEF RingPoints
<1>4. PICK p \in RingPoints(ring) : WalkEnds(ring, h, p)
  <2>1. PICK P : P = RingPoints(ring)
    OBVIOUS
  <2>2. PICK p \in P : \/ h <= p /\ \A q \in P : h <= q => p <= q
                       \/ \A q \in P : q < h /\ p <= q
    BY <1>3, <2>1, WalkHasEnd
  <2> QED BY <2>1, <2>2 DEF WalkEnds
<1> DEFINE Owners == {m \in ring : p \in PointsOf[m]}
<1>5. Owners # {} /\ Owners \in SUBSET Backends
  BY <1>4 DEF RingPoints
<1>6. PICK m \in Owners : \A n \in Owners : n <= m
  <2>1. Len(Weights) \in Nat /\ Owners \in SUBSET (1 .. Len(Weights))
    BY <1>5, BackendsFacts
  <2> HIDE DEF Owners
  <2> QED BY <1>5, <2>1, MaxOfIndices
<1>7. m \in ring /\ Owns(ring, m, p)
  BY <1>6 DEF Owns
<1>8. Serves(ring, k, m)
  BY <1>1, <1>4, <1>7 DEF Serves
<1> QED BY <1>7, <1>8 DEF Lookup

\* Two rings that hold both servers of a key agree on its server.
LEMMA ServersAgree ==
    ASSUME NEW R \in SUBSET Backends, NEW T \in SUBSET Backends, NEW k \in Keys,
           NEW a \in R \cap T, NEW b \in R \cap T, Serves(R, k, a), Serves(T, k, b)
    PROVE  a = b
<1>1. PICK h \in Nat : h = KeyHash[k]
  BY RingAssumption
<1>2. \A m \in Backends : PointsOf[m] \in SUBSET Nat
  BY RingAssumption, BalancerAssumption DEF Backends
<1>3. PICK p \in RingPoints(R) : WalkEnds(R, h, p) /\ Owns(R, a, p)
  BY <1>1 DEF Serves
<1>4. PICK q \in RingPoints(T) : WalkEnds(T, h, q) /\ Owns(T, b, q)
  BY <1>1 DEF Serves
<1>5. p \in Nat /\ q \in Nat /\ p \in RingPoints(T) /\ q \in RingPoints(R)
  BY <1>2, <1>3, <1>4 DEF Owns, RingPoints
<1>6. \/ h <= p /\ (h <= q => p <= q)
      \/ q < h /\ p < h /\ p <= q
  BY <1>3, <1>5 DEF WalkEnds
<1>7. \/ h <= q /\ (h <= p => q <= p)
      \/ p < h /\ q < h /\ q <= p
  BY <1>4, <1>5 DEF WalkEnds
<1>8. p = q
  BY <1>5, <1>6, <1>7
<1>9. a \in Nat /\ b \in Nat
  BY BackendsFacts
<1>10. a <= b /\ b <= a
  BY <1>3, <1>4, <1>8 DEF Owns
<1> QED BY <1>9, <1>10

(***************************************************************************)
(* The ring moves no key between two backends that stay, for every set of  *)
(* points the names hash to, collisions included (hashring.rs rebuild,     *)
(* lookup; gate 1).                                                        *)
(***************************************************************************)
THEOREM RemapIsMinimal == Spec => MinimalRemap
<1>1. ASSUME TypeOK, TypeOK', up # {}, up' # {}, NEW key \in Keys
      PROVE  \/ Lookup(up', key) = Lookup(up, key)
             \/ Lookup(up, key) \notin up'
             \/ Lookup(up', key) \notin up
  <2>1. PICK R \in SUBSET Backends : R = up /\ R # {}
    BY <1>1 DEF TypeOK
  <2>2. PICK T \in SUBSET Backends : T = up' /\ T # {}
    BY <1>1 DEF TypeOK, Backends
  <2>3. PICK a : a = Lookup(R, key)
    OBVIOUS
  <2>4. PICK b : b = Lookup(T, key)
    OBVIOUS
  <2>5. a \in R /\ Serves(R, key, a)
    BY <2>1, <2>3, SomeoneServes
  <2>6. b \in T /\ Serves(T, key, b)
    BY <2>2, <2>4, SomeoneServes
  <2>7. a \in T /\ b \in R => a = b
    BY <2>5, <2>6, ServersAgree
  <2> QED BY <2>1, <2>2, <2>3, <2>4, <2>7
<1>2. TypeOK /\ TypeOK' =>
          [up # {} /\ up' # {} =>
             \A key \in Keys :
                 \/ Lookup(up', key) = Lookup(up, key)
                 \/ Lookup(up, key) \notin up'
                 \/ Lookup(up', key) \notin up]_vars
  BY <1>1
<1> QED BY <1>2, TypeCorrect, PTL DEF MinimalRemap
=============================================================================
