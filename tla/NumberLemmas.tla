---------------------------- MODULE NumberLemmas ----------------------------
(***************************************************************************)
(* Facts about numbers and finite sets that the proofs of the components   *)
(* share: least and largest members (the loops that look for a maximum,    *)
(* max_by_key and the ring walk all run over finite sets), members by rank *)
(* (the round robin cursor) and sums over sets of indices (the weighted    *)
(* selection).  Least and smallest counterexamples stand for induction.    *)
(***************************************************************************)
EXTENDS Sums, FiniteSetTheorems, WellFoundedInduction, TLAPS

\* A set of natural numbers has a least one.
LEMMA HasLeast ==
    ASSUME NEW T \in SUBSET Nat, T # {}
    PROVE  \E m \in T : \A k \in T : m <= k
<1>1. PICK m \in T : \A k \in T : <<k, m>> \notin OpToRel(<, Nat)
  BY WFMin, NatLessThanWellFounded
<1>2. \A k \in T : ~(k < m)
  BY <1>1 DEF OpToRel
<1> QED BY <1>2

\* A set of indices has one where a key is largest.
LEMMA HasLargest ==
    ASSUME NEW n \in Nat, NEW S \in SUBSET (1 .. n), S # {},
           NEW key \in [1 .. n -> Int]
    PROVE  \E i \in S : \A j \in S : key[j] <= key[i]
<1> DEFINE Largest(T) == \E i \in T : \A j \in T : key[j] <= key[i]
           Bad == {m \in 0 .. n : \E T \in SUBSET (1 .. m) : T # {} /\ ~Largest(T)}
<1> SUFFICES ASSUME ~Largest(S) PROVE FALSE
  OBVIOUS
<1>1. n \in Bad /\ Bad \in SUBSET Nat
  OBVIOUS
<1>2. PICK m \in Bad : \A k \in Bad : m <= k
  BY <1>1, HasLeast
<1>3. PICK T \in SUBSET (1 .. m) : T # {} /\ ~Largest(T)
  BY <1>2
<1>4. m \in T /\ m - 1 \in 0 .. n /\ m - 1 \notin Bad
  <2>1. m \in 0 .. n /\ m # 0
    <3>1. m \in 0 .. n
      OBVIOUS
    <3>2. PICK e \in T : e \in 1 .. m
      BY <1>3
    <3> HIDE DEF Bad
    <3> QED BY <3>1, <3>2
  <2>2. m - 1 \in 0 .. n /\ m - 1 \notin Bad
    <3> HIDE DEF Bad
    <3>1. m - 1 \in 0 .. n /\ ~(m <= m - 1)
      BY <2>1
    <3> QED BY <1>2, <3>1
  <2>3. CASE m \notin T
    <3>1. T \in SUBSET (1 .. m - 1)
      BY <2>1, <2>3
    <3> QED BY <1>3, <2>2, <3>1
  <2> QED BY <2>2, <2>3
<1>5. T \ {m} # {}
  BY <1>3, <1>4
<1>6. T \ {m} \in SUBSET (1 .. m - 1)
  BY <1>4
<1>7. PICK i \in T \ {m} : \A j \in T \ {m} : key[j] <= key[i]
  BY <1>4, <1>5, <1>6
<1>8. i \in 1 .. n /\ m \in 1 .. n /\ \A j \in T : key[j] \in Int
  BY <1>2, <1>4, <1>6
<1>9. CASE key[m] <= key[i]
  BY <1>3, <1>4, <1>7, <1>9
<1>10. CASE ~(key[m] <= key[i])
  <2>1. \A j \in T : key[j] <= key[m]
    BY <1>7, <1>8, <1>10
  <2> QED BY <1>3, <1>4, <2>1
<1> QED BY <1>9, <1>10

\* The largest of a set of indices is in it, and no other is larger.
LEMMA MaxOfIndices ==
    ASSUME NEW n \in Nat, NEW S \in SUBSET (1 .. n), S # {}
    PROVE  Max(S) \in S /\ \A j \in S : j <= Max(S)
<1> DEFINE key == [i \in 1 .. n |-> i]
<1>1. key \in [1 .. n -> Int]
  OBVIOUS
<1>2. PICK i \in S : \A j \in S : key[j] <= key[i]
  <2> HIDE DEF key
  <2> QED BY <1>1, HasLargest
<1>3. \A j \in S : i >= j
  BY <1>2
<1>4. Max(S) \in S /\ \A j \in S : Max(S) >= j
  BY <1>3 DEF Max
<1> QED BY <1>4

\* Among some subsets of a finite set there is one of which no element can
\* be left out.
LEMMA HasSmallest ==
    ASSUME NEW S, IsFiniteSet(S), NEW Bad \in SUBSET (SUBSET S), Bad # {}
    PROVE  \E T \in Bad : \A x \in T : T \ {x} \notin Bad
<1> DEFINE Sizes == {Cardinality(T) : T \in Bad}
<1>1. \A T \in Bad : IsFiniteSet(T) /\ Cardinality(T) \in Nat
  BY FS_Subset, FS_CardinalityType
<1>2. Sizes \in SUBSET Nat /\ Sizes # {}
  BY <1>1
<1>3. PICK n \in Sizes : \A k \in Sizes : n <= k
  BY <1>2, HasLeast
<1>4. PICK T \in Bad : Cardinality(T) = n
  BY <1>3
<1>5. ASSUME NEW x \in T, T \ {x} \in Bad PROVE FALSE
  <2>1. Cardinality(T \ {x}) = Cardinality(T) - 1
    BY <1>1, FS_RemoveElement
  <2>2. n <= Cardinality(T \ {x})
    BY <1>3, <1>5
  <2> QED BY <1>1, <1>4, <2>1, <2>2
<1> QED BY <1>5

\* The first index with the largest key, and with the least.
LEMMA HasFirstLargest ==
    ASSUME NEW n \in Nat, NEW S \in SUBSET (1 .. n), S # {},
           NEW key \in [1 .. n -> Int]
    PROVE  \E i \in S : \A j \in S : key[j] < key[i] \/ (key[j] = key[i] /\ i <= j)
<1>1. PICK m \in S : \A j \in S : key[j] <= key[m]
  BY HasLargest
<1> DEFINE T == {i \in S : key[i] = key[m]}
<1>2. PICK i \in T : \A k \in T : i <= k
  <2>1. T \in SUBSET Nat
    <3>1. \A x \in S : x \in Nat
      OBVIOUS
    <3> QED BY <3>1
  <2>2. T # {}
    OBVIOUS
  <2> HIDE DEF T
  <2> QED BY <2>1, <2>2, HasLeast
<1>3. i \in S /\ key[i] = key[m] /\ key[m] \in Int
  BY <1>2
<1>4. ASSUME NEW j \in S PROVE key[j] < key[i] \/ (key[j] = key[i] /\ i <= j)
  <2>1. CASE key[j] = key[m]
    BY <1>2, <1>3, <2>1
  <2>2. CASE key[j] # key[m]
    <3>1. key[j] <= key[m] /\ key[j] \in Int
      BY <1>1
    <3> QED BY <1>3, <2>2, <3>1
  <2> QED BY <2>1, <2>2
<1> QED BY <1>3, <1>4

LEMMA HasFirstLeast ==
    ASSUME NEW n \in Nat, NEW S \in SUBSET (1 .. n), S # {},
           NEW key \in [1 .. n -> Int]
    PROVE  \E i \in S : \A j \in S : key[i] < key[j] \/ (key[j] = key[i] /\ i <= j)
<1> DEFINE neg == [i \in 1 .. n |-> -key[i]]
<1>1. neg \in [1 .. n -> Int]
  OBVIOUS
<1>2. \A i \in S : neg[i] = -key[i] /\ key[i] \in Int
  OBVIOUS
<1>3. PICK i \in S : \A j \in S : neg[j] < neg[i] \/ (neg[j] = neg[i] /\ i <= j)
  <2> HIDE DEF neg
  <2> QED BY <1>1, HasFirstLargest
<1> HIDE DEF neg
<1>4. ASSUME NEW j \in S PROVE key[i] < key[j] \/ (key[j] = key[i] /\ i <= j)
  BY <1>2, <1>3
<1> QED BY <1>4

\* The k-th member of a set of indices, counted from zero.
LEMMA HasNth ==
    ASSUME NEW n \in Nat, NEW S \in SUBSET (1 .. n), NEW k \in Nat, k < Cardinality(S)
    PROVE  \E x \in S : Cardinality({y \in S : y < x}) = k
<1> DEFINE Has(T) == \A j \in Nat :
                        j < Cardinality(T) => \E x \in T : Cardinality({y \in T : y < x}) = j
           Bad == {T \in SUBSET S : ~Has(T)}
<1> SUFFICES ASSUME Bad # {} PROVE FALSE
  <2>1. S \in SUBSET S /\ S \notin Bad
    OBVIOUS
  <2> QED BY <2>1
<1>1. IsFiniteSet(S)
  <2>1. IsFiniteSet(1 .. n)
    BY FS_Interval
  <2> QED BY <2>1, FS_Subset
<1>2. PICK T \in Bad : \A x \in T : T \ {x} \notin Bad
  <2>1. Bad \in SUBSET (SUBSET S)
    OBVIOUS
  <2> HIDE DEF Bad
  <2> QED BY <1>1, <2>1, HasSmallest
<1>3. T \in SUBSET (1 .. n) /\ IsFiniteSet(T) /\ Cardinality(T) \in Nat
  BY <1>1, FS_Subset, FS_CardinalityType
<1>4. PICK j \in Nat : j < Cardinality(T) /\ \A x \in T : Cardinality({y \in T : y < x}) # j
  OBVIOUS
<1>5. T # {}
  BY <1>4, FS_EmptySet
<1>6. PICK m \in T : \A y \in T : y <= m
  <2> HIDE DEF Bad
  <2> QED BY <1>3, <1>5, MaxOfIndices
<1> DEFINE R == T \ {m}
<1>7. Cardinality(R) = Cardinality(T) - 1 /\ Has(R)
  BY <1>2, <1>3, FS_RemoveElement
<1>8. {y \in T : y < m} = R
  <2>1. \A y \in T : y \in Int /\ m \in Int /\ (y < m <=> y # m)
    BY <1>3, <1>6
  <2> QED BY <2>1
<1>9. CASE j = Cardinality(T) - 1
  BY <1>4, <1>7, <1>8, <1>9
<1>10. CASE j # Cardinality(T) - 1
  <2>1. j < Cardinality(R)
    <3> HIDE DEF Bad, Has, R
    <3> QED BY <1>3, <1>4, <1>7, <1>10
  <2>2. PICK x \in R : Cardinality({y \in R : y < x}) = j
    BY <1>7, <2>1
  <2>3. {y \in R : y < x} = {y \in T : y < x}
    BY <1>3, <1>6, <2>2
  <2> QED BY <1>4, <2>2, <2>3
<1> QED BY <1>9, <1>10

\* A clockwise walk over a set of points ends: at the first point from h on,
\* or, beyond the last one, at the first of all.
LEMMA WalkHasEnd ==
    ASSUME NEW P \in SUBSET Nat, P # {}, NEW h \in Nat
    PROVE  \E p \in P : \/ h <= p /\ \A q \in P : h <= q => p <= q
                        \/ \A q \in P : q < h /\ p <= q
<1> DEFINE T == {q \in P : h <= q}
<1>1. CASE T = {}
  <2>1. PICK p \in P : \A q \in P : p <= q
    BY HasLeast
  <2> QED BY <1>1, <2>1
<1>2. CASE T # {}
  <2>1. T \in SUBSET Nat
    OBVIOUS
  <2>2. PICK p \in T : \A q \in T : p <= q
    <3> HIDE DEF T
    <3> QED BY <1>2, <2>1, HasLeast
  <2> QED BY <2>2
<1> QED BY <1>1, <1>2

-----------------------------------------------------------------------------
\* The recursion that defines a sum.
Pick(s) == CHOOSE x \in s : TRUE

Adds(f, w, S) ==
    f = [s \in SUBSET S |-> IF s = {} THEN 0 ELSE w[Pick(s)] + f[s \ {Pick(s)}]]

LEMMA TotalUnfolds ==
    ASSUME NEW w, NEW S
    PROVE  TotalOf(w, S) = (CHOOSE f : Adds(f, w, S))[S]
BY DEF TotalOf, MapThenSumSet, MapThenFoldSet, Adds, Pick

LEMMA PickIn == ASSUME NEW s, s # {} PROVE Pick(s) \in s
BY DEF Pick

LEMMA AddsAt ==
    ASSUME NEW w, NEW S, NEW f, Adds(f, w, S), NEW r \in SUBSET S
    PROVE  f[r] = IF r = {} THEN 0 ELSE w[Pick(r)] + f[r \ {Pick(r)}]
BY DEF Adds

\* What such a recursion returns does not depend on its domain.
LEMMA AddsAlike ==
    ASSUME NEW w, NEW S, IsFiniteSet(S), NEW T, NEW f, NEW g,
           Adds(f, w, S), Adds(g, w, T), NEW R \in SUBSET (S \cap T)
    PROVE  f[R] = g[R]
<1> DEFINE Bad == {r \in SUBSET (S \cap T) : f[r] # g[r]}
<1> SUFFICES ASSUME Bad # {} PROVE FALSE
  OBVIOUS
<1>1. Bad \in SUBSET (SUBSET S)
  OBVIOUS
<1>2. PICK r \in Bad : \A x \in r : r \ {x} \notin Bad
  <2> HIDE DEF Bad
  <2> QED BY <1>1, HasSmallest
<1>3. f[r] = (IF r = {} THEN 0 ELSE w[Pick(r)] + f[r \ {Pick(r)}])
  BY DEF Adds
<1>4. g[r] = (IF r = {} THEN 0 ELSE w[Pick(r)] + g[r \ {Pick(r)}])
  BY DEF Adds
<1>5. CASE r = {}
  BY <1>3, <1>4, <1>5
<1>6. CASE r # {}
  <2>1. Pick(r) \in r
    BY <1>6, PickIn
  <2>2. f[r \ {Pick(r)}] = g[r \ {Pick(r)}]
    BY <1>2, <2>1
  <2> QED BY <1>3, <1>4, <1>6, <2>2
<1> QED BY <1>5, <1>6

\* A finite set has such a recursion.
LEMMA AddsExists ==
    ASSUME NEW w, NEW S, IsFiniteSet(S)
    PROVE  \E f : Adds(f, w, S)
<1> DEFINE Bad == {s \in SUBSET S : ~\E f : Adds(f, w, s)}
<1> SUFFICES ASSUME Bad # {} PROVE FALSE
  OBVIOUS
<1>1. PICK T \in Bad : \A x \in T : T \ {x} \notin Bad
  <2>1. Bad \in SUBSET (SUBSET S)
    OBVIOUS
  <2> HIDE DEF Bad
  <2> QED BY <2>1, HasSmallest
<1>2. T \in SUBSET S /\ ~\E f : Adds(f, w, T)
  OBVIOUS
<1> DEFINE F(x) == CHOOSE f : Adds(f, w, T \ {x})
<1>3. \A x \in T : Adds(F(x), w, T \ {x})
  BY <1>1
<1> DEFINE v(s) == F(CHOOSE x \in T : x \notin s)[s]
           g == [s \in SUBSET T |->
                    IF s = {} THEN 0 ELSE w[Pick(s)] + v(s \ {Pick(s)})]
<1> HIDE DEF Bad, F
<1>4. ASSUME NEW r \in SUBSET T, r # T PROVE g[r] = v(r)
  <2>1. PICK x \in T : x \notin r /\ v(r) = F(x)[r]
    BY <1>4
  <2>2. F(x)[r] = (IF r = {} THEN 0 ELSE w[Pick(r)] + F(x)[r \ {Pick(r)}])
    <3>1. Adds(F(x), w, T \ {x}) /\ r \in SUBSET (T \ {x})
      BY <1>3, <2>1
    <3>2. PICK fx : fx = F(x)
      OBVIOUS
    <3> DEFINE B == T \ {x}
    <3>3. Adds(fx, w, B) /\ r \in SUBSET B
      BY <3>1, <3>2
    <3> HIDE DEF B
    <3>4. fx[r] = IF r = {} THEN 0 ELSE w[Pick(r)] + fx[r \ {Pick(r)}]
      BY <3>3, AddsAt
    <3> QED BY <3>2, <3>4
  <2>3. CASE r = {}
    BY <2>1, <2>2, <2>3
  <2>4. CASE r # {}
    <3>1. PICK y \in T : y \notin r \ {Pick(r)} /\ v(r \ {Pick(r)}) = F(y)[r \ {Pick(r)}]
      BY <2>1
    <3>2. F(y)[r \ {Pick(r)}] = F(x)[r \ {Pick(r)}]
      <4>1. Adds(F(x), w, T \ {x}) /\ Adds(F(y), w, T \ {y})
        BY <1>3
      <4>2. IsFiniteSet(T \ {y})
        BY <1>2, FS_Subset
      <4>3. r \ {Pick(r)} \in SUBSET ((T \ {y}) \cap (T \ {x}))
        BY <2>1, <3>1
      <4>4. PICK fx : fx = F(x)
        OBVIOUS
      <4>5. PICK fy : fy = F(y)
        OBVIOUS
      <4> DEFINE q == r \ {Pick(r)}
                 A == T \ {y}
                 B == T \ {x}
      <4>6. Adds(fx, w, B) /\ Adds(fy, w, A) /\ IsFiniteSet(A) /\ q \in SUBSET (A \cap B)
        BY <4>1, <4>2, <4>3, <4>4, <4>5
      <4> HIDE DEF q, A, B
      <4>7. fy[q] = fx[q]
        BY <4>6, AddsAlike
      <4> QED BY <4>4, <4>5, <4>7 DEF q
    <3> QED BY <2>1, <2>2, <2>4, <3>1, <3>2
  <2> QED BY <2>3, <2>4
<1>5. ASSUME NEW s \in SUBSET T, s # {} PROVE v(s \ {Pick(s)}) = g[s \ {Pick(s)}]
  <2>1. Pick(s) \in s
    BY <1>5, PickIn
  <2> HIDE DEF v, g
  <2> QED BY <1>4, <2>1
<1>6. Adds(g, w, T)
  <2>1. g = [s \in SUBSET T |-> IF s = {} THEN 0 ELSE w[Pick(s)] + v(s \ {Pick(s)})]
    OBVIOUS
  <2> HIDE DEF g, v
  <2> QED BY <1>5, <2>1 DEF Adds
<1> QED BY <1>2, <1>6

LEMMA TotalOfEmpty == ASSUME NEW w PROVE TotalOf(w, {}) = 0
<1>1. PICK f : f = CHOOSE h : Adds(h, w, {})
  OBVIOUS
<1>2. Adds(f, w, {})
  BY <1>1, AddsExists, FS_EmptySet
<1> QED BY <1>1, <1>2, TotalUnfolds DEF Adds

LEMMA TotalOfPick ==
    ASSUME NEW w, NEW S, IsFiniteSet(S), S # {}
    PROVE  TotalOf(w, S) = w[Pick(S)] + TotalOf(w, S \ {Pick(S)})
<1> DEFINE R == S \ {Pick(S)}
<1>1. IsFiniteSet(R)
  BY FS_RemoveElement
<1>2. PICK f : f = CHOOSE h : Adds(h, w, S)
  OBVIOUS
<1>3. PICK g : g = CHOOSE h : Adds(h, w, R)
  OBVIOUS
<1>4. Adds(f, w, S) /\ Adds(g, w, R)
  BY <1>1, <1>2, <1>3, AddsExists
<1>5. f[R] = g[R]
  BY <1>1, <1>4, AddsAlike
<1>6. f[S] = w[Pick(S)] + f[R]
  BY <1>4 DEF Adds
<1> QED BY <1>2, <1>3, <1>5, <1>6, TotalUnfolds

LEMMA TotalType ==
    ASSUME NEW S, IsFiniteSet(S), NEW w, \A x \in S : w[x] \in Int
    PROVE  TotalOf(w, S) \in Int
<1> DEFINE Bad == {s \in SUBSET S : TotalOf(w, s) \notin Int}
<1> SUFFICES ASSUME Bad # {} PROVE FALSE
  OBVIOUS
<1>1. PICK T \in Bad : \A x \in T : T \ {x} \notin Bad
  <2>1. Bad \in SUBSET (SUBSET S)
    OBVIOUS
  <2> HIDE DEF Bad
  <2> QED BY <2>1, HasSmallest
<1>2. T # {}
  BY TotalOfEmpty
<1>3. Pick(T) \in T /\ IsFiniteSet(T)
  BY <1>2, PickIn, FS_Subset
<1>4. TotalOf(w, T \ {Pick(T)}) \in Int
  BY <1>1, <1>3
<1> QED BY <1>2, <1>3, <1>4, TotalOfPick

\* Any element can be taken out first.
LEMMA TotalWithout ==
    ASSUME NEW S, IsFiniteSet(S), NEW w, \A x \in S : w[x] \in Int, NEW x \in S
    PROVE  TotalOf(w, S) = w[x] + TotalOf(w, S \ {x})
<1> DEFINE Bad == {s \in SUBSET S :
                      \E y \in s : TotalOf(w, s) # w[y] + TotalOf(w, s \ {y})}
<1> SUFFICES ASSUME Bad # {} PROVE FALSE
  OBVIOUS
<1>1. PICK T \in Bad : \A y \in T : T \ {y} \notin Bad
  <2>1. Bad \in SUBSET (SUBSET S)
    OBVIOUS
  <2> HIDE DEF Bad
  <2> QED BY <2>1, HasSmallest
<1>2. PICK y \in T : TotalOf(w, T) # w[y] + TotalOf(w, T \ {y})
  OBVIOUS
<1>3. Pick(T) \in T /\ IsFiniteSet(T) /\ IsFiniteSet(T \ {y})
  BY PickIn, FS_Subset
<1>4. TotalOf(w, T) = w[Pick(T)] + TotalOf(w, T \ {Pick(T)})
  BY <1>3, TotalOfPick
<1>5. y # Pick(T)
  BY <1>2, <1>4
<1> DEFINE R == (T \ {y}) \ {Pick(T)}
<1>6. TotalOf(w, T \ {y}) = w[Pick(T)] + TotalOf(w, R)
  BY <1>1, <1>3, <1>5
<1>7. TotalOf(w, T \ {Pick(T)}) = w[y] + TotalOf(w, R)
  <2>1. R = (T \ {Pick(T)}) \ {y}
    OBVIOUS
  <2>2. T \ {Pick(T)} \in SUBSET S /\ T \ {Pick(T)} \notin Bad /\ y \in T \ {Pick(T)}
    BY <1>1, <1>3, <1>5
  <2>3. TotalOf(w, T \ {Pick(T)}) = w[y] + TotalOf(w, (T \ {Pick(T)}) \ {y})
    BY <2>2
  <2> HIDE DEF R
  <2> QED BY <2>1, <2>3
<1>8. w[y] \in Int /\ w[Pick(T)] \in Int /\ TotalOf(w, R) \in Int
  <2>1. IsFiniteSet(R) /\ \A z \in R : w[z] \in Int
    BY <1>3, FS_Subset
  <2> QED BY <1>3, <2>1, TotalType
<1> HIDE DEF R
<1> QED BY <1>2, <1>4, <1>6, <1>7, <1>8

LEMMA TotalWith ==
    ASSUME NEW S, IsFiniteSet(S), NEW x, x \notin S,
           NEW w, \A y \in S \cup {x} : w[y] \in Int
    PROVE  TotalOf(w, S \cup {x}) = w[x] + TotalOf(w, S)
<1> DEFINE T == S \cup {x}
<1>1. IsFiniteSet(T) /\ T \ {x} = S /\ x \in T /\ \A y \in T : w[y] \in Int
  BY FS_AddElement
<1> HIDE DEF T
<1>2. TotalOf(w, T) = w[x] + TotalOf(w, T \ {x})
  BY <1>1, TotalWithout
<1> QED BY <1>1, <1>2 DEF T

\* Families that agree on a set have one sum over it.
LEMMA TotalAlike ==
    ASSUME NEW S, IsFiniteSet(S), NEW w, NEW v, \A x \in S : w[x] = v[x]
    PROVE  TotalOf(w, S) = TotalOf(v, S)
<1> DEFINE Bad == {s \in SUBSET S : TotalOf(w, s) # TotalOf(v, s)}
<1> SUFFICES ASSUME Bad # {} PROVE FALSE
  OBVIOUS
<1>1. PICK T \in Bad : \A x \in T : T \ {x} \notin Bad
  <2>1. Bad \in SUBSET (SUBSET S)
    OBVIOUS
  <2> HIDE DEF Bad
  <2> QED BY <2>1, HasSmallest
<1>2. T # {} /\ IsFiniteSet(T)
  BY TotalOfEmpty, FS_Subset
<1>3. Pick(T) \in T
  BY <1>2, PickIn
<1>4. TotalOf(w, T \ {Pick(T)}) = TotalOf(v, T \ {Pick(T)})
  BY <1>1, <1>3
<1> QED BY <1>2, <1>3, <1>4, TotalOfPick

\* The sum of a sum of families.
LEMMA TotalPlus ==
    ASSUME NEW S, IsFiniteSet(S), NEW u, NEW w, NEW v,
           \A x \in S : w[x] \in Int /\ v[x] \in Int /\ u[x] = w[x] + v[x]
    PROVE  TotalOf(u, S) = TotalOf(w, S) + TotalOf(v, S)
<1> DEFINE Bad == {s \in SUBSET S : TotalOf(u, s) # TotalOf(w, s) + TotalOf(v, s)}
<1> SUFFICES ASSUME Bad # {} PROVE FALSE
  OBVIOUS
<1>1. PICK T \in Bad : \A x \in T : T \ {x} \notin Bad
  <2>1. Bad \in SUBSET (SUBSET S)
    OBVIOUS
  <2> HIDE DEF Bad
  <2> QED BY <2>1, HasSmallest
<1>2. T # {} /\ IsFiniteSet(T)
  <2>1. TotalOf(u, {}) = 0 /\ TotalOf(w, {}) = 0 /\ TotalOf(v, {}) = 0
    BY TotalOfEmpty
  <2>2. TotalOf(u, T) # TotalOf(w, T) + TotalOf(v, T)
    OBVIOUS
  <2>3. IsFiniteSet(T)
    BY FS_Subset
  <2>4. CASE T = {}
    <3> HIDE DEF Bad
    <3> QED BY <2>1, <2>2, <2>4
  <2> QED BY <2>3, <2>4
<1>3. PICK x \in T : x = Pick(T)
  BY <1>2, PickIn
<1> DEFINE R == T \ {x}
<1>4. TotalOf(u, R) = TotalOf(w, R) + TotalOf(v, R)
  BY <1>1
<1>5. /\ TotalOf(u, T) = u[x] + TotalOf(u, R)
      /\ TotalOf(w, T) = w[x] + TotalOf(w, R)
      /\ TotalOf(v, T) = v[x] + TotalOf(v, R)
  BY <1>2, <1>3, TotalOfPick
<1>6. /\ TotalOf(w, R) \in Int /\ TotalOf(v, R) \in Int
      /\ w[x] \in Int /\ v[x] \in Int /\ u[x] = w[x] + v[x]
  <2>1. IsFiniteSet(R) /\ \A y \in R : w[y] \in Int /\ v[y] \in Int
    BY <1>2, FS_Subset
  <2> QED BY <2>1, TotalType
<1>7. TotalOf(u, T) # TotalOf(w, T) + TotalOf(v, T)
  OBVIOUS
<1> HIDE DEF Bad, R
<1> QED BY <1>4, <1>5, <1>6, <1>7

\* A factor that all members have.
LEMMA TotalTimes ==
    ASSUME NEW S, IsFiniteSet(S), NEW k \in Int, NEW w, NEW v,
           \A x \in S : w[x] \in Int /\ v[x] = k * w[x]
    PROVE  TotalOf(v, S) = k * TotalOf(w, S)
<1> DEFINE Bad == {s \in SUBSET S : TotalOf(v, s) # k * TotalOf(w, s)}
<1> SUFFICES ASSUME Bad # {} PROVE FALSE
  OBVIOUS
<1>1. PICK T \in Bad : \A x \in T : T \ {x} \notin Bad
  <2>1. Bad \in SUBSET (SUBSET S)
    OBVIOUS
  <2> HIDE DEF Bad
  <2> QED BY <2>1, HasSmallest
<1>2. T # {} /\ IsFiniteSet(T)
  <2>1. TotalOf(w, {}) = 0 /\ TotalOf(v, {}) = 0 /\ k * 0 = 0
    BY TotalOfEmpty
  <2>2. TotalOf(v, T) # k * TotalOf(w, T)
    OBVIOUS
  <2>3. IsFiniteSet(T)
    BY FS_Subset
  <2>4. CASE T = {}
    <3> HIDE DEF Bad
    <3> QED BY <2>1, <2>2, <2>4
  <2> QED BY <2>3, <2>4
<1>3. PICK x \in T : x = Pick(T)
  BY <1>2, PickIn
<1> DEFINE R == T \ {x}
<1>4. TotalOf(v, R) = k * TotalOf(w, R)
  BY <1>1
<1>5. TotalOf(v, T) = v[x] + TotalOf(v, R) /\ TotalOf(w, T) = w[x] + TotalOf(w, R)
  BY <1>2, <1>3, TotalOfPick
<1>6. TotalOf(w, R) \in Int /\ w[x] \in Int /\ v[x] = k * w[x]
  <2>1. IsFiniteSet(R) /\ \A y \in R : w[y] \in Int
    BY <1>2, FS_Subset
  <2> QED BY <2>1, TotalType
<1>7. TotalOf(v, T) # k * TotalOf(w, T)
  OBVIOUS
<1>8. \A a, b \in Int : k * (a + b) = k * a + k * b
  OBVIOUS
<1> HIDE DEF Bad, R
<1> QED BY <1>4, <1>5, <1>6, <1>7, <1>8

\* Members that are no larger have no larger sum.
LEMMA TotalLeq ==
    ASSUME NEW S, IsFiniteSet(S), NEW w, NEW v,
           \A x \in S : w[x] \in Int /\ v[x] \in Int /\ w[x] <= v[x]
    PROVE  TotalOf(w, S) <= TotalOf(v, S)
<1> DEFINE Bad == {s \in SUBSET S : ~(TotalOf(w, s) <= TotalOf(v, s))}
<1> SUFFICES ASSUME Bad # {} PROVE FALSE
  OBVIOUS
<1>1. PICK T \in Bad : \A x \in T : T \ {x} \notin Bad
  <2>1. Bad \in SUBSET (SUBSET S)
    OBVIOUS
  <2> HIDE DEF Bad
  <2> QED BY <2>1, HasSmallest
<1>2. T # {} /\ IsFiniteSet(T)
  <2>1. TotalOf(w, {}) = 0 /\ TotalOf(v, {}) = 0
    BY TotalOfEmpty
  <2>2. ~(TotalOf(w, T) <= TotalOf(v, T))
    OBVIOUS
  <2>3. IsFiniteSet(T)
    BY FS_Subset
  <2>4. CASE T = {}
    <3> HIDE DEF Bad
    <3> QED BY <2>1, <2>2, <2>4
  <2> QED BY <2>3, <2>4
<1>3. PICK x \in T : x = Pick(T)
  BY <1>2, PickIn
<1> DEFINE R == T \ {x}
<1>4. TotalOf(w, R) <= TotalOf(v, R)
  BY <1>1
<1>5. TotalOf(v, T) = v[x] + TotalOf(v, R) /\ TotalOf(w, T) = w[x] + TotalOf(w, R)
  BY <1>2, <1>3, TotalOfPick
<1>6. /\ TotalOf(w, R) \in Int /\ TotalOf(v, R) \in Int
      /\ w[x] \in Int /\ v[x] \in Int /\ w[x] <= v[x]
  <2>1. IsFiniteSet(R) /\ \A y \in R : w[y] \in Int /\ v[y] \in Int
    BY <1>2, FS_Subset
  <2> QED BY <2>1, TotalType
<1>7. ~(TotalOf(w, T) <= TotalOf(v, T))
  OBVIOUS
<1> HIDE DEF Bad, R
<1> QED BY <1>4, <1>5, <1>6, <1>7

\* A member all of whose equals are b sums to b times their number.
LEMMA TotalConstant ==
    ASSUME NEW S, IsFiniteSet(S), NEW b \in Int, NEW w, \A x \in S : w[x] = b
    PROVE  TotalOf(w, S) = Cardinality(S) * b
<1> DEFINE Bad == {s \in SUBSET S : TotalOf(w, s) # Cardinality(s) * b}
<1> SUFFICES ASSUME Bad # {} PROVE FALSE
  OBVIOUS
<1>1. PICK T \in Bad : \A x \in T : T \ {x} \notin Bad
  <2>1. Bad \in SUBSET (SUBSET S)
    OBVIOUS
  <2> HIDE DEF Bad
  <2> QED BY <2>1, HasSmallest
<1>2. IsFiniteSet(T) /\ TotalOf(w, T) # Cardinality(T) * b
  BY FS_Subset
<1>3. T # {}
  <2>1. Cardinality({}) = 0 /\ 0 * b = 0
    BY FS_EmptySet
  <2> QED BY <1>2, <2>1, TotalOfEmpty
<1>4. PICK x \in T : x = Pick(T)
  BY <1>3, PickIn
<1> DEFINE R == T \ {x}
           n == Cardinality(R)
<1>5. TotalOf(w, R) = n * b
  BY <1>1
<1>6. TotalOf(w, T) = b + TotalOf(w, R)
  BY <1>2, <1>3, <1>4, TotalOfPick
<1>7. Cardinality(T) = n + 1 /\ n \in Nat
  <2>1. Cardinality(R) = Cardinality(T) - 1 /\ Cardinality(T) \in Nat /\ Cardinality(R) \in Nat
    BY <1>2, <1>4, FS_RemoveElement, FS_CardinalityType
  <2> QED BY <2>1
<1> HIDE DEF Bad, R, n
<1>8. (n + 1) * b = n * b + b /\ n * b \in Int
  BY <1>7
<1> QED BY <1>2, <1>5, <1>6, <1>7, <1>8

LEMMA TotalZero ==
    ASSUME NEW S, IsFiniteSet(S), NEW w, \A x \in S : w[x] = 0
    PROVE  TotalOf(w, S) = 0
<1>1. PICK b \in Int : b = 0
  OBVIOUS
<1>2. \A x \in S : w[x] = b
  BY <1>1
<1>3. TotalOf(w, S) = Cardinality(S) * b
  BY <1>2, TotalConstant
<1>4. Cardinality(S) \in Nat
  BY FS_CardinalityType
<1> QED BY <1>1, <1>3, <1>4

\* Members of at most b sum to at most b times their number.
LEMMA TotalAtMost ==
    ASSUME NEW S, IsFiniteSet(S), NEW b \in Int, NEW w,
           \A x \in S : w[x] \in Int /\ w[x] <= b
    PROVE  TotalOf(w, S) <= Cardinality(S) * b
<1> DEFINE v == [x \in S |-> b]
<1>1. \A x \in S : v[x] = b
  OBVIOUS
<1> HIDE DEF v
<1>2. \A x \in S : w[x] \in Int /\ v[x] \in Int /\ w[x] <= v[x]
  BY <1>1
<1>3. TotalOf(w, S) <= TotalOf(v, S)
  BY <1>2, TotalLeq
<1>4. TotalOf(v, S) = Cardinality(S) * b
  BY <1>1, TotalConstant
<1> QED BY <1>3, <1>4

\* Members of at least zero have such a sum, that is as large as any of them.
LEMMA TotalNonneg ==
    ASSUME NEW S, IsFiniteSet(S), NEW w, \A x \in S : w[x] \in Nat
    PROVE  TotalOf(w, S) \in Nat
<1> DEFINE zero == [x \in S |-> 0]
<1>1. \A x \in S : zero[x] = 0
  OBVIOUS
<1> HIDE DEF zero
<1>2. \A x \in S : zero[x] \in Int /\ w[x] \in Int /\ zero[x] <= w[x]
  BY <1>1
<1>3. TotalOf(zero, S) <= TotalOf(w, S) /\ TotalOf(zero, S) = 0 /\ TotalOf(w, S) \in Int
  BY <1>1, <1>2, TotalLeq, TotalZero, TotalType
<1> QED BY <1>3

LEMMA TotalAtLeast ==
    ASSUME NEW S, IsFiniteSet(S), NEW w, \A x \in S : w[x] \in Nat, NEW x \in S
    PROVE  w[x] <= TotalOf(w, S)
<1> DEFINE R == S \ {x}
<1>1. IsFiniteSet(R) /\ \A y \in R : w[y] \in Nat
  BY FS_Subset
<1>2. \A y \in S : w[y] \in Int
  OBVIOUS
<1>3. TotalOf(w, S) = w[x] + TotalOf(w, R)
  BY <1>2, TotalWithout
<1> HIDE DEF R
<1>4. TotalOf(w, R) \in Nat /\ w[x] \in Nat
  BY <1>1, TotalNonneg
<1> QED BY <1>3, <1>4

\* Members that are no larger and have the same sum are the same.
LEMMA TotalTight ==
    ASSUME NEW S, IsFiniteSet(S), NEW w, NEW v,
           \A x \in S : w[x] \in Int /\ v[x] \in Int /\ w[x] <= v[x],
           TotalOf(w, S) = TotalOf(v, S), NEW x \in S
    PROVE  w[x] = v[x]
<1> DEFINE R == S \ {x}
<1>1. IsFiniteSet(R) /\ \A y \in R : w[y] \in Int /\ v[y] \in Int /\ w[y] <= v[y]
  BY FS_Subset
<1>2. TotalOf(w, S) = w[x] + TotalOf(w, R) /\ TotalOf(v, S) = v[x] + TotalOf(v, R)
  BY TotalWithout
<1>3. w[x] \in Int /\ v[x] \in Int /\ w[x] <= v[x]
  OBVIOUS
<1> HIDE DEF R
<1>4. TotalOf(w, R) <= TotalOf(v, R)
  BY <1>1, TotalLeq
<1>5. TotalOf(w, R) \in Int /\ TotalOf(v, R) \in Int
  BY <1>1, TotalType
<1>6. w[x] + TotalOf(w, R) = v[x] + TotalOf(v, R)
  BY <1>2, Zenon
<1>7. \A a, b, k, l \in Int : a + k = b + l /\ a <= b /\ k <= l => a = b
  OBVIOUS
<1> QED BY <1>3, <1>4, <1>5, <1>6, <1>7

\* The sum over a set is that over a part and over the rest.
LEMMA TotalSplit ==
    ASSUME NEW S, IsFiniteSet(S), NEW A \in SUBSET S, NEW w, \A x \in S : w[x] \in Int
    PROVE  TotalOf(w, S) = TotalOf(w, A) + TotalOf(w, S \ A)
<1> DEFINE Bad == {s \in SUBSET S :
                      TotalOf(w, s) # TotalOf(w, s \cap A) + TotalOf(w, s \ A)}
<1> SUFFICES ASSUME Bad # {} PROVE FALSE
  <2>1. S \in SUBSET S /\ S \notin Bad /\ S \cap A = A
    OBVIOUS
  <2> QED BY <2>1
<1>1. PICK T \in Bad : \A x \in T : T \ {x} \notin Bad
  <2>1. Bad \in SUBSET (SUBSET S)
    OBVIOUS
  <2> HIDE DEF Bad
  <2> QED BY <2>1, HasSmallest
<1>2. /\ IsFiniteSet(T) /\ IsFiniteSet(T \cap A) /\ IsFiniteSet(T \ A)
      /\ \A x \in T : w[x] \in Int /\ IsFiniteSet(T \ {x})
  <2>1. /\ T \in SUBSET S /\ T \cap A \in SUBSET S /\ T \ A \in SUBSET S
        /\ \A x \in T : T \ {x} \in SUBSET S
    OBVIOUS
  <2> QED BY <2>1, FS_Subset
<1>3. TotalOf(w, T) # TotalOf(w, T \cap A) + TotalOf(w, T \ A)
  OBVIOUS
<1>4. T # {}
  <2>1. TotalOf(w, {}) = 0
    BY TotalOfEmpty
  <2>2. CASE T = {}
    <3>1. T \cap A = {} /\ T \ A = {}
      BY <2>2
    <3> HIDE DEF Bad
    <3> QED BY <1>3, <2>1, <2>2, <3>1
  <2> QED BY <2>2
<1>5. PICK x \in T : TRUE
  BY <1>4
<1> DEFINE R == T \ {x}
<1>6. TotalOf(w, R) = TotalOf(w, R \cap A) + TotalOf(w, R \ A)
  BY <1>1
<1>7. TotalOf(w, T) = w[x] + TotalOf(w, R)
  BY <1>2, TotalWithout
<1>8. w[x] \in Int /\ TotalOf(w, R \cap A) \in Int /\ TotalOf(w, R \ A) \in Int
  <2>1. R \cap A \in SUBSET T /\ R \ A \in SUBSET T
    OBVIOUS
  <2>2. IsFiniteSet(R \cap A) /\ IsFiniteSet(R \ A)
    BY <1>2, <2>1, FS_Subset
  <2> QED BY <1>2, <2>1, <2>2, TotalType
<1>9. CASE x \in A
  <2>1. R \cap A = (T \cap A) \ {x} /\ R \ A = T \ A /\ x \in T \cap A
    BY <1>9
  <2>2. TotalOf(w, T \cap A) = w[x] + TotalOf(w, (T \cap A) \ {x})
    BY <1>2, <2>1, TotalWithout
  <2>3. TotalOf(w, T \cap A) = w[x] + TotalOf(w, R \cap A)
    BY <2>1, <2>2
  <2>4. TotalOf(w, T \ A) = TotalOf(w, R \ A)
    BY <2>1
  <2> HIDE DEF Bad, R
  <2> QED BY <1>3, <1>6, <1>7, <1>8, <2>3, <2>4
<1>10. CASE x \notin A
  <2>1. R \cap A = T \cap A /\ R \ A = (T \ A) \ {x} /\ x \in T \ A
    BY <1>10
  <2>2. TotalOf(w, T \ A) = w[x] + TotalOf(w, (T \ A) \ {x})
    BY <1>2, <2>1, TotalWithout
  <2>3. TotalOf(w, T \ A) = w[x] + TotalOf(w, R \ A)
    BY <2>1, <2>2
  <2>4. TotalOf(w, T \cap A) = TotalOf(w, R \cap A)
    BY <2>1
  <2> HIDE DEF Bad, R
  <2> QED BY <1>3, <1>6, <1>7, <1>8, <2>3, <2>4
<1> QED BY <1>9, <1>10

\* Indices whose members are zero can be left out.
LEMMA TotalElsewhereZero ==
    ASSUME NEW S, IsFiniteSet(S), NEW A \in SUBSET S, NEW w,
           \A x \in S : w[x] \in Int, \A x \in S \ A : w[x] = 0
    PROVE  TotalOf(w, S) = TotalOf(w, A)
<1>1. PICK R : R = S \ A
  OBVIOUS
<1>2. IsFiniteSet(A) /\ IsFiniteSet(R) /\ R \in SUBSET S
  BY <1>1, FS_Subset
<1>3. TotalOf(w, S) = TotalOf(w, A) + TotalOf(w, R)
  <2>1. TotalOf(w, S) = TotalOf(w, A) + TotalOf(w, S \ A)
    BY TotalSplit
  <2> QED BY <1>1, <2>1, Zenon
<1>4. TotalOf(w, R) = 0
  <2>1. \A x \in R : w[x] = 0
    BY <1>1
  <2> QED BY <1>2, <2>1, TotalZero
<1>5. TotalOf(w, A) \in Int
  <2>1. \A x \in A : w[x] \in Int
    OBVIOUS
  <2> QED BY <1>2, <2>1, TotalType
<1> QED BY <1>3, <1>4, <1>5

-----------------------------------------------------------------------------
\* Quotient and remainder.
LEMMA RemainderRange ==
    ASSUME NEW a \in Nat, NEW n \in Nat \ {0}
    PROVE  /\ a % n \in 0 .. n - 1 /\ a \div n \in Nat
           /\ a = n * (a \div n) + (a % n)
OBVIOUS

LEMMA ExactQuotient ==
    ASSUME NEW g \in Nat \ {0}, NEW n \in Nat
    PROVE  (g * n) \div g = n
<1>1. PICK x \in Nat : x = g * n
  OBVIOUS
<1>2. PICK q \in Nat : q = x \div g
  BY RemainderRange
<1>3. PICK r \in 0 .. g - 1 : r = x % g
  BY RemainderRange
<1>4. x = g * q + r
  BY <1>2, <1>3, RemainderRange
<1>5. CASE q = n
  BY <1>1, <1>2, <1>5
<1>6. CASE q >= n + 1
  <2>1. g * (q - n - 1) >= 0 /\ g * (q - n - 1) = g * q - g * n - g
    BY <1>6
  <2> QED BY <1>1, <1>4, <2>1
<1>7. CASE n >= q + 1
  <2>1. g * (n - q - 1) >= 0 /\ g * (n - q - 1) = g * n - g * q - g
    BY <1>7
  <2> QED BY <1>1, <1>4, <2>1
<1> QED BY <1>5, <1>6, <1>7

\* Two numbers less than n apart leave different remainders.
LEMMA RemaindersDiffer ==
    ASSUME NEW n \in Nat \ {0}, NEW a \in Nat, NEW b \in Nat, a < b, b < a + n
    PROVE  a % n # b % n
<1> SUFFICES ASSUME a % n = b % n PROVE FALSE
  OBVIOUS
<1>1. PICK r \in 0 .. n - 1 : r = a % n /\ r = b % n
  BY RemainderRange
<1>2. PICK x \in Nat : x = a \div n
  BY RemainderRange
<1>3. PICK y \in Nat : y = b \div n
  BY RemainderRange
<1>4. a = n * x + r
  BY <1>1, <1>2, RemainderRange
<1>5. b = n * y + r
  BY <1>1, <1>3, RemainderRange
<1>6. CASE y <= x
  <2>1. n * (x - y) >= 0 /\ n * (x - y) = n * x - n * y
    BY <1>6
  <2> QED BY <1>4, <1>5, <2>1
<1>7. CASE y >= x + 1
  <2>1. n * (y - x - 1) >= 0 /\ n * (y - x - 1) = n * y - n * x - n
    BY <1>7
  <2> QED BY <1>4, <1>5, <2>1
<1> QED BY <1>6, <1>7

-----------------------------------------------------------------------------
\* Powers of two, by a recursion on the natural numbers.

\* f doubles from 1 on, as far as m.
DoublesTo(f, m) ==
    /\ f \in [0 .. m -> Nat]
    /\ \A i \in 0 .. m : f[i] = IF i = 0 THEN 1 ELSE 2 * f[i - 1]

\* Two such sequences agree as far as both go.
LEMMA DoublesAlike ==
    ASSUME NEW m \in Nat, NEW n \in Nat, NEW f, NEW g,
           DoublesTo(f, m), DoublesTo(g, n), NEW i \in Nat, i <= m, i <= n
    PROVE  f[i] = g[i]
<1> DEFINE Bad == {j \in 0 .. i : f[j] # g[j]}
<1> SUFFICES ASSUME Bad # {} PROVE FALSE
  OBVIOUS
<1>1. PICK j \in Bad : \A k \in Bad : j <= k
  <2>1. Bad \in SUBSET Nat
    OBVIOUS
  <2> HIDE DEF Bad
  <2> QED BY <2>1, HasLeast
<1>2. j \in 0 .. m /\ j \in 0 .. n /\ f[j] # g[j]
  OBVIOUS
<1>3. CASE j = 0
  BY <1>2, <1>3 DEF DoublesTo
<1>4. CASE j # 0
  <2>1. j - 1 \in 0 .. i /\ j - 1 \notin Bad
    BY <1>1, <1>4
  <2>2. f[j - 1] = g[j - 1]
    BY <2>1
  <2> QED BY <1>2, <1>4, <2>2 DEF DoublesTo
<1> QED BY <1>3, <1>4

\* There is one of every length.
LEMMA DoublesExist == ASSUME NEW m \in Nat PROVE \E f : DoublesTo(f, m)
<1> DEFINE Bad == {n \in Nat : ~\E f : DoublesTo(f, n)}
<1> SUFFICES ASSUME Bad # {} PROVE FALSE
  OBVIOUS
<1>1. PICK n \in Bad : \A k \in Bad : n <= k
  <2>1. Bad \in SUBSET Nat
    OBVIOUS
  <2> HIDE DEF Bad
  <2> QED BY <2>1, HasLeast
<1>2. CASE n = 0
  <2>1. PICK g : g = [i \in 0 .. 0 |-> 1]
    OBVIOUS
  <2>2. DoublesTo(g, 0)
    BY <2>1 DEF DoublesTo
  <2> QED BY <1>2, <2>2
<1>3. CASE n # 0
  <2>1. n - 1 \in Nat /\ n - 1 \notin Bad
    BY <1>1, <1>3
  <2>2. PICK k \in Nat : k = n - 1
    BY <2>1
  <2>3. PICK f : DoublesTo(f, k)
    BY <2>1, <2>2
  <2>4. f[k] \in Nat
    BY <2>3 DEF DoublesTo
  <2>5. PICK d \in Nat : d = 2 * f[k]
    BY <2>4
  <2>6. PICK g : g = [i \in 0 .. n |-> IF i = n THEN d ELSE f[i]]
    OBVIOUS
  <2>7. g \in [0 .. n -> Nat]
    BY <2>2, <2>3, <2>6 DEF DoublesTo
  <2>8. ASSUME NEW i \in 0 .. n
        PROVE  g[i] = IF i = 0 THEN 1 ELSE 2 * g[i - 1]
    <3>1. CASE i = n
      <4>1. i # 0 /\ i - 1 = k /\ k # n /\ k \in 0 .. n
        BY <1>3, <2>2, <3>1
      <4>2. g[i] = d /\ g[i - 1] = f[k]
        BY <2>6, <3>1, <4>1
      <4> QED BY <2>5, <4>1, <4>2
    <3>2. CASE i # n
      <4>1. i \in 0 .. k
        BY <2>2, <3>2
      <4>2. f[i] = IF i = 0 THEN 1 ELSE 2 * f[i - 1]
        BY <2>3, <4>1 DEF DoublesTo
      <4>3. i # 0 => i - 1 \in 0 .. n /\ i - 1 # n
        BY <4>1, <2>2
      <4> QED BY <2>6, <3>2, <4>2, <4>3
    <3> QED BY <3>1, <3>2
  <2>9. DoublesTo(g, n)
    BY <2>7, <2>8 DEF DoublesTo
  <2> QED BY <1>1, <2>9
<1> QED BY <1>2, <1>3

\* The powers of two exist.
LEMMA PowersExist ==
    \E f : f = [n \in Nat |-> IF n = 0 THEN 1 ELSE 2 * f[n - 1]]
<1> DEFINE F(n) == CHOOSE f : DoublesTo(f, n)
           p == [n \in Nat |-> F(n)[n]]
<1>1. \A n \in Nat : DoublesTo(F(n), n)
  BY DoublesExist
<1> HIDE DEF F
<1>2. ASSUME NEW n \in Nat
      PROVE  p[n] = IF n = 0 THEN 1 ELSE 2 * p[n - 1]
  <2>1. PICK f : f = F(n) /\ DoublesTo(f, n)
    BY <1>1
  <2>2. f[n] = IF n = 0 THEN 1 ELSE 2 * f[n - 1]
    BY <2>1 DEF DoublesTo
  <2>3. CASE n = 0
    BY <2>1, <2>2, <2>3
  <2>4. CASE n # 0
    <3>1. PICK k \in Nat : k = n - 1 /\ k <= n
      BY <2>4
    <3>2. PICK g : g = F(k) /\ DoublesTo(g, k)
      BY <1>1
    <3>3. f[k] = g[k]
      BY <2>1, <3>1, <3>2, DoublesAlike
    <3>4. p[k] = g[k] /\ p[n] = f[n]
      BY <2>1, <3>2
    <3> QED BY <2>2, <2>4, <3>1, <3>3, <3>4
  <2> QED BY <2>3, <2>4
<1>3. p = [n \in Nat |-> IF n = 0 THEN 1 ELSE 2 * p[n - 1]]
  <2>1. p = [n \in Nat |-> p[n]]
    OBVIOUS
  <2> HIDE DEF p
  <2> QED BY <1>2, <2>1
<1> QED BY <1>3

\* More time is no fewer windows, and a window more is one more.
LEMMA WindowsGrow ==
    ASSUME NEW w \in Nat \ {0}, NEW t \in Nat, NEW u \in Nat
    PROVE  /\ t \div w \in Nat /\ u \div w \in Nat
           /\ t <= u => t \div w <= u \div w
           /\ t + w <= u => (t \div w) + 1 <= u \div w
<1>1. PICK q \in Nat, r \in 0 .. w - 1 : q = t \div w /\ t = w * q + r
  BY RemainderRange
<1>2. PICK s \in Nat, v \in 0 .. w - 1 : s = u \div w /\ u = w * s + v
  BY RemainderRange
<1>3. ASSUME t <= u, s < q PROVE FALSE
  <2>1. PICK d \in Nat : q = s + 1 + d
    <3>1. q - s - 1 \in Nat
      BY <1>3
    <3> QED BY <3>1
  <2>2. w * q = w * s + w + w * d
    BY <2>1
  <2>3. w * d \in Nat /\ w * s \in Nat /\ w * q \in Nat
    OBVIOUS
  <2> QED BY <1>1, <1>2, <1>3, <2>2, <2>3
<1>4. ASSUME t + w <= u, s < q + 1 PROVE FALSE
  <2>1. PICK d \in Nat : q = s + d
    <3>1. q - s \in Nat
      BY <1>4
    <3> QED BY <3>1
  <2>2. w * q = w * s + w * d
    BY <2>1
  <2>3. w * d \in Nat /\ w * s \in Nat /\ w * q \in Nat
    OBVIOUS
  <2> QED BY <1>1, <1>2, <1>4, <2>2, <2>3
<1> QED BY <1>1, <1>2, <1>3, <1>4
=============================================================================
