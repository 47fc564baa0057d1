---------------------------- MODULE FrontEndProofs ----------------------------
(***************************************************************************)
(* For every set of hosts, paths and prefixes: the most specific of the    *)
(* routes that fit by whole segments wins, and if prefixes begin with a    *)
(* slash, the order in which routes with different patterns were added     *)
(* does not matter.  For every text of lines: the kind of line ending does *)
(* not matter, what follows the blank line is body and nothing else, and   *)
(* of several headers the first decides.                                   *)
(***************************************************************************)
EXTENDS FrontEnd, NumberLemmas, SequenceTheorems, TLAPS

\* The prefixes programs write: they begin with a slash, unless empty.
Rooted == \A p \in PathPrefixes : p = <<>> \/ p[1] = "/"

Fitting(rs, req) == {i \in DOMAIN rs : Matches(rs[i], req)}

Top(rs, req) ==
    {i \in Fitting(rs, req) :
        \A j \in Fitting(rs, req) : ~MoreSpecific(rs[j], rs[i])}

\* Of two routes that match one request and of which neither is more
\* specific, the patterns are the same (router.rs route).
LEMMA TiesAreOnePattern ==
    ASSUME Rooted, NEW r \in Route, NEW q \in Route, NEW req,
           Matches(r, req), Matches(q, req), ~MoreSpecific(r, q), ~MoreSpecific(q, r)
    PROVE  SamePattern(r, q)
<1>1. /\ r.path_prefix \in Seq(STRING) /\ q.path_prefix \in Seq(STRING)
      /\ r.path_prefix \in PathPrefixes /\ q.path_prefix \in PathPrefixes
  BY RouterAssumption DEF Route
<1>2. Len(r.path_prefix) = Len(q.path_prefix) /\ (r.host = NoHost <=> q.host = NoHost)
  BY <1>1 DEF MoreSpecific
<1>3. r.host = q.host
  BY <1>2 DEF Matches
<1>4. r.path_prefix = q.path_prefix
  <2> DEFINE n == Len(r.path_prefix)
             head == PathHead(req.path)
             Begins(p) == SubSeq(p, 1, n) = SubSeq(head, 1, n)
  <2>1. \A p \in Seq(STRING) : Len(p) = n => SubSeq(p, 1, n) = p
    OBVIOUS
  <2>2. \A p \in PathPrefixes : Len(p) = 1 => p = <<"/">>
    <3> SUFFICES ASSUME NEW p \in PathPrefixes, Len(p) = 1 PROVE p = <<"/">>
      OBVIOUS
    <3>1. p \in Seq(STRING)
      BY RouterAssumption
    <3>2. p[1] = "/"
      BY <3>1 DEF Rooted
    <3> QED BY <3>1, <3>2
  <2>3. CASE n = 1
    BY <1>1, <1>2, <2>2, <2>3
  <2>4. CASE n # 1
    <3>1. r.path_prefix # <<"/">> /\ q.path_prefix # <<"/">>
      <4>1. Len(<<"/">>) = 1
        OBVIOUS
      <4> QED BY <1>2, <2>4, <4>1
    <3>2. Begins(r.path_prefix) /\ Begins(q.path_prefix)
      <4>1. IsPrefix(r.path_prefix, head) /\ IsPrefix(q.path_prefix, head)
        BY <3>1 DEF Matches, PathPrefixMatches
      <4> QED BY <1>2, <4>1 DEF IsPrefix
    <3> QED BY <1>1, <1>2, <2>1, <3>2
  <2> QED BY <2>3, <2>4
<1> QED BY <1>3, <1>4 DEF SamePattern

\* If routes match, one of them is most specific.
LEMMA DoubledOrder ==
    ASSUME NEW m \in Nat, NEW n \in Nat, NEW a \in 0 .. 1, NEW b \in 0 .. 1,
           2 * m + a <= 2 * n + b, m > n \/ (m = n /\ a = 1 /\ b = 0)
    PROVE  FALSE
<1>1. CASE m > n
  <2>1. m >= n + 1
    BY <1>1
  <2> QED BY <2>1
<1> QED BY <1>1

LEMMA SomeoneIsOnTop ==
    ASSUME NEW rs \in Seq(Route), NEW req, Fitting(rs, req) # {}
    PROVE  Top(rs, req) # {}
<1> DEFINE Rank(r) == 2 * Len(r.path_prefix) + (IF r.host = NoHost THEN 0 ELSE 1)
           rank == [i \in 1 .. Len(rs) |-> Rank(rs[i])]
<1>1. \A i \in 1 .. Len(rs) : rs[i] \in Route /\ Len(rs[i].path_prefix) \in Nat
  <2>1. \A r \in Route : r.path_prefix \in Seq(STRING)
    BY RouterAssumption DEF Route
  <2> QED BY <2>1
<1>2. rank \in [1 .. Len(rs) -> Int]
  BY <1>1
<1>3. Fitting(rs, req) \in SUBSET (1 .. Len(rs)) /\ Len(rs) \in Nat
  BY DEF Fitting
<1>4. PICK i \in Fitting(rs, req) : \A j \in Fitting(rs, req) : rank[j] <= rank[i]
  <2> HIDE DEF rank
  <2> QED BY <1>2, <1>3, HasLargest
<1>5. \A j \in Fitting(rs, req) : ~MoreSpecific(rs[j], rs[i])
  <2> SUFFICES ASSUME NEW j \in Fitting(rs, req), MoreSpecific(rs[j], rs[i]) PROVE FALSE
    OBVIOUS
  <2>1. Rank(rs[j]) <= Rank(rs[i])
    BY <1>3, <1>4
  <2>2. Len(rs[j].path_prefix) \in Nat /\ Len(rs[i].path_prefix) \in Nat
    BY <1>1, <1>3
  <2> DEFINE m == Len(rs[j].path_prefix)
             n == Len(rs[i].path_prefix)
             a == IF rs[j].host = NoHost THEN 0 ELSE 1
             b == IF rs[i].host = NoHost THEN 0 ELSE 1
  <2>3. a \in 0 .. 1 /\ b \in 0 .. 1 /\ 2 * m + a <= 2 * n + b
    <3>1. Rank(rs[j]) = 2 * m + a /\ Rank(rs[i]) = 2 * n + b
      OBVIOUS
    <3>2. a \in 0 .. 1
      <4> HIDE DEF Rank, m, n, b
      <4> QED OBVIOUS
    <3>3. b \in 0 .. 1
      <4> HIDE DEF Rank, m, n, a
      <4> QED OBVIOUS
    <3> HIDE DEF Rank, m, n, a, b
    <3> QED BY <2>1, <3>1, <3>2, <3>3
  <2>4. m > n \/ (m = n /\ a = 1 /\ b = 0)
    BY DEF MoreSpecific
  <2> HIDE DEF Rank, m, n, a, b
  <2>5. m \in Nat /\ n \in Nat
    BY <2>2 DEF m, n
  <2> QED BY <2>3, <2>4, <2>5, DoubledOrder
<1> QED BY <1>5 DEF Top

\* Exchanging neighbours of different patterns (router.rs add).
LEMMA SwapKeepsService ==
    ASSUME Rooted, NEW rs \in Seq(Route), NEW k \in 1 .. Len(rs) - 1,
           ~SamePattern(rs[k], rs[k + 1]),
           NEW qs, qs = [rs EXCEPT ![k] = rs[k + 1], ![k + 1] = rs[k]],
           NEW req
    PROVE  RouteFor(qs, req) = RouteFor(rs, req)
<1> DEFINE n == Len(rs)
           to == [i \in 1 .. n |-> IF i = k THEN k + 1 ELSE IF i = k + 1 THEN k ELSE i]
<1>1. /\ n \in Nat /\ k \in 1 .. n /\ k + 1 \in 1 .. n
      /\ DOMAIN rs = 1 .. n /\ DOMAIN qs = 1 .. n
      /\ \A i \in 1 .. n : rs[i] \in Route
  OBVIOUS
<1>2. \A i \in 1 .. n : to[i] \in 1 .. n /\ to[to[i]] = i /\ qs[to[i]] = rs[i]
  BY <1>1
<1>3. qs \in Seq(Route)
  <2>1. qs \in [1 .. n -> Route]
    BY <1>1
  <2> QED BY <1>1, <2>1
<1>4. \A i \in 1 .. n : to[i] = IF i = k THEN k + 1 ELSE IF i = k + 1 THEN k ELSE i
  OBVIOUS
<1> HIDE DEF to, n
<1>5. /\ Fitting(rs, req) \in SUBSET (1 .. n) /\ Fitting(qs, req) \in SUBSET (1 .. n)
      /\ \A i \in 1 .. n : to[i] \in Fitting(qs, req) <=> i \in Fitting(rs, req)
  BY <1>1, <1>2 DEF Fitting
<1>6. \A i \in 1 .. n : to[i] \in Top(qs, req) <=> i \in Top(rs, req)
  <2> SUFFICES ASSUME NEW i \in 1 .. n
               PROVE  to[i] \in Top(qs, req) <=> i \in Top(rs, req)
    OBVIOUS
  <2>1. ASSUME \A j \in Fitting(qs, req) : ~MoreSpecific(qs[j], qs[to[i]])
        PROVE  \A j \in Fitting(rs, req) : ~MoreSpecific(rs[j], rs[i])
    BY <1>2, <1>5, <2>1
  <2>2. ASSUME \A j \in Fitting(rs, req) : ~MoreSpecific(rs[j], rs[i])
        PROVE  \A j \in Fitting(qs, req) : ~MoreSpecific(qs[j], qs[to[i]])
    <3> SUFFICES ASSUME NEW j \in Fitting(qs, req)
                 PROVE  ~MoreSpecific(qs[j], qs[to[i]])
      OBVIOUS
    <3>1. to[j] \in Fitting(rs, req) /\ qs[j] = rs[to[j]]
      BY <1>2, <1>5
    <3> QED BY <1>2, <2>2, <3>1
  <2> QED BY <1>5, <2>1, <2>2 DEF Top
<1>7. CASE Fitting(rs, req) = {}
  <2>1. Fitting(qs, req) = {}
    <3> SUFFICES ASSUME NEW j \in Fitting(qs, req) PROVE FALSE
      OBVIOUS
    <3>1. j \in 1 .. n /\ to[j] \in 1 .. n /\ to[to[j]] = j
      BY <1>2, <1>5
    <3>2. to[j] \in Fitting(rs, req)
      BY <1>5, <3>1
    <3> QED BY <1>7, <3>2
  <2> QED BY <1>7, <2>1 DEF RouteFor, Fitting
<1>8. CASE Fitting(rs, req) # {}
  <2> DEFINE a == Max(Top(rs, req))
             b == Max(Top(qs, req))
  <2>1. Fitting(qs, req) # {}
    BY <1>5, <1>8
  <2>2. /\ a \in Top(rs, req) /\ \A j \in Top(rs, req) : j <= a
        /\ b \in Top(qs, req) /\ \A j \in Top(qs, req) : j <= b
    <3>1. Top(rs, req) \in SUBSET (1 .. n) /\ Top(qs, req) \in SUBSET (1 .. n)
      BY <1>5 DEF Top
    <3>2. Top(rs, req) # {} /\ Top(qs, req) # {}
      BY <1>3, <1>8, <2>1, SomeoneIsOnTop
    <3> QED BY <1>1, <3>1, <3>2, MaxOfIndices
  <2>3. a \in 1 .. n /\ b \in 1 .. n
    BY <1>5, <2>2 DEF Top
  <2> HIDE DEF a, b
  <2>4. to[a] \in Top(qs, req) /\ to[b] \in Top(rs, req) /\ to[to[b]] = b
    BY <1>2, <1>6, <2>2, <2>3
  <2>5. to[b] <= a /\ to[a] <= b
    BY <2>2, <2>4
  <2>6. ~(to[b] = k /\ a = k + 1)
    <3> SUFFICES ASSUME to[b] = k, a = k + 1 PROVE FALSE
      OBVIOUS
    <3>1. /\ Matches(rs[k], req) /\ Matches(rs[k + 1], req)
          /\ ~MoreSpecific(rs[k], rs[k + 1]) /\ ~MoreSpecific(rs[k + 1], rs[k])
      BY <2>2, <2>4 DEF Top, Fitting
    <3> QED BY <1>1, <3>1, TiesAreOnePattern
  <2>7. b = to[a]
    BY <1>1, <1>2, <1>4, <2>3, <2>4, <2>5, <2>6
  <2>8. qs[b] = rs[a]
    BY <1>2, <2>3, <2>7
  <2>9. RouteFor(rs, req) = rs[a].service
    BY <1>8, Zenon DEF RouteFor, Fitting, Top, a
  <2>10. RouteFor(qs, req) = qs[b].service
    BY <2>1, Zenon DEF RouteFor, Fitting, Top, b
  <2> QED BY <2>8, <2>9, <2>10
<1> QED BY <1>7, <1>8

\* The table is a sequence of routes (router.rs add).
LEMMA TableType ==
    FrontSpec => [](routes \in Seq(Route))
<1>1. FrontInit => routes \in Seq(Route)
  BY DEF FrontInit, Init
<1>2. routes \in Seq(Route) /\ [AddRoute \/ Receive]_frontVars => (routes \in Seq(Route))'
  BY DEF AddRoute, Add, Receive, frontVars
<1> QED BY <1>1, <1>2, PTL DEF FrontSpec

(***************************************************************************)
(* The order of the routes does not matter, for tables of any length and   *)
(* every request, if prefixes begin with a slash: max_by_key takes the     *)
(* last of several maxima, but they all have one pattern (router.rs        *)
(* route).                                                                 *)
(***************************************************************************)
THEOREM OrderDoesNotMatter ==
    ASSUME Rooted PROVE FrontSpec => []OrderIsIrrelevant
<1>1. routes \in Seq(Route) => OrderIsIrrelevant
  BY SwapKeepsService DEF OrderIsIrrelevant, Swapped
<1> QED BY <1>1, TableType, PTL

-----------------------------------------------------------------------------
(***************************************************************************)
(* Segments and string comparison.  The parts of the first m symbols of a  *)
(* path and the symbol after them decide how the parts of the whole path   *)
(* begin, so two paths part in their symbols where their segments part.    *)
(***************************************************************************)
PartLists == Seq(Seq(STRING))

\* f holds the parts of the first 0, 1, .. m symbols of a path.
CutsTo(f, path, m) ==
    f = [n \in 0 .. m |-> IF n = 0 THEN <<<<>>>> ELSE Extended(f[n - 1], path[n])]

\* The recursive function of Parts exists.
LEMMA CutsExist ==
    ASSUME NEW path, NEW m \in Nat
    PROVE  \E f : CutsTo(f, path, m)
<1> DEFINE Bad == {n \in Nat : ~\E f : CutsTo(f, path, n)}
<1> SUFFICES ASSUME Bad # {} PROVE FALSE
  OBVIOUS
<1>1. PICK n \in Bad : \A k \in Bad : n <= k
  <2>1. Bad \in SUBSET Nat
    OBVIOUS
  <2> HIDE DEF Bad
  <2> QED BY <2>1, HasLeast
<1>2. CASE n = 0
  <2>1. PICK g : g = [i \in 0 .. 0 |-> <<<<>>>>]
    OBVIOUS
  <2>2. CutsTo(g, path, 0)
    BY <2>1 DEF CutsTo
  <2> QED BY <1>2, <2>2
<1>3. CASE n # 0
  <2>1. n - 1 \in Nat /\ n - 1 \notin Bad
    BY <1>1, <1>3
  <2>2. PICK k \in Nat : k = n - 1
    BY <2>1
  <2>3. PICK f : CutsTo(f, path, k)
    BY <2>1, <2>2
  <2>4. PICK d : d = Extended(f[k], path[n])
    OBVIOUS
  <2>5. PICK g : g = [i \in 0 .. n |-> IF i = n THEN d ELSE f[i]]
    OBVIOUS
  <2>6. ASSUME NEW i \in 0 .. n
        PROVE  g[i] = IF i = 0 THEN <<<<>>>> ELSE Extended(g[i - 1], path[i])
    <3>1. CASE i = n
      <4>1. i # 0 /\ i - 1 = k /\ k # n /\ k \in 0 .. n
        BY <1>3, <2>2, <3>1
      <4>2. g[i] = d /\ g[i - 1] = f[k]
        BY <2>5, <3>1, <4>1
      <4> QED BY <2>4, <3>1, <4>1, <4>2
    <3>2. CASE i # n
      <4>1. i \in 0 .. k
        BY <2>2, <3>2
      <4>2. f[i] = IF i = 0 THEN <<<<>>>> ELSE Extended(f[i - 1], path[i])
        BY <2>3, <4>1 DEF CutsTo
      <4>3. i # 0 => i - 1 \in 0 .. n /\ i - 1 # n
        BY <4>1, <2>2
      <4> QED BY <2>5, <3>2, <4>2, <4>3
    <3> QED BY <3>1, <3>2
  <2>7. g = [i \in 0 .. n |-> g[i]]
    BY <2>5
  <2>8. CutsTo(g, path, n)
    BY <2>6, <2>7 DEF CutsTo
  <2> QED BY <1>1, <2>8
<1> QED BY <1>2, <1>3

LEMMA PartsAre ==
    ASSUME NEW path \in Seq(STRING)
    PROVE  /\ Parts(path)[0] = <<<<>>>>
           /\ \A n \in 1 .. Len(path) :
                 Parts(path)[n] = Extended(Parts(path)[n - 1], path[n])
<1>1. PICK f : f = Parts(path)
  OBVIOUS
<1>2. PICK m \in Nat : m = Len(path)
  OBVIOUS
<1>3. CutsTo(f, path, m)
  BY <1>1, <1>2, CutsExist DEF Parts, CutsTo
<1>4. f[0] = <<<<>>>>
  BY <1>3 DEF CutsTo
<1>5. ASSUME NEW n \in 1 .. m PROVE f[n] = Extended(f[n - 1], path[n])
  <2>1. n \in 0 .. m /\ n # 0
    OBVIOUS
  <2> QED BY <1>3, <2>1 DEF CutsTo
<1> QED BY <1>1, <1>2, <1>4, <1>5

\* Paths that agree so far have the same parts so far.
LEMMA PartsAlike ==
    ASSUME NEW a \in Seq(STRING), NEW b \in Seq(STRING), NEW m \in Nat,
           m <= Len(a), m <= Len(b), \A i \in 1 .. m : a[i] = b[i]
    PROVE  Parts(a)[m] = Parts(b)[m]
<1> DEFINE Bad == {n \in 0 .. m : Parts(a)[n] # Parts(b)[n]}
<1> SUFFICES ASSUME Bad # {} PROVE FALSE
  OBVIOUS
<1>1. PICK n \in Bad : \A k \in Bad : n <= k
  <2>1. Bad \in SUBSET Nat
    OBVIOUS
  <2> HIDE DEF Bad
  <2> QED BY <2>1, HasLeast
<1>2. n # 0
  BY PartsAre
<1>3. n \in 1 .. Len(a) /\ n \in 1 .. Len(b) /\ a[n] = b[n]
  BY <1>2
<1>4. Parts(a)[n - 1] = Parts(b)[n - 1]
  <2>1. n - 1 \in 0 .. m /\ n - 1 \notin Bad
    BY <1>1, <1>2
  <2> QED BY <2>1
<1>5. Parts(a)[n] = Extended(Parts(a)[n - 1], a[n])
      /\ Parts(b)[n] = Extended(Parts(b)[n - 1], b[n])
  BY <1>3, PartsAre
<1> QED BY <1>3, <1>4, <1>5

LEMMA PartListIs ==
    ASSUME NEW p \in PartLists
    PROVE  Len(p) \in Nat /\ \A j \in 1 .. Len(p) : p[j] \in Seq(STRING)
BY DEF PartLists

\* s goes on from r with the symbol c.
Beyond(r, s, c) == Len(s) > Len(r) /\ s[Len(r) + 1] = c

LEMMA AppendedIsBeyond ==
    ASSUME NEW r \in Seq(STRING), NEW c \in STRING
    PROVE  Append(r, c) \in Seq(STRING) /\ Beyond(r, Append(r, c), c)
<1>1. PICK s : s = Append(r, c)
  OBVIOUS
<1>2. PICK T : T = STRING
  OBVIOUS
<1>3. s \in Seq(T) /\ Len(s) = Len(r) + 1 /\ s[Len(r) + 1] = c
  BY <1>1, <1>2, AppendProperties
<1>4. Len(r) \in Nat
  OBVIOUS
<1>5. Len(s) > Len(r)
  BY <1>3, <1>4
<1>6. Beyond(r, s, c)
  BY <1>3, <1>5 DEF Beyond
<1>7. s \in Seq(STRING)
  BY <1>2, <1>3
<1> QED BY <1>1, <1>6, <1>7

LEMMA StillBeyond ==
    ASSUME NEW r \in Seq(STRING), NEW s \in Seq(STRING), NEW c, Beyond(r, s, c),
           NEW d \in STRING
    PROVE  Beyond(r, Append(s, d), c)
<1>1. PICK u : u = Append(s, d)
  OBVIOUS
<1>2. PICK m \in Nat : m = Len(r)
  OBVIOUS
<1>3. PICK n \in Nat : n = Len(s)
  OBVIOUS
<1>4. n > m /\ s[m + 1] = c
  BY <1>2, <1>3 DEF Beyond
<1>5. Len(u) = n + 1 /\ \A i \in 1 .. n : u[i] = s[i]
  BY <1>1, <1>3, AppendProperties
<1>6. u[m + 1] = s[m + 1]
  BY <1>4, <1>5
<1>7. Len(u) > m
  BY <1>4, <1>5
<1> QED BY <1>1, <1>2, <1>4, <1>6, <1>7 DEF Beyond

\* A slash opens a part, another symbol goes on with the last one.
Opened(p, q) ==
    /\ Len(q) = Len(p) + 1 /\ q[Len(p) + 1] = <<>>
    /\ \A j \in 1 .. Len(p) : q[j] = p[j]

Grown(p, q, c) ==
    /\ Len(q) = Len(p) /\ q[Len(p)] = Append(p[Len(p)], c)
    /\ \A j \in 1 .. Len(p) - 1 : q[j] = p[j]

LEMMA SlashOpens ==
    ASSUME NEW p \in PartLists
    PROVE  Extended(p, "/") \in PartLists /\ Opened(p, Extended(p, "/"))
<1> DEFINE Part == Seq(STRING)
<1>1. PICK e : e = <<>>
  OBVIOUS
<1>2. e \in Part
  BY <1>1, EmptySeq
<1>3. PICK q : q = Append(p, e)
  OBVIOUS
<1>4. q = Extended(p, "/")
  BY <1>1, <1>3 DEF Extended
<1>5. p \in Seq(Part)
  BY DEF PartLists
<1> HIDE DEF Part
<1>6. /\ q \in Seq(Part) /\ Len(q) = Len(p) + 1 /\ q[Len(p) + 1] = e
      /\ \A j \in 1 .. Len(p) : q[j] = p[j]
  BY <1>2, <1>3, <1>5, AppendProperties
<1>7. q \in PartLists
  BY <1>6 DEF PartLists, Part
<1>8. Opened(p, q)
  BY <1>1, <1>6 DEF Opened
<1> QED BY <1>4, <1>7, <1>8

LEMMA SymbolGrows ==
    ASSUME NEW p \in PartLists, Len(p) >= 1, NEW c \in STRING, c # "/"
    PROVE  Extended(p, c) \in PartLists /\ Grown(p, Extended(p, c), c)
<1> DEFINE Part == Seq(STRING)
<1>0. PICK k \in Nat \ {0} : k = Len(p)
  BY DEF PartLists
<1>1. k \in 1 .. Len(p) /\ p[k] \in Part
  BY <1>0 DEF PartLists
<1>2. PICK e : e = Append(p[k], c)
  OBVIOUS
<1>3. e \in Part
  BY <1>1, <1>2, AppendProperties
<1>4. PICK q : q = [p EXCEPT ![k] = e]
  OBVIOUS
<1>5. q = Extended(p, c)
  BY <1>0, <1>2, <1>4 DEF Extended
<1>6. p \in Seq(Part)
  BY DEF PartLists
<1> HIDE DEF Part
<1>7. /\ q \in Seq(Part) /\ Len(q) = k
      /\ \A j \in 1 .. k : q[j] = IF j = k THEN e ELSE p[j]
  BY <1>0, <1>1, <1>3, <1>4, <1>6, ExceptSeq
<1>8. q \in PartLists
  BY <1>7 DEF PartLists, Part
<1>9. q[k] = e
  <2>1. k \in 1 .. k
    BY <1>0
  <2> QED BY <1>7, <2>1
<1>10. \A j \in 1 .. k - 1 : q[j] = p[j]
  <2> SUFFICES ASSUME NEW j \in 1 .. k - 1 PROVE q[j] = p[j]
    OBVIOUS
  <2>1. j \in 1 .. k /\ j # k
    BY <1>0
  <2> QED BY <1>7, <2>1
<1>11. Len(q) = k
  BY <1>7
<1>12. Grown(p, q, c)
  BY <1>0, <1>2, <1>9, <1>10, <1>11 DEF Grown
<1> QED BY <1>5, <1>8, <1>12

LEMMA ExtendedType ==
    ASSUME NEW p \in PartLists, Len(p) >= 1, NEW c \in STRING,
           NEW q, q = Extended(p, c)
    PROVE  q \in PartLists /\ Len(q) >= 1
<1>1. Len(p) \in Nat
  BY PartListIs
<1>2. CASE c = "/"
  <2>1. q \in PartLists /\ Opened(p, q)
    BY <1>2, SlashOpens
  <2>2. Len(q) = Len(p) + 1
    BY <2>1 DEF Opened
  <2>3. Len(q) >= 1
    BY <1>1, <2>2
  <2> QED BY <2>1, <2>3
<1>3. CASE c # "/"
  <2>1. q \in PartLists /\ Grown(p, q, c)
    BY <1>3, SymbolGrows
  <2> QED BY <1>1, <2>1 DEF Grown
<1> QED BY <1>2, <1>3

\* The parts of no symbols are one, and empty.
LEMMA NoSymbols ==
    ASSUME NEW p, p = <<<<>>>>
    PROVE  p \in PartLists /\ Len(p) = 1 /\ p[1] = <<>>
<1> DEFINE Part == Seq(STRING)
<1>1. PICK e : e = <<>>
  OBVIOUS
<1>2. e \in Part
  BY <1>1, EmptySeq
<1>3. p = <<e>>
  BY <1>1
<1> HIDE DEF Part
<1>4. p \in Seq(Part) /\ Len(p) = 1 /\ p[1] = e
  BY <1>2, <1>3
<1> QED BY <1>1, <1>4 DEF PartLists, Part

LEMMA PartsType ==
    ASSUME NEW path \in Seq(STRING), NEW m \in 0 .. Len(path)
    PROVE  Parts(path)[m] \in PartLists /\ Len(Parts(path)[m]) >= 1
<1> DEFINE Good(n) == Parts(path)[n] \in PartLists /\ Len(Parts(path)[n]) >= 1
           Bad == {n \in 0 .. Len(path) : ~Good(n)}
<1> SUFFICES ASSUME Bad # {} PROVE FALSE
  OBVIOUS
<1>1. PICK n \in Bad : \A k \in Bad : n <= k
  <2>1. Bad \in SUBSET Nat
    OBVIOUS
  <2> HIDE DEF Bad
  <2> QED BY <2>1, HasLeast
<1>2. n # 0
  <2>1. PICK p : p = Parts(path)[0]
    OBVIOUS
  <2>2. p \in PartLists /\ Len(p) = 1
    BY <2>1, PartsAre, NoSymbols
  <2>3. Good(0)
    BY <2>1, <2>2
  <2> HIDE DEF Good
  <2> QED BY <1>1, <2>3
<1>3. n \in 1 .. Len(path) /\ path[n] \in STRING
  BY <1>2
<1>4. Good(n - 1)
  <2>1. n - 1 \in 0 .. Len(path) /\ n - 1 \notin Bad
    BY <1>1, <1>2
  <2> QED BY <2>1
<1>5. PICK p : p = Parts(path)[n - 1]
  OBVIOUS
<1>6. PICK q : q = Parts(path)[n]
  OBVIOUS
<1>7. q = Extended(p, path[n])
  BY <1>3, <1>5, <1>6, PartsAre
<1>8. q \in PartLists /\ Len(q) >= 1
  BY <1>3, <1>4, <1>5, <1>7, ExtendedType
<1> QED BY <1>6, <1>8

\* The parts p of a path when the symbol c follows, and the parts q of the
\* path when it has gone on from there.
Closed(p, q) ==
    Len(q) > Len(p) /\ \A j \in 1 .. Len(p) : q[j] = p[j]

GoneOn(p, q, c) ==
    Len(q) >= Len(p) /\ Beyond(p[Len(p)], q[Len(p)], c)

Continued(p, q, c) == IF c = "/" THEN Closed(p, q) ELSE GoneOn(p, q, c)

\* The next symbol, and the ones after it, leave it so.
LEMMA ContinuedAtOnce ==
    ASSUME NEW p \in PartLists, Len(p) >= 1, NEW c \in STRING
    PROVE  Continued(p, Extended(p, c), c)
<1>0. PICK k \in Nat \ {0} : k = Len(p)
  BY DEF PartLists
<1>1. PICK q : q = Extended(p, c)
  OBVIOUS
<1>2. CASE c = "/"
  <2>1. Opened(p, q)
    BY <1>1, <1>2, SlashOpens
  <2> QED BY <1>0, <1>1, <1>2, <2>1 DEF Continued, Closed, Opened
<1>3. CASE c # "/"
  <2>1. Grown(p, q, c)
    BY <1>1, <1>3, SymbolGrows
  <2>2. PICK r \in Seq(STRING) : r = p[k]
    BY <1>0, PartListIs
  <2>3. Len(q) = k /\ q[k] = Append(r, c)
    BY <1>0, <2>1, <2>2 DEF Grown
  <2>4. Beyond(r, q[k], c)
    BY <2>3, AppendedIsBeyond
  <2>5. k >= k
    OBVIOUS
  <2> QED BY <1>0, <1>1, <1>3, <2>2, <2>3, <2>4, <2>5 DEF Continued, GoneOn
<1> QED BY <1>2, <1>3

LEMMA ContinuedOn ==
    ASSUME NEW p \in PartLists, Len(p) >= 1, NEW c \in STRING,
           NEW q \in PartLists, Len(q) >= 1, Continued(p, q, c),
           NEW d \in STRING
    PROVE  Continued(p, Extended(q, d), c)
<1>0. PICK k \in Nat \ {0} : k = Len(p)
  BY DEF PartLists
<1>1. PICK m \in Nat \ {0} : m = Len(q)
  BY DEF PartLists
<1>2. PICK t : t = Extended(q, d)
  OBVIOUS
<1>3. PICK n \in Nat : n = Len(t)
  BY <1>2, ExtendedType, PartListIs
<1>4. n >= m /\ \A j \in 1 .. m - 1 : t[j] = q[j]
  <2>1. CASE d = "/"
    <3>1. Opened(q, t)
      BY <1>2, <2>1, SlashOpens
    <3>2. n = m + 1 /\ \A j \in 1 .. m : t[j] = q[j]
      BY <1>1, <1>3, <3>1 DEF Opened
    <3>3. \A j \in 1 .. m - 1 : j \in 1 .. m
      BY <1>1
    <3>4. n >= m
      BY <3>2
    <3> QED BY <3>2, <3>3, <3>4
  <2>2. CASE d # "/"
    <3>1. Grown(q, t, d)
      BY <1>2, <2>2, SymbolGrows
    <3> QED BY <1>1, <1>3, <3>1 DEF Grown
  <2> QED BY <2>1, <2>2
<1>5. CASE c = "/"
  <2>1. m > k /\ \A j \in 1 .. k : q[j] = p[j]
    BY <1>0, <1>1, <1>5 DEF Continued, Closed
  <2>2. n > k /\ \A j \in 1 .. k : j \in 1 .. m - 1
    BY <1>4, <2>1
  <2>3. \A j \in 1 .. k : t[j] = p[j]
    BY <1>4, <2>1, <2>2
  <2> QED BY <1>0, <1>2, <1>3, <1>5, <2>2, <2>3 DEF Continued, Closed
<1>6. CASE c # "/"
  <2>1. PICK r \in Seq(STRING) : r = p[k]
    BY <1>0, PartListIs
  <2>2. m >= k /\ Beyond(r, q[k], c)
    BY <1>0, <1>1, <1>6, <2>1 DEF Continued, GoneOn
  <2>3. PICK s \in Seq(STRING) : s = q[k]
    <3>1. k \in 1 .. Len(q)
      BY <1>1, <2>2
    <3> QED BY <3>1, PartListIs
  <2>4. Beyond(r, t[k], c)
    <3>1. CASE k = m /\ d # "/"
      <4>1. Grown(q, t, d)
        BY <1>2, <3>1, SymbolGrows
      <4>2. t[k] = Append(s, d)
        BY <1>1, <2>3, <3>1, <4>1 DEF Grown
      <4>3. Beyond(r, s, c)
        BY <2>2, <2>3
      <4> QED BY <4>2, <4>3, StillBeyond
    <3>2. CASE k = m /\ d = "/"
      <4>1. Opened(q, t)
        BY <1>2, <3>2, SlashOpens
      <4>2. k \in 1 .. Len(q)
        BY <1>1, <3>2
      <4>3. t[k] = q[k]
        BY <4>1, <4>2 DEF Opened
      <4> QED BY <2>2, <4>3
    <3>3. CASE k # m
      <4>1. k \in 1 .. m - 1
        BY <2>2, <3>3
      <4>2. t[k] = q[k]
        BY <1>4, <4>1
      <4> QED BY <2>2, <4>2
    <3> QED BY <3>1, <3>2, <3>3
  <2>5. n >= k
    BY <1>4, <2>2
  <2> QED BY <1>0, <1>2, <1>3, <1>6, <2>1, <2>4, <2>5 DEF Continued, GoneOn
<1> QED BY <1>5, <1>6

\* The symbol after the first m decides how the parts of a path go on.
LEMMA NextSymbol ==
    ASSUME NEW path \in Seq(STRING), NEW m \in 0 .. Len(path) - 1
    PROVE  Continued(Parts(path)[m], Segments(path), path[m + 1])
<1>0. PICK n \in Nat : n = Len(path)
  OBVIOUS
<1> DEFINE Good(i) == Continued(Parts(path)[m], Parts(path)[i], path[m + 1])
           Bad == {i \in m + 1 .. n : ~Good(i)}
<1>1. Bad = {}
  <2> SUFFICES ASSUME Bad # {} PROVE FALSE
    OBVIOUS
  <2>1. PICK i \in Bad : \A k \in Bad : i <= k
    <3>1. Bad \in SUBSET Nat
      OBVIOUS
    <3> HIDE DEF Bad
    <3> QED BY <3>1, HasLeast
  <2>2. PICK j \in 0 .. n : j = i - 1
    OBVIOUS
  <2>3. i \in 1 .. Len(path) /\ path[i] \in STRING /\ m + 1 \in 1 .. Len(path)
        /\ path[m + 1] \in STRING /\ m \in 0 .. Len(path) /\ j \in 0 .. Len(path)
    BY <1>0, <2>2
  <2>4. PICK p : p = Parts(path)[m]
    OBVIOUS
  <2>5. PICK q : q = Parts(path)[j]
    OBVIOUS
  <2>6. PICK t : t = Parts(path)[i]
    OBVIOUS
  <2>7. p \in PartLists /\ Len(p) >= 1 /\ q \in PartLists /\ Len(q) >= 1
    BY <2>3, <2>4, <2>5, PartsType
  <2>8. t = Extended(q, path[i])
    BY <2>2, <2>3, <2>5, <2>6, PartsAre
  <2>9. ~Continued(p, t, path[m + 1])
    BY <2>4, <2>6
  <2>10. CASE i = m + 1
    <3>1. j = m
      BY <2>2, <2>10
    <3>2. t = Extended(p, path[m + 1])
      BY <2>4, <2>5, <2>8, <2>10, <3>1
    <3> QED BY <2>3, <2>7, <2>9, <3>2, ContinuedAtOnce
  <2>11. CASE i # m + 1
    <3>1. j \in m + 1 .. n /\ j \notin Bad
      <4>1. j \in m + 1 .. n /\ ~(i <= j)
        BY <2>2, <2>11
      <4> HIDE DEF Bad
      <4> QED BY <2>1, <4>1
    <3>2. Continued(p, q, path[m + 1])
      BY <2>4, <2>5, <3>1
    <3> QED BY <2>3, <2>7, <2>8, <2>9, <3>2, ContinuedOn
  <2> QED BY <2>10, <2>11
<1>2. n \in m + 1 .. n
  BY <1>0
<1> QED BY <1>0, <1>1, <1>2 DEF Segments

\* a and b agree in their first m places.
Agree(a, b, m) == \A i \in 1 .. m : a[i] = b[i]

\* A prefix is a sequence with which the other agrees to its end.
LEMMA PrefixAgrees ==
    ASSUME NEW T, NEW a \in Seq(T), NEW b \in Seq(T)
    PROVE  IsPrefix(a, b) <=> Len(a) <= Len(b) /\ Agree(a, b, Len(a))
<1>1. PICK m \in Nat : m = Len(a)
  OBVIOUS
<1>2. CASE m <= Len(b)
  <2>1. PICK c : c = SubSeq(a, 1, m)
    OBVIOUS
  <2>2. PICK d : d = SubSeq(b, 1, m)
    OBVIOUS
  <2>3. \A i \in 1 .. m : a[i] \in T /\ b[i] \in T
    BY <1>1, <1>2
  <2>4. c \in Seq(T) /\ Len(c) = m /\ \A i \in 1 .. m : c[i] = a[i]
    BY <1>1, <2>1, <2>3, SubSeqProperties
  <2>5. d \in Seq(T) /\ Len(d) = m /\ \A i \in 1 .. m : d[i] = b[i]
    BY <1>1, <2>2, <2>3, SubSeqProperties
  <2>6. ASSUME c = d PROVE \A i \in 1 .. m : a[i] = b[i]
    BY <2>4, <2>5, <2>6
  <2>7. ASSUME \A i \in 1 .. m : a[i] = b[i] PROVE c = d
    <3>1. \A i \in 1 .. Len(c) : c[i] = d[i]
      BY <2>4, <2>5, <2>7
    <3> QED BY <2>4, <2>5, <3>1, SeqEqual
  <2> QED BY <1>1, <1>2, <2>1, <2>2, <2>6, <2>7 DEF IsPrefix, Agree
<1>3. CASE ~(m <= Len(b))
  BY <1>1, <1>3 DEF IsPrefix
<1> QED BY <1>2, <1>3

LEMMA SegmentsType ==
    ASSUME NEW path \in Seq(STRING)
    PROVE  /\ Segments(path) \in PartLists /\ Len(Segments(path)) \in Nat \ {0}
           /\ \A p \in PartLists :
                 IsPrefix(Segments(path), p) <=>
                    /\ Len(Segments(path)) <= Len(p)
                    /\ Agree(Segments(path), p, Len(Segments(path)))
<1>1. Len(path) \in 0 .. Len(path)
  OBVIOUS
<1>2. PICK p : p = Segments(path)
  OBVIOUS
<1>3. p \in PartLists /\ Len(p) >= 1
  BY <1>1, <1>2, PartsType DEF Segments
<1>4. Len(p) \in Nat \ {0}
  <2>1. Len(p) \in Nat
    BY <1>3, PartListIs
  <2> QED BY <1>3, <2>1
<1>5. ASSUME NEW q \in PartLists
      PROVE  IsPrefix(p, q) <=> Len(p) <= Len(q) /\ Agree(p, q, Len(p))
  <2>1. PICK T : T = Seq(STRING)
    OBVIOUS
  <2>2. p \in Seq(T) /\ q \in Seq(T)
    BY <1>3, <2>1 DEF PartLists
  <2> QED BY <2>2, PrefixAgrees
<1> QED BY <1>2, <1>3, <1>4, <1>5

\* Paths that agree so far and of which the segments of one begin with those
\* of the other do not part in the next symbol.
LEMMA NoParting ==
    ASSUME NEW a \in Seq(STRING), NEW h \in Seq(STRING),
           IsPrefix(Segments(a), Segments(h)),
           NEW m \in 0 .. Len(a), m <= Len(h), Agree(a, h, m)
    PROVE  /\ m < Len(a) => m < Len(h) /\ a[m + 1] = h[m + 1]
           /\ m = Len(a) => m = Len(h) \/ h[m + 1] = "/"
<1>1. PICK p \in PartLists : p = Segments(a)
  BY SegmentsType
<1>2. PICK q \in PartLists : q = Segments(h)
  BY SegmentsType
<1>3. PICK r : r = Parts(a)[m]
  OBVIOUS
<1>4. r = Parts(h)[m]
  BY <1>3, PartsAlike DEF Agree
<1>5. r \in PartLists /\ Len(r) \in Nat \ {0}
  <2>1. r \in PartLists /\ Len(r) >= 1
    BY <1>3, PartsType
  <2>2. Len(r) \in Nat
    BY <2>1, PartListIs
  <2> QED BY <2>1, <2>2
<1>6. PICK k \in Nat \ {0} : k = Len(r)
  BY <1>5
<1>7. Len(p) \in Nat /\ Len(q) \in Nat /\ Len(p) <= Len(q) /\ Agree(p, q, Len(p))
  BY <1>1, <1>2, SegmentsType
<1>8. m < Len(a) => Continued(r, p, a[m + 1])
  BY <1>1, <1>3, NextSymbol
<1>9. m < Len(h) => Continued(r, q, h[m + 1])
  <2>1. m < Len(h) => m \in 0 .. Len(h) - 1
    OBVIOUS
  <2> QED BY <1>2, <1>4, <2>1, NextSymbol
<1>10. m = Len(a) => p = r
  BY <1>1, <1>3 DEF Segments
<1>11. m = Len(h) => q = r
  BY <1>2, <1>4 DEF Segments
<1>12. Len(p) >= k
  BY <1>6, <1>7, <1>8, <1>10 DEF Continued, Closed, GoneOn
<1>13. p[k] = q[k]
  <2>1. k \in 1 .. Len(p)
    BY <1>7, <1>12
  <2> QED BY <1>7, <2>1 DEF Agree
<1>14. \A c : ~Beyond(r[k], r[k], c)
  <2>1. PICK s \in Seq(STRING) : s = r[k]
    BY <1>5, <1>6, PartListIs
  <2>2. ~(Len(s) > Len(s))
    BY <2>1
  <2> QED BY <2>1, <2>2 DEF Beyond
<1>15. ASSUME NEW s, NEW c, Continued(r, s, c)
       PROVE  IF c = "/" THEN Len(s) > k /\ s[k] = r[k] ELSE Beyond(r[k], s[k], c)
  <2>1. k \in 1 .. Len(r)
    BY <1>6
  <2> QED BY <1>6, <1>15, <2>1 DEF Continued, Closed, GoneOn
<1>16. ASSUME m < Len(a) PROVE m < Len(h) /\ a[m + 1] = h[m + 1]
  <2>1. IF a[m + 1] = "/" THEN Len(p) > k /\ p[k] = r[k]
        ELSE Beyond(r[k], p[k], a[m + 1])
    BY <1>8, <1>15, <1>16
  <2>2. m # Len(h)
    <3> SUFFICES ASSUME m = Len(h) PROVE FALSE
      OBVIOUS
    <3>1. q = r
      BY <1>11
    <3>2. Len(q) = k
      BY <1>6, <3>1
    <3>3. ~(Len(p) > k)
      BY <1>7, <3>2
    <3>4. p[k] = r[k]
      BY <1>13, <3>1
    <3> QED BY <1>14, <2>1, <3>3, <3>4
  <2>3. m < Len(h)
    BY <2>2
  <2>4. IF h[m + 1] = "/" THEN Len(q) > k /\ q[k] = r[k]
        ELSE Beyond(r[k], q[k], h[m + 1])
    BY <1>9, <1>15, <2>3
  <2>5. a[m + 1] = h[m + 1]
    <3>1. CASE a[m + 1] = "/"
      BY <1>13, <1>14, <2>1, <2>4, <3>1
    <3>2. CASE h[m + 1] = "/"
      BY <1>13, <1>14, <2>1, <2>4, <3>2
    <3>3. CASE a[m + 1] # "/" /\ h[m + 1] # "/"
      BY <1>13, <2>1, <2>4, <3>3, Zenon DEF Beyond
    <3> QED BY <3>1, <3>2, <3>3
  <2> QED BY <2>3, <2>5
<1>17. ASSUME m = Len(a), m # Len(h) PROVE h[m + 1] = "/"
  <2>1. p = r /\ m < Len(h)
    BY <1>10, <1>17
  <2>2. IF h[m + 1] = "/" THEN Len(q) > k /\ q[k] = r[k]
        ELSE Beyond(r[k], q[k], h[m + 1])
    BY <1>9, <1>15, <2>1
  <2> QED BY <1>13, <1>14, <2>1, <2>2
<1> QED BY <1>16, <1>17

\* What segments say of paths.
LEMMA SegmentPrefix ==
    ASSUME NEW a \in Seq(STRING), NEW h \in Seq(STRING)
    PROVE  IsPrefix(Segments(a), Segments(h)) <=>
              /\ IsPrefix(a, h)
              /\ Len(h) = Len(a) \/ h[Len(a) + 1] = "/"
<1>1. PICK n \in Nat : n = Len(a)
  OBVIOUS
<1>2. ASSUME IsPrefix(Segments(a), Segments(h))
      PROVE  n <= Len(h) /\ Agree(a, h, n) /\ (Len(h) = n \/ h[n + 1] = "/")
  <2> DEFINE Apart == {i \in 1 .. n : i > Len(h) \/ a[i] # h[i]}
  <2>1. Apart = {}
    <3> SUFFICES ASSUME Apart # {} PROVE FALSE
      OBVIOUS
    <3>1. PICK i \in Apart : \A k \in Apart : i <= k
      <4>1. Apart \in SUBSET Nat
        OBVIOUS
      <4> HIDE DEF Apart
      <4> QED BY <4>1, HasLeast
    <3>2. PICK m \in 0 .. n : m = i - 1
      BY <3>1
    <3>3. \A k \in 1 .. m : k <= Len(h) /\ a[k] = h[k]
      <4> SUFFICES ASSUME NEW k \in 1 .. m PROVE k \notin Apart
        BY <3>2
      <4>1. ~(i <= k)
        BY <3>2
      <4> HIDE DEF Apart
      <4> QED BY <3>1, <4>1
    <3>4. m <= Len(h)
      <4>1. CASE m = 0
        BY <4>1
      <4>2. CASE m # 0
        <5>1. m \in 1 .. m
          BY <4>2
        <5> QED BY <3>3, <5>1
      <4> QED BY <4>1, <4>2
    <3>5. Agree(a, h, m)
      BY <3>3 DEF Agree
    <3>6. m < Len(a)
      BY <1>1, <3>2
    <3>7. m < Len(h) /\ a[m + 1] = h[m + 1]
      BY <1>1, <1>2, <3>4, <3>5, <3>6, NoParting
    <3>8. i = m + 1
      BY <3>2
    <3>9. ~(i > Len(h)) /\ a[i] = h[i]
      BY <3>7, <3>8
    <3> QED BY <3>1, <3>9
  <2>2. n <= Len(h)
    <3>1. CASE n = 0
      BY <3>1
    <3>2. CASE n # 0
      <4>1. n \in 1 .. n /\ n \notin Apart
        BY <2>1, <3>2
      <4> QED BY <4>1
    <3> QED BY <3>1, <3>2
  <2>3. Agree(a, h, n)
    <3> SUFFICES ASSUME NEW i \in 1 .. n PROVE a[i] = h[i]
      BY DEF Agree
    <3>1. i \notin Apart
      BY <2>1
    <3> QED BY <3>1
  <2>4. n \in 0 .. Len(a)
    BY <1>1
  <2>5. n = Len(h) \/ h[n + 1] = "/"
    BY <1>1, <1>2, <2>2, <2>3, <2>4, NoParting
  <2> QED BY <2>2, <2>3, <2>5
<1>3. ASSUME n <= Len(h), Agree(a, h, n), Len(h) = n \/ h[n + 1] = "/"
      PROVE  IsPrefix(Segments(a), Segments(h))
  <2>1. PICK p \in PartLists : p = Segments(a)
    BY SegmentsType
  <2>2. PICK q \in PartLists : q = Segments(h)
    BY SegmentsType
  <2>3. p = Parts(h)[n]
    BY <1>1, <1>3, <2>1, PartsAlike DEF Segments, Agree
  <2>4. Len(p) \in Nat
    BY PartListIs
  <2>5. Len(p) <= Len(q) /\ Agree(p, q, Len(p))
    <3>1. CASE Len(h) = n
      BY <2>2, <2>3, <2>4, <3>1 DEF Segments, Agree
    <3>2. CASE Len(h) # n
      <4>1. n \in 0 .. Len(h) - 1 /\ h[n + 1] = "/"
        BY <1>3, <3>2
      <4>2. Continued(p, q, "/")
        BY <2>2, <2>3, <4>1, NextSymbol
      <4>3. Len(q) > Len(p) /\ \A j \in 1 .. Len(p) : q[j] = p[j]
        BY <4>2 DEF Continued, Closed
      <4>4. Len(q) \in Nat
        BY PartListIs
      <4> QED BY <2>4, <4>3, <4>4 DEF Agree
    <3> QED BY <3>1, <3>2
  <2> QED BY <2>1, <2>2, <2>5, SegmentsType
<1>4. IsPrefix(a, h) <=> n <= Len(h) /\ Agree(a, h, n)
  BY <1>1, PrefixAgrees
<1> QED BY <1>1, <1>2, <1>3, <1>4

\* The last segment of a path that ends with a slash is empty, and of no
\* other that has several.
LEMMA EndsWithSlash ==
    ASSUME NEW b \in Seq(STRING), NEW n \in Nat, n = Len(b)
    PROVE  LET s == Segments(b)
           IN  /\ (Len(s) > 1 /\ Last(s) = <<>>) <=> (n > 0 /\ b[n] = "/")
               /\ n > 0 /\ b[n] = "/" => Front(s) = Segments(SubSeq(b, 1, n - 1))
<1>1. PICK s \in PartLists : s = Segments(b)
  BY SegmentsType
<1>2. CASE n = 0
  <2>1. s = <<<<>>>>
    BY <1>1, <1>2, PartsAre DEF Segments
  <2>2. Len(s) = 1
    BY <2>1, NoSymbols
  <2> QED BY <1>1, <1>2, <2>2
<1>3. CASE n > 0
  <2>1. n - 1 \in 0 .. Len(b) /\ n \in 1 .. Len(b) /\ b[n] \in STRING
    BY <1>3
  <2>2. PICK r : r = Parts(b)[n - 1]
    OBVIOUS
  <2>3. r \in PartLists /\ Len(r) >= 1
    BY <2>1, <2>2, PartsType
  <2>4. PICK k \in Nat \ {0} : k = Len(r)
    BY <2>3, PartListIs
  <2>5. s = Extended(r, b[n])
    BY <1>1, <2>1, <2>2, PartsAre DEF Segments
  <2>6. PICK a : a = SubSeq(b, 1, n - 1)
    OBVIOUS
  <2>7. /\ a \in Seq(STRING) /\ Len(a) = n - 1
        /\ \A i \in 1 .. n - 1 : a[i] = b[i]
    <3>1. \A i \in 1 .. n - 1 : b[i] \in STRING
      OBVIOUS
    <3>2. PICK T : T = STRING
      OBVIOUS
    <3>3. a \in Seq(T)
      BY <2>6, <3>1, <3>2, SubSeqProperties
    <3>4. Len(a) = IF 1 <= n - 1 THEN n - 1 - 1 + 1 ELSE 0
      BY <2>6, <3>1, <3>2, SubSeqProperties
    <3>5. \A i \in 1 .. n - 1 - 1 + 1 : a[i] = b[1 + i - 1]
      BY <2>6, <3>1, <3>2, SubSeqProperties
    <3>6. Len(a) = n - 1
      BY <1>3, <3>4
    <3>7. \A i \in 1 .. n - 1 : a[i] = b[i]
      BY <3>5
    <3> QED BY <3>2, <3>3, <3>6, <3>7
  <2>8. r = Segments(a)
    <3>1. n - 1 \in Nat /\ n - 1 <= Len(a) /\ n - 1 <= Len(b)
      BY <1>3, <2>7
    <3> QED BY <2>2, <2>7, <3>1, PartsAlike DEF Segments
  <2>9. CASE b[n] = "/"
    <3>1. Opened(r, s)
      BY <2>3, <2>5, <2>9, SlashOpens
    <3>2. Len(s) = k + 1 /\ s[k + 1] = <<>> /\ \A j \in 1 .. k : s[j] = r[j]
      BY <2>4, <3>1 DEF Opened
    <3>3. Len(s) > 1 /\ Last(s) = <<>>
      BY <3>2 DEF Last
    <3>4. Front(s) = r
      <4>1. Len(s) - 1 = k
        BY <3>2
      <4>2. PICK f : f = SubSeq(s, 1, k)
        OBVIOUS
      <4>3. PICK T : T = Seq(STRING)
        OBVIOUS
      <4>4. \A j \in 1 .. k : r[j] \in T
        BY <2>3, <2>4, <4>3, PartListIs
      <4>5. \A j \in 1 .. k : s[j] \in T
        BY <3>2, <4>4
      <4>6. f \in Seq(T) /\ Len(f) = k /\ \A j \in 1 .. k : f[j] = s[j]
        BY <4>2, <4>5, SubSeqProperties
      <4>7. r \in Seq(T)
        BY <2>3, <4>3 DEF PartLists
      <4>8. \A j \in 1 .. Len(f) : f[j] = r[j]
        BY <3>2, <4>6
      <4>9. f = r
        BY <2>4, <4>6, <4>7, <4>8, SeqEqual
      <4> QED BY <4>1, <4>2, <4>9 DEF Front
    <3> QED BY <1>1, <1>3, <2>6, <2>8, <2>9, <3>3, <3>4
  <2>10. CASE b[n] # "/"
    <3>1. Grown(r, s, b[n])
      BY <2>1, <2>3, <2>5, <2>10, SymbolGrows
    <3>2. PICK t \in Seq(STRING) : t = r[k]
      BY <2>3, <2>4, PartListIs
    <3>3. Len(s) = k /\ s[k] = Append(t, b[n])
      BY <2>4, <3>1, <3>2 DEF Grown
    <3>4. Append(t, b[n]) # <<>>
      BY <2>1, AppendProperties
    <3>5. Last(s) # <<>>
      BY <3>3, <3>4 DEF Last
    <3> QED BY <1>1, <2>10, <3>5
  <2> QED BY <2>9, <2>10
<1> QED BY <1>2, <1>3

\* A prefix that ends with a slash.
LEMMA SlashPrefix ==
    ASSUME NEW b \in Seq(STRING), NEW n \in Nat, n = Len(b), n > 0, b[n] = "/",
           NEW h \in Seq(STRING)
    PROVE  IsStrictPrefix(Front(Segments(b)), Segments(h)) <=> IsPrefix(b, h)
<1>1. PICK m \in Nat : m = n - 1
  OBVIOUS
<1>2. PICK a : a = SubSeq(b, 1, m)
  OBVIOUS
<1>3. /\ a \in Seq(STRING) /\ Len(a) = m
      /\ \A i \in 1 .. m : a[i] = b[i]
  <2>1. \A i \in 1 .. m : b[i] \in STRING
    BY <1>1
  <2>2. PICK T : T = STRING
    OBVIOUS
  <2> QED BY <1>2, <2>1, <2>2, SubSeqProperties
<1>4. Front(Segments(b)) = Segments(a)
  BY <1>1, <1>2, EndsWithSlash
<1>5. IsPrefix(Segments(a), Segments(h)) <=>
         IsPrefix(a, h) /\ (Len(h) = m \/ h[m + 1] = "/")
  BY <1>3, SegmentPrefix
<1>6. IsPrefix(a, h) <=> m <= Len(h) /\ Agree(b, h, m)
  <2>1. IsPrefix(a, h) <=> m <= Len(h) /\ Agree(a, h, m)
    BY <1>3, PrefixAgrees
  <2>2. Agree(a, h, m) <=> Agree(b, h, m)
    BY <1>3 DEF Agree
  <2> QED BY <2>1, <2>2
<1>7. IsPrefix(b, h) <=> n <= Len(h) /\ Agree(b, h, n)
  BY PrefixAgrees
<1>8. Agree(b, h, n) <=> Agree(b, h, m) /\ h[n] = "/"
  <2>1. \A i \in 1 .. n : i \in 1 .. m \/ i = n
    BY <1>1
  <2>2. n \in 1 .. n /\ \A i \in 1 .. m : i \in 1 .. n
    BY <1>1
  <2> QED BY <2>1, <2>2 DEF Agree
<1>9. ASSUME m <= Len(h), Agree(b, h, m)
      PROVE  Segments(a) = Segments(h) \/ Len(h) >= n
  <2> SUFFICES ASSUME ~(Len(h) >= n) PROVE Segments(a) = Segments(h)
    OBVIOUS
  <2>1. Len(h) = m
    BY <1>1, <1>9
  <2>2. \A i \in 1 .. m : a[i] = h[i]
    BY <1>3, <1>9 DEF Agree
  <2> QED BY <1>3, <2>1, <2>2, PartsAlike DEF Segments
<1>10. ASSUME n <= Len(h), Agree(b, h, n)
       PROVE  Segments(a) # Segments(h)
  <2>1. PICK r \in PartLists : r = Segments(a)
    BY <1>3, SegmentsType
  <2>2. r = Parts(h)[m]
    <3>1. \A i \in 1 .. m : a[i] = h[i]
      BY <1>1, <1>3, <1>10 DEF Agree
    <3>2. m <= Len(h)
      BY <1>1, <1>10
    <3> QED BY <1>3, <2>1, <3>1, <3>2, PartsAlike DEF Segments
  <2>3. m \in 0 .. Len(h) - 1 /\ h[m + 1] = "/"
    BY <1>1, <1>8, <1>10
  <2>4. Closed(r, Segments(h))
    BY <2>2, <2>3, NextSymbol DEF Continued
  <2>5. Len(r) \in Nat
    BY PartListIs
  <2>6. ~Closed(r, r)
    BY <2>5 DEF Closed
  <2> QED BY <2>1, <2>4, <2>6
<1>11. Len(h) \in Nat /\ m + 1 = n
  BY <1>1
<1>12. ASSUME IsPrefix(b, h) PROVE IsPrefix(a, h) /\ h[m + 1] = "/"
  <2>1. m <= Len(h)
    BY <1>7, <1>11, <1>12
  <2> QED BY <1>6, <1>7, <1>8, <1>11, <1>12, <2>1
<1>13. ASSUME IsPrefix(a, h), Len(h) = m \/ h[m + 1] = "/", Segments(a) # Segments(h)
       PROVE  IsPrefix(b, h)
  <2>1. Len(h) >= n
    BY <1>6, <1>9, <1>13
  <2>2. h[n] = "/"
    BY <1>11, <1>13, <2>1
  <2> QED BY <1>6, <1>7, <1>8, <1>11, <1>13, <2>1, <2>2
<1> QED BY <1>4, <1>5, <1>7, <1>10, <1>12, <1>13 DEF IsStrictPrefix

\* What precedes the query is a path.
LEMMA HeadType ==
    ASSUME NEW path \in Seq(STRING)
    PROVE  PathHead(path) \in Seq(STRING)
<1>1. PICK n \in Nat : n = Len(path)
  OBVIOUS
<1>2. PICK T : T = {i \in DOMAIN path : path[i] = "?"} \cup {n + 1}
  OBVIOUS
<1>3. T \in SUBSET Nat /\ T # {} /\ \A i \in T : i \in 1 .. n + 1
  BY <1>1, <1>2
<1>4. PICK m \in T : \A i \in T : m <= i
  BY <1>3, HasLeast
<1>5. Min(T) \in T
  BY <1>4 DEF Min
<1>b. PICK j \in 1 .. n + 1 : j = Min(T)
  BY <1>3, <1>5
<1>6. PICK k \in 0 .. n : k = Min(T) - 1
  BY <1>b
<1>7. PathHead(path) = SubSeq(path, 1, k)
  BY <1>1, <1>2, <1>6 DEF PathHead
<1>8. \A i \in 1 .. k : path[i] \in STRING
  BY <1>1
<1>9. PICK S : S = STRING
  OBVIOUS
<1>10. SubSeq(path, 1, k) \in Seq(S)
  BY <1>8, <1>9, SubSeqProperties
<1> QED BY <1>7, <1>9, <1>10

\* A prefix matches the paths under it (router.rs path_prefix_matches).
LEMMA MatchesWhatIsUnder ==
    ASSUME NEW prefix \in Seq(STRING), NEW path \in Seq(STRING)
    PROVE  PathPrefixMatches(prefix, path) <=> Under(path, prefix)
<1>1. PICK h \in Seq(STRING) : h = PathHead(path)
  BY HeadType
<1>2. PICK n \in Nat : n = Len(prefix)
  OBVIOUS
<1>3. PICK q : q = Segments(prefix)
  OBVIOUS
<1>4. PICK p : p = Segments(h)
  OBVIOUS
<1>5. CASE prefix = <<"/">>
  BY <1>5 DEF PathPrefixMatches, Under
<1>6. CASE prefix # <<"/">>
  <2>1. Under(path, prefix) <=>
           IF Len(q) > 1 /\ Last(q) = <<>>
           THEN IsStrictPrefix(Front(q), p) ELSE IsPrefix(q, p)
    BY <1>1, <1>3, <1>4, <1>6 DEF Under
  <2>2. PathPrefixMatches(prefix, path) <=>
           /\ IsPrefix(prefix, h)
           /\ Len(h) = n \/ h[n + 1] = "/" \/ (n > 0 /\ prefix[n] = "/")
    BY <1>1, <1>2, <1>6 DEF PathPrefixMatches
  <2>3. (Len(q) > 1 /\ Last(q) = <<>>) <=> (n > 0 /\ prefix[n] = "/")
    BY <1>2, <1>3, EndsWithSlash
  <2>4. CASE n > 0 /\ prefix[n] = "/"
    <3>1. IsStrictPrefix(Front(q), p) <=> IsPrefix(prefix, h)
      BY <1>2, <1>3, <1>4, <2>4, SlashPrefix
    <3> QED BY <2>1, <2>2, <2>3, <2>4, <3>1
  <2>5. CASE ~(n > 0 /\ prefix[n] = "/")
    <3>1. IsPrefix(q, p) <=> IsPrefix(prefix, h) /\ (Len(h) = n \/ h[n + 1] = "/")
      BY <1>2, <1>3, <1>4, SegmentPrefix
    <3> QED BY <2>1, <2>2, <2>3, <2>5, <3>1
  <2> QED BY <2>4, <2>5
<1> QED BY <1>5, <1>6

\* What route() returns for one request.
LEMMA RouteIsMostSpecific ==
    ASSUME routes \in Seq(Route), NEW req \in Requests
    PROVE  LET fits == {r \in ToSet(routes) :
                           r.host \in {NoHost, req.host} /\ Under(req.path, r.path_prefix)}
           IN  IF fits = {} THEN RouteFor(routes, req) = NoService
               ELSE \E r \in fits :
                       /\ RouteFor(routes, req) = r.service
                       /\ \A q \in fits : ~MoreSpecific(q, r)
<1> DEFINE fits == {r \in ToSet(routes) :
                       r.host \in {NoHost, req.host} /\ Under(req.path, r.path_prefix)}
<1>1. PICK n \in Nat : n = Len(routes)
  OBVIOUS
<1>2. DOMAIN routes = 1 .. n /\ \A i \in 1 .. n : routes[i] \in Route
  BY <1>1
<1>3. ASSUME NEW r \in Route
      PROVE  Matches(r, req) <=>
                r.host \in {NoHost, req.host} /\ Under(req.path, r.path_prefix)
  <2>1. r.path_prefix \in Seq(STRING) /\ req.path \in Seq(STRING)
    BY RouterAssumption DEF Route, Requests
  <2>2. PathPrefixMatches(r.path_prefix, req.path) <=> Under(req.path, r.path_prefix)
    BY <2>1, MatchesWhatIsUnder
  <2>3. (r.host # NoHost => req.host = r.host) <=> r.host \in {NoHost, req.host}
    OBVIOUS
  <2> QED BY <2>2, <2>3 DEF Matches
<1>4. \A i \in Fitting(routes, req) : i \in 1 .. n /\ routes[i] \in fits
  BY <1>2, <1>3 DEF Fitting, ToSet
<1>5. \A r \in fits : \E i \in Fitting(routes, req) : routes[i] = r
  <2> SUFFICES ASSUME NEW r \in fits
               PROVE  \E i \in Fitting(routes, req) : routes[i] = r
    OBVIOUS
  <2>1. PICK i \in DOMAIN routes : routes[i] = r
    BY DEF ToSet
  <2>2. Matches(routes[i], req)
    BY <1>2, <1>3, <2>1
  <2> QED BY <2>1, <2>2 DEF Fitting
<1> HIDE DEF fits
<1>6. CASE Fitting(routes, req) = {}
  <2>1. fits = {}
    BY <1>5, <1>6
  <2>2. RouteFor(routes, req) = NoService
    BY <1>6 DEF RouteFor, Fitting
  <2> QED BY <2>1, <2>2 DEF fits
<1>7. CASE Fitting(routes, req) # {}
  <2>1. Top(routes, req) # {} /\ Top(routes, req) \in SUBSET (1 .. n)
    BY <1>4, <1>7, SomeoneIsOnTop DEF Top
  <2>2. PICK a : a = Max(Top(routes, req))
    OBVIOUS
  <2>3. a \in Top(routes, req)
    BY <2>1, <2>2, MaxOfIndices
  <2>4. RouteFor(routes, req) = routes[a].service
    BY <1>7, <2>2, Zenon DEF RouteFor, Fitting, Top
  <2>5. routes[a] \in fits
    BY <1>4, <2>3 DEF Top
  <2>6. \A q \in fits : ~MoreSpecific(q, routes[a])
    BY <1>5, <2>3 DEF Top
  <2>7. fits # {} /\ \E r \in fits :
           RouteFor(routes, req) = r.service /\ \A q \in fits : ~MoreSpecific(q, r)
    BY <2>4, <2>5, <2>6
  <2> QED BY <2>7 DEF fits
<1> QED BY <1>6, <1>7

(***************************************************************************)
(* The most specific route wins, for tables of any length, prefixes of any *)
(* form and every request: matching by string comparison is matching of    *)
(* whole segments, and the route taken is one that fits and that none is   *)
(* more specific than (router.rs path_prefix_matches, route).              *)
(***************************************************************************)
THEOREM TheMostSpecificWins ==
    FrontSpec => []MostSpecificWins
<1>1. routes \in Seq(Route) => MostSpecificWins
  BY RouteIsMostSpecific DEF MostSpecificWins
<1> QED BY <1>1, TableType, PTL

-----------------------------------------------------------------------------
(***************************************************************************)
(* The parser.  What the loop over the lines has collected so far depends  *)
(* on what the lines say so far, not on how they end, and only grows; the  *)
(* blank line that ends the head moves only down.                          *)
(***************************************************************************)
HeaderSet == {line.header : line \in Lines}

\* f holds the headers up to each of the first m lines.
CollectsTo(f, s, m) ==
    f = [n \in 1 .. m |-> IF n = 1 THEN <<>>
                          ELSE IF s[n].empty THEN f[n - 1]
                          ELSE Append(f[n - 1], s[n].header)]

LEMMA CollectionsExist ==
    ASSUME NEW s, NEW m \in Nat
    PROVE  \E f : CollectsTo(f, s, m)
<1> DEFINE Bad == {n \in Nat : ~\E f : CollectsTo(f, s, n)}
<1> SUFFICES ASSUME Bad # {} PROVE FALSE
  OBVIOUS
<1>1. PICK n \in Bad : \A k \in Bad : n <= k
  <2>1. Bad \in SUBSET Nat
    OBVIOUS
  <2> HIDE DEF Bad
  <2> QED BY <2>1, HasLeast
<1>2. CASE n = 0
  <2>1. PICK g : g = [i \in 1 .. 0 |-> <<>>]
    OBVIOUS
  <2>2. CollectsTo(g, s, 0)
    BY <2>1 DEF CollectsTo
  <2> QED BY <1>2, <2>2
<1>3. CASE n # 0
  <2>1. n - 1 \in Nat /\ n - 1 \notin Bad
    BY <1>1, <1>3
  <2>2. PICK k \in Nat : k = n - 1
    BY <2>1
  <2>3. PICK f : CollectsTo(f, s, k)
    BY <2>1, <2>2
  <2>4. PICK d : d = IF n = 1 THEN <<>>
                     ELSE IF s[n].empty THEN f[k] ELSE Append(f[k], s[n].header)
    OBVIOUS
  <2>5. PICK g : g = [i \in 1 .. n |-> IF i = n THEN d ELSE f[i]]
    OBVIOUS
  <2>6. ASSUME NEW i \in 1 .. n
        PROVE  g[i] = IF i = 1 THEN <<>>
                      ELSE IF s[i].empty THEN g[i - 1]
                      ELSE Append(g[i - 1], s[i].header)
    <3>1. CASE i = n
      <4>1. i # 1 => i - 1 = k /\ k # n /\ k \in 1 .. n
        BY <1>3, <2>2, <3>1
      <4>2. g[i] = d /\ (i # 1 => g[i - 1] = f[k])
        BY <2>5, <3>1, <4>1
      <4> QED BY <2>4, <3>1, <4>1, <4>2
    <3>2. CASE i # n
      <4>1. i \in 1 .. k
        BY <2>2, <3>2
      <4>2. f[i] = IF i = 1 THEN <<>>
                   ELSE IF s[i].empty THEN f[i - 1]
                   ELSE Append(f[i - 1], s[i].header)
        BY <2>3, <4>1 DEF CollectsTo
      <4>3. i # 1 => i - 1 \in 1 .. n /\ i - 1 # n
        BY <4>1, <2>2
      <4>4. g[i] = f[i] /\ (i # 1 => g[i - 1] = f[i - 1])
        BY <2>5, <3>2, <4>3
      <4> QED BY <4>2, <4>4
    <3> QED BY <3>1, <3>2
  <2>7. g = [i \in 1 .. n |-> g[i]]
    BY <2>5
  <2>8. CollectsTo(g, s, n)
    BY <2>6, <2>7 DEF CollectsTo
  <2> QED BY <1>1, <2>8
<1> QED BY <1>2, <1>3

\* What its values are.
LEMMA CollectionIs ==
    ASSUME NEW s, Len(s) \in Nat, NEW n \in 1 .. Len(s)
    PROVE  HeadersUpTo(s)[n] =
              IF n = 1 THEN <<>>
              ELSE IF s[n].empty THEN HeadersUpTo(s)[n - 1]
              ELSE Append(HeadersUpTo(s)[n - 1], s[n].header)
<1>1. PICK f : f = HeadersUpTo(s)
  OBVIOUS
<1>2. PICK m \in Nat : m = Len(s)
  OBVIOUS
<1>3. CollectsTo(f, s, m)
  BY <1>1, <1>2, CollectionsExist DEF HeadersUpTo, CollectsTo
<1>4. f[n] = IF n = 1 THEN <<>>
             ELSE IF s[n].empty THEN f[n - 1]
             ELSE Append(f[n - 1], s[n].header)
  BY <1>2, <1>3 DEF CollectsTo
<1> QED BY <1>1, <1>4

\* Lines that say the same so far.
SaySame(s, t, m) ==
    \A i \in 1 .. m : s[i].empty = t[i].empty /\ s[i].header = t[i].header

LEMMA SameHeaders ==
    ASSUME NEW s, Len(s) \in Nat, NEW t, Len(t) \in Nat,
           NEW m \in Nat, m <= Len(s), m <= Len(t), SaySame(s, t, m), NEW j \in 1 .. m
    PROVE  HeadersUpTo(s)[j] = HeadersUpTo(t)[j]
<1> DEFINE Bad == {n \in 1 .. m : HeadersUpTo(s)[n] # HeadersUpTo(t)[n]}
<1> SUFFICES ASSUME Bad # {} PROVE FALSE
  OBVIOUS
<1>1. PICK n \in Bad : \A k \in Bad : n <= k
  <2>1. Bad \in SUBSET Nat
    OBVIOUS
  <2> HIDE DEF Bad
  <2> QED BY <2>1, HasLeast
<1>2. n \in 1 .. Len(s) /\ n \in 1 .. Len(t)
  OBVIOUS
<1>3. PICK a : a = HeadersUpTo(s)
  OBVIOUS
<1>4. PICK b : b = HeadersUpTo(t)
  OBVIOUS
<1>5. a[n] = IF n = 1 THEN <<>>
             ELSE IF s[n].empty THEN a[n - 1] ELSE Append(a[n - 1], s[n].header)
  BY <1>2, <1>3, CollectionIs
<1>6. b[n] = IF n = 1 THEN <<>>
             ELSE IF t[n].empty THEN b[n - 1] ELSE Append(b[n - 1], t[n].header)
  BY <1>2, <1>4, CollectionIs
<1>7. n # 1 => a[n - 1] = b[n - 1]
  <2> SUFFICES ASSUME n # 1 PROVE a[n - 1] = b[n - 1]
    OBVIOUS
  <2>1. n - 1 \in 1 .. m /\ ~(n <= n - 1)
    OBVIOUS
  <2>2. n - 1 \notin Bad
    <3> HIDE DEF Bad
    <3> QED BY <1>1, <2>1
  <2> QED BY <1>3, <1>4, <2>1, <2>2
<1>8. s[n].empty = t[n].empty /\ s[n].header = t[n].header
  BY DEF SaySame
<1>9. a[n] = b[n]
  BY <1>5, <1>6, <1>7, <1>8, Zenon
<1> QED BY <1>3, <1>4, <1>9

LEMMA HeadersType ==
    ASSUME NEW s \in Seq(Lines), NEW m \in 1 .. Len(s)
    PROVE  HeadersUpTo(s)[m] \in Seq(HeaderSet)
<1> DEFINE Bad == {n \in 1 .. Len(s) : HeadersUpTo(s)[n] \notin Seq(HeaderSet)}
<1> SUFFICES ASSUME Bad # {} PROVE FALSE
  OBVIOUS
<1>1. PICK n \in Bad : \A k \in Bad : n <= k
  <2>1. Bad \in SUBSET Nat
    OBVIOUS
  <2> HIDE DEF Bad
  <2> QED BY <2>1, HasLeast
<1>2. PICK a : a = HeadersUpTo(s)
  OBVIOUS
<1>3. a[n] = IF n = 1 THEN <<>>
             ELSE IF s[n].empty THEN a[n - 1] ELSE Append(a[n - 1], s[n].header)
  <2>1. n \in 1 .. Len(s) /\ Len(s) \in Nat
    OBVIOUS
  <2> QED BY <1>2, <2>1, CollectionIs
<1>4. a[n] \notin Seq(HeaderSet)
  BY <1>2
<1>5. n # 1
  BY <1>3, <1>4, EmptySeq
<1>6. a[n - 1] \in Seq(HeaderSet)
  <2>1. n - 1 \in 1 .. Len(s) /\ ~(n <= n - 1)
    BY <1>5
  <2>2. n - 1 \notin Bad
    <3> HIDE DEF Bad
    <3> QED BY <1>1, <2>1
  <2> QED BY <1>2, <2>1, <2>2
<1>7. PICK h \in HeaderSet : h = s[n].header
  <2>1. s[n] \in Lines
    OBVIOUS
  <2> QED BY <2>1 DEF HeaderSet
<1>8. Append(a[n - 1], h) \in Seq(HeaderSet)
  BY <1>6, AppendProperties
<1> QED BY <1>3, <1>4, <1>5, <1>6, <1>7, <1>8

Begins(p, q) == Len(p) <= Len(q) /\ Agree(p, q, Len(p))

LEMMA HeadersGrow ==
    ASSUME NEW s \in Seq(Lines), NEW k \in 1 .. Len(s), NEW m \in k .. Len(s)
    PROVE  Begins(HeadersUpTo(s)[k], HeadersUpTo(s)[m])
<1>1. PICK a : a = HeadersUpTo(s)
  OBVIOUS
<1>2. PICK p \in Seq(HeaderSet) : p = a[k]
  BY <1>1, HeadersType
<1> DEFINE Bad == {n \in k .. Len(s) : ~Begins(p, a[n])}
<1> SUFFICES ASSUME Bad # {} PROVE FALSE
  BY <1>1, <1>2
<1>3. PICK n \in Bad : \A i \in Bad : n <= i
  <2>1. Bad \in SUBSET Nat
    OBVIOUS
  <2> HIDE DEF Bad
  <2> QED BY <2>1, HasLeast
<1>4. n # k
  <2>1. Begins(p, p)
    BY DEF Begins, Agree
  <2> QED BY <1>2, <2>1
<1>5. n - 1 \in k .. Len(s) /\ n \in 1 .. Len(s) /\ n # 1 /\ n - 1 \in 1 .. Len(s)
  BY <1>4
<1>6. Begins(p, a[n - 1])
  <2>1. ~(n <= n - 1)
    BY <1>5
  <2>2. n - 1 \notin Bad
    <3> HIDE DEF Bad
    <3> QED BY <1>3, <2>1
  <2> QED BY <1>5, <2>2
<1>7. PICK q \in Seq(HeaderSet) : q = a[n - 1]
  BY <1>1, <1>5, HeadersType
<1>8. PICK h \in HeaderSet : h = s[n].header
  <2>1. s[n] \in Lines
    BY <1>5
  <2> QED BY <2>1 DEF HeaderSet
<1>9. a[n] = q \/ a[n] = Append(q, h)
  <2>1. Len(s) \in Nat
    OBVIOUS
  <2>2. a[n] = IF n = 1 THEN <<>>
               ELSE IF s[n].empty THEN a[n - 1] ELSE Append(a[n - 1], s[n].header)
    BY <1>1, <1>5, <2>1, CollectionIs
  <2> QED BY <1>5, <1>7, <1>8, <2>2
<1>10. Begins(p, Append(q, h))
  <2>1. PICK u : u = Append(q, h)
    OBVIOUS
  <2>2. Len(u) = Len(q) + 1 /\ \A i \in 1 .. Len(q) : u[i] = q[i]
    BY <2>1, AppendProperties
  <2>3. PICK i \in Nat : i = Len(p)
    OBVIOUS
  <2>4. PICK j \in Nat : j = Len(q)
    OBVIOUS
  <2>5. i <= j /\ \A e \in 1 .. i : p[e] = q[e]
    BY <1>6, <1>7, <2>3, <2>4 DEF Begins, Agree
  <2>6. \A e \in 1 .. i : p[e] = u[e]
    <3>1. \A e \in 1 .. i : e \in 1 .. j
      BY <2>5
    <3> QED BY <2>2, <2>4, <2>5, <3>1
  <2>7. i <= Len(u)
    BY <2>2, <2>4, <2>5
  <2> QED BY <2>1, <2>3, <2>6, <2>7 DEF Begins, Agree
<1> QED BY <1>6, <1>7, <1>9, <1>10

-----------------------------------------------------------------------------
\* What a line is.
LEMMA LineIs ==
    ASSUME NEW line \in Lines
    PROVE  /\ line = [words |-> line.words, header |-> line.header,
                      empty |-> line.empty, ending |-> line.ending]
           /\ line.ending \in {"CRLF", "LF"} /\ line.empty \in BOOLEAN
<1>1. PICK e \in {"CRLF", "LF"} :
         line = EmptyLine(e) \/ line = Line(line.words, line.header, e)
  BY FrontEndAssumption
<1>2. CASE line = EmptyLine(e)
  BY <1>1, <1>2 DEF EmptyLine
<1>3. CASE line = Line(line.words, line.header, e)
  <2>1. PICK w : w = line.words
    OBVIOUS
  <2>2. PICK h : h = line.header
    OBVIOUS
  <2>3. line = [words |-> w, header |-> h, empty |-> FALSE, ending |-> e]
    BY <1>3, <2>1, <2>2 DEF Line
  <2>4. line.ending = e /\ line.empty = FALSE
    BY <2>3
  <2> QED BY <1>1, <2>1, <2>2, <2>3, <2>4
<1> QED BY <1>1, <1>2, <1>3

\* Where the head ends.
LEMMA MinOfIndices ==
    ASSUME NEW T \in SUBSET Nat, T # {}
    PROVE  Min(T) \in T /\ \A j \in T : Min(T) <= j
<1>1. PICK i \in T : \A j \in T : i <= j
  BY HasLeast
<1> QED BY <1>1 DEF Min

LEMMA SameMin ==
    ASSUME NEW S \in SUBSET Nat, S # {}, NEW T \in SUBSET Nat, S \subseteq T,
           NEW n \in Nat, \A i \in S : i <= n, \A i \in T \ S : i > n
    PROVE  Min(T) = Min(S)
<1>1. PICK a \in Nat : a = Min(S) /\ a \in S /\ \A j \in S : a <= j
  BY MinOfIndices
<1>2. PICK b \in Nat : b = Min(T) /\ b \in T /\ \A j \in T : b <= j
  <2>1. T # {}
    OBVIOUS
  <2> QED BY <2>1, MinOfIndices
<1>3. b <= a
  BY <1>1, <1>2
<1>4. b \in S
  <2>1. a <= n
    BY <1>1
  <2> QED BY <1>2, <1>3, <2>1
<1> QED BY <1>1, <1>2, <1>3, <1>4

LEMMA BlankRange ==
    ASSUME NEW s, NEW n \in Nat, n = Len(s)
    PROVE  /\ CrLfBlanks(s) \in SUBSET (2 .. n) /\ LfBlanks(s) \in SUBSET (2 .. n)
           /\ CrLfBlanks(s) # {} => Blank(s) = Min(CrLfBlanks(s))
           /\ CrLfBlanks(s) = {} /\ LfBlanks(s) # {} => Blank(s) = Min(LfBlanks(s))
           /\ CrLfBlanks(s) = {} /\ LfBlanks(s) = {} => Blank(s) = n + 1
<1>1. CrLfBlanks(s) \in SUBSET (2 .. n) /\ LfBlanks(s) \in SUBSET (2 .. n)
  BY DEF CrLfBlanks, LfBlanks
<1> QED BY <1>1 DEF Blank

LEMMA BlankType ==
    ASSUME NEW s, NEW n \in Nat \ {0}, n = Len(s)
    PROVE  Blank(s) \in 2 .. n + 1
<1>2. PICK C : C = CrLfBlanks(s)
  OBVIOUS
<1>3. PICK L : L = LfBlanks(s)
  OBVIOUS
<1>4. C \in SUBSET (2 .. n) /\ L \in SUBSET (2 .. n)
  BY <1>2, <1>3, BlankRange
<1>5. C \in SUBSET Nat /\ L \in SUBSET Nat
  BY <1>4
<1>6. CASE C # {}
  BY <1>2, <1>4, <1>5, <1>6, BlankRange, MinOfIndices
<1>7. CASE C = {} /\ L # {}
  BY <1>2, <1>3, <1>4, <1>5, <1>7, BlankRange, MinOfIndices
<1>8. CASE C = {} /\ L = {}
  <2>1. Blank(s) = n + 1
    BY <1>2, <1>3, <1>8, BlankRange
  <2> QED BY <2>1
<1> QED BY <1>6, <1>7, <1>8

\* The request that is parsed if nothing is wrong.
Message(s) ==
    [method  |-> s[1].words[1],
     path    |-> s[1].words[2],
     version |-> IF Len(s[1].words) > 2 THEN s[1].words[3] ELSE "HTTP/1.1",
     headers |-> Headers(s),
     body    |-> Body(s)]

NoWords(s) == s = <<>> \/ s[1].words = <<>>

OneWord(s) == ~NoWords(s) /\ Len(s[1].words) = 1

BadHeader(s) == \E i \in DOMAIN Headers(s) : Headers(s)[i] = <<>>

\* The outcomes of parse(), one by one.
LEMMA ParseIs ==
    ASSUME NEW s
    PROVE  /\ NoWords(s) => Parse(s) = Failed("Empty")
           /\ OneWord(s) => Parse(s) = Failed("MalformedRequestLine")
           /\ ~NoWords(s) /\ ~OneWord(s) =>
                 Parse(s) = IF BadHeader(s) THEN Failed("MalformedHeader") ELSE Message(s)
<1>1. PICK w : w = s[1].words
  OBVIOUS
<1>2. w = <<>> => Len(w) # 1
  OBVIOUS
<1>3. PICK m : m = Message(s)
  OBVIOUS
<1>4. Parse(s) = CASE s = <<>> \/ w = <<>> -> Failed("Empty")
                   [] s # <<>> /\ Len(w) = 1 -> Failed("MalformedRequestLine")
                   [] OTHER -> IF BadHeader(s) THEN Failed("MalformedHeader") ELSE m
  BY <1>1, <1>3 DEF Parse, Message, BadHeader
<1>5. NoWords(s) <=> s = <<>> \/ w = <<>>
  BY <1>1 DEF NoWords
<1>6. OneWord(s) <=> ~(s = <<>> \/ w = <<>>) /\ Len(w) = 1
  BY <1>1, <1>5 DEF OneWord
<1>7. CASE NoWords(s)
  BY <1>2, <1>4, <1>5, <1>6, <1>7
<1>8. CASE OneWord(s)
  BY <1>2, <1>4, <1>5, <1>6, <1>8
<1>9. CASE ~NoWords(s) /\ ~OneWord(s)
  BY <1>3, <1>4, <1>5, <1>6, <1>9
<1> QED BY <1>7, <1>8, <1>9

LEMMA WhatIsARequest ==
    /\ \A e : ~IsRequest(Failed(e))
    /\ \A s : IsRequest(Message(s))
BY DEF IsRequest, Failed, Message

LEMMA RequestIs ==
    ASSUME NEW s, IsRequest(Parse(s))
    PROVE  Parse(s) = Message(s) /\ ~NoWords(s) /\ ~OneWord(s) /\ ~BadHeader(s)
BY ParseIs, WhatIsARequest

\* A line more.
Further(S, T, n) == S \subseteq T /\ \A i \in T \ S : i > n

LEMMA OneLineMore ==
    ASSUME NEW s \in Seq(Lines), NEW line \in Lines, NEW t, t = Append(s, line),
           NEW n \in Nat, n = Len(s)
    PROVE  /\ t \in Seq(Lines) /\ Len(t) = n + 1 /\ t # <<>>
           /\ \A i \in 1 .. n : t[i] = s[i]
           /\ Further(CrLfBlanks(s), CrLfBlanks(t), n)
           /\ Further(LfBlanks(s), LfBlanks(t), n)
<1>1. /\ t \in Seq(Lines) /\ Len(t) = n + 1 /\ t # <<>>
      /\ \A i \in 1 .. n : t[i] = s[i]
  BY AppendProperties
<1>2. \A i \in 2 .. n : i \in 2 .. n + 1 /\ t[i] = s[i] /\ t[i - 1] = s[i - 1]
  <2> SUFFICES ASSUME NEW i \in 2 .. n
               PROVE  i \in 2 .. n + 1 /\ t[i] = s[i] /\ t[i - 1] = s[i - 1]
    OBVIOUS
  <2>1. i \in 1 .. n /\ i - 1 \in 1 .. n
    OBVIOUS
  <2> QED BY <1>1, <2>1
<1>3. \A i \in 2 .. n + 1 : i \in 2 .. n \/ i > n
  OBVIOUS
<1>4. Further(CrLfBlanks(s), CrLfBlanks(t), n)
  BY <1>1, <1>2, <1>3 DEF Further, CrLfBlanks
<1>5. Further(LfBlanks(s), LfBlanks(t), n)
  BY <1>1, <1>2, <1>3 DEF Further, LfBlanks
<1> QED BY <1>1, <1>4, <1>5

LEMMA FurtherMin ==
    ASSUME NEW n \in Nat, NEW S \in SUBSET (2 .. n), S # {},
           NEW T \in SUBSET (2 .. n + 1), Further(S, T, n)
    PROVE  Min(T) = Min(S) /\ Min(S) \in 2 .. n
<1>1. S \in SUBSET Nat /\ T \in SUBSET Nat /\ \A i \in S : i <= n
  OBVIOUS
<1>2. Min(T) = Min(S)
  BY <1>1, SameMin DEF Further
<1>3. Min(S) \in S
  BY <1>1, MinOfIndices
<1> QED BY <1>2, <1>3

\* A line more does not move the end of the head up, and one that does not
\* break the seal does not move it at all.
LEMMA BlankMoves ==
    ASSUME NEW s \in Seq(Lines), s # <<>>, NEW line \in Lines,
           NEW t, t = Append(s, line)
    PROVE  /\ Blank(s) <= Blank(t)
           /\ CrLfBlanks(s) # {} \/ (LfBlanks(s) # {} /\ CrLfBlanks(t) = {}) =>
                 Blank(t) = Blank(s) /\ Blank(s) \in 2 .. Len(s)
<1>1. PICK n \in Nat \ {0} : n = Len(s)
  BY EmptySeq
<1>2. PICK C \in SUBSET (2 .. n) : C = CrLfBlanks(s)
  BY <1>1, BlankRange
<1>3. PICK L \in SUBSET (2 .. n) : L = LfBlanks(s)
  BY <1>1, BlankRange
<1>4. PICK k \in Nat : k = n + 1 /\ k = Len(t) /\ t \in Seq(Lines)
  BY <1>1, OneLineMore
<1>5. PICK D \in SUBSET (2 .. k) : D = CrLfBlanks(t)
  BY <1>4, BlankRange
<1>6. PICK M \in SUBSET (2 .. k) : M = LfBlanks(t)
  BY <1>4, BlankRange
<1>7. Further(C, D, n) /\ Further(L, M, n)
  BY <1>1, <1>2, <1>3, <1>5, <1>6, OneLineMore
<1>8. /\ C # {} => Blank(s) = Min(C)
      /\ C = {} /\ L # {} => Blank(s) = Min(L)
      /\ C = {} /\ L = {} => Blank(s) = n + 1
  BY <1>1, <1>2, <1>3, BlankRange
<1>9. /\ D # {} => Blank(t) = Min(D)
      /\ D = {} /\ M # {} => Blank(t) = Min(M)
      /\ D = {} /\ M = {} => Blank(t) = k + 1
  BY <1>4, <1>5, <1>6, BlankRange
<1>10. D \in SUBSET (2 .. n + 1) /\ M \in SUBSET (2 .. n + 1)
  BY <1>4
<1>11. ASSUME NEW T \in SUBSET (2 .. k), T # {}, \A i \in T : i > n
       PROVE  Min(T) \in Nat /\ Min(T) > n
  <2>1. T \in SUBSET Nat
    OBVIOUS
  <2>2. Min(T) \in T
    BY <1>11, <2>1, MinOfIndices
  <2> QED BY <1>11, <2>1, <2>2
<1>12. CASE C # {}
  <2>1. D # {}
    BY <1>7, <1>12 DEF Further
  <2>2. Min(D) = Min(C) /\ Min(C) \in 2 .. n
    BY <1>7, <1>10, <1>12, FurtherMin
  <2> QED BY <1>1, <1>8, <1>9, <1>12, <2>1, <2>2
<1>13. CASE C = {} /\ L # {} /\ D = {}
  <2>1. M # {}
    BY <1>7, <1>13 DEF Further
  <2>2. Min(M) = Min(L) /\ Min(L) \in 2 .. n
    BY <1>7, <1>10, <1>13, FurtherMin
  <2> QED BY <1>1, <1>8, <1>9, <1>13, <2>1, <2>2
<1>14. CASE C = {} /\ L # {} /\ D # {}
  <2>1. Min(L) \in 2 .. n
    BY <1>7, <1>10, <1>14, FurtherMin
  <2>2. Min(D) \in Nat /\ Min(D) > n
    BY <1>7, <1>11, <1>14 DEF Further
  <2>3. Blank(s) <= Blank(t)
    BY <1>8, <1>9, <1>14, <2>1, <2>2
  <2> QED BY <1>2, <1>5, <1>14, <2>3
<1>15. CASE C = {} /\ L = {}
  <2>1. (D # {} => Min(D) \in Nat /\ Min(D) > n) /\ (M # {} => Min(M) \in Nat /\ Min(M) > n)
    BY <1>7, <1>11, <1>15 DEF Further
  <2>2. PICK b : b = Blank(t)
    OBVIOUS
  <2>3. b \in Nat /\ b > n
    BY <1>4, <1>9, <2>1, <2>2
  <2>4. n + 1 <= b
    BY <2>3
  <2> QED BY <1>2, <1>3, <1>8, <1>15, <2>2, <2>4
<1> QED BY <1>12, <1>13, <1>14, <1>15

\* A text that differs in its body.
LEMMA OtherBody ==
    ASSUME NEW s, NEW t, t[1].words = s[1].words, Headers(t) = Headers(s)
    PROVE  Message(t) = [Message(s) EXCEPT !.body = Body(t)] /\ Message(s).body = Body(s)
<1>1. PICK b : b = Body(s)
  OBVIOUS
<1>2. PICK c : c = Body(t)
  OBVIOUS
<1>3. PICK h : h = Headers(s)
  OBVIOUS
<1>4. PICK w : w = s[1].words
  OBVIOUS
<1>5. PICK v : v = IF Len(w) > 2 THEN w[3] ELSE "HTTP/1.1"
  OBVIOUS
<1>6. PICK m : m = w[1]
  OBVIOUS
<1>7. PICK p : p = w[2]
  OBVIOUS
<1>8. Message(s) = [method |-> m, path |-> p, version |-> v, headers |-> h, body |-> b]
  BY <1>1, <1>3, <1>4, <1>5, <1>6, <1>7 DEF Message
<1>9. Message(t) = [method |-> m, path |-> p, version |-> v, headers |-> h, body |-> c]
  BY <1>2, <1>3, <1>4, <1>5, <1>6, <1>7 DEF Message
<1>10. Message(s).body = b
  BY <1>8
<1>11. Message(t) = [Message(s) EXCEPT !.body = c]
  BY <1>8, <1>9
<1> QED BY <1>1, <1>2, <1>10, <1>11

LEMMA SameStart ==
    ASSUME NEW s, NEW t, s # <<>>, t # <<>>, s[1].words = t[1].words
    PROVE  /\ NoWords(s) <=> NoWords(t)
           /\ OneWord(s) <=> OneWord(t)
BY DEF NoWords, OneWord

\* What follows place b of a sequence.
LEMMA TailIs ==
    ASSUME NEW T, NEW s \in Seq(T), NEW n \in Nat, n = Len(s), NEW b \in Nat, b <= n
    PROVE  LET p == SubSeq(s, b + 1, n)
           IN  p \in Seq(T) /\ Len(p) = n - b /\ \A i \in 1 .. n - b : p[i] = s[b + i]
<1>1. PICK c \in Nat : c = b + 1
  OBVIOUS
<1>2. PICK p : p = SubSeq(s, c, n)
  OBVIOUS
<1>3. \A i \in c .. n : s[i] \in T
  BY <1>1
<1>4. p \in Seq(T)
  BY <1>2, <1>3, SubSeqProperties
<1>5. Len(p) = IF c <= n THEN n - c + 1 ELSE 0
  BY <1>2, <1>3, SubSeqProperties
<1>6. \A i \in 1 .. n - c + 1 : p[i] = s[c + i - 1]
  BY <1>2, <1>3, SubSeqProperties
<1>7. Len(p) = n - b
  BY <1>1, <1>5
<1>8. ASSUME NEW i \in 1 .. n - b PROVE p[i] = s[b + i]
  <2>1. i \in 1 .. n - c + 1 /\ c + i - 1 = b + i
    BY <1>1
  <2> QED BY <1>6, <2>1
<1> QED BY <1>1, <1>2, <1>4, <1>7, <1>8

\* A sequence longer by one.
LEMMA TailGrows ==
    ASSUME NEW T, NEW s \in Seq(T), NEW t \in Seq(T), NEW n \in Nat, n = Len(s),
           Len(t) = n + 1, \A i \in 1 .. n : t[i] = s[i], NEW b \in Nat, b <= n
    PROVE  SubSeq(t, b + 1, n + 1) = Append(SubSeq(s, b + 1, n), t[n + 1])
<1>1. PICK p : p = SubSeq(s, b + 1, n)
  OBVIOUS
<1>2. PICK q : q = SubSeq(t, b + 1, n + 1)
  OBVIOUS
<1>3. p \in Seq(T) /\ Len(p) = n - b /\ \A i \in 1 .. n - b : p[i] = s[b + i]
  BY <1>1, TailIs
<1>4. PICK k \in Nat : k = n + 1
  OBVIOUS
<1>5. q \in Seq(T) /\ Len(q) = k - b /\ \A i \in 1 .. k - b : q[i] = t[b + i]
  BY <1>2, <1>4, TailIs
<1>6. PICK x \in T : x = t[n + 1]
  OBVIOUS
<1>7. PICK u : u = Append(p, x)
  OBVIOUS
<1>8. /\ u \in Seq(T) /\ Len(u) = n - b + 1 /\ u[n - b + 1] = x
      /\ \A i \in 1 .. n - b : u[i] = p[i]
  BY <1>3, <1>7, AppendProperties
<1>9. ASSUME NEW i \in 1 .. n - b + 1 PROVE u[i] = q[i]
  <2>0. i \in 1 .. k - b
    BY <1>4
  <2>1. CASE i = n - b + 1
    <3>1. b + i = n + 1
      BY <2>1
    <3> QED BY <1>5, <1>6, <1>8, <2>0, <2>1, <3>1
  <2>2. CASE i # n - b + 1
    <3>1. i \in 1 .. n - b /\ b + i \in 1 .. n
      BY <2>2
    <3>2. t[b + i] = s[b + i]
      BY <3>1
    <3> QED BY <1>3, <1>5, <1>8, <2>0, <3>1, <3>2
  <2> QED BY <2>1, <2>2
<1>10. u = q
  <2>1. Len(u) = Len(q)
    BY <1>4, <1>5, <1>8
  <2>2. \A i \in 1 .. Len(u) : u[i] = q[i]
    BY <1>8, <1>9
  <2> QED BY <1>5, <1>8, <2>1, <2>2, SeqEqual
<1> QED BY <1>1, <1>2, <1>6, <1>7, <1>10

\* A line after the blank line goes to the body.
LEMMA LineToBody ==
    ASSUME NEW s \in Seq(Lines), NEW line, NEW t \in Seq(Lines),
           Len(t) = Len(s) + 1, \A i \in 1 .. Len(s) : t[i] = s[i],
           t[Len(s) + 1] = line, Blank(t) = Blank(s), Blank(s) \in 2 .. Len(s)
    PROVE  Body(t) = Append(Body(s), line) /\ Headers(t) = Headers(s)
<1>1. PICK n \in Nat : n = Len(s)
  OBVIOUS
<1>2. PICK b \in 2 .. n : b = Blank(s) /\ b = Blank(t)
  BY <1>1
<1>3. Len(t) = n + 1 /\ \A i \in 1 .. n : t[i] = s[i]
  BY <1>1
<1>4. t[n + 1] = line
  BY <1>1
<1>5. Body(t) = Append(Body(s), line)
  <2>1. b \in Nat /\ b <= n /\ t \in Seq(Lines) /\ Len(t) = n + 1
    BY <1>3
  <2>2. SubSeq(t, b + 1, n + 1) = Append(SubSeq(s, b + 1, n), t[n + 1])
    <3>1. \A i \in 1 .. n : t[i] = s[i]
      BY <1>3
    <3>2. n = Len(s)
      BY <1>1
    <3> QED BY <2>1, <3>1, <3>2, TailGrows, SMTT(60)
  <2> QED BY <1>1, <1>2, <1>3, <1>4, <2>2 DEF Body
<1>6. Headers(t) = Headers(s)
  <2>1. PICK k \in 1 .. n : k = b - 1
    BY <1>2
  <2>2. SaySame(t, s, n)
    BY <1>3 DEF SaySame
  <2>3. n <= Len(t) /\ n <= Len(s) /\ Len(t) \in Nat /\ Len(s) \in Nat
    BY <1>1, <1>3
  <2>4. HeadersUpTo(t)[k] = HeadersUpTo(s)[k]
    BY <2>2, <2>3, SameHeaders
  <2> QED BY <1>2, <2>1, <2>4 DEF Headers
<1> QED BY <1>5, <1>6

LEMMA LineToBodyParses ==
    ASSUME NEW s \in Seq(Lines), s # <<>>, NEW line \in Lines,
           NEW t, t = Append(s, line),
           Blank(t) = Blank(s), Blank(s) \in 2 .. Len(s)
    PROVE  Parse(t) = IF IsRequest(Parse(s))
                      THEN [Parse(s) EXCEPT !.body = Append(@, line)] ELSE Parse(s)
<1>1. t # <<>> /\ t[1] = s[1]
  <2>1. PICK n \in Nat \ {0} : n = Len(s)
    BY EmptySeq
  <2>2. 1 \in 1 .. n
    BY <2>1
  <2> QED BY <2>1, <2>2, OneLineMore
<1>2. (NoWords(s) <=> NoWords(t)) /\ (OneWord(s) <=> OneWord(t))
  BY <1>1, SameStart
<1>3. Body(t) = Append(Body(s), line) /\ Headers(t) = Headers(s)
  <2>1. t[Len(s) + 1] = line
    BY AppendProperties
  <2>2. /\ t \in Seq(Lines) /\ Len(t) = Len(s) + 1
        /\ \A i \in 1 .. Len(s) : t[i] = s[i]
    <3>1. PICK n \in Nat : n = Len(s)
      OBVIOUS
    <3> QED BY <3>1, OneLineMore
  <2> QED BY <2>1, <2>2, LineToBody, ZenonT(60)
<1>4. BadHeader(s) <=> BadHeader(t)
  BY <1>3 DEF BadHeader
<1>5. Message(t) = [Message(s) EXCEPT !.body = Append(@, line)]
  <2>1. Message(t) = [Message(s) EXCEPT !.body = Body(t)] /\ Message(s).body = Body(s)
    BY <1>1, <1>3, OtherBody
  <2> QED BY <1>3, <2>1
<1>6. CASE IsRequest(Parse(s))
  <2>1. Parse(s) = Message(s) /\ ~NoWords(s) /\ ~OneWord(s) /\ ~BadHeader(s)
    BY <1>6, RequestIs
  <2>2. Parse(t) = Message(t)
    BY <1>2, <1>4, <2>1, ParseIs
  <2> QED BY <1>5, <1>6, <2>1, <2>2
<1>7. CASE ~IsRequest(Parse(s))
  <2>1. ~(~NoWords(s) /\ ~OneWord(s) /\ ~BadHeader(s))
    BY <1>7, ParseIs, WhatIsARequest
  <2>2. Parse(t) = Parse(s)
    BY <1>2, <1>4, <2>1, ParseIs
  <2> QED BY <1>7, <2>2
<1> QED BY <1>6, <1>7

-----------------------------------------------------------------------------
\* The same text with other endings: t is s with every line ended by e.
Relined(t, s, n, e) ==
    /\ \E T : t \in Seq(T)
    /\ Len(t) = n
    /\ \A i \in 1 .. n : /\ t[i].words = s[i].words
                         /\ t[i].header = s[i].header
                         /\ t[i].empty = s[i].empty
                         /\ t[i].ending = e

LEMMA EndedLineIs ==
    ASSUME NEW line \in Lines, NEW e, NEW x, x = [line EXCEPT !.ending = e]
    PROVE  /\ x.words = line.words /\ x.header = line.header
           /\ x.empty = line.empty /\ x.ending = e
<1>1. PICK w : w = line.words
  OBVIOUS
<1>2. PICK h : h = line.header
  OBVIOUS
<1>3. PICK m : m = line.empty
  OBVIOUS
<1>4. line = [words |-> w, header |-> h, empty |-> m, ending |-> line.ending]
  BY <1>1, <1>2, <1>3, LineIs
<1>5. x = [words |-> w, header |-> h, empty |-> m, ending |-> e]
  BY <1>4
<1> QED BY <1>1, <1>2, <1>3, <1>5

EndedBy(line, e) == [line EXCEPT !.ending = e]

LEMMA EndedTwiceIs ==
    ASSUME NEW line \in Lines, NEW e, NEW f
    PROVE  [EndedBy(line, e) EXCEPT !.ending = f] = EndedBy(line, f)
<1>1. PICK w : w = line.words
  OBVIOUS
<1>2. PICK h : h = line.header
  OBVIOUS
<1>3. PICK m : m = line.empty
  OBVIOUS
<1>4. PICK d : d = line.ending
  OBVIOUS
<1>5. line = [words |-> w, header |-> h, empty |-> m, ending |-> d]
  BY <1>1, <1>2, <1>3, <1>4, LineIs
<1>6. [line EXCEPT !.ending = e] = [words |-> w, header |-> h, empty |-> m, ending |-> e]
  BY <1>5
<1>7. [line EXCEPT !.ending = f] = [words |-> w, header |-> h, empty |-> m, ending |-> f]
  BY <1>5
<1> QED BY <1>6, <1>7 DEF EndedBy

LEMMA EndedValues ==
    ASSUME NEW s \in Seq(Lines), NEW n \in Nat, n = Len(s), NEW e,
           NEW a, a = Ended(s, e), NEW i \in 1 .. n
    PROVE  a[i] = EndedBy(s[i], e)
<1>1. DOMAIN s = 1 .. n
  OBVIOUS
<1>2. a = [j \in 1 .. n |-> EndedBy(s[j], e)]
  BY <1>1 DEF Ended, EndedBy
<1> QED BY <1>2

LEMMA EndedIs ==
    ASSUME NEW s \in Seq(Lines), NEW n \in Nat, n = Len(s), NEW e
    PROVE  Relined(Ended(s, e), s, n, e)
<1>1. PICK a : a = Ended(s, e)
  OBVIOUS
<1>2. DOMAIN s = 1 .. n
  OBVIOUS
<1>3. a = [i \in 1 .. n |-> [s[i] EXCEPT !.ending = e]]
  BY <1>1, <1>2 DEF Ended
<1>4. PICK T : T = {a[i] : i \in 1 .. n}
  OBVIOUS
<1>5. DOMAIN a = 1 .. n
  BY <1>3
<1>6. a \in [1 .. n -> T]
  BY <1>3, <1>4
<1>7. a \in Seq(T)
  BY <1>6, SeqDef
<1>8. Len(a) = n
  BY <1>5, <1>7, LenProperties
<1>9. ASSUME NEW i \in 1 .. n
      PROVE  /\ a[i].words = s[i].words /\ a[i].header = s[i].header
             /\ a[i].empty = s[i].empty /\ a[i].ending = e
  <2>1. PICK line \in Lines : line = s[i]
    OBVIOUS
  <2>2. PICK x : x = a[i]
    OBVIOUS
  <2>3. x = [line EXCEPT !.ending = e]
    BY <1>3, <2>1, <2>2
  <2>4. x.words = line.words /\ x.header = line.header /\ x.empty = line.empty /\ x.ending = e
    BY <2>3, EndedLineIs
  <2> QED BY <2>1, <2>2, <2>4
<1> QED BY <1>1, <1>7, <1>8, <1>9 DEF Relined

\* Where the head of a text with one kind of endings ends.
LEMMA EndedBlank ==
    ASSUME NEW s, NEW n \in Nat, NEW a, NEW b,
           Relined(a, s, n, "LF"), Relined(b, s, n, "CRLF")
    PROVE  Blank(a) = Blank(b)
<1> DEFINE E == {i \in 2 .. n : s[i].empty}
<1>1. Len(a) = n /\ Len(b) = n
  BY DEF Relined
<1>2. \A i \in 1 .. n : a[i].empty = s[i].empty /\ a[i].ending = "LF"
  BY DEF Relined
<1>3. \A i \in 1 .. n : b[i].empty = s[i].empty /\ b[i].ending = "CRLF"
  BY DEF Relined
<1>4. \A i \in 2 .. n : i \in 1 .. n /\ i - 1 \in 1 .. n
  OBVIOUS
<1>5. "LF" # "CRLF"
  OBVIOUS
<1>6. CrLfBlanks(a) = {}
  <2> SUFFICES ASSUME NEW i \in CrLfBlanks(a) PROVE FALSE
    OBVIOUS
  <2>1. i \in 2 .. n /\ a[i].ending = "CRLF"
    BY <1>1 DEF CrLfBlanks
  <2> QED BY <1>2, <1>4, <1>5, <2>1
<1>7. LfBlanks(b) = {}
  <2> SUFFICES ASSUME NEW i \in LfBlanks(b) PROVE FALSE
    OBVIOUS
  <2>1. i \in 2 .. n /\ b[i].ending = "LF"
    BY <1>1 DEF LfBlanks
  <2> QED BY <1>3, <1>4, <1>5, <2>1
<1>8. LfBlanks(a) = E
  <2>1. ASSUME NEW i \in 2 .. n
        PROVE  (a[i].empty /\ a[i].ending = "LF") <=> s[i].empty
    BY <1>2, <1>4, Zenon
  <2>2. LfBlanks(a) = {i \in 2 .. n : a[i].empty /\ a[i].ending = "LF"}
    BY <1>1 DEF LfBlanks
  <2> QED BY <2>1, <2>2, Zenon
<1>9. CrLfBlanks(b) = E
  <2>1. ASSUME NEW i \in 2 .. n
        PROVE  (b[i].empty /\ b[i].ending = "CRLF" /\ b[i - 1].ending = "CRLF")
                  <=> s[i].empty
    BY <1>3, <1>4, Zenon
  <2>2. CrLfBlanks(b) = {i \in 2 .. n : b[i].empty /\ b[i].ending = "CRLF"
                                        /\ b[i - 1].ending = "CRLF"}
    BY <1>1 DEF CrLfBlanks
  <2> QED BY <2>1, <2>2, Zenon
<1>10. CASE E = {}
  <2>1. Blank(a) = n + 1 /\ Blank(b) = n + 1
    BY <1>1, <1>6, <1>7, <1>8, <1>9, <1>10, BlankRange
  <2> QED BY <2>1
<1>11. CASE E # {}
  <2>1. PICK M : M = E
    OBVIOUS
  <2>2. Blank(a) = Min(M)
    BY <1>1, <1>6, <1>8, <1>11, <2>1, BlankRange
  <2>3. Blank(b) = Min(M)
    BY <1>1, <1>9, <1>11, <2>1, BlankRange
  <2> QED BY <2>2, <2>3
<1> QED BY <1>10, <1>11

LEMMA EndedBody ==
    ASSUME NEW n \in Nat, NEW S, NEW a \in Seq(S), NEW T, NEW b \in Seq(T),
           Len(a) = n, Len(b) = n,
           \A i \in 1 .. n : [a[i] EXCEPT !.ending = "CRLF"] = b[i],
           NEW m \in 2 .. n + 1, Blank(a) = m, Blank(b) = m
    PROVE  Body(b) = Ended(Body(a), "CRLF")
<1>5. PICK p : p = SubSeq(a, m + 1, n)
  OBVIOUS
<1>6. PICK q : q = SubSeq(b, m + 1, n)
  OBVIOUS
<1>7. CASE m = n + 1
  <2>1. PICK e : e = <<>>
    OBVIOUS
  <2>2. p = e /\ q = e
    BY <1>5, <1>6, <1>7, <2>1, SubSeqEmpty
  <2>3. DOMAIN e = {} /\ e = [i \in {} |-> [e[i] EXCEPT !.ending = "CRLF"]]
    BY <2>1
  <2>4. Ended(e, "CRLF") = e
    BY <2>3 DEF Ended
  <2> QED BY <1>5, <1>6, <2>2, <2>4 DEF Body
<1>8. CASE m # n + 1
  <2>1. PICK k \in Nat : k = n - m
    BY <1>8
  <2>2. m \in Nat /\ m <= n
    BY <1>8
  <2>3. p \in Seq(S) /\ Len(p) = k /\ \A i \in 1 .. k : p[i] = a[m + i]
    <3>1. p \in Seq(S) /\ Len(p) = n - m /\ \A i \in 1 .. n - m : p[i] = a[m + i]
      BY <1>5, <2>2, TailIs
    <3> QED BY <2>1, <3>1
  <2>4. q \in Seq(T) /\ Len(q) = k /\ \A i \in 1 .. k : q[i] = b[m + i]
    <3>1. q \in Seq(T) /\ Len(q) = n - m /\ \A i \in 1 .. n - m : q[i] = b[m + i]
      BY <1>6, <2>2, TailIs
    <3> QED BY <2>1, <3>1
  <2>5. DOMAIN p = 1 .. k
    BY <2>3, LenProperties
  <2>6. ASSUME NEW i \in 1 .. k PROVE [p[i] EXCEPT !.ending = "CRLF"] = q[i]
    <3>1. m + i \in 1 .. n
      BY <2>1
    <3> QED BY <2>3, <2>4, <3>1
  <2>7. Ended(p, "CRLF") = [i \in 1 .. k |-> q[i]]
    BY <2>5, <2>6 DEF Ended
  <2>8. q = [i \in 1 .. k |-> q[i]]
    BY <2>4, LenProperties
  <2> QED BY <1>5, <1>6, <2>7, <2>8 DEF Body
<1> QED BY <1>7, <1>8

\* Line endings alike, for one text.
LEMMA EndedAlike ==
    ASSUME NEW n \in Nat, NEW S, NEW a \in Seq(S), NEW T, NEW b \in Seq(T),
           Len(a) = n, Len(b) = n, NEW s,
           Relined(a, s, n, "LF"), Relined(b, s, n, "CRLF"),
           \A i \in 1 .. n : [a[i] EXCEPT !.ending = "CRLF"] = b[i]
    PROVE  Parse(b) = IF IsRequest(Parse(a))
                      THEN [Parse(a) EXCEPT !.body = Ended(@, "CRLF")] ELSE Parse(a)
<1>2. PICK m : m = Blank(a) /\ m = Blank(b)
  BY EndedBlank
<1>4. \A i \in 1 .. n : /\ a[i].words = b[i].words /\ a[i].header = b[i].header
                        /\ a[i].empty = b[i].empty
  BY DEF Relined
<1>5. CASE n = 0
  <2>1. a = <<>> /\ b = <<>>
    BY <1>5, EmptySeq
  <2>2. Parse(a) = Failed("Empty") /\ Parse(b) = Failed("Empty")
    BY <2>1, ParseIs DEF NoWords
  <2> QED BY <2>2, WhatIsARequest
<1>6. CASE n # 0
  <2>1. n \in Nat \ {0}
    BY <1>6
  <2>2. a # <<>> /\ b # <<>> /\ 1 \in 1 .. n
    BY <2>1, EmptySeq
  <2>3. (NoWords(a) <=> NoWords(b)) /\ (OneWord(a) <=> OneWord(b))
    BY <1>4, <2>2, SameStart
  <2>4. m \in 2 .. n + 1
    BY <1>2, <2>1, BlankType
  <2>5. Headers(b) = Headers(a)
    <3>1. PICK k \in 1 .. n : k = m - 1
      BY <2>4
    <3>2. SaySame(a, b, n)
      BY <1>4 DEF SaySame
    <3>3. n <= Len(a) /\ n <= Len(b) /\ Len(a) \in Nat /\ Len(b) \in Nat
      OBVIOUS
    <3>4. HeadersUpTo(a)[k] = HeadersUpTo(b)[k]
      BY <3>2, <3>3, SameHeaders
    <3> QED BY <1>2, <3>1, <3>4 DEF Headers
  <2>6. BadHeader(a) <=> BadHeader(b)
    BY <2>5 DEF BadHeader
  <2>7. Body(b) = Ended(Body(a), "CRLF")
    BY <1>2, <2>4, EndedBody
  <2>8. Message(b) = [Message(a) EXCEPT !.body = Ended(@, "CRLF")]
    <3>1. b[1].words = a[1].words
      BY <1>4, <2>2
    <3>2. Message(b) = [Message(a) EXCEPT !.body = Body(b)] /\ Message(a).body = Body(a)
      BY <2>5, <3>1, OtherBody
    <3> QED BY <2>7, <3>2
  <2>9. CASE IsRequest(Parse(a))
    <3>1. Parse(a) = Message(a) /\ ~NoWords(a) /\ ~OneWord(a) /\ ~BadHeader(a)
      BY <2>9, RequestIs
    <3>2. Parse(b) = Message(b)
      BY <2>3, <2>6, <3>1, ParseIs
    <3> QED BY <2>8, <2>9, <3>1, <3>2
  <2>10. CASE ~IsRequest(Parse(a))
    <3>1. ~(~NoWords(a) /\ ~OneWord(a) /\ ~BadHeader(a))
      BY <2>10, ParseIs, WhatIsARequest
    <3>2. Parse(b) = Parse(a)
      BY <2>3, <2>6, <3>1, ParseIs
    <3> QED BY <2>10, <3>2
  <2> QED BY <2>9, <2>10
<1> QED BY <1>5, <1>6

-----------------------------------------------------------------------------
TextType == text \in Seq(Lines)

\* The text is a sequence of lines (http.rs parse takes any).
LEMMA TextIsLines ==
    FrontSpec => []TextType
<1>1. FrontInit => TextType
  BY EmptySeq DEF FrontInit, TextType
<1>2. TextType /\ [AddRoute \/ Receive]_frontVars => TextType'
  <2> SUFFICES ASSUME TextType, [AddRoute \/ Receive]_frontVars PROVE TextType'
    OBVIOUS
  <2>1. text' = text \/ \E line \in Lines : text' = Append(text, line)
    BY DEF AddRoute, Receive, frontVars
  <2> QED BY <2>1, AppendProperties DEF TextType
<1> QED BY <1>1, <1>2, PTL DEF FrontSpec

(***************************************************************************)
(* Line endings do not matter, for texts of any length over lines of any   *)
(* contents: "\n\n" ends the head of a text of "\n" lines where "\r\n\r\n" *)
(* ends that of "\r\n" lines, and nothing else of parse() looks at endings *)
(* (http.rs parse).                                                        *)
(***************************************************************************)
THEOREM EndingsDoNotMatter ==
    FrontSpec => []EndingsAreAlike
<1>1. TextType => EndingsAreAlike
  <2> SUFFICES ASSUME TextType PROVE EndingsAreAlike
    OBVIOUS
  <2>1. PICK s \in Seq(Lines) : s = text
    BY DEF TextType
  <2>2. PICK n \in Nat : n = Len(s)
    OBVIOUS
  <2>3. PICK a : a = Ended(s, "LF")
    OBVIOUS
  <2>4. PICK b : b = Ended(s, "CRLF")
    OBVIOUS
  <2>5. Relined(a, s, n, "LF")
    BY <2>2, <2>3, EndedIs
  <2>6. Relined(b, s, n, "CRLF")
    BY <2>2, <2>4, EndedIs
  <2>7. PICK S : a \in Seq(S)
    BY <2>5 DEF Relined
  <2>8. PICK T : b \in Seq(T)
    BY <2>6 DEF Relined
  <2>9. Len(a) = n /\ Len(b) = n
    BY <2>5, <2>6 DEF Relined
  <2>10. ASSUME NEW i \in 1 .. n PROVE [a[i] EXCEPT !.ending = "CRLF"] = b[i]
    <3>1. PICK line \in Lines : line = s[i]
      BY <2>2
    <3>2. a[i] = EndedBy(s[i], "LF")
      BY <2>2, <2>3, EndedValues
    <3>3. b[i] = EndedBy(s[i], "CRLF")
      BY <2>2, <2>4, EndedValues
    <3> QED BY <3>1, <3>2, <3>3, EndedTwiceIs
  <2>11. Parse(b) = IF IsRequest(Parse(a))
                    THEN [Parse(a) EXCEPT !.body = Ended(@, "CRLF")] ELSE Parse(a)
    BY <2>5, <2>6, <2>7, <2>8, <2>9, <2>10, EndedAlike
  <2> QED BY <2>1, <2>3, <2>4, <2>11 DEF EndingsAreAlike
<1> QED BY <1>1, TextIsLines, PTL

(***************************************************************************)
(* What follows the blank line goes to the body and nowhere else, for      *)
(* texts of any length: a later blank line does not become the first one   *)
(* of its kind (http.rs parse).                                            *)
(***************************************************************************)
THEOREM BodiesAreOpaque ==
    FrontSpec => BodyIsOpaque
<1>1. TextType /\ [AddRoute \/ Receive]_frontVars =>
         [\A line \in Lines :
            text' = Append(text, line) /\ Sealed(line) =>
               Parsed' = IF IsRequest(Parsed)
                         THEN [Parsed EXCEPT !.body = Append(@, line)] ELSE Parsed]_frontVars
  <2> SUFFICES ASSUME TextType, NEW line \in Lines,
                      text' = Append(text, line), Sealed(line)
               PROVE  Parsed' = IF IsRequest(Parsed)
                                THEN [Parsed EXCEPT !.body = Append(@, line)] ELSE Parsed
    OBVIOUS
  <2>1. PICK s \in Seq(Lines) : s = text
    BY DEF TextType
  <2>2. PICK t : t = text'
    OBVIOUS
  <2>3. t = Append(s, line)
    BY <2>1, <2>2
  <2>4. CrLfBlanks(s) # {} \/ (LfBlanks(s) # {} /\ CrLfBlanks(t) = {})
    BY <2>1, <2>2 DEF Sealed
  <2>5. s # <<>>
    <3>1. PICK n \in Nat : n = Len(s)
      OBVIOUS
    <3>2. CrLfBlanks(s) \in SUBSET (2 .. n) /\ LfBlanks(s) \in SUBSET (2 .. n)
      BY <3>1, BlankRange
    <3>3. 2 .. 0 = {}
      OBVIOUS
    <3>4. n # 0
      BY <2>4, <3>2, <3>3
    <3> QED BY <3>1, <3>4
  <2>6. Blank(t) = Blank(s) /\ Blank(s) \in 2 .. Len(s)
    BY <2>3, <2>4, <2>5, BlankMoves
  <2>7. Parse(t) = IF IsRequest(Parse(s))
                   THEN [Parse(s) EXCEPT !.body = Append(@, line)] ELSE Parse(s)
    BY <2>3, <2>5, <2>6, LineToBodyParses
  <2>8. Parsed = Parse(s) /\ Parsed' = Parse(t)
    BY <2>1, <2>2 DEF Parsed
  <2> QED BY <2>7, <2>8
<1> QED BY <1>1, TextIsLines, PTL DEF FrontSpec, BodyIsOpaque

-----------------------------------------------------------------------------
\* Headers that are added change no answer that is there already.
MoreHeaders(r, u) ==
    /\ r.headers \in Seq(HeaderSet) /\ u.headers \in Seq(HeaderSet)
    /\ Begins(r.headers, u.headers)

LEMMA FirstCounts ==
    ASSUME NEW r, NEW u, MoreHeaders(r, u), NEW name, Called(r, name) # {}
    PROVE  Header(u, name) = Header(r, name)
<1> PICK p \in Seq(HeaderSet) : p = r.headers
  BY DEF MoreHeaders
<1> PICK q \in Seq(HeaderSet) : q = u.headers
  BY DEF MoreHeaders
<1>0. Begins(p, q)
  BY DEF MoreHeaders
<1>1. PICK n \in Nat : n = Len(p)
  OBVIOUS
<1>2. PICK m \in Nat : m = Len(q)
  OBVIOUS
<1>3. n <= m /\ \A i \in 1 .. n : p[i] = q[i]
  BY <1>0, <1>1, <1>2 DEF Begins, Agree
<1>4. PICK C : C = Called(r, name)
  OBVIOUS
<1>5. PICK D : D = Called(u, name)
  OBVIOUS
<1>6. PICK c : c = LowerCase[name]
  OBVIOUS
<1>7. DOMAIN p = 1 .. n /\ DOMAIN q = 1 .. m
  BY <1>1, <1>2, LenProperties
<1>8. C = {i \in 1 .. n : LowerCase[p[i][1]] = c}
  BY <1>4, <1>6, <1>7 DEF Called
<1>9. D = {i \in 1 .. m : LowerCase[q[i][1]] = c}
  BY <1>5, <1>6, <1>7 DEF Called
<1>10. C \subseteq D /\ C \in SUBSET Nat /\ D \in SUBSET Nat
  BY <1>3, <1>8, <1>9
<1>11. ASSUME NEW i \in D \ C PROVE i > n
  BY <1>3, <1>8, <1>9
<1>12. C # {} /\ D # {} /\ \A i \in C : i <= n
  BY <1>4, <1>8, <1>10
<1>13. PICK k : k = Min(C)
  OBVIOUS
<1>14. k \in C
  BY <1>10, <1>12, <1>13, MinOfIndices
<1>15. Min(D) = k
  BY <1>10, <1>11, <1>12, <1>13, SameMin
<1>16. p[k] = q[k]
  BY <1>3, <1>8, <1>14
<1>17. Header(r, name) = p[k][2]
  BY <1>4, <1>12, <1>13 DEF Header
<1>18. Header(u, name) = q[k][2]
  BY <1>5, <1>12, <1>15 DEF Header
<1> QED BY <1>16, <1>17, <1>18

LEMMA HeadersAre ==
    ASSUME NEW s \in Seq(Lines), s # <<>>
    PROVE  Headers(s) \in Seq(HeaderSet)
<1>1. PICK n \in Nat \ {0} : n = Len(s)
  BY EmptySeq
<1>2. PICK k \in 1 .. n : k = Blank(s) - 1
  <2>1. PICK b \in 2 .. n + 1 : b = Blank(s)
    BY <1>1, BlankType
  <2> QED BY <2>1
<1>3. HeadersUpTo(s)[k] \in Seq(HeaderSet)
  BY <1>1, HeadersType
<1> QED BY <1>2, <1>3 DEF Headers

\* A line more takes no header away.
LEMMA LineMoreHeaders ==
    ASSUME NEW s \in Seq(Lines), s # <<>>, NEW line \in Lines,
           NEW t, t = Append(s, line)
    PROVE  Begins(Headers(s), Headers(t))
<1>1. PICK n \in Nat \ {0} : n = Len(s)
  BY EmptySeq
<1>2. PICK m \in Nat \ {0} : m = n + 1
  BY <1>1
<1>3. t \in Seq(Lines) /\ Len(t) = m /\ \A i \in 1 .. n : t[i] = s[i]
  BY <1>1, <1>2, OneLineMore
<1>4. PICK b \in 2 .. n + 1 : b = Blank(s)
  BY <1>1, BlankType
<1>5. PICK c \in 2 .. m + 1 : c = Blank(t)
  BY <1>3, BlankType
<1>6. b <= c
  BY <1>4, <1>5, BlankMoves
<1>7. PICK k \in 1 .. n : k = b - 1
  OBVIOUS
<1>8. PICK j \in 1 .. m : j = c - 1
  OBVIOUS
<1>9. j \in k .. m /\ k \in 1 .. m
  BY <1>2, <1>6, <1>7, <1>8
<1>10. HeadersUpTo(s)[k] = HeadersUpTo(t)[k]
  <2>1. SaySame(s, t, n)
    BY <1>3 DEF SaySame
  <2>2. n <= Len(s) /\ n <= Len(t) /\ Len(s) \in Nat /\ Len(t) \in Nat
    BY <1>1, <1>2, <1>3
  <2> QED BY <2>1, <2>2, SameHeaders
<1>11. Begins(HeadersUpTo(t)[k], HeadersUpTo(t)[j])
  BY <1>3, <1>9, HeadersGrow
<1>12. Headers(s) = HeadersUpTo(s)[k] /\ Headers(t) = HeadersUpTo(t)[j]
  BY <1>4, <1>5, <1>7, <1>8 DEF Headers
<1> QED BY <1>10, <1>11, <1>12

LEMMA ErrorsStay ==
    ASSUME NEW s \in Seq(Lines), s # <<>>, NEW line \in Lines,
           NEW t, t = Append(s, line), t # <<>>, t[1] = s[1], ~IsRequest(Parse(s))
    PROVE  Parse(t) = Parse(s)
<1>1. (NoWords(s) <=> NoWords(t)) /\ (OneWord(s) <=> OneWord(t))
  BY SameStart
<1>2. BadHeader(s) => BadHeader(t)
  <2>1. PICK p \in Seq(HeaderSet) : p = Headers(s)
    BY HeadersAre
  <2>2. PICK q \in Seq(HeaderSet) : q = Headers(t)
    BY HeadersAre, AppendProperties
  <2>3. Begins(p, q)
    BY <2>1, <2>2, LineMoreHeaders
  <2>4. DOMAIN p = 1 .. Len(p) /\ DOMAIN q = 1 .. Len(q) /\ Len(p) \in Nat /\ Len(q) \in Nat
    BY LenProperties
  <2>5. \A i \in DOMAIN p : i \in DOMAIN q /\ p[i] = q[i]
    BY <2>3, <2>4 DEF Begins, Agree
  <2> QED BY <2>1, <2>2, <2>5 DEF BadHeader
<1>3. ~(~NoWords(s) /\ ~OneWord(s) /\ ~BadHeader(s))
  BY ParseIs, WhatIsARequest
<1> QED BY <1>1, <1>2, <1>3, ParseIs

\* Routing looks at host and path.
LEMMA RoutesAlike ==
    ASSUME NEW rs, NEW r, NEW s, r.host = s.host, r.path = s.path
    PROVE  RouteFor(rs, r) = RouteFor(rs, s)
<1>1. \A x : Matches(x, r) <=> Matches(x, s)
  BY DEF Matches
<1> QED BY <1>1 DEF RouteFor

LEMMA FirstDecides ==
    ASSUME NEW s \in Seq(Lines), s # <<>>, NEW line \in Lines,
           NEW t, t = Append(s, line), t # <<>>, t[1] = s[1],
           IsRequest(Parse(s)), IsRequest(Parse(t)), NEW rs
    PROVE  LET r == Request(Parse(s))
               u == Request(Parse(t))
           IN  /\ r.host # NoHost => RouteFor(rs, u) = RouteFor(rs, r)
               /\ r.session # NoValue => u.session = r.session
<1>1. PICK v : v = Parse(s)
  OBVIOUS
<1>2. PICK w : w = Parse(t)
  OBVIOUS
<1>3. v = Message(s) /\ w = Message(t)
  BY <1>1, <1>2, RequestIs
<1>4. v.path = w.path
  BY <1>3 DEF Message
<1>5. PICK p \in Seq(HeaderSet) : p = Headers(s)
  BY HeadersAre
<1>6. PICK q \in Seq(HeaderSet) : q = Headers(t)
  BY HeadersAre, AppendProperties
<1>7. v.headers = p /\ w.headers = q
  BY <1>3, <1>5, <1>6 DEF Message
<1>8. Begins(p, q)
  BY <1>5, <1>6, LineMoreHeaders
<1>9. ASSUME NEW name, Header(v, name) # NoValue
      PROVE  Header(w, name) = Header(v, name)
  <2>1. Called(v, name) # {}
    BY <1>9 DEF Header
  <2>2. MoreHeaders(v, w)
    BY <1>7, <1>8 DEF MoreHeaders
  <2> QED BY <2>1, <2>2, FirstCounts
<1>10. PICK r : r = Request(v)
  OBVIOUS
<1>11. PICK u : u = Request(w)
  OBVIOUS
<1>12. r.path = u.path
  BY <1>4, <1>10, <1>11 DEF Request
<1>13. r.session = Header(v, StickyHeader) /\ u.session = Header(w, StickyHeader)
  BY <1>10, <1>11 DEF Request
<1>14. /\ r.host = IF Header(v, "Host") = NoValue THEN NoHost ELSE Header(v, "Host")
       /\ u.host = IF Header(w, "Host") = NoValue THEN NoHost ELSE Header(w, "Host")
  BY <1>10, <1>11 DEF Request
<1>15. r.session # NoValue => u.session = r.session
  BY <1>9, <1>13
<1>16. r.host # NoHost => u.host = r.host
  BY <1>9, <1>14
<1>17. r.host # NoHost => RouteFor(rs, u) = RouteFor(rs, r)
  BY <1>12, <1>16, RoutesAlike
<1> QED BY <1>1, <1>2, <1>10, <1>11, <1>15, <1>17

(***************************************************************************)
(* The first of several headers decides, and errors stay, for texts, names *)
(* and tables of any size: a line more can move the end of the head down,  *)
(* never up, so what parse() has collected is only added to, and header()  *)
(* takes the first (http.rs header, parse, router.rs route).               *)
(***************************************************************************)
THEOREM FirstHeadersStand ==
    FrontSpec => FirstHeadersDecide
<1> DEFINE Step ==
      LET r == Request(Parsed)
          s == Request(Parsed')
      IN  /\ IsRequest(Parsed) /\ IsRequest(Parsed') =>
                 /\ r.host # NoHost => RouteFor(routes, s) = RouteFor(routes, r)
                 /\ r.session # NoValue => s.session = r.session
          /\ ~IsRequest(Parsed) /\ text # <<>> => Parsed' = Parsed
<1>1. TextType /\ [AddRoute \/ Receive]_frontVars => [Step]_frontVars
  <2> SUFFICES ASSUME TextType, AddRoute \/ Receive PROVE Step
    OBVIOUS
  <2>1. PICK s \in Seq(Lines) : s = text
    BY DEF TextType
  <2>2. PICK t : t = text'
    OBVIOUS
  <2>3. Parsed = Parse(s) /\ Parsed' = Parse(t)
    BY <2>1, <2>2 DEF Parsed
  <2>4. PICK rs : rs = routes
    OBVIOUS
  <2>5. CASE AddRoute
    <3>1. t = s
      BY <2>1, <2>2, <2>5 DEF AddRoute
    <3> QED BY <2>3, <3>1
  <2>6. CASE Receive
    <3>1. PICK line \in Lines : t = Append(s, line)
      BY <2>1, <2>2, <2>6 DEF Receive
    <3>2. CASE s = <<>>
      <4>1. ~IsRequest(Parse(s))
        BY <3>2, ParseIs, WhatIsARequest DEF NoWords
      <4> QED BY <2>1, <2>3, <3>2, <4>1
    <3>3. CASE s # <<>>
      <4>1. t # <<>> /\ t[1] = s[1]
        <5>1. PICK n \in Nat \ {0} : n = Len(s)
          BY <3>3, EmptySeq
        <5>2. 1 \in 1 .. n
          BY <5>1
        <5> QED BY <3>1, <5>1, <5>2, OneLineMore
      <4>2. ~IsRequest(Parse(s)) => Parse(t) = Parse(s)
        BY <3>1, <3>3, <4>1, ErrorsStay
      <4>3. IsRequest(Parse(s)) /\ IsRequest(Parse(t)) =>
              LET r == Request(Parse(s))
                  u == Request(Parse(t))
              IN  /\ r.host # NoHost => RouteFor(rs, u) = RouteFor(rs, r)
                  /\ r.session # NoValue => u.session = r.session
        BY <3>1, <3>3, <4>1, FirstDecides
      <4> QED BY <2>3, <2>4, <4>2, <4>3
    <3> QED BY <3>2, <3>3
  <2> QED BY <2>5, <2>6
<1> QED BY <1>1, TextIsLines, PTL DEF FrontSpec, FirstHeadersDecide
=============================================================================
