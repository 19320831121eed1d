---------------------------- MODULE PolicyProofs ----------------------------
(***************************************************************************)
(* Proofs about the policies on the ranking of one question: RankPolicies  *)
(* (fusion, reserves, deduplication, role prior, list fallback) and        *)
(* ContextAllocation (how the texts share the context of the prompt), for  *)
(* every number of chunks and sources, every weight and every limit.       *)
(*                                                                         *)
(* A ranking is a finite set sorted by an order; SortedByOrder says what   *)
(* that gives, and the rest is about the orders.  Induction over a list or *)
(* a sum is the least counterexample of a set of numbers (LeastNumber).    *)
(***************************************************************************)
EXTENDS RankPolicies, ContextAllocation, FiniteSetTheorems, TLAPS

\* A nonempty set of numbers has a least element.
LEMMA LeastNumber ==
  ASSUME NEW G \in SUBSET Nat, G # {}
  PROVE  \E i \in G : \A j \in G : i <= j
<1> DEFINE R == {ss \in Nat \X Nat : ss[1] < ss[2]}
<1>1. PICK i \in G : \A j \in G : ~ (<<j, i>> \in R)
  BY NatLessThanWellFounded, WFMin, Zenon DEF OpToRel
<1>2. ASSUME NEW j \in G PROVE i <= j
  <2>1. ~ (<<j, i>> \in R)
    BY <1>1
  <2>2. QED
    BY <2>1
<1> QED BY <1>2

(***************************************************************************)
(* Fractions.                                                              *)
(***************************************************************************)
IsFraction(x) == x[1] \in Nat /\ x[2] \in Nat /\ x[2] > 0

LEMMA ProductGrows ==
  ASSUME NEW x \in Nat, NEW y \in Nat, NEW n \in Nat
  PROVE  /\ x >= y => x * n >= y * n
         /\ x > y /\ n > 0 => x * n > y * n
         /\ x * n >= y * n /\ n > 0 => x >= y
         /\ x * n > y * n => x > y
<1>1. ASSUME NEW a \in Nat, NEW b \in Nat, a >= b PROVE a * n >= b * n
  <2>1. a * n = b * n + (a - b) * n /\ (a - b) * n >= 0
    BY <1>1
  <2>2. QED
    BY <2>1
<1>2. ASSUME NEW a \in Nat, NEW b \in Nat, a > b, n > 0 PROVE a * n > b * n
  <2>1. (a - b) * n > 0
    BY <1>2
  <2>2. a * n = b * n + (a - b) * n
    BY <1>2
  <2>3. QED
    BY <2>1, <2>2
<1>3. x * n \in Nat /\ y * n \in Nat
  OBVIOUS
<1>4. QED
  BY <1>1, <1>2, <1>3

\* Comparing fractions is transitive.
LEMMA CrossProducts ==
  ASSUME NEW a \in Nat, NEW b \in Nat, NEW c \in Nat, NEW d \in Nat, NEW e \in Nat, NEW f \in Nat,
         b > 0, d > 0, f > 0, a * d >= c * b, c * f >= e * d
  PROVE  /\ a * f >= e * b
         /\ a * d > c * b \/ c * f > e * d => a * f > e * b
<1>1. /\ a * d \in Nat /\ c * b \in Nat /\ c * f \in Nat
      /\ e * d \in Nat /\ a * f \in Nat /\ e * b \in Nat
  OBVIOUS
<1>2. (a * d) * f >= (c * b) * f /\ (c * f) * b >= (e * d) * b
  BY <1>1, ProductGrows
<1>3. (a * d) * f = (a * f) * d /\ (c * b) * f = (c * f) * b /\ (e * d) * b = (e * b) * d
  OBVIOUS
<1>4. (a * f) * d >= (e * b) * d
  BY <1>1, <1>2, <1>3
<1>5. a * d > c * b \/ c * f > e * d => (a * f) * d > (e * b) * d
  <2>1. a * d > c * b => (a * d) * f > (c * b) * f
    BY <1>1, ProductGrows
  <2>2. c * f > e * d => (c * f) * b > (e * d) * b
    BY <1>1, ProductGrows
  <2>3. QED
    BY <1>1, <1>2, <1>3, <2>1, <2>2
<1>6. QED
  BY <1>1, <1>4, <1>5, ProductGrows

LEMMA HigherIsOrder ==
  ASSUME NEW x, NEW y, NEW z, IsFraction(x), IsFraction(y), IsFraction(z)
  PROVE  /\ ~Higher(x, x)
         /\ Higher(x, y) => ~Higher(y, x)
         /\ ~Higher(y, x) /\ ~Higher(z, y) => ~Higher(z, x)
         /\ Higher(x, y) /\ ~Higher(z, y) => Higher(x, z)
         /\ ~Higher(y, x) /\ Higher(y, z) => Higher(x, z)
<1> DEFINE a == x[1]
           b == x[2]
           c == y[1]
           d == y[2]
           e == z[1]
           f == z[2]
<1>1. /\ a \in Nat /\ b \in Nat /\ c \in Nat /\ d \in Nat /\ e \in Nat /\ f \in Nat
      /\ b > 0 /\ d > 0 /\ f > 0
  BY DEF IsFraction
<1>2. /\ Higher(x, y) <=> a * d > c * b
      /\ Higher(y, x) <=> c * b > a * d
      /\ Higher(y, z) <=> c * f > e * d
      /\ Higher(z, y) <=> e * d > c * f
      /\ Higher(x, z) <=> a * f > e * b
      /\ Higher(z, x) <=> e * b > a * f
      /\ Higher(x, x) <=> a * b > a * b
  BY DEF Higher
<1> HIDE DEF a, b, c, d, e, f
<1>3. /\ a * d \in Nat /\ c * b \in Nat /\ c * f \in Nat /\ e * d \in Nat /\ a * f \in Nat
      /\ e * b \in Nat /\ a * b \in Nat
  BY <1>1
<1>4. a * d >= c * b /\ c * f >= e * d =>
        /\ a * f >= e * b
        /\ a * d > c * b \/ c * f > e * d => a * f > e * b
  BY <1>1, CrossProducts
<1>5. QED
  BY <1>2, <1>3, <1>4

(***************************************************************************)
(* Orders, and what sorting by one gives.                                  *)
(***************************************************************************)
IsOrder(R, S) ==
  /\ \A c \in S : <<c, c>> \notin R
  /\ \A c, d \in S : c # d => <<c, d>> \in R \/ <<d, c>> \in R
  /\ \A c, d, e \in S : <<c, d>> \in R /\ <<d, e>> \in R => <<c, e>> \in R

LEMMA OrderOfPart ==
  ASSUME NEW R, NEW S, NEW T \in SUBSET S, IsOrder(R, S)
  PROVE  IsOrder(R, T)
BY DEF IsOrder

LEMMA HighestFirstIsOrder ==
  ASSUME NEW f, NEW ties, NEW S, S = DOMAIN f, \A c \in S : IsFraction(f[c]), IsOrder(ties, S)
  PROVE  IsOrder(HighestFirst(f, ties), S)
<1> DEFINE R == HighestFirst(f, ties)
<1>1. ASSUME NEW c \in S, NEW d \in S
      PROVE  <<c, d>> \in R <=> \/ Higher(f[c], f[d])
                                \/ ~Higher(f[d], f[c]) /\ <<c, d>> \in ties
  BY DEF HighestFirst
<1>2. \A c \in S : <<c, c>> \notin R
  BY <1>1, HigherIsOrder DEF IsOrder
<1>3. \A c, d \in S : c # d => <<c, d>> \in R \/ <<d, c>> \in R
  BY <1>1 DEF IsOrder
<1>4. ASSUME NEW c \in S, NEW d \in S, NEW e \in S, <<c, d>> \in R, <<d, e>> \in R
      PROVE  <<c, e>> \in R
  <2>1. /\ Higher(f[c], f[d]) \/ (~Higher(f[d], f[c]) /\ <<c, d>> \in ties)
        /\ Higher(f[d], f[e]) \/ (~Higher(f[e], f[d]) /\ <<d, e>> \in ties)
    BY <1>1, <1>4
  <2>2. ~Higher(f[d], f[c]) /\ ~Higher(f[e], f[d])
    BY <2>1, HigherIsOrder
  <2>3. CASE Higher(f[c], f[d]) \/ Higher(f[d], f[e])
    <3>1. Higher(f[c], f[e])
      BY <2>2, <2>3, HigherIsOrder
    <3>2. QED
      BY <1>1, <3>1
  <2>4. CASE <<c, d>> \in ties /\ <<d, e>> \in ties
    <3>1. <<c, e>> \in ties
      BY <2>4 DEF IsOrder
    <3>2. ~Higher(f[e], f[c])
      BY <2>2, HigherIsOrder
    <3>3. QED
      BY <1>1, <3>1, <3>2
  <2>5. QED
    BY <2>1, <2>3, <2>4
<1>5. QED
  BY <1>2, <1>3, <1>4 DEF IsOrder

Predecessors(S, R, c) == {d \in S : <<d, c>> \in R}

\* Sorting a finite set by an order lists each member once, in that order: it
\* stands behind its predecessors.
LEMMA SortedByOrder ==
  ASSUME NEW S, IsFiniteSet(S), NEW R, IsOrder(R, S)
  PROVE  LET s == SortedBy(S, R)
         IN  /\ Cardinality(S) \in Nat
             /\ s \in [1..Cardinality(S) -> S]
             /\ \A c \in S : \E n \in 1..Cardinality(S) :
                  s[n] = c /\ n = Cardinality(Predecessors(S, R, c)) + 1
             /\ \A m, n \in 1..Cardinality(S) : s[m] = s[n] => m = n
             /\ \A m, n \in 1..Cardinality(S) : m < n <=> <<s[m], s[n]>> \in R
<1> DEFINE k      == Cardinality(S)
           pre(c) == Predecessors(S, R, c)
           pos    == [c \in S |-> Cardinality(pre(c))]
           s      == SortedBy(S, R)
<1>1. k \in Nat
  BY FS_CardinalityType
<1>2. \A c \in S : IsFiniteSet(pre(c)) /\ Cardinality(pre(c)) \in Nat
  BY FS_Subset, FS_CardinalityType DEF Predecessors
<1>3. ASSUME NEW c \in S, NEW d \in S, <<c, d>> \in R PROVE pos[c] < pos[d]
  <2>1. pre(c) \subseteq pre(d) /\ c \in pre(d) /\ c \notin pre(c)
    BY <1>3 DEF Predecessors, IsOrder
  <2>2. Cardinality(pre(c)) <= Cardinality(pre(d)) /\ Cardinality(pre(c)) # Cardinality(pre(d))
    BY <1>2, <2>1, FS_Subset
  <2>3. QED
    BY <1>2, <2>2
<1>4. ASSUME NEW c \in S PROVE pos[c] \in 0..(k - 1)
  <2>1. pre(c) \subseteq S /\ pre(c) # S
    BY DEF Predecessors, IsOrder
  <2>2. Cardinality(pre(c)) <= k /\ Cardinality(pre(c)) # k
    BY <2>1, FS_Subset
  <2>3. QED
    BY <1>1, <1>2, <2>2
<1> HIDE DEF pos
<1>5. ASSUME NEW c \in S, NEW d \in S, pos[c] = pos[d] PROVE c = d
  <2>1. ~(pos[c] < pos[d]) /\ ~(pos[d] < pos[c])
    BY <1>1, <1>4, <1>5
  <2>2. <<c, d>> \notin R /\ <<d, c>> \notin R
    BY <1>3, <2>1
  <2>3. QED
    BY <2>2 DEF IsOrder
<1>6. pos \in Injection(S, 0..(k - 1))
  <2>1. pos \in [S -> 0..(k - 1)]
    BY <1>4 DEF pos
  <2>2. QED
    BY <1>5, <2>1 DEF Injection, IsInjective
<1>7. IsFiniteSet(0..(k - 1)) /\ Cardinality(0..(k - 1)) = k
  BY <1>1, FS_Interval
<1>8. pos \in Surjection(S, 0..(k - 1))
  BY <1>6, <1>7, FS_Injection
<1>9. \A n \in 1..k : \E c \in S : pos[c] = n - 1
  BY <1>1, <1>8 DEF Surjection
<1>10. ASSUME NEW n \in 1..k PROVE s[n] \in S /\ pos[s[n]] = n - 1
  <2>1. s[n] = CHOOSE c \in S : Cardinality({d \in S : <<d, c>> \in R}) = n - 1
    BY DEF SortedBy
  <2>2. \A c \in S : pos[c] = Cardinality({d \in S : <<d, c>> \in R})
    BY DEF pos, Predecessors
  <2>3. QED
    BY <1>9, <2>1, <2>2
<1>11. s \in [1..k -> S]
  BY <1>10 DEF SortedBy
<1>12. ASSUME NEW c \in S PROVE s[pos[c] + 1] = c /\ pos[c] + 1 \in 1..k
  BY <1>1, <1>4, <1>5, <1>10
<1>13. \A m, n \in 1..k : s[m] = s[n] => m = n
  BY <1>1, <1>10
<1>14. ASSUME NEW m \in 1..k, NEW n \in 1..k PROVE m < n <=> <<s[m], s[n]>> \in R
  <2>1. s[m] \in S /\ s[n] \in S /\ pos[s[m]] = m - 1 /\ pos[s[n]] = n - 1
    BY <1>10
  <2>2. <<s[m], s[n]>> \in R => m < n
    BY <1>1, <1>3, <2>1
  <2>3. <<s[n], s[m]>> \in R => n < m
    BY <1>1, <1>3, <2>1
  <2>4. s[m] = s[n] \/ <<s[m], s[n]>> \in R \/ <<s[n], s[m]>> \in R
    BY <2>1 DEF IsOrder
  <2>5. QED
    BY <1>1, <1>13, <2>2, <2>3, <2>4
<1>15. ASSUME NEW c \in S PROVE pos[c] + 1 = Cardinality(Predecessors(S, R, c)) + 1
  BY DEF pos
<1> HIDE DEF s
<1>16. QED
  BY <1>1, <1>11, <1>12, <1>13, <1>14, <1>15 DEF s

(***************************************************************************)
(* Lists without repetitions                                               *)
(***************************************************************************)
IsList(l) ==
  /\ l \in [1..Len(l) -> Chunks] /\ Len(l) \in Nat
  /\ \A m, n \in 1..Len(l) : l[m] = l[n] => m = n

LEMMA ListRank ==
  ASSUME NEW l, IsList(l)
  PROVE  /\ \A c \in ToSet(l) : Rank(l, c) \in 1..Len(l) /\ l[Rank(l, c)] = c
         /\ \A n \in 1..Len(l) : l[n] \in ToSet(l) /\ Rank(l, l[n]) = n
         /\ ToSet(l) \subseteq Chunks
<1>1. ToSet(l) = {l[n] : n \in 1..Len(l)} /\ DOMAIN l = 1..Len(l)
  BY DEF ToSet, IsList
<1>2. ASSUME NEW c \in ToSet(l) PROVE Rank(l, c) \in 1..Len(l) /\ l[Rank(l, c)] = c
  BY <1>1 DEF Rank
<1>3. ASSUME NEW n \in 1..Len(l) PROVE l[n] \in ToSet(l) /\ Rank(l, l[n]) = n
  BY <1>1, <1>2 DEF IsList
<1>4. QED
  BY <1>1, <1>2, <1>3 DEF IsList

LEMMA ListSize ==
  ASSUME NEW l, IsList(l)
  PROVE  IsFiniteSet(ToSet(l)) /\ Cardinality(ToSet(l)) = Len(l)
<1>1. l \in Bijection(1..Len(l), ToSet(l))
  <2>1. l \in [1..Len(l) -> ToSet(l)]
    BY ListRank DEF IsList
  <2>2. l \in Injection(1..Len(l), ToSet(l))
    BY <2>1 DEF IsList, Injection, IsInjective
  <2>3. l \in Surjection(1..Len(l), ToSet(l))
    BY <2>1, ListRank DEF Surjection
  <2>4. QED
    BY <2>2, <2>3 DEF Bijection
<1>2. IsFiniteSet(1..Len(l)) /\ Cardinality(1..Len(l)) = Len(l)
  <2>1. Len(l) \in Nat
    BY DEF IsList
  <2>2. QED
    BY <2>1, FS_Interval
<1>3. QED
  BY <1>1, <1>2, FS_Bijection DEF ExistsBijection

LEMMA ListOrderIsOrder ==
  ASSUME NEW l, IsList(l)
  PROVE  IsOrder(ListOrder(l), ToSet(l))
<1>1. \A c, d \in ToSet(l) : <<c, d>> \in ListOrder(l) <=> Rank(l, c) < Rank(l, d)
  BY DEF ListOrder, Before
<1>2. \A c \in ToSet(l) : Rank(l, c) \in Nat /\ l[Rank(l, c)] = c
  BY ListRank DEF IsList
<1>3. QED
  BY <1>1, <1>2 DEF IsOrder

\* What sorting gives as a list.
LEMMA SortedList ==
  ASSUME NEW S \in SUBSET Chunks, NEW R, IsOrder(R, S)
  PROVE  /\ IsList(SortedBy(S, R))
         /\ ToSet(SortedBy(S, R)) = S
         /\ Len(SortedBy(S, R)) = Cardinality(S)
         /\ \A c \in S : Rank(SortedBy(S, R), c) = Cardinality(Predecessors(S, R, c)) + 1
         /\ \A c, d \in S : Before(SortedBy(S, R), c, d) <=> <<c, d>> \in R
<1> DEFINE s == SortedBy(S, R)
           k == Cardinality(S)
<1>1. IsFiniteSet(S)
  BY FS_Subset, RankAssumption
<1>2. /\ k \in Nat
      /\ s \in [1..k -> S]
      /\ \A c \in S : \E n \in 1..k : s[n] = c /\ n = Cardinality(Predecessors(S, R, c)) + 1
      /\ \A m, n \in 1..k : s[m] = s[n] => m = n
      /\ \A m, n \in 1..k : m < n <=> <<s[m], s[n]>> \in R
  BY <1>1, SortedByOrder
<1> HIDE DEF s, k
<1>3. s \in Seq(S) /\ Len(s) = k
  BY <1>2
<1>4. IsList(s)
  BY <1>2, <1>3 DEF IsList
<1>5. ToSet(s) = S
  <2>1. ToSet(s) \subseteq S
    BY <1>2 DEF ToSet
  <2>2. \A c \in S : \E n \in DOMAIN s : s[n] = c
    BY <1>2
  <2>3. QED
    BY <2>1, <2>2 DEF ToSet
<1>6. \A c \in S : Rank(s, c) = Cardinality(Predecessors(S, R, c)) + 1
  BY <1>2, <1>3, <1>4, ListRank
<1>7. \A c, d \in S : Before(s, c, d) <=> <<c, d>> \in R
  <2>1. \A c \in S : Rank(s, c) \in 1..k /\ s[Rank(s, c)] = c
    BY <1>3, <1>4, <1>5, ListRank
  <2>2. QED
    BY <1>2, <2>1 DEF Before
<1>8. QED
  BY <1>3, <1>4, <1>5, <1>6, <1>7 DEF s, k

\* The first n of a list.
LEMMA FirstOfList ==
  ASSUME NEW l, IsList(l), NEW n \in Nat
  PROVE  /\ IsList(FirstOf(l, n))
         /\ ToSet(FirstOf(l, n)) \subseteq ToSet(l)
         /\ Len(FirstOf(l, n)) <= n
         /\ IsFiniteSet(ToSet(FirstOf(l, n)))
         /\ Cardinality(ToSet(FirstOf(l, n))) \in Nat
         /\ Cardinality(ToSet(FirstOf(l, n))) <= n
<1> DEFINE f == FirstOf(l, n)
           k == IF n < Len(l) THEN n ELSE Len(l)
<1>1. k \in Nat /\ k <= n /\ k <= Len(l)
  BY DEF IsList
<1>2. f = [i \in 1..k |-> l[i]]
  BY <1>1 DEF FirstOf, IsList
<1>3. Len(f) = k /\ f \in [1..k -> Chunks]
  BY <1>1, <1>2 DEF IsList
<1>4. IsList(f)
  BY <1>1, <1>2, <1>3 DEF IsList
<1>5. ToSet(f) \subseteq ToSet(l)
  BY <1>1, <1>2, <1>3 DEF ToSet, IsList
<1>6. IsFiniteSet(ToSet(f)) /\ Cardinality(ToSet(f)) = k
  BY <1>3, <1>4, ListSize
<1>7. QED
  BY <1>1, <1>3, <1>4, <1>5, <1>6

(***************************************************************************)
(* Fusion                                                                  *)
(***************************************************************************)
ListsInv == IsList(dense) /\ IsList(sparse)

LEMMA WeightsAreFractions ==
  /\ IsFraction(DenseWeight) /\ IsFraction(SparseWeight) /\ IsFraction(FusionBoost)
  /\ IsFraction(RoleWeight) /\ FusionBoost[1] >= FusionBoost[2]
  /\ RrfK \in Nat /\ RrfK > 0 /\ RankOffset \in Nat /\ RankOffset > 0
BY RankAssumption DEF Fractions, IsFraction

LEMMA OverIsFraction ==
  ASSUME NEW w, IsFraction(w), NEW m \in Nat, m > 0
  PROVE  IsFraction(Over(w, m)) /\ Over(w, m)[1] = w[1] /\ Over(w, m)[2] = w[2] * m
<1>1. w[2] * m \in Nat /\ w[2] * m > 0
  BY DEF IsFraction
<1>2. QED
  BY <1>1 DEF IsFraction, Over

LEMMA PlusIsFraction ==
  ASSUME NEW x, NEW y, IsFraction(x), IsFraction(y)
  PROVE  IsFraction(Plus(x, y)) /\ IsFraction(Times(x, y))
<1>1. \A a, b \in Nat : /\ a * b \in Nat /\ a + b \in Nat
                       /\ a > 0 /\ b > 0 => a * b > 0
  OBVIOUS
<1>2. /\ x[1] \in Nat /\ y[1] \in Nat
      /\ x[2] \in Nat /\ x[2] > 0 /\ y[2] \in Nat /\ y[2] > 0
  BY DEF IsFraction
<1>3. /\ x[1] * y[2] + y[1] * x[2] \in Nat /\ x[1] * y[1] \in Nat
      /\ x[2] * y[2] \in Nat /\ x[2] * y[2] > 0
  BY <1>1, <1>2
<1>4. QED
  BY <1>3 DEF IsFraction, Plus, Times

LEMMA ShareIsFraction ==
  ASSUME NEW w, IsFraction(w), NEW l, IsList(l), NEW c
  PROVE  IsFraction(Share(w, l, c))
<1>1. CASE c \in ToSet(l)
  <2>1. RrfK + Rank(l, c) \in Nat /\ RrfK + Rank(l, c) > 0
    BY <1>1, ListRank, WeightsAreFractions DEF IsList
  <2>2. QED
    BY <1>1, <2>1, OverIsFraction DEF Share
<1>2. CASE c \notin ToSet(l)
  BY <1>2 DEF Share, Zero, IsFraction
<1>3. QED
  BY <1>1, <1>2

LEMMA FusedScoreIsFraction ==
  ASSUME ListsInv, NEW c
  PROVE  IsFraction(FusedScore(c))
BY WeightsAreFractions, ShareIsFraction, PlusIsFraction DEF FusedScore, ListsInv

\* Not to be lower survives a sum and the role of the query.
LEMMA PlusGrows ==
  ASSUME NEW x, NEW y, NEW u, NEW v, IsFraction(x), IsFraction(y), IsFraction(u), IsFraction(v),
         ~Higher(u, x), ~Higher(v, y)
  PROVE  ~Higher(Plus(u, v), Plus(x, y))
<1> DEFINE a == x[1]
           b == x[2]
           c == y[1]
           d == y[2]
           e == u[1]
           f == u[2]
           g == v[1]
           h == v[2]
<1>1. /\ a \in Nat /\ b \in Nat /\ c \in Nat /\ d \in Nat /\ e \in Nat /\ f \in Nat
      /\ g \in Nat /\ h \in Nat
  BY DEF IsFraction
<1>2. a * f >= e * b /\ c * h >= g * d
  BY <1>1 DEF Higher
<1>3. Higher(Plus(u, v), Plus(x, y)) <=> (e * h + g * f) * (b * d) > (a * d + c * b) * (f * h)
  BY DEF Higher, Plus
<1> HIDE DEF a, b, c, d, e, f, g, h
<1>4. /\ a * f \in Nat /\ e * b \in Nat /\ c * h \in Nat
      /\ g * d \in Nat /\ h * d \in Nat /\ f * b \in Nat
  BY <1>1
<1>5. (a * f) * (h * d) >= (e * b) * (h * d) /\ (c * h) * (f * b) >= (g * d) * (f * b)
  BY <1>2, <1>4, ProductGrows
<1>6. /\ (e * h + g * f) * (b * d) = (e * b) * (h * d) + (g * d) * (f * b)
      /\ (a * d + c * b) * (f * h) = (a * f) * (h * d) + (c * h) * (f * b)
  BY <1>1
<1>7. /\ (a * f) * (h * d) \in Nat /\ (e * b) * (h * d) \in Nat
      /\ (c * h) * (f * b) \in Nat /\ (g * d) * (f * b) \in Nat
  BY <1>4
<1>8. QED
  BY <1>3, <1>5, <1>6, <1>7

LEMMA TimesGrows ==
  ASSUME NEW x, NEW u, NEW w, IsFraction(x), IsFraction(u), IsFraction(w), ~Higher(u, x)
  PROVE  /\ ~Higher(Times(w, u), Times(w, x))
         /\ w[1] >= w[2] => ~Higher(u, Times(w, x))
<1> DEFINE a == x[1]
           b == x[2]
           e == u[1]
           f == u[2]
           p == w[1]
           q == w[2]
<1>1. a \in Nat /\ b \in Nat /\ e \in Nat /\ f \in Nat /\ p \in Nat /\ q \in Nat
  BY DEF IsFraction
<1>2. a * f >= e * b
  BY <1>1 DEF Higher
<1>3. /\ Higher(Times(w, u), Times(w, x)) <=> (p * e) * (q * b) > (p * a) * (q * f)
      /\ Higher(u, Times(w, x)) <=> e * (q * b) > (p * a) * f
  BY DEF Higher, Times
<1> HIDE DEF a, b, e, f, p, q
<1>4. a * f \in Nat /\ e * b \in Nat /\ p * q \in Nat
  BY <1>1
<1>5. (a * f) * (p * q) >= (e * b) * (p * q) /\ (a * f) * q >= (e * b) * q
  BY <1>1, <1>2, <1>4, ProductGrows
<1>6. p >= q => p * (a * f) >= q * (a * f)
  BY <1>1, <1>4, ProductGrows
<1>7. /\ (p * e) * (q * b) = (e * b) * (p * q) /\ (p * a) * (q * f) = (a * f) * (p * q)
      /\ e * (q * b) = (e * b) * q /\ (p * a) * f = p * (a * f) /\ q * (a * f) = (a * f) * q
  BY <1>1
<1>8. /\ (e * b) * (p * q) \in Nat /\ (a * f) * (p * q) \in Nat /\ (e * b) * q \in Nat
      /\ (a * f) * q \in Nat /\ p * (a * f) \in Nat
  BY <1>1, <1>4
<1>9. ~((p * e) * (q * b) > (p * a) * (q * f))
  BY <1>5, <1>7, <1>8
<1>10. p >= q => ~(e * (q * b) > (p * a) * f)
  BY <1>5, <1>6, <1>7, <1>8
<1>11. w[1] >= w[2] <=> p >= q
  BY DEF p, q
<1>12. QED
  BY <1>3, <1>9, <1>10, <1>11

LEMMA ShareGrows ==
  ASSUME NEW w, IsFraction(w), NEW l, IsList(l), NEW c, NEW d, NoWorse(l, c, d)
  PROVE  ~Higher(Share(w, l, d), Share(w, l, c))
<1>1. CASE d \notin ToSet(l)
  <2>1. Share(w, l, d) = <<0, 1>>
    BY <1>1 DEF Share, Zero
  <2>2. IsFraction(Share(w, l, c))
    BY ShareIsFraction
  <2>3. QED
    BY <2>1, <2>2 DEF Higher, IsFraction
<1>2. CASE d \in ToSet(l)
  <2>1. c \in ToSet(l) /\ Rank(l, c) \in Nat /\ Rank(l, d) \in Nat /\ Rank(l, c) <= Rank(l, d)
    <3>1. c \in ToSet(l) /\ ~(Rank(l, d) < Rank(l, c))
      BY <1>2 DEF NoWorse, Before
    <3>2. Rank(l, c) \in Nat /\ Rank(l, d) \in Nat
      BY <1>2, <3>1, ListRank DEF IsList
    <3>3. QED
      BY <3>1, <3>2
  <2> DEFINE m == RrfK + Rank(l, c)
             n == RrfK + Rank(l, d)
  <2>2. m \in Nat /\ n \in Nat /\ m > 0 /\ n > 0 /\ n >= m
    BY <2>1, WeightsAreFractions
  <2>3. Share(w, l, c) = Over(w, m) /\ Share(w, l, d) = Over(w, n)
    BY <1>2, <2>1 DEF Share
  <2> HIDE DEF m, n
  <2>4. Higher(Over(w, n), Over(w, m)) <=> w[1] * (w[2] * m) > w[1] * (w[2] * n)
    BY <2>2, OverIsFraction DEF Higher
  <2>5. w[1] \in Nat /\ w[2] \in Nat /\ w[1] * w[2] \in Nat
    BY DEF IsFraction
  <2>6. n * (w[1] * w[2]) >= m * (w[1] * w[2])
    BY <2>2, <2>5, ProductGrows
  <2>7. /\ w[1] * (w[2] * m) = m * (w[1] * w[2])
        /\ w[1] * (w[2] * n) = n * (w[1] * w[2])
    BY <2>2, <2>5
  <2>8. QED
    BY <2>2, <2>3, <2>4, <2>5, <2>6, <2>7
<1>3. QED
  BY <1>1, <1>2

LEMMA FusedScoreGrows ==
  ASSUME ListsInv, NEW c, NEW d, NoWorse(dense, c, d), NoWorse(sparse, c, d),
         HasRole(d) => HasRole(c)
  PROVE  ~Higher(FusedScore(d), FusedScore(c))
<1> DEFINE sum(x) == Plus(Share(DenseWeight, dense, x), Share(SparseWeight, sparse, x))
<1>1. IsFraction(sum(c)) /\ IsFraction(sum(d))
  BY WeightsAreFractions, ShareIsFraction, PlusIsFraction DEF ListsInv
<1>2. ~Higher(sum(d), sum(c))
  BY WeightsAreFractions, ShareIsFraction, ShareGrows, PlusGrows DEF ListsInv
<1>3. /\ FusedScore(c) = IF HasRole(c) THEN Times(FusionBoost, sum(c)) ELSE sum(c)
      /\ FusedScore(d) = IF HasRole(d) THEN Times(FusionBoost, sum(d)) ELSE sum(d)
  BY DEF FusedScore
<1> HIDE DEF sum
<1>4. QED
  BY <1>1, <1>2, <1>3, WeightsAreFractions, TimesGrows

LEMMA BestRankIsLeast ==
  ASSUME ListsInv, NEW c \in Candidates
  PROVE  /\ BestRank(c) \in ListRanks(c) /\ BestRank(c) \in Nat
         /\ \A n \in ListRanks(c) : n \in Nat /\ BestRank(c) <= n
<1>1. ListRanks(c) \in SUBSET Nat
  <2>1. ASSUME NEW l \in {dense, sparse}, c \in ToSet(l) PROVE Rank(l, c) \in Nat
    <3>1. IsList(l)
      BY DEF ListsInv
    <3>2. QED
      BY <2>1, <3>1, ListRank DEF IsList
  <2>2. QED
    BY <2>1 DEF ListRanks
<1>2. ListRanks(c) # {}
  BY DEF ListRanks, Candidates
<1>3. \E n \in ListRanks(c) : \A k \in ListRanks(c) : n <= k
  BY <1>1, <1>2, LeastNumber
<1>4. BestRank(c) \in ListRanks(c) /\ \A k \in ListRanks(c) : BestRank(c) <= k
  BY <1>3 DEF BestRank
<1>5. QED
  BY <1>1, <1>4

LEMMA CandidatesAreChunks ==
  ASSUME ListsInv
  PROVE  Candidates \subseteq Chunks
BY ListRank DEF ListsInv, Candidates

LEMMA FusionOrderIsOrder ==
  ASSUME ListsInv
  PROVE  IsOrder(FusionOrder, Candidates)
<1> DEFINE f == [c \in Candidates |-> FusedScore(c)]
<1>1. Candidates \subseteq Nat
  BY CandidatesAreChunks, RankAssumption
<1>2. IsOrder(BestRankOrder, Candidates)
  <2>1. ASSUME NEW c \in Candidates, NEW d \in Candidates
        PROVE  <<c, d>> \in BestRankOrder <=>
                 BestRank(c) < BestRank(d) \/ (BestRank(c) = BestRank(d) /\ c < d)
    BY DEF BestRankOrder
  <2>2. \A c \in Candidates : BestRank(c) \in Nat /\ c \in Nat
    BY <1>1, BestRankIsLeast
  <2>3. \A c \in Candidates : <<c, c>> \notin BestRankOrder
    BY <2>1, <2>2
  <2>4. \A c, d \in Candidates : c # d => <<c, d>> \in BestRankOrder \/ <<d, c>> \in BestRankOrder
    BY <2>1, <2>2
  <2>5. ASSUME NEW c \in Candidates, NEW d \in Candidates, NEW e \in Candidates,
               <<c, d>> \in BestRankOrder, <<d, e>> \in BestRankOrder
        PROVE  <<c, e>> \in BestRankOrder
    <3>1. /\ BestRank(c) < BestRank(d) \/ (BestRank(c) = BestRank(d) /\ c < d)
          /\ BestRank(d) < BestRank(e) \/ (BestRank(d) = BestRank(e) /\ d < e)
      BY <2>1, <2>5
    <3>2. BestRank(c) < BestRank(e) \/ (BestRank(c) = BestRank(e) /\ c < e)
      BY <2>2, <3>1
    <3>3. QED
      BY <2>1, <3>2
  <2>6. QED
    BY <2>3, <2>4, <2>5 DEF IsOrder
<1>3. DOMAIN f = Candidates /\ \A c \in Candidates : IsFraction(f[c])
  BY FusedScoreIsFraction
<1> HIDE DEF f
<1>4. IsOrder(HighestFirst(f, BestRankOrder), Candidates)
  BY <1>2, <1>3, HighestFirstIsOrder
<1>5. QED
  BY <1>4 DEF FusionOrder, f

LEMMA SelectedAre ==
  ASSUME ListsInv
  PROVE  /\ Mandatory \subseteq Selected /\ Selected \subseteq Candidates
         /\ Cardinality(Mandatory) <= MaxCandidates
         /\ Cardinality(Selected) <= MaxCandidates
         /\ Cardinality(Mandatory) \in Nat
<1> DEFINE D    == ToSet(FirstOf(dense, DenseReserve))
           P    == ToSet(FirstOf(sparse, SparseReserve))
           rest == SortedBy(Candidates \ Mandatory, FusionOrder)
           room == MaxCandidates - Cardinality(Mandatory)
           O    == ToSet(FirstOf(rest, room))
<1>1. /\ IsFiniteSet(D) /\ IsFiniteSet(P) /\ D \subseteq ToSet(dense) /\ P \subseteq ToSet(sparse)
      /\ Cardinality(D) \in Nat /\ Cardinality(D) <= DenseReserve
      /\ Cardinality(P) \in Nat /\ Cardinality(P) <= SparseReserve
      /\ DenseReserve \in Nat /\ SparseReserve \in Nat /\ MaxCandidates \in Nat
      /\ DenseReserve + SparseReserve <= MaxCandidates
  BY FirstOfList, RankAssumption DEF ListsInv
<1>2. Mandatory = D \cup P
  BY DEF Mandatory
<1> HIDE DEF D, P
<1>3. IsFiniteSet(Mandatory) /\ Cardinality(Mandatory) <= Cardinality(D) + Cardinality(P)
  <2>1. IsFiniteSet(D \cup P)
        /\ Cardinality(D \cup P) = Cardinality(D) + Cardinality(P) - Cardinality(D \cap P)
    BY <1>1, FS_Union
  <2>2. Cardinality(D \cap P) \in Nat
    BY <1>1, FS_Intersection, FS_CardinalityType
  <2>3. QED
    BY <1>1, <1>2, <2>1, <2>2
<1>4. Cardinality(Mandatory) \in Nat /\ Cardinality(Mandatory) <= MaxCandidates /\ room \in Nat
  BY <1>1, <1>3, FS_CardinalityType
<1>5. IsOrder(FusionOrder, Candidates \ Mandatory) /\ Candidates \ Mandatory \subseteq Chunks
  BY FusionOrderIsOrder, OrderOfPart, CandidatesAreChunks
<1>6. IsList(rest) /\ ToSet(rest) = Candidates \ Mandatory
  BY <1>5, SortedList
<1> HIDE DEF rest, room
<1>7. IsFiniteSet(O) /\ O \subseteq ToSet(rest) /\ Cardinality(O) \in Nat /\ Cardinality(O) <= room
  BY <1>4, <1>6, FirstOfList
<1>8. Selected = Mandatory \cup O
  BY DEF Selected, rest, room
<1> HIDE DEF O
<1>9. Selected \subseteq Candidates
  BY <1>1, <1>2, <1>6, <1>7, <1>8 DEF Candidates
<1>10. Cardinality(Selected) <= MaxCandidates
  <2>1. Cardinality(Mandatory \cup O)
          = Cardinality(Mandatory) + Cardinality(O) - Cardinality(Mandatory \cap O)
    BY <1>3, <1>7, FS_Union
  <2>2. Cardinality(Mandatory \cap O) \in Nat
    BY <1>3, FS_Intersection, FS_CardinalityType
  <2>3. QED
    BY <1>1, <1>4, <1>7, <1>8, <2>1, <2>2 DEF room
<1>11. QED
  BY <1>4, <1>8, <1>9, <1>10

LEMMA PoolIsSelected ==
  ASSUME ListsInv
  PROVE  /\ IsList(CandidatePool) /\ ToSet(CandidatePool) = Selected
         /\ Len(CandidatePool) = Cardinality(Selected)
         /\ \A c, d \in Selected : Before(CandidatePool, c, d) <=> <<c, d>> \in FusionOrder
<1>1. Selected \subseteq Candidates /\ Selected \subseteq Chunks
  BY SelectedAre, CandidatesAreChunks
<1>2. IsOrder(FusionOrder, Selected)
  BY <1>1, FusionOrderIsOrder, OrderOfPart
<1>3. QED
  BY <1>1, <1>2, SortedList DEF CandidatePool

\* No list ranks c lower and one ranks it higher, so it has the better best rank.
LEMMA NoWorseIsBefore ==
  ASSUME ListsInv, NEW c \in Candidates, NEW d \in Candidates, c # d,
         NoWorse(dense, c, d), NoWorse(sparse, c, d), HasRole(d) => HasRole(c)
  PROVE  <<c, d>> \in FusionOrder
<1>1. ~Higher(FusedScore(d), FusedScore(c))
  BY FusedScoreGrows
<1>2. BestRank(c) < BestRank(d)
  <2>1. PICK l \in {dense, sparse} : d \in ToSet(l) /\ BestRank(d) = Rank(l, d)
    BY BestRankIsLeast DEF ListRanks
  <2>2. IsList(l) /\ NoWorse(l, c, d)
    BY DEF ListsInv
  <2>3. c \in ToSet(l) /\ ~(Rank(l, d) < Rank(l, c))
    BY <2>1, <2>2 DEF NoWorse, Before
  <2>4. /\ Rank(l, c) \in Nat /\ Rank(l, d) \in Nat
        /\ l[Rank(l, c)] = c /\ l[Rank(l, d)] = d
    BY <2>1, <2>2, <2>3, ListRank DEF IsList
  <2>5. Rank(l, c) < Rank(l, d)
    BY <2>3, <2>4
  <2>6. Rank(l, c) \in ListRanks(c)
    BY <2>3 DEF ListRanks
  <2>7. BestRank(c) <= Rank(l, c) /\ BestRank(c) \in Nat
    BY <2>6, BestRankIsLeast
  <2>8. QED
    BY <2>1, <2>4, <2>5, <2>7
<1>3. <<c, d>> \in BestRankOrder
  BY <1>2 DEF BestRankOrder
<1>4. QED
  BY <1>1, <1>3 DEF FusionOrder, HighestFirst

(***************************************************************************)
(* Removal of repeated content                                             *)
(***************************************************************************)

LEMMA UpToIsFinite ==
  ASSUME NEW k \in Nat
  PROVE  IsFiniteSet(1..k) /\ Cardinality(1..k) = k
BY FS_Interval

\* What is kept of a list: one chunk of each text, none behind its old place.
LEMMA DistinctAre ==
  ASSUME NEW l, IsList(l)
  PROVE  /\ IsList(SortedBy(Distinct(l), ListOrder(l)))
         /\ ToSet(SortedBy(Distinct(l), ListOrder(l))) = Distinct(l)
         /\ Len(SortedBy(Distinct(l), ListOrder(l))) <= Len(l)
         /\ \A c, d \in Distinct(l) : SameText(c, d) => c = d
         /\ \A c \in ToSet(l) : \E d \in Distinct(l) :
              SameText(c, d) /\ Rank(SortedBy(Distinct(l), ListOrder(l)), d) <= Rank(l, c)
<1> DEFINE D == Distinct(l)
           s == SortedBy(D, ListOrder(l))
<1>1. D \subseteq ToSet(l) /\ ToSet(l) \subseteq Chunks
  BY ListRank DEF Distinct
<1>2. IsOrder(ListOrder(l), D)
  BY <1>1, ListOrderIsOrder, OrderOfPart
<1>3. /\ IsList(s) /\ ToSet(s) = D /\ Len(s) = Cardinality(D)
      /\ \A c \in D : Rank(s, c) = Cardinality(Predecessors(D, ListOrder(l), c)) + 1
  BY <1>1, <1>2, SortedList
<1>4. Len(s) <= Len(l)
  BY <1>1, <1>3, ListSize, FS_Subset
<1>5. \A c \in ToSet(l) : Rank(l, c) \in 1..Len(l) /\ Rank(l, c) \in Nat /\ l[Rank(l, c)] = c
  BY ListRank DEF IsList
<1>6. ASSUME NEW c \in D, NEW d \in D, SameText(c, d) PROVE c = d
  <2>1. SameText(d, c)
    BY <1>6 DEF SameText
  <2>2. ~Before(l, d, c) /\ ~Before(l, c, d)
    BY <1>1, <1>6, <2>1 DEF Distinct
  <2>3. QED
    BY <1>1, <1>5, <2>2 DEF Before
<1>7. ASSUME NEW c \in ToSet(l)
      PROVE  \E d \in D : SameText(c, d) /\ Rank(s, d) <= Rank(l, c)
  <2> DEFINE G == {n \in 1..Len(l) : SameText(c, l[n])}
  <2>1. G \in SUBSET Nat /\ Rank(l, c) \in G
    BY <1>5 DEF SameText
  <2>2. PICK n \in G : \A k \in G : n <= k
    BY <2>1, LeastNumber
  <2>3. n \in 1..Len(l) /\ SameText(c, l[n]) /\ n <= Rank(l, c)
    BY <2>1, <2>2
  <2> DEFINE d == l[n]
  <2>4. d \in ToSet(l) /\ Rank(l, d) = n
    BY <2>3, ListRank
  <2>5. ASSUME NEW e \in ToSet(l), SameText(d, e), Before(l, e, d) PROVE FALSE
    <3>1. SameText(c, e)
      BY <2>3, <2>5 DEF SameText
    <3>2. Rank(l, e) \in G
      BY <1>5, <3>1
    <3>3. Rank(l, e) < n
      BY <2>4, <2>5 DEF Before
    <3>4. QED
      BY <1>5, <2>1, <2>2, <3>2, <3>3
  <2>6. d \in D
    BY <2>4, <2>5 DEF Distinct, SameText
  <2>7. Rank(s, d) <= n
    <3> DEFINE P == Predecessors(D, ListOrder(l), d)
               r == [e \in P |-> Rank(l, e)]
    <3>1. ASSUME NEW e \in P PROVE r[e] \in 1..(n - 1) /\ e \in ToSet(l)
      <4>1. e \in ToSet(l) /\ Rank(l, e) < n
        BY <1>1, <2>4 DEF Predecessors, ListOrder, Before
      <4>2. QED
        BY <1>5, <2>3, <4>1
    <3>2. ASSUME NEW e \in P, NEW g \in P, r[e] = r[g] PROVE e = g
      BY <1>5, <3>1, <3>2
    <3>3. r \in Injection(P, 1..(n - 1))
      <4>1. r \in [P -> 1..(n - 1)]
        BY <3>1
      <4> HIDE DEF r
      <4>2. QED
        BY <3>2, <4>1 DEF Injection, IsInjective
    <3>4. n - 1 \in Nat /\ n \in Nat
      BY <2>3 DEF IsList
    <3>5. IsFiniteSet(1..(n - 1)) /\ Cardinality(1..(n - 1)) = n - 1
      BY <3>4, UpToIsFinite
    <3>6. IsFiniteSet(P) /\ Cardinality(P) <= n - 1
      BY <3>3, <3>5, FS_Injection
    <3>7. Cardinality(P) \in Nat
      BY <3>6, FS_CardinalityType
    <3>8. Rank(s, d) = Cardinality(P) + 1
      BY <1>3, <2>6
    <3> HIDE DEF P, r, d, s
    <3>9. QED
      BY <3>4, <3>6, <3>7, <3>8
  <2>8. Rank(s, d) \in Nat
    BY <1>3, <2>6, ListRank DEF IsList
  <2>9. n \in Nat /\ Rank(l, c) \in Nat
    BY <1>5, <2>3 DEF IsList
  <2>10. Rank(s, d) <= Rank(l, c)
    <3> HIDE DEF d, s
    <3>1. QED
      BY <2>3, <2>7, <2>8, <2>9
  <2>11. QED
    BY <2>3, <2>6, <2>10
<1> HIDE DEF D, s
<1>8. QED
  BY <1>3, <1>4, <1>6, <1>7 DEF D, s

(***************************************************************************)
(* The role prior                                                          *)
(***************************************************************************)

\* The share of a place falls with its number.
LEMMA OverFalls ==
  ASSUME NEW w, IsFraction(w), NEW m \in Nat, NEW n \in Nat, m > 0, m <= n
  PROVE  ~Higher(Over(w, n), Over(w, m))
<1>1. n > 0
  OBVIOUS
<1>2. Higher(Over(w, n), Over(w, m)) <=> w[1] * (w[2] * m) > w[1] * (w[2] * n)
  BY <1>1, OverIsFraction DEF Higher
<1>3. w[1] \in Nat /\ w[2] \in Nat /\ w[1] * w[2] \in Nat
  BY DEF IsFraction
<1>4. n * (w[1] * w[2]) >= m * (w[1] * w[2])
  BY <1>3, ProductGrows
<1>5. /\ w[1] * (w[2] * m) = m * (w[1] * w[2]) /\ m * (w[1] * w[2]) \in Nat
      /\ w[1] * (w[2] * n) = n * (w[1] * w[2]) /\ n * (w[1] * w[2]) \in Nat
  BY <1>3
<1>6. QED
  BY <1>2, <1>4, <1>5

LEMMA PlusIsNoLess ==
  ASSUME NEW x, NEW y, IsFraction(x), IsFraction(y)
  PROVE  ~Higher(x, Plus(x, y))
<1> DEFINE a == x[1]
           b == x[2]
           c == y[1]
           d == y[2]
<1>1. a \in Nat /\ b \in Nat /\ c \in Nat /\ d \in Nat
  BY DEF IsFraction
<1>2. Higher(x, Plus(x, y)) <=> a * (b * d) > (a * d + c * b) * b
  BY DEF Higher, Plus
<1> HIDE DEF a, b, c, d
<1>3. (a * d + c * b) * b = a * (b * d) + c * (b * b) /\ c * (b * b) \in Nat /\ a * (b * d) \in Nat
  BY <1>1
<1>4. QED
  BY <1>2, <1>3

LEMMA RoleScoreIsFraction ==
  ASSUME IsList(judged), NEW c \in ToSet(judged)
  PROVE  /\ IsFraction(RoleScore(c)) /\ RoleRank(c) \in Nat
         /\ IsFraction(Over(<<1, 1>>, RankOffset + Rank(judged, c)))
         /\ IsFraction(Over(RoleWeight, RankOffset + RoleRank(c)))
<1>1. IsFiniteSet(ToSet(judged))
  BY ListSize
<1>2. RoleRank(c) \in Nat
  BY <1>1, FS_Subset, FS_CardinalityType DEF RoleRank
<1>3. Rank(judged, c) \in Nat
  BY ListRank DEF IsList
<1>4. /\ RankOffset + Rank(judged, c) \in Nat /\ RankOffset + Rank(judged, c) > 0
      /\ RankOffset + RoleRank(c) \in Nat /\ RankOffset + RoleRank(c) > 0
  BY <1>2, <1>3, WeightsAreFractions
<1>5. IsFraction(<<1, 1>>)
  BY DEF IsFraction
<1>6. /\ IsFraction(Over(<<1, 1>>, RankOffset + Rank(judged, c)))
      /\ IsFraction(Over(RoleWeight, RankOffset + RoleRank(c)))
  BY <1>4, <1>5, OverIsFraction, WeightsAreFractions
<1>7. IsFraction(RoleScore(c))
  BY <1>6, PlusIsFraction DEF RoleScore
<1>8. QED
  BY <1>2, <1>6, <1>7

LEMMA RoleOrderIsOrder ==
  ASSUME IsList(judged)
  PROVE  IsOrder(RoleOrder, ToSet(judged))
<1> DEFINE f == [c \in ToSet(judged) |-> RoleScore(c)]
<1>1. DOMAIN f = ToSet(judged) /\ \A c \in ToSet(judged) : IsFraction(f[c])
  BY RoleScoreIsFraction
<1> HIDE DEF f
<1>2. IsOrder(HighestFirst(f, ListOrder(judged)), ToSet(judged))
  BY <1>1, ListOrderIsOrder, HighestFirstIsOrder
<1>3. QED
  BY <1>2 DEF RoleOrder, f

\* A pair the prior turns round: the lower one has the role, the higher one has not.
LEMMA RoleOrderPromotes ==
  ASSUME IsList(judged), NEW c \in ToSet(judged), NEW d \in ToSet(judged),
         Before(judged, c, d), <<d, c>> \in RoleOrder
  PROVE  HasRole(d) /\ ~HasRole(c)
<1> DEFINE base(x) == Over(<<1, 1>>, RankOffset + Rank(judged, x))
           more(x) == Over(RoleWeight, RankOffset + RoleRank(x))
<1>1. /\ IsFraction(RoleScore(c)) /\ IsFraction(RoleScore(d))
      /\ IsFraction(base(c)) /\ IsFraction(base(d))
      /\ IsFraction(more(c)) /\ IsFraction(more(d))
      /\ RoleRank(c) \in Nat /\ RoleRank(d) \in Nat
  BY RoleScoreIsFraction
<1>2. /\ RoleScore(c) = IF HasRole(c) THEN Plus(base(c), more(c)) ELSE base(c)
      /\ RoleScore(d) = IF HasRole(d) THEN Plus(base(d), more(d)) ELSE base(d)
  BY DEF RoleScore
<1>3. Rank(judged, c) \in Nat /\ Rank(judged, d) \in Nat /\ Rank(judged, c) < Rank(judged, d)
  BY ListRank DEF IsList, Before
<1>4. Higher(RoleScore(d), RoleScore(c))
  <2>1. <<d, c>> \notin ListOrder(judged)
    BY <1>3 DEF ListOrder, Before
  <2>2. QED
    BY <2>1 DEF RoleOrder, HighestFirst
<1>5. ~Higher(base(d), base(c))
  <2> DEFINE m == RankOffset + Rank(judged, c)
             n == RankOffset + Rank(judged, d)
  <2>1. m \in Nat /\ n \in Nat /\ m > 0 /\ m <= n /\ IsFraction(<<1, 1>>)
    BY <1>3, WeightsAreFractions DEF IsFraction
  <2> HIDE DEF m, n
  <2>2. ~Higher(Over(<<1, 1>>, n), Over(<<1, 1>>, m))
    BY <2>1, OverFalls
  <2>3. QED
    BY <2>2 DEF m, n
<1>6. ~Higher(base(c), Plus(base(c), more(c)))
  BY <1>1, PlusIsNoLess
<1>7. ~Higher(base(c), RoleScore(c))
  <2>1. ~Higher(base(c), base(c))
    BY <1>1, HigherIsOrder
  <2>2. QED
    BY <1>2, <1>6, <2>1
<1>8. HasRole(d)
  <2>1. SUFFICES ASSUME ~HasRole(d) PROVE FALSE
    OBVIOUS
  <2>2. RoleScore(d) = base(d)
    BY <1>2, <2>1
  <2> HIDE DEF base, more
  <2>3. ~Higher(base(d), RoleScore(c))
    BY <1>1, <1>5, <1>7, HigherIsOrder
  <2>4. QED
    BY <1>4, <2>2, <2>3
<1>9. ~HasRole(c)
  <2>1. SUFFICES ASSUME HasRole(c) PROVE FALSE
    OBVIOUS
  <2>2. RoleRank(c) <= RoleRank(d)
    <3> DEFINE C == {e \in ToSet(judged) : HasRole(e) /\ ~Before(judged, c, e)}
               D == {e \in ToSet(judged) : HasRole(e) /\ ~Before(judged, d, e)}
    <3>1. C \subseteq D
      <4>1. \A e \in ToSet(judged) : Rank(judged, e) \in Nat
        BY ListRank DEF IsList
      <4>2. QED
        BY <1>3, <4>1 DEF Before
    <3>2. IsFiniteSet(D)
      BY ListSize, FS_Subset
    <3>3. Cardinality(C) <= Cardinality(D)
      BY <3>1, <3>2, FS_Subset
    <3>4. QED
      BY <3>3 DEF RoleRank
  <2>3. ~Higher(more(d), more(c))
    <3> DEFINE m == RankOffset + RoleRank(c)
               n == RankOffset + RoleRank(d)
    <3>1. m \in Nat /\ n \in Nat /\ m > 0 /\ m <= n
      BY <1>1, <2>2, WeightsAreFractions
    <3> HIDE DEF m, n
    <3>2. ~Higher(Over(RoleWeight, n), Over(RoleWeight, m))
      BY <3>1, OverFalls, WeightsAreFractions
    <3>3. QED
      BY <3>2 DEF m, n
  <2>4. ~Higher(Plus(base(d), more(d)), Plus(base(c), more(c)))
    <3> HIDE DEF base, more
    <3>1. QED
      BY <1>1, <1>5, <2>3, PlusGrows
  <2>5. QED
    BY <1>2, <1>4, <1>8, <2>1, <2>4
<1>10. QED
  BY <1>8, <1>9

(***************************************************************************)
(* The list-completeness fallback                                          *)
(***************************************************************************)

\* s is the list l with w in the place of its members k + 1 to m.
PartChanged(l, k, m, w, s) ==
  /\ IsList(l) /\ k \in Nat /\ m \in Nat /\ k <= m /\ m <= Len(l)
  /\ IsList(w) /\ Len(w) = m - k
  /\ \A x : x \in ToSet(w) <=> \E i \in (k + 1)..m : x = l[i]
  /\ Len(s) = Len(l) /\ s \in [1..Len(l) -> Chunks]
  /\ \A n \in 1..Len(l) : s[n] = IF n \in (k + 1)..m THEN w[n - k] ELSE l[n]

\* Reordering a part of a list keeps its members.
LEMMA PartReordered ==
  ASSUME NEW l, NEW k, NEW m, NEW w, NEW s, PartChanged(l, k, m, w, s)
  PROVE  IsList(s) /\ ToSet(s) = ToSet(l)
<1> USE DEF PartChanged
<1> DEFINE L == Len(l)
<1>1. L \in Nat /\ \A i, j \in 1..L : l[i] = l[j] => i = j
  BY DEF IsList
<1>0. DOMAIN w = 1..(m - k) /\ ToSet(w) = {w[i] : i \in 1..(m - k)}
  BY DEF IsList, ToSet
<1>2. ASSUME NEW i \in 1..(m - k) PROVE \E j \in (k + 1)..m : w[i] = l[j]
  <2>1. w[i] \in ToSet(w)
    BY <1>0
  <2>2. QED
    BY <2>1
<1>3. ASSUME NEW j \in (k + 1)..m PROVE \E i \in 1..(m - k) : w[i] = l[j]
  <2>1. l[j] \in ToSet(w)
    OBVIOUS
  <2>2. l[j] \in {w[i] : i \in 1..(m - k)}
    BY <1>0, <2>1
  <2>3. QED
    BY <2>2
<1>4. \A i, j \in 1..(m - k) : w[i] = w[j] => i = j
  BY DEF IsList
<1> HIDE DEF L
<1>5. ASSUME NEW n \in 1..L, n \in (k + 1)..m PROVE n - k \in 1..(m - k) /\ s[n] = w[n - k]
  BY <1>5 DEF L
<1>6. ASSUME NEW n \in 1..L, n \notin (k + 1)..m PROVE s[n] = l[n]
  BY <1>6 DEF L
<1>7. ASSUME NEW i \in 1..L, NEW j \in 1..L, s[i] = s[j] PROVE i = j
  <2>1. CASE i \in (k + 1)..m /\ j \in (k + 1)..m
    <3>1. i - k = j - k
      BY <1>4, <1>5, <1>7, <2>1
    <3>2. QED
      BY <1>1, <3>1
  <2>2. CASE i \in (k + 1)..m /\ j \notin (k + 1)..m
    <3>1. PICK g \in (k + 1)..m : w[i - k] = l[g]
      BY <1>2, <1>5, <2>2
    <3>2. g \in 1..L /\ l[g] = l[j]
      BY <1>1, <1>5, <1>6, <1>7, <2>2, <3>1 DEF L
    <3>3. QED
      BY <1>1, <2>2, <3>2
  <2>3. CASE i \notin (k + 1)..m /\ j \in (k + 1)..m
    <3>1. PICK g \in (k + 1)..m : w[j - k] = l[g]
      BY <1>2, <1>5, <2>3
    <3>2. g \in 1..L /\ l[g] = l[i]
      BY <1>1, <1>5, <1>6, <1>7, <2>3, <3>1 DEF L
    <3>3. QED
      BY <1>1, <2>3, <3>2
  <2>4. CASE i \notin (k + 1)..m /\ j \notin (k + 1)..m
    BY <1>1, <1>6, <1>7, <2>4
  <2>5. QED
    BY <2>1, <2>2, <2>3, <2>4
<1>8. IsList(s)
  BY <1>1, <1>7 DEF IsList, L
<1>9. ASSUME NEW n \in 1..L PROVE s[n] \in ToSet(l)
  <2>1. CASE n \in (k + 1)..m
    <3>1. PICK g \in (k + 1)..m : w[n - k] = l[g]
      BY <1>2, <1>5, <2>1
    <3>2. g \in 1..L
      BY <1>1 DEF L
    <3>3. QED
      BY <1>5, <2>1, <3>1, <3>2, ListRank DEF L
  <2>2. CASE n \notin (k + 1)..m
    BY <1>6, <2>2, ListRank DEF L
  <2>3. QED
    BY <2>1, <2>2
<1>10. ASSUME NEW n \in 1..L PROVE l[n] \in ToSet(s)
  <2>1. CASE n \in (k + 1)..m
    <3>1. PICK i \in 1..(m - k) : w[i] = l[n]
      BY <1>3, <2>1
    <3>2. i + k \in 1..L /\ i + k \in (k + 1)..m /\ (i + k) - k = i
      BY <1>1 DEF L
    <3>3. s[i + k] = l[n]
      BY <1>5, <3>1, <3>2
    <3>4. QED
      BY <1>8, <3>2, <3>3, ListRank DEF L
  <2>2. CASE n \notin (k + 1)..m
    <3>1. s[n] = l[n]
      BY <1>6, <2>2
    <3>2. QED
      BY <1>8, <3>1, ListRank DEF L
  <2>3. QED
    BY <2>1, <2>2
<1>11. QED
  <2>1. \A x \in ToSet(s) : \E n \in 1..L : x = s[n]
    BY <1>8, ListRank DEF L
  <2>2. \A x \in ToSet(l) : \E n \in 1..L : x = l[n]
    BY ListRank DEF L
  <2>3. ToSet(s) \subseteq ToSet(l)
    BY <1>9, <2>1
  <2>4. ToSet(l) \subseteq ToSet(s)
    BY <1>10, <2>2
  <2>5. QED
    BY <1>8, <2>3, <2>4

LEMMA PartOfList ==
  ASSUME NEW l, IsList(l), NEW i \in Nat, NEW j \in Nat, i >= 1, i <= j + 1, j <= Len(l)
  PROVE  /\ SubSeq(l, i, j) \in Seq(Chunks) /\ Len(SubSeq(l, i, j)) = j - i + 1
         /\ \A n \in 1..(j - i + 1) : SubSeq(l, i, j)[n] = l[n + i - 1]
<1>1. SubSeq(l, i, j) = [n \in 1..(j - i + 1) |-> l[n + i - 1]]
  BY DEF IsList
<1>2. \A n \in 1..(j - i + 1) : n + i - 1 \in 1..Len(l)
  BY DEF IsList
<1>3. j - i + 1 \in Nat
  OBVIOUS
<1> DEFINE k == j - i + 1
           s == SubSeq(l, i, j)
<1>4. [n \in 1..k |-> l[n + i - 1]] \in [1..k -> Chunks]
  BY <1>2 DEF IsList
<1>5. s \in [1..k -> Chunks] /\ \A n \in 1..k : s[n] = l[n + i - 1]
  BY <1>1, <1>4
<1>6. k \in Nat
  BY <1>3
<1> HIDE DEF k, s
<1>7. s \in Seq(Chunks) /\ Len(s) = k
  BY <1>5, <1>6
<1>8. QED
  BY <1>5, <1>7 DEF k, s

LEMMA NothingBeyond ==
  ASSUME NEW l, IsList(l), NEW i \in Nat, i > Len(l)
  PROVE  SubSeq(l, i, Len(l)) = <<>>
<1>1. SubSeq(l, i, Len(l)) = [n \in 1..(Len(l) - i + 1) |-> l[n + i - 1]]
  BY DEF IsList
<1>2. 1..(Len(l) - i + 1) = {}
  BY DEF IsList
<1>3. QED
  BY <1>1, <1>2

LEMMA TwoParts ==
  ASSUME NEW A \in Seq(Chunks), NEW B \in Seq(Chunks)
  PROVE  /\ A \o B \in Seq(Chunks) /\ Len(A \o B) = Len(A) + Len(B)
         /\ \A n \in 1..(Len(A) + Len(B)) :
              (A \o B)[n] = IF n <= Len(A) THEN A[n] ELSE B[n - Len(A)]
OBVIOUS

LEMMA ThreeParts ==
  ASSUME NEW A \in Seq(Chunks), NEW B \in Seq(Chunks), NEW C \in Seq(Chunks)
  PROVE  /\ A \o B \o C \in Seq(Chunks)
         /\ Len(A \o B \o C) = Len(A) + Len(B) + Len(C)
         /\ \A n \in 1..(Len(A) + Len(B) + Len(C)) :
              (A \o B \o C)[n] = IF n <= Len(A) THEN A[n]
                                 ELSE IF n <= Len(A) + Len(B) THEN B[n - Len(A)]
                                 ELSE C[n - Len(A) - Len(B)]
<1>1. /\ A \o B \in Seq(Chunks) /\ Len(A \o B) = Len(A) + Len(B)
      /\ \A n \in 1..(Len(A) + Len(B)) :
           (A \o B)[n] = IF n <= Len(A) THEN A[n] ELSE B[n - Len(A)]
  BY TwoParts
<1>2. Len(A) \in Nat /\ Len(B) \in Nat /\ Len(C) \in Nat
  OBVIOUS
<1> DEFINE E == A \o B
<1> HIDE DEF E
<1>3. /\ E \in Seq(Chunks) /\ Len(E) = Len(A) + Len(B)
      /\ \A n \in 1..(Len(A) + Len(B)) : E[n] = IF n <= Len(A) THEN A[n] ELSE B[n - Len(A)]
  BY <1>1 DEF E
<1>4. /\ E \o C \in Seq(Chunks) /\ Len(E \o C) = Len(E) + Len(C)
      /\ \A n \in 1..(Len(E) + Len(C)) :
           (E \o C)[n] = IF n <= Len(E) THEN E[n] ELSE C[n - Len(E)]
  BY <1>3, TwoParts
<1>5. ASSUME NEW n \in 1..(Len(A) + Len(B) + Len(C))
      PROVE  (E \o C)[n] = IF n <= Len(A) THEN A[n]
                           ELSE IF n <= Len(A) + Len(B) THEN B[n - Len(A)]
                           ELSE C[n - Len(A) - Len(B)]
  <2>1. (E \o C)[n] = IF n <= Len(E) THEN E[n] ELSE C[n - Len(E)]
    BY <1>3, <1>4
  <2>2. CASE n <= Len(E)
    <3>1. n \in 1..(Len(A) + Len(B))
      BY <1>2, <1>3, <2>2
    <3>2. E[n] = IF n <= Len(A) THEN A[n] ELSE B[n - Len(A)]
      BY <1>3, <3>1
    <3>3. n <= Len(A) + Len(B)
      BY <3>1
    <3>4. QED
      BY <2>1, <2>2, <3>2, <3>3
  <2>3. CASE ~(n <= Len(E))
    <3>1. n - Len(E) = n - Len(A) - Len(B) /\ ~(n <= Len(A)) /\ ~(n <= Len(A) + Len(B))
      BY <1>2, <1>3, <2>3
    <3>2. QED
      BY <2>1, <2>3, <3>1
  <2>4. QED
    BY <2>2, <2>3
<1>6. QED
  BY <1>2, <1>3, <1>4, <1>5 DEF E

LEMMA PromotedReorders ==
  ASSUME IsList(preferred), Len(preferred) > Kept, NEW f \in [ToSet(Window) -> Features]
  PROVE  IsList(Promoted(f)) /\ ToSet(Promoted(f)) = ToSet(preferred)
<1> DEFINE l == preferred
           L == Len(l)
           k == Kept
           m == IF WindowEnd < L THEN WindowEnd ELSE L
           A == FirstOf(l, Kept)
           W == Window
           O == HighestFirst(Whole(f), ListOrder(l))
           B == SortedBy(ToSet(W), O)
           C == SubSeq(l, WindowEnd + 1, L)
<1>1. /\ k \in Nat /\ m \in Nat /\ L \in Nat /\ WindowEnd \in Nat
      /\ k < L /\ k < m /\ m <= L /\ (m = WindowEnd \/ (m = L /\ WindowEnd >= L))
  BY RankAssumption DEF IsList
<1>2. IsList(l)
  OBVIOUS
<1>3. /\ A = SubSeq(l, 1, k) /\ W = SubSeq(l, k + 1, m)
  BY <1>1 DEF FirstOf, Window
<1> HIDE DEF l, L, k, m, A, W
<1>4. /\ A \in Seq(Chunks) /\ Len(A) = k /\ \A n \in 1..k : A[n] = l[n]
  <2>1. /\ SubSeq(l, 1, k) \in Seq(Chunks) /\ Len(SubSeq(l, 1, k)) = k - 1 + 1
        /\ \A n \in 1..(k - 1 + 1) : SubSeq(l, 1, k)[n] = l[n + 1 - 1]
    BY <1>1, <1>2, PartOfList DEF L
  <2>2. QED
    BY <1>1, <1>3, <2>1
<1>5. /\ W \in Seq(Chunks) /\ Len(W) = m - k
      /\ \A n \in 1..(m - k) : W[n] = l[n + k]
  <2>1. /\ SubSeq(l, k + 1, m) \in Seq(Chunks) /\ Len(SubSeq(l, k + 1, m)) = m - (k + 1) + 1
        /\ \A n \in 1..(m - (k + 1) + 1) : SubSeq(l, k + 1, m)[n] = l[n + (k + 1) - 1]
    BY <1>1, <1>2, PartOfList DEF L
  <2>2. QED
    BY <1>1, <1>3, <2>1
<1>6. /\ C \in Seq(Chunks) /\ Len(C) = L - m /\ \A n \in 1..(L - m) : C[n] = l[n + m]
  <2>1. CASE m = WindowEnd
    <3>1. /\ SubSeq(l, m + 1, L) \in Seq(Chunks) /\ Len(SubSeq(l, m + 1, L)) = L - (m + 1) + 1
          /\ \A n \in 1..(L - (m + 1) + 1) : SubSeq(l, m + 1, L)[n] = l[n + (m + 1) - 1]
      <4>1. /\ m + 1 \in Nat /\ m + 1 >= 1 /\ m + 1 <= Len(l) + 1 /\ Len(l) \in Nat
            /\ Len(l) <= Len(l)
        BY <1>1 DEF L
      <4>2. QED
        BY <1>2, <4>1, PartOfList DEF L
    <3>2. QED
      BY <1>1, <2>1, <3>1
  <2>2. CASE m = L /\ WindowEnd >= L
    <3>1. C = <<>>
      BY <1>1, <1>2, <2>2, NothingBeyond DEF L
    <3>2. QED
      BY <1>1, <2>2, <3>1
  <2>3. QED
    BY <1>1, <2>1, <2>2
<1>7. IsList(W) /\ \A x : x \in ToSet(W) <=> \E i \in (k + 1)..m : x = l[i]
  <2>1. ASSUME NEW i \in 1..(m - k), NEW j \in 1..(m - k), W[i] = W[j] PROVE i = j
    <3>1. i + k \in 1..L /\ j + k \in 1..L
      BY <1>1, <2>1
    <3>2. l[i + k] = l[j + k]
      BY <1>5, <2>1
    <3>3. i + k = j + k
      BY <1>2, <3>1, <3>2 DEF IsList, L
    <3>4. QED
      BY <1>1, <3>3
  <2>2. IsList(W)
    BY <1>5, <2>1 DEF IsList
  <2>3. ASSUME NEW n \in 1..(m - k) PROVE \E i \in (k + 1)..m : W[n] = l[i]
    <3>1. n + k \in (k + 1)..m
      BY <1>1
    <3>2. QED
      BY <1>5, <3>1
  <2>4. ASSUME NEW i \in (k + 1)..m PROVE \E n \in 1..(m - k) : W[n] = l[i]
    <3>1. i - k \in 1..(m - k) /\ (i - k) + k = i
      BY <1>1
    <3>2. QED
      BY <1>5, <3>1
  <2>5. ToSet(W) = {W[n] : n \in 1..(m - k)}
    BY <1>5 DEF ToSet
  <2>6. ASSUME NEW x PROVE x \in ToSet(W) <=> \E i \in (k + 1)..m : x = l[i]
    <3>1. x \in ToSet(W) <=> \E n \in 1..(m - k) : x = W[n]
      BY <2>5
    <3>2. QED
      BY <2>3, <2>4, <3>1
  <2>7. QED
    BY <2>2, <2>6
<1>8. ToSet(W) \subseteq ToSet(l)
  <2>1. \A i \in (k + 1)..m : i \in 1..L
    BY <1>1
  <2>2. QED
    BY <1>2, <1>7, <2>1, ListRank DEF L
<1>9. IsOrder(O, ToSet(W)) /\ ToSet(W) \in SUBSET Chunks
  <2>1. DOMAIN Whole(f) = ToSet(W)
    BY DEF Whole, W
  <2>2. ASSUME NEW c \in ToSet(W) PROVE IsFraction(Whole(f)[c])
    <3>1. f[c] \in Nat
      BY RankAssumption DEF W
    <3>2. Whole(f)[c] = <<f[c], 1>>
      BY <2>1 DEF Whole
    <3>3. QED
      BY <3>1, <3>2 DEF IsFraction
  <2>3. IsOrder(ListOrder(l), ToSet(W))
    BY <1>2, <1>8, ListOrderIsOrder, OrderOfPart
  <2>4. QED
    BY <1>2, <1>8, <2>1, <2>2, <2>3, HighestFirstIsOrder, ListRank
<1>10. IsList(B) /\ ToSet(B) = ToSet(W) /\ Len(B) = m - k
  <2>1. IsList(B) /\ ToSet(B) = ToSet(W) /\ Len(B) = Cardinality(ToSet(W))
    BY <1>9, SortedList
  <2>2. QED
    BY <1>5, <1>7, <2>1, ListSize
<1> DEFINE s == A \o B \o C
<1>11. Promoted(f) = s
  BY DEF Promoted, A, W, l, L
<1> HIDE DEF B, C, O
<1>12. /\ s \in Seq(Chunks) /\ Len(s) = L
       /\ \A n \in 1..L : s[n] = IF n <= k THEN A[n] ELSE IF n <= m THEN B[n - k] ELSE C[n - m]
  <2>1. B \in Seq(Chunks)
    BY <1>10 DEF IsList
  <2>2. Len(A) + Len(B) + Len(C) = L /\ Len(A) + Len(B) = m
    BY <1>1, <1>4, <1>6, <1>10
  <2>3. \A n \in 1..L : n - k - (m - k) = n - m
    BY <1>1
  <2>4. /\ A \o B \o C \in Seq(Chunks)
        /\ Len(A \o B \o C) = Len(A) + Len(B) + Len(C)
        /\ \A n \in 1..(Len(A) + Len(B) + Len(C)) :
              (A \o B \o C)[n] = IF n <= Len(A) THEN A[n]
                                 ELSE IF n <= Len(A) + Len(B) THEN B[n - Len(A)]
                                 ELSE C[n - Len(A) - Len(B)]
    BY <1>4, <1>6, <2>1, ThreeParts
  <2>5. \A n \in 1..L : s[n] = IF n <= Len(A) THEN A[n]
                                 ELSE IF n <= Len(A) + Len(B) THEN B[n - Len(A)]
                                 ELSE C[n - Len(A) - Len(B)]
    BY <2>2, <2>4
  <2> HIDE DEF s
  <2>6. QED
    BY <1>4, <1>10, <2>2, <2>3, <2>4, <2>5 DEF s
<1> HIDE DEF s
<1>13. ASSUME NEW n \in 1..L
       PROVE  s[n] = IF n \in (k + 1)..m THEN B[n - k] ELSE l[n]
  <2>1. CASE n <= k
    BY <1>1, <1>4, <1>12, <2>1
  <2>2. CASE n > k /\ n <= m
    BY <1>1, <1>12, <2>2
  <2>3. CASE n > m
    <3>1. n - m \in 1..(L - m) /\ (n - m) + m = n
      BY <1>1, <2>3
    <3>2. s[n] = C[n - m]
      BY <1>1, <1>12, <2>3
    <3>3. C[n - m] = l[n]
      BY <1>6, <3>1
    <3>4. n \notin (k + 1)..m
      BY <1>1, <2>3
    <3>5. QED
      BY <3>2, <3>3, <3>4
  <2>4. QED
    BY <1>1, <2>1, <2>2, <2>3
<1>14. s \in [1..L -> Chunks]
  BY <1>12
<1>15. IsList(s) /\ ToSet(s) = ToSet(l)
  <2>0. L = Len(l)
    BY DEF L
  <2>1. /\ k \in Nat /\ m \in Nat /\ k <= m /\ m <= Len(l)
        /\ IsList(B) /\ Len(B) = m - k
        /\ Len(s) = Len(l) /\ s \in [1..Len(l) -> Chunks]
    <3>1. k \in Nat /\ m \in Nat /\ k <= m /\ m <= Len(l)
      BY <1>1, <2>0
    <3>2. Len(s) = Len(l) /\ s \in [1..Len(l) -> Chunks]
      BY <1>12, <1>14, <2>0
    <3>3. QED
      BY <1>10, <3>1, <3>2
  <2>2. \A n \in 1..Len(l) : s[n] = IF n \in (k + 1)..m THEN B[n - k] ELSE l[n]
    BY <1>13 DEF L
  <2>3. \A x : x \in ToSet(B) <=> \E i \in (k + 1)..m : x = l[i]
    BY <1>7, <1>10
  <2>4. PartChanged(l, k, m, B, s)
    BY <1>2, <2>1, <2>2, <2>3 DEF PartChanged
  <2>5. QED
    BY <2>4, PartReordered
<1>16. QED
  BY <1>11, <1>15 DEF l

(***************************************************************************)
(* The invariant                                                           *)
(***************************************************************************)
KeptPool == SortedBy(Distinct(CandidatePool), ListOrder(CandidatePool))

\* Each order is a list without repetitions, of the members of the one before it,
\* and the candidates are still those of the two lists.
RankInv ==
  /\ stage \in Stages
  /\ ListsInv
  /\ IsList(pool) /\ IsList(judged) /\ IsList(preferred) /\ IsList(ranking)
  /\ stage = "deduplicate" => pool = CandidatePool
  /\ stage \in {"rerank", "role", "list", "done"} => pool = KeptPool
  /\ stage \in {"role", "list", "done"} => ToSet(judged) = ToSet(pool)
  /\ stage \in {"list", "done"} => ToSet(preferred) = ToSet(judged)
  /\ stage = "done" => ToSet(ranking) = ToSet(preferred)
  /\ stage = "failed" => pool # <<>>
  /\ RoleOnlyPromotes

LEMMA NothingIsList == IsList(<<>>)
BY DEF IsList

LEMMA PoolIsFixed ==
  ASSUME dense' = dense, sparse' = sparse, queryRole' = queryRole
  PROVE  CandidatePool' = CandidatePool /\ KeptPool' = KeptPool
<1>1. Mandatory' = Mandatory /\ Candidates' = Candidates
  BY DEF Mandatory, Candidates
<1>2. FusionOrder' = FusionOrder
  <2>1. BestRankOrder' = BestRankOrder
    BY <1>1 DEF BestRankOrder, BestRank, ListRanks
  <2>2. [c \in Candidates |-> FusedScore(c)]' = [c \in Candidates |-> FusedScore(c)]
    BY <1>1 DEF FusedScore, HasRole
  <2>3. QED
    BY <2>1, <2>2 DEF FusionOrder
<1>3. Selected' = Selected
  BY <1>1, <1>2 DEF Selected
<1>4. CandidatePool' = CandidatePool
  BY <1>2, <1>3 DEF CandidatePool
<1>5. QED
  BY <1>4 DEF KeptPool

LEMMA RankInitInv == RankInit => RankInv
<1>1. SUFFICES ASSUME RankInit PROVE RankInv
  OBVIOUS
<1>2. /\ stage = "retrieve" /\ dense = <<>> /\ sparse = <<>>
      /\ pool = <<>> /\ judged = <<>> /\ preferred = <<>> /\ ranking = <<>>
  BY <1>1 DEF RankInit
<1>3. IsList(<<>>)
  BY NothingIsList
<1>4. QED
  BY <1>2, <1>3 DEF RankInv, ListsInv, Stages, RoleOnlyPromotes

LEMMA RankStep == RankInv /\ [RankNext]_rankVars => RankInv'
<1>1. SUFFICES ASSUME RankInv, [RankNext]_rankVars PROVE RankInv'
  OBVIOUS
<1>2. /\ stage \in Stages /\ ListsInv
      /\ IsList(pool) /\ IsList(judged) /\ IsList(preferred) /\ IsList(ranking)
      /\ RoleOnlyPromotes
  BY <1>1 DEF RankInv
<1>3. CASE Retrieve
  <2>1. /\ stage' = "fuse" /\ pool' = pool /\ judged' = judged /\ preferred' = preferred
        /\ ranking' = ranking /\ dense' \in Lists(DenseLimit) /\ sparse' \in Lists(SparseLimit)
    BY <1>3 DEF Retrieve
  <2>2. ASSUME NEW n \in Nat, NEW l \in Lists(n) PROVE IsList(l)
    <3>1. PICK k \in 0..n : l \in [1..k -> Chunks]
      BY DEF Lists
    <3>2. IsInjective(l)
      BY DEF Lists
    <3>3. Len(l) = k
      BY <3>1
    <3>4. QED
      BY <3>1, <3>2, <3>3 DEF IsList, IsInjective
  <2>3. ListsInv'
    BY <2>1, <2>2, RankAssumption DEF ListsInv
  <2>4. IsList(pool)' /\ IsList(judged)' /\ IsList(preferred)' /\ IsList(ranking)'
    BY <1>2, <2>1
  <2>5. QED
    BY <2>1, <2>3, <2>4 DEF RankInv, Stages, RoleOnlyPromotes
<1>4. ASSUME dense' = dense, sparse' = sparse, queryRole' = queryRole
      PROVE  ListsInv' /\ CandidatePool' = CandidatePool /\ KeptPool' = KeptPool
  BY <1>2, <1>4, PoolIsFixed DEF ListsInv
<1>5. CASE Fuse
  <2>1. /\ dense' = dense /\ sparse' = sparse /\ queryRole' = queryRole
        /\ judged' = judged /\ preferred' = preferred /\ ranking' = ranking
    BY <1>5 DEF Fuse
  <2>2. /\ Cardinality(Mandatory) \in Nat /\ MaxCandidates \in Nat
        /\ Cardinality(Mandatory) <= MaxCandidates
    BY <1>2, SelectedAre, RankAssumption
  <2>3. ~(Cardinality(Mandatory) > MaxCandidates)
    BY <2>2
  <2>4. stage' = "deduplicate" /\ pool' = CandidatePool
    BY <1>5, <2>3 DEF Fuse
  <2>5. IsList(CandidatePool)
    BY <1>2, PoolIsSelected
  <2>6. IsList(pool)' /\ IsList(judged)' /\ IsList(preferred)' /\ IsList(ranking)'
    BY <1>2, <2>1, <2>4, <2>5
  <2>7. pool' = CandidatePool'
    BY <1>4, <2>1, <2>4
  <2>8. QED
    BY <1>4, <2>1, <2>4, <2>6, <2>7 DEF RankInv, Stages, RoleOnlyPromotes
<1>6. CASE Deduplicate
  <2>1. /\ dense' = dense /\ sparse' = sparse /\ queryRole' = queryRole
        /\ judged' = judged /\ preferred' = preferred /\ ranking' = ranking
        /\ stage = "deduplicate" /\ stage' = "rerank"
        /\ pool' = SortedBy(Distinct(pool), ListOrder(pool))
    BY <1>6 DEF Deduplicate
  <2>2. pool = CandidatePool
    BY <1>1, <2>1 DEF RankInv
  <2>3. pool' = KeptPool
    BY <2>1, <2>2 DEF KeptPool
  <2>4. IsList(pool')
    BY <1>2, <2>1, DistinctAre
  <2>5. IsList(pool)' /\ IsList(judged)' /\ IsList(preferred)' /\ IsList(ranking)'
    BY <1>2, <2>1, <2>4
  <2>6. pool' = KeptPool'
    BY <1>4, <2>1, <2>3
  <2>7. QED
    BY <1>4, <2>1, <2>5, <2>6 DEF RankInv, Stages, RoleOnlyPromotes
<1>7. CASE Rerank
  <2>1. /\ dense' = dense /\ sparse' = sparse /\ queryRole' = queryRole
        /\ pool' = pool /\ preferred' = preferred /\ ranking' = ranking
        /\ stage = "rerank" /\ stage' = "role"
    BY <1>7 DEF Rerank
  <2>2. PICK s \in [ToSet(pool) -> Scores] :
          judged' = SortedBy(ToSet(pool), HighestFirst(Whole(s), ListOrder(pool)))
    BY <1>7 DEF Rerank
  <2>3. IsOrder(HighestFirst(Whole(s), ListOrder(pool)), ToSet(pool))
    <3>1. DOMAIN Whole(s) = ToSet(pool)
      BY DEF Whole
    <3>2. ASSUME NEW c \in ToSet(pool) PROVE IsFraction(Whole(s)[c])
      <4>1. s[c] \in Scores /\ s[c] \in Nat
        BY RankAssumption
      <4>2. Whole(s)[c] = <<s[c], 1>>
        BY <3>1 DEF Whole
      <4>3. QED
        BY <4>1, <4>2 DEF IsFraction
    <3>3. IsOrder(ListOrder(pool), ToSet(pool))
      BY <1>2, ListOrderIsOrder
    <3>4. QED
      BY <3>1, <3>2, <3>3, HighestFirstIsOrder
  <2>4. ToSet(pool) \in SUBSET Chunks
    BY <1>2, ListRank
  <2>5. IsList(judged') /\ ToSet(judged') = ToSet(pool)
    BY <2>2, <2>3, <2>4, SortedList
  <2>6. IsList(pool)' /\ IsList(judged)' /\ IsList(preferred)' /\ IsList(ranking)'
    BY <1>2, <2>1, <2>5
  <2>7. pool' = KeptPool' /\ ToSet(judged)' = ToSet(pool)'
    BY <1>1, <1>4, <2>1, <2>5 DEF RankInv
  <2>8. QED
    BY <1>4, <2>1, <2>6, <2>7 DEF RankInv, Stages, RoleOnlyPromotes
<1>8. CASE RerankFails
  <2>1. /\ dense' = dense /\ sparse' = sparse /\ queryRole' = queryRole
        /\ pool' = pool /\ judged' = judged /\ preferred' = preferred /\ ranking' = ranking
        /\ pool # <<>> /\ stage' = "failed"
    BY <1>8 DEF RerankFails
  <2>2. IsList(pool)' /\ IsList(judged)' /\ IsList(preferred)' /\ IsList(ranking)'
    BY <1>2, <2>1
  <2>3. QED
    BY <1>4, <2>1, <2>2 DEF RankInv, Stages, RoleOnlyPromotes
<1>9. CASE ApplyRole
  <2>1. /\ dense' = dense /\ sparse' = sparse /\ queryRole' = queryRole
        /\ pool' = pool /\ judged' = judged /\ ranking' = ranking
        /\ stage = "role" /\ stage' = "list"
    BY <1>9 DEF ApplyRole
  <2>2. /\ IsList(preferred') /\ ToSet(preferred') = ToSet(judged)
        /\ \A c, d \in ToSet(judged) :
             Before(judged, c, d) /\ Before(preferred', d, c) => HasRole(d) /\ ~HasRole(c)
    <3>1. CASE queryRole = "neutral"
      <4>1. preferred' = judged
        BY <1>9, <3>1 DEF ApplyRole
      <4>2. ASSUME NEW c \in ToSet(judged) PROVE Rank(judged, c) \in Nat
        <5>1. Rank(judged, c) \in 1..Len(judged)
          BY <1>2, ListRank
        <5>2. QED
          BY <1>2, <5>1 DEF IsList
      <4>3. QED
        BY <1>2, <4>1, <4>2 DEF Before
    <3>2. CASE queryRole # "neutral"
      <4>1. preferred' = SortedBy(ToSet(judged), RoleOrder)
        BY <1>9, <3>2 DEF ApplyRole
      <4>2. IsOrder(RoleOrder, ToSet(judged)) /\ ToSet(judged) \in SUBSET Chunks
        BY <1>2, RoleOrderIsOrder, ListRank
      <4>3. /\ IsList(preferred') /\ ToSet(preferred') = ToSet(judged)
            /\ \A c, d \in ToSet(judged) : Before(preferred', d, c) <=> <<d, c>> \in RoleOrder
        BY <4>1, <4>2, SortedList
      <4>4. QED
        BY <1>2, <4>3, RoleOrderPromotes
    <3>3. QED
      BY <3>1, <3>2
  <2>3. RoleOnlyPromotes'
    BY <2>1, <2>2 DEF RoleOnlyPromotes, HasRole
  <2>4. IsList(pool)' /\ IsList(judged)' /\ IsList(preferred)' /\ IsList(ranking)'
    BY <1>2, <2>1, <2>2
  <2>5. pool' = KeptPool' /\ ToSet(judged)' = ToSet(pool)' /\ ToSet(preferred)' = ToSet(judged)'
    BY <1>1, <1>4, <2>1, <2>2 DEF RankInv
  <2>6. QED
    BY <1>4, <2>1, <2>3, <2>4, <2>5 DEF RankInv, Stages
<1>10. ASSUME /\ dense' = dense /\ sparse' = sparse /\ queryRole' = queryRole
              /\ pool' = pool /\ judged' = judged /\ preferred' = preferred
              /\ stage = "list" /\ stage' = "done",
              IsList(ranking'), ToSet(ranking') = ToSet(preferred)
       PROVE  RankInv'
  <2>1. RoleOnlyPromotes'
    BY <1>2, <1>10 DEF RoleOnlyPromotes, HasRole
  <2>2. IsList(pool)' /\ IsList(judged)' /\ IsList(preferred)' /\ IsList(ranking)'
    BY <1>2, <1>10
  <2>3. /\ pool' = KeptPool' /\ ToSet(judged)' = ToSet(pool)'
        /\ ToSet(preferred)' = ToSet(judged)' /\ ToSet(ranking)' = ToSet(preferred)'
    BY <1>1, <1>4, <1>10 DEF RankInv
  <2>4. QED
    BY <1>4, <1>10, <2>1, <2>2, <2>3 DEF RankInv, Stages
<1>11. CASE KeepOrder
  <2>1. ranking' = preferred
    BY <1>11 DEF KeepOrder
  <2>2. QED
    BY <1>2, <1>10, <1>11, <2>1 DEF KeepOrder
<1>12. CASE ApplyList
  <2>1. PICK f \in [ToSet(Window) -> Features] : ranking' = Promoted(f)
    BY <1>12 DEF ApplyList
  <2>2. IsList(ranking') /\ ToSet(ranking') = ToSet(preferred)
    BY <1>2, <1>12, <2>1, PromotedReorders DEF ApplyList
  <2>3. QED
    BY <1>10, <1>12, <2>2 DEF ApplyList
<1>13. CASE UNCHANGED rankVars
  <2>1. /\ dense' = dense /\ sparse' = sparse /\ queryRole' = queryRole /\ stage' = stage
        /\ pool' = pool /\ judged' = judged /\ preferred' = preferred /\ ranking' = ranking
    BY <1>13 DEF rankVars
  <2>2. RoleOnlyPromotes'
    BY <1>2, <2>1 DEF RoleOnlyPromotes, HasRole
  <2>3. IsList(pool)' /\ IsList(judged)' /\ IsList(preferred)' /\ IsList(ranking)'
    BY <1>2, <2>1
  <2>4. QED
    BY <1>1, <1>4, <2>1, <2>2, <2>3 DEF RankInv
<1>14. QED
  BY <1>1, <1>3, <1>5, <1>6, <1>7, <1>8, <1>9, <1>11, <1>12, <1>13 DEF RankNext

\* Every order of the ranking pipeline is a list without repetitions, of the members of
\* the one before it (RerankPipeline.search and the policies it calls).
THEOREM RankInvariant == RankSpec => []RankInv
BY RankInitInv, RankStep, PTL DEF RankSpec

LEMMA KeptPoolIs ==
  ASSUME ListsInv
  PROVE  /\ IsList(KeptPool) /\ Len(KeptPool) <= Len(CandidatePool)
         /\ \A c, d \in ToSet(KeptPool) : SameText(c, d) => c = d
         /\ \A c \in ToSet(CandidatePool) : \E d \in ToSet(KeptPool) :
              SameText(c, d) /\ Rank(KeptPool, d) <= Rank(CandidatePool, c)
BY PoolIsSelected, DistinctAre DEF KeptPool

\* The final ranking is the deduplicated candidates: the role prior and the list
\* fallback lose and repeat none, and no text of a document is in it twice.
THEOREM RankingIsAlwaysPool == RankSpec => []RankingIsPool
<1>1. RankInv => RankingIsPool
  <2>1. SUFFICES ASSUME RankInv, stage = "done" PROVE
          /\ ToSet(ranking) = ToSet(pool) /\ Len(ranking) = Len(pool)
          /\ \A c, d \in ToSet(ranking) : SameText(c, d) => c = d
    BY DEF RankingIsPool
  <2>2. /\ ToSet(ranking) = ToSet(pool) /\ pool = KeptPool /\ IsList(ranking) /\ IsList(pool)
        /\ ListsInv
    BY <2>1 DEF RankInv
  <2>3. Len(ranking) = Len(pool)
    BY <2>2, ListSize
  <2>4. QED
    BY <2>2, <2>3, KeptPoolIs
<1>2. QED
  BY <1>1, RankInvariant, PTL

\* apply_role_aware_rank_fusion only lifts chunks of the query's role over others.
THEOREM RoleAlwaysPromotes == RankSpec => []RoleOnlyPromotes
<1>1. RankInv => RoleOnlyPromotes
  BY DEF RankInv
<1>2. QED
  BY <1>1, RankInvariant, PTL

\* fuse_weighted_rrf respects both lists where they agree, whatever the
\* weights, the RRF constant and the boost.
THEOREM FusionAlwaysMonotone == RankSpec => []FusionIsMonotone
<1>1. RankInv => FusionIsMonotone
  <2>1. SUFFICES ASSUME RankInv, stage = "deduplicate", NEW c \in ToSet(pool), NEW d \in ToSet(pool),
                        c # d, NoWorse(dense, c, d), NoWorse(sparse, c, d), HasRole(d) => HasRole(c)
                 PROVE  Before(pool, c, d)
    BY DEF FusionIsMonotone
  <2>2. ListsInv /\ pool = CandidatePool
    BY <2>1 DEF RankInv
  <2>3. /\ c \in Selected /\ d \in Selected
        /\ Before(pool, c, d) <=> <<c, d>> \in FusionOrder
    BY <2>2, PoolIsSelected
  <2>4. c \in Candidates /\ d \in Candidates
    BY <2>2, <2>3, SelectedAre
  <2>5. <<c, d>> \in FusionOrder
    BY <2>1, <2>2, <2>4, NoWorseIsBefore
  <2>6. QED
    BY <2>3, <2>5
<1>2. QED
  BY <1>1, RankInvariant, PTL

\* Within the budget, every chunk of a reserve has its text among the candidates of
\* the cross-encoder (select_coverage_preserving_candidates and the deduplication).
THEOREM ReservesAlwaysSurvive == RankSpec => []ReservesSurvive
<1>1. RankInv => ReservesSurvive
  <2>1. SUFFICES ASSUME RankInv, stage = "rerank"
                 PROVE  /\ Len(pool) <= MaxCandidates
                        /\ \A c \in Mandatory : \E d \in ToSet(pool) : SameText(c, d)
    BY DEF RankInv, ReservesSurvive
  <2>2. ListsInv /\ pool = KeptPool /\ IsList(pool)
    BY <2>1 DEF RankInv
  <2>3. Len(pool) <= MaxCandidates
    <3>1. Len(pool) <= Len(CandidatePool)
      BY <2>2, KeptPoolIs
    <3>2. Len(CandidatePool) <= MaxCandidates /\ IsList(CandidatePool)
      BY <2>2, PoolIsSelected, SelectedAre
    <3>3. Len(pool) \in Nat /\ Len(CandidatePool) \in Nat /\ MaxCandidates \in Nat
      BY <2>2, <3>2, RankAssumption DEF IsList
    <3>4. QED
      BY <3>1, <3>2, <3>3
  <2>4. \A c \in Mandatory : c \in ToSet(CandidatePool)
    BY <2>2, PoolIsSelected, SelectedAre
  <2>5. QED
    BY <2>2, <2>3, <2>4, KeptPoolIs
<1>2. QED
  BY <1>1, RankInvariant, PTL

LEMMA RelevantRankIs ==
  ASSUME NEW l, IsList(l), NEW Q
  PROVE  /\ RelevantRank(l, Q) \in Nat
         /\ RelevantRank(l, Q) # 0 =>
              RelevantRank(l, Q) \in 1..Len(l) /\ l[RelevantRank(l, Q)] \in Q
         /\ \A n \in 1..Len(l) :
              l[n] \in Q => RelevantRank(l, Q) # 0 /\ RelevantRank(l, Q) <= n
<1> DEFINE hits == {n \in DOMAIN l : l[n] \in Q}
<1>1. hits = {n \in 1..Len(l) : l[n] \in Q} /\ hits \in SUBSET Nat /\ Len(l) \in Nat
  BY DEF IsList
<1>2. RelevantRank(l, Q) = IF hits = {} THEN 0 ELSE CHOOSE n \in hits : \A k \in hits : n <= k
  BY DEF RelevantRank
<1>3. CASE hits = {}
  BY <1>1, <1>2, <1>3
<1>4. CASE hits # {}
  <2>1. \E n \in hits : \A k \in hits : n <= k
    BY <1>1, <1>4, LeastNumber
  <2>2. RelevantRank(l, Q) \in hits /\ \A k \in hits : RelevantRank(l, Q) <= k
    BY <1>2, <1>4, <2>1
  <2>3. QED
    BY <1>1, <2>2
<1>5. QED
  BY <1>3, <1>4

\* deduplicate_candidates_by_content costs the evaluation neither a hit nor a place
\* when the judgements are closed by expand_exact_equivalent_qrels.
THEOREM DeduplicationAlwaysKeepsHits == RankSpec => []DeduplicationKeepsHits
<1>1. RankInv => DeduplicationKeepsHits
  <2>1. SUFFICES ASSUME RankInv, stage = "rerank", NEW Q \in SUBSET Chunks,
                        RelevantRank(CandidatePool, Expanded(Q)) # 0
                 PROVE  RelevantRank(pool, Expanded(Q)) \in 1..RelevantRank(CandidatePool, Expanded(Q))
    BY DEF DeduplicationKeepsHits
  <2>2. ListsInv /\ pool = KeptPool /\ IsList(pool)
    BY <2>1 DEF RankInv
  <2>3. IsList(CandidatePool)
    BY <2>2, PoolIsSelected
  <2> DEFINE E == Expanded(Q)
             b == RelevantRank(CandidatePool, E)
             c == CandidatePool[b]
  <2> HIDE DEF E
  <2>4. b \in 1..Len(CandidatePool) /\ c \in E
    BY <2>1, <2>3, RelevantRankIs DEF E
  <2>5. c \in ToSet(CandidatePool) /\ Rank(CandidatePool, c) = b
    BY <2>3, <2>4, ListRank
  <2>6. PICK d \in ToSet(KeptPool) : SameText(c, d) /\ Rank(KeptPool, d) <= Rank(CandidatePool, c)
    BY <2>2, <2>5, KeptPoolIs
  <2>7. d \in Chunks /\ Rank(pool, d) \in 1..Len(pool) /\ pool[Rank(pool, d)] = d
    BY <2>2, <2>6, ListRank
  <2>8. d \in E
    <3>1. PICK e \in Q : SameText(c, e)
      BY <2>4 DEF E, Expanded
    <3>2. SameText(d, e)
      BY <2>6, <3>1 DEF SameText
    <3>3. QED
      BY <2>7, <3>2 DEF E, Expanded
  <2>9. /\ RelevantRank(pool, E) \in Nat /\ RelevantRank(pool, E) # 0
        /\ RelevantRank(pool, E) <= Rank(pool, d)
    BY <2>2, <2>7, <2>8, RelevantRankIs
  <2>10. Rank(pool, d) <= b /\ b \in Nat /\ Rank(pool, d) \in Nat
    <3>1. Len(pool) \in Nat /\ Len(CandidatePool) \in Nat
      BY <2>2, <2>3 DEF IsList
    <3>2. QED
      BY <2>2, <2>4, <2>5, <2>6, <2>7, <3>1
  <2> HIDE DEF b
  <2>11. RelevantRank(pool, E) \in 1..b
    BY <2>9, <2>10
  <2>12. QED
    BY <2>11 DEF E, b
<1>2. QED
  BY <1>1, RankInvariant, PTL

(***************************************************************************)
(* Sums: induction over a sequence is the least counterexample of a set.   *)
(***************************************************************************)
IsPrefixSum(g, s, n) ==
  /\ g \in [0..n -> Nat]
  /\ g[0] = 0
  /\ \A k \in 1..n : g[k] = g[k - 1] + s[k]

LEMMA PrefixSumExists ==
  ASSUME NEW s \in Seq(Nat), NEW n \in 0..Len(s)
  PROVE  \E g : IsPrefixSum(g, s, n)
<1> DEFINE bad == {m \in 0..Len(s) : ~\E g : IsPrefixSum(g, s, m)}
<1>1. ASSUME bad # {} PROVE FALSE
  <2>1. PICK m \in bad : \A j \in bad : m <= j
    <3>1. bad \in SUBSET Nat
      OBVIOUS
    <3> HIDE DEF bad
    <3>2. QED
      BY <1>1, <3>1, LeastNumber
  <2>2. m # 0
    <3>1. IsPrefixSum([k \in 0..0 |-> 0], s, 0)
      BY DEF IsPrefixSum
    <3>2. QED
      BY <3>1
  <2>3. PICK g : IsPrefixSum(g, s, m - 1)
    BY <2>1, <2>2
  <2> DEFINE h == [k \in 0..m |-> IF k = m THEN g[m - 1] + s[m] ELSE g[k]]
  <2>4. m \in 1..Len(s) /\ s[m] \in Nat /\ g[m - 1] \in Nat
    BY <2>2, <2>3 DEF IsPrefixSum
  <2>5. h \in [0..m -> Nat] /\ h[0] = 0
    BY <2>3, <2>4 DEF IsPrefixSum
  <2>6. \A k \in 1..m : h[k] = h[k - 1] + s[k]
    BY <2>3, <2>4 DEF IsPrefixSum
  <2>7. IsPrefixSum(h, s, m)
    BY <2>5, <2>6 DEF IsPrefixSum
  <2>8. QED
    BY <2>1, <2>7
<1>2. QED
  BY <1>1

LEMMA PrefixSumsAre ==
  ASSUME NEW s \in Seq(Nat)
  PROVE  IsPrefixSum(PrefixSums(s), s, Len(s))
<1>1. PICK g : IsPrefixSum(g, s, Len(s))
  BY PrefixSumExists
<1>2. g = [n \in 0..Len(s) |-> IF n = 0 THEN 0 ELSE g[n - 1] + s[n]]
  BY <1>1 DEF IsPrefixSum
<1>3. PrefixSums(s) = [n \in 0..Len(s) |-> IF n = 0 THEN 0 ELSE PrefixSums(s)[n - 1] + s[n]]
  BY <1>2 DEF PrefixSums
<1> DEFINE p == PrefixSums(s)
<1>4. p[0] = 0 /\ \A k \in 1..Len(s) : p[k] = p[k - 1] + s[k]
  BY <1>3
<1> HIDE DEF p
<1> DEFINE bad == {n \in 0..Len(s) : p[n] # g[n]}
<1>5. ASSUME bad # {} PROVE FALSE
  <2>1. PICK m \in bad : \A j \in bad : m <= j
    <3>1. bad \in SUBSET Nat
      OBVIOUS
    <3> HIDE DEF bad
    <3>2. QED
      BY <1>5, <3>1, LeastNumber
  <2>2. m # 0
    BY <1>1, <1>4 DEF IsPrefixSum
  <2>3. p[m - 1] = g[m - 1]
    BY <2>1, <2>2
  <2>4. QED
    BY <1>1, <1>4, <2>2, <2>3 DEF IsPrefixSum
<1>6. \A n \in 0..Len(s) : p[n] = g[n]
  BY <1>5
<1>7. p = [n \in 0..Len(s) |-> IF n = 0 THEN 0 ELSE p[n - 1] + s[n]]
  BY <1>3 DEF p
<1>8. p = g
  BY <1>1, <1>6, <1>7 DEF IsPrefixSum
<1>9. QED
  BY <1>1, <1>8 DEF p

LEMMA TotalOfPrefixes ==
  ASSUME NEW s \in Seq(Nat)
  PROVE  \E g : IsPrefixSum(g, s, Len(s)) /\ Total(s) = g[Len(s)] /\ Total(s) \in Nat
<1>1. IsPrefixSum(PrefixSums(s), s, Len(s))
  BY PrefixSumsAre
<1>2. Total(s) = PrefixSums(s)[Len(s)]
  BY DEF Total
<1>3. PrefixSums(s)[Len(s)] \in Nat
  <2>1. PrefixSums(s) \in [0..Len(s) -> Nat]
    BY <1>1 DEF IsPrefixSum
  <2>2. QED
    BY <2>1
<1>4. QED
  BY <1>1, <1>2, <1>3

\* Texts that are shown or cut add up: the sum of the sums.
LEMMA TotalOfSums ==
  ASSUME NEW s \in Seq(Nat), NEW t \in Seq(Nat), NEW u \in Seq(Nat),
         Len(t) = Len(s), Len(u) = Len(s), \A i \in 1..Len(s) : u[i] = s[i] + t[i]
  PROVE  Total(u) = Total(s) + Total(t)
<1>1. PICK f : IsPrefixSum(f, s, Len(s)) /\ Total(s) = f[Len(s)]
  BY TotalOfPrefixes
<1>2. PICK g : IsPrefixSum(g, t, Len(s)) /\ Total(t) = g[Len(s)]
  BY TotalOfPrefixes
<1>3. PICK h : IsPrefixSum(h, u, Len(s)) /\ Total(u) = h[Len(s)]
  BY TotalOfPrefixes
<1> DEFINE bad == {n \in 0..Len(s) : h[n] # f[n] + g[n]}
<1>4. ASSUME bad # {} PROVE FALSE
  <2>1. PICK m \in bad : \A j \in bad : m <= j
    <3>1. bad \in SUBSET Nat
      OBVIOUS
    <3> HIDE DEF bad
    <3>2. QED
      BY <1>4, <3>1, LeastNumber
  <2>2. m # 0
    BY <1>1, <1>2, <1>3 DEF IsPrefixSum
  <2>3. h[m - 1] = f[m - 1] + g[m - 1]
    BY <2>1, <2>2
  <2>4. m \in 1..Len(s) /\ m - 1 \in 0..Len(s)
    BY <2>2
  <2>5. h[m] = h[m - 1] + u[m] /\ f[m] = f[m - 1] + s[m] /\ g[m] = g[m - 1] + t[m]
    BY <1>1, <1>2, <1>3, <2>4 DEF IsPrefixSum
  <2>6. f[m - 1] \in Nat /\ g[m - 1] \in Nat
    <3>1. f \in [0..Len(s) -> Nat] /\ g \in [0..Len(s) -> Nat]
      BY <1>1, <1>2 DEF IsPrefixSum
    <3>2. QED
      BY <2>4, <3>1
  <2>7. u[m] = s[m] + t[m] /\ s[m] \in Nat /\ t[m] \in Nat
    BY <2>4
  <2>8. h[m] = f[m] + g[m]
    BY <2>3, <2>5, <2>6, <2>7
  <2>9. QED
    BY <2>1, <2>8
<1>5. QED
  BY <1>1, <1>2, <1>3, <1>4

\* A sum changes by what one of its elements does.
LEMMA TotalOfChange ==
  ASSUME NEW s \in Seq(Nat), NEW i \in 1..Len(s), NEW k \in Nat
  PROVE  Total([s EXCEPT ![i] = @ + k]) = Total(s) + k
<1> DEFINE u == [s EXCEPT ![i] = @ + k]
<1>0. u \in Seq(Nat) /\ Len(u) = Len(s)
  OBVIOUS
<1>1. PICK f : IsPrefixSum(f, s, Len(s)) /\ Total(s) = f[Len(s)]
  BY TotalOfPrefixes
<1>2. PICK h : IsPrefixSum(h, u, Len(s)) /\ Total(u) = h[Len(s)]
  BY <1>0, TotalOfPrefixes
<1>3. \A j \in 1..Len(s) : u[j] = IF j = i THEN s[j] + k ELSE s[j]
  OBVIOUS
<1> HIDE DEF u
<1> DEFINE bad == {n \in 0..Len(s) : h[n] # IF n < i THEN f[n] ELSE f[n] + k}
<1>4. ASSUME bad # {} PROVE FALSE
  <2>1. PICK m \in bad : \A j \in bad : m <= j
    <3>1. bad \in SUBSET Nat
      OBVIOUS
    <3> HIDE DEF bad
    <3>2. QED
      BY <1>4, <3>1, LeastNumber
  <2>2. m # 0
    BY <1>1, <1>2 DEF IsPrefixSum
  <2>3. h[m - 1] = IF m - 1 < i THEN f[m - 1] ELSE f[m - 1] + k
    BY <2>1, <2>2
  <2>4. m \in 1..Len(s) /\ m - 1 \in 0..Len(s)
    BY <2>2
  <2>5. h[m] = h[m - 1] + u[m] /\ f[m] = f[m - 1] + s[m]
    BY <1>1, <1>2, <2>4 DEF IsPrefixSum
  <2>6. f[m - 1] \in Nat /\ s[m] \in Nat
    <3>1. f \in [0..Len(s) -> Nat]
      BY <1>1 DEF IsPrefixSum
    <3> HIDE DEF bad
    <3>2. f[m - 1] \in Nat
      BY <2>4, <3>1
    <3>3. QED
      BY <2>4, <3>2
  <2>7. h[m] = IF m < i THEN f[m] ELSE f[m] + k
    BY <1>3, <2>3, <2>4, <2>5, <2>6
  <2>8. QED
    BY <2>7
<1>5. QED
  BY <1>1, <1>2, <1>4 DEF u

LEMMA TotalOfNothing ==
  ASSUME NEW s \in Seq(Nat), \A i \in 1..Len(s) : s[i] = 0
  PROVE  Total(s) = 0
<1>1. Total(s) = Total(s) + Total(s)
  BY TotalOfSums
<1>2. QED
  BY <1>1, TotalOfPrefixes

(***************************************************************************)
(* ContextAllocation: the inductive invariant.  What is handed out and     *)
(* what remains make up the context; the sources a pass has still to visit *)
(* are level, and what the others have got is their length or one share    *)
(* more.                                                                   *)
(***************************************************************************)
Phases == {"format", "allocate", "pass", "render", "done", "refused", "exceeded"}

AllocTypeOK ==
  /\ phase \in Phases
  /\ desired \in Seq(Nat) /\ headers \in Seq(Nat) /\ allocations \in Seq(Nat)
  /\ Len(desired) >= 1 /\ Len(headers) = Len(desired) /\ Len(allocations) = Len(desired)
  /\ limit \in Nat /\ share \in Nat /\ remaining \in Nat
  /\ active \in SUBSET Sources /\ pending \in SUBSET active /\ completed \in SUBSET Sources

NoneExceeds == \A i \in Sources : allocations[i] <= desired[i]

Room == limit - Overhead

Handed ==
  /\ phase = "format" => \A i \in Sources : allocations[i] = 0
  /\ phase \in {"allocate", "pass"} =>
       Overhead < limit /\ Total(desired) > Room /\ Total(allocations) + remaining = Room
  /\ phase = "render" =>
       /\ Overhead < limit
       /\ Total(allocations) = IF Total(desired) <= Room THEN Total(desired) ELSE Room

Satisfied ==
  /\ phase = "allocate" => \A i \in Sources \ active : allocations[i] = desired[i]
  /\ phase = "pass" => \A i \in (Sources \ active) \cup completed : allocations[i] = desired[i]

Even ==
  \A i, j \in Sources :
    allocations[i] < desired[i] =>
      /\ allocations[j] <= allocations[i] + 1
      /\ allocations[j] = allocations[i] + 1 => j < i

\* Where a pass stands when the sources it has still to visit have got level.
LevelPass(level) ==
  /\ \A i \in pending : allocations[i] = level
  /\ \A i \in Sources \ active : allocations[i] <= level
  /\ \A i \in active \ pending :
       /\ allocations[i] <= level + share
       /\ i \notin completed => allocations[i] = level + share
  /\ \A i \in pending : \A j \in active \ pending : j < i

Levels ==
  /\ phase = "allocate" /\ remaining > 0 =>
       \E level \in Nat : /\ \A i \in active : allocations[i] = level
                          /\ \A i \in Sources \ active : allocations[i] <= level
  /\ phase = "pass" /\ remaining > 0 =>
       /\ share >= 1
       /\ share > 1 => share * Cardinality(pending) <= remaining
       /\ \E level \in Nat : LevelPass(level)
  /\ phase = "pass" /\ remaining = 0 => pending = {}
  /\ phase \in {"allocate", "pass"} /\ remaining = 0 => Even
  /\ phase \in {"render", "done"} => Even

AllocInv == AllocTypeOK /\ NoneExceeds /\ Handed /\ Satisfied /\ Levels /\ ContextIsFilled

LEMMA SourcesAre ==
  ASSUME AllocTypeOK
  PROVE  /\ Sources = 1..Len(desired) /\ Len(desired) \in Nat
         /\ DOMAIN headers = Sources /\ DOMAIN allocations = Sources
         /\ \A i \in Sources : desired[i] \in Nat /\ headers[i] \in Nat /\ allocations[i] \in Nat
         /\ Overhead \in Nat /\ Total(desired) \in Nat /\ Total(allocations) \in Nat
         /\ IsFiniteSet(active) /\ IsFiniteSet(pending)
         /\ pending \subseteq Nat
<1>1. /\ Sources = 1..Len(desired) /\ Len(desired) \in Nat
      /\ DOMAIN headers = Sources /\ DOMAIN allocations = Sources
      /\ \A i \in Sources : desired[i] \in Nat /\ headers[i] \in Nat /\ allocations[i] \in Nat
  BY DEF AllocTypeOK, Sources
<1>2. Total(headers) \in Nat /\ Total(desired) \in Nat /\ Total(allocations) \in Nat
  BY TotalOfPrefixes DEF AllocTypeOK
<1>3. Separator * (Len(headers) - 1) \in Nat
  <2>1. Len(headers) - 1 \in Nat /\ Separator \in Nat
    BY <1>1, AllocationAssumption DEF AllocTypeOK
  <2>2. QED
    BY <2>1
<1>4. IsFiniteSet(Sources)
  BY <1>1, FS_Interval
<1>5. IsFiniteSet(active) /\ IsFiniteSet(pending)
  BY <1>4, FS_Subset DEF AllocTypeOK
<1>6. pending \subseteq Nat
  BY <1>1 DEF AllocTypeOK
<1>7. QED
  BY <1>1, <1>2, <1>3, <1>5, <1>6 DEF Overhead

LEMMA LengthsAreSequence ==
  ASSUME NEW n \in Nat, NEW f \in [1..n -> Nat]
  PROVE  f \in Seq(Nat) /\ Len(f) = n
OBVIOUS

LEMMA ShareFits ==
  ASSUME NEW r \in Nat, NEW c \in Nat, c > 0, r >= c
  PROVE  (r \div c) \in Nat /\ r \div c >= 1 /\ (r \div c) * c <= r
<1>1. (r \div c) \in Int /\ c * (r \div c) <= r /\ r < c * (r \div c) + c
  BY Z3
<1> DEFINE q == r \div c
<1> HIDE DEF q
<1>2. q >= 1
  <2> SUFFICES ASSUME q \in Int, q <= 0, c * q <= r, r < c * q + c PROVE FALSE
    BY <1>1 DEF q
  <2>1. c * q <= 0
    BY Z3
  <2>2. QED
    BY <2>1
<1>3. QED
  BY <1>1, <1>2 DEF q

LEMMA AllocStarts == AllocInit => AllocInv
<1> SUFFICES ASSUME AllocInit PROVE AllocInv
  OBVIOUS
<1>1. PICK n \in 1..MaxSources :
        /\ desired \in [1..n -> Lengths]
        /\ headers \in [1..n -> HeaderLengths]
        /\ allocations = [i \in 1..n |-> 0]
  BY DEF AllocInit
<1>2. n \in Nat /\ n >= 1 /\ Lengths \subseteq Nat /\ HeaderLengths \subseteq Nat
      /\ limit \in Nat
  BY AllocationAssumption DEF AllocInit
<1>3. desired \in [1..n -> Nat] /\ headers \in [1..n -> Nat] /\ allocations \in [1..n -> Nat]
  BY <1>1, <1>2
<1>4. /\ desired \in Seq(Nat) /\ headers \in Seq(Nat) /\ allocations \in Seq(Nat)
      /\ Len(desired) = n /\ Len(headers) = n /\ Len(allocations) = n
  BY <1>2, <1>3, LengthsAreSequence
<1>5. AllocTypeOK
  BY <1>2, <1>4 DEF AllocInit, AllocTypeOK, Phases, Sources
<1>6. NoneExceeds /\ \A i \in Sources : allocations[i] = 0
  BY <1>1, <1>2, <1>3 DEF NoneExceeds, Sources
<1>7. QED
  BY <1>5, <1>6 DEF AllocInit, AllocInv, Handed, Satisfied, Levels, ContextIsFilled

LEMMA RefuseKeeps == AllocInv /\ Refuse => AllocInv'
BY DEF AllocInv, Refuse, AllocTypeOK, Phases, Sources, NoneExceeds, Handed, Satisfied, Levels,
       ContextIsFilled

LEMMA AllocateAllKeeps == AllocInv /\ AllocateAll => AllocInv'
<1> SUFFICES ASSUME AllocInv, AllocateAll PROVE AllocInv'
  OBVIOUS
<1> USE DEF AllocInv, AllocateAll
<1>1. AllocTypeOK'
  BY DEF AllocTypeOK, Phases, Sources
<1>2. NoneExceeds' /\ Even'
  BY SourcesAre DEF NoneExceeds, Even, Sources
<1>3. Handed'
  BY DEF Handed, Room, Overhead
<1>4. QED
  BY <1>1, <1>2, <1>3 DEF Satisfied, Levels, ContextIsFilled

LEMMA StartPassesKeeps == AllocInv /\ StartPasses => AllocInv'
<1> SUFFICES ASSUME AllocInv, StartPasses PROVE AllocInv'
  OBVIOUS
<1> USE DEF AllocInv, StartPasses
<1>1. AllocTypeOK'
  <2>1. remaining' \in Nat
    BY SourcesAre DEF AllocTypeOK
  <2>2. QED
    BY <2>1 DEF AllocTypeOK, Phases, Sources
<1>2. NoneExceeds' /\ Satisfied' /\ ContextIsFilled'
  BY DEF NoneExceeds, Satisfied, Sources, ContextIsFilled
<1>3. Handed'
  <2>1. Total(allocations) = 0
    BY SourcesAre, TotalOfNothing DEF AllocTypeOK, Handed
  <2>2. remaining' = Room /\ Room \in Nat
    BY SourcesAre DEF Room, AllocTypeOK
  <2>3. QED
    BY <2>1, <2>2 DEF Handed, Room, Overhead
<1>4. Levels'
  <2>1. \A i \in active' : allocations'[i] = 0
    BY DEF Handed, Sources
  <2>2. active' = Sources' /\ remaining' > 0
    BY SourcesAre DEF Sources, AllocTypeOK
  <2>3. QED
    BY <2>1, <2>2 DEF Levels
<1>5. QED
  BY <1>1, <1>2, <1>3, <1>4

LEMMA StartPassKeeps == AllocInv /\ StartPass => AllocInv'
<1> SUFFICES ASSUME AllocInv, StartPass PROVE AllocInv'
  OBVIOUS
<1> USE DEF AllocInv, StartPass
<1>1. Cardinality(active) \in Nat /\ Cardinality(active) > 0
  BY SourcesAre, FS_EmptySet, FS_CardinalityType
<1>2. EqualShare \in Nat /\ EqualShare >= 1
      /\ (EqualShare > 1 => EqualShare * Cardinality(active) <= remaining)
  <2>1. CASE remaining < Cardinality(active)
    BY <2>1 DEF EqualShare
  <2>2. CASE ~(remaining < Cardinality(active))
    <3>1. remaining \in Nat /\ remaining >= Cardinality(active)
      BY <1>1, <2>2 DEF AllocTypeOK
    <3>2. EqualShare = remaining \div Cardinality(active)
      BY <2>2 DEF EqualShare
    <3>3. QED
      BY <1>1, <3>1, <3>2, ShareFits
  <2>3. QED
    BY <2>1, <2>2
<1>3. AllocTypeOK'
  BY <1>2 DEF AllocTypeOK, Phases, Sources
<1>4. NoneExceeds' /\ Handed' /\ Satisfied' /\ ContextIsFilled'
  BY DEF NoneExceeds, Handed, Satisfied, Sources, ContextIsFilled, Room, Overhead
<1>5. Levels'
  <2>1. PICK level \in Nat : /\ \A i \in active : allocations[i] = level
                             /\ \A i \in Sources \ active : allocations[i] <= level
    BY DEF Levels, AllocTypeOK
  <2>2. LevelPass(level)'
    BY <2>1 DEF LevelPass, Sources
  <2>3. QED
    BY <1>2, <2>2 DEF Levels, AllocTypeOK
<1>6. QED
  BY <1>3, <1>4, <1>5

LEMMA EndPassKeeps == AllocInv /\ EndPass => AllocInv'
<1> SUFFICES ASSUME AllocInv, EndPass PROVE AllocInv'
  OBVIOUS
<1> USE DEF AllocInv, EndPass
<1>1. AllocTypeOK'
  BY DEF AllocTypeOK, Phases, Sources
<1>2. NoneExceeds' /\ Handed' /\ ContextIsFilled'
  BY DEF NoneExceeds, Handed, Sources, ContextIsFilled, Room, Overhead
<1>3. Satisfied'
  BY DEF Satisfied, Sources
<1>4. Levels'
  <2>1. ASSUME remaining > 0
        PROVE  \E level \in Nat : /\ \A i \in active' : allocations[i] = level
                                  /\ \A i \in Sources \ active' : allocations[i] <= level
    <3>1. PICK level \in Nat : LevelPass(level)
      BY <2>1 DEF Levels
    <3>2. level + share \in Nat
      BY DEF AllocTypeOK
    <3>3. \A i \in active' : allocations[i] = level + share
      BY <3>1 DEF LevelPass
    <3>4. \A i \in Sources \ active' : allocations[i] <= level + share
      BY <3>1, SourcesAre DEF LevelPass, AllocTypeOK
    <3>5. QED
      BY <3>2, <3>3, <3>4
  <2>2. remaining = 0 => Even'
    BY DEF Levels, Even, Sources
  <2>3. Sources' = Sources
    BY DEF Sources
  <2>4. QED
    BY <2>1, <2>2, <2>3 DEF Levels
<1>5. QED
  BY <1>1, <1>2, <1>3, <1>4

LEMMA EndPassesKeeps == AllocInv /\ EndPasses => AllocInv'
<1> SUFFICES ASSUME AllocInv, EndPasses PROVE AllocInv'
  OBVIOUS
<1> USE DEF AllocInv, EndPasses
<1>1. AllocTypeOK'
  BY DEF AllocTypeOK, Phases, Sources
<1>2. NoneExceeds' /\ Satisfied' /\ ContextIsFilled'
  BY DEF NoneExceeds, Satisfied, Sources, ContextIsFilled
<1>3. remaining = 0
  <2> SUFFICES ASSUME remaining # 0 PROVE FALSE
    OBVIOUS
  <2>1. \A i \in Sources : allocations[i] = desired[i]
    BY DEF Satisfied
  <2>2. allocations = desired
    <3>1. allocations \in [Sources -> Nat] /\ desired \in [Sources -> Nat]
      BY SourcesAre DEF AllocTypeOK
    <3>2. QED
      BY <2>1, <3>1
  <2>3. QED
    BY <2>2, SourcesAre DEF Handed, Room, AllocTypeOK
<1>4. Handed'
  BY <1>3, SourcesAre DEF Handed, Room, Overhead, AllocTypeOK
<1>5. Levels'
  BY <1>3 DEF Levels, Even, Sources
<1>6. QED
  BY <1>1, <1>2, <1>4, <1>5

LEMMA TakeKeeps == AllocInv /\ Take => AllocInv'
<1> SUFFICES ASSUME AllocInv, Take PROVE AllocInv'
  OBVIOUS
<1> USE DEF AllocInv
<1> DEFINE i    == Min(pending)
           take == Least(Least(desired[i] - allocations[i], share), remaining)
           left == remaining - take
<1>1. i \in pending /\ \A j \in pending : i <= j
  <2>1. pending \in SUBSET Nat /\ pending # {}
    BY SourcesAre DEF Take
  <2>2. \E k \in pending : \A j \in pending : k <= j
    BY <2>1, LeastNumber
  <2>3. QED
    BY <2>2 DEF Min
<1>2. /\ phase = "pass" /\ phase' = "pass"
      /\ allocations' = [allocations EXCEPT ![i] = @ + take]
      /\ remaining' = left
      /\ completed' = IF allocations'[i] >= desired[i] THEN completed \cup {i} ELSE completed
      /\ pending' = IF left = 0 THEN {} ELSE pending \ {i}
      /\ UNCHANGED <<headers, desired, limit, active, share, rendered>>
  BY DEF Take
<1>3. /\ i \in Sources /\ i \in active /\ i \in Nat
      /\ desired[i] \in Nat /\ allocations[i] \in Nat /\ allocations[i] <= desired[i]
      /\ share \in Nat /\ remaining \in Nat
  BY <1>1, SourcesAre DEF AllocTypeOK, NoneExceeds
<1>4. /\ take \in Nat /\ left \in Nat
      /\ take <= desired[i] - allocations[i] /\ take <= share /\ take <= remaining
      /\ take \in {desired[i] - allocations[i], share, remaining}
  BY <1>3 DEF Least
<1>5. remaining > 0
  BY <1>1, <1>2, <1>3 DEF Levels
<1> HIDE DEF i, take
<1>6. /\ allocations' \in Seq(Nat) /\ Len(allocations') = Len(allocations)
      /\ \A j \in Sources : allocations'[j] = IF j = i THEN allocations[i] + take ELSE allocations[j]
  <2>1. allocations \in [1..Len(allocations) -> Nat] /\ Len(allocations) \in Nat
        /\ i \in 1..Len(allocations) /\ Sources = 1..Len(allocations)
    <3>1. Len(allocations) = Len(desired) /\ allocations \in Seq(Nat)
      BY DEF AllocTypeOK
    <3>2. Sources = 1..Len(allocations) /\ Len(allocations) \in Nat
      BY <3>1, SourcesAre
    <3>3. QED
      BY <1>3, <3>1, <3>2
  <2>2. allocations' \in [1..Len(allocations) -> Nat]
    BY <1>2, <1>3, <1>4, <2>1
  <2>3. \A j \in Sources : allocations'[j] = IF j = i THEN allocations[i] + take ELSE allocations[j]
    BY <1>2, <2>1
  <2>4. QED
    BY <2>1, <2>2, <2>3, LengthsAreSequence
<1>7. Sources' = Sources /\ Overhead' = Overhead /\ Room' = Room
  BY <1>2 DEF Sources, Overhead, Room
<1>8. AllocTypeOK'
  BY <1>2, <1>3, <1>4, <1>6, <1>7 DEF AllocTypeOK, Phases
<1>9. NoneExceeds'
  <2>1. \A j \in Sources : allocations[j] <= desired[j]
    BY DEF NoneExceeds
  <2>2. allocations[i] + take <= desired[i]
    BY <1>3, <1>4
  <2>3. \A j \in Sources : allocations'[j] <= desired[j]
    BY <1>6, <2>1, <2>2
  <2>4. QED
    BY <1>2, <1>7, <2>3 DEF NoneExceeds
<1>10. Handed'
  <2>1. Total(allocations') = Total(allocations) + take
    BY <1>2, <1>3, <1>4, SourcesAre, TotalOfChange DEF AllocTypeOK
  <2>2. Total(allocations) \in Nat /\ Room \in Int
    BY SourcesAre DEF Room, AllocTypeOK
  <2>3. QED
    BY <1>2, <1>3, <1>4, <1>7, <2>1, <2>2 DEF Handed
<1>11. Satisfied'
  <2>1. \A j \in (Sources \ active) \cup completed : allocations[j] = desired[j]
    BY <1>2 DEF Satisfied
  <2>2. i \in completed => take = 0
    BY <1>3, <1>4, <2>1
  <2>3. \A j \in (Sources \ active) \cup completed : allocations'[j] = desired[j]
    BY <1>3, <1>4, <1>6, <2>1, <2>2 DEF AllocTypeOK
  <2>4. i \in completed' /\ i \notin completed => allocations'[i] = desired[i]
    BY <1>2, <1>3, <1>4, <1>6
  <2>5. QED
    BY <1>2, <1>7, <2>3, <2>4 DEF Satisfied
<1>12. ContextIsFilled'
  BY <1>2 DEF ContextIsFilled
<1>13. PICK level \in Nat : LevelPass(level)
  BY <1>2, <1>5 DEF Levels
<1>14. /\ share >= 1
       /\ share > 1 => share * Cardinality(pending) <= remaining
  BY <1>2, <1>5 DEF Levels
<1>15. allocations[i] = level
  BY <1>1, <1>13 DEF LevelPass
<1>16. CASE left > 0
  <2>1. take \in {desired[i] - allocations[i], share}
    BY <1>3, <1>4, <1>16
  <2>2. pending' = pending \ {i}
    BY <1>2, <1>16
  <2>3. LevelPass(level)'
    <3>1. \A j \in pending' : allocations'[j] = level
      BY <1>6, <1>13, <2>2, SourcesAre DEF LevelPass, AllocTypeOK
    <3>2. \A j \in Sources \ active : allocations'[j] <= level
      BY <1>3, <1>6, <1>13 DEF LevelPass
    <3>3. ASSUME NEW j \in active \ pending'
          PROVE  /\ allocations'[j] <= level + share
                 /\ j \notin completed' => allocations'[j] = level + share
      <4>1. CASE j = i
        BY <1>2, <1>3, <1>4, <1>6, <1>15, <2>1, <4>1
      <4>2. CASE j # i
        BY <1>2, <1>6, <1>13, <2>2, <4>2 DEF LevelPass, AllocTypeOK
      <4>3. QED
        BY <4>1, <4>2
    <3>4. ASSUME NEW j \in pending', NEW k \in active \ pending' PROVE k < j
      <4>1. j \in pending /\ j # i /\ i <= j /\ j \in Nat
        BY <1>1, <2>2, SourcesAre
      <4>2. CASE k = i
        BY <1>3, <4>1, <4>2
      <4>3. CASE k # i
        BY <1>13, <2>2, <4>1, <4>3 DEF LevelPass
      <4>4. QED
        BY <4>2, <4>3
    <3>5. QED
      BY <1>2, <1>7, <3>1, <3>2, <3>3, <3>4 DEF LevelPass
  <2>4. share > 1 => share * Cardinality(pending') <= left
    <3>1. Cardinality(pending') = Cardinality(pending) - 1 /\ Cardinality(pending) \in Nat
      BY <1>1, <2>2, SourcesAre, FS_RemoveElement, FS_CardinalityType
    <3>2. share * (Cardinality(pending) - 1) = share * Cardinality(pending) - share
      BY <1>3, <3>1
    <3>3. QED
      BY <1>3, <1>4, <1>14, <3>1, <3>2
  <2>5. QED
    BY <1>2, <1>8, <1>9, <1>10, <1>11, <1>12, <1>14, <1>16, <2>3, <2>4 DEF Levels
<1>17. CASE left = 0
  <2>1. take = remaining
    BY <1>3, <1>4, <1>17
  <2>2. \A j \in Sources : allocations[j] \in Nat /\ desired[j] \in Nat
    BY SourcesAre
  <2>3. /\ \A j \in pending : allocations[j] = level
        /\ \A j \in Sources \ active : allocations[j] <= level
        /\ \A j \in active \ pending : allocations[j] <= level + share
        /\ \A j \in active \ pending : j \notin completed => allocations[j] = level + share
        /\ \A j \in pending : \A k \in active \ pending : k < j
    BY <1>13 DEF LevelPass
  <2>4. \A j \in (Sources \ active) \cup completed : allocations[j] = desired[j]
    BY <1>2 DEF Satisfied
  <2>5. Even'
    <3>1. CASE share = 1
      <4> SUFFICES ASSUME NEW k \in Sources, NEW j \in Sources,
                          allocations'[k] < desired[k]
                   PROVE  /\ allocations'[j] <= allocations'[k] + 1
                          /\ allocations'[j] = allocations'[k] + 1 => j < k
        BY <1>2, <1>7 DEF Even
      <4>1. take = 1
        BY <1>4, <1>5, <2>1, <3>1
      <4>2. allocations'[j] <= level + 1
        <5>1. CASE j = i
          BY <1>6, <1>15, <4>1, <5>1
        <5>2. CASE j # i
          <6>1. allocations'[j] = allocations[j] /\ allocations[j] \in Nat
            BY <1>6, <2>2, <5>2
          <6>2. j \in pending \/ j \in active \ pending \/ j \in Sources \ active
            OBVIOUS
          <6>3. QED
            BY <2>3, <3>1, <6>1, <6>2
        <5>3. QED
          BY <5>1, <5>2
      <4>3. k \in active
        BY <1>3, <1>6, <2>2, <2>4
      <4>4. CASE k \in pending \ {i}
        <5>1. allocations'[k] = level
          BY <1>6, <2>3, <4>4
        <5>2. allocations'[j] = level + 1 => j = i \/ j \in active \ pending
          BY <1>6, <2>2, <2>3
        <5>3. i < k
          BY <1>1, <1>3, <4>4, SourcesAre DEF AllocTypeOK
        <5>4. QED
          BY <2>3, <4>2, <4>4, <5>1, <5>2, <5>3
      <4>5. CASE k \notin pending \/ k = i
        <5>1. allocations'[k] = level + 1
          <6>1. CASE k = i
            BY <1>6, <1>15, <4>1, <6>1
          <6>2. CASE k # i
            <7>1. allocations'[k] = allocations[k] /\ k \in active \ pending
              BY <1>6, <4>3, <4>5, <6>2
            <7>2. k \notin completed
              BY <2>2, <2>4, <7>1
            <7>3. QED
              BY <2>3, <3>1, <7>1, <7>2
          <6>3. QED
            BY <6>1, <6>2
        <5>2. allocations'[j] \in Nat
          BY <1>6, <2>2, <4>1, <1>3
        <5>3. QED
          BY <4>2, <5>1, <5>2
      <4>6. QED
        BY <4>4, <4>5
    <3>2. CASE share > 1
      <4>1. pending = {i} /\ take = share
        <5>1. Cardinality(pending) \in Nat /\ Cardinality(pending) >= 1
          BY <1>1, SourcesAre, FS_EmptySet, FS_CardinalityType
        <5>2. share * Cardinality(pending) <= share
          <6>1. share * Cardinality(pending) <= remaining /\ remaining <= share
            BY <1>4, <1>14, <2>1, <3>2
          <6>2. share * Cardinality(pending) \in Nat
            BY <1>3, <5>1
          <6>3. QED
            BY <1>3, <6>1, <6>2
        <5>3. Cardinality(pending) = 1
          <6> DEFINE c == Cardinality(pending)
          <6> HIDE DEF c
          <6>1. SUFFICES ASSUME c \in Nat, c >= 2, share * c <= share PROVE FALSE
            BY <5>1, <5>2 DEF c
          <6>2. share * c = share * 2 + share * (c - 2) /\ share * (c - 2) >= 0
            BY <1>3, <6>1
          <6>3. QED
            BY <1>3, <3>2, <6>1, <6>2
        <5>4. pending = {i}
          BY <1>1, <5>3, SourcesAre, FS_Singleton
        <5>5. QED
          BY <1>3, <1>4, <1>14, <2>1, <3>2, <5>3, <5>4
      <4>2. \A j \in Sources : allocations'[j] <= level + share
        <5> SUFFICES ASSUME NEW j \in Sources PROVE allocations'[j] <= level + share
          OBVIOUS
        <5>1. CASE j = i
          BY <1>3, <1>6, <1>15, <4>1, <5>1
        <5>2. CASE j # i
          <6>1. allocations'[j] = allocations[j] /\ allocations[j] \in Nat
            BY <1>6, <2>2, <5>2
          <6>2. j \in pending \/ j \in active \ pending \/ j \in Sources \ active
            OBVIOUS
          <6>3. QED
            BY <1>3, <2>3, <6>1, <6>2
        <5>3. QED
          BY <5>1, <5>2
      <4>3. ASSUME NEW k \in Sources, allocations'[k] < desired[k]
            PROVE  allocations'[k] = level + share
        <5>1. CASE k = i
          BY <1>6, <1>15, <4>1, <5>1
        <5>2. CASE k # i
          <6>1. allocations'[k] = allocations[k] /\ k \notin pending
            BY <1>6, <4>1, <5>2
          <6>2. k \in active /\ k \notin completed
            BY <2>2, <2>4, <4>3, <6>1
          <6>3. QED
            BY <2>3, <6>1, <6>2
        <5>3. QED
          BY <5>1, <5>2
      <4>4. \A j \in Sources : allocations'[j] \in Nat
        BY <1>3, <1>4, <1>6, <2>2
      <4>5. QED
        BY <1>2, <1>3, <1>7, <4>2, <4>3, <4>4 DEF Even
    <3>3. QED
      BY <1>3, <1>14, <3>1, <3>2
  <2>6. QED
    BY <1>2, <1>8, <1>9, <1>10, <1>11, <1>12, <1>17, <2>5 DEF Levels
<1>18. QED
  BY <1>4, <1>16, <1>17

LEMMA RenderKeeps == AllocInv /\ Render => AllocInv'
<1> SUFFICES ASSUME AllocInv, Render PROVE AllocInv'
  OBVIOUS
<1> USE DEF AllocInv, Render
<1>1. \A i \in Sources : rendered'[i].content + rendered'[i].marker = allocations[i]
                         /\ rendered'[i].content \in Nat /\ rendered'[i].marker \in Nat
  BY SourcesAre, AllocationAssumption DEF Truncated, NoneExceeds
<1> DEFINE shown == [i \in DOMAIN rendered' |-> headers[i] + rendered'[i].content + rendered'[i].marker]
<1>2. DOMAIN rendered' = Sources
  OBVIOUS
<1>3. \A i \in Sources : shown[i] = headers[i] + allocations[i]
  BY <1>1, <1>2, SourcesAre
<1>4. shown \in [1..Len(desired) -> Nat]
  BY <1>2, <1>3, SourcesAre
<1>5. shown \in Seq(Nat) /\ Len(shown) = Len(desired)
  <2> HIDE DEF shown
  <2>1. QED
    BY <1>4, SourcesAre, LengthsAreSequence
<1>6. Total(shown) = Total(headers) + Total(allocations)
  <2> HIDE DEF shown
  <2>1. QED
    <3>1. headers \in Seq(Nat) /\ allocations \in Seq(Nat)
          /\ Len(allocations) = Len(headers) /\ Len(shown) = Len(headers)
      BY <1>5 DEF AllocTypeOK
    <3>2. \A i \in 1..Len(headers) : shown[i] = headers[i] + allocations[i]
      BY <1>3, SourcesAre DEF AllocTypeOK
    <3>3. QED
      BY <1>5, <3>1, <3>2, TotalOfSums
<1>7. Len(rendered') = Len(desired)
  BY <1>2, SourcesAre
<1>8. Blocks(rendered') = Overhead + Total(allocations)
  <2>1. Blocks(rendered') = Total(shown) + Separator * (Len(rendered') - 1)
    BY DEF Blocks
  <2>2. Overhead = Total(headers) + Separator * (Len(desired) - 1)
    BY DEF Overhead, AllocTypeOK
  <2>3. Total(headers) \in Nat /\ Total(allocations) \in Nat
    BY TotalOfPrefixes DEF AllocTypeOK
  <2>4. Separator * (Len(desired) - 1) \in Int
    BY SourcesAre, AllocationAssumption
  <2> HIDE DEF shown
  <2>5. Blocks(rendered') = Total(shown) + Separator * (Len(desired) - 1)
    BY <1>7, <2>1
  <2>6. QED
    BY <1>6, <2>2, <2>3, <2>4, <2>5
<1>9. Blocks(rendered') = Least(limit, Overhead + Total(desired))
  BY <1>8, SourcesAre DEF Handed, Room, Least, AllocTypeOK
<1>10. phase' = "done"
  BY <1>9, SourcesAre DEF Least, AllocTypeOK
<1>11. AllocTypeOK'
  BY <1>10 DEF AllocTypeOK, Phases, Sources
<1>12. NoneExceeds' /\ Handed' /\ Satisfied' /\ Levels'
  BY <1>10 DEF NoneExceeds, Handed, Satisfied, Levels, Even, Sources
<1>13. ContextIsFilled'
  BY <1>9, <1>10 DEF ContextIsFilled, Blocks, Overhead
<1>14. QED
  BY <1>11, <1>12, <1>13

\* What every pass of _allocate_content_chars leaves: the context is handed out or
\* still there, and the sources are level up to the turn they are at.
THEOREM AllocInvariant == AllocSpec => []AllocInv
<1>1. AllocInv /\ UNCHANGED allocVars => AllocInv'
  BY DEF allocVars, AllocInv, AllocTypeOK, Phases, Sources, NoneExceeds, Handed, Room, Overhead,
         Satisfied, Levels, LevelPass, Even, ContextIsFilled, Blocks
<1>2. AllocInv /\ [AllocNext]_allocVars => AllocInv'
  BY <1>1, RefuseKeeps, AllocateAllKeeps, StartPassesKeeps, StartPassKeeps, TakeKeeps, EndPassKeeps,
     EndPassesKeeps, RenderKeeps DEF AllocNext
<1>3. QED
  BY <1>2, AllocStarts, PTL DEF AllocSpec

\* format_evidence never refuses its own text, and leaves no room beside a cut one.
THEOREM ContextAlwaysFilled == AllocSpec => []ContextIsFilled
BY AllocInvariant, PTL DEF AllocInv

\* _allocate_content_chars favours no source: the cut ones have got the most there is,
\* up to one odd character, and the odd ones go to the better ranks.
THEOREM CutsAlwaysEven == AllocSpec => []CutsAreEven
<1>1. AllocInv => CutsAreEven
  BY DEF AllocInv, Levels, Even, CutsAreEven
<1>2. QED
  BY <1>1, AllocInvariant, PTL
=============================================================================
