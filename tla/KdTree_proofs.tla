----------------------------- MODULE KdTree_proofs -----------------------------
(***************************************************************************)
(* For every table and every query: the tree that kdtree builds has the    *)
(* halves of a node's rows below it, all the way down, and its array has   *)
(* room for them; the search misses no row and reports none that is        *)
(* outside the ranges.  When no NULL is involved it answers the query.     *)
(***************************************************************************)
EXTENDS KdTree, FiniteSetTheorems, FunctionTheorems, SequenceTheorems, TLAPS

-----------------------------------------------------------------------------
(***************************************************************************)
(* Induction and recursion on the natural numbers.  The library's theorems *)
(* have a predicate as a parameter; here a set stands for it, of whose     *)
(* counterexamples one is the smallest.                                    *)
(***************************************************************************)

\* Every nonempty set of natural numbers has a smallest one.
LEMMA Smallest ==
    ASSUME NEW S \in SUBSET Nat, S # {}
    PROVE  \E m \in S : \A n \in S : m <= n
<1>1. PICK x \in S : TRUE
    OBVIOUS
<1>. DEFINE U == 0..x
            F == {0..n : n \in {k \in S : k <= x}}
<1>2. IsFiniteSet(U)
    BY FS_Interval
<1>3. F \subseteq SUBSET U /\ F # {}
    BY <1>1
<1>4. IsWellFoundedOn(StrictSubsetOrdering(U), FiniteSubsetsOf(U))
    BY FS_StrictSubsetOrderingWellFounded
<1>5. F \subseteq FiniteSubsetsOf(U)
    BY <1>2, <1>3, FS_FiniteSubsetsOfFinite
<1>. HIDE DEF F, U
<1>6. PICK A \in F : \A B \in F : ~(<<B, A>> \in StrictSubsetOrdering(U))
    BY <1>3, <1>4, <1>5, WFMin
<1>7. PICK m \in S : m <= x /\ A = 0..m
    BY <1>6 DEF F
<1>8. ASSUME NEW n \in S, n < m PROVE FALSE
  <2>1. 0..n \in F
     BY <1>1, <1>7, <1>8 DEF F
  <2>2. 0..n \subseteq 0..m /\ 0..n # 0..m
    BY <1>7, <1>8
  <2>3. 0..n \in SUBSET U /\ A \in SUBSET U
    BY <1>3, <1>6, <2>1
  <2> QED
    BY <1>6, <1>7, <2>1, <2>2, <2>3 DEF StrictSubsetOrdering
<1> QED
    BY <1>8

\* A set of natural numbers with 0 and the successors of its elements is all.
LEMMA Induction ==
    ASSUME NEW S \in SUBSET Nat, 0 \in S, \A n \in S : n + 1 \in S
    PROVE  S = Nat
<1> SUFFICES ASSUME Nat \ S # {} PROVE FALSE
    OBVIOUS
<1>1. PICK m \in Nat \ S : \A n \in Nat \ S : m <= n
  <2>1. Nat \ S \in SUBSET Nat
    OBVIOUS
  <2> QED
    BY <2>1, Smallest
<1>2. m - 1 \in Nat /\ m - 1 \in S
    BY <1>1
<1> QED
    BY <1>1, <1>2

\* What a function defined by recursion has for 0..n.
Attempt(S, a, G, n, f) ==
    /\ f \in [0..n -> S] /\ f[0] = a
    /\ \A k \in 0..(n - 1) : f[k + 1] = G[k][f[k]]

\* The ways to go on from S to S, one for every step.
Steps(S) == [Nat -> [S -> S]]

\* f begins with a and goes on as G says.
Iterates(f, S, a, G) ==
    /\ f \in [Nat -> S] /\ f[0] = a
    /\ \A n \in Nat : f[n + 1] = G[n][f[n]]

\* There is a function for every definition by recursion.
LEMMA Recursion ==
    ASSUME NEW S, NEW a \in S, NEW G \in Steps(S)
    PROVE  \E f : Iterates(f, S, a, G)
<1>. DEFINE T(n, f) == Attempt(S, a, G, n, f)
            Has == {n \in Nat : \E f : T(n, f)}
<1>1. Has = Nat
  <2>1. 0 \in Has
    <3>1. T(0, [k \in 0..0 |-> a])
      BY DEF Attempt
    <3> QED
      BY <3>1
  <2>2. ASSUME NEW n \in Has PROVE n + 1 \in Has
    <3>1. PICK f : T(n, f)
      OBVIOUS
    <3>. DEFINE g == [k \in 0..(n + 1) |-> IF k = n + 1 THEN G[n][f[n]] ELSE f[k]]
    <3>2. T(n + 1, g)
      <4>1. G[n][f[n]] \in S
        BY <3>1 DEF Attempt, Steps
      <4>2. g \in [0..(n + 1) -> S] /\ g[0] = a
        BY <3>1, <4>1 DEF Attempt
      <4>3. ASSUME NEW k \in 0..n PROVE g[k + 1] = G[k][g[k]]
        <5>1. /\ k \in 0..(n + 1) /\ k + 1 \in 0..(n + 1)
              /\ k # n + 1 /\ (k + 1 = n + 1 <=> k = n) /\ (k # n => k \in 0..(n - 1))
          OBVIOUS
        <5>2. g[k] = f[k] /\ g[k + 1] = IF k = n THEN G[n][f[n]] ELSE f[k + 1]
          BY <5>1
        <5>. HIDE DEF g
        <5>3. \A j \in 0..(n - 1) : f[j + 1] = G[j][f[j]]
          BY <3>1 DEF Attempt
        <5> QED
          BY <5>1, <5>2, <5>3
      <4>4. 0..((n + 1) - 1) = 0..n
        OBVIOUS
      <4> QED
        BY <4>2, <4>3, <4>4 DEF Attempt
    <3> QED
      BY <3>2
  <2>. HIDE DEF Has
  <2>3. Has \in SUBSET Nat
    BY DEF Has
  <2> QED
    BY <2>1, <2>2, <2>3, Induction
<1>2. ASSUME NEW n \in Nat, NEW m \in Nat, NEW f, NEW g, T(n, f), T(m, g),
             NEW k \in Nat, k <= n, k <= m
      PROVE  f[k] = g[k]
  <2>. DEFINE Same == {j \in Nat : j <= n /\ j <= m => f[j] = g[j]}
  <2>1. 0 \in Same
    BY <1>2 DEF Attempt
  <2>2. ASSUME NEW j \in Same PROVE j + 1 \in Same
    <3> SUFFICES ASSUME j + 1 <= n, j + 1 <= m PROVE f[j + 1] = g[j + 1]
      OBVIOUS
    <3>1. f[j] = g[j] /\ j \in 0..(n - 1) /\ j \in 0..(m - 1)
      OBVIOUS
    <3> QED
      BY <1>2, <3>1 DEF Attempt
  <2>3. Same = Nat
    <3>. HIDE DEF Same
    <3>1. Same \in SUBSET Nat
      BY DEF Same
    <3> QED
      BY <2>1, <2>2, <3>1, Induction
  <2> QED
    BY <1>2, <2>3
<1>. DEFINE best(n) == CHOOSE f : T(n, f)
            F == [n \in Nat |-> best(n)[n]]
<1>3. \A n \in Nat : T(n, best(n))
    BY <1>1
<1>. HIDE DEF T, best, Has
<1>4. \A n \in Nat : best(n)[n] \in S
    BY <1>3 DEF T, Attempt
<1>5. F \in [Nat -> S]
    BY <1>4
<1>6. F[0] = a
    BY <1>3 DEF T, Attempt
<1>7. ASSUME NEW n \in Nat PROVE F[n + 1] = G[n][F[n]]
  <2>1. T(n + 1, best(n + 1)) /\ T(n, best(n))
    BY <1>3
  <2>2. best(n + 1)[n] = best(n)[n]
    BY <1>2, <2>1
  <2>3. best(n + 1)[n + 1] = G[n][best(n + 1)[n]]
    BY <2>1 DEF T, Attempt
  <2> QED
    BY <2>2, <2>3
<1> QED
    BY <1>5, <1>6, <1>7 DEF Iterates

-----------------------------------------------------------------------------
(* Finite sets *)

\* A finite nonempty set of integers has a largest element.
LEMMA MaxOf ==
    ASSUME NEW S \in SUBSET Int, IsFiniteSet(S), S # {}
    PROVE  Max(S) \in S /\ \A x \in S : x <= Max(S)
<1>. DEFINE Above(x) == {y \in S : y > x}
            F == {Above(x) : x \in S}
<1>1. F \subseteq SUBSET S /\ F # {}
    OBVIOUS
<1>2. IsWellFoundedOn(StrictSubsetOrdering(S), FiniteSubsetsOf(S))
    BY FS_StrictSubsetOrderingWellFounded
<1>3. F \subseteq FiniteSubsetsOf(S)
    BY <1>1, FS_FiniteSubsetsOfFinite
<1>. HIDE DEF F
<1>4. PICK A \in F : \A B \in F : ~(<<B, A>> \in StrictSubsetOrdering(S))
    BY <1>1, <1>2, <1>3, WFMin
<1>5. PICK m \in S : A = Above(m)
    BY <1>4 DEF F
<1>6. \A x \in S : x <= m
  <2> SUFFICES ASSUME NEW x \in S, x > m PROVE FALSE
    OBVIOUS
  <2>1. Above(x) \in F /\ Above(x) \in SUBSET S /\ A \in SUBSET S
    BY <1>5 DEF F
  <2>2. x \in A /\ x \notin Above(x)
    BY <1>5
  <2>3. Above(x) \subseteq A
    <3>1. x \in Int /\ m \in Int /\ \A y \in S : y \in Int
      OBVIOUS
    <3>2. \A y \in S : y > x => y > m
      BY <3>1
    <3> QED
      BY <1>5, <3>2
  <2> QED
    BY <1>4, <2>1, <2>2, <2>3 DEF StrictSubsetOrdering
<1> QED
    BY <1>5, <1>6 DEF Max

\* ... and a smallest one.
LEMMA MinOf ==
    ASSUME NEW S \in SUBSET Int, IsFiniteSet(S), S # {}
    PROVE  Min(S) \in S /\ \A x \in S : Min(S) <= x
<1>. DEFINE Below(x) == {y \in S : y < x}
            F == {Below(x) : x \in S}
<1>1. F \subseteq SUBSET S /\ F # {}
    OBVIOUS
<1>2. IsWellFoundedOn(StrictSubsetOrdering(S), FiniteSubsetsOf(S))
    BY FS_StrictSubsetOrderingWellFounded
<1>3. F \subseteq FiniteSubsetsOf(S)
    BY <1>1, FS_FiniteSubsetsOfFinite
<1>. HIDE DEF F
<1>4. PICK A \in F : \A B \in F : ~(<<B, A>> \in StrictSubsetOrdering(S))
    BY <1>1, <1>2, <1>3, WFMin
<1>5. PICK m \in S : A = Below(m)
    BY <1>4 DEF F
<1>6. \A x \in S : m <= x
  <2> SUFFICES ASSUME NEW x \in S, x < m PROVE FALSE
    OBVIOUS
  <2>1. Below(x) \in F /\ Below(x) \in SUBSET S /\ A \in SUBSET S
    BY <1>5 DEF F
  <2>2. x \in A /\ x \notin Below(x)
    BY <1>5
  <2>3. Below(x) \subseteq A
    <3>1. x \in Int /\ m \in Int /\ \A y \in S : y \in Int
      OBVIOUS
    <3>2. \A y \in S : y < x => y < m
      BY <3>1
    <3> QED
      BY <1>5, <3>2
  <2> QED
    BY <1>4, <2>1, <2>2, <2>3 DEF StrictSubsetOrdering
<1> QED
    BY <1>5, <1>6 DEF Min

\* The values of a function on a finite set are finitely many.
LEMMA FiniteValues ==
    ASSUME NEW S, IsFiniteSet(S), NEW T, NEW f \in [S -> T]
    PROVE  IsFiniteSet({f[x] : x \in S})
<1>. DEFINE U == {f[x] : x \in S}
<1>1. f \in Surjection(S, U)
    BY DEF Surjection
<1>. HIDE DEF U
<1>2. IsFiniteSet(U)
    BY <1>1, FS_Surjection
<1> QED
    BY <1>2 DEF U

\* R is a strict order of 1..n in which any two numbers are related.
TotalOrder(R, n) ==
    /\ \A i, j \in 1..n : i # j => <<i, j>> \in R \/ <<j, i>> \in R
    /\ \A i \in 1..n : <<i, i>> \notin R
    /\ \A i, j, k \in 1..n : <<i, j>> \in R /\ <<j, k>> \in R => <<i, k>> \in R

\* How many come before j, counted from 1.
RankIn(R, n, j) == Cardinality({i \in 1..n : <<i, j>> \in R}) + 1

\* Ranks are in the order of R, and every number is a rank.
LEMMA Ranks ==
    ASSUME NEW n \in Nat, NEW R, TotalOrder(R, n)
    PROVE  /\ \A j \in 1..n : RankIn(R, n, j) \in 1..n
           /\ \A i, j \in 1..n : <<i, j>> \in R <=> RankIn(R, n, i) < RankIn(R, n, j)
           /\ \A k \in 1..n : \E j \in 1..n : RankIn(R, n, j) = k
<1>. DEFINE D == 1..n
            Below(j) == {i \in D : <<i, j>> \in R}
            rank == [j \in D |-> RankIn(R, n, j)]
<1>1. IsFiniteSet(D) /\ Cardinality(D) = n
    BY FS_Interval
<1>. HIDE DEF D
<1>2. ASSUME NEW j \in D
      PROVE  /\ IsFiniteSet(Below(j)) /\ Cardinality(Below(j)) \in Nat
             /\ RankIn(R, n, j) = Cardinality(Below(j)) + 1
             /\ RankIn(R, n, j) \in D
  <2>1. Below(j) \in SUBSET D /\ j \notin Below(j)
    BY DEF TotalOrder, D
  <2>2. IsFiniteSet(Below(j)) /\ Cardinality(Below(j)) <= n /\ Cardinality(Below(j)) # n
    BY <1>1, <2>1, FS_Subset
  <2>3. Cardinality(Below(j)) \in Nat
    BY <2>2, FS_CardinalityType
  <2>4. RankIn(R, n, j) = Cardinality(Below(j)) + 1
    BY DEF RankIn, D
  <2>. HIDE DEF Below
  <2> QED
    BY <2>2, <2>3, <2>4 DEF D
<1>3. ASSUME NEW i \in D, NEW j \in D, <<i, j>> \in R
      PROVE  RankIn(R, n, i) < RankIn(R, n, j)
  <2>1. Below(i) \in SUBSET Below(j)
    BY <1>3 DEF TotalOrder, D
  <2>2. i \in Below(j) /\ i \notin Below(i)
    BY <1>3 DEF TotalOrder, D
  <2>. HIDE DEF Below
  <2>3. /\ IsFiniteSet(Below(i)) /\ Cardinality(Below(i)) \in Nat
        /\ IsFiniteSet(Below(j)) /\ Cardinality(Below(j)) \in Nat
        /\ RankIn(R, n, i) = Cardinality(Below(i)) + 1
        /\ RankIn(R, n, j) = Cardinality(Below(j)) + 1
    BY <1>2
  <2>4. Cardinality(Below(i)) <= Cardinality(Below(j)) /\ Cardinality(Below(i)) # Cardinality(Below(j))
    BY <2>1, <2>2, <2>3, FS_Subset
  <2> QED
    BY <2>3, <2>4
<1>4. \A j \in D : RankIn(R, n, j) \in D
    BY <1>2
<1>5. ASSUME NEW i \in D, NEW j \in D
      PROVE  <<i, j>> \in R <=> RankIn(R, n, i) < RankIn(R, n, j)
  <2>1. RankIn(R, n, i) \in Nat /\ RankIn(R, n, j) \in Nat
    BY <1>4 DEF D
  <2>2. <<i, j>> \in R \/ i = j \/ <<j, i>> \in R
    BY DEF TotalOrder, D
  <2> QED
    BY <1>3, <2>1, <2>2
<1>6. rank \in Injection(D, D)
  <2>1. rank \in [D -> D]
    BY <1>4
  <2>2. ASSUME NEW i \in D, NEW j \in D, rank[i] = rank[j]
        PROVE  i = j
    <3>1. RankIn(R, n, i) = RankIn(R, n, j) /\ RankIn(R, n, i) \in Nat
      BY <1>4, <2>2 DEF D
    <3> QED
      BY <1>5, <3>1 DEF TotalOrder, D
  <2>. HIDE DEF rank
  <2> QED
    BY <2>1, <2>2, Fun_IsInj
<1>7. rank \in Surjection(D, D)
  <2>. HIDE DEF rank
  <2> QED
    BY <1>1, <1>6, FS_Injection
<1>8. \A k \in D : \E j \in D : rank[j] = k
  <2>. HIDE DEF rank
  <2> QED
    BY <1>7 DEF Surjection
<1> QED
    BY <1>4, <1>5, <1>8 DEF D

-----------------------------------------------------------------------------
(* The inductive invariant *)

\* The table and the query are among those given.
Given ==
    /\ data \in Tables
    /\ query \in {q \in Queries : \A i \in DOMAIN q.cons : q.cons[i].col \in DOMAIN data[1]}

Nodes == 0..(Size - 1)

\* A node on level d of the tree has its place there, and as many rows as halving
\* N rows d times leaves, rounded down or up.
Room(i, l) ==
    \E d \in 0..Height :
        /\ Doubled[d] - 1 <= i /\ i <= 2 * Doubled[d] - 2
        /\ 1 <= l /\ l <= Doubled[Height - d] /\ (l + 1) * Doubled[d] > N

\* A node kdtreerec has not been called for.
Pending(i) == st = "build" /\ \E n \in DOMAIN todo : todo[n].node = i

Childless(i) == \A c \in {2 * i + 1, 2 * i + 2} : c < Size => tree[c] = <<>>

\* Node i is in the order of its axis, and its children have its halves.
Halved(i, ax) ==
    LET rows == tree[i]
        m == Len(rows) \div 2
        col == Columns[ax[i]]
    IN
    /\ 2 * i + 2 < Size
    /\ ax[2 * i + 1] = NextAxis(ax[i]) /\ ax[2 * i + 2] = NextAxis(ax[i])
    /\ tree[2 * i + 1] # <<>> /\ ToSet(tree[2 * i + 1]) = {rows[k] : k \in 1..m}
    /\ tree[2 * i + 2] # <<>> /\ ToSet(tree[2 * i + 2]) = {rows[k] : k \in (m + 1)..Len(rows)}
    /\ \A a, b \in 1..Len(rows) : a <= b => data[rows[a]][col] <= data[rows[b]][col]

NodeOK(i, ax) ==
    IF tree[i] = <<>> THEN Childless(i)
    ELSE /\ IsInjective(tree[i]) /\ Room(i, Len(tree[i]))
         /\ IF Pending(i) \/ Len(tree[i]) = 1 THEN Childless(i) ELSE Halved(i, ax)

\* ax has the axis of every node.
TreeOK(ax) ==
    /\ tree \in [Nodes -> Seq(1..N)]
    /\ ax \in [Nodes -> 1..K] /\ ax[0] = 1
    /\ tree[0] # <<>> /\ ToSet(tree[0]) = 1..N
    /\ \A i \in Nodes : NodeOK(i, ax)

TodoOK(ax) ==
    \A n \in DOMAIN todo :
        /\ todo[n].node \in Nodes /\ tree[todo[n].node] # <<>>
        /\ todo[n].axis = ax[todo[n].node]

Shape(ax) == TreeOK(ax) /\ TodoOK(ax)

\* No node waits twice.
Distinct == \A m, n \in DOMAIN todo : todo[m].node = todo[n].node => m = n

\* What has been found is in the range on every axis.
FoundPass == \A k \in DOMAIN found : Passes(found[k])

Rest ==
    /\ todo \in Seq([node : Nat, axis : Nat])
    /\ found \in Seq(1..N)
    /\ st = "new" => tree = <<>> /\ todo = <<>>
    /\ st = "build" => Distinct
    /\ st \in {"built", "done"} => todo = <<>>
    /\ st \notin {"search", "done"} => found = <<>>
    /\ FoundPass

IInv ==
    /\ Given /\ Rest /\ NoneMissed
    /\ st \in {"new", "build", "built", "search", "done", "failed"}
    /\ st # "new" => \E ax \in [Nodes -> 1..K] : Shape(ax)

-----------------------------------------------------------------------------
(* The size of the array *)

\* Doubled is defined: it doubles at every step.
LEMMA Doubling ==
    /\ Doubled \in [Nat -> Nat] /\ Doubled[0] = 1
    /\ \A e \in Nat : Doubled[e + 1] = 2 * Doubled[e]
<1>. DEFINE G == [n \in Nat |-> [x \in Nat |-> 2 * x]]
            Def(f) == f = [e \in Nat |-> IF e = 0 THEN 1 ELSE 2 * f[e - 1]]
<1>1. G \in [Nat -> [Nat -> Nat]] /\ \A n \in Nat : \A x \in Nat : G[n][x] = 2 * x
    OBVIOUS
<1>. HIDE DEF G
<1>2. G \in Steps(Nat) /\ 1 \in Nat
    BY <1>1 DEF Steps
<1>0. PICK f : Iterates(f, Nat, 1, G)
    BY <1>2, Recursion
<1>3. f \in [Nat -> Nat] /\ f[0] = 1 /\ \A n \in Nat : f[n + 1] = 2 * f[n]
    BY <1>0, <1>1 DEF Iterates
<1>4. Def(f)
  <2>1. ASSUME NEW e \in Nat PROVE f[e] = IF e = 0 THEN 1 ELSE 2 * f[e - 1]
    <3>1. CASE e = 0
      BY <1>3, <3>1
    <3>2. CASE e # 0
      <4>1. PICK d \in Nat : e = d + 1
        <5>1. e - 1 \in Nat /\ e = (e - 1) + 1
          BY <3>2
        <5> QED
          BY <5>1
      <4> QED
        BY <1>3, <4>1
    <3> QED
      BY <3>1, <3>2
  <2> QED
    BY <1>3, <2>1
<1>5. Doubled = CHOOSE g : Def(g)
    BY DEF Doubled
<1>6. Def(Doubled)
  <2>. HIDE DEF Def
  <2> QED
    BY <1>4, <1>5
<1>. DEFINE S == {n \in Nat : Doubled[n] \in Nat}
<1>7. \A e \in Nat : Doubled[e + 1] = 2 * Doubled[e]
    BY <1>6
<1>8. Doubled[0] = 1
    BY <1>6
<1>. HIDE DEF Def
<1>9. S = Nat
  <2>1. 0 \in S /\ \A n \in S : n + 1 \in S
    BY <1>7, <1>8
  <2>2. S \in SUBSET Nat
    OBVIOUS
  <2>. HIDE DEF S
  <2> QED
    BY <2>1, <2>2, Induction
<1>10. DOMAIN Doubled = Nat /\ Doubled = [e \in DOMAIN Doubled |-> Doubled[e]]
    BY <1>6 DEF Def
<1> QED
    BY <1>7, <1>8, <1>9, <1>10

\* It grows, and beyond every number.
LEMMA DoublingGrows ==
    /\ \A e \in Nat : Doubled[e] > e
    /\ \A d, e \in Nat : d < e => 2 * Doubled[d] <= Doubled[e]
<1>1. \A e \in Nat : Doubled[e] > e
  <2>. DEFINE S == {e \in Nat : Doubled[e] > e}
  <2>1. 0 \in S /\ \A n \in S : n + 1 \in S
    BY Doubling
  <2>2. S \in SUBSET Nat
    OBVIOUS
  <2>3. S = Nat
    <3>. HIDE DEF S
    <3> QED
      BY <2>1, <2>2, Induction
  <2> QED
    BY <2>3
<1>2. ASSUME NEW d \in Nat PROVE \A e \in Nat : d < e => 2 * Doubled[d] <= Doubled[e]
  <2>. DEFINE S == {e \in Nat : d < e => 2 * Doubled[d] <= Doubled[e]}
  <2>1. 0 \in S
    OBVIOUS
  <2>2. ASSUME NEW n \in S PROVE n + 1 \in S
    <3>1. Doubled[d] \in Nat /\ Doubled[n] \in Nat /\ Doubled[n + 1] = 2 * Doubled[n]
      BY Doubling
    <3>2. d < n + 1 => d = n \/ d < n
      OBVIOUS
    <3> QED
      BY <3>1, <3>2
  <2>3. S \in SUBSET Nat
    OBVIOUS
  <2>4. S = Nat
    <3>. HIDE DEF S
    <3> QED
      BY <2>1, <2>2, <2>3, Induction
  <2> QED
    BY <2>4
<1> QED
    BY <1>1, <1>2

\* The lowest level has room for all rows, the one above has not.
LEMMA HeightOK ==
    ASSUME N \in Nat \ {0}
    PROVE  /\ Height \in 0..N /\ Doubled[Height] \in Nat /\ Size \in Nat
           /\ Size = 2 * Doubled[Height]
           /\ N <= Doubled[Height] /\ Doubled[Height] < 2 * N
<1>. DEFINE S == {e \in Nat : Doubled[e] >= N}
<1>1. N \in S
    BY Doubling, DoublingGrows
<1>2. PICK e \in S : \A d \in S : e <= d
  <2>1. S \in SUBSET Nat /\ S # {}
    BY <1>1
  <2>. HIDE DEF S
  <2> QED
    BY <2>1, Smallest
<1>3. Doubled[e] < 2 * N
  <2>1. CASE e = 0
    BY <2>1, Doubling
  <2>2. CASE e # 0
    <3>1. PICK d \in Nat : e = d + 1
      <4>1. e - 1 \in Nat /\ e = (e - 1) + 1
        BY <2>2
      <4> QED
        BY <4>1
    <3>2. Doubled[d] < N /\ Doubled[d] \in Nat
      BY <1>2, <3>1, Doubling
    <3> QED
      BY <3>1, <3>2, Doubling
  <2> QED
    BY <2>1, <2>2
<1>4. e \in 0..N /\ Doubled[e] >= N
    BY <1>1, <1>2
<1>5. Height \in 0..N /\ Doubled[Height] >= N /\ Doubled[Height] < 2 * N
    BY <1>3, <1>4 DEF Height
<1> QED
    BY <1>5, Doubling DEF Size

\* The halves of a node have room for its rows.
LEMMA RoomForHalves ==
    ASSUME N \in Nat \ {0}, NEW i \in Nat, NEW l \in Nat, l > 1, Room(i, l)
    PROVE  /\ 2 * i + 2 < Size
           /\ Room(2 * i + 1, l \div 2) /\ Room(2 * i + 2, l - (l \div 2))
<1>1. PICK d \in 0..Height :
          /\ Doubled[d] - 1 <= i /\ i <= 2 * Doubled[d] - 2
          /\ 1 <= l /\ l <= Doubled[Height - d] /\ (l + 1) * Doubled[d] > N
    BY DEF Room
<1>2. PICK h \in Nat : h = Height
    BY HeightOK
<1>3. d < h
  <2>1. d = h => Doubled[h - d] = 1
    BY <1>2, Doubling
  <2> QED
    BY <1>1, <1>2, <2>1
<1>4. PICK c \in Nat, e \in Nat : c = d + 1 /\ c <= h /\ e = h - c /\ h - d = e + 1
  <2>1. d + 1 \in Nat /\ h - (d + 1) \in Nat /\ h - d = (h - (d + 1)) + 1
    BY <1>2, <1>3
  <2> QED
    BY <1>3, <2>1
<1>5. PICK w \in Nat, v \in Nat, u \in Nat :
          /\ w = Doubled[d] /\ Doubled[c] = v /\ v = 2 * w
          /\ u = Doubled[e] /\ Doubled[h - d] = 2 * u
  <2>1. d \in Nat
    BY <1>2
  <2> QED
    BY <1>4, <2>1, Doubling
<1>6. v <= Doubled[h]
  <2>1. CASE c = h
    BY <1>5, <2>1
  <2>2. CASE c < h
    BY <1>5, <2>2, Doubling, DoublingGrows
  <2> QED
    BY <1>4, <2>1, <2>2
<1>7. 2 * i + 2 < Size
    BY <1>1, <1>2, <1>5, <1>6, HeightOK
<1>8. PICK m \in Nat : m = l \div 2 /\ 1 <= m /\ 2 * m <= l /\ l <= 2 * m + 1
  <2>1. l \div 2 \in Nat /\ 2 * (l \div 2) <= l /\ l <= 2 * (l \div 2) + 1
    OBVIOUS
  <2> QED
    BY <2>1
<1>9. c \in 0..Height /\ Height - c = e
    BY <1>2, <1>4
<1>10. l <= 2 * u /\ (l + 1) * w > N
    BY <1>1, <1>2, <1>5
<1>11. (m + 1) * v >= (l + 1) * w /\ (l - m + 1) * v >= (l + 1) * w
  <2>1. 2 * (m + 1) >= l + 1 /\ 2 * (l - m + 1) >= l + 1
    BY <1>8
  <2>2. \A x \in Nat : x >= l + 1 => x * w >= (l + 1) * w
    BY <1>5
  <2>3. (m + 1) * v = (2 * (m + 1)) * w /\ (l - m + 1) * v = (2 * (l - m + 1)) * w
    BY <1>5, <1>8
  <2>4. 2 * (m + 1) \in Nat /\ 2 * (l - m + 1) \in Nat
    BY <1>8
  <2> QED
    BY <2>1, <2>2, <2>3, <2>4
<1>12. (m + 1) * v > N /\ (l - m + 1) * v > N
  <2>1. (m + 1) * v \in Int /\ (l - m + 1) * v \in Int /\ (l + 1) * w \in Int
    BY <1>5, <1>8
  <2> QED
    BY <1>10, <1>11, <2>1
<1>13. /\ v - 1 <= 2 * i + 1 /\ 2 * i + 2 <= 2 * v - 2
       /\ 1 <= m /\ m <= u /\ 1 <= l - m /\ l - m <= u
    BY <1>1, <1>5, <1>8, <1>10
<1>14. Room(2 * i + 1, m) /\ Room(2 * i + 2, l - m)
    BY <1>5, <1>9, <1>12, <1>13 DEF Room
<1> QED
    BY <1>7, <1>8, <1>14

\* A node with one row has its children beyond the last row's place, and one
\* with its children beyond the array has one row.
LEMMA RoomOfLeaf ==
    ASSUME N \in Nat \ {0}, NEW i \in Nat, NEW l \in Nat, Room(i, l)
    PROVE  /\ l = 1 => 2 * i + 1 >= N
           /\ 2 * i + 1 > Size => l = 1
<1>1. PICK d \in 0..Height :
          /\ Doubled[d] - 1 <= i /\ i <= 2 * Doubled[d] - 2
          /\ 1 <= l /\ l <= Doubled[Height - d] /\ (l + 1) * Doubled[d] > N
    BY DEF Room
<1>2. PICK h \in Nat : h = Height /\ d \in Nat /\ d <= h
    BY HeightOK
<1>3. PICK w \in Nat : w = Doubled[d]
    BY <1>2, Doubling
<1>4. l = 1 => 2 * i + 1 >= N
    BY <1>1, <1>3
<1>5. ASSUME 2 * i + 1 > Size PROVE l = 1
  <2>1. d = h
    <3>1. d < h => 2 * w <= Doubled[h]
      BY <1>2, <1>3, DoublingGrows
    <3> QED
      BY <1>1, <1>2, <1>3, <1>5, <3>1, HeightOK
  <2>2. Doubled[h - d] = 1
    BY <1>2, <2>1, Doubling
  <2> QED
    BY <1>1, <1>2, <2>2
<1> QED
    BY <1>4, <1>5

\* The root has room for all rows.
LEMMA RoomForAll == ASSUME N \in Nat \ {0} PROVE Room(0, N)
<1>1. 0 \in 0..Height /\ Height - 0 = Height
    BY HeightOK
<1> QED
    BY <1>1, HeightOK, Doubling DEF Room

-----------------------------------------------------------------------------
(* The ranges of the constraints *)


\* A value that satisfies a constraint is in its range; only NULLs are in it without
\* satisfying it.
LEMMA RangeOfHolds ==
    ASSUME NEW op \in Ops, NEW v \in 0..MaxValue, NEW w \in 0..MaxValue
    PROVE  /\ RangeOf(op, w).lo \in Int /\ RangeOf(op, w).hi \in Int
           /\ INFNEG \in Int /\ INFPOS \in Int /\ INFNEG <= Left(v) /\ Left(v) < INFPOS
           /\ Holds(op, v, w) => Within(v, RangeOf(op, w))
           /\ v # Null /\ w # Null /\ Within(v, RangeOf(op, w)) => Holds(op, v, w)
<1>0. v \in Nat /\ w \in Nat /\ MaxValue \in Nat /\ v <= MaxValue /\ w <= MaxValue
    BY ValuesOK
<1>1. CASE op = "EQ"
    BY <1>0, <1>1 DEF RangeOf, Holds, Within, Left, Right, INFNEG, INFPOS
<1>2. CASE op = "GT"
    BY <1>0, <1>2 DEF RangeOf, Holds, Within, Left, Right, INFNEG, INFPOS
<1>3. CASE op = "LE"
    BY <1>0, <1>3 DEF RangeOf, Holds, Within, Left, Right, INFNEG, INFPOS
<1>4. CASE op = "LT"
    BY <1>0, <1>4 DEF RangeOf, Holds, Within, Left, Right, INFNEG, INFPOS
<1>5. CASE op = "GE"
    BY <1>0, <1>5 DEF RangeOf, Holds, Within, Left, Right, INFNEG, INFPOS
<1> QED
    BY <1>1, <1>2, <1>3, <1>4, <1>5 DEF Ops

\* What the constraints and their values are.
Constraints(cons, args) ==
    /\ cons \in Seq([col : Nat \ {0}, op : Ops])
    /\ args \in [DOMAIN cons -> 0..MaxValue]

\* A constraint has an operator and a value.
LEMMA ConstraintIs ==
    ASSUME NEW cons, NEW args, Constraints(cons, args)
    PROVE  /\ DOMAIN cons = 1..Len(cons) /\ Len(cons) \in Nat
           /\ \A i \in DOMAIN cons : cons[i].op \in Ops /\ args[i] \in 0..MaxValue
<1>1. cons \in Seq([col : Nat \ {0}, op : Ops])
    BY DEF Constraints
<1>2. DOMAIN cons = 1..Len(cons) /\ Len(cons) \in Nat
    BY <1>1
<1>3. ASSUME NEW i \in DOMAIN cons PROVE cons[i].op \in Ops
  <2>1. cons[i] \in [col : Nat \ {0}, op : Ops]
    <3>. DEFINE C == [col : Nat \ {0}, op : Ops]
    <3>1. cons \in Seq(C) /\ i \in 1..Len(cons)
      BY <1>1, <1>2
    <3>. HIDE DEF C
    <3>2. cons[i] \in C
      BY <3>1, ElementOfSeq
    <3> QED
      BY <3>2 DEF C
  <2> QED
    BY <2>1
<1> QED
    BY <1>2, <1>3 DEF Constraints

\* A value is between the combined bounds of a column when it is in the range of
\* each of its constraints.
LEMMA CombinedIs ==
    ASSUME NEW cons, NEW args, Constraints(cons, args), NEW col
    PROVE  /\ Combined(cons, args, col).lo \in Int /\ Combined(cons, args, col).hi \in Int
           /\ \A v \in 0..MaxValue :
                 Within(v, Combined(cons, args, col)) <=>
                 \A i \in DOMAIN cons :
                     cons[i].col = col => Within(v, RangeOf(cons[i].op, args[i]))
<1>. DEFINE On == {j \in DOMAIN cons : cons[j].col = col}
            R(i) == RangeOf(cons[i].op, args[i])
            los == {R(i).lo : i \in On}
            his == {R(i).hi : i \in On}
            Lo == {INFNEG} \cup los
            Hi == {INFPOS} \cup his
<1>1. \A i \in DOMAIN cons : cons[i].op \in Ops /\ args[i] \in 0..MaxValue
    BY ConstraintIs
<1>2. INFNEG \in Int /\ INFPOS \in Int
    BY ValuesOK DEF INFNEG, INFPOS, Right
<1>3. \A i \in On : R(i).lo \in Int /\ R(i).hi \in Int
    BY <1>1, RangeOfHolds
<1>4. IsFiniteSet(On)
  <2>1. Len(cons) \in Nat /\ DOMAIN cons = 1..Len(cons)
    BY DEF Constraints
  <2>2. IsFiniteSet(1..Len(cons))
    BY <2>1, FS_Interval
  <2>3. On \subseteq 1..Len(cons)
    BY <2>1
  <2> QED
    BY <2>2, <2>3, FS_Subset
<1>5. IsFiniteSet(los) /\ los \in SUBSET Int
  <2>. DEFINE f == [i \in On |-> R(i).lo]
  <2>1. f \in [On -> Int] /\ los = {f[x] : x \in On}
    BY <1>3
  <2>. HIDE DEF f, On, los
  <2>2. IsFiniteSet({f[x] : x \in On})
    BY <1>4, <2>1, FiniteValues
  <2> QED
    BY <2>1, <2>2
<1>6. IsFiniteSet(his) /\ his \in SUBSET Int
  <2>. DEFINE f == [i \in On |-> R(i).hi]
  <2>1. f \in [On -> Int] /\ his = {f[x] : x \in On}
    BY <1>3
  <2>. HIDE DEF f, On, his
  <2>2. IsFiniteSet({f[x] : x \in On})
    BY <1>4, <2>1, FiniteValues
  <2> QED
    BY <2>1, <2>2
<1>7. Max(Lo) \in Lo /\ \A x \in Lo : x <= Max(Lo)
  <2>1. IsFiniteSet({INFNEG}) /\ IsFiniteSet(Lo) /\ Lo \in SUBSET Int /\ Lo # {}
    <3>. HIDE DEF los
    <3> QED
      BY <1>2, <1>5, FS_Singleton, FS_Union
  <2>. HIDE DEF Lo
  <2> QED
    BY <2>1, MaxOf
<1>8. Min(Hi) \in Hi /\ \A x \in Hi : Min(Hi) <= x
  <2>1. IsFiniteSet({INFPOS}) /\ IsFiniteSet(Hi) /\ Hi \in SUBSET Int /\ Hi # {}
    <3>. HIDE DEF his
    <3> QED
      BY <1>2, <1>6, FS_Singleton, FS_Union
  <2>. HIDE DEF Hi
  <2> QED
    BY <2>1, MinOf
<1>9. Combined(cons, args, col) = [lo |-> Max(Lo), hi |-> Min(Hi)]
  <2>1. {r.lo : r \in RangesOn(cons, args, col)} = los
    BY DEF RangesOn
  <2>2. {r.hi : r \in RangesOn(cons, args, col)} = his
    BY DEF RangesOn
  <2>. HIDE DEF los, his
  <2> QED
    BY <2>1, <2>2 DEF Combined
<1>10. Max(Lo) \in Int /\ Min(Hi) \in Int
    BY <1>2, <1>5, <1>6, <1>7, <1>8
<1>11. ASSUME NEW v \in 0..MaxValue
       PROVE  Within(v, Combined(cons, args, col)) <=>
              \A i \in DOMAIN cons : cons[i].col = col => Within(v, R(i))
  <2>1. INFNEG <= Left(v) /\ Left(v) < INFPOS /\ Left(v) \in Int
    BY ValuesOK DEF INFNEG, INFPOS, Left, Right
  <2>2. Within(v, Combined(cons, args, col)) <=> Max(Lo) <= Left(v) /\ Left(v) < Min(Hi)
    <3>. HIDE DEF Lo, Hi
    <3> QED
      BY <1>9 DEF Within
  <2>3. ASSUME Max(Lo) <= Left(v), Left(v) < Min(Hi), NEW i \in On
        PROVE  Within(v, R(i))
    <3>1. R(i).lo \in Lo /\ R(i).hi \in Hi /\ R(i).lo \in Int /\ R(i).hi \in Int
      BY <1>3
    <3>2. R(i).lo <= Max(Lo) /\ Min(Hi) <= R(i).hi
      BY <1>7, <1>8, <3>1
    <3>. HIDE DEF Lo, Hi, R
    <3> QED
      BY <1>10, <2>1, <2>3, <3>1, <3>2 DEF Within
  <2>4. ASSUME \A i \in On : Within(v, R(i))
        PROVE  Max(Lo) <= Left(v) /\ Left(v) < Min(Hi)
    <3>1. \A i \in On : R(i).lo <= Left(v) /\ Left(v) < R(i).hi
      BY <2>4 DEF Within
    <3>2. \A x \in Lo : x <= Left(v)
      BY <2>1, <3>1
    <3>3. \A x \in Hi : Left(v) < x
      BY <2>1, <3>1
    <3>. HIDE DEF Lo, Hi
    <3> QED
      BY <1>7, <1>8, <3>2, <3>3
  <2>5. (\A i \in DOMAIN cons : cons[i].col = col => Within(v, R(i)))
           <=> \A i \in On : Within(v, R(i))
    OBVIOUS
  <2>. HIDE DEF Lo, Hi, On, R
  <2> QED
    BY <2>2, <2>3, <2>4, <2>5
<1>. HIDE DEF Lo, Hi
<1> QED
    BY <1>9, <1>10, <1>11

-----------------------------------------------------------------------------
(* Rows and constraints *)

\* The table has a row and a column, and the constraints are on its columns.
LEMMA GivenFacts ==
    ASSUME Given
    PROVE  /\ N \in Nat \ {0} /\ K \in Nat \ {0} /\ DOMAIN data = 1..N
           /\ Constraints(query.cons, query.args)
           /\ \A r \in 1..N : \A a \in 1..K : data[r][Columns[a]] \in 0..MaxValue
           /\ \A r \in 1..N : \A i \in DOMAIN query.cons :
                 data[r][query.cons[i].col] \in 0..MaxValue
<1>1. /\ data \in Seq(Seq(0..MaxValue)) /\ data # <<>> /\ data[1] # <<>>
      /\ \A r \in DOMAIN data : Len(data[r]) = Len(data[1])
    BY InputsOK DEF Given
<1>2. Constraints(query.cons, query.args)
    BY InputsOK DEF Given, Constraints
<1>3. N \in Nat \ {0} /\ DOMAIN data = 1..N
    BY <1>1 DEF N
<1>4. \A r \in 1..N : data[r] \in Seq(0..MaxValue) /\ Len(data[r]) = Len(data[1])
    BY <1>1, <1>3
<1>5. \A r \in 1..N : \A c \in DOMAIN data[1] : data[r][c] \in 0..MaxValue
  <2>1. ASSUME NEW r \in 1..N, NEW c \in DOMAIN data[1] PROVE data[r][c] \in 0..MaxValue
    <3>1. data[1] \in Seq(0..MaxValue) /\ data[r] \in Seq(0..MaxValue)
          /\ Len(data[r]) = Len(data[1])
      BY <1>3, <1>4
    <3>2. DOMAIN data[r] = DOMAIN data[1]
      BY <3>1
    <3>3. ASSUME NEW V, data[r] \in Seq(V) PROVE data[r][c] \in V
      BY <3>2, <3>3
    <3> QED
      BY <3>1, <3>3
  <2> QED
    BY <2>1
<1>6. \A i \in DOMAIN query.cons : query.cons[i].col \in DOMAIN data[1]
    BY DEF Given
<1>7. K \in Nat \ {0} /\ \A a \in 1..K : Columns[a] \in DOMAIN data[1]
  <2>1. CASE query.cons = <<>>
    <3>1. data[1] \in Seq(0..MaxValue) /\ data[1] # <<>>
      BY <1>1, <1>3, <1>4
    <3>2. DOMAIN data[1] = 1..Len(data[1]) /\ Len(data[1]) \in Nat \ {0}
      BY <3>1
    <3>3. Columns = [i \in 1..Len(data[1]) |-> i]
      BY <2>1, <3>2 DEF Columns
    <3>4. K = Len(data[1])
      BY <3>2, <3>3 DEF K
    <3> QED
      BY <3>2, <3>3, <3>4
  <2>2. CASE query.cons # <<>>
    <3>1. DOMAIN query.cons = 1..Len(query.cons) /\ Len(query.cons) \in Nat \ {0}
      BY <1>2, <2>2 DEF Constraints
    <3>2. Columns = [i \in 1..Len(query.cons) |-> query.cons[i].col]
      BY <2>2, <3>1 DEF Columns
    <3>3. K = Len(query.cons)
      BY <3>1, <3>2 DEF K
    <3> QED
      BY <1>6, <3>1, <3>2, <3>3
  <2> QED
    BY <2>1, <2>2
<1> QED
    BY <1>2, <1>3, <1>5, <1>6, <1>7

\* A row to be found is in the range on every axis.
LEMMA WantedPasses ==
    ASSUME Given
    PROVE  Wanted \subseteq {r \in 1..N : Passes(r)}
<1> SUFFICES ASSUME NEW r \in Wanted PROVE r \in 1..N /\ Passes(r)
    OBVIOUS
<1>1. r \in 1..N /\ \A i \in DOMAIN query.cons :
          Holds(query.cons[i].op, data[r][query.cons[i].col], query.args[i])
    BY GivenFacts DEF Wanted, Selected
<1>2. ASSUME NEW a \in 1..K PROVE Within(data[r][Columns[a]], AxisRange(a))
  <2>1. data[r][Columns[a]] \in 0..MaxValue
    BY <1>1, GivenFacts
  <2>2. ASSUME NEW i \in DOMAIN query.cons, query.cons[i].col = Columns[a]
        PROVE  Within(data[r][Columns[a]], RangeOf(query.cons[i].op, query.args[i]))
    <3>1. query.cons[i].op \in Ops /\ query.args[i] \in 0..MaxValue
      BY GivenFacts, ConstraintIs
    <3> QED
      BY <1>1, <2>1, <2>2, <3>1, RangeOfHolds
  <2>3. Constraints(query.cons, query.args)
    BY GivenFacts
  <2> QED
    BY <2>1, <2>2, <2>3, CombinedIs DEF AxisRange
<1> QED
    BY <1>1, <1>2 DEF Passes

\* NULLs are neither in the tables nor asked for.
WithoutNulls ==
    /\ \A t \in Tables : \A r \in DOMAIN t : \A c \in DOMAIN t[r] : t[r][c] # Null
    /\ \A q \in Queries : \A i \in DOMAIN q.cons : q.args[i] # Null

\* Without NULLs a row in the range on every axis is to be found.
LEMMA PassesWanted ==
    ASSUME Given, WithoutNulls, NEW r \in 1..N, Passes(r)
    PROVE  r \in Wanted
<1>1. ASSUME NEW i \in DOMAIN query.cons
      PROVE  Holds(query.cons[i].op, data[r][query.cons[i].col], query.args[i])
  <2>1. query.cons[i].op \in Ops /\ query.args[i] \in 0..MaxValue
    BY GivenFacts, ConstraintIs
  <2>2. i \in 1..K /\ Columns[i] = query.cons[i].col
    <3>1. query.cons # <<>> /\ DOMAIN query.cons = 1..Len(query.cons) /\ Len(query.cons) \in Nat
      BY GivenFacts, ConstraintIs
    <3>2. Columns = [j \in 1..Len(query.cons) |-> query.cons[j].col]
      BY <3>1 DEF Columns
    <3> QED
      BY <3>1, <3>2 DEF K
  <2>3. data[r][query.cons[i].col] \in 0..MaxValue
    BY GivenFacts
  <2>4. Within(data[r][query.cons[i].col], Combined(query.cons, query.args, query.cons[i].col))
    BY <2>2 DEF Passes, AxisRange
  <2>5. Within(data[r][query.cons[i].col], RangeOf(query.cons[i].op, query.args[i]))
    <3>1. Constraints(query.cons, query.args)
      BY GivenFacts
    <3> QED
      BY <2>3, <2>4, <3>1, CombinedIs
  <2>6. data[r][query.cons[i].col] # Null /\ query.args[i] # Null
    <3>1. data \in Tables /\ query \in Queries /\ query.cons[i].col \in DOMAIN data[1]
      BY DEF Given
    <3>2. r \in DOMAIN data
      BY GivenFacts
    <3>3. DOMAIN data[r] = DOMAIN data[1]
      <4>1. data \in Seq(Seq(0..MaxValue)) /\ data # <<>> /\ Len(data[r]) = Len(data[1])
        BY <3>1, <3>2, InputsOK
      <4>2. data[r] \in Seq(0..MaxValue) /\ data[1] \in Seq(0..MaxValue)
        BY <3>2, <4>1
      <4> QED
        BY <4>1, <4>2
    <3> QED
      BY <3>1, <3>2, <3>3 DEF WithoutNulls
  <2> QED
    BY <2>1, <2>3, <2>5, <2>6, RangeOfHolds
<1>2. r \in DOMAIN data
    BY GivenFacts
<1> QED
    BY <1>1, <1>2 DEF Wanted, Selected

\* Constraints that exclude each other select nothing.
LEMMA ContradictNone ==
    ASSUME Given, Contradict(query.cons, query.args)
    PROVE  Wanted = {}
<1> SUFFICES ASSUME NEW r \in Wanted PROVE FALSE
    OBVIOUS
<1>1. PICK i \in DOMAIN query.cons :
          LET range == Combined(query.cons, query.args, query.cons[i].col) IN range.lo >= range.hi
    BY DEF Contradict
<1>2. r \in 1..N /\ Passes(r)
    BY WantedPasses
<1>3. i \in 1..K /\ Columns[i] = query.cons[i].col
  <2>1. query.cons # <<>> /\ DOMAIN query.cons = 1..Len(query.cons) /\ Len(query.cons) \in Nat
    BY GivenFacts, ConstraintIs
  <2>2. Columns = [j \in 1..Len(query.cons) |-> query.cons[j].col]
    BY <2>1 DEF Columns
  <2> QED
    BY <2>1, <2>2 DEF K
<1>4. Within(data[r][query.cons[i].col], Combined(query.cons, query.args, query.cons[i].col))
    BY <1>2, <1>3 DEF Passes, AxisRange
<1>5. data[r][query.cons[i].col] \in 0..MaxValue /\ Constraints(query.cons, query.args)
    BY <1>2, GivenFacts
<1>6. /\ Combined(query.cons, query.args, query.cons[i].col).lo \in Int
      /\ Combined(query.cons, query.args, query.cons[i].col).hi \in Int
    BY <1>5, CombinedIs
<1> QED
    BY <1>1, <1>4, <1>5, <1>6 DEF Within, Left

-----------------------------------------------------------------------------
(* Sorting and halving *)

\* What is sorted has the same rows, in the order of the column.
LEMMA SortedIs ==
    ASSUME NEW T, NEW s \in Seq(T), NEW col, \A j \in DOMAIN s : data[s[j]][col] \in Int,
           IsInjective(s)
    PROVE  LET r == Sorted(s, col) IN
           /\ r \in Seq(T) /\ Len(r) = Len(s) /\ ToSet(r) = ToSet(s) /\ IsInjective(r)
           /\ \A a, b \in 1..Len(s) : a <= b => data[r[a]][col] <= data[r[b]][col]
<1>1. PICK n \in Nat : n = Len(s) /\ DOMAIN s = 1..n /\ s \in [1..n -> T]
    OBVIOUS
<1>. DEFINE D == 1..n
            Key == [j \in D |-> data[s[j]][col]]
            Before(i, j) == Key[i] < Key[j] \/ (Key[i] = Key[j] /\ i < j)
            R == {p \in D \X D : Before(p[1], p[2])}
            rank(j) == RankIn(R, n, j)
            A(j) == Cardinality({i \in D :
                       \/ data[s[i]][col] < data[s[j]][col]
                       \/ data[s[i]][col] = data[s[j]][col] /\ i < j}) + 1
            pos == [k \in D |-> CHOOSE j \in D : A(j) = k]
<1>2. Key \in [D -> Int]
    BY <1>1
<1>3. \A i, j \in D : <<i, j>> \in R <=> Before(i, j)
    OBVIOUS
<1>. HIDE DEF Key, R
<1>4. TotalOrder(R, n)
  <2>1. ASSUME NEW i \in D, NEW j \in D, i # j PROVE Before(i, j) \/ Before(j, i)
    <3>1. Key[i] \in Int /\ Key[j] \in Int /\ i \in Int /\ j \in Int
      BY <1>2
    <3> QED
      BY <2>1, <3>1
  <2>2. \A i \in D : ~Before(i, i)
    BY <1>2
  <2>3. \A i, j, k \in D : Before(i, j) /\ Before(j, k) => Before(i, k)
    BY <1>2
  <2>. HIDE DEF Before
  <2> QED
    BY <1>3, <2>1, <2>2, <2>3 DEF TotalOrder
<1>5. /\ \A j \in D : rank(j) \in D
      /\ \A i, j \in D : <<i, j>> \in R <=> rank(i) < rank(j)
      /\ \A k \in D : \E j \in D : rank(j) = k
    BY <1>4, Ranks
<1>6. Sorted(s, col) = [k \in D |-> s[pos[k]]]
  <2>1. Sorted(s, col) = [k \in D |-> s[CHOOSE j \in D : A(j) = k]]
    BY <1>1 DEF Sorted
  <2>. HIDE DEF A, D
  <2> QED
    BY <2>1
<1>7. \A j \in D : A(j) = rank(j)
  <2>1. ASSUME NEW j \in D
        PROVE  {i \in D : <<i, j>> \in R}
                 = {i \in D : \/ data[s[i]][col] < data[s[j]][col]
                              \/ data[s[i]][col] = data[s[j]][col] /\ i < j}
    <3>1. \A i \in D : <<i, j>> \in R <=>
              \/ data[s[i]][col] < data[s[j]][col]
              \/ data[s[i]][col] = data[s[j]][col] /\ i < j
      <4>1. \A i \in D : Key[i] = data[s[i]][col]
        BY DEF Key
      <4>2. \A i \in D : <<i, j>> \in R <=> Key[i] < Key[j] \/ (Key[i] = Key[j] /\ i < j)
        BY <1>3
      <4> QED
        BY <4>1, <4>2
    <3> QED
      BY <3>1
  <2> QED
    BY <2>1 DEF RankIn
<1>. HIDE DEF Before, A
<1>8. \A k \in D : pos[k] \in D /\ rank(pos[k]) = k
  <2>. HIDE DEF rank
  <2> QED
    BY <1>5, <1>7
<1>9. \A j \in D : pos[rank(j)] = j
  <2>1. ASSUME NEW j \in D, NEW i \in D, rank(i) = rank(j) PROVE i = j
    <3>1. i # j => <<i, j>> \in R \/ <<j, i>> \in R
      BY <1>4 DEF TotalOrder
    <3> QED
      BY <1>5, <2>1, <3>1
  <2>. HIDE DEF rank, pos
  <2> QED
    BY <1>5, <1>8, <2>1
<1>. HIDE DEF rank, pos
<1>. DEFINE r == Sorted(s, col)
<1>10. r \in [D -> T] /\ \A k \in D : r[k] = s[pos[k]]
    BY <1>1, <1>6, <1>8
<1>11. r \in Seq(T) /\ Len(r) = n /\ DOMAIN r = D
  <2>1. r \in [1..n -> T]
    BY <1>10
  <2>. HIDE DEF r
  <2> QED
    BY <2>1
<1>. HIDE DEF r
<1>12. IsInjective(r)
  <2>1. ASSUME NEW a \in D, NEW b \in D, r[a] = r[b] PROVE a = b
    <3>1. pos[a] \in D /\ pos[b] \in D /\ s[pos[a]] = s[pos[b]]
      BY <1>8, <1>10, <2>1
    <3>2. pos[a] = pos[b]
      BY <1>1, <3>1 DEF IsInjective
    <3> QED
      BY <1>8, <3>2
  <2> QED
    BY <1>11, <2>1 DEF IsInjective
<1>13. ToSet(r) = ToSet(s)
  <2>1. ASSUME NEW k \in D PROVE r[k] \in ToSet(s)
    BY <1>1, <1>8, <1>10 DEF ToSet
  <2>2. ASSUME NEW j \in D PROVE s[j] \in ToSet(r)
    <3>1. rank(j) \in D /\ r[rank(j)] = s[j]
      BY <1>5, <1>9, <1>10
    <3> QED
      BY <1>11, <3>1 DEF ToSet
  <2> QED
    BY <1>1, <1>11, <2>1, <2>2 DEF ToSet
<1>14. ASSUME NEW a \in D, NEW b \in D, a <= b
       PROVE  data[r[a]][col] <= data[r[b]][col]
  <2>1. pos[a] \in D /\ pos[b] \in D /\ rank(pos[a]) = a /\ rank(pos[b]) = b
    BY <1>8
  <2>2. data[r[a]][col] = Key[pos[a]] /\ data[r[b]][col] = Key[pos[b]]
    BY <1>10, <2>1 DEF Key
  <2>3. Key[pos[a]] \in Int /\ Key[pos[b]] \in Int
    BY <1>2, <2>1
  <2>4. CASE a = b
    BY <2>2, <2>3, <2>4
  <2>5. CASE a # b
    <3>1. <<pos[a], pos[b]>> \in R
      <4>1. a < b
        BY <1>14, <2>5
      <4> QED
        BY <1>5, <2>1, <4>1
    <3>2. Key[pos[a]] < Key[pos[b]] \/ Key[pos[a]] = Key[pos[b]]
      BY <1>3, <2>1, <3>1 DEF Before
    <3> QED
      BY <2>2, <2>3, <3>2
  <2> QED
    BY <2>4, <2>5
<1> QED
    BY <1>1, <1>11, <1>12, <1>13, <1>14 DEF r

\* A part of a sequence has the rows of its places.
LEMMA PartIs ==
    ASSUME NEW T, NEW s \in Seq(T), IsInjective(s), NEW a \in 1..Len(s), NEW b \in a..Len(s)
    PROVE  LET h == SubSeq(s, a, b) IN
           /\ h \in Seq(T) /\ h # <<>> /\ Len(h) = b - a + 1 /\ IsInjective(h)
           /\ ToSet(h) = {s[k] : k \in a..b}
<1>1. PICK n \in Nat : n = Len(s) /\ DOMAIN s = 1..n /\ s \in [1..n -> T]
    OBVIOUS
<1>2. a \in 1..n /\ b \in 1..n /\ a <= b
    BY <1>1
<1>. DEFINE h == SubSeq(s, a, b)
            m == b - a + 1
<1>3. h = [k \in 1..m |-> s[a + k - 1]]
  <2>1. \A k \in 1..m : k + a - 1 = a + k - 1
    BY <1>2
  <2> QED
    BY <1>1, <1>2, <2>1
<1>4. m \in Nat /\ m >= 1 /\ \A k \in 1..m : a + k - 1 \in 1..n /\ a + k - 1 \in a..b
    BY <1>2
<1>5. h \in [1..m -> T] /\ \A k \in 1..m : h[k] = s[a + k - 1]
  <2>. HIDE DEF h, m
  <2> QED
    BY <1>1, <1>3, <1>4
<1>. HIDE DEF h
<1>6. h \in Seq(T) /\ Len(h) = m /\ DOMAIN h = 1..m /\ h # <<>>
  <2>. HIDE DEF m
  <2> QED
    BY <1>4, <1>5
<1>7. IsInjective(h)
  <2>1. ASSUME NEW k \in 1..m, NEW l \in 1..m, h[k] = h[l] PROVE k = l
    <3>1. s[a + k - 1] = s[a + l - 1]
      BY <1>5, <2>1
    <3>2. a + k - 1 = a + l - 1
      BY <1>1, <1>4, <3>1 DEF IsInjective
    <3> QED
      BY <1>2, <3>2
  <2> QED
    BY <1>6, <2>1 DEF IsInjective
<1>8. ToSet(h) = {s[k] : k \in a..b}
  <2>1. ASSUME NEW k \in 1..m PROVE h[k] \in {s[j] : j \in a..b}
    BY <1>4, <1>5
  <2>2. ASSUME NEW j \in a..b PROVE s[j] \in ToSet(h)
    <3>1. j - a + 1 \in 1..m /\ a + (j - a + 1) - 1 = j
      BY <1>2
    <3> QED
      BY <1>5, <1>6, <3>1 DEF ToSet
  <2> QED
    BY <1>6, <2>1, <2>2 DEF ToSet
<1> QED
    BY <1>6, <1>7, <1>8 DEF h

\* The halves of a sequence of more than one row.
LEMMA HalvesAre ==
    ASSUME NEW T, NEW s \in Seq(T), IsInjective(s), Len(s) > 1
    PROVE  LET m == Len(s) \div 2
               h1 == SubSeq(s, 1, m)
               h2 == SubSeq(s, m + 1, Len(s))
           IN
           /\ h1 \in Seq(T) /\ h1 # <<>> /\ Len(h1) = m /\ IsInjective(h1)
           /\ ToSet(h1) = {s[k] : k \in 1..m}
           /\ h2 \in Seq(T) /\ h2 # <<>> /\ Len(h2) = Len(s) - m /\ IsInjective(h2)
           /\ ToSet(h2) = {s[k] : k \in (m + 1)..Len(s)}
<1>1. PICK n \in Nat : n = Len(s) /\ n > 1
    OBVIOUS
<1>2. PICK m \in Nat : m = n \div 2 /\ 1 <= m /\ m < n
  <2>1. n \div 2 \in Nat /\ 1 <= n \div 2 /\ n \div 2 < n
    BY <1>1
  <2> QED
    BY <2>1
<1>3. 1 \in 1..n /\ m \in 1..n /\ m + 1 \in 1..n /\ n \in (m + 1)..n
      /\ m - 1 + 1 = m /\ n - (m + 1) + 1 = n - m
    BY <1>1, <1>2
<1>4. LET h1 == SubSeq(s, 1, m) IN
      /\ h1 \in Seq(T) /\ h1 # <<>> /\ Len(h1) = m - 1 + 1 /\ IsInjective(h1)
      /\ ToSet(h1) = {s[k] : k \in 1..m}
    BY <1>1, <1>3, PartIs
<1>5. LET h2 == SubSeq(s, m + 1, n) IN
      /\ h2 \in Seq(T) /\ h2 # <<>> /\ Len(h2) = n - (m + 1) + 1 /\ IsInjective(h2)
      /\ ToSet(h2) = {s[k] : k \in (m + 1)..n}
  <2>1. m + 1 \in 1..Len(s) /\ n \in (m + 1)..Len(s)
    BY <1>1, <1>3
  <2> QED
    BY <2>1, PartIs
<1> QED
    BY <1>1, <1>2, <1>3, <1>4, <1>5

-----------------------------------------------------------------------------
(* What the steps share *)

\* A step that leaves the rows and the query leaves what depends on them.
LEMMA SameData ==
    ASSUME data' = data, query' = query
    PROVE  /\ N' = N /\ Columns' = Columns /\ K' = K /\ Height' = Height /\ Size' = Size
           /\ Nodes' = Nodes /\ Wanted' = Wanted /\ (Given' <=> Given)
           /\ \A a : NextAxis(a)' = NextAxis(a)
           /\ \A r : Passes(r)' <=> Passes(r)
           /\ \A i, l : Room(i, l)' <=> Room(i, l)
<1>1. N' = N /\ Columns' = Columns
    BY DEF N, Columns
<1>2. K' = K /\ Height' = Height
    BY <1>1 DEF K, Height
<1>3. Size' = Size
    BY <1>2 DEF Size
<1>4. Nodes' = Nodes
    BY <1>3 DEF Nodes
<1>5. Wanted' = Wanted
    BY DEF Wanted
<1>6. Given' <=> Given
    BY DEF Given
<1>7. \A a : NextAxis(a)' = NextAxis(a)
    BY <1>2 DEF NextAxis
<1>8. \A r : Passes(r)' <=> Passes(r)
    BY <1>1, <1>2 DEF Passes, AxisRange
<1>9. \A i, l : Room(i, l)' <=> Room(i, l)
    BY <1>1, <1>2 DEF Room
<1> QED
    BY <1>1, <1>2, <1>3, <1>4, <1>5, <1>6, <1>7, <1>8, <1>9

\* The nodes are numbers from 0; their number is even.
LEMMA NodesAre ==
    ASSUME N \in Nat \ {0}
    PROVE  /\ Nodes \subseteq Nat /\ 0 \in Nodes /\ Size \in Nat
           /\ \A i \in Nat : i \in Nodes <=> i < Size
           /\ \A i \in Nat : 2 * i + 1 # Size
           /\ \A i \in Nat : 2 * i + 2 < Size => i \in Nodes /\ 2 * i + 1 \in Nodes /\ 2 * i + 2 \in Nodes
<1>1. PICK h \in Nat : Size = 2 * h /\ h >= 1
    BY HeightOK
<1> QED
    BY <1>1 DEF Nodes

\* What is in a sequence.
LEMMA ElementIs ==
    ASSUME NEW T, NEW s \in Seq(T), NEW j \in DOMAIN s
    PROVE  s[j] \in T
    OBVIOUS

\* The last of a sequence, and what comes before it.
LEMMA TopIs ==
    ASSUME NEW T, NEW s \in Seq(T), s # <<>>
    PROVE  /\ Len(s) \in Nat \ {0} /\ DOMAIN s = 1..Len(s)
           /\ Last(s) = s[Len(s)] /\ Last(s) \in T
           /\ Front(s) \in Seq(T) /\ Len(Front(s)) = Len(s) - 1
           /\ DOMAIN Front(s) = 1..(Len(s) - 1)
           /\ \A n \in 1..(Len(s) - 1) : Front(s)[n] = s[n]
<1>1. Len(s) \in Nat \ {0} /\ DOMAIN s = 1..Len(s)
    OBVIOUS
<1>2. Last(s) = s[Len(s)] /\ Last(s) \in T
    BY <1>1, ElementOfSeq DEF Last
<1>3. Front(s) \in Seq(T) /\ Len(Front(s)) = Len(s) - 1
  <2>1. 1 \in 1..(Len(s) + 1) /\ Len(s) - 1 \in (1 - 1)..Len(s)
    BY <1>1
  <2>2. \A k \in 1..(Len(s) - 1) : s[k] \in T
    BY <1>1, ElementOfSeq
  <2> QED
    BY <1>1, <2>2 DEF Front
<1>4. \A n \in 1..(Len(s) - 1) : Front(s)[n] = s[n]
    BY <1>1 DEF Front
<1>5. DOMAIN Front(s) = 1..(Len(s) - 1)
    BY <1>3
<1> QED
    BY <1>1, <1>2, <1>3, <1>4, <1>5

\* u is s with its last replaced by h.
LastReplaced(u, s, h) ==
    /\ Len(h) \in Nat
    /\ DOMAIN u = 1..(Len(s) - 1 + Len(h))
    /\ \A n \in 1..(Len(s) - 1) : u[n] = s[n]
    /\ \A k \in 1..Len(h) : u[Len(s) - 1 + k] = h[k]
    /\ \A n \in DOMAIN u : n \in 1..(Len(s) - 1) \/ \E k \in 1..Len(h) : n = Len(s) - 1 + k

\* The last of a sequence replaced by another sequence.
LEMMA Replaced ==
    ASSUME NEW T, NEW s \in Seq(T), s # <<>>, NEW h \in Seq(T),
           NEW u, u = Front(s) \o h
    PROVE  u \in Seq(T) /\ LastReplaced(u, s, h)
<1>. DEFINE f == Front(s)
<1>0. Len(s) - 1 \in Nat
  <2>1. Len(s) \in Nat \ {0}
    BY TopIs
  <2> QED
    BY <2>1
<1>1. PICK m \in Nat : m = Len(s) - 1
    BY <1>0, Zenon
<1>2. f \in Seq(T) /\ Len(f) = m /\ DOMAIN f = 1..m /\ \A n \in 1..m : f[n] = s[n]
    BY <1>1, TopIs
<1>3. PICK l \in Nat : l = Len(h)
    OBVIOUS
<1>10. u = f \o h
    OBVIOUS
<1>. HIDE DEF f
<1>4. u \in Seq(T) /\ Len(u) = m + l
  <2>1. f \o h \in Seq(T)
    BY <1>2
  <2>2. Len(f \o h) = Len(f) + Len(h)
    BY <1>2, ConcatProperties
  <2> QED
    BY <1>2, <1>3, <1>10, <2>1, <2>2
<1>5. \A n \in 1..(m + l) : u[n] = IF n <= m THEN f[n] ELSE h[n - m]
    BY <1>10, <1>2, <1>3
<1>6. DOMAIN u = 1..(m + l)
    BY <1>4
<1>7. \A n \in 1..m : u[n] = s[n]
  <2>1. \A n \in 1..m : n \in 1..(m + l) /\ n <= m
    OBVIOUS
  <2> QED
    BY <1>2, <1>5, <2>1
<1>8. \A k \in 1..l : u[m + k] = h[k]
  <2>1. ASSUME NEW k \in 1..l PROVE u[m + k] = h[k]
    <3>1. m + k \in 1..(m + l) /\ ~(m + k <= m) /\ (m + k) - m = k
      OBVIOUS
    <3> QED
      BY <1>5, <3>1
  <2> QED
    BY <2>1
<1>9. \A n \in 1..(m + l) : n \in 1..m \/ \E k \in 1..l : n = m + k
  <2>1. ASSUME NEW n \in 1..(m + l), n \notin 1..m PROVE \E k \in 1..l : n = m + k
    <3>1. n - m \in 1..l /\ n = m + (n - m)
      BY <2>1
    <3> QED
      BY <3>1
  <2> QED
    BY <2>1
<1> QED
    BY <1>1, <1>3, <1>4, <1>6, <1>7, <1>8, <1>9 DEF LastReplaced

\* The axes in turn.
LEMMA NextAxisOK ==
    ASSUME K \in Nat \ {0}, NEW a \in 1..K
    PROVE  NextAxis(a) \in 1..K
    BY DEF NextAxis

\* query takes a node for a leaf when one row is below it; all others have halves.
LEMMA LeafIs ==
    ASSUME Given, NEW ax, TreeOK(ax), NEW i \in Nodes, tree[i] # <<>>, ~Pending(i)
    PROVE  /\ Len(tree[i]) \in Nat \ {0} /\ DOMAIN tree[i] = 1..Len(tree[i])
           /\ tree[i] \in Seq(1..N) /\ IsInjective(tree[i])
           /\ IsLeaf(i) <=> Len(tree[i]) = 1
           /\ Len(tree[i]) # 1 => Halved(i, ax)
<1>1. tree[i] \in Seq(1..N)
    BY DEF TreeOK
<1>2. Len(tree[i]) \in Nat \ {0} /\ DOMAIN tree[i] = 1..Len(tree[i])
    BY <1>1
<1>3. /\ IsInjective(tree[i]) /\ Room(i, Len(tree[i]))
      /\ IF Len(tree[i]) = 1 THEN Childless(i) ELSE Halved(i, ax)
    BY DEF TreeOK, NodeOK
<1>4. N \in Nat \ {0} /\ i \in Nat
    BY GivenFacts, NodesAre
<1>5. CASE Len(tree[i]) = 1
  <2>1. 2 * i + 1 >= N
    BY <1>2, <1>3, <1>4, <1>5, RoomOfLeaf
  <2>2. 2 * i + 1 < Size => tree[2 * i + 1] = <<>>
    BY <1>3, <1>5 DEF Childless
  <2>3. 2 * i + 1 # Size /\ Size \in Nat
    BY <1>4, NodesAre
  <2>4. IsLeaf(i)
    BY <1>4, <2>1, <2>2, <2>3 DEF IsLeaf
  <2> QED
    BY <1>1, <1>2, <1>3, <1>5, <2>4
<1>6. CASE Len(tree[i]) # 1
  <2>1. Halved(i, ax)
    BY <1>3, <1>6
  <2>2. 2 * i + 2 < Size /\ tree[2 * i + 1] # <<>> /\ Size \in Nat
    BY <1>4, <2>1, NodesAre DEF Halved
  <2>3. ~IsLeaf(i)
    BY <1>4, <2>2 DEF IsLeaf
  <2> QED
    BY <1>1, <1>2, <1>3, <1>6, <2>1, <2>3
<1> QED
    BY <1>5, <1>6

\* The tree is as it was when it is not changed and nothing is being built.
LEMMA TreeStays ==
    ASSUME data' = data, query' = query, tree' = tree, NEW ax, TreeOK(ax),
           \A i \in Nodes : Pending(i)' <=> Pending(i)
    PROVE  TreeOK(ax)'
<1>1. /\ tree' \in [Nodes' -> Seq(1..N')] /\ ax \in [Nodes' -> 1..K'] /\ ax[0] = 1
      /\ tree'[0] # <<>> /\ ToSet(tree'[0]) = 1..N'
    BY SameData DEF TreeOK
<1>2. ASSUME NEW i \in Nodes PROVE NodeOK(i, ax)'
  <2>1. Childless(i)' <=> Childless(i)
    BY SameData DEF Childless
  <2>2. Halved(i, ax)' <=> Halved(i, ax)
    <3>1. Size' = Size /\ Columns' = Columns /\ NextAxis(ax[i])' = NextAxis(ax[i])
      BY SameData
    <3> QED
      BY <3>1 DEF Halved
  <2>3. Room(i, Len(tree[i]))' <=> Room(i, Len(tree[i]))
    BY SameData DEF Room
  <2>4. NodeOK(i, ax) /\ (Pending(i)' <=> Pending(i))
    BY DEF TreeOK
  <2> QED
    BY <2>1, <2>2, <2>3, <2>4 DEF NodeOK
<1> QED
    BY <1>1, <1>2, SameData DEF TreeOK

-----------------------------------------------------------------------------
(* The steps, one by one *)

Tasks == [node : Nat, axis : Nat]

\* Nothing has been built or found at the beginning.
LEMMA InitOK == Init => IInv
<1> SUFFICES ASSUME Init PROVE IInv
    OBVIOUS
<1>1. todo = <<>> /\ found = <<>> /\ tree = <<>> /\ st = "new"
    BY DEF Init
<1>2. Given
    BY DEF Init, Given
<1>3. Rest
  <2>1. todo \in Seq(Tasks) /\ found \in Seq(1..N) /\ FoundPass
    BY <1>1 DEF FoundPass
  <2> QED
    BY <1>1, <2>1 DEF Rest, Tasks
<1> QED
    BY <1>1, <1>2, <1>3 DEF IInv, NoneMissed

\* The root has all rows and is the first to be built.
LEMMA BuildOK == ASSUME IInv, Build PROVE IInv'
<1>1. /\ data' = data /\ query' = query /\ found' = found /\ st' = "build" /\ st = "new"
      /\ tree' = [i \in 0..(Size - 1) |-> IF i = 0 THEN [r \in 1..N |-> r] ELSE <<>>]
      /\ todo' = <<[node |-> 0, axis |-> 1]>>
    BY DEF Build
<1>2. Given /\ Rest
    BY DEF IInv
<1>3. N \in Nat \ {0} /\ K \in Nat \ {0}
    BY <1>2, GivenFacts
<1>. DEFINE rows == [r \in 1..N |-> r]
<1>4. rows \in Seq(1..N) /\ Len(rows) = N /\ rows # <<>> /\ ToSet(rows) = 1..N
      /\ IsInjective(rows)
  <2>1. rows \in Seq(1..N) /\ Len(rows) = N /\ DOMAIN rows = 1..N
    BY <1>3
  <2> QED
    BY <1>3, <2>1 DEF ToSet, IsInjective
<1>. HIDE DEF rows
<1>5. tree' \in [Nodes -> Seq(1..N)]
  <2>1. <<>> \in Seq(1..N)
    OBVIOUS
  <2> QED
    BY <1>1, <1>4, <2>1 DEF Nodes, rows
<1>6. tree'[0] = rows /\ \A i \in Nodes : i # 0 => tree'[i] = <<>>
    BY <1>1, <1>3, NodesAre DEF Nodes, rows
<1>7. Len(todo') = 1 /\ DOMAIN todo' = {1} /\ todo'[1] = [node |-> 0, axis |-> 1]
    BY <1>1
<1>8. PICK ax \in [Nodes -> 1..K] : ax[0] = 1 /\ 0 \in Nodes
  <2>1. [i \in Nodes |-> 1] \in [Nodes -> 1..K] /\ 0 \in Nodes
    BY <1>3, NodesAre
  <2> QED
    BY <2>1
<1>9. ASSUME NEW i \in Nodes PROVE NodeOK(i, ax)'
  <2>1. Childless(i)'
    <3>1. ASSUME NEW c \in {2 * i + 1, 2 * i + 2}, c < Size PROVE tree'[c] = <<>>
      <4>1. c \in Nat /\ c # 0
        BY <1>3, NodesAre
      <4>2. c \in Nodes
        BY <1>3, <3>1, <4>1, NodesAre
      <4> QED
        BY <1>6, <4>1, <4>2
    <3> QED
      BY <1>1, <3>1, SameData DEF Childless
  <2>2. CASE i # 0
    BY <1>6, <2>1, <2>2 DEF NodeOK
  <2>3. CASE i = 0
    <3>1. Pending(i)'
      BY <1>1, <1>7, <2>3 DEF Pending
    <3>2. Room(0, N)
      BY <1>3, RoomForAll
    <3>3. Room(i, Len(tree[i]))'
      BY <1>1, <1>4, <1>6, <2>3, <3>2, SameData DEF Room
    <3> QED
      BY <1>4, <1>6, <2>1, <2>3, <3>1, <3>3 DEF NodeOK
  <2> QED
    BY <2>2, <2>3
<1>10. TreeOK(ax)'
  <2>1. tree'[0] # <<>> /\ ToSet(tree'[0]) = 1..N
    BY <1>4, <1>6
  <2>2. data' = data /\ query' = query
    BY <1>1
  <2>3. Nodes' = Nodes /\ K' = K /\ N' = N
    BY <2>2, SameData
  <2> QED
    BY <1>5, <1>8, <1>9, <2>1, <2>3 DEF TreeOK
<1>11. TodoOK(ax)'
  <2>1. data' = data /\ query' = query
    BY <1>1
  <2>2. Nodes' = Nodes
    BY <2>1, SameData
  <2>3. tree'[0] # <<>>
    BY <1>4, <1>6
  <2> QED
    BY <1>7, <1>8, <2>2, <2>3 DEF TodoOK
<1>12. Rest'
  <2>1. todo' \in Seq(Tasks)
    BY <1>1 DEF Tasks
  <2>2. Distinct'
    BY <1>7 DEF Distinct
  <2>3. found' = <<>> /\ FoundPass' /\ found' \in Seq(1..N')
    BY <1>1, <1>2 DEF Rest, FoundPass
  <2> QED
    BY <1>1, <2>1, <2>2, <2>3 DEF Rest, Tasks
<1>13. Given'
    BY <1>1, <1>2, SameData
<1>14. (\E bx \in [Nodes -> 1..K] : Shape(bx))'
  <2>1. Shape(ax)' /\ ax \in [Nodes' -> 1..K']
    BY <1>1, <1>8, <1>10, <1>11, SameData DEF Shape
  <2> QED
    BY <2>1
<1> QED
    BY <1>1, <1>12, <1>13, <1>14 DEF IInv, NoneMissed

\* The tree is complete.
LEMMA BuiltOK == ASSUME IInv, Built PROVE IInv'
<1>1. /\ data' = data /\ query' = query /\ found' = found /\ tree' = tree /\ todo' = todo
      /\ st' = "built" /\ st = "build" /\ todo = <<>>
    BY DEF Built
<1>2. Given /\ Rest
    BY DEF IInv
<1>3. PICK ax \in [Nodes -> 1..K] : Shape(ax)
    BY <1>1 DEF IInv
<1>4. TreeOK(ax)'
  <2>1. \A i \in Nodes : ~Pending(i) /\ ~Pending(i)'
    BY <1>1 DEF Pending
  <2> QED
    BY <1>1, <1>3, <2>1, TreeStays DEF Shape
<1>5. TodoOK(ax)'
    BY <1>1 DEF TodoOK
<1>6. Rest'
    BY <1>1, <1>2, SameData DEF Rest, FoundPass
<1>7. Given' /\ ax \in [Nodes' -> 1..K']
    BY <1>1, <1>2, <1>3, SameData
<1>8. (\E bx \in [Nodes -> 1..K] : Shape(bx))'
    BY <1>4, <1>5, <1>7 DEF Shape
<1> QED
    BY <1>1, <1>6, <1>7, <1>8 DEF IInv, NoneMissed

\* The search begins at the root, below which all rows are.
LEMMA BeginOK == ASSUME IInv, Begin PROVE IInv'
<1>1. /\ data' = data /\ query' = query /\ found' = found /\ tree' = tree
      /\ st' = "search" /\ st = "built" /\ todo' = <<[node |-> 0, axis |-> 1]>>
    BY DEF Begin
<1>2. Given /\ Rest
    BY DEF IInv
<1>3. PICK ax \in [Nodes -> 1..K] : Shape(ax)
    BY <1>1 DEF IInv
<1>4. TreeOK(ax)'
  <2>1. \A i \in Nodes : ~Pending(i) /\ ~Pending(i)'
    BY <1>1 DEF Pending
  <2> QED
    BY <1>1, <1>3, <2>1, TreeStays DEF Shape
<1>5. Len(todo') = 1 /\ DOMAIN todo' = {1} /\ todo'[1] = [node |-> 0, axis |-> 1]
    BY <1>1
<1>6. /\ 0 \in Nodes /\ ax[0] = 1 /\ tree[0] # <<>> /\ ToSet(tree[0]) = 1..N
    BY <1>2, <1>3, GivenFacts, NodesAre DEF Shape, TreeOK
<1>7. TodoOK(ax)'
    BY <1>1, <1>5, <1>6, SameData DEF TodoOK
<1>8. found = <<>> /\ ToSet(found) = {}
    BY <1>1, <1>2 DEF Rest, ToSet
<1>9. Rest'
  <2>1. todo' \in Seq(Tasks)
    BY <1>1 DEF Tasks
  <2>2. found' = <<>> /\ FoundPass' /\ found' \in Seq(1..N')
    BY <1>1, <1>8 DEF FoundPass
  <2> QED
    BY <1>1, <2>1, <2>2 DEF Rest, Tasks
<1>10. Given' /\ ax \in [Nodes' -> 1..K']
    BY <1>1, <1>2, <1>3, SameData
<1>11. (\E bx \in [Nodes -> 1..K] : Shape(bx))'
    BY <1>4, <1>7, <1>10 DEF Shape
<1>12. NoneMissed'
  <2>1. Wanted \subseteq 1..N
    BY <1>2, WantedPasses
  <2>2. UNION {ToSet(tree'[t.node]) : t \in ToSet(todo')} = 1..N
    <3>1. ToSet(todo') = {[node |-> 0, axis |-> 1]}
      BY <1>5 DEF ToSet
    <3> QED
      BY <1>1, <1>6, <3>1
  <2>3. Wanted' = Wanted
    BY <1>1, SameData
  <2>4. IsInjective(found')
    BY <1>1, <1>8 DEF IsInjective
  <2>5. ToSet(found') = {}
    BY <1>1, <1>8
  <2>6. \A i, j \in DOMAIN todo' : i = j
    BY <1>5
  <2> QED
    BY <2>1, <2>2, <2>3, <2>4, <2>5, <2>6 DEF NoneMissed
<1> QED
    BY <1>1, <1>9, <1>10, <1>11, <1>12 DEF IInv

\* A failure, the end of the search and a stuttering step change neither tree nor
\* nodes.
LEMMA StillOK ==
    ASSUME IInv, UNCHANGED <<data, query, tree, todo, found>>,
           \/ st = "built" /\ st' = "failed"
           \/ st = "search" /\ st' = "done" /\ todo = <<>>
           \/ st' = st
    PROVE  IInv'
<1>1. /\ data' = data /\ query' = query /\ found' = found /\ tree' = tree /\ todo' = todo
    OBVIOUS
<1>2. Given' /\ Rest'
  <2>1. Given /\ Rest
    BY DEF IInv
  <2>2. FoundPass' <=> FoundPass
    BY <1>1, SameData DEF FoundPass
  <2>3. Distinct' <=> Distinct
    BY <1>1 DEF Distinct
  <2>4. N' = N
    BY <1>1, SameData
  <2> QED
    BY <1>1, <2>1, <2>2, <2>3, <2>4, SameData DEF Rest
<1>3. NoneMissed'
  <2>1. Wanted' = Wanted
    BY <1>1, SameData
  <2>2. st' \in {"search", "done"} => st \in {"search", "done"}
    OBVIOUS
  <2> QED
    BY <1>1, <2>1, <2>2 DEF IInv, NoneMissed
<1>4. st' # "new" => (\E bx \in [Nodes -> 1..K] : Shape(bx))'
  <2>. SUFFICES ASSUME st' # "new" PROVE (\E bx \in [Nodes -> 1..K] : Shape(bx))'
    OBVIOUS
  <2>1. PICK ax \in [Nodes -> 1..K] : Shape(ax)
    BY DEF IInv
  <2>2. \A i \in Nodes : Pending(i)' <=> Pending(i)
    BY <1>1 DEF Pending
  <2>3. TreeOK(ax)'
    BY <1>1, <2>1, <2>2, TreeStays DEF Shape
  <2>4. TodoOK(ax)'
    BY <1>1, <2>1, SameData DEF Shape, TodoOK
  <2>5. ax \in [Nodes' -> 1..K']
    BY <1>1, <2>1, SameData
  <2> QED
    BY <2>3, <2>4, <2>5 DEF Shape
<1> QED
    BY <1>2, <1>3, <1>4 DEF IInv

\* What Kdtreerec does to a node with one row: nothing but strike it off the list.
LEMMA KdtreerecLeaf ==
    ASSUME IInv, Kdtreerec, Len(tree[Last(todo).node]) = 1
    PROVE  /\ data' = data /\ query' = query /\ found' = found /\ st' = "build" /\ st = "build"
           /\ todo # <<>> /\ tree' = tree /\ todo' = Front(todo)
<1>1. todo # <<>> /\ st = "build"
    BY DEF Kdtreerec
<1>2. todo \in Seq(Tasks)
    BY DEF IInv, Rest, Tasks
<1>3. Given /\ \E ax \in [Nodes -> 1..K] : Shape(ax)
    BY <1>1 DEF IInv
<1>4. PICK ax \in [Nodes -> 1..K] : Shape(ax)
    BY <1>3
<1>. DEFINE t == Last(todo)
<1>5. Len(todo) \in DOMAIN todo /\ t = todo[Len(todo)]
  <2>1. Len(todo) \in Nat \ {0} /\ DOMAIN todo = 1..Len(todo) /\ t = todo[Len(todo)]
    BY <1>1, <1>2, TopIs
  <2>. HIDE DEF t
  <2> QED
    BY <2>1
<1>6. t.node \in Nodes /\ tree[t.node] # <<>> /\ t.axis \in 1..K /\ t.axis = ax[t.node]
    BY <1>4, <1>5 DEF Shape, TodoOK
<1>. HIDE DEF t
<1>7. tree[t.node] \in Seq(1..N) /\ IsInjective(tree[t.node])
    BY <1>4, <1>6 DEF Shape, TreeOK, NodeOK
<1>8. Len(Sorted(tree[t.node], Columns[t.axis])) = Len(tree[t.node])
  <2>1. \A j \in DOMAIN tree[t.node] : tree[t.node][j] \in 1..N
    BY <1>7, ElementIs
  <2>2. \A j \in DOMAIN tree[t.node] : data[tree[t.node][j]][Columns[t.axis]] \in Int
    BY <1>3, <1>6, <2>1, GivenFacts, ValuesOK
  <2> QED
    BY <1>7, <2>2, SortedIs
<1> QED
    BY <1>1, <1>8 DEF Kdtreerec, t

\* What Kdtreerec does to a node with more rows.
LEMMA KdtreerecInner ==
    ASSUME IInv, Kdtreerec, Len(tree[Last(todo).node]) # 1
    PROVE  LET t == Last(todo)
               i == t.node
               rows == Sorted(tree[i], Columns[t.axis])
               m == Len(rows) \div 2
           IN
           /\ data' = data /\ query' = query /\ found' = found /\ st' = "build" /\ st = "build"
           /\ todo # <<>> /\ t.node \in Nodes /\ t.axis \in 1..K
           /\ tree[i] # <<>> /\ IsInjective(tree[i]) /\ Room(i, Len(tree[i]))
           /\ rows \in Seq(1..N) /\ IsInjective(rows) /\ ToSet(rows) = ToSet(tree[i])
           /\ Len(rows) \in Nat /\ Len(rows) > 1 /\ Len(rows) = Len(tree[i])
           /\ \A a, b \in 1..Len(rows) : a <= b =>
                 data[rows[a]][Columns[t.axis]] <= data[rows[b]][Columns[t.axis]]
           /\ tree' = [tree EXCEPT ![i] = rows, ![2 * i + 1] = SubSeq(rows, 1, m),
                                   ![2 * i + 2] = SubSeq(rows, m + 1, Len(rows))]
           /\ todo' = Front(todo) \o <<Child(t, 2), Child(t, 1)>>
<1>1. todo # <<>> /\ st = "build"
    BY DEF Kdtreerec
<1>2. todo \in Seq(Tasks)
    BY DEF IInv, Rest, Tasks
<1>3. Given /\ \E ax \in [Nodes -> 1..K] : Shape(ax)
    BY <1>1 DEF IInv
<1>4. PICK ax \in [Nodes -> 1..K] : Shape(ax)
    BY <1>3
<1>. DEFINE t == Last(todo)
            rows == Sorted(tree[t.node], Columns[t.axis])
<1>5. Len(todo) \in DOMAIN todo /\ t = todo[Len(todo)]
  <2>1. Len(todo) \in Nat \ {0} /\ DOMAIN todo = 1..Len(todo) /\ t = todo[Len(todo)]
    BY <1>1, <1>2, TopIs
  <2>. HIDE DEF t
  <2> QED
    BY <2>1
<1>6. t.node \in Nodes /\ tree[t.node] # <<>> /\ t.axis \in 1..K /\ t.axis = ax[t.node]
    BY <1>4, <1>5 DEF Shape, TodoOK
<1>. HIDE DEF t
<1>7. tree[t.node] \in Seq(1..N) /\ IsInjective(tree[t.node]) /\ Room(t.node, Len(tree[t.node]))
    BY <1>4, <1>6 DEF Shape, TreeOK, NodeOK
<1>8. \A j \in DOMAIN tree[t.node] : data[tree[t.node][j]][Columns[t.axis]] \in Int
  <2>1. \A j \in DOMAIN tree[t.node] : tree[t.node][j] \in 1..N
    BY <1>7, ElementIs
  <2> QED
    BY <1>3, <1>6, <2>1, GivenFacts, ValuesOK
<1>9. /\ rows \in Seq(1..N) /\ Len(rows) = Len(tree[t.node])
      /\ ToSet(rows) = ToSet(tree[t.node]) /\ IsInjective(rows)
      /\ \A a, b \in 1..Len(tree[t.node]) : a <= b =>
            data[rows[a]][Columns[t.axis]] <= data[rows[b]][Columns[t.axis]]
    BY <1>7, <1>8, SortedIs
<1>10. Len(rows) # 1
    BY <1>9 DEF t
<1>11. Len(rows) \in Nat /\ Len(rows) > 1
  <2>1. Len(tree[t.node]) \in Nat \ {0}
    BY <1>6, <1>7
  <2>2. Len(rows) = Len(tree[t.node])
    BY <1>9
  <2>. HIDE DEF rows
  <2>3. PICK n \in Nat \ {0} : n = Len(tree[t.node])
    BY <2>1
  <2>4. Len(rows) = n /\ n # 1
    BY <1>10, <2>2, <2>3
  <2>5. n > 1
    BY <2>4
  <2> QED
    BY <2>4, <2>5
<1>12. /\ data' = data /\ query' = query /\ found' = found /\ st' = "build"
       /\ tree' = [tree EXCEPT ![t.node] = rows,
                               ![2 * t.node + 1] = SubSeq(rows, 1, Len(rows) \div 2),
                               ![2 * t.node + 2] = SubSeq(rows, Len(rows) \div 2 + 1, Len(rows))]
       /\ todo' = Front(todo) \o <<Child(t, 2), Child(t, 1)>>
    BY <1>1, <1>10 DEF Kdtreerec, t
<1>. HIDE DEF rows
<1>13. /\ todo # <<>> /\ st = "build" /\ t.node \in Nodes /\ t.axis \in 1..K
       /\ tree[t.node] # <<>> /\ IsInjective(tree[t.node]) /\ Room(t.node, Len(tree[t.node]))
       /\ rows \in Seq(1..N) /\ IsInjective(rows) /\ ToSet(rows) = ToSet(tree[t.node])
       /\ Len(rows) \in Nat /\ Len(rows) > 1 /\ Len(rows) = Len(tree[t.node])
       /\ \A a, b \in 1..Len(rows) : a <= b =>
             data[rows[a]][Columns[t.axis]] <= data[rows[b]][Columns[t.axis]]
    BY <1>1, <1>6, <1>7, <1>9, <1>11
<1> QED
    BY <1>12, <1>13 DEF rows, t

\* A list that loses its last entry loses nothing else.
LEMMA FrontDistinct ==
    ASSUME todo \in Seq(Tasks), todo # <<>>, Distinct
    PROVE  /\ \A i : i # Last(todo).node =>
                 ((\E n \in DOMAIN todo : todo[n].node = i)
                    <=> \E n \in 1..(Len(todo) - 1) : todo[n].node = i)
           /\ ~ \E n \in 1..(Len(todo) - 1) : todo[n].node = Last(todo).node
<1>1. PICK l \in Nat \ {0} : l = Len(todo) /\ DOMAIN todo = 1..l /\ Last(todo) = todo[l]
    BY TopIs
<1>2. \A n \in 1..l : n = l \/ n \in 1..(l - 1)
    OBVIOUS
<1>3. \A n \in 1..(l - 1) : n \in 1..l /\ n # l /\ l \in 1..l
    OBVIOUS
<1>4. \A n \in 1..(l - 1) : todo[n].node # todo[l].node
    BY <1>1, <1>3 DEF Distinct
<1> QED
    BY <1>1, <1>2, <1>3, <1>4

\* The call for one row.
LEMMA KdtreerecLeafOK ==
    ASSUME IInv, Kdtreerec, Len(tree[Last(todo).node]) = 1
    PROVE  IInv'
<1>1. /\ data' = data /\ query' = query /\ found' = found /\ st' = "build" /\ st = "build"
      /\ todo # <<>> /\ tree' = tree /\ todo' = Front(todo)
    BY KdtreerecLeaf
<1>2. Given /\ Rest /\ todo \in Seq(Tasks) /\ Distinct
    BY <1>1 DEF IInv, Rest, Tasks
<1>3. PICK ax \in [Nodes -> 1..K] : Shape(ax)
    BY <1>1 DEF IInv
<1>4. PICK l \in Nat \ {0} : /\ l = Len(todo) /\ DOMAIN todo = 1..l /\ todo' \in Seq(Tasks)
                             /\ DOMAIN todo' = 1..(l - 1) /\ 1..(l - 1) \subseteq 1..l
                             /\ \A n \in 1..(l - 1) : todo'[n] = todo[n]
  <2>1. /\ Len(todo) \in Nat \ {0} /\ DOMAIN todo = 1..Len(todo) /\ todo' \in Seq(Tasks)
        /\ DOMAIN todo' = 1..(Len(todo) - 1)
        /\ \A n \in 1..(Len(todo) - 1) : todo'[n] = todo[n]
    BY <1>1, <1>2, TopIs
  <2>2. 1..(Len(todo) - 1) \subseteq 1..Len(todo)
    BY <2>1
  <2> QED
    BY <2>1, <2>2
<1>5. ASSUME NEW i \in Nodes PROVE NodeOK(i, ax)'
  <2>1. Childless(i)' <=> Childless(i)
    BY <1>1, SameData DEF Childless
  <2>2. Halved(i, ax)' <=> Halved(i, ax)
    <3>1. Size' = Size /\ Columns' = Columns /\ NextAxis(ax[i])' = NextAxis(ax[i])
      BY <1>1, SameData
    <3> QED
      BY <1>1, <3>1 DEF Halved
  <2>3. Room(i, Len(tree[i]))' <=> Room(i, Len(tree[i]))
    BY <1>1, SameData DEF Room
  <2>4. NodeOK(i, ax)
    BY <1>3 DEF Shape, TreeOK
  <2>5. i # Last(todo).node => (Pending(i)' <=> Pending(i))
    <3>1. i # Last(todo).node => ((\E n \in DOMAIN todo : todo[n].node = i)
                                     <=> \E n \in 1..(l - 1) : todo[n].node = i)
      BY <1>1, <1>2, <1>4, FrontDistinct
    <3> QED
      BY <1>1, <1>4, <3>1 DEF Pending
  <2>6. CASE i # Last(todo).node
    BY <1>1, <2>1, <2>2, <2>3, <2>4, <2>5, <2>6 DEF NodeOK
  <2>7. CASE i = Last(todo).node
    BY <1>1, <2>1, <2>3, <2>4, <2>7 DEF NodeOK
  <2> QED
    BY <2>6, <2>7
<1>6. TreeOK(ax)'
  <2>1. Nodes' = Nodes /\ N' = N /\ K' = K
    BY <1>1, SameData
  <2> QED
    BY <1>1, <1>3, <1>5, <2>1 DEF Shape, TreeOK
<1>7. TodoOK(ax)'
  <2>1. Nodes' = Nodes
    BY <1>1, SameData
  <2> QED
    BY <1>1, <1>3, <1>4, <2>1 DEF Shape, TodoOK
<1>8. Rest'
  <2>1. Distinct'
    BY <1>2, <1>4 DEF Distinct
  <2>2. found' = <<>> /\ found' \in Seq(1..N') /\ FoundPass'
    BY <1>1, <1>2 DEF Rest, FoundPass
  <2> QED
    BY <1>1, <1>4, <2>1, <2>2 DEF Rest, Tasks
<1>9. Given' /\ ax \in [Nodes' -> 1..K']
    BY <1>1, <1>2, <1>3, SameData
<1>10. (\E bx \in [Nodes -> 1..K] : Shape(bx))'
    BY <1>6, <1>7, <1>9 DEF Shape
<1> QED
    BY <1>1, <1>8, <1>9, <1>10 DEF IInv, NoneMissed

\* The call for more rows: the node gets its order and its children the halves.
LEMMA KdtreerecInnerOK ==
    ASSUME IInv, Kdtreerec, Len(tree[Last(todo).node]) # 1
    PROVE  IInv'
<1>1. /\ Given /\ Rest /\ todo \in Seq(Tasks) /\ todo # <<>> /\ st = "build" /\ Distinct
      /\ N \in Nat \ {0} /\ K \in Nat \ {0}
  <2>1. todo # <<>> /\ st = "build"
    BY DEF Kdtreerec
  <2>2. Given /\ Rest
    BY DEF IInv
  <2> QED
    BY <2>1, <2>2, GivenFacts DEF Rest, Tasks
<1>2. PICK ax \in [Nodes -> 1..K] : Shape(ax)
    BY <1>1 DEF IInv
<1>3. PICK l \in Nat \ {0} : l = Len(todo)
    BY <1>1
<1>4. PICK t \in Tasks : t = Last(todo)
    BY <1>1, TopIs
<1>5. PICK i \in Nat : i = t.node
    BY DEF Tasks
<1>6. PICK rows \in Seq(1..N) :
         /\ rows = Sorted(tree[i], Columns[t.axis])
         /\ data' = data /\ query' = query /\ found' = found /\ st' = "build"
         /\ i \in Nodes /\ t.axis \in 1..K
         /\ tree[i] # <<>> /\ IsInjective(tree[i]) /\ Room(i, Len(tree[i]))
         /\ IsInjective(rows) /\ ToSet(rows) = ToSet(tree[i])
         /\ Len(rows) \in Nat /\ Len(rows) > 1 /\ Len(rows) = Len(tree[i])
         /\ \A a, b \in 1..Len(rows) : a <= b =>
               data[rows[a]][Columns[t.axis]] <= data[rows[b]][Columns[t.axis]]
         /\ tree' = [tree EXCEPT ![i] = rows, ![2 * i + 1] = SubSeq(rows, 1, Len(rows) \div 2),
                                 ![2 * i + 2] = SubSeq(rows, Len(rows) \div 2 + 1, Len(rows))]
         /\ todo' = Front(todo) \o <<Child(t, 2), Child(t, 1)>>
    BY <1>4, <1>5, KdtreerecInner
<1>7. PICK m \in Nat : m = Len(rows) \div 2
  <2>1. PICK n \in Nat : n = Len(rows)
    BY <1>6
  <2>2. n \div 2 \in Nat
    OBVIOUS
  <2> QED
    BY <2>1, <2>2
<1>8. PICK h1 \in Seq(1..N), h2 \in Seq(1..N) :
         /\ h1 = SubSeq(rows, 1, m) /\ h1 # <<>> /\ Len(h1) = m
         /\ IsInjective(h1) /\ ToSet(h1) = {rows[k] : k \in 1..m}
         /\ h2 = SubSeq(rows, m + 1, Len(rows)) /\ h2 # <<>> /\ Len(h2) = Len(rows) - m
         /\ IsInjective(h2) /\ ToSet(h2) = {rows[k] : k \in (m + 1)..Len(rows)}
  <2>1. IsInjective(rows) /\ Len(rows) > 1
    BY <1>6
  <2>2. LET n == Len(rows) \div 2
            g1 == SubSeq(rows, 1, n)
            g2 == SubSeq(rows, n + 1, Len(rows))
        IN
        /\ g1 \in Seq(1..N) /\ g1 # <<>> /\ Len(g1) = n /\ IsInjective(g1)
        /\ ToSet(g1) = {rows[k] : k \in 1..n}
        /\ g2 \in Seq(1..N) /\ g2 # <<>> /\ Len(g2) = Len(rows) - n /\ IsInjective(g2)
        /\ ToSet(g2) = {rows[k] : k \in (n + 1)..Len(rows)}
    BY <2>1, HalvesAre, Zenon
  <2> QED
    BY <1>7, <2>2
<1>9. /\ 2 * i + 2 < Size /\ Room(2 * i + 1, m) /\ Room(2 * i + 2, Len(rows) - m)
    BY <1>1, <1>6, <1>7, RoomForHalves
<1>10. PICK c1 \in Nodes, c2 \in Nodes :
         c1 = 2 * i + 1 /\ c2 = 2 * i + 2 /\ c1 # i /\ c2 # i /\ c1 # c2 /\ c1 # 0 /\ c2 # 0
  <2>1. 2 * i + 1 \in Nodes /\ 2 * i + 2 \in Nodes
    BY <1>1, <1>9, NodesAre
  <2> QED
    BY <2>1
<1>11. Nodes' = Nodes /\ N' = N /\ K' = K /\ Size' = Size /\ Columns' = Columns
    BY <1>6, SameData
<1>12. PICK bx \in [Nodes -> 1..K] :
         /\ bx[c1] = NextAxis(t.axis) /\ bx[c2] = NextAxis(t.axis)
         /\ \A j \in Nodes : j # c1 /\ j # c2 => bx[j] = ax[j]
  <2>1. NextAxis(t.axis) \in 1..K
    BY <1>1, <1>6, NextAxisOK
  <2>. DEFINE b == [j \in Nodes |-> IF j \in {c1, c2} THEN NextAxis(t.axis) ELSE ax[j]]
  <2>2. b \in [Nodes -> 1..K]
    BY <1>2, <2>1
  <2>3. b[c1] = NextAxis(t.axis) /\ b[c2] = NextAxis(t.axis)
    BY <1>10
  <2>4. \A j \in Nodes : j # c1 /\ j # c2 => b[j] = ax[j]
    OBVIOUS
  <2>. HIDE DEF b
  <2> QED
    BY <2>2, <2>3, <2>4
<1>13. tree \in [Nodes -> Seq(1..N)] /\ tree[0] # <<>> /\ ToSet(tree[0]) = 1..N /\ ax[0] = 1
       /\ 0 \in Nodes /\ Nodes \subseteq Nat
    BY <1>1, <1>2, NodesAre DEF Shape, TreeOK
<1>14. /\ tree' \in [Nodes -> Seq(1..N)] /\ tree'[i] = rows /\ tree'[c1] = h1 /\ tree'[c2] = h2
       /\ \A j \in Nodes : j # i /\ j # c1 /\ j # c2 => tree'[j] = tree[j]
  <2>1. tree' = [tree EXCEPT ![i] = rows, ![c1] = h1, ![c2] = h2]
    BY <1>6, <1>7, <1>8, <1>10
  <2>2. i \in Nodes /\ c1 # i /\ c2 # i /\ c1 # c2
    BY <1>6, <1>10
  <2>. DEFINE V == Seq(1..N)
  <2>3. tree \in [Nodes -> V] /\ rows \in V /\ h1 \in V /\ h2 \in V
    BY <1>13
  <2>. HIDE DEF V
  <2>4. /\ tree' \in [Nodes -> V] /\ tree'[i] = rows /\ tree'[c1] = h1 /\ tree'[c2] = h2
        /\ \A j \in Nodes : j # i /\ j # c1 /\ j # c2 => tree'[j] = tree[j]
    BY <2>1, <2>2, <2>3
  <2> QED
    BY <2>4 DEF V
<1>15. rows # <<>> /\ \A j \in Nodes : tree[j] # <<>> => tree'[j] # <<>>
  <2>1. rows # <<>>
    BY <1>6
  <2> QED
    BY <1>8, <1>14, <2>1
\* The node is on the list, its children are not in the tree yet.
<1>16. Pending(i) /\ ax[i] = t.axis
  <2>1. l \in DOMAIN todo /\ t = todo[l]
    <3>1. DOMAIN todo = 1..Len(todo) /\ Last(todo) = todo[Len(todo)]
      BY <1>1, TopIs
    <3> QED
      BY <1>3, <1>4, <3>1
  <2>2. t.axis = ax[t.node]
    BY <1>2, <2>1 DEF Shape, TodoOK
  <2> QED
    BY <1>1, <1>5, <2>1, <2>2 DEF Pending
<1>17. tree[c1] = <<>> /\ tree[c2] = <<>>
  <2>1. NodeOK(i, ax)
    BY <1>2, <1>6 DEF Shape, TreeOK
  <2>2. Childless(i)
    BY <1>6, <1>16, <2>1 DEF NodeOK
  <2>3. c1 < Size /\ c2 < Size
    BY <1>1, <1>10, <1>13, NodesAre
  <2> QED
    BY <1>10, <2>2, <2>3 DEF Childless
\* The list afterwards.
<1>18. /\ todo' \in Seq(Tasks) /\ DOMAIN todo' = 1..(l + 1)
       /\ \A n \in 1..(l - 1) : todo'[n] = todo[n] /\ n \in DOMAIN todo
       /\ todo'[l] = [node |-> c2, axis |-> NextAxis(t.axis)]
       /\ todo'[l + 1] = [node |-> c1, axis |-> NextAxis(t.axis)]
       /\ \A n \in 1..(l + 1) : n \in 1..(l - 1) \/ n = l \/ n = l + 1
  <2>. DEFINE h == <<Child(t, 2), Child(t, 1)>>
  <2>1. /\ Child(t, 2) = [node |-> c2, axis |-> NextAxis(t.axis)]
        /\ Child(t, 1) = [node |-> c1, axis |-> NextAxis(t.axis)]
    BY <1>5, <1>10 DEF Child
  <2>2. NextAxis(t.axis) \in Nat
    <3>1. NextAxis(t.axis) \in 1..K
      BY <1>1, <1>6, NextAxisOK
    <3> QED
      BY <1>1, <3>1
  <2>3. Child(t, 1) \in Tasks /\ Child(t, 2) \in Tasks
    <3>1. c1 \in Nat /\ c2 \in Nat
      BY <1>13
    <3> QED
      BY <2>1, <2>2, <3>1 DEF Tasks
  <2>4. h \in Seq(Tasks) /\ Len(h) = 2 /\ h[1] = Child(t, 2) /\ h[2] = Child(t, 1)
    BY <2>3
  <2>5. todo' = Front(todo) \o h
    BY <1>6
  <2>. HIDE DEF h
  <2>6. /\ todo' \in Seq(Tasks)
        /\ DOMAIN todo' = 1..(Len(todo) - 1 + Len(h))
        /\ \A n \in 1..(Len(todo) - 1) : todo'[n] = todo[n]
        /\ \A k \in 1..Len(h) : todo'[Len(todo) - 1 + k] = h[k]
    <3>1. todo \in Seq(Tasks) /\ todo # <<>> /\ h \in Seq(Tasks)
      BY <1>1, <2>4
    <3>2. todo' \in Seq(Tasks) /\ LastReplaced(todo', todo, h)
      BY <2>5, <3>1, Replaced
    <3> QED
      BY <3>2 DEF LastReplaced
  <2>7. l - 1 + Len(h) = l + 1 /\ 1 \in 1..Len(h) /\ 2 \in 1..Len(h) /\ l - 1 + 1 = l
        /\ l - 1 + 2 = l + 1
    BY <2>4
  <2>8. \A n \in 1..(l - 1) : n \in DOMAIN todo
    BY <1>1, <1>3
  <2>9. todo'[l] = h[1] /\ todo'[l + 1] = h[2]
    BY <1>3, <2>6, <2>7
  <2>10. \A n \in 1..(l + 1) : n \in 1..(l - 1) \/ n = l \/ n = l + 1
    OBVIOUS
  <2> QED
    BY <1>3, <2>1, <2>4, <2>6, <2>7, <2>8, <2>9, <2>10
<1>19. /\ \A j \in Nodes : j # i /\ j # c1 /\ j # c2 => (Pending(j)' <=> Pending(j))
       /\ ~Pending(i)' /\ Pending(c1)' /\ Pending(c2)'
  <2>1. /\ \A j : j # i => ((\E n \in DOMAIN todo : todo[n].node = j)
                              <=> \E n \in 1..(l - 1) : todo[n].node = j)
        /\ ~ \E n \in 1..(l - 1) : todo[n].node = i
    BY <1>1, <1>3, <1>4, <1>5, FrontDistinct
  <2>2. l \in 1..(l + 1) /\ l + 1 \in 1..(l + 1) /\ todo'[l].node = c2 /\ todo'[l + 1].node = c1
    BY <1>18
  <2>3. \A j : (\E n \in DOMAIN todo' : todo'[n].node = j)
                 <=> j = c1 \/ j = c2 \/ \E n \in 1..(l - 1) : todo[n].node = j
    <3>1. \A n \in 1..(l - 1) : n \in 1..(l + 1)
      OBVIOUS
    <3> QED
      BY <1>18, <2>2, <3>1
  <2>4. st = "build" /\ st' = "build" /\ c1 # i /\ c2 # i
    BY <1>1, <1>6, <1>10
  <2>5. \A j : Pending(j) <=> \E n \in DOMAIN todo : todo[n].node = j
    BY <2>4 DEF Pending
  <2>6. \A j : Pending(j)' <=> \E n \in DOMAIN todo' : todo'[n].node = j
    BY <2>4 DEF Pending
  <2> QED
    BY <2>1, <2>3, <2>4, <2>5, <2>6
\* Every node is as it should be.
<1>20. \A j \in Nodes : tree[j] = <<>> => Childless(j)
    BY <1>2 DEF Shape, TreeOK, NodeOK
<1>21. ASSUME NEW j \in Nodes, Childless(j), j # i
       PROVE  Childless(j)'
  <2>1. ASSUME NEW c \in {2 * j + 1, 2 * j + 2}, c < Size PROVE tree'[c] = <<>>
    <3>1. j \in Nat /\ c \in Nodes
      <4>1. j \in Nat
        BY <1>13
      <4>2. c \in Nat
        BY <4>1
      <4> QED
        BY <1>1, <2>1, <4>1, <4>2, NodesAre
    <3>2. tree[c] = <<>>
      BY <1>21, <2>1 DEF Childless
    <3>3. c # i
      BY <1>6, <3>2
    <3>4. c # c1 /\ c # c2
      BY <1>10, <1>21, <2>1, <3>1
    <3> QED
      BY <1>14, <3>1, <3>2, <3>3, <3>4
  <2> QED
    BY <1>11, <2>1 DEF Childless
<1>22. NodeOK(i, bx)'
  <2>1. /\ bx[2 * i + 1] = NextAxis(bx[i]) /\ bx[2 * i + 2] = NextAxis(bx[i])
        /\ bx[i] = t.axis
    BY <1>6, <1>10, <1>12, <1>16
  <2>2. NextAxis(bx[i])' = NextAxis(bx[i])
    BY <1>6, SameData
  <2>3. Columns'[bx[i]] = Columns[t.axis]
    BY <1>11, <2>1
  <2>4. /\ tree'[2 * i + 1] # <<>> /\ ToSet(tree'[2 * i + 1]) = {rows[k] : k \in 1..m}
        /\ tree'[2 * i + 2] # <<>> /\ ToSet(tree'[2 * i + 2]) = {rows[k] : k \in (m + 1)..Len(rows)}
    BY <1>8, <1>10, <1>14
  <2>5. \A a, b \in 1..Len(rows) : a <= b =>
            data'[rows[a]][Columns'[bx[i]]] <= data'[rows[b]][Columns'[bx[i]]]
    BY <1>6, <2>3
  <2>6. 2 * i + 2 < Size' /\ tree'[i] = rows
    BY <1>9, <1>11, <1>14
  <2>7. Halved(i, bx)'
    BY <1>7, <2>1, <2>2, <2>4, <2>5, <2>6 DEF Halved
  <2>8. Room(i, Len(tree[i]))' /\ IsInjective(tree'[i]) /\ Len(tree'[i]) # 1
    <3>1. Room(i, Len(rows))
      BY <1>6
    <3>2. Room(i, Len(rows))'
      BY <1>6, <3>1, SameData DEF Room
    <3>3. tree'[i] = rows
      BY <1>14
    <3>4. IsInjective(rows) /\ Len(rows) # 1
      <4>1. PICK n \in Nat : n = Len(rows)
        BY <1>6
      <4>2. IsInjective(rows) /\ n > 1
        BY <1>6, <4>1
      <4>3. n # 1
        BY <4>2
      <4> QED
        BY <4>1, <4>2, <4>3
    <3> QED
      BY <3>2, <3>3, <3>4 DEF Room
  <2> QED
    BY <1>14, <1>15, <1>19, <2>7, <2>8 DEF NodeOK
<1>23. NodeOK(c1, bx)'
  <2>1. Childless(c1)'
    BY <1>10, <1>17, <1>20, <1>21
  <2>2. Room(c1, Len(tree[c1]))'
    <3>1. Room(c1, m)
      BY <1>9, <1>10
    <3>2. Room(c1, m)'
      BY <1>6, <3>1, SameData DEF Room
    <3> QED
      BY <1>8, <1>14, <3>2 DEF Room
  <2> QED
    BY <1>8, <1>14, <1>19, <2>1, <2>2 DEF NodeOK
<1>24. NodeOK(c2, bx)'
  <2>1. Childless(c2)'
    BY <1>10, <1>17, <1>20, <1>21
  <2>2. Room(c2, Len(tree[c2]))'
    <3>1. Room(c2, Len(rows) - m)
      BY <1>9, <1>10
    <3>2. Room(c2, Len(rows) - m)'
      BY <1>6, <3>1, SameData DEF Room
    <3> QED
      BY <1>8, <1>14, <3>2 DEF Room
  <2> QED
    BY <1>8, <1>14, <1>19, <2>1, <2>2 DEF NodeOK
<1>25. ASSUME NEW j \in Nodes, j # i, j # c1, j # c2
       PROVE  NodeOK(j, bx)'
  <2>1. tree'[j] = tree[j] /\ (Pending(j)' <=> Pending(j)) /\ bx[j] = ax[j]
    BY <1>12, <1>14, <1>19, <1>25
  <2>2. NodeOK(j, ax)
    BY <1>2 DEF Shape, TreeOK
  <2>3. Childless(j) => Childless(j)'
    BY <1>21, <1>25
  <2>4. CASE tree[j] = <<>>
    BY <2>1, <2>2, <2>3, <2>4 DEF NodeOK
  <2>5. CASE tree[j] # <<>>
    <3>1. Room(j, Len(tree[j]))'
      <4>1. Room(j, Len(tree[j]))
        BY <2>2, <2>5 DEF NodeOK
      <4> QED
        BY <1>6, <2>1, <4>1, SameData DEF Room
    <3>2. CASE Pending(j) \/ Len(tree[j]) = 1
      BY <2>1, <2>2, <2>3, <2>5, <3>1, <3>2 DEF NodeOK
    <3>3. CASE ~(Pending(j) \/ Len(tree[j]) = 1)
      <4>1. Halved(j, ax)
        BY <2>2, <2>5, <3>3 DEF NodeOK
      <4>2. PICK d1 \in Nodes, d2 \in Nodes : d1 = 2 * j + 1 /\ d2 = 2 * j + 2
        <5>1. 2 * j + 2 < Size /\ j \in Nat
          BY <1>13, <4>1 DEF Halved
        <5> QED
          BY <1>1, <5>1, NodesAre
      <4>3. d1 # c1 /\ d1 # c2 /\ d2 # c1 /\ d2 # c2
        BY <1>10, <1>13, <1>25, <4>2
      <4>4. bx[d1] = ax[d1] /\ bx[d2] = ax[d2]
        BY <1>12, <4>3
      <4>5. /\ ToSet(tree'[d1]) = ToSet(tree[d1]) /\ ToSet(tree'[d2]) = ToSet(tree[d2])
        BY <1>6, <1>14, <4>3
      <4>6. /\ ax[d1] = NextAxis(ax[j]) /\ ax[d2] = NextAxis(ax[j])
            /\ tree[d1] # <<>> /\ tree[d2] # <<>> /\ 2 * j + 2 < Size
            /\ ToSet(tree[d1]) = {tree[j][k] : k \in 1..(Len(tree[j]) \div 2)}
            /\ ToSet(tree[d2]) = {tree[j][k] : k \in (Len(tree[j]) \div 2 + 1)..Len(tree[j])}
            /\ \A a, b \in 1..Len(tree[j]) : a <= b =>
                  data[tree[j][a]][Columns[ax[j]]] <= data[tree[j][b]][Columns[ax[j]]]
        BY <4>1, <4>2 DEF Halved
      <4>7. tree'[d1] # <<>> /\ tree'[d2] # <<>>
        BY <1>15, <4>6
      <4>8. NextAxis(bx[j])' = NextAxis(ax[j])
        BY <1>6, <2>1, SameData
      <4>9. data' = data
        BY <1>6
      <4>10. Halved(j, bx)'
        BY <1>11, <2>1, <4>2, <4>4, <4>5, <4>6, <4>7, <4>8, <4>9 DEF Halved
      <4> QED
        BY <2>1, <2>2, <2>5, <3>1, <3>3, <4>10 DEF NodeOK
    <3> QED
      BY <3>2, <3>3
  <2> QED
    BY <2>4, <2>5
<1>26. TreeOK(bx)'
  <2>1. \A j \in Nodes : NodeOK(j, bx)'
    BY <1>22, <1>23, <1>24, <1>25
  <2>2. ToSet(tree'[0]) = 1..N /\ tree'[0] # <<>>
    BY <1>6, <1>10, <1>13, <1>14, <1>15
  <2>3. bx[0] = 1
    BY <1>10, <1>12, <1>13
  <2> QED
    BY <1>11, <1>14, <2>1, <2>2, <2>3 DEF TreeOK
<1>27. \A n \in 1..(l - 1) :
          /\ todo[n].node \in Nodes /\ tree[todo[n].node] # <<>>
          /\ todo[n].axis = ax[todo[n].node]
          /\ todo[n].node # c1 /\ todo[n].node # c2
    BY <1>2, <1>17, <1>18 DEF Shape, TodoOK
<1>28. TodoOK(bx)'
  <2>1. ASSUME NEW n \in 1..(l + 1)
        PROVE  /\ todo'[n].node \in Nodes /\ tree'[todo'[n].node] # <<>>
               /\ todo'[n].axis = bx[todo'[n].node]
    <3>1. CASE n \in 1..(l - 1)
      BY <1>12, <1>15, <1>18, <1>27, <3>1
    <3>2. CASE n = l
      BY <1>8, <1>12, <1>14, <1>18, <3>2
    <3>3. CASE n = l + 1
      BY <1>8, <1>12, <1>14, <1>18, <3>3
    <3> QED
      BY <1>18, <3>1, <3>2, <3>3
  <2> QED
    BY <1>11, <1>18, <2>1 DEF TodoOK
<1>29. Distinct'
  <2>1. ASSUME NEW n \in 1..(l + 1), NEW k \in 1..(l + 1), todo'[n].node = todo'[k].node
        PROVE  n = k
    <3>1. n \in 1..(l - 1) /\ k \in 1..(l - 1) => n = k
      BY <1>1, <1>18, <2>1 DEF Distinct
    <3>2. todo'[l].node = c2 /\ todo'[l + 1].node = c1
      BY <1>18
    <3>3. \A p \in 1..(l - 1) : todo'[p].node # c1 /\ todo'[p].node # c2
      BY <1>18, <1>27
    <3> QED
      BY <1>10, <1>18, <2>1, <3>1, <3>2, <3>3
  <2> QED
    BY <1>18, <2>1 DEF Distinct
<1>30. Rest'
  <2>1. found' = <<>> /\ found' \in Seq(1..N') /\ FoundPass'
    BY <1>1, <1>6 DEF Rest, FoundPass
  <2> QED
    BY <1>6, <1>18, <1>29, <2>1 DEF Rest, Tasks
<1>31. Given' /\ bx \in [Nodes' -> 1..K'] /\ st' = "build"
    BY <1>1, <1>6, <1>11, SameData
<1>32. (\E x \in [Nodes -> 1..K] : Shape(x))'
    BY <1>26, <1>28, <1>31 DEF Shape
<1> QED
    BY <1>30, <1>31, <1>32 DEF IInv, NoneMissed

\* A node with halves, and the tasks for them.
LEMMA HalvesOf ==
    ASSUME Given, NEW ax \in [Nodes -> 1..K], TreeOK(ax), NEW t \in Tasks, t.node \in Nodes,
           tree[t.node] # <<>>, ~Pending(t.node), t.axis = ax[t.node], ~IsLeaf(t.node)
    PROVE  /\ \A c \in {1, 2} : /\ Child(t, c) \in Tasks /\ Child(t, c).node \in Nodes
                                /\ tree[Child(t, c).node] # <<>>
                                /\ Child(t, c).axis = ax[Child(t, c).node]
                                /\ ToSet(tree[Child(t, c).node]) \subseteq ToSet(tree[t.node])
           /\ Child(t, 1) # Child(t, 2)
           /\ ToSet(tree[Child(t, 1).node]) \cap ToSet(tree[Child(t, 2).node]) = {}
<1>1. PICK i \in Nodes : i = t.node
    OBVIOUS
<1>2. /\ N \in Nat \ {0} /\ K \in Nat \ {0} /\ Nodes \subseteq Nat
    BY GivenFacts, NodesAre
<1>3. PICK rows \in Seq(1..N) :
         rows = tree[i] /\ IsInjective(rows) /\ Len(rows) \in Nat \ {0} /\ Len(rows) # 1
         /\ Halved(i, ax) /\ DOMAIN rows = 1..Len(rows)
    BY <1>1, LeafIs
<1>4. PICK n \in Nat, m \in Nat : n = Len(rows) /\ m = n \div 2 /\ m <= n
  <2>1. PICK n \in Nat : n = Len(rows)
    BY <1>3
  <2>2. n \div 2 \in Nat /\ n \div 2 <= n
    OBVIOUS
  <2> QED
    BY <2>1, <2>2
<1>5. PICK c1 \in Nodes, c2 \in Nodes : c1 = 2 * i + 1 /\ c2 = 2 * i + 2 /\ c1 # c2
  <2>1. 2 * i + 2 < Size /\ i \in Nat
    BY <1>2, <1>3 DEF Halved
  <2>2. 2 * i + 1 \in Nodes /\ 2 * i + 2 \in Nodes
    BY <1>2, <2>1, NodesAre
  <2> QED
    BY <2>1, <2>2
<1>6. /\ ax[c1] = NextAxis(t.axis) /\ ax[c2] = NextAxis(t.axis)
      /\ tree[c1] # <<>> /\ ToSet(tree[c1]) = {rows[k] : k \in 1..m}
      /\ tree[c2] # <<>> /\ ToSet(tree[c2]) = {rows[k] : k \in (m + 1)..n}
    BY <1>1, <1>3, <1>4, <1>5 DEF Halved
<1>7. /\ Child(t, 1) = [node |-> c1, axis |-> NextAxis(t.axis)]
      /\ Child(t, 2) = [node |-> c2, axis |-> NextAxis(t.axis)]
    BY <1>1, <1>5 DEF Child
<1>8. NextAxis(t.axis) \in Nat
  <2>1. t.axis \in 1..K
    OBVIOUS
  <2>2. NextAxis(t.axis) \in 1..K
    BY <1>2, <2>1, NextAxisOK
  <2> QED
    BY <1>2, <2>2
<1>9. Child(t, 1) \in Tasks /\ Child(t, 2) \in Tasks
  <2>1. c1 \in Nat /\ c2 \in Nat
    BY <1>2
  <2> QED
    BY <1>7, <1>8, <2>1 DEF Tasks
<1>10. (\A k \in 1..m : k \in 1..n) /\ (\A k \in (m + 1)..n : k \in 1..n)
    BY <1>4
<1>11. ToSet(tree[c1]) \subseteq ToSet(rows) /\ ToSet(tree[c2]) \subseteq ToSet(rows)
  <2>1. ToSet(rows) = {rows[k] : k \in 1..n}
    BY <1>3, <1>4 DEF ToSet
  <2> QED
    BY <1>6, <1>10, <2>1
<1>12. ToSet(tree[c1]) \cap ToSet(tree[c2]) = {}
  <2>1. ASSUME NEW j \in 1..m, NEW k \in (m + 1)..n, rows[j] = rows[k] PROVE FALSE
    <3>1. j = k
      BY <1>3, <1>4, <1>10, <2>1 DEF IsInjective
    <3> QED
      BY <3>1
  <2> QED
    BY <1>6, <2>1
<1>13. Child(t, 1).node = c1 /\ Child(t, 2).node = c2 /\ Child(t, 1).axis = ax[c1]
       /\ Child(t, 2).axis = ax[c2]
    BY <1>6, <1>7
<1>14. Child(t, 1) # Child(t, 2)
    BY <1>5, <1>13
<1> QED
    BY <1>1, <1>3, <1>6, <1>9, <1>11, <1>12, <1>13, <1>14

\* What is to be found below a node is below a half that is not left out.
LEMMA NotPruned ==
    ASSUME Given, NEW ax \in [Nodes -> 1..K], TreeOK(ax), NEW t \in Tasks, t.node \in Nodes,
           tree[t.node] # <<>>, ~Pending(t.node), t.axis = ax[t.node], ~IsLeaf(t.node),
           NEW w \in Wanted, w \in ToSet(tree[t.node])
    PROVE  LET middle == Left(data[Median(t.node)][Columns[t.axis]]) IN
           \/ w \in ToSet(tree[Child(t, 1).node]) /\ AxisRange(t.axis).lo <= middle
           \/ w \in ToSet(tree[Child(t, 2).node]) /\ AxisRange(t.axis).hi > middle
<1>1. PICK i \in Nodes : i = t.node
    OBVIOUS
<1>2. /\ N \in Nat \ {0} /\ K \in Nat \ {0} /\ Nodes \subseteq Nat
    BY GivenFacts, NodesAre
<1>3. PICK rows \in Seq(1..N) :
         rows = tree[i] /\ Len(rows) \in Nat \ {0} /\ Len(rows) # 1
         /\ Halved(i, ax) /\ DOMAIN rows = 1..Len(rows)
    BY <1>1, LeafIs
<1>4. PICK n \in Nat, m \in Nat : n = Len(rows) /\ m = n \div 2 /\ m + 1 \in 1..n
  <2>1. PICK n \in Nat : n = Len(rows) /\ n > 1
    <3>1. PICK n \in Nat : n = Len(rows) /\ n # 0 /\ n # 1
      BY <1>3
    <3> QED
      BY <3>1
  <2>2. n \div 2 \in Nat /\ n \div 2 + 1 \in 1..n
    BY <2>1
  <2> QED
    BY <2>1, <2>2
<1>. DEFINE col == Columns[t.axis]
            val(k) == data[rows[k]][col]
            middle == Left(data[Median(t.node)][col])
<1>5. middle = Left(val(m + 1))
    BY <1>1, <1>3, <1>4 DEF Median
<1>6. PICK k \in 1..n : w = rows[k]
    BY <1>1, <1>3, <1>4 DEF ToSet
<1>7. t.axis \in 1..K
    BY <1>1
<1>8. val(k) \in Nat /\ val(m + 1) \in Nat
  <2>1. rows[k] \in 1..N /\ rows[m + 1] \in 1..N
    BY <1>3, <1>4, ElementIs
  <2>2. val(k) \in 0..MaxValue /\ val(m + 1) \in 0..MaxValue
    BY <1>7, <2>1, GivenFacts
  <2>. HIDE DEF val
  <2> QED
    BY <2>2, ValuesOK
<1>9. \A a, b \in 1..n : a <= b => val(a) <= val(b)
    BY <1>1, <1>3, <1>4 DEF Halved
<1>10. AxisRange(t.axis).lo <= Left(val(k)) /\ Left(val(k)) < AxisRange(t.axis).hi
  <2>1. Passes(w)
    BY WantedPasses
  <2> QED
    BY <1>6, <1>7, <2>1 DEF Passes, Within
<1>11. AxisRange(t.axis).lo \in Int /\ AxisRange(t.axis).hi \in Int
    BY GivenFacts, CombinedIs DEF AxisRange
<1>12. /\ Child(t, 1).node = 2 * i + 1 /\ Child(t, 2).node = 2 * i + 2
    BY <1>1 DEF Child
<1>13. /\ ToSet(tree[Child(t, 1).node]) = {rows[j] : j \in 1..m}
       /\ ToSet(tree[Child(t, 2).node]) = {rows[j] : j \in (m + 1)..n}
    BY <1>3, <1>4, <1>12 DEF Halved
<1>. HIDE DEF val, middle
<1>14. CASE k <= m
  <2>1. k \in 1..m /\ k <= m + 1
    BY <1>14
  <2>2. val(k) <= val(m + 1)
    BY <1>4, <1>9, <2>1
  <2>3. AxisRange(t.axis).lo <= middle
    BY <1>5, <1>8, <1>10, <1>11, <2>2 DEF Left
  <2>4. w \in ToSet(tree[Child(t, 1).node])
    BY <1>6, <1>13, <2>1
  <2> QED
    BY <2>3, <2>4 DEF middle
<1>15. CASE ~(k <= m)
  <2>1. k \in (m + 1)..n /\ m + 1 <= k
    BY <1>15
  <2>2. val(m + 1) <= val(k)
    BY <1>4, <1>9, <2>1
  <2>3. AxisRange(t.axis).hi > middle
    BY <1>5, <1>8, <1>10, <1>11, <2>2 DEF Left
  <2>4. w \in ToSet(tree[Child(t, 2).node])
    BY <1>6, <1>13, <2>1
  <2> QED
    BY <2>3, <2>4 DEF middle
<1> QED
    BY <1>14, <1>15

\* The halves that are visited: in the list each at most once, and none left out that
\* has a row to be found.
LEMMA HalfwayIs ==
    ASSUME Given, NEW ax \in [Nodes -> 1..K], TreeOK(ax), NEW t \in Tasks, t.node \in Nodes,
           tree[t.node] # <<>>, ~Pending(t.node), t.axis = ax[t.node], ~IsLeaf(t.node)
    PROVE  /\ Halfway(t) \in Seq(Tasks)
           /\ \A k \in DOMAIN Halfway(t) : Halfway(t)[k] \in {Child(t, 1), Child(t, 2)}
           /\ IsInjective(Halfway(t))
           /\ \A w \in Wanted : w \in ToSet(tree[t.node]) =>
                 \E k \in DOMAIN Halfway(t) : w \in ToSet(tree[Halfway(t)[k].node])
<1>1. Child(t, 1) \in Tasks /\ Child(t, 2) \in Tasks /\ Child(t, 1) # Child(t, 2)
    BY HalvesOf
<1>2. PICK l \in Tasks, r \in Tasks : l = Child(t, 1) /\ r = Child(t, 2) /\ l # r
    BY <1>1
<1>. DEFINE middle == Left(data[Median(t.node)][Columns[t.axis]])
            right == AxisRange(t.axis).hi > middle
            left0 == AxisRange(t.axis).lo <= middle
<1>3. Halfway(t) = (IF right THEN <<r>> ELSE <<>>) \o (IF left0 THEN <<l>> ELSE <<>>)
    BY <1>2 DEF Halfway
<1>4. \A w \in Wanted : w \in ToSet(tree[t.node]) =>
          (w \in ToSet(tree[l.node]) /\ left0) \/ (w \in ToSet(tree[r.node]) /\ right)
    BY <1>2, NotPruned
<1>. HIDE DEF right, left0
<1>. DEFINE h == Halfway(t)
<1>5. CASE right /\ left0
  <2>1. h = <<r>> \o <<l>>
    BY <1>3, <1>5
  <2>2. h \in Seq(Tasks) /\ DOMAIN h = {1, 2} /\ h[1] = r /\ h[2] = l
    <3>1. PICK s1 \in Seq(Tasks) : s1 = <<r>> /\ Len(s1) = 1 /\ s1[1] = r
      <4>1. <<r>> \in Seq(Tasks)
        OBVIOUS
      <4>2. Len(<<r>>) = 1 /\ <<r>>[1] = r
        OBVIOUS
      <4> QED
        BY <4>1, <4>2
    <3>2. PICK s2 \in Seq(Tasks) : s2 = <<l>> /\ Len(s2) = 1 /\ s2[1] = l
      <4>1. <<l>> \in Seq(Tasks)
        OBVIOUS
      <4>2. Len(<<l>>) = 1 /\ <<l>>[1] = l
        OBVIOUS
      <4> QED
        BY <4>1, <4>2
    <3>3. /\ s1 \o s2 \in Seq(Tasks) /\ Len(s1 \o s2) = 1 + 1
          /\ \A k \in 1..(1 + 1) : (s1 \o s2)[k] = IF k <= 1 THEN s1[k] ELSE s2[k - 1]
      BY <3>1, <3>2, ConcatProperties
    <3>4. h = s1 \o s2
      BY <2>1, <3>1, <3>2
    <3>. HIDE DEF h
    <3>5. h \in Seq(Tasks) /\ Len(h) = 2 /\ h[1] = r /\ h[2] = l
      BY <3>1, <3>2, <3>3, <3>4
    <3>6. DOMAIN h = {1, 2}
      BY <3>5
    <3> QED
      BY <3>5, <3>6
  <2>. HIDE DEF h
  <2>3. IsInjective(h)
    BY <1>2, <2>2 DEF IsInjective
  <2>4. \A w \in Wanted : w \in ToSet(tree[t.node]) => \E k \in DOMAIN h : w \in ToSet(tree[h[k].node])
    BY <1>4, <2>2
  <2>5. \A k \in DOMAIN h : h[k] \in {l, r}
    BY <2>2
  <2> QED
    BY <1>2, <2>2, <2>3, <2>4, <2>5 DEF h
<1>6. CASE right /\ ~left0
  <2>1. h = <<r>>
    BY <1>3, <1>6
  <2>2. h \in Seq(Tasks) /\ DOMAIN h = {1} /\ h[1] = r
    BY <2>1
  <2>. HIDE DEF h
  <2>3. IsInjective(h)
    BY <2>2 DEF IsInjective
  <2>4. \A w \in Wanted : w \in ToSet(tree[t.node]) => \E k \in DOMAIN h : w \in ToSet(tree[h[k].node])
    BY <1>4, <1>6, <2>2
  <2>5. \A k \in DOMAIN h : h[k] \in {l, r}
    BY <2>2
  <2> QED
    BY <1>2, <2>2, <2>3, <2>4, <2>5 DEF h
<1>7. CASE ~right /\ left0
  <2>1. h = <<l>>
    BY <1>3, <1>7
  <2>2. h \in Seq(Tasks) /\ DOMAIN h = {1} /\ h[1] = l
    BY <2>1
  <2>. HIDE DEF h
  <2>3. IsInjective(h)
    BY <2>2 DEF IsInjective
  <2>4. \A w \in Wanted : w \in ToSet(tree[t.node]) => \E k \in DOMAIN h : w \in ToSet(tree[h[k].node])
    BY <1>4, <1>7, <2>2
  <2>5. \A k \in DOMAIN h : h[k] \in {l, r}
    BY <2>2
  <2> QED
    BY <1>2, <2>2, <2>3, <2>4, <2>5 DEF h
<1>8. CASE ~right /\ ~left0
  <2>1. h = <<>>
    BY <1>3, <1>8
  <2>2. h \in Seq(Tasks) /\ DOMAIN h = {}
    BY <2>1
  <2>. HIDE DEF h
  <2>3. IsInjective(h)
    BY <2>2 DEF IsInjective
  <2>4. \A w \in Wanted : w \in ToSet(tree[t.node]) => \E k \in DOMAIN h : w \in ToSet(tree[h[k].node])
    BY <1>4, <1>8
  <2> QED
    BY <2>2, <2>3, <2>4 DEF h
<1> QED
    BY <1>5, <1>6, <1>7, <1>8

\* What holds when a node is visited.
LEMMA Visiting ==
    ASSUME IInv, st = "search", todo # <<>>
    PROVE  /\ Given /\ Rest /\ NoneMissed
           /\ todo \in Seq(Tasks) /\ found \in Seq(1..N)
           /\ Len(todo) \in Nat \ {0} /\ DOMAIN todo = 1..Len(todo)
           /\ Last(todo) = todo[Len(todo)] /\ Last(todo) \in Tasks
           /\ \E ax \in [Nodes -> 1..K] : Shape(ax)
           /\ \A i : ~Pending(i)
<1>1. Given /\ Rest /\ NoneMissed /\ todo \in Seq(Tasks) /\ found \in Seq(1..N)
    BY DEF IInv, Rest, Tasks
<1>2. \A i : ~Pending(i)
    BY DEF Pending
<1>3. \E ax \in [Nodes -> 1..K] : Shape(ax)
    BY DEF IInv
<1>4. /\ Len(todo) \in Nat \ {0} /\ DOMAIN todo = 1..Len(todo)
      /\ Last(todo) = todo[Len(todo)] /\ Last(todo) \in Tasks
    BY <1>1, TopIs
<1> QED
    BY <1>1, <1>2, <1>3, <1>4

\* NoneMissed, the list of nodes taken place by place.
LEMMA MissedIs ==
    ASSUME NoneMissed, st = "search", NEW D, DOMAIN todo = D
    PROVE  /\ \A w \in Wanted : w \in ToSet(found) \/ \E n \in D : w \in ToSet(tree[todo[n].node])
           /\ IsInjective(found)
           /\ \A n \in D : ToSet(tree[todo[n].node]) \cap ToSet(found) = {}
           /\ \A n, k \in D : n # k =>
                 ToSet(tree[todo[n].node]) \cap ToSet(tree[todo[k].node]) = {}
<1>1. /\ Wanted \subseteq ToSet(found) \cup UNION {ToSet(tree[t.node]) : t \in ToSet(todo)}
      /\ IsInjective(found)
      /\ \A i, j \in DOMAIN todo :
            /\ ToSet(tree[todo[i].node]) \cap ToSet(found) = {}
            /\ i # j => ToSet(tree[todo[i].node]) \cap ToSet(tree[todo[j].node]) = {}
    BY DEF NoneMissed
<1>2. ASSUME NEW w \in Wanted, w \notin ToSet(found)
      PROVE  \E n \in D : w \in ToSet(tree[todo[n].node])
  <2>1. PICK t \in ToSet(todo) : w \in ToSet(tree[t.node])
    BY <1>1, <1>2
  <2>2. PICK n \in D : t = todo[n]
    BY DEF ToSet
  <2> QED
    BY <2>1, <2>2
<1> QED
    BY <1>1, <1>2

\* The tree stays as it is during the search.
LEMMA SearchTree ==
    ASSUME data' = data, query' = query, tree' = tree, st = "search", st' = "search",
           NEW ax, TreeOK(ax)
    PROVE  TreeOK(ax)'
<1>1. \A i \in Nodes : Pending(i)' <=> Pending(i)
    BY DEF Pending
<1> QED
    BY <1>1, TreeStays

\* A leaf has one row.
LEMMA LeafRow ==
    ASSUME Given, NEW ax, TreeOK(ax), NEW i \in Nodes, tree[i] # <<>>, ~Pending(i), IsLeaf(i)
    PROVE  Median(i) \in 1..N /\ ToSet(tree[i]) = {Median(i)}
<1>1. tree[i] \in Seq(1..N) /\ Len(tree[i]) = 1 /\ DOMAIN tree[i] = 1..1
    BY LeafIs
<1>2. Median(i) = tree[i][1]
    BY <1>1 DEF Median
<1>3. tree[i][1] \in 1..N
  <2>1. 1 \in DOMAIN tree[i]
    BY <1>1
  <2> QED
    BY <1>1, <2>1, ElementIs
<1>4. ToSet(tree[i]) = {tree[i][1]}
    BY <1>1 DEF ToSet
<1> QED
    BY <1>2, <1>3, <1>4

\* A leaf is visited: its row is found if it is in the range, and it is not asked for
\* if it is not.
LEMMA VisitLeafOK == ASSUME IInv, VisitLeaf PROVE IInv'
<1>1. /\ data' = data /\ query' = query /\ tree' = tree /\ st = "search" /\ st' = "search"
      /\ todo # <<>> /\ todo' = Front(todo) /\ IsLeaf(Last(todo).node)
      /\ found' = IF Passes(Median(Last(todo).node)) THEN Append(found, Median(Last(todo).node))
                  ELSE found
    BY DEF VisitLeaf
<1>2. /\ Given /\ Rest /\ NoneMissed
      /\ todo \in Seq(Tasks) /\ found \in Seq(1..N)
      /\ \A i : ~Pending(i)
    BY <1>1, Visiting
<1>3. PICK ax \in [Nodes -> 1..K] : Shape(ax)
    BY <1>1, Visiting
<1>4. PICK l \in Nat \ {0} :
         /\ l = Len(todo) /\ DOMAIN todo = 1..l /\ todo' \in Seq(Tasks)
         /\ DOMAIN todo' = 1..(l - 1) /\ Last(todo) = todo[l]
         /\ \A n \in 1..(l - 1) : todo'[n] = todo[n]
    BY <1>1, <1>2, TopIs
<1>5. /\ l \in 1..l /\ \A n \in 1..(l - 1) : n \in 1..l /\ n # l
      /\ \A n \in 1..l : n = l \/ n \in 1..(l - 1)
    BY <1>4
<1>6. PICK i \in Nodes : i = todo[l].node /\ tree[i] # <<>>
    BY <1>3, <1>4, <1>5 DEF Shape, TodoOK
<1>7. PICK r \in 1..N : r = Median(i) /\ ToSet(tree[i]) = {r}
    BY <1>1, <1>2, <1>3, <1>4, <1>6, LeafRow DEF Shape
<1>8. found' = IF Passes(r) THEN Append(found, r) ELSE found
    BY <1>1, <1>4, <1>6, <1>7
<1>9. /\ \A w \in Wanted : w \in ToSet(found) \/ \E n \in 1..l : w \in ToSet(tree[todo[n].node])
      /\ IsInjective(found)
      /\ \A n \in 1..l : ToSet(tree[todo[n].node]) \cap ToSet(found) = {}
      /\ \A n, k \in 1..l : n # k =>
            ToSet(tree[todo[n].node]) \cap ToSet(tree[todo[k].node]) = {}
    BY <1>1, <1>2, <1>4, MissedIs
\* What is found afterwards.
<1>10. /\ found' \in Seq(1..N) /\ IsInjective(found')
       /\ ToSet(found') = IF Passes(r) THEN ToSet(found) \cup {r} ELSE ToSet(found)
       /\ FoundPass'
  <2>1. r \notin ToSet(found)
    BY <1>5, <1>6, <1>7, <1>9
  <2>2. \A k : Passes(k)' <=> Passes(k)
    BY <1>1, SameData
  <2>3. FoundPass
    BY <1>2 DEF Rest
  <2>4. CASE ~Passes(r)
    BY <1>2, <1>8, <1>9, <2>2, <2>3, <2>4 DEF FoundPass
  <2>5. CASE Passes(r)
    <3>1. PICK n \in Nat : n = Len(found) /\ DOMAIN found = 1..n
      BY <1>2
    <3>2. /\ found' \in Seq(1..N) /\ DOMAIN found' = 1..(n + 1) /\ found'[n + 1] = r
          /\ \A k \in 1..n : found'[k] = found[k]
      BY <1>2, <1>8, <2>5, <3>1
    <3>3. \A k \in 1..(n + 1) : k \in 1..n \/ k = n + 1
      OBVIOUS
    <3>4. \A k \in 1..n : k \in 1..(n + 1) /\ k # n + 1
      OBVIOUS
    <3>5. n + 1 \in 1..(n + 1)
      OBVIOUS
    <3>6. ToSet(found') = ToSet(found) \cup {r}
      BY <3>1, <3>2, <3>3, <3>4, <3>5 DEF ToSet
    <3>7. \A k \in 1..n : found[k] # r
      BY <2>1, <3>1 DEF ToSet
    <3>8. IsInjective(found')
      BY <1>9, <3>1, <3>2, <3>3, <3>7 DEF IsInjective
    <3>9. FoundPass'
      BY <2>2, <2>3, <2>5, <3>1, <3>2, <3>3 DEF FoundPass
    <3> QED
      BY <2>5, <3>2, <3>6, <3>8, <3>9
  <2> QED
    BY <2>4, <2>5
<1>11. NoneMissed'
  <2>1. Wanted' = Wanted
    BY <1>1, SameData
  <2>2. ASSUME NEW w \in Wanted
        PROVE  w \in ToSet(found') \/ \E n \in 1..(l - 1) : w \in ToSet(tree[todo[n].node])
    <3>1. CASE w \in ToSet(found)
      BY <1>10, <3>1
    <3>2. CASE \E n \in 1..(l - 1) : w \in ToSet(tree[todo[n].node])
      BY <3>2
    <3>3. CASE w \in ToSet(tree[todo[l].node])
      <4>1. w = r
        BY <1>6, <1>7, <3>3
      <4>2. Passes(w)
        BY <1>2, WantedPasses
      <4> QED
        BY <1>10, <4>1, <4>2
    <3> QED
      BY <1>5, <1>9, <3>1, <3>2, <3>3
  <2>3. ASSUME NEW n \in 1..(l - 1)
        PROVE  ToSet(tree[todo[n].node]) \cap ToSet(found') = {}
    <3>1. ToSet(tree[todo[n].node]) \cap ToSet(tree[todo[l].node]) = {}
      BY <1>5, <1>9
    <3>2. ToSet(tree[todo[n].node]) \cap ToSet(found) = {}
      BY <1>5, <1>9
    <3> QED
      BY <1>6, <1>7, <1>10, <3>1, <3>2
  <2>4. ASSUME NEW n \in 1..(l - 1)
        PROVE  todo'[n] \in ToSet(todo') /\ tree'[todo'[n].node] = tree[todo[n].node]
    BY <1>1, <1>4 DEF ToSet
  <2>5. Wanted' \subseteq ToSet(found') \cup UNION {ToSet(tree'[x.node]) : x \in ToSet(todo')}
    BY <2>1, <2>2, <2>4
  <2>6. \A n, k \in DOMAIN todo' :
           /\ ToSet(tree'[todo'[n].node]) \cap ToSet(found') = {}
           /\ n # k => ToSet(tree'[todo'[n].node]) \cap ToSet(tree'[todo'[k].node]) = {}
    <3>1. DOMAIN todo' = 1..(l - 1)
      BY <1>4
    <3>2. \A n \in 1..(l - 1) : ToSet(tree'[todo'[n].node]) \cap ToSet(found') = {}
      BY <2>3, <2>4
    <3>3. ASSUME NEW n \in 1..(l - 1), NEW k \in 1..(l - 1), n # k
          PROVE  ToSet(tree'[todo'[n].node]) \cap ToSet(tree'[todo'[k].node]) = {}
      <4>1. ToSet(tree[todo[n].node]) \cap ToSet(tree[todo[k].node]) = {}
        BY <1>5, <1>9, <3>3
      <4> QED
        BY <2>4, <4>1
    <3> QED
      BY <3>1, <3>2, <3>3
  <2> QED
    BY <1>10, <2>5, <2>6 DEF NoneMissed
<1>12. TreeOK(ax)'
    BY <1>1, <1>3, SearchTree DEF Shape
<1>13. TodoOK(ax)'
  <2>1. Nodes' = Nodes
    BY <1>1, SameData
  <2>2. \A n \in 1..(l - 1) : /\ todo[n].node \in Nodes /\ tree[todo[n].node] # <<>>
                              /\ todo[n].axis = ax[todo[n].node]
    BY <1>3, <1>4, <1>5 DEF Shape, TodoOK
  <2> QED
    BY <1>1, <1>4, <2>1, <2>2 DEF TodoOK
<1>14. Given' /\ ax \in [Nodes' -> 1..K'] /\ N' = N
    BY <1>1, <1>2, <1>3, SameData
<1>15. Rest'
    BY <1>1, <1>4, <1>10, <1>14 DEF Rest, Tasks
<1>16. (\E bx \in [Nodes -> 1..K] : Shape(bx))'
    BY <1>12, <1>13, <1>14 DEF Shape
<1> QED
    BY <1>1, <1>11, <1>14, <1>15, <1>16 DEF IInv

\* A node with halves is visited: what is below it is below the halves that are visited
\* next, unless it is not asked for.
LEMMA VisitInnerOK == ASSUME IInv, VisitInner PROVE IInv'
<1>1. /\ data' = data /\ query' = query /\ tree' = tree /\ found' = found
      /\ st = "search" /\ st' = "search"
      /\ todo # <<>> /\ todo' = Front(todo) \o Halfway(Last(todo)) /\ ~IsLeaf(Last(todo).node)
    BY DEF VisitInner
<1>2. /\ Given /\ Rest /\ NoneMissed
      /\ todo \in Seq(Tasks) /\ found \in Seq(1..N)
      /\ \A i : ~Pending(i)
    BY <1>1, Visiting
<1>3. PICK ax \in [Nodes -> 1..K] : Shape(ax)
    BY <1>1, Visiting
<1>4. PICK l \in Nat \ {0}, t \in Tasks :
         l = Len(todo) /\ DOMAIN todo = 1..l /\ t = Last(todo) /\ t = todo[l]
    BY <1>1, Visiting
<1>5. /\ l \in 1..l /\ \A n \in 1..(l - 1) : n \in 1..l /\ n # l
      /\ \A n \in 1..l : n = l \/ n \in 1..(l - 1)
    BY <1>4
<1>6. t.node \in Nodes /\ tree[t.node] # <<>> /\ t.axis = ax[t.node]
    BY <1>3, <1>4, <1>5 DEF Shape, TodoOK
<1>7. /\ \A c \in {1, 2} : /\ Child(t, c) \in Tasks /\ Child(t, c).node \in Nodes
                           /\ tree[Child(t, c).node] # <<>>
                           /\ Child(t, c).axis = ax[Child(t, c).node]
                           /\ ToSet(tree[Child(t, c).node]) \subseteq ToSet(tree[t.node])
      /\ Child(t, 1) # Child(t, 2)
      /\ ToSet(tree[Child(t, 1).node]) \cap ToSet(tree[Child(t, 2).node]) = {}
    BY <1>1, <1>2, <1>3, <1>4, <1>6, HalvesOf DEF Shape
<1>8. PICK h \in Seq(Tasks) :
         /\ h = Halfway(t) /\ IsInjective(h)
         /\ \A k \in DOMAIN h : h[k] \in {Child(t, 1), Child(t, 2)}
         /\ \A w \in Wanted : w \in ToSet(tree[t.node]) =>
               \E k \in DOMAIN h : w \in ToSet(tree[h[k].node])
    BY <1>1, <1>2, <1>3, <1>4, <1>6, HalfwayIs DEF Shape
<1>9. PICK z \in Nat : z = Len(h) /\ DOMAIN h = 1..z
    OBVIOUS
\* The list afterwards.
<1>10. /\ todo' \in Seq(Tasks) /\ DOMAIN todo' = 1..(l - 1 + z)
       /\ \A n \in 1..(l - 1) : todo'[n] = todo[n]
       /\ \A k \in 1..z : todo'[l - 1 + k] = h[k]
       /\ \A n \in DOMAIN todo' : n \in 1..(l - 1) \/ \E k \in 1..z : n = l - 1 + k
  <2>1. todo' = Front(todo) \o h
    BY <1>1, <1>4, <1>8
  <2>2. todo' \in Seq(Tasks) /\ LastReplaced(todo', todo, h)
    BY <1>1, <1>2, <2>1, Replaced
  <2> QED
    BY <1>4, <1>9, <2>2 DEF LastReplaced
<1>11. /\ \A n \in 1..(l - 1) : n \in DOMAIN todo'
       /\ \A k \in 1..z : l - 1 + k \in DOMAIN todo' /\ l - 1 + k \notin 1..(l - 1)
  <2>1. /\ \A n \in 1..(l - 1) : n \in 1..(l - 1 + z)
        /\ \A k \in 1..z : l - 1 + k \in 1..(l - 1 + z) /\ l - 1 + k \notin 1..(l - 1)
    OBVIOUS
  <2> QED
    BY <1>10, <2>1
<1>12. /\ \A w \in Wanted : w \in ToSet(found) \/ \E n \in 1..l : w \in ToSet(tree[todo[n].node])
       /\ IsInjective(found)
       /\ \A n \in 1..l : ToSet(tree[todo[n].node]) \cap ToSet(found) = {}
       /\ \A n, k \in 1..l : n # k =>
             ToSet(tree[todo[n].node]) \cap ToSet(tree[todo[k].node]) = {}
    BY <1>1, <1>2, <1>4, MissedIs
\* What is below an entry of the new list.
<1>13. ASSUME NEW k \in 1..z
       PROVE  /\ h[k].node \in Nodes /\ tree[h[k].node] # <<>> /\ h[k].axis = ax[h[k].node]
              /\ ToSet(tree[h[k].node]) \subseteq ToSet(tree[t.node])
    BY <1>7, <1>8, <1>9
<1>14. ASSUME NEW j \in 1..z, NEW k \in 1..z, j # k
       PROVE  ToSet(tree[h[j].node]) \cap ToSet(tree[h[k].node]) = {}
  <2>1. h[j] # h[k]
    BY <1>8, <1>9, <1>14 DEF IsInjective
  <2>2. h[j] \in {Child(t, 1), Child(t, 2)} /\ h[k] \in {Child(t, 1), Child(t, 2)}
    BY <1>8, <1>9
  <2> QED
    BY <1>7, <2>1, <2>2
<1>15. NoneMissed'
  <2>1. Wanted' = Wanted /\ found' = found /\ IsInjective(found')
    BY <1>1, <1>12, SameData
  <2>2. ASSUME NEW n \in DOMAIN todo'
        PROVE  todo'[n] \in ToSet(todo') /\ tree'[todo'[n].node] = tree[todo'[n].node]
    BY <1>1 DEF ToSet
  <2>3. ASSUME NEW w \in Wanted, w \notin ToSet(found)
        PROVE  \E n \in DOMAIN todo' : w \in ToSet(tree[todo'[n].node])
    <3>1. PICK n \in 1..l : w \in ToSet(tree[todo[n].node])
      BY <1>12, <2>3
    <3>2. CASE n \in 1..(l - 1)
      <4>1. n \in DOMAIN todo' /\ todo'[n] = todo[n]
        BY <1>10, <1>11, <3>2
      <4> QED
        BY <3>1, <4>1
    <3>3. CASE n = l
      <4>1. w \in ToSet(tree[t.node])
        BY <1>4, <3>1, <3>3
      <4>2. PICK k \in 1..z : w \in ToSet(tree[h[k].node])
        BY <1>8, <1>9, <4>1
      <4>3. l - 1 + k \in DOMAIN todo' /\ todo'[l - 1 + k] = h[k]
        BY <1>10, <1>11
      <4> QED
        BY <4>2, <4>3
    <3> QED
      BY <1>5, <3>2, <3>3
  <2>4. Wanted' \subseteq ToSet(found') \cup UNION {ToSet(tree'[x.node]) : x \in ToSet(todo')}
    <3>1. ASSUME NEW w \in Wanted, w \notin ToSet(found)
          PROVE  w \in UNION {ToSet(tree'[x.node]) : x \in ToSet(todo')}
      <4>1. PICK n \in DOMAIN todo' : w \in ToSet(tree[todo'[n].node])
        BY <2>3, <3>1
      <4> QED
        BY <2>2, <4>1
    <3> QED
      BY <2>1, <3>1
  <2>5. ASSUME NEW n \in DOMAIN todo'
        PROVE  ToSet(tree[todo'[n].node]) \cap ToSet(found) = {}
    <3>1. CASE n \in 1..(l - 1)
      BY <1>5, <1>10, <1>12, <3>1
    <3>2. CASE \E k \in 1..z : n = l - 1 + k
      <4>1. PICK k \in 1..z : todo'[n] = h[k]
        BY <1>10, <3>2
      <4>2. ToSet(tree[t.node]) \cap ToSet(found) = {}
        BY <1>4, <1>5, <1>12
      <4> QED
        BY <1>13, <4>1, <4>2
    <3> QED
      BY <1>10, <3>1, <3>2
  <2>6. ASSUME NEW n \in 1..(l - 1), NEW k \in 1..z
        PROVE  ToSet(tree[todo[n].node]) \cap ToSet(tree[h[k].node]) = {}
    <3>1. ToSet(tree[todo[n].node]) \cap ToSet(tree[t.node]) = {}
      BY <1>4, <1>5, <1>12
    <3> QED
      BY <1>13, <3>1
  <2>7. ASSUME NEW n \in DOMAIN todo', NEW p \in DOMAIN todo', n # p
        PROVE  ToSet(tree[todo'[n].node]) \cap ToSet(tree[todo'[p].node]) = {}
    <3>1. CASE n \in 1..(l - 1) /\ p \in 1..(l - 1)
      BY <1>5, <1>10, <1>12, <2>7, <3>1
    <3>2. CASE n \in 1..(l - 1) /\ \E k \in 1..z : p = l - 1 + k
      BY <1>10, <2>6, <3>2
    <3>3. CASE p \in 1..(l - 1) /\ \E k \in 1..z : n = l - 1 + k
      BY <1>10, <2>6, <3>3
    <3>4. CASE (\E k \in 1..z : n = l - 1 + k) /\ (\E k \in 1..z : p = l - 1 + k)
      <4>1. PICK j \in 1..z, k \in 1..z : n = l - 1 + j /\ p = l - 1 + k
        BY <3>4
      <4>2. j # k /\ todo'[n] = h[j] /\ todo'[p] = h[k]
        BY <1>10, <2>7, <4>1
      <4> QED
        BY <1>14, <4>2
    <3> QED
      BY <1>10, <3>1, <3>2, <3>3, <3>4
  <2>8. \A n, p \in DOMAIN todo' :
           /\ ToSet(tree'[todo'[n].node]) \cap ToSet(found') = {}
           /\ n # p => ToSet(tree'[todo'[n].node]) \cap ToSet(tree'[todo'[p].node]) = {}
    BY <2>1, <2>2, <2>5, <2>7
  <2> QED
    BY <2>1, <2>4, <2>8 DEF NoneMissed
<1>16. TreeOK(ax)'
    BY <1>1, <1>3, SearchTree DEF Shape
<1>17. TodoOK(ax)'
  <2>1. Nodes' = Nodes
    BY <1>1, SameData
  <2>2. \A n \in 1..(l - 1) : /\ todo[n].node \in Nodes /\ tree[todo[n].node] # <<>>
                              /\ todo[n].axis = ax[todo[n].node]
    BY <1>3, <1>4, <1>5 DEF Shape, TodoOK
  <2>3. ASSUME NEW n \in DOMAIN todo'
        PROVE  /\ todo'[n].node \in Nodes /\ tree[todo'[n].node] # <<>>
               /\ todo'[n].axis = ax[todo'[n].node]
    <3>1. CASE n \in 1..(l - 1)
      BY <1>10, <2>2, <3>1
    <3>2. CASE \E k \in 1..z : n = l - 1 + k
      <4>1. PICK k \in 1..z : todo'[n] = h[k]
        BY <1>10, <3>2
      <4> QED
        BY <1>13, <4>1
    <3> QED
      BY <1>10, <3>1, <3>2
  <2> QED
    BY <1>1, <2>1, <2>3 DEF TodoOK
<1>18. Given' /\ ax \in [Nodes' -> 1..K'] /\ N' = N
    BY <1>1, <1>2, <1>3, SameData
<1>19. Rest'
  <2>1. FoundPass'
    BY <1>1, <1>2, SameData DEF Rest, FoundPass
  <2> QED
    BY <1>1, <1>2, <1>10, <1>18, <2>1 DEF Rest, Tasks
<1>20. (\E bx \in [Nodes -> 1..K] : Shape(bx))'
    BY <1>16, <1>17, <1>18 DEF Shape
<1> QED
    BY <1>1, <1>15, <1>18, <1>19, <1>20 DEF IInv

-----------------------------------------------------------------------------
(* The theorems *)

\* The invariant holds in every state.
LEMMA Invariance == Spec => []IInv
<1>1. Init => IInv
    BY InitOK
<1>2. ASSUME IInv, [Next]_vars PROVE IInv'
  <2>1. CASE Build
    BY <1>2, <2>1, BuildOK
  <2>2. CASE Kdtreerec
    BY <1>2, <2>2, KdtreerecLeafOK, KdtreerecInnerOK
  <2>3. CASE Built
    BY <1>2, <2>3, BuiltOK
  <2>4. CASE Begin
    BY <1>2, <2>4, BeginOK
  <2>5. CASE BeginFailed
    BY <1>2, <2>5, StillOK DEF BeginFailed
  <2>6. CASE VisitLeaf
    BY <1>2, <2>6, VisitLeafOK
  <2>7. CASE VisitInner
    BY <1>2, <2>7, VisitInnerOK
  <2>8. CASE End
    BY <1>2, <2>8, StillOK DEF End
  <2>9. CASE UNCHANGED vars
    BY <1>2, <2>9, StillOK DEF vars
  <2> QED
    BY <1>2, <2>1, <2>2, <2>3, <2>4, <2>5, <2>6, <2>7, <2>8, <2>9 DEF Next
<1> QED
    BY <1>1, <1>2, PTL DEF Spec

\* What has been built is a tree of row numbers, and what waits is in it.
THEOREM TypesOK == Spec => []TypeOK
<1>1. ASSUME IInv PROVE TypeOK
  <2>1. st = "new" => todo = <<>>
    BY <1>1 DEF IInv, Rest
  <2>2. found \in Seq(1..N) /\ st \in {"new", "build", "built", "search", "done", "failed"}
    BY <1>1 DEF IInv, Rest
  <2>3. CASE st = "new"
    BY <2>1, <2>2, <2>3 DEF TypeOK
  <2>4. CASE st # "new"
    <3>1. PICK ax \in [Nodes -> 1..K] : Shape(ax)
      BY <1>1, <2>4 DEF IInv
    <3>2. tree \in [0..(Size - 1) -> Seq(1..N)]
      BY <3>1 DEF Shape, TreeOK, Nodes
    <3>3. \A n \in DOMAIN todo : /\ todo[n].axis \in 1..K
                                /\ todo[n].node \in 0..(Size - 1) /\ tree[todo[n].node] # <<>>
      BY <3>1 DEF Shape, TodoOK, Nodes
    <3> QED
      BY <2>2, <2>4, <3>2, <3>3 DEF TypeOK
  <2> QED
    BY <2>3, <2>4
<1> QED
    BY <1>1, Invariance, PTL

\* Whatever the table and the constraints are: every row to be found has been found or is
\* below exactly one of the nodes that will be visited.
THEOREM NothingMissed == Spec => []NoneMissed
<1>1. IInv => NoneMissed
    BY DEF IInv
<1> QED
    BY <1>1, Invariance, PTL

\* Steps that find nothing and end nothing are none of the scan.
LEMMA NoScanStep ==
    ASSUME data' = data, query' = query, found' = found,
           st' \in {"done", "failed"} <=> st \in {"done", "failed"}
    PROVE  UNCHANGED <<left, ToSet(found), over>>
<1>1. Wanted' = Wanted
    BY SameData
<1> QED
    BY <1>1 DEF left, over

\* A visit of a leaf returns a row of the scan or does nothing for it.
LEMMA VisitLeafReturns ==
    ASSUME WithoutNulls, IInv, VisitLeaf
    PROVE  IScan!Return \/ UNCHANGED <<left, ToSet(found), over>>
<1>1. /\ data' = data /\ query' = query /\ tree' = tree /\ st = "search" /\ st' = "search"
      /\ todo # <<>> /\ IsLeaf(Last(todo).node)
      /\ found' = IF Passes(Median(Last(todo).node)) THEN Append(found, Median(Last(todo).node))
                  ELSE found
    BY DEF VisitLeaf
<1>2. /\ Given /\ NoneMissed /\ todo \in Seq(Tasks) /\ found \in Seq(1..N)
      /\ \A i : ~Pending(i)
    BY <1>1, Visiting
<1>3. PICK ax \in [Nodes -> 1..K] : Shape(ax)
    BY <1>1, Visiting
<1>4. PICK l \in DOMAIN todo : Last(todo) = todo[l]
  <2>1. Len(todo) \in DOMAIN todo /\ Last(todo) = todo[Len(todo)]
    <3>1. Len(todo) \in Nat \ {0} /\ DOMAIN todo = 1..Len(todo) /\ Last(todo) = todo[Len(todo)]
      BY <1>1, <1>2, TopIs
    <3> QED
      BY <3>1
  <2> QED
    BY <2>1
<1>5. PICK i \in Nodes : i = Last(todo).node /\ tree[i] # <<>>
    BY <1>3, <1>4 DEF Shape, TodoOK
<1>6. PICK r \in 1..N : r = Median(i) /\ ToSet(tree[i]) = {r}
    BY <1>1, <1>2, <1>3, <1>5, LeafRow DEF Shape
<1>7. r \notin ToSet(found)
    BY <1>1, <1>2, <1>4, <1>5, <1>6, MissedIs
<1>8. CASE ~Passes(r)
  <2>1. found' = found
    BY <1>1, <1>5, <1>6, <1>8
  <2> QED
    BY <1>1, <2>1, NoScanStep
<1>9. CASE Passes(r)
  <2>1. r \in Wanted
    BY <1>2, <1>9, PassesWanted
  <2>2. found' = Append(found, r)
    BY <1>1, <1>5, <1>6, <1>9
  <2>3. ToSet(found') = ToSet(found) \cup {r}
    <3>1. PICK n \in Nat : n = Len(found) /\ DOMAIN found = 1..n
      BY <1>2
    <3>2. /\ DOMAIN found' = 1..(n + 1) /\ found'[n + 1] = r
          /\ \A k \in 1..n : found'[k] = found[k]
      BY <1>2, <2>2, <3>1
    <3>3. /\ \A k \in 1..(n + 1) : k \in 1..n \/ k = n + 1
          /\ \A k \in 1..n : k \in 1..(n + 1) /\ k # n + 1
          /\ n + 1 \in 1..(n + 1)
      OBVIOUS
    <3> QED
      BY <3>1, <3>2, <3>3 DEF ToSet
  <2>4. Wanted' = Wanted
    BY <1>1, SameData
  <2>5. r \in left /\ left' = left \ {r} /\ ~over /\ over' = over
    BY <1>1, <1>7, <2>1, <2>3, <2>4 DEF left, over
  <2> QED
    BY <2>3, <2>5 DEF IScan!Return
<1> QED
    BY <1>8, <1>9

\* When nothing waits to be visited, everything has been found.
LEMMA EndFinishes == ASSUME IInv, End PROVE IScan!Finish
<1>1. /\ data' = data /\ query' = query /\ found' = found /\ st = "search" /\ st' = "done"
      /\ todo = <<>>
    BY DEF End
<1>2. Wanted \subseteq ToSet(found)
  <2>1. NoneMissed
    BY DEF IInv
  <2>2. DOMAIN todo = {}
    BY <1>1
  <2> QED
    BY <1>1, <2>1, <2>2, MissedIs
<1>3. left = {}
    BY <1>2 DEF left
<1>4. Wanted' = Wanted
    BY <1>1, SameData
<1> QED
    BY <1>1, <1>3, <1>4 DEF IScan!Finish, left, over

\* A scan fails when there is nothing to be found.
LEMMA FailureFinishes == ASSUME IInv, BeginFailed PROVE IScan!Finish
<1>1. /\ data' = data /\ query' = query /\ found' = found /\ st = "built" /\ st' = "failed"
      /\ Contradict(query.cons, query.args)
    BY DEF BeginFailed
<1>2. Given
    BY DEF IInv
<1>3. left = {}
    BY <1>1, <1>2, ContradictNone DEF left
<1>4. Wanted' = Wanted
    BY <1>1, SameData
<1> QED
    BY <1>1, <1>3, <1>4 DEF IScan!Finish, left, over

\* Without NULLs a query of the index returns what the WHERE clause selects, every row
\* once, and ends only when it has returned all of them.
THEOREM QueriesAreIndexScans ==
    ASSUME WithoutNulls
    PROVE  Spec => ImplementsIndexScan
<1>1. ASSUME Init PROVE IScan!Init
  <2>1. Given
    BY <1>1 DEF Init, Given
  <2>2. Wanted \subseteq Nat
    BY <2>1, WantedPasses
  <2>3. ToSet(found) = {}
    BY <1>1 DEF Init, ToSet
  <2>4. left \in SUBSET Nat
    BY <2>2 DEF left
  <2>5. over = FALSE
    <3>1. st = "new"
      BY <1>1 DEF Init
    <3> QED
      BY <3>1 DEF over
  <2> QED
    BY <2>3, <2>4, <2>5 DEF IScan!Init
<1>2. ASSUME IInv, [Next]_vars PROVE [IScan!Next]_<<left, ToSet(found), over>>
  <2>1. CASE Build
    BY <2>1, NoScanStep DEF Build
  <2>2. CASE Kdtreerec
    BY <2>2, NoScanStep DEF Kdtreerec
  <2>3. CASE Built
    BY <2>3, NoScanStep DEF Built
  <2>4. CASE Begin
    BY <2>4, NoScanStep DEF Begin
  <2>5. CASE BeginFailed
    BY <1>2, <2>5, FailureFinishes DEF IScan!Next
  <2>6. CASE VisitLeaf
    BY <1>2, <2>6, VisitLeafReturns DEF IScan!Next
  <2>7. CASE VisitInner
    BY <2>7, NoScanStep DEF VisitInner
  <2>8. CASE End
    BY <1>2, <2>8, EndFinishes DEF IScan!Next
  <2>9. CASE UNCHANGED vars
    BY <2>9, NoScanStep DEF vars
  <2> QED
    BY <1>2, <2>1, <2>2, <2>3, <2>4, <2>5, <2>6, <2>7, <2>8, <2>9 DEF Next
<1> QED
    BY <1>1, <1>2, Invariance, PTL DEF Spec, ImplementsIndexScan
=============================================================================
