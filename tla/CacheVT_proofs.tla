----------------------------- MODULE CacheVT_proofs -----------------------------
(***************************************************************************)
(* For all tables, queries and numbers of cursors: an index that was       *)
(* calculated to its end is that of its plan, a scan that is not           *)
(* interrupted fails only when there is nothing to return, and every scan  *)
(* whose list was not sorted while it was reading returns the rows asked   *)
(* for, once and in the order asked for.                                   *)
(***************************************************************************)
EXTENDS CacheVT, FiniteSetTheorems, FunctionTheorems, SequenceTheorems, TLAPS

-----------------------------------------------------------------------------
(* Finite sets *)

\* A finite nonempty set of integers has a largest element.
LEMMA MaxOf ==
    ASSUME NEW S \in SUBSET Int, IsFiniteSet(S), S # {}
    PROVE  Max(S) \in S /\ \A x \in S : x <= Max(S)
<1>. DEFINE Above(x) == {y \in S : y > x}
            F == {Above(x) : x \in S}
<1>1. F \subseteq SUBSET S /\ F # {}
    OBVIOUS
<1>2. IsWellFoundedOn(StrictSubsetOrdering(S), FiniteSubsetsOf(S))
    BY FS_StrictSubsetOrderingWellFounded
<1>3. F \subseteq FiniteSubsetsOf(S)
    BY <1>1, FS_FiniteSubsetsOfFinite
<1>. HIDE DEF F
<1>4. PICK A \in F : \A B \in F : ~(<<B, A>> \in StrictSubsetOrdering(S))
    BY <1>1, <1>2, <1>3, WFMin
<1>5. PICK m \in S : A = Above(m)
    BY <1>4 DEF F
<1>6. \A x \in S : x <= m
  <2> SUFFICES ASSUME NEW x \in S, x > m PROVE FALSE
    OBVIOUS
  <2>1. Above(x) \in F /\ Above(x) \in SUBSET S /\ A \in SUBSET S
    BY <1>5 DEF F
  <2>2. x \in A /\ x \notin Above(x)
    BY <1>5
  <2>3. Above(x) \subseteq A
    <3>1. x \in Int /\ m \in Int /\ \A y \in S : y \in Int
      OBVIOUS
    <3>2. \A y \in S : y > x => y > m
      BY <3>1
    <3> QED
      BY <1>5, <3>2
  <2> QED
    BY <1>4, <2>1, <2>2, <2>3 DEF StrictSubsetOrdering
<1> QED
    BY <1>5, <1>6 DEF Max

\* ... and a smallest one.
LEMMA MinOf ==
    ASSUME NEW S \in SUBSET Int, IsFiniteSet(S), S # {}
    PROVE  Min(S) \in S /\ \A x \in S : Min(S) <= x
<1>. DEFINE Below(x) == {y \in S : y < x}
            F == {Below(x) : x \in S}
<1>1. F \subseteq SUBSET S /\ F # {}
    OBVIOUS
<1>2. IsWellFoundedOn(StrictSubsetOrdering(S), FiniteSubsetsOf(S))
    BY FS_StrictSubsetOrderingWellFounded
<1>3. F \subseteq FiniteSubsetsOf(S)
    BY <1>1, FS_FiniteSubsetsOfFinite
<1>. HIDE DEF F
<1>4. PICK A \in F : \A B \in F : ~(<<B, A>> \in StrictSubsetOrdering(S))
    BY <1>1, <1>2, <1>3, WFMin
<1>5. PICK m \in S : A = Below(m)
    BY <1>4 DEF F
<1>6. \A x \in S : m <= x
  <2> SUFFICES ASSUME NEW x \in S, x < m PROVE FALSE
    OBVIOUS
  <2>1. Below(x) \in F /\ Below(x) \in SUBSET S /\ A \in SUBSET S
    BY <1>5 DEF F
  <2>2. x \in A /\ x \notin Below(x)
    BY <1>5
  <2>3. Below(x) \subseteq A
    <3>1. x \in Int /\ m \in Int /\ \A y \in S : y \in Int
      OBVIOUS
    <3>2. \A y \in S : y < x => y < m
      BY <3>1
    <3> QED
      BY <1>5, <3>2
  <2> QED
    BY <1>4, <2>1, <2>2, <2>3 DEF StrictSubsetOrdering
<1> QED
    BY <1>5, <1>6 DEF Min

\* The values of a function on a finite set are finitely many.
LEMMA FiniteValues ==
    ASSUME NEW S, IsFiniteSet(S), NEW T, NEW f \in [S -> T]
    PROVE  IsFiniteSet({f[x] : x \in S})
<1>. DEFINE U == {f[x] : x \in S}
<1>1. f \in Surjection(S, U)
    BY DEF Surjection
<1>. HIDE DEF U
<1>2. IsFiniteSet(U)
    BY <1>1, FS_Surjection
<1> QED
    BY <1>2 DEF U

\* R is a strict order of the elements of D in which any two are related.
TotalOrder(R, D) ==
    /\ R \subseteq D \X D
    /\ \A i, j \in D : i # j => <<i, j>> \in R \/ <<j, i>> \in R
    /\ \A i \in D : <<i, i>> \notin R
    /\ \A i, j, k \in D : <<i, j>> \in R /\ <<j, k>> \in R => <<i, k>> \in R

\* How many come before j, counted from 1.
RankIn(R, D, j) == Cardinality({i \in D : <<i, j>> \in R}) + 1

\* Ranks are in the order of R, and every number is the rank of one element.
Ranked(R, D) ==
    /\ Cardinality(D) \in Nat
    /\ \A j \in D : RankIn(R, D, j) \in 1..Cardinality(D)
    /\ \A i, j \in D : <<i, j>> \in R <=> RankIn(R, D, i) < RankIn(R, D, j)
    /\ \A i, j \in D : RankIn(R, D, i) = RankIn(R, D, j) => i = j
    /\ \A k \in 1..Cardinality(D) : \E j \in D : RankIn(R, D, j) = k

\* It is so for every total order of a finite set.
LEMMA Ranks ==
    ASSUME NEW D, IsFiniteSet(D), NEW R, TotalOrder(R, D)
    PROVE  Ranked(R, D)
<1>. DEFINE Below(j) == {i \in D : <<i, j>> \in R}
            rank == [j \in D |-> RankIn(R, D, j)]
<1>1. PICK n \in Nat : Cardinality(D) = n
    BY FS_CardinalityType
<1>2. ASSUME NEW j \in D
      PROVE  /\ IsFiniteSet(Below(j)) /\ Cardinality(Below(j)) \in Nat
             /\ RankIn(R, D, j) = Cardinality(Below(j)) + 1
             /\ RankIn(R, D, j) \in 1..n
  <2>1. Below(j) \in SUBSET D /\ j \notin Below(j)
    BY DEF TotalOrder
  <2>2. RankIn(R, D, j) = Cardinality(Below(j)) + 1
    BY DEF RankIn
  <2>. HIDE DEF Below
  <2>3. IsFiniteSet(Below(j)) /\ Cardinality(Below(j)) <= n /\ Cardinality(Below(j)) # n
    BY <1>1, <2>1, FS_Subset
  <2>4. Cardinality(Below(j)) \in Nat
    BY <2>3, FS_CardinalityType
  <2> QED
    BY <2>2, <2>3, <2>4
<1>3. ASSUME NEW i \in D, NEW j \in D, <<i, j>> \in R
      PROVE  RankIn(R, D, i) < RankIn(R, D, j)
  <2>1. Below(i) \in SUBSET Below(j)
    BY <1>3 DEF TotalOrder
  <2>2. i \in Below(j) /\ i \notin Below(i)
    BY <1>3 DEF TotalOrder
  <2>3. /\ IsFiniteSet(Below(i)) /\ Cardinality(Below(i)) \in Nat
        /\ IsFiniteSet(Below(j)) /\ Cardinality(Below(j)) \in Nat
        /\ RankIn(R, D, i) = Cardinality(Below(i)) + 1
        /\ RankIn(R, D, j) = Cardinality(Below(j)) + 1
    BY <1>2
  <2>. HIDE DEF Below
  <2>4. Cardinality(Below(i)) <= Cardinality(Below(j)) /\ Cardinality(Below(i)) # Cardinality(Below(j))
    BY <2>1, <2>2, <2>3, FS_Subset
  <2> QED
    BY <2>3, <2>4
<1>4. \A j \in D : RankIn(R, D, j) \in 1..n
    BY <1>2
<1>5. ASSUME NEW i \in D, NEW j \in D
      PROVE  /\ <<i, j>> \in R <=> RankIn(R, D, i) < RankIn(R, D, j)
             /\ RankIn(R, D, i) = RankIn(R, D, j) => i = j
  <2>1. RankIn(R, D, i) \in Nat /\ RankIn(R, D, j) \in Nat
    BY <1>4
  <2>2. <<i, j>> \in R \/ i = j \/ <<j, i>> \in R
    BY DEF TotalOrder
  <2> QED
    BY <1>3, <2>1, <2>2
<1>6. rank \in Injection(D, 1..n)
  <2>1. rank \in [D -> 1..n]
    BY <1>4
  <2>2. ASSUME NEW i \in D, NEW j \in D, rank[i] = rank[j]
        PROVE  i = j
    BY <1>5, <2>2
  <2>. HIDE DEF rank
  <2> QED
    BY <2>1, <2>2, Fun_IsInj
<1>7. rank \in Surjection(D, 1..n)
  <2>1. IsFiniteSet(1..n) /\ Cardinality(1..n) = n
    BY FS_Interval
  <2>. HIDE DEF rank
  <2> QED
    BY <1>1, <1>6, <2>1, FS_Injection
<1>8. \A k \in 1..n : \E j \in D : rank[j] = k
  <2>. HIDE DEF rank
  <2> QED
    BY <1>7 DEF Surjection
<1> QED
    BY <1>1, <1>4, <1>5, <1>8 DEF Ranked

\* A sequence of as many different rows as there are has all of them.
LEMMA Covering ==
    ASSUME NEW n \in Nat, NEW S, IsFiniteSet(S), Cardinality(S) = n,
           NEW s \in [1..n -> S], IsInjective(s)
    PROVE  ToSet(s) = S
<1>1. IsFiniteSet(1..n) /\ Cardinality(1..n) = n
    BY FS_Interval
<1>2. s \in Injection(1..n, S)
  <2>1. \A i, j \in 1..n : s[i] = s[j] => i = j
    BY DEF IsInjective
  <2> QED
    BY <2>1, Fun_IsInj
<1>3. s \in Surjection(1..n, S)
    BY <1>1, <1>2, FS_Injection
<1> QED
    BY <1>3 DEF Surjection, ToSet

-----------------------------------------------------------------------------
(* Places *)

\* Every place is taken by one element, and the places are in the order of the numbers.
LEMMA Places ==
    ASSUME NEW I \in SUBSET Nat, IsFiniteSet(I)
    PROVE  /\ Cardinality(I) \in Nat
           /\ \A i \in I : Place(I, i) \in 1..Cardinality(I)
           /\ \A i, j \in I : i < j <=> Place(I, i) < Place(I, j)
           /\ \A i, j \in I : Place(I, i) = Place(I, j) => i = j
           /\ \A k \in 1..Cardinality(I) : \E i \in I : Place(I, i) = k
<1>. DEFINE R == {p \in I \X I : p[1] < p[2]}
<1>1. \A i, j \in I : <<i, j>> \in R <=> i < j
    OBVIOUS
<1>2. R \subseteq I \X I
    OBVIOUS
<1>. HIDE DEF R
<1>3. TotalOrder(R, I)
    BY <1>1, <1>2 DEF TotalOrder
<1>4. \A i \in I : Place(I, i) = RankIn(R, I, i)
  <2>1. ASSUME NEW i \in I PROVE {j \in I : j < i} = {j \in I : <<j, i>> \in R}
    BY <1>1
  <2> QED
    BY <2>1 DEF Place, RankIn
<1>5. Ranked(R, I)
  <2>1. IsFiniteSet(I)
    OBVIOUS
  <2> QED
    BY <1>3, <2>1, Ranks
<1>6. /\ Cardinality(I) \in Nat
      /\ \A i \in I : Place(I, i) \in 1..Cardinality(I)
    BY <1>4, <1>5 DEF Ranked
<1>7. \A i, j \in I : i < j <=> Place(I, i) < Place(I, j)
  <2>1. ASSUME NEW i \in I, NEW j \in I
        PROVE  i < j <=> Place(I, i) < Place(I, j)
    <3>1. <<i, j>> \in R <=> RankIn(R, I, i) < RankIn(R, I, j)
      BY <1>5 DEF Ranked
    <3> QED
      BY <1>1, <1>4, <3>1
  <2> QED
    BY <2>1
<1>8. \A i, j \in I : Place(I, i) = Place(I, j) => i = j
    BY <1>4, <1>5 DEF Ranked
<1>9. \A k \in 1..Cardinality(I) : \E i \in I : Place(I, i) = k
    BY <1>4, <1>5 DEF Ranked
<1> QED
    BY <1>6, <1>7, <1>8, <1>9

\* Which number has place k.
Holder(I, k) == CHOOSE i \in I : Place(I, i) = k

\* At(s, I) has the elements of s at the places in I, in their order.
InPlace(S, s, I) ==
    /\ IsFiniteSet(I) /\ Cardinality(I) \in Nat
    /\ At(s, I) \in Seq(S) /\ Len(At(s, I)) = Cardinality(I)
    /\ DOMAIN At(s, I) = 1..Cardinality(I)
    /\ \A i \in I : /\ Place(I, i) \in 1..Cardinality(I) /\ At(s, I)[Place(I, i)] = s[i]
                     /\ Holder(I, Place(I, i)) = i
    /\ \A k \in 1..Cardinality(I) : /\ Holder(I, k) \in I /\ Place(I, Holder(I, k)) = k
                                     /\ At(s, I)[k] = s[Holder(I, k)]
    /\ \A k, l \in 1..Cardinality(I) : k < l => Holder(I, k) < Holder(I, l)

\* It does so for every sequence and every set of places in it.
LEMMA AtIs ==
    ASSUME NEW S, NEW s \in Seq(S), NEW I \in SUBSET (1..Len(s))
    PROVE  InPlace(S, s, I)
<1>1. IsFiniteSet(I) /\ I \in SUBSET Nat
  <2>1. Len(s) \in Nat
    OBVIOUS
  <2>2. IsFiniteSet(1..Len(s))
    BY <2>1, FS_Interval
  <2>3. IsFiniteSet(I)
    BY <2>2, FS_Subset
  <2> QED
    BY <2>3
<1>2. /\ Cardinality(I) \in Nat
      /\ \A i \in I : Place(I, i) \in 1..Cardinality(I)
      /\ \A i, j \in I : i < j <=> Place(I, i) < Place(I, j)
      /\ \A i, j \in I : Place(I, i) = Place(I, j) => i = j
      /\ \A k \in 1..Cardinality(I) : \E i \in I : Place(I, i) = k
    BY <1>1, Places
<1>3. ASSUME NEW k \in 1..Cardinality(I)
      PROVE  Holder(I, k) \in I /\ Place(I, Holder(I, k)) = k
    BY <1>2 DEF Holder
<1>4. At(s, I) = [k \in 1..Cardinality(I) |-> s[Holder(I, k)]]
    BY DEF At, Holder
<1>5. /\ DOMAIN At(s, I) = 1..Cardinality(I)
      /\ \A k \in 1..Cardinality(I) : At(s, I)[k] = s[Holder(I, k)]
    BY <1>4
<1>6. At(s, I) \in Seq(S) /\ Len(At(s, I)) = Cardinality(I)
  <2>1. \A k \in 1..Cardinality(I) : s[Holder(I, k)] \in S
    BY <1>3, ElementOfSeq
  <2>2. At(s, I) \in [1..Cardinality(I) -> S]
    BY <1>4, <2>1
  <2> QED
    BY <1>2, <2>2
<1>7. ASSUME NEW i \in I
      PROVE  /\ Place(I, i) \in 1..Cardinality(I) /\ At(s, I)[Place(I, i)] = s[i]
             /\ Holder(I, Place(I, i)) = i
  <2>1. Place(I, i) \in 1..Cardinality(I)
    BY <1>2
  <2>2. Holder(I, Place(I, i)) \in I /\ Place(I, Holder(I, Place(I, i))) = Place(I, i)
    BY <1>3, <2>1
  <2>3. Holder(I, Place(I, i)) = i
    BY <1>2, <2>2
  <2> QED
    BY <1>5, <2>1, <2>3
<1>8. ASSUME NEW k \in 1..Cardinality(I), NEW l \in 1..Cardinality(I), k < l
      PROVE  Holder(I, k) < Holder(I, l)
  <2>1. /\ Holder(I, k) \in I /\ Holder(I, l) \in I
        /\ Place(I, Holder(I, k)) = k /\ Place(I, Holder(I, l)) = l
    BY <1>3
  <2> QED
    BY <1>2, <1>8, <2>1
<1> QED
    BY <1>1, <1>2, <1>3, <1>5, <1>6, <1>7, <1>8 DEF InPlace

-----------------------------------------------------------------------------
(* The ranges of the constraints *)

\* A value that satisfies a constraint is in its range; only NULLs are in it without
\* satisfying it.
LEMMA RangeOfHolds ==
    ASSUME NEW op \in Ops, NEW v \in 0..MaxValue, NEW w \in 0..MaxValue
    PROVE  /\ RangeOf(op, w).lo \in Int /\ RangeOf(op, w).hi \in Int
           /\ INFNEG \in Int /\ INFPOS \in Int /\ INFNEG <= Left(v) /\ Left(v) < INFPOS
           /\ Holds(op, v, w) => Within(v, RangeOf(op, w))
           /\ v # Null /\ w # Null /\ Within(v, RangeOf(op, w)) => Holds(op, v, w)
<1>0. v \in Nat /\ w \in Nat /\ MaxValue \in Nat /\ v <= MaxValue /\ w <= MaxValue
    BY ValuesOK
<1>1. CASE op = "EQ"
    BY <1>0, <1>1 DEF RangeOf, Holds, Within, Left, Right, INFNEG, INFPOS
<1>2. CASE op = "GT"
    BY <1>0, <1>2 DEF RangeOf, Holds, Within, Left, Right, INFNEG, INFPOS
<1>3. CASE op = "LE"
    BY <1>0, <1>3 DEF RangeOf, Holds, Within, Left, Right, INFNEG, INFPOS
<1>4. CASE op = "LT"
    BY <1>0, <1>4 DEF RangeOf, Holds, Within, Left, Right, INFNEG, INFPOS
<1>5. CASE op = "GE"
    BY <1>0, <1>5 DEF RangeOf, Holds, Within, Left, Right, INFNEG, INFPOS
<1> QED
    BY <1>1, <1>2, <1>3, <1>4, <1>5 DEF Ops

\* What the constraints and their values are.
Constraints(cons, args) ==
    /\ Len(cons) \in Nat /\ DOMAIN cons = 1..Len(cons)
    /\ \A i \in DOMAIN cons : cons[i].op \in Ops /\ args[i] \in 0..MaxValue

\* A value is between the combined bounds of a column when it is in the range of
\* each of its constraints.
LEMMA CombinedIs ==
    ASSUME NEW cons, NEW args, Constraints(cons, args), NEW col
    PROVE  /\ Combined(cons, args, col).lo \in Int /\ Combined(cons, args, col).hi \in Int
           /\ \A v \in 0..MaxValue :
                 Within(v, Combined(cons, args, col)) <=>
                 \A i \in DOMAIN cons :
                     cons[i].col = col => Within(v, RangeOf(cons[i].op, args[i]))
<1>. DEFINE On == {j \in DOMAIN cons : cons[j].col = col}
            R(i) == RangeOf(cons[i].op, args[i])
            los == {R(i).lo : i \in On}
            his == {R(i).hi : i \in On}
            Lo == {INFNEG} \cup los
            Hi == {INFPOS} \cup his
<1>1. \A i \in DOMAIN cons : cons[i].op \in Ops /\ args[i] \in 0..MaxValue
    BY DEF Constraints
<1>2. INFNEG \in Int /\ INFPOS \in Int
    BY ValuesOK DEF INFNEG, INFPOS, Right
<1>3. \A i \in On : R(i).lo \in Int /\ R(i).hi \in Int
    BY <1>1, RangeOfHolds
<1>4. IsFiniteSet(On)
  <2>1. Len(cons) \in Nat /\ DOMAIN cons = 1..Len(cons)
    BY DEF Constraints
  <2>2. IsFiniteSet(1..Len(cons))
    BY <2>1, FS_Interval
  <2>3. On \subseteq 1..Len(cons)
    BY <2>1
  <2> QED
    BY <2>2, <2>3, FS_Subset
<1>5. IsFiniteSet(los) /\ los \in SUBSET Int
  <2>. DEFINE f == [i \in On |-> R(i).lo]
  <2>1. f \in [On -> Int] /\ los = {f[x] : x \in On}
    BY <1>3
  <2>. HIDE DEF f, On, los
  <2>2. IsFiniteSet({f[x] : x \in On})
    BY <1>4, <2>1, FiniteValues
  <2> QED
    BY <2>1, <2>2
<1>6. IsFiniteSet(his) /\ his \in SUBSET Int
  <2>. DEFINE f == [i \in On |-> R(i).hi]
  <2>1. f \in [On -> Int] /\ his = {f[x] : x \in On}
    BY <1>3
  <2>. HIDE DEF f, On, his
  <2>2. IsFiniteSet({f[x] : x \in On})
    BY <1>4, <2>1, FiniteValues
  <2> QED
    BY <2>1, <2>2
<1>7. Max(Lo) \in Lo /\ \A x \in Lo : x <= Max(Lo)
  <2>1. IsFiniteSet({INFNEG}) /\ IsFiniteSet(Lo) /\ Lo \in SUBSET Int /\ Lo # {}
    <3>. HIDE DEF los
    <3> QED
      BY <1>2, <1>5, FS_Singleton, FS_Union
  <2>. HIDE DEF Lo
  <2> QED
    BY <2>1, MaxOf
<1>8. Min(Hi) \in Hi /\ \A x \in Hi : Min(Hi) <= x
  <2>1. IsFiniteSet({INFPOS}) /\ IsFiniteSet(Hi) /\ Hi \in SUBSET Int /\ Hi # {}
    <3>. HIDE DEF his
    <3> QED
      BY <1>2, <1>6, FS_Singleton, FS_Union
  <2>. HIDE DEF Hi
  <2> QED
    BY <2>1, MinOf
<1>9. Combined(cons, args, col) = [lo |-> Max(Lo), hi |-> Min(Hi)]
  <2>1. {r.lo : r \in RangesOn(cons, args, col)} = los
    BY DEF RangesOn
  <2>2. {r.hi : r \in RangesOn(cons, args, col)} = his
    BY DEF RangesOn
  <2>. HIDE DEF los, his
  <2> QED
    BY <2>1, <2>2 DEF Combined
<1>10. Max(Lo) \in Int /\ Min(Hi) \in Int
    BY <1>2, <1>5, <1>6, <1>7, <1>8
<1>11. ASSUME NEW v \in 0..MaxValue
       PROVE  Within(v, Combined(cons, args, col)) <=>
              \A i \in DOMAIN cons : cons[i].col = col => Within(v, R(i))
  <2>1. INFNEG <= Left(v) /\ Left(v) < INFPOS /\ Left(v) \in Int
    BY ValuesOK DEF INFNEG, INFPOS, Left, Right
  <2>2. Within(v, Combined(cons, args, col)) <=> Max(Lo) <= Left(v) /\ Left(v) < Min(Hi)
    <3>. HIDE DEF Lo, Hi
    <3> QED
      BY <1>9 DEF Within
  <2>3. ASSUME Max(Lo) <= Left(v), Left(v) < Min(Hi), NEW i \in On
        PROVE  Within(v, R(i))
    <3>1. R(i).lo \in Lo /\ R(i).hi \in Hi /\ R(i).lo \in Int /\ R(i).hi \in Int
      BY <1>3
    <3>2. R(i).lo <= Max(Lo) /\ Min(Hi) <= R(i).hi
      BY <1>7, <1>8, <3>1
    <3>. HIDE DEF Lo, Hi, R
    <3> QED
      BY <1>10, <2>1, <2>3, <3>1, <3>2 DEF Within
  <2>4. ASSUME \A i \in On : Within(v, R(i))
        PROVE  Max(Lo) <= Left(v) /\ Left(v) < Min(Hi)
    <3>1. \A i \in On : R(i).lo <= Left(v) /\ Left(v) < R(i).hi
      BY <2>4 DEF Within
    <3>2. \A x \in Lo : x <= Left(v)
      BY <2>1, <3>1
    <3>3. \A x \in Hi : Left(v) < x
      BY <2>1, <3>1
    <3>. HIDE DEF Lo, Hi
    <3> QED
      BY <1>7, <1>8, <3>2, <3>3
  <2>5. (\A i \in DOMAIN cons : cons[i].col = col => Within(v, R(i)))
           <=> \A i \in On : Within(v, R(i))
    OBVIOUS
  <2>. HIDE DEF Lo, Hi, On, R
  <2> QED
    BY <2>2, <2>3, <2>4, <2>5
<1>. HIDE DEF Lo, Hi
<1> QED
    BY <1>9, <1>10, <1>11

-----------------------------------------------------------------------------
(* Rows, queries and their arguments *)

N == Len(Rows)

\* Rows are numbered from 1 and have values in the columns queries name.
LEMMA RowsAre ==
    /\ N \in Nat \ {0} /\ RowNumbers = 1..N
    /\ IsFiniteSet(RowNumbers) /\ Cardinality(RowNumbers) = N
    /\ \A r \in RowNumbers : \A c \in DOMAIN Rows[1] :
          /\ Rows[r][c] \in 0..MaxValue /\ c \in DOMAIN Rows[r]
          /\ Rows[r][c] \in Nat
<1>1. N \in Nat \ {0} /\ RowNumbers = 1..N
    BY RowsOK DEF N, RowNumbers
<1>2. IsFiniteSet(1..N) /\ Cardinality(1..N) = N
    BY <1>1, FS_Interval
<1>3. ASSUME NEW r \in RowNumbers, NEW c \in DOMAIN Rows[1]
      PROVE  /\ Rows[r][c] \in 0..MaxValue /\ c \in DOMAIN Rows[r]
             /\ Rows[r][c] \in Nat
  <2>. DEFINE T == Seq(0..MaxValue)
  <2>1. Rows \in Seq(T) /\ r \in 1..Len(Rows) /\ 1 \in 1..Len(Rows)
    BY <1>1, RowsOK DEF N
  <2>2. Rows[r] \in T /\ Rows[1] \in T
    <3>. HIDE DEF T
    <3> QED
      BY <2>1, ElementOfSeq
  <2>3. Len(Rows[r]) = Len(Rows[1])
    BY <1>3, RowsOK DEF RowNumbers
  <2>4. c \in 1..Len(Rows[r])
    BY <2>2, <2>3
  <2>5. Rows[r][c] \in 0..MaxValue
    BY <2>2, <2>4, ElementOfSeq
  <2>6. MaxValue \in Nat
    BY ValuesOK
  <2> QED
    BY <2>2, <2>4, <2>5, <2>6
<1> QED
    BY <1>1, <1>2, <1>3

\* The rows that satisfy the terms of q with the values of those that are taken.
Wanted(q, values) ==
    {r \in RowNumbers : \A i \in DOMAIN values :
        Holds(q.terms[i].op, Rows[r][q.terms[i].col], values[i])}

TermRec == [col : DOMAIN Rows[1], op : Ops \cup {"MATCH"}, usable : BOOLEAN]

\* A query has terms of their type, and takes those that are no MATCH.
LEMMA TermsAre ==
    ASSUME NEW q \in Queries
    PROVE  /\ q.terms \in Seq(TermRec) /\ TakenIn(q) \in SUBSET (1..Len(q.terms))
           /\ \A i \in TakenIn(q) : /\ Taken(q.terms[i]) /\ i \in DOMAIN q.terms
                                    /\ q.terms[i].col \in DOMAIN Rows[1] /\ q.terms[i].op \in Ops
<1>1. q.terms \in Seq(TermRec)
    BY QueriesOK DEF TermRec
<1>2. DOMAIN q.terms = 1..Len(q.terms)
    BY <1>1
<1>3. ASSUME NEW i \in TakenIn(q)
      PROVE  /\ Taken(q.terms[i]) /\ i \in DOMAIN q.terms
             /\ q.terms[i].col \in DOMAIN Rows[1] /\ q.terms[i].op \in Ops
  <2>1. Taken(q.terms[i]) /\ i \in DOMAIN q.terms
    BY DEF TakenIn
  <2>2. q.terms[i] \in TermRec
    BY <1>1, <1>2, <2>1, ElementOfSeq
  <2> QED
    BY <2>1, <2>2 DEF TermRec, Taken
<1> QED
    BY <1>1, <1>2, <1>3 DEF TakenIn

\* The constraints of a plan, with their arguments, are the terms of the query that were
\* taken, with their values.
LEMMA ArgumentsAre ==
    ASSUME NEW q \in Queries, NEW values \in Args[q]
    PROVE  LET p == BestIndex(q)  args == Argv(q, values) IN
           /\ Constraints(p.cons, args)
           /\ \A k \in DOMAIN p.cons : p.cons[k].col \in DOMAIN Rows[1]
           /\ \A k \in DOMAIN p.cons : \E i \in DOMAIN values :
                 p.cons[k].col = q.terms[i].col /\ p.cons[k].op = q.terms[i].op /\ args[k] = values[i]
           /\ \A i \in DOMAIN values : \E k \in DOMAIN p.cons :
                 p.cons[k].col = q.terms[i].col /\ p.cons[k].op = q.terms[i].op /\ args[k] = values[i]
<1>. DEFINE I == TakenIn(q)
            cons == At(q.terms, I)
            args == Argv(q, values)
            m == Cardinality(I)
<1>1. /\ q.terms \in Seq(TermRec) /\ I \in SUBSET (1..Len(q.terms))
      /\ \A i \in I : /\ Taken(q.terms[i]) /\ i \in DOMAIN q.terms
                      /\ q.terms[i].col \in DOMAIN Rows[1] /\ q.terms[i].op \in Ops
    BY TermsAre
<1>2. /\ m \in Nat /\ Len(cons) = m /\ DOMAIN cons = 1..m
      /\ \A i \in I : /\ Place(I, i) \in 1..m /\ cons[Place(I, i)] = q.terms[i]
                      /\ Holder(I, Place(I, i)) = i
      /\ \A k \in 1..m : Holder(I, k) \in I /\ cons[k] = q.terms[Holder(I, k)]
  <2>1. InPlace(TermRec, q.terms, I)
    <3>. HIDE DEF I
    <3> QED
      BY <1>1, AtIs
  <2>. HIDE DEF I
  <2> QED
    BY <2>1 DEF InPlace
<1>3. BestIndex(q).cons = cons
    BY DEF BestIndex
<1>4. DOMAIN values = I /\ \A i \in I : values[i] \in 0..MaxValue
    BY ArgsOK
<1>5. \A i \in I : ArgvIndex[q][i] = Place(I, i)
    BY <1>1 DEF ArgvIndex
<1>. DEFINE Term(k) == CHOOSE i \in DOMAIN values : ArgvIndex[q][i] = k
<1>6. ASSUME NEW k PROVE Term(k) = Holder(I, k)
  <2>. HIDE DEF I
  <2>1. \A i : i \in DOMAIN values /\ ArgvIndex[q][i] = k <=> i \in I /\ Place(I, i) = k
    BY <1>4, <1>5
  <2> QED
    BY <2>1 DEF Holder
<1>7. args = [k \in DOMAIN BestIndex(q).cons |-> values[Term(k)]]
    BY DEF Argv, consdict
<1>. HIDE DEF I, m, cons, args, Term
<1>8. ASSUME NEW k \in 1..m
      PROVE  /\ Holder(I, k) \in I /\ args[k] = values[Holder(I, k)]
             /\ cons[k] = q.terms[Holder(I, k)] /\ cons[k].op \in Ops
             /\ cons[k].col \in DOMAIN Rows[1] /\ args[k] \in 0..MaxValue
  <2>1. args[k] = values[Term(k)]
    BY <1>2, <1>3, <1>7
  <2>2. Holder(I, k) \in I /\ cons[k] = q.terms[Holder(I, k)]
    BY <1>2
  <2> QED
    BY <1>1, <1>4, <1>6, <2>1, <2>2
<1>9. ASSUME NEW i \in I PROVE args[Place(I, i)] = values[i]
    BY <1>2, <1>8
<1>10. Constraints(cons, args)
    BY <1>2, <1>8 DEF Constraints
<1>11. \A k \in DOMAIN cons : cons[k].col \in DOMAIN Rows[1]
    BY <1>2, <1>8
<1>12. \A k \in DOMAIN cons : \E i \in DOMAIN values :
           cons[k].col = q.terms[i].col /\ cons[k].op = q.terms[i].op /\ args[k] = values[i]
    BY <1>2, <1>4, <1>8
<1>13. \A i \in DOMAIN values : \E k \in DOMAIN cons :
           cons[k].col = q.terms[i].col /\ cons[k].op = q.terms[i].op /\ args[k] = values[i]
    BY <1>2, <1>4, <1>9
<1> QED
    BY <1>3, <1>10, <1>11, <1>12, <1>13 DEF args

\* The rows of which the terms compare a NULL.
Nulls(q, values) ==
    {r \in RowNumbers : \E i \in DOMAIN values : Null \in {Rows[r][q.terms[i].col], values[i]}}

\* A row that is wanted is in the ranges on every column.
LEMMA WantedWithin ==
    ASSUME NEW q \in Queries, NEW values \in Args[q], NEW r \in Wanted(q, values),
           NEW col \in DOMAIN Rows[1]
    PROVE  Within(Rows[r][col], Combined(BestIndex(q).cons, Argv(q, values), col))
<1>. DEFINE cons == BestIndex(q).cons
            args == Argv(q, values)
<1>1. Constraints(cons, args)
    BY ArgumentsAre
<1>2. ASSUME NEW k \in DOMAIN cons
      PROVE  \E i \in DOMAIN values : /\ cons[k].col = q.terms[i].col
                                      /\ cons[k].op = q.terms[i].op /\ args[k] = values[i]
    BY ArgumentsAre
<1>. HIDE DEF cons, args
<1>3. r \in RowNumbers /\ Rows[r][col] \in 0..MaxValue
    BY RowsAre DEF Wanted
<1>4. ASSUME NEW k \in DOMAIN cons, cons[k].col = col
      PROVE  Within(Rows[r][col], RangeOf(cons[k].op, args[k]))
  <2>1. PICK i \in DOMAIN values : /\ cons[k].col = q.terms[i].col
                                   /\ cons[k].op = q.terms[i].op /\ args[k] = values[i]
    BY <1>2
  <2>2. Holds(q.terms[i].op, Rows[r][q.terms[i].col], values[i])
    BY DEF Wanted
  <2>3. Holds(cons[k].op, Rows[r][col], args[k])
    BY <1>4, <2>1, <2>2
  <2>4. cons[k].op \in Ops /\ args[k] \in 0..MaxValue
    BY <1>1 DEF Constraints
  <2> QED
    BY <1>3, <2>3, <2>4, RangeOfHolds
<1>5. Within(Rows[r][col], Combined(cons, args, col))
    BY <1>1, <1>3, <1>4, CombinedIs
<1> QED
    BY <1>5 DEF cons, args

\* An index on any columns finds what is wanted.
LEMMA FoundHasWanted ==
    ASSUME NEW q \in Queries, NEW values \in Args[q], NEW t, t.cols \subseteq DOMAIN Rows[1]
    PROVE  Wanted(q, values) \subseteq Found(t, BestIndex(q), Argv(q, values))
<1> SUFFICES ASSUME NEW r \in Wanted(q, values)
             PROVE  r \in Found(t, BestIndex(q), Argv(q, values))
    OBVIOUS
<1>1. r \in DOMAIN Rows
    BY DEF Wanted, RowNumbers
<1>2. \A c \in t.cols : Within(Rows[r][c], Combined(BestIndex(q).cons, Argv(q, values), c))
    BY WantedWithin
<1> QED
    BY <1>1, <1>2 DEF Found

\* The index of the query's plan finds nothing else, but for the rows with NULLs.
LEMMA FoundIsWanted ==
    ASSUME NEW q \in Queries, NEW values \in Args[q], NEW t,
           BestIndex(q).cons # <<>>, t.cols = Columns(BestIndex(q)),
           NEW r \in Found(t, BestIndex(q), Argv(q, values)), r \notin Nulls(q, values)
    PROVE  r \in Wanted(q, values)
<1>. DEFINE cons == BestIndex(q).cons
            args == Argv(q, values)
<1>1. Constraints(cons, args)
    BY ArgumentsAre
<1>2. ASSUME NEW i \in DOMAIN values
      PROVE  \E k \in DOMAIN cons : /\ cons[k].col = q.terms[i].col
                                    /\ cons[k].op = q.terms[i].op /\ args[k] = values[i]
    BY ArgumentsAre
<1>3. r \in RowNumbers /\ \A c \in t.cols : Within(Rows[r][c], Combined(cons, args, c))
    BY DEF Found, RowNumbers
<1>4. \A k \in DOMAIN cons : cons[k].col \in t.cols
    BY DEF Columns
<1>5. \A k \in DOMAIN cons : cons[k].col \in DOMAIN Rows[1]
    BY ArgumentsAre
<1>. HIDE DEF cons, args
<1>6. ASSUME NEW i \in DOMAIN values
      PROVE  Holds(q.terms[i].op, Rows[r][q.terms[i].col], values[i])
  <2>1. PICK k \in DOMAIN cons : /\ cons[k].col = q.terms[i].col
                                 /\ cons[k].op = q.terms[i].op /\ args[k] = values[i]
    BY <1>2
  <2>2. PICK col \in DOMAIN Rows[1] : col = cons[k].col
    BY <1>5
  <2>3. Rows[r][col] \in 0..MaxValue /\ Rows[r][col] # Null
    BY <1>3, <2>1, <2>2, RowsAre DEF Nulls
  <2>4. Within(Rows[r][col], RangeOf(cons[k].op, args[k]))
    BY <1>1, <1>3, <1>4, <2>2, <2>3, CombinedIs
  <2>5. cons[k].op \in Ops /\ args[k] \in 0..MaxValue
    BY <1>1 DEF Constraints
  <2>6. args[k] # Null
    BY <1>3, <2>1 DEF Nulls
  <2>7. Holds(cons[k].op, Rows[r][col], args[k])
    BY <2>3, <2>4, <2>5, <2>6, RangeOfHolds
  <2> QED
    BY <2>1, <2>2, <2>7
<1> QED
    BY <1>3, <1>6 DEF Wanted

\* Constraints that exclude each other leave nothing to be wanted.
LEMMA ContradictNone ==
    ASSUME NEW q \in Queries, NEW values \in Args[q],
           Contradict(BestIndex(q).cons, Argv(q, values))
    PROVE  Wanted(q, values) = {}
<1> SUFFICES ASSUME NEW r \in Wanted(q, values) PROVE FALSE
    OBVIOUS
<1>. DEFINE cons == BestIndex(q).cons
            args == Argv(q, values)
<1>1. PICK k \in DOMAIN cons : LET range == Combined(cons, args, cons[k].col) IN range.lo >= range.hi
    BY DEF Contradict
<1>2. PICK col \in DOMAIN Rows[1] : col = cons[k].col
    BY ArgumentsAre
<1>3. Within(Rows[r][col], Combined(cons, args, col))
    BY WantedWithin
<1>4. Constraints(cons, args)
    BY ArgumentsAre
<1>. HIDE DEF cons, args
<1>5. Combined(cons, args, col).lo \in Int /\ Combined(cons, args, col).hi \in Int
    BY <1>4, CombinedIs
<1>6. Rows[r][col] \in Nat
    BY RowsAre DEF Wanted
<1> QED
    BY <1>1, <1>2, <1>3, <1>5, <1>6 DEF Within, Left

\* Nothing is asked of a row when no term was taken.
LEMMA AllWanted ==
    ASSUME NEW q \in Queries, NEW values \in Args[q], BestIndex(q).cons = <<>>
    PROVE  Wanted(q, values) = RowNumbers
<1>1. DOMAIN values = {}
  <2> SUFFICES ASSUME NEW i \in DOMAIN values PROVE FALSE
    OBVIOUS
  <2>1. \E k \in DOMAIN BestIndex(q).cons : BestIndex(q).cons[k].col = q.terms[i].col
    BY ArgumentsAre
  <2> QED
    BY <2>1
<1> QED
    BY <1>1 DEF Wanted

-----------------------------------------------------------------------------
(* Orders *)

\* An order names columns of the table.
OrderOK(order) == order \in Seq([col : DOMAIN Rows[1], desc : BOOLEAN])

\* One of two rows that a column tells apart comes before the other.
Less(order, k, r, s) ==
    IF order[k].desc THEN Rows[r][order[k].col] > Rows[s][order[k].col]
                     ELSE Rows[r][order[k].col] < Rows[s][order[k].col]

\* The rows have the same value in the k-th column of the order.
Same(order, k, r, s) == Rows[r][order[k].col] = Rows[s][order[k].col]

LEMMA PrecedesIs ==
    ASSUME NEW order, NEW r, NEW s
    PROVE  Precedes(r, s, order) <=>
               \E k \in DOMAIN order : Less(order, k, r, s) /\ \A l \in 1..(k - 1) : Same(order, l, r, s)
BY DEF Precedes, Less, Same

\* On one column it is an order of values.
LEMMA LessIs ==
    ASSUME NEW order, OrderOK(order), NEW k \in DOMAIN order,
           NEW r \in RowNumbers, NEW s \in RowNumbers, NEW t \in RowNumbers
    PROVE  /\ Less(order, k, r, s) => ~Less(order, k, s, r) /\ ~Same(order, k, r, s)
           /\ Same(order, k, r, s) \/ Less(order, k, r, s) \/ Less(order, k, s, r)
           /\ Less(order, k, r, t) => Less(order, k, r, s) \/ Less(order, k, s, t)
           /\ Same(order, k, r, s) => (Less(order, k, r, t) <=> Less(order, k, s, t))
           /\ Same(order, k, r, s) => (Less(order, k, t, r) <=> Less(order, k, t, s))
<1>1. order[k].col \in DOMAIN Rows[1]
  <2>. DEFINE T == [col : DOMAIN Rows[1], desc : BOOLEAN]
  <2>1. order \in Seq(T) /\ k \in 1..Len(order)
    BY DEF OrderOK
  <2>2. order[k] \in T
    <3>. HIDE DEF T
    <3> QED
      BY <2>1, ElementOfSeq
  <2> QED
    BY <2>2
<1>2. PICK u \in Nat, v \in Nat, w \in Nat :
          u = Rows[r][order[k].col] /\ v = Rows[s][order[k].col] /\ w = Rows[t][order[k].col]
    BY <1>1, RowsAre
<1> QED
    BY <1>2 DEF Less, Same

\* Of two rows one does not precede the other.
LEMMA PrecedesOneWay ==
    ASSUME NEW order, OrderOK(order), NEW r \in RowNumbers, NEW s \in RowNumbers,
           Precedes(r, s, order)
    PROVE  ~Precedes(s, r, order)
<1> SUFFICES ASSUME Precedes(s, r, order) PROVE FALSE
    OBVIOUS
<1>0. DOMAIN order = 1..Len(order) /\ Len(order) \in Nat
    BY DEF OrderOK
<1>1. PICK k \in 1..Len(order) : Less(order, k, r, s) /\ \A l \in 1..(k - 1) : Same(order, l, r, s)
    BY <1>0, PrecedesIs
<1>2. PICK m \in 1..Len(order) : Less(order, m, s, r) /\ \A l \in 1..(m - 1) : Same(order, l, s, r)
    BY <1>0, PrecedesIs
<1>3. ~Same(order, k, r, s) /\ ~Less(order, k, s, r)
    BY <1>0, <1>1, LessIs
<1>4. ~Same(order, m, s, r)
    BY <1>0, <1>2, LessIs
<1>5. Same(order, k, s, r) => Same(order, k, r, s)
    BY DEF Same
<1>6. Same(order, m, r, s) => Same(order, m, s, r)
    BY DEF Same
<1>7. k < m \/ k = m \/ m < k
    OBVIOUS
<1>8. CASE k < m
    BY <1>2, <1>3, <1>5, <1>8
<1>9. CASE k = m
    BY <1>2, <1>3, <1>9
<1>10. CASE m < k
    BY <1>1, <1>4, <1>6, <1>10
<1> QED
    BY <1>7, <1>8, <1>9, <1>10

\* A row between which and another lies a third comes before it or after it.
LEMMA PrecedesSplits ==
    ASSUME NEW order, OrderOK(order), NEW r \in RowNumbers, NEW s \in RowNumbers,
           NEW t \in RowNumbers, Precedes(r, t, order)
    PROVE  Precedes(r, s, order) \/ Precedes(s, t, order)
<1>0. DOMAIN order = 1..Len(order) /\ Len(order) \in Nat
    BY DEF OrderOK
<1>1. PICK k \in 1..Len(order) : Less(order, k, r, t) /\ \A l \in 1..(k - 1) : Same(order, l, r, t)
    BY <1>0, PrecedesIs
<1>. DEFINE S == {l \in 1..k : ~Same(order, l, r, s)  \/ l = k}
<1>2. IsFiniteSet(S) /\ S \in SUBSET Int /\ S # {}
  <2>1. IsFiniteSet(1..k)
    BY FS_Interval
  <2>2. S \in SUBSET (1..k)
    OBVIOUS
  <2>3. k \in S /\ S \in SUBSET Int
    OBVIOUS
  <2>. HIDE DEF S
  <2>4. IsFiniteSet(S)
    BY <2>1, <2>2, FS_Subset
  <2> QED
    BY <2>3, <2>4
<1>3. PICK m \in S : \A l \in S : m <= l
  <2>. HIDE DEF S
  <2> QED
    BY <1>2, MinOf
<1>4. m \in 1..k /\ m \in 1..Len(order) /\ \A l \in 1..(m - 1) : Same(order, l, r, s)
    BY <1>3
<1>5. \A l \in 1..(m - 1) : Same(order, l, s, t)
  <2>1. \A l \in 1..(m - 1) : Same(order, l, r, t)
    BY <1>1, <1>4
  <2> QED
    BY <1>4, <2>1 DEF Same
<1>6. Less(order, m, r, s) => Precedes(r, s, order)
    BY <1>0, <1>4, PrecedesIs
<1>7. Less(order, m, s, t) => Precedes(s, t, order)
    BY <1>0, <1>4, <1>5, PrecedesIs
<1>8. CASE m = k
  <2>1. Less(order, m, r, t)
    BY <1>1, <1>8
  <2>2. Less(order, m, r, s) \/ Less(order, m, s, t)
    BY <1>0, <1>4, <2>1, LessIs
  <2> QED
    BY <1>6, <1>7, <2>2
<1>9. CASE m # k
  <2>1. ~Same(order, m, r, s) /\ Same(order, m, r, t)
    BY <1>1, <1>3, <1>4, <1>9
  <2>2. Less(order, m, r, s) \/ Less(order, m, s, r)
    BY <1>0, <1>4, <2>1, LessIs
  <2>3. Less(order, m, s, r) <=> Less(order, m, s, t)
    BY <1>0, <1>4, <2>1, LessIs
  <2> QED
    BY <1>6, <1>7, <2>2, <2>3
<1> QED
    BY <1>8, <1>9

-----------------------------------------------------------------------------
(* Lists *)

\* A sequence of all rows, each once.
Whole(s) == s \in Seq(RowNumbers) /\ Len(s) = N /\ IsInjective(s)

LEMMA WholeIs ==
    ASSUME NEW s, Whole(s)
    PROVE  DOMAIN s = 1..N /\ s \in [1..N -> RowNumbers] /\ ToSet(s) = RowNumbers
<1>1. s \in Seq(RowNumbers) /\ Len(s) = N /\ IsInjective(s)
    BY DEF Whole
<1>2. DOMAIN s = 1..N /\ s \in [1..N -> RowNumbers]
    BY <1>1
<1>3. N \in Nat /\ IsFiniteSet(RowNumbers) /\ Cardinality(RowNumbers) = N
    BY RowsAre
<1>4. ToSet(s) = RowNumbers
    BY <1>1, <1>2, <1>3, Covering
<1> QED
    BY <1>2, <1>4

\* Where calculate_indexes puts row i of s before row j.
Before(s, order, i, j) ==
    \/ Precedes(s[i], s[j], order)
    \/ ~Precedes(s[j], s[i], order) /\ i < j

LEMMA BeforeTotal ==
    ASSUME NEW order, OrderOK(order), NEW s, Whole(s)
    PROVE  TotalOrder({p \in (1..N) \X (1..N) : Before(s, order, p[1], p[2])}, 1..N)
<1>. DEFINE D == 1..N
            R == {p \in D \X D : Before(s, order, p[1], p[2])}
            P(i, j) == Precedes(s[i], s[j], order)
<1>1. \A i \in D : s[i] \in RowNumbers
    BY WholeIs
<1>2. \A i, j \in D : <<i, j>> \in R <=> P(i, j) \/ (~P(j, i) /\ i < j)
    BY DEF Before
<1>3. \A i, j \in D : P(i, j) => ~P(j, i)
    BY <1>1, PrecedesOneWay
<1>4. \A i, j, k \in D : P(i, k) => P(i, j) \/ P(j, k)
    BY <1>1, PrecedesSplits
<1>5. R \subseteq D \X D
    OBVIOUS
<1>6. \A i \in D : i \in Int
    BY RowsAre
<1>. HIDE DEF R, P, D
<1>7. \A i, j \in D : i # j => <<i, j>> \in R \/ <<j, i>> \in R
    BY <1>2, <1>6
<1>8. \A i \in D : <<i, i>> \notin R
    BY <1>2, <1>3, <1>6
<1>9. ASSUME NEW i \in D, NEW j \in D, NEW k \in D, <<i, j>> \in R, <<j, k>> \in R
      PROVE  <<i, k>> \in R
  <2>1. ~P(j, i) /\ ~P(k, j)
    BY <1>2, <1>3, <1>9
  <2>2. ~P(k, i)
    BY <1>4, <2>1
  <2>3. P(i, j) \/ P(j, k) => P(i, k)
    BY <1>4, <2>1
  <2>4. ~P(i, j) /\ ~P(j, k) => i < k
    BY <1>2, <1>6, <1>9
  <2> QED
    BY <1>2, <2>2, <2>3, <2>4
<1>10. TotalOrder(R, D)
    BY <1>5, <1>7, <1>8, <1>9 DEF TotalOrder
<1> QED
    BY <1>10 DEF R, D

\* The sorts keep all rows and put them in the order.
LEMMA SortedByIs ==
    ASSUME NEW order, OrderOK(order), NEW s, Whole(s)
    PROVE  Whole(SortedBy(s, order)) /\ Ordered(SortedBy(s, order), order)
<1>. DEFINE D == 1..N
            R == {p \in D \X D : Before(s, order, p[1], p[2])}
            Sorting(f) == \A i, j \in DOMAIN s : i < j => Before(s, order, f[i], f[j])
            by == CHOOSE f \in SetToSeqs(DOMAIN s) : Sorting(f)
            g == [k \in D |-> CHOOSE j \in D : RankIn(R, D, j) = k]
<1>1. DOMAIN s = D /\ s \in [D -> RowNumbers] /\ IsInjective(s)
    BY WholeIs DEF Whole
<1>2. N \in Nat /\ IsFiniteSet(D) /\ Cardinality(D) = N
    BY RowsAre, FS_Interval
<1>3. Ranked(R, D)
  <2>1. TotalOrder(R, D)
    BY BeforeTotal
  <2>. HIDE DEF R, D
  <2> QED
    BY <1>2, <2>1, Ranks
<1>4. ASSUME NEW k \in D PROVE g[k] \in D /\ RankIn(R, D, g[k]) = k
  <2>1. \E j \in D : RankIn(R, D, j) = k
    <3>. HIDE DEF R
    <3>1. k \in 1..Cardinality(D)
      BY <1>2
    <3>. HIDE DEF D
    <3> QED
      BY <1>3, <3>1 DEF Ranked
  <2>. HIDE DEF R, D
  <2> QED
    BY <2>1
<1>5. g \in SetToSeqs(D)
  <2>1. g \in [1..Cardinality(D) -> D]
    BY <1>2, <1>4
  <2>2. \A i, j \in D : i # j => g[i] # g[j]
    <3>. HIDE DEF g, R, D
    <3> QED
      BY <1>4
  <2>. HIDE DEF g
  <2> QED
    BY <1>2, <2>1, <2>2 DEF SetToSeqs
<1>6. Sorting(g)
  <2> SUFFICES ASSUME NEW i \in D, NEW j \in D, i < j
               PROVE  Before(s, order, g[i], g[j])
    BY <1>1
  <2>1. g[i] \in D /\ g[j] \in D /\ RankIn(R, D, g[i]) = i /\ RankIn(R, D, g[j]) = j
    BY <1>4
  <2>2. <<g[i], g[j]>> \in R
    <3>. HIDE DEF g, R, D
    <3> QED
      BY <1>3, <2>1 DEF Ranked
  <2>. HIDE DEF g
  <2> QED
    BY <2>2
<1>7. by \in SetToSeqs(D) /\ Sorting(by)
  <2>. HIDE DEF g, D, Sorting
  <2> QED
    BY <1>1, <1>5, <1>6
<1>8. SortedBy(s, order) = [n \in DOMAIN s |-> s[by[n]]]
    BY DEF SortedBy, Before
<1>9. by \in [D -> D] /\ \A i, j \in D : i # j => by[i] # by[j]
  <2>. HIDE DEF by
  <2> QED
    BY <1>2, <1>7 DEF SetToSeqs
<1>10. \A i, j \in D : i < j => Before(s, order, by[i], by[j])
  <2>. HIDE DEF by
  <2> QED
    BY <1>1, <1>7
<1>. DEFINE c == SortedBy(s, order)
<1>. HIDE DEF by, g, R, Sorting
<1>11. DOMAIN c = D /\ \A n \in D : c[n] = s[by[n]]
    BY <1>1, <1>8
<1>12. c \in [D -> RowNumbers]
    BY <1>1, <1>8, <1>9
<1>. HIDE DEF c
<1>13. IsInjective(c)
  <2>1. ASSUME NEW i \in D, NEW j \in D, c[i] = c[j] PROVE i = j
    <3>1. s[by[i]] = s[by[j]] /\ by[i] \in D /\ by[j] \in D
      BY <1>9, <1>11, <2>1
    <3>2. by[i] = by[j]
      BY <1>1, <3>1 DEF IsInjective
    <3> QED
      BY <1>9, <3>2
  <2> QED
    BY <1>11, <2>1 DEF IsInjective
<1>14. c \in Seq(RowNumbers) /\ Len(c) = N
    BY <1>2, <1>12
<1>15. ASSUME NEW i \in D, NEW j \in D, i < j PROVE ~Precedes(c[j], c[i], order)
  <2>1. by[i] \in D /\ by[j] \in D /\ c[i] = s[by[i]] /\ c[j] = s[by[j]]
    BY <1>9, <1>11
  <2>2. s[by[i]] \in RowNumbers /\ s[by[j]] \in RowNumbers
    BY <1>1, <2>1
  <2>3. Before(s, order, by[i], by[j])
    BY <1>10, <1>15
  <2> QED
    BY <2>1, <2>2, <2>3, PrecedesOneWay DEF Before
<1>16. Ordered(c, order)
    BY <1>11, <1>15 DEF Ordered
<1> QED
    BY <1>13, <1>14, <1>16 DEF Whole, c

\* The rows of an index are those found, in the order of the index.
LEMMA InOrderIs ==
    ASSUME NEW t, Whole(t.tree), NEW found \in SUBSET RowNumbers
    PROVE  /\ InOrder(t, found) \in Seq(RowNumbers) /\ IsInjective(InOrder(t, found))
           /\ ToSet(InOrder(t, found)) = found
           /\ \A order : Ordered(t.tree, order) => Ordered(InOrder(t, found), order)
<1>. DEFINE s == t.tree
            I == {i \in DOMAIN s : s[i] \in found}
            w == At(s, I)
            m == Cardinality(I)
<1>1. s \in Seq(RowNumbers) /\ DOMAIN s = 1..Len(s) /\ IsInjective(s) /\ ToSet(s) = RowNumbers
    BY WholeIs DEF Whole
<1>2. I \in SUBSET (1..Len(s)) /\ I \in SUBSET DOMAIN s
    BY <1>1
<1>3. InPlace(RowNumbers, s, I)
  <2>. HIDE DEF I, s
  <2> QED
    BY <1>1, <1>2, AtIs
<1>4. InOrder(t, found) = w
    BY DEF InOrder
<1>5. \A i \in DOMAIN s : i \in I <=> s[i] \in found
    OBVIOUS
<1>. HIDE DEF I, s
<1>6. /\ w \in Seq(RowNumbers) /\ DOMAIN w = 1..m
      /\ \A i \in I : Place(I, i) \in 1..m /\ w[Place(I, i)] = s[i]
      /\ \A k \in 1..m : Holder(I, k) \in I /\ Place(I, Holder(I, k)) = k /\ w[k] = s[Holder(I, k)]
      /\ \A k, l \in 1..m : k < l => Holder(I, k) < Holder(I, l)
    BY <1>3 DEF InPlace
<1>. HIDE DEF w, m
<1>7. ASSUME NEW k \in 1..m, NEW l \in 1..m, w[k] = w[l] PROVE k = l
  <2>1. /\ Holder(I, k) \in DOMAIN s /\ Holder(I, l) \in DOMAIN s
        /\ s[Holder(I, k)] = s[Holder(I, l)]
    BY <1>2, <1>6, <1>7
  <2>2. Holder(I, k) = Holder(I, l)
    BY <1>1, <2>1 DEF IsInjective
  <2> QED
    BY <1>6, <2>2
<1>8. IsInjective(w)
    BY <1>6, <1>7 DEF IsInjective
<1>9. ToSet(w) \subseteq found
    BY <1>2, <1>5, <1>6 DEF ToSet
<1>10. ASSUME NEW r \in found PROVE r \in ToSet(w)
  <2>1. PICK i \in DOMAIN s : s[i] = r
    BY <1>1 DEF ToSet
  <2>2. i \in I
    BY <1>5, <2>1
  <2>3. Place(I, i) \in DOMAIN w /\ w[Place(I, i)] = r
    BY <1>6, <2>1, <2>2
  <2> QED
    BY <2>3 DEF ToSet
<1>11. ASSUME NEW order, Ordered(s, order) PROVE Ordered(w, order)
  <2>1. ASSUME NEW k \in 1..m, NEW l \in 1..m, k < l PROVE ~Precedes(w[l], w[k], order)
    <3>1. /\ Holder(I, k) \in DOMAIN s /\ Holder(I, l) \in DOMAIN s
          /\ Holder(I, k) < Holder(I, l)
          /\ w[k] = s[Holder(I, k)] /\ w[l] = s[Holder(I, l)]
      BY <1>2, <1>6, <2>1
    <3> QED
      BY <1>11, <3>1 DEF Ordered
  <2> QED
    BY <1>6, <2>1 DEF Ordered
<1>12. ToSet(w) = found
    BY <1>9, <1>10
<1> QED
    BY <1>4, <1>6, <1>8, <1>11, <1>12 DEF s

\* The sequences SetToSeqs makes of a set of rows have them all, each once.
LEMMA SeqsAre ==
    ASSUME NEW found \in SUBSET RowNumbers, NEW w \in SetToSeqs(found)
    PROVE  w \in Seq(RowNumbers) /\ IsInjective(w) /\ ToSet(w) = found
<1>1. IsFiniteSet(found)
    BY RowsAre, FS_Subset
<1>2. PICK m \in Nat : m = Cardinality(found)
    BY <1>1, FS_CardinalityType
<1>3. w \in [1..m -> found] /\ \A i, j \in 1..m : i # j => w[i] # w[j]
    BY <1>2 DEF SetToSeqs
<1>4. IsInjective(w)
    BY <1>3 DEF IsInjective
<1>5. ToSet(w) = found
    BY <1>1, <1>2, <1>3, <1>4, Covering
<1>6. w \in Seq(RowNumbers)
    BY <1>3
<1> QED
    BY <1>4, <1>5, <1>6

-----------------------------------------------------------------------------
(* The inductive invariant *)

Values == {<<>>} \cup UNION {Args[q] : q \in Queries}

CurRec == [st : {"closed", "open", "row", "eof", "failed"}, query : Queries \cup {NoQuery},
           values : Values, list : Lists \cup {NoList}, pos : 0..N, rest : Seq(RowNumbers),
           got : Seq(RowNumbers), sound : BOOLEAN, resorted : BOOLEAN]

TableRec == [data : Lists, index : Plans \cup {NoPlan}, ordered : BOOLEAN, fits : BOOLEAN,
             tree : Seq(RowNumbers), cols : SUBSET DOMAIN Rows[1], torn : BOOLEAN]

Types == lists \in [Lists -> Seq(RowNumbers)] /\ table \in TableRec /\ cur \in [Cursors -> CurRec]

\* A list somebody refers to has all rows.
ListsWhole ==
    /\ Whole(lists[table.data])
    /\ \A c \in Cursors : cur[c].list # NoList => Whole(lists[cur[c].list])

\* So has an index, and only an interrupted calculation leaves one without positions.
IndexOK ==
    /\ IndexFresh
    /\ table.index # NoPlan => Whole(table.tree)
    /\ ~table.fits => table.torn

\* A scan has returned as many rows of its list as it has gone through.
Counted(r) ==
    /\ r.resorted => r.list # NoList
    /\ r.list # NoList => r.pos = Len(r.got)
    /\ r.list # NoList /\ r.st = "eof" => r.pos = N

IInv == Types /\ ListsWhole /\ IndexOK /\ FailsOnEmpty /\ \A c \in Cursors : Counted(cur[c])

\* What becomes of the lists and the index when cursor c starts a scan.
NewTable(c) ==
    /\ lists' \in [Lists -> Seq(RowNumbers)] /\ table' \in TableRec
    /\ Whole(lists'[table'.data])
    /\ \A d \in Cursors \ {c} : cur[d].list # NoList => Whole(lists'[cur[d].list])
    /\ IndexOK'

\* Only the table's list is sorted, not the others that are being read.
Undisturbed(c) ==
    \A d \in Cursors \ {c} :
        cur[d].list # NoList /\ cur[d].list # table.data => lists'[cur[d].list] = lists[cur[d].list]

\* A plan has constraints on columns and an order, so it is not that of the first index.
LEMMA PlansAre ==
    ASSUME NEW p \in Plans
    PROVE  OrderOK(p.order) /\ Columns(p) \subseteq DOMAIN Rows[1] /\ p # NoPlan
<1>1. PICK q \in Queries : p = BestIndex(q)
    BY DEF Plans
<1>2. p.order = q.order /\ OrderOK(q.order)
    BY <1>1, QueriesOK DEF BestIndex, OrderOK
<1>3. p.cons = At(q.terms, TakenIn(q))
    BY <1>1 DEF BestIndex
<1>4. Columns(p) \subseteq DOMAIN Rows[1]
  <2>1. InPlace(TermRec, q.terms, TakenIn(q))
    BY TermsAre, AtIs
  <2>2. p.cons \in Seq(TermRec)
    BY <1>3, <2>1 DEF InPlace
  <2>3. \A i \in DOMAIN p.cons : p.cons[i] \in TermRec
    BY <2>2, ElementOfSeq
  <2> QED
    BY <2>3 DEF Columns, TermRec
<1>5. p # NoPlan
  <2> SUFFICES ASSUME p = NoPlan PROVE FALSE
    OBVIOUS
  <2>1. p.order = <<[col |-> 0, desc |-> FALSE]>>
    BY DEF NoPlan
  <2>2. p.order[1].col = 0 /\ 1 \in 1..Len(p.order)
    BY <2>1
  <2>. DEFINE T == [col : DOMAIN Rows[1], desc : BOOLEAN]
  <2>3. p.order \in Seq(T)
    BY <1>2 DEF OrderOK
  <2>4. p.order[1] \in T
    <3>. HIDE DEF T
    <3> QED
      BY <2>2, <2>3, ElementOfSeq
  <2>5. 0 \in DOMAIN Rows[1]
    BY <2>2, <2>4
  <2>6. Rows[1] \in Seq(0..MaxValue)
    <3>. DEFINE S == Seq(0..MaxValue)
    <3>1. Rows \in Seq(S) /\ 1 \in 1..Len(Rows)
      BY RowsOK
    <3>. HIDE DEF S
    <3>2. Rows[1] \in S
      BY <3>1, ElementOfSeq
    <3> QED
      BY <3>2 DEF S
  <2> QED
    BY <2>5, <2>6
<1> QED
    BY <1>2, <1>4, <1>5

\* Sorting in place leaves the lists of other cursors alone, but for the table's.
LEMMA SortIs ==
    ASSUME IInv, NEW c \in Cursors, NEW content, Whole(content)
    PROVE  /\ Sort(c, content) \in [Lists -> Seq(RowNumbers)]
           /\ table.data \in Lists /\ Sort(c, content)[table.data] = content
           /\ \A d \in Cursors \ {c} : cur[d].list # NoList =>
                 /\ cur[d].list \in Lists
                 /\ Sort(c, content)[cur[d].list] =
                       IF cur[d].list = table.data THEN content ELSE lists[cur[d].list]
<1>1. content \in Seq(RowNumbers) /\ lists \in [Lists -> Seq(RowNumbers)] /\ table.data \in Lists
    BY DEF Whole, IInv, Types, TableRec
<1>2. Sort(c, content) = [l \in Lists |-> IF l = table.data THEN content
                                         ELSE IF l \in Used(c) THEN lists[l] ELSE <<>>]
    BY DEF Sort
<1>3. Sort(c, content) \in [Lists -> Seq(RowNumbers)]
  <2>1. \A l \in Lists : (IF l = table.data THEN content
                          ELSE IF l \in Used(c) THEN lists[l] ELSE <<>>) \in Seq(RowNumbers)
    BY <1>1
  <2> QED
    BY <1>2, <2>1
<1>4. ASSUME NEW d \in Cursors \ {c}, cur[d].list # NoList
      PROVE  cur[d].list \in Lists /\ cur[d].list \in Used(c)
  <2>1. cur[d] \in CurRec
    BY DEF IInv, Types
  <2>2. cur[d].list \in Lists
    BY <1>4, <2>1 DEF CurRec
  <2> QED
    BY <1>4, <2>2 DEF Used
<1> QED
    BY <1>1, <1>2, <1>3, <1>4

\* A list that serves as a new one is nobody else's.
LEMMA UnusedIs ==
    ASSUME IInv, NEW c \in Cursors, NEW new \in Unused(c)
    PROVE  /\ new \in Lists /\ new # table.data
           /\ \A d \in Cursors \ {c} : cur[d].list # NoList => cur[d].list # new
<1>1. new \in Lists /\ new \notin Used(c)
    BY DEF Unused
<1> QED
    BY <1>1 DEF Used

\* A calculation that is not interrupted gives an index of its plan.
LEMMA CalculateOK ==
    ASSUME IInv, NEW c \in Cursors, NEW p \in Plans, NEW new \in Unused(c),
           NEW index \in {table.index, p}, Calculate(c, p, new, index)
    PROVE  NewTable(c) /\ table'.index = index /\ Undisturbed(c)
<1>. DEFINE old == lists[table.data]
            content == SortedBy(old, p.order)
<1>1. /\ lists \in [Lists -> Seq(RowNumbers)] /\ table \in TableRec
      /\ Whole(old) /\ \A d \in Cursors : cur[d].list # NoList => Whole(lists[cur[d].list])
    BY DEF IInv, Types, ListsWhole
<1>2. OrderOK(p.order) /\ Columns(p) \subseteq DOMAIN Rows[1] /\ p # NoPlan
    BY PlansAre
<1>3. Whole(content) /\ Ordered(content, p.order)
    BY <1>1, <1>2, SortedByIs
<1>4. index \in Plans \cup {NoPlan}
    BY <1>1 DEF TableRec
<1>5. CASE p.order = <<>>
  <2>1. /\ table' = [table EXCEPT !.index = index, !.torn = index # p, !.ordered = FALSE, !.fits = TRUE,
                                  !.cols = Columns(p), !.tree = old]
        /\ lists' = lists
    BY <1>5 DEF Calculate
  <2>2. old \in Seq(RowNumbers)
    BY <1>1 DEF Whole
  <2>3. (index # p) \in BOOLEAN
    OBVIOUS
  <2>. HIDE DEF old, content
  <2>4. table' \in TableRec
    BY <1>1, <1>2, <1>4, <2>1, <2>2, <2>3 DEF TableRec
  <2>5. /\ table'.index = index /\ table'.torn = (index # p) /\ table'.ordered = FALSE
        /\ table'.fits = TRUE /\ table'.cols = Columns(p) /\ table'.tree = old
        /\ table'.data = table.data
    BY <1>1, <2>1 DEF TableRec
  <2>6. IndexFresh'
    BY <1>5, <2>5 DEF IndexFresh
  <2>7. IndexOK'
    BY <1>1, <2>5, <2>6 DEF IndexOK
  <2>8. Whole(lists'[table'.data])
    BY <1>1, <2>1, <2>5 DEF old
  <2> QED
    BY <1>1, <2>1, <2>4, <2>5, <2>7, <2>8 DEF NewTable, Undisturbed
<1>6. CASE p.order # <<>>
  <2>1. /\ lists' = [Sort(c, content) EXCEPT ![new] = content]
        /\ table' = [table EXCEPT !.index = index, !.torn = index # p, !.ordered = TRUE, !.fits = TRUE,
                                  !.cols = Columns(p), !.data = new, !.tree = content]
    BY <1>6 DEF Calculate
  <2>2. content \in Seq(RowNumbers)
    BY <1>3 DEF Whole
  <2>3. (index # p) \in BOOLEAN
    OBVIOUS
  <2>4. new \in Lists /\ \A d \in Cursors \ {c} : cur[d].list # NoList => cur[d].list # new
    BY UnusedIs
  <2>. HIDE DEF old, content
  <2>5. table' \in TableRec
    BY <1>1, <1>2, <1>4, <2>1, <2>2, <2>3, <2>4 DEF TableRec
  <2>6. /\ table'.index = index /\ table'.torn = (index # p) /\ table'.ordered = TRUE
        /\ table'.fits = TRUE /\ table'.cols = Columns(p) /\ table'.tree = content
        /\ table'.data = new
    BY <1>1, <2>1 DEF TableRec
  <2>7. /\ Sort(c, content) \in [Lists -> Seq(RowNumbers)]
        /\ \A d \in Cursors \ {c} : cur[d].list # NoList =>
              /\ cur[d].list \in Lists
              /\ Sort(c, content)[cur[d].list] =
                    IF cur[d].list = table.data THEN content ELSE lists[cur[d].list]
    BY <1>3, SortIs
  <2>8. lists' \in [Lists -> Seq(RowNumbers)] /\ lists'[new] = content
    BY <2>1, <2>2, <2>4, <2>7
  <2>9. \A d \in Cursors \ {c} : cur[d].list # NoList =>
            lists'[cur[d].list] = IF cur[d].list = table.data THEN content ELSE lists[cur[d].list]
    BY <2>1, <2>4, <2>7
  <2>10. IndexFresh'
    BY <1>3, <1>6, <2>6, <2>8 DEF IndexFresh
  <2>11. IndexOK'
    BY <1>3, <2>6, <2>10 DEF IndexOK
  <2> QED
    BY <1>1, <1>3, <1>6, <2>5, <2>6, <2>8, <2>9, <2>11 DEF NewTable, Undisturbed
<1> QED
    BY <1>5, <1>6

\* Nothing is calculated.
LEMMA NotCalculated ==
    ASSUME IInv, NEW c \in Cursors, UNCHANGED <<lists, table>>
    PROVE  NewTable(c) /\ Undisturbed(c)
<1>1. lists' = lists /\ table' = table
    OBVIOUS
<1>2. IndexFresh'
    BY <1>1 DEF IInv, IndexOK, IndexFresh
<1>3. IndexOK'
    BY <1>1, <1>2 DEF IInv, IndexOK
<1> QED
    BY <1>1, <1>3 DEF IInv, Types, ListsWhole, NewTable, Undisturbed

\* After the indexing the index is that of the scan's plan.
LEMMA IndexedOK ==
    ASSUME IInv, NEW c \in Cursors, NEW p \in Plans, Indexed(c, p)
    PROVE  NewTable(c) /\ table'.index = p /\ Undisturbed(c)
<1>1. CASE Stale(p)
  <2>1. PICK new \in Unused(c) : Calculate(c, p, new, p)
    BY <1>1 DEF Indexed
  <2> QED
    BY <2>1, CalculateOK
<1>2. CASE ~Stale(p)
  <2>1. UNCHANGED <<lists, table>>
    BY <1>2 DEF Indexed
  <2>2. NewTable(c) /\ Undisturbed(c)
    BY <2>1, NotCalculated
  <2>3. table'.index = p
    BY <1>2, <2>1 DEF Stale
  <2> QED
    BY <2>2, <2>3
<1> QED
    BY <1>1, <1>2

\* The rest of an order is an order.
LEMMA RestOfOrder ==
    ASSUME NEW order, OrderOK(order), NEW k \in 1..(Len(order) + 1)
    PROVE  OrderOK(SubSeq(order, k, Len(order)))
<1>. DEFINE T == [col : DOMAIN Rows[1], desc : BOOLEAN]
<1>1. order \in Seq(T)
    BY DEF OrderOK
<1>2. \A i \in 1..Len(order) : order[i] \in T
    BY <1>1, ElementOfSeq
<1>. HIDE DEF T
<1>3. Len(order) \in Nat /\ k \in Nat \ {0}
    BY <1>1
<1>4. SubSeq(order, k, Len(order)) \in Seq(T)
    BY <1>1, <1>2, <1>3
<1> QED
    BY <1>4 DEF OrderOK, T

\* An interrupt leaves the rows whole, and marks the index.
LEMMA InterruptedOK ==
    ASSUME IInv, NEW c \in Cursors, NEW p \in Plans, FilterInterrupted(c, p)
    PROVE  NewTable(c) /\ Undisturbed(c)
<1>. DEFINE From(k) == SortedBy(lists[table.data], SubSeq(p.order, k, Len(p.order)))
            Torn == [table EXCEPT !.ordered = FALSE, !.torn = TRUE]
            Unfit == [Torn EXCEPT !.ordered = TRUE, !.fits = FALSE]
            First == ~Stale(p) /\ UNCHANGED <<lists, table>>
            Second == Stale(p) /\ UNCHANGED lists /\ table' = Torn
            Third == /\ \E k \in 1..(Len(p.order) + 1) : lists' = Sort(c, From(k))
                     /\ table' = Unfit
            Fourth == \E new \in Unused(c) : /\ lists' = [Sort(c, From(1)) EXCEPT ![new] = From(1)]
                                             /\ table' = [Unfit EXCEPT !.data = new]
            Fifth == \E index \in {table.index, p} : \E new \in Unused(c) : Calculate(c, p, new, index)
<1>1. First \/ Second \/ (p.order # <<>> /\ (Third \/ Fourth)) \/ Fifth
    BY DEF FilterInterrupted
<1>2. /\ lists \in [Lists -> Seq(RowNumbers)] /\ table \in TableRec
      /\ Whole(lists[table.data])
      /\ \A d \in Cursors : cur[d].list # NoList => Whole(lists[cur[d].list])
      /\ table.index # NoPlan => Whole(table.tree)
      /\ ~table.fits => table.torn
    BY DEF IInv, Types, ListsWhole, IndexOK
<1>3. ASSUME NEW k \in 1..(Len(p.order) + 1) PROVE Whole(From(k))
  <2>1. OrderOK(SubSeq(p.order, k, Len(p.order)))
    BY PlansAre, RestOfOrder
  <2> QED
    BY <1>2, <2>1, SortedByIs
<1>4. 1 \in 1..(Len(p.order) + 1)
  <2>1. p.order \in Seq([col : DOMAIN Rows[1], desc : BOOLEAN])
    BY PlansAre DEF OrderOK
  <2>2. Len(p.order) \in Nat
    BY <2>1
  <2> QED
    BY <2>2
<1>5. /\ Torn \in TableRec /\ Torn.torn = TRUE /\ Torn.data = table.data
      /\ Torn.index = table.index /\ Torn.tree = table.tree
    BY <1>2 DEF TableRec
<1>6. /\ Unfit \in TableRec /\ Unfit.torn = TRUE /\ Unfit.data = table.data
      /\ Unfit.index = table.index /\ Unfit.tree = table.tree
    BY <1>2 DEF TableRec
<1>7. ASSUME NEW new \in Lists
      PROVE  LET t == [Unfit EXCEPT !.data = new] IN
             /\ t \in TableRec /\ t.torn = TRUE /\ t.data = new
             /\ t.index = table.index /\ t.tree = table.tree
    BY <1>2 DEF TableRec
<1>8. ASSUME table'.torn = TRUE, table'.index = table.index, table'.tree = table.tree
      PROVE  IndexOK'
  <2>1. IndexFresh'
    BY <1>8 DEF IndexFresh
  <2> QED
    BY <1>2, <1>8, <2>1 DEF IndexOK
<1>. HIDE DEF Torn, Unfit, From
<1>9. CASE First
    BY <1>9, NotCalculated
<1>10. CASE Second
  <2>1. IndexOK' /\ table' \in TableRec /\ table'.data = table.data /\ lists' = lists
    BY <1>5, <1>8, <1>10
  <2>2. NewTable(c)
    BY <1>2, <2>1 DEF NewTable
  <2> QED
    BY <2>1, <2>2 DEF Undisturbed
<1>11. CASE p.order # <<>> /\ Third
  <2>1. PICK k \in 1..(Len(p.order) + 1) : lists' = Sort(c, From(k))
    BY <1>11
  <2>2. table' = Unfit
    BY <1>11
  <2>3. IndexOK' /\ table' \in TableRec /\ table'.data = table.data
    BY <1>6, <1>8, <2>2
  <2>4. Whole(From(k))
    BY <1>3
  <2>5. /\ lists' \in [Lists -> Seq(RowNumbers)] /\ lists'[table.data] = From(k)
        /\ \A d \in Cursors \ {c} : cur[d].list # NoList =>
              lists'[cur[d].list] = IF cur[d].list = table.data THEN From(k) ELSE lists[cur[d].list]
    BY <2>1, <2>4, SortIs
  <2>6. NewTable(c)
    BY <1>2, <2>3, <2>4, <2>5 DEF NewTable
  <2> QED
    BY <2>5, <2>6 DEF Undisturbed
<1>12. CASE p.order # <<>> /\ Fourth
  <2>1. PICK new \in Unused(c) : /\ lists' = [Sort(c, From(1)) EXCEPT ![new] = From(1)]
                                 /\ table' = [Unfit EXCEPT !.data = new]
    BY <1>12
  <2>2. new \in Lists /\ \A d \in Cursors \ {c} : cur[d].list # NoList => cur[d].list # new
    BY UnusedIs
  <2>3. IndexOK' /\ table' \in TableRec /\ table'.data = new
    BY <1>7, <1>8, <2>1, <2>2
  <2>4. Whole(From(1)) /\ From(1) \in Seq(RowNumbers)
    BY <1>3, <1>4 DEF Whole
  <2>5. /\ Sort(c, From(1)) \in [Lists -> Seq(RowNumbers)]
        /\ \A d \in Cursors \ {c} : cur[d].list # NoList =>
              /\ cur[d].list \in Lists
              /\ Sort(c, From(1))[cur[d].list] =
                    IF cur[d].list = table.data THEN From(1) ELSE lists[cur[d].list]
    BY <2>4, SortIs
  <2>6. /\ lists' \in [Lists -> Seq(RowNumbers)] /\ lists'[new] = From(1)
        /\ \A d \in Cursors \ {c} : cur[d].list # NoList =>
              lists'[cur[d].list] = IF cur[d].list = table.data THEN From(1) ELSE lists[cur[d].list]
    BY <2>1, <2>2, <2>4, <2>5
  <2>7. NewTable(c)
    BY <1>2, <2>3, <2>4, <2>6 DEF NewTable
  <2> QED
    BY <2>6, <2>7 DEF Undisturbed
<1>13. CASE Fifth
  <2>1. PICK index \in {table.index, p}, new \in Unused(c) : Calculate(c, p, new, index)
    BY <1>13
  <2> QED
    BY <2>1, CalculateOK
<1> QED
    BY <1>1, <1>9, <1>10, <1>11, <1>12, <1>13

-----------------------------------------------------------------------------
(* Scans *)

\* What a scan returns if it goes on to its end: what it has returned and the rest of its
\* list, or of the rows of its index.
ToCome(r, content) ==
    r.got \o (IF r.list # NoList THEN SubSeq(content, r.pos + 1, Len(content)) ELSE r.rest)

\* The rows of w are what the scan r has to return.
Answers(r, w) ==
    /\ IsInjective(w) /\ Chosen(r) \subseteq ToSet(w)
    /\ r.sound => ToSet(w) \subseteq Chosen(r) \cup OfNulls(r) /\ Ordered(w, r.query.order)

\* A scan is on its way, or at its end, or has returned nothing, or its list was sorted.
ScanOK(r, content) ==
    /\ r.st = "row" /\ ~r.resorted => Answers(r, ToCome(r, content))
    /\ r.st = "eof" /\ ~r.resorted => Answers(r, r.got)
    /\ r.st \notin {"row", "eof"} => r.got = <<>>

Content(ls, r) == IF r.list = NoList THEN <<>> ELSE ls[r.list]

\* Every scan will return what it has to, unless its list was sorted.
Answering == \A c \in Cursors : ScanOK(cur[c], Content(lists, cur[c]))

LEMMA ChosenIs == \A r : /\ Chosen(r) = Wanted(r.query, r.values)
                         /\ OfNulls(r) = Nulls(r.query, r.values)
BY DEF Chosen, Wanted, OfNulls, Nulls, RowNumbers

\* Taking the first of the rows to come leaves the same rows.
LEMMA NextOfRest ==
    ASSUME NEW S, NEW u \in Seq(S), NEW w \in Seq(S), w # <<>>
    PROVE  /\ Head(w) \in S /\ Tail(w) \in Seq(S)
           /\ Append(u, Head(w)) \in Seq(S) /\ Len(Append(u, Head(w))) = Len(u) + 1
           /\ Append(u, Head(w)) \o Tail(w) = u \o w
<1>1. Head(w) \in S /\ Tail(w) \in Seq(S)
    BY HeadTailProperties
<1>. DEFINE h == Head(w)
            t == Tail(w)
<1>2. w = <<h>> \o t
  <2>1. Len(w) \in Nat \ {0}
    BY EmptySeq
  <2>2. 1 \in 1..Len(w) /\ Len(w) \in 1..Len(w)
    BY <2>1
  <2>3. SubSeq(w, 1, Len(w)) = <<w[1]>> \o SubSeq(w, 2, Len(w))
    BY <2>2, SubSeqRecursiveFirst
  <2>4. SubSeq(w, 1, Len(w)) = w /\ t = SubSeq(w, 2, Len(w))
    BY SubSeqFull, TailIsSubSeq
  <2>5. h = w[1]
    OBVIOUS
  <2> QED
    BY <2>3, <2>4, <2>5
<1>. HIDE DEF h, t
<1>3. h \in S /\ t \in Seq(S)
    BY <1>1 DEF h, t
<1>4. <<h>> \in Seq(S)
    BY <1>3
<1>5. u \o w = (u \o <<h>>) \o t
    BY <1>2, <1>3, <1>4, ConcatAssociative
<1>6. Append(u, h) = u \o <<h>> /\ Append(u, h) \in Seq(S) /\ Len(Append(u, h)) = Len(u) + 1
    BY <1>3, AppendIsConcat, AppendProperties
<1> QED
    BY <1>3, <1>5, <1>6 DEF h, t

\* So does moving on in a list.
LEMMA NextOfList ==
    ASSUME NEW S, NEW v \in Seq(S), NEW k \in 0..Len(v)
    PROVE  /\ SubSeq(v, k + 1, Len(v)) \in Seq(S)
           /\ k < Len(v) => /\ k + 1 \in 0..Len(v)
                            /\ SubSeq(v, k + 1, Len(v)) # <<>>
                            /\ Head(SubSeq(v, k + 1, Len(v))) = v[k + 1]
                            /\ Tail(SubSeq(v, k + 1, Len(v))) = SubSeq(v, k + 1 + 1, Len(v))
           /\ ~(k < Len(v)) => SubSeq(v, k + 1, Len(v)) = <<>>
<1>1. Len(v) \in Nat /\ k \in Nat
    OBVIOUS
<1>2. SubSeq(v, k + 1, Len(v)) \in Seq(S)
    BY <1>1
<1>3. ASSUME k < Len(v)
      PROVE  /\ k + 1 \in 0..Len(v)
             /\ SubSeq(v, k + 1, Len(v)) # <<>>
             /\ Head(SubSeq(v, k + 1, Len(v))) = v[k + 1]
             /\ Tail(SubSeq(v, k + 1, Len(v))) = SubSeq(v, k + 1 + 1, Len(v))
  <2>1. k + 1 \in 1..Len(v) /\ Len(v) \in (k + 1)..Len(v)
    BY <1>1, <1>3
  <2>2. /\ Head(SubSeq(v, k + 1, Len(v))) = v[k + 1]
        /\ Tail(SubSeq(v, k + 1, Len(v))) = SubSeq(v, k + 1 + 1, Len(v))
    BY <2>1, HeadTailOfSubSeq
  <2>3. Len(SubSeq(v, k + 1, Len(v))) = Len(v) - k
    BY <1>1, <1>3
  <2>4. SubSeq(v, k + 1, Len(v)) # <<>>
    <3>1. Len(<<>>) = 0
      OBVIOUS
    <3>2. Len(v) - k # 0
      BY <1>1, <1>3
    <3> QED
      BY <2>3, <3>1, <3>2
  <2>5. k + 1 \in 0..Len(v)
    BY <1>1, <1>3
  <2> QED
    BY <2>2, <2>4, <2>5
<1>4. ~(k < Len(v)) => SubSeq(v, k + 1, Len(v)) = <<>>
    BY <1>1, SubSeqEmpty
<1> QED
    BY <1>2, <1>3, <1>4

\* The lists a scan may go through.
ContentOK(r, content) == content \in Seq(RowNumbers) /\ (r.list # NoList => Len(content) = N)

\* r moved on to a: the rows that were to come are now to come, or have all come.
Moved(r, a, content) ==
    /\ a \in CurRec /\ a.st \in {"row", "eof"}
    /\ a.list = r.list /\ a.query = r.query /\ a.values = r.values /\ a.sound = r.sound
    /\ a.resorted = r.resorted /\ Counted(a)
    /\ a.st = "row" => ToCome(a, content) = ToCome(r, content)
    /\ a.st = "eof" => a.got = ToCome(r, content)

LEMMA AdvanceIs ==
    ASSUME NEW r \in CurRec, NEW content, ContentOK(r, content), Counted(r)
    PROVE  Moved(r, Advance(r, content), content)
<1>. DEFINE a == Advance(r, content)
            S == RowNumbers
<1>0. /\ content \in Seq(S) /\ r.got \in Seq(S) /\ r.rest \in Seq(S)
      /\ (r.list # NoList => r.pos \in 0..Len(content) /\ Len(content) = N)
    BY DEF ContentOK, CurRec
<1>1. CASE r.list # NoList /\ r.pos < Len(content)
  <2>. DEFINE w == SubSeq(content, r.pos + 1, Len(content))
  <2>1. /\ w \in Seq(S) /\ r.pos + 1 \in 0..Len(content) /\ w # <<>> /\ Head(w) = content[r.pos + 1]
        /\ Tail(w) = SubSeq(content, r.pos + 1 + 1, Len(content))
    BY <1>0, <1>1, NextOfList
  <2>2. /\ Head(w) \in S /\ Append(r.got, Head(w)) \in Seq(S)
        /\ Len(Append(r.got, Head(w))) = Len(r.got) + 1
        /\ Append(r.got, Head(w)) \o Tail(w) = r.got \o w
    <3>. HIDE DEF w, S
    <3> QED
      BY <1>0, <2>1, NextOfRest
  <2>3. a = [r EXCEPT !.st = "row", !.pos = r.pos + 1, !.got = Append(r.got, Head(w))]
    BY <1>1, <2>1 DEF Advance
  <2>4. ToCome(r, content) = r.got \o w
    BY <1>1 DEF ToCome
  <2>. HIDE DEF a, w, S
  <2>5. /\ a.st = "row" /\ a.pos = r.pos + 1 /\ a.got = Append(r.got, Head(w)) /\ a.list = r.list
        /\ a.query = r.query /\ a.values = r.values /\ a.sound = r.sound /\ a.rest = r.rest
        /\ a.resorted = r.resorted
    BY <2>3 DEF CurRec
  <2>6. ToCome(a, content) = a.got \o Tail(w)
    BY <1>1, <2>1, <2>5 DEF ToCome
  <2>7. a \in CurRec
    BY <1>0, <1>1, <2>1, <2>2, <2>3 DEF CurRec, S
  <2>8. Counted(a)
    BY <1>1, <2>2, <2>5 DEF Counted
  <2> QED
    BY <2>2, <2>4, <2>5, <2>6, <2>7, <2>8 DEF Moved, a
<1>2. CASE r.list # NoList /\ ~(r.pos < Len(content))
  <2>1. SubSeq(content, r.pos + 1, Len(content)) = <<>>
    BY <1>0, <1>2, NextOfList
  <2>2. r.got \o <<>> = r.got
    <3>. HIDE DEF S
    <3> QED
      BY <1>0, ConcatEmptySeq
  <2>3. ToCome(r, content) = r.got
    BY <1>2, <2>1, <2>2 DEF ToCome
  <2>4. a = [r EXCEPT !.st = "eof"]
    BY <1>2 DEF Advance
  <2>5. r.pos = N
    BY <1>0, <1>2, RowsAre
  <2>. HIDE DEF a
  <2>6. a.list = r.list /\ a.resorted = r.resorted /\ a.pos = r.pos /\ a.got = r.got
    BY <2>4 DEF CurRec
  <2>7. Counted(a)
    BY <2>5, <2>6 DEF Counted
  <2> QED
    BY <2>3, <2>4, <2>7 DEF CurRec, Moved, a
<1>3. CASE r.list = NoList /\ r.rest # <<>>
  <2>1. /\ Head(r.rest) \in S /\ Tail(r.rest) \in Seq(S) /\ Append(r.got, Head(r.rest)) \in Seq(S)
        /\ Append(r.got, Head(r.rest)) \o Tail(r.rest) = r.got \o r.rest
    <3>. HIDE DEF S
    <3> QED
      BY <1>0, <1>3, NextOfRest
  <2>2. a = [r EXCEPT !.st = "row", !.rest = Tail(r.rest), !.got = Append(r.got, Head(r.rest))]
    BY <1>3 DEF Advance
  <2>3. ToCome(r, content) = r.got \o r.rest
    BY <1>3 DEF ToCome
  <2>. HIDE DEF a, S
  <2>4. /\ a.st = "row" /\ a.got = Append(r.got, Head(r.rest)) /\ a.list = r.list
        /\ a.query = r.query /\ a.values = r.values /\ a.sound = r.sound /\ a.rest = Tail(r.rest)
        /\ a.resorted = r.resorted
    BY <2>2 DEF CurRec
  <2>5. ToCome(a, content) = a.got \o a.rest
    BY <1>3, <2>4 DEF ToCome
  <2>6. a \in CurRec
    BY <2>1, <2>2 DEF CurRec, S
  <2>7. Counted(a)
    BY <1>3, <2>4 DEF Counted
  <2> QED
    BY <2>1, <2>3, <2>4, <2>5, <2>6, <2>7 DEF Moved, a
<1>4. CASE r.list = NoList /\ r.rest = <<>>
  <2>1. r.got \o <<>> = r.got
    <3>. HIDE DEF S
    <3> QED
      BY <1>0, ConcatEmptySeq
  <2>2. ToCome(r, content) = r.got
    BY <1>4, <2>1 DEF ToCome
  <2>3. a = [r EXCEPT !.st = "eof"]
    BY <1>4 DEF Advance
  <2>4. Counted(a)
    BY <1>4, <2>3 DEF Counted, CurRec
  <2> QED
    BY <2>2, <2>3, <2>4 DEF CurRec, Moved
<1> QED
    BY <1>1, <1>2, <1>3, <1>4

\* A scan that will return what it has to still will, one row further on.
LEMMA MovedOK ==
    ASSUME NEW r, NEW a, NEW content, Moved(r, a, content),
           ~r.resorted => Answers(r, ToCome(r, content))
    PROVE  ScanOK(a, content)
<1>1. Chosen(a) = Chosen(r) /\ OfNulls(a) = OfNulls(r)
    BY ChosenIs DEF Moved
<1>2. /\ a.query = r.query /\ a.sound = r.sound /\ a.resorted = r.resorted /\ a.st \in {"row", "eof"}
      /\ a.st = "row" => ToCome(a, content) = ToCome(r, content)
      /\ a.st = "eof" => a.got = ToCome(r, content)
    BY DEF Moved
<1>3. ~r.resorted => Answers(a, ToCome(r, content))
    BY <1>1, <1>2 DEF Answers
<1> QED
    BY <1>2, <1>3 DEF ScanOK

\* A scan starts with nothing returned, and its list or its rows to come.
Started(r, q, values, list, rest) ==
    /\ r \in CurRec /\ r.st = "closed" /\ r.query = q /\ r.values = values /\ r.list = list
    /\ Chosen(r) = Wanted(q, values) /\ OfNulls(r) = Nulls(q, values)
    /\ r.got = <<>> /\ r.resorted = FALSE /\ Counted(r)
    /\ list = NoList => \A content : ToCome(r, content) = rest
    /\ list # NoList => \A content \in Seq(RowNumbers) : ToCome(r, content) = content

LEMMA StartIs ==
    ASSUME NEW q \in Queries, NEW values \in Args[q], NEW list \in Lists \cup {NoList},
           NEW rest \in Seq(RowNumbers), table'.torn \in BOOLEAN
    PROVE  /\ Started(Start(q, values, list, rest), q, values, list, rest)
           /\ Start(q, values, list, rest).sound = ~table'.torn
<1>. DEFINE r == Start(q, values, list, rest)
            S == RowNumbers
<1>1. r = [st |-> "closed", query |-> q, values |-> values, list |-> list, pos |-> 0,
           rest |-> rest, got |-> <<>>, sound |-> ~table'.torn, resorted |-> FALSE]
  <2>1. PICK b : b = ~table'.torn
    OBVIOUS
  <2>2. r = [NewCur EXCEPT !.query = q, !.values = values, !.list = list, !.rest = rest, !.sound = b]
    BY <2>1 DEF Start
  <2> QED
    BY <2>1, <2>2 DEF NewCur
<1>2. values \in Values
    BY DEF Values
<1>3. 0 \in 0..N /\ <<>> \in Seq(S) /\ (~table'.torn) \in BOOLEAN
    BY RowsAre
<1>4. \A w \in Seq(S) : <<>> \o w = w /\ SubSeq(w, 0 + 1, Len(w)) = w
  <2>. HIDE DEF S
  <2>1. ASSUME NEW w \in Seq(S) PROVE <<>> \o w = w /\ SubSeq(w, 0 + 1, Len(w)) = w
    BY ConcatEmptySeq, SubSeqFull
  <2> QED
    BY <2>1
<1>. HIDE DEF r
<1>5. r \in CurRec
    BY <1>1, <1>2, <1>3 DEF CurRec
<1>6. /\ r.st = "closed" /\ r.query = q /\ r.values = values /\ r.list = list
      /\ r.sound = ~table'.torn /\ r.got = <<>> /\ r.pos = 0 /\ r.rest = rest
      /\ r.resorted = FALSE
    BY <1>1
<1>7. Chosen(r) = Wanted(q, values) /\ OfNulls(r) = Nulls(q, values) /\ Counted(r)
  <2>1. Len(<<>>) = 0
    OBVIOUS
  <2>2. Counted(r)
    BY <1>6, <2>1 DEF Counted
  <2> QED
    BY <1>6, <2>2, ChosenIs
<1>8. list = NoList => \A content : ToCome(r, content) = rest
    BY <1>4, <1>6 DEF ToCome
<1>9. ASSUME list # NoList, NEW content \in Seq(S) PROVE ToCome(r, content) = content
  <2>1. ToCome(r, content) = <<>> \o SubSeq(content, 0 + 1, Len(content))
    BY <1>6, <1>9 DEF ToCome
  <2> QED
    BY <1>4, <2>1
<1> QED
    BY <1>5, <1>6, <1>7, <1>8, <1>9 DEF Started, r

\* Without an order any sequence is ordered.
LEMMA Unordered == \A s : Ordered(s, <<>>)
<1>1. DOMAIN <<>> = {}
    OBVIOUS
<1>2. \A x, y : ~Precedes(x, y, <<>>)
    BY <1>1 DEF Precedes
<1> QED
    BY <1>2 DEF Ordered

\* A scan without constraints goes through the table's list, which has been sorted for it.
LEMMA StartList ==
    ASSUME NEW c \in Cursors, NewTable(c), NEW q \in Queries, NEW values \in Args[q],
           BestIndex(q).cons = <<>>, table'.index = BestIndex(q)
    PROVE  LET r == Start(q, values, table'.data, <<>>)
               content == lists'[table'.data] IN
           /\ r \in CurRec /\ r.list = table'.data /\ r.list # NoList
           /\ ContentOK(r, content) /\ Counted(r) /\ Answers(r, ToCome(r, content))
<1>. DEFINE r == Start(q, values, table'.data, <<>>)
            content == lists'[table'.data]
            p == BestIndex(q)
<1>1. table' \in TableRec /\ Whole(content) /\ IndexOK'
    BY DEF NewTable
<1>2. table'.torn \in BOOLEAN /\ table'.data \in Lists /\ table'.data # NoList /\ <<>> \in Seq(RowNumbers)
    BY <1>1, ListsOK DEF TableRec
<1>3. /\ r \in CurRec /\ r.query = q /\ r.list = table'.data
      /\ r.sound = ~table'.torn /\ Chosen(r) = Wanted(q, values) /\ Counted(r)
      /\ \A w \in Seq(RowNumbers) : ToCome(r, w) = w
  <2>1. Started(r, q, values, table'.data, <<>>) /\ r.sound = ~table'.torn
    BY <1>2, StartIs
  <2>. HIDE DEF r
  <2> QED
    BY <1>2, <2>1 DEF Started
<1>4. content \in Seq(RowNumbers) /\ Len(content) = N /\ IsInjective(content)
    BY <1>1 DEF Whole
<1>5. ToSet(content) = RowNumbers
    BY <1>1, WholeIs
<1>6. Wanted(q, values) = RowNumbers
    BY AllWanted
<1>7. p \in Plans /\ p.order = q.order
    BY DEF Plans, BestIndex
<1>8. ASSUME ~table'.torn PROVE Ordered(content, q.order)
  <2>1. p # NoPlan
    BY <1>7, PlansAre
  <2>2. /\ table'.ordered <=> p.order # <<>>
        /\ table'.ordered => Ordered(content, p.order)
    BY <1>1, <1>8, <2>1 DEF IndexOK, IndexFresh
  <2> QED
    BY <1>7, <2>2, Unordered
<1>. HIDE DEF r, content, p
<1>9. ContentOK(r, content)
    BY <1>4 DEF ContentOK
<1>10. Answers(r, content)
    BY <1>3, <1>4, <1>5, <1>6, <1>8 DEF Answers
<1> QED
    BY <1>2, <1>3, <1>4, <1>9, <1>10 DEF r, content

\* What kdtree.query returns: nothing when the constraints exclude each other.
Matches(t, p, args) == IF Contradict(p.cons, args) THEN {} ELSE Found(t, p, args)

\* A scan with constraints gets the rows of the index.
LEMMA StartIndex ==
    ASSUME NEW c \in Cursors, NewTable(c), NEW q \in Queries, NEW values \in Args[q],
           BestIndex(q).cons # <<>>, table'.index = BestIndex(q),
           NEW found, found = Matches(table', BestIndex(q), Argv(q, values)),
           NEW rest \in IF table'.ordered \/ BestIndex(q).order = <<>> THEN {InOrder(table', found)}
                        ELSE SetToSeqs(found)
    PROVE  LET r == Start(q, values, NoList, rest) IN
           /\ r \in CurRec /\ r.list = NoList
           /\ ContentOK(r, <<>>) /\ Counted(r) /\ Answers(r, ToCome(r, <<>>))
<1>. DEFINE r == Start(q, values, NoList, rest)
            p == BestIndex(q)
            args == Argv(q, values)
<1>1. table' \in TableRec /\ IndexOK'
    BY DEF NewTable
<1>2. /\ table'.torn \in BOOLEAN /\ table'.cols \subseteq DOMAIN Rows[1]
      /\ NoList \in Lists \cup {NoList} /\ <<>> \in Seq(RowNumbers)
    BY <1>1 DEF TableRec
<1>3. p \in Plans /\ p.order = q.order /\ p # NoPlan
  <2>1. p \in Plans /\ p.order = q.order
    BY DEF Plans, BestIndex
  <2> QED
    BY <2>1, PlansAre
<1>4. Whole(table'.tree)
    BY <1>1, <1>3 DEF IndexOK
<1>5. found \in SUBSET RowNumbers
    BY DEF Matches, Found, RowNumbers
<1>6. Wanted(q, values) \subseteq found
  <2>1. Wanted(q, values) \subseteq Found(table', p, args)
    BY <1>2, FoundHasWanted
  <2>2. Contradict(p.cons, args) => Wanted(q, values) = {}
    BY ContradictNone
  <2> QED
    BY <2>1, <2>2 DEF Matches
<1>7. ASSUME ~table'.torn PROVE found \subseteq Wanted(q, values) \cup Nulls(q, values)
  <2>1. table'.cols = Columns(p)
    BY <1>1, <1>3, <1>7 DEF IndexOK, IndexFresh
  <2>2. \A x \in Found(table', p, args) : x \notin Nulls(q, values) => x \in Wanted(q, values)
    BY <2>1, FoundIsWanted
  <2> QED
    BY <2>2 DEF Matches
<1>8. /\ InOrder(table', found) \in Seq(RowNumbers) /\ IsInjective(InOrder(table', found))
      /\ ToSet(InOrder(table', found)) = found
      /\ \A order : Ordered(table'.tree, order) => Ordered(InOrder(table', found), order)
    BY <1>4, <1>5, InOrderIs
<1>9. rest \in Seq(RowNumbers) /\ IsInjective(rest) /\ ToSet(rest) = found
    BY <1>5, <1>8, SeqsAre
<1>10. ASSUME ~table'.torn PROVE Ordered(rest, q.order)
  <2>1. /\ table'.ordered <=> p.order # <<>>
        /\ table'.ordered => Ordered(table'.tree, p.order)
    BY <1>1, <1>3, <1>10 DEF IndexOK, IndexFresh
  <2>2. CASE q.order = <<>>
    BY <2>2, Unordered
  <2>3. CASE q.order # <<>>
    BY <1>3, <1>8, <2>1, <2>3
  <2> QED
    BY <2>2, <2>3
<1>11. /\ r \in CurRec /\ r.query = q /\ r.list = NoList
       /\ r.sound = ~table'.torn /\ Chosen(r) = Wanted(q, values)
       /\ OfNulls(r) = Nulls(q, values) /\ Counted(r)
       /\ \A content : ToCome(r, content) = rest
  <2>1. Started(r, q, values, NoList, rest) /\ r.sound = ~table'.torn
    BY <1>2, <1>9, StartIs
  <2>. HIDE DEF r
  <2> QED
    BY <2>1 DEF Started
<1>. HIDE DEF r, p, args
<1>12. ContentOK(r, <<>>)
    BY <1>2, <1>11 DEF ContentOK
<1>13. Answers(r, rest)
    BY <1>6, <1>7, <1>9, <1>10, <1>11 DEF Answers
<1> QED
    BY <1>11, <1>12, <1>13 DEF r

-----------------------------------------------------------------------------
(* Steps *)

\* What cursor c becomes is as it should be.
GoodCursor(a) ==
    /\ a \in CurRec /\ Counted(a)
    /\ a.list # NoList => Whole(lists'[a.list])
    /\ a.st = "failed" => ~a.sound \/ Chosen(a) = {}

\* The other cursors stay as they are, but a scan whose list was sorted is marked.
LEMMA OthersAre ==
    ASSUME IInv, NEW c \in Cursors, NEW a \in CurRec, cur' = Became(c, a), NEW d \in Cursors \ {c}
    PROVE  /\ cur'[d] \in CurRec
           /\ cur'[d].st = cur[d].st /\ cur'[d].query = cur[d].query /\ cur'[d].values = cur[d].values
           /\ cur'[d].list = cur[d].list /\ cur'[d].pos = cur[d].pos /\ cur'[d].rest = cur[d].rest
           /\ cur'[d].got = cur[d].got /\ cur'[d].sound = cur[d].sound
           /\ cur'[d].resorted => cur[d].resorted \/ cur[d].list = table.data
           /\ ~cur'[d].resorted => ~cur[d].resorted
           /\ ~cur'[d].resorted /\ cur[d].st = "row" /\ cur[d].list = table.data =>
                  lists'[table.data] = lists[table.data]
<1>1. cur[d] \in CurRec
    BY DEF IInv, Types
<1>2. cur'[d] = IF cur[d].st = "row" /\ cur[d].list = table.data /\ lists'[table.data] # lists[table.data]
                THEN [cur[d] EXCEPT !.resorted = TRUE]
                ELSE cur[d]
    BY DEF Became
<1>3. CASE cur[d].st = "row" /\ cur[d].list = table.data /\ lists'[table.data] # lists[table.data]
  <2>1. cur'[d] = [cur[d] EXCEPT !.resorted = TRUE]
    BY <1>2, <1>3
  <2>. DEFINE b == [cur[d] EXCEPT !.resorted = TRUE]
  <2>2. b \in CurRec
    BY <1>1 DEF CurRec
  <2>3. /\ b.st = cur[d].st /\ b.query = cur[d].query /\ b.values = cur[d].values
        /\ b.list = cur[d].list /\ b.pos = cur[d].pos /\ b.rest = cur[d].rest
        /\ b.got = cur[d].got /\ b.sound = cur[d].sound /\ b.resorted = TRUE
    BY <1>1 DEF CurRec
  <2>. HIDE DEF b
  <2>4. cur'[d] = b
    BY <2>1 DEF b
  <2> QED
    BY <1>3, <2>2, <2>3, <2>4
<1>4. CASE ~(cur[d].st = "row" /\ cur[d].list = table.data /\ lists'[table.data] # lists[table.data])
  <2>1. cur'[d] = cur[d]
    BY <1>2, <1>4
  <2>2. cur[d].st = "row" /\ cur[d].list = table.data => lists'[table.data] = lists[table.data]
    BY <1>4
  <2> QED
    BY <1>1, <2>1, <2>2
<1> QED
    BY <1>3, <1>4

\* Nobody's list is sorted when the lists stay as they are.
LEMMA NothingSorted ==
    ASSUME IInv, lists' = lists, NEW c \in Cursors, NEW a, cur' = [cur EXCEPT ![c] = a]
    PROVE  cur' = Became(c, a)
<1>1. cur = [d \in Cursors |-> cur[d]]
    BY DEF IInv, Types
<1>2. cur' = [d \in Cursors |-> IF d = c THEN a ELSE cur[d]]
    BY <1>1
<1> QED
    BY <1>2 DEF Became

\* What holds after the step of a cursor.
Stepped(c) == /\ IInv'
              /\ Answering => Answering'

\* The step of one cursor keeps the invariant, and the answers of the other scans.
LEMMA OneCursor ==
    ASSUME IInv, NEW c \in Cursors, NewTable(c), Undisturbed(c),
           NEW a, cur' = Became(c, a), GoodCursor(a), Answering => ScanOK(a, Content(lists', a))
    PROVE  Stepped(c)
<1>0. a \in CurRec /\ cur'[c] = a /\ DOMAIN cur' = Cursors /\ cur' = [d \in Cursors |-> cur'[d]]
    BY DEF GoodCursor, Became
<1>1. ASSUME NEW d \in Cursors \ {c}
      PROVE  /\ cur'[d] \in CurRec
             /\ cur'[d].st = cur[d].st /\ cur'[d].query = cur[d].query /\ cur'[d].values = cur[d].values
             /\ cur'[d].list = cur[d].list /\ cur'[d].pos = cur[d].pos /\ cur'[d].rest = cur[d].rest
             /\ cur'[d].got = cur[d].got /\ cur'[d].sound = cur[d].sound
             /\ cur'[d].resorted => cur[d].resorted \/ cur[d].list = table.data
             /\ ~cur'[d].resorted => ~cur[d].resorted
             /\ ~cur'[d].resorted /\ cur[d].st = "row" /\ cur[d].list = table.data =>
                    lists'[table.data] = lists[table.data]
    BY <1>0, OthersAre
<1>2. ASSUME NEW d \in Cursors \ {c} PROVE Chosen(cur'[d]) = Chosen(cur[d]) /\ OfNulls(cur'[d]) = OfNulls(cur[d])
    BY <1>1, ChosenIs
<1>3. Types'
  <2>1. \A d \in Cursors : cur'[d] \in CurRec
    BY <1>0, <1>1
  <2>2. lists' \in [Lists -> Seq(RowNumbers)] /\ table' \in TableRec
    BY DEF NewTable
  <2> QED
    BY <1>0, <2>1, <2>2 DEF Types
<1>4. ListsWhole'
  <2>1. Whole(lists'[table'.data])
    BY DEF NewTable
  <2>2. ASSUME NEW d \in Cursors, cur'[d].list # NoList PROVE Whole(lists'[cur'[d].list])
    BY <1>0, <1>1, <2>2 DEF NewTable, GoodCursor
  <2> QED
    BY <2>1, <2>2 DEF ListsWhole
<1>5. FailsOnEmpty'
  <2>1. ASSUME NEW d \in Cursors, cur'[d].st = "failed"
        PROVE  ~cur'[d].sound \/ Chosen(cur'[d]) = {}
    BY <1>0, <1>1, <1>2, <2>1 DEF IInv, FailsOnEmpty, GoodCursor
  <2> QED
    BY <2>1 DEF FailsOnEmpty, Chosen
<1>6. ASSUME NEW d \in Cursors PROVE Counted(cur'[d])
  <2>1. CASE d = c
    BY <1>0, <2>1 DEF GoodCursor
  <2>2. CASE d # c
    <3>1. Counted(cur[d])
      BY DEF IInv
    <3>2. table.data # NoList
      BY ListsOK DEF IInv, Types, TableRec
    <3> QED
      BY <1>1, <2>2, <3>1, <3>2 DEF Counted
  <2> QED
    BY <2>1, <2>2
<1>7. IInv'
    BY <1>3, <1>4, <1>5, <1>6 DEF NewTable, IInv, Counted
<1>8. ASSUME Answering, NEW d \in Cursors PROVE ScanOK(cur'[d], Content(lists', cur'[d]))
  <2>1. CASE d = c
    BY <1>0, <1>8, <2>1
  <2>2. CASE d # c
    <3>1. ScanOK(cur[d], Content(lists, cur[d]))
      BY <1>8 DEF Answering
    <3>2. ASSUME cur[d].st = "row", ~cur'[d].resorted
          PROVE  Content(lists', cur'[d]) = Content(lists, cur[d])
      <4>1. cur'[d].list = cur[d].list
        BY <1>1, <2>2
      <4>2. CASE cur[d].list = NoList
        BY <4>1, <4>2 DEF Content
      <4>3. CASE cur[d].list # NoList /\ cur[d].list # table.data
        <5>1. lists'[cur[d].list] = lists[cur[d].list]
          BY <2>2, <4>3 DEF Undisturbed
        <5> QED
          BY <4>1, <4>3, <5>1 DEF Content
      <4>4. CASE cur[d].list # NoList /\ cur[d].list = table.data
        <5>1. lists'[table.data] = lists[table.data]
          BY <1>1, <2>2, <3>2, <4>4
        <5> QED
          BY <4>1, <4>4, <5>1 DEF Content
      <4> QED
        BY <4>2, <4>3, <4>4
    <3>3. \A content : ToCome(cur'[d], content) = ToCome(cur[d], content)
      BY <1>1, <2>2 DEF ToCome
    <3>4. \A w : Answers(cur[d], w) => Answers(cur'[d], w)
      BY <1>1, <1>2, <2>2 DEF Answers
    <3>5. cur'[d].st = cur[d].st /\ cur'[d].got = cur[d].got /\ (~cur'[d].resorted => ~cur[d].resorted)
      BY <1>1, <2>2
    <3>6. CASE cur[d].st = "row" /\ ~cur'[d].resorted
      <4>1. Answers(cur[d], ToCome(cur[d], Content(lists, cur[d])))
        BY <3>1, <3>5, <3>6 DEF ScanOK
      <4>2. Answers(cur'[d], ToCome(cur'[d], Content(lists', cur'[d])))
        BY <3>2, <3>3, <3>4, <3>6, <4>1
      <4> QED
        BY <3>5, <3>6, <4>2 DEF ScanOK
    <3>7. CASE ~(cur[d].st = "row" /\ ~cur'[d].resorted)
      BY <3>1, <3>4, <3>5, <3>7 DEF ScanOK
    <3> QED
      BY <3>6, <3>7
  <2> QED
    BY <2>1, <2>2
<1>9. Answering => Answering'
    BY <1>8 DEF Answering, ScanOK, Content, Answers, ToCome, Chosen, OfNulls
<1> QED
    BY <1>7, <1>9 DEF Stepped

\* A scan that could start is one of those of a plan.
LEMMA FilterOK ==
    ASSUME IInv, NEW c \in Cursors, NEW q \in Queries, NEW values \in Args[q], Filter(c, q, values)
    PROVE  Stepped(c)
<1>. DEFINE p == BestIndex(q)
            args == Argv(q, values)
            found == Matches(table', p, args)
<1>1. Indexed(c, p)
    BY DEF Filter, consdict
<1>2. NewTable(c) /\ table'.index = p /\ Undisturbed(c)
  <2>1. p \in Plans
    BY DEF Plans
  <2> QED
    BY <1>1, <2>1, IndexedOK
<1>3. ASSUME NEW a, cur' = Became(c, a), GoodCursor(a), ScanOK(a, Content(lists', a)) PROVE Stepped(c)
    BY <1>2, <1>3, OneCursor
<1>4. CASE p.cons = <<>>
  <2>. DEFINE r == Start(q, values, table'.data, <<>>)
              content == lists'[table'.data]
              a == Advance(r, content)
  <2>1. cur' = Became(c, a)
    BY <1>4 DEF Filter, consdict
  <2>2. /\ r \in CurRec /\ r.list = table'.data /\ r.list # NoList
        /\ ContentOK(r, content) /\ Counted(r) /\ Answers(r, ToCome(r, content))
    BY <1>2, <1>4, StartList
  <2>3. Whole(content)
    BY <1>2 DEF NewTable
  <2>. HIDE DEF r
  <2>4. Moved(r, a, content) /\ ScanOK(a, content)
    <3>. HIDE DEF content
    <3> QED
      BY <2>2, AdvanceIs, MovedOK
  <2>. HIDE DEF a
  <2>5. Content(lists', a) = content /\ a.list = table'.data
    BY <2>2, <2>4 DEF Content, Moved
  <2>6. GoodCursor(a)
    BY <2>3, <2>4, <2>5 DEF GoodCursor, Moved
  <2> QED
    BY <1>3, <2>1, <2>4, <2>5, <2>6
<1>5. CASE p.cons # <<>>
  <2>1. PICK rest \in IF table'.ordered \/ p.order = <<>> THEN {InOrder(table', found)}
                      ELSE SetToSeqs(found) :
            cur' = Became(c, Advance(Start(q, values, NoList, rest), <<>>))
    BY <1>5 DEF Filter, Matches, consdict
  <2>. DEFINE r == Start(q, values, NoList, rest)
              a == Advance(r, <<>>)
  <2>2. r \in CurRec /\ r.list = NoList /\ ContentOK(r, <<>>) /\ Counted(r) /\ Answers(r, ToCome(r, <<>>))
    BY <1>2, <1>5, <2>1, StartIndex
  <2>. HIDE DEF r
  <2>3. Moved(r, a, <<>>) /\ ScanOK(a, <<>>)
    BY <2>2, AdvanceIs, MovedOK
  <2>4. cur' = Became(c, a)
    BY <2>1 DEF r
  <2>. HIDE DEF a
  <2>5. Content(lists', a) = <<>> /\ a.list = NoList
    BY <2>2, <2>3 DEF Content, Moved
  <2>6. GoodCursor(a)
    BY <2>3, <2>5 DEF GoodCursor, Moved
  <2> QED
    BY <1>3, <2>3, <2>4, <2>5, <2>6
<1> QED
    BY <1>4, <1>5

\* Exceptions leave the filter only when nothing is wanted, or the index was torn.
LEMMA FilterFailedOK ==
    ASSUME IInv, NEW c \in Cursors, NEW q \in Queries, NEW values \in Args[q],
           FilterFailed(c, q, values)
    PROVE  Stepped(c)
<1>. DEFINE p == BestIndex(q)
            args == Argv(q, values)
            r == Start(q, values, NoList, <<>>)
            a == [r EXCEPT !.st = "failed"]
<1>1. /\ Indexed(c, p) /\ cur' = Became(c, a)
      /\ Contradict(p.cons, args) \/ ~table'.fits
    BY DEF FilterFailed, consdict
<1>2. NewTable(c) /\ Undisturbed(c)
  <2>1. p \in Plans
    BY DEF Plans
  <2> QED
    BY <1>1, <2>1, IndexedOK
<1>3. /\ table'.torn \in BOOLEAN /\ NoList \in Lists \cup {NoList} /\ <<>> \in Seq(RowNumbers)
      /\ ~table'.fits => table'.torn
    BY <1>2 DEF NewTable, TableRec, IndexOK
<1>4. Started(r, q, values, NoList, <<>>) /\ r.sound = ~table'.torn
    BY <1>3, StartIs
<1>5. Contradict(p.cons, args) => Wanted(q, values) = {}
    BY ContradictNone
<1>6. Wanted(q, values) = {} \/ r.sound = FALSE
    BY <1>1, <1>3, <1>4, <1>5
<1>. HIDE DEF r, p, args
<1>7. /\ r \in CurRec /\ r.list = NoList /\ r.got = <<>> /\ r.resorted = FALSE /\ Chosen(r) = Wanted(q, values)
    BY <1>4 DEF Started
<1>8. /\ a \in CurRec /\ a.st = "failed" /\ a.list = NoList /\ a.got = <<>>
      /\ a.query = r.query /\ a.values = r.values /\ a.sound = r.sound /\ a.resorted = FALSE
    BY <1>7 DEF CurRec
<1>9. Chosen(a) = Chosen(r)
    BY <1>8 DEF Chosen
<1>. HIDE DEF a
<1>10. GoodCursor(a)
    BY <1>6, <1>7, <1>8, <1>9 DEF GoodCursor, Counted
<1>11. ScanOK(a, Content(lists', a))
    BY <1>8 DEF ScanOK
<1> QED
    BY <1>1, <1>2, <1>10, <1>11, OneCursor

\* A new cursor, and one that was interrupted, have returned nothing.
LEMMA NewCurIs ==
    /\ NewCur \in CurRec /\ NewCur.st = "closed" /\ NewCur.list = NoList /\ NewCur.got = <<>>
    /\ Interrupted \in CurRec /\ Interrupted.st = "failed" /\ Interrupted.list = NoList
    /\ Interrupted.got = <<>> /\ Interrupted.sound = FALSE
    /\ NewCur.resorted = FALSE /\ Interrupted.resorted = FALSE
<1>1. 0 \in 0..N /\ <<>> \in Seq(RowNumbers) /\ <<>> \in Values /\ NoQuery \in Queries \cup {NoQuery}
    BY RowsAre DEF Values
<1>2. NewCur \in CurRec
    BY <1>1 DEF NewCur, CurRec
<1>3. Interrupted \in CurRec
    BY <1>2 DEF Interrupted, CurRec
<1> QED
    BY <1>2, <1>3 DEF NewCur, Interrupted

\* A closed cursor and an interrupted one hold nothing.
LEMMA InterruptOK ==
    /\ GoodCursor(Interrupted) /\ ScanOK(Interrupted, Content(lists', Interrupted))
    /\ GoodCursor(NewCur) /\ ScanOK(NewCur, Content(lists', NewCur))
BY NewCurIs DEF GoodCursor, Counted, ScanOK

LEMMA FilterInterruptedOK ==
    ASSUME IInv, NEW c \in Cursors, NEW p \in Plans, FilterInterrupted(c, p)
    PROVE  Stepped(c)
<1>1. NewTable(c) /\ Undisturbed(c)
    BY InterruptedOK
<1>2. cur' = Became(c, Interrupted)
    BY DEF FilterInterrupted
<1> QED
    BY <1>1, <1>2, InterruptOK, OneCursor

LEMMA NextStepOK ==
    ASSUME IInv, NEW c \in Cursors, Next_(c)
    PROVE  Stepped(c)
<1>. DEFINE r == cur[c]
            content == Content(lists, r)
            a == Advance(r, content)
<1>1. lists' = lists /\ table' = table /\ r.st = "row" /\ NewTable(c) /\ Undisturbed(c)
    BY NotCalculated DEF Next_
<1>2. r \in CurRec /\ Counted(r) /\ (r.list # NoList => Whole(lists[r.list]))
    BY DEF IInv, Types, ListsWhole
<1>3. CASE cur' = [cur EXCEPT ![c] = a]
  <2>1. ContentOK(r, content)
    BY <1>2 DEF Whole, Content, ContentOK
  <2>. HIDE DEF r, content
  <2>2. Moved(r, a, content)
    BY <1>2, <2>1, AdvanceIs
  <2>3. Answering => (~r.resorted => Answers(r, ToCome(r, content)))
    BY <1>1 DEF Answering, ScanOK, r, content
  <2>4. Answering => ScanOK(a, content)
    BY <2>2, <2>3, MovedOK
  <2>. HIDE DEF a
  <2>5. Content(lists', a) = content
    BY <1>1, <2>2 DEF Content, Moved, content
  <2>6. GoodCursor(a)
    BY <1>1, <1>2, <2>2 DEF GoodCursor, Moved
  <2>7. cur' = Became(c, a)
    BY <1>1, <1>3, NothingSorted
  <2> QED
    BY <1>1, <2>4, <2>5, <2>6, <2>7, OneCursor
<1>4. CASE cur' = [cur EXCEPT ![c] = Interrupted]
  <2>1. cur' = Became(c, Interrupted)
    BY <1>1, <1>4, NothingSorted
  <2> QED
    BY <1>1, <2>1, InterruptOK, OneCursor
<1> QED
    BY <1>3, <1>4 DEF Next_, Content

LEMMA OpenOK ==
    ASSUME IInv, NEW c \in Cursors, Open(c)
    PROVE  Stepped(c)
<1>. DEFINE a == [cur[c] EXCEPT !.st = "open"]
<1>1. lists' = lists /\ cur[c].st = "closed" /\ NewTable(c) /\ Undisturbed(c)
    BY NotCalculated DEF Open
<1>2. cur[c] \in CurRec /\ Counted(cur[c]) /\ cur \in [Cursors -> CurRec] /\ (cur[c].list # NoList => Whole(lists[cur[c].list]))
    BY DEF IInv, Types, ListsWhole
<1>3. cur' = [cur EXCEPT ![c] = a]
    BY <1>2 DEF Open
<1>4. a \in CurRec /\ a.st = "open" /\ a.list = cur[c].list /\ a.got = cur[c].got
      /\ a.pos = cur[c].pos /\ a.resorted = cur[c].resorted
    BY <1>2 DEF CurRec
<1>. HIDE DEF a
<1>5. GoodCursor(a) /\ cur' = Became(c, a)
    BY <1>1, <1>2, <1>3, <1>4, NothingSorted DEF GoodCursor, Counted
<1>6. Answering => ScanOK(a, Content(lists', a))
    BY <1>1, <1>4 DEF Answering, ScanOK
<1> QED
    BY <1>1, <1>5, <1>6, OneCursor

LEMMA CloseOK ==
    ASSUME IInv, NEW c \in Cursors, Close(c)
    PROVE  Stepped(c)
<1>1. NewTable(c) /\ Undisturbed(c)
    BY NotCalculated DEF Close
<1>2. cur' = Became(c, NewCur)
    BY NothingSorted DEF Close
<1> QED
    BY <1>1, <1>2, InterruptOK, OneCursor

\* The table starts with its rows in the order of the query it caches.
LEMMA InitOK == Init => IInv /\ Answering
<1> SUFFICES ASSUME Init PROVE IInv /\ Answering
    OBVIOUS
<1>1. PICK l \in Lists :
          /\ lists = [i \in Lists |-> IF i = l THEN Identity ELSE <<>>]
          /\ table = [data |-> l, index |-> NoPlan, ordered |-> FALSE, fits |-> TRUE,
                      tree |-> <<>>, cols |-> {}, torn |-> FALSE]
          /\ cur = [c \in Cursors |-> NewCur]
    BY DEF Init
<1>2. Whole(Identity)
  <2>1. N \in Nat /\ RowNumbers = 1..N
    BY RowsAre
  <2>2. Identity = [r \in 1..N |-> r]
    BY <2>1 DEF Identity, RowNumbers
  <2>3. Identity \in [1..N -> RowNumbers]
    BY <2>1, <2>2
  <2>4. IsInjective(Identity)
    BY <2>2 DEF IsInjective
  <2>. HIDE DEF Identity
  <2> QED
    BY <2>1, <2>2, <2>3, <2>4 DEF Whole
<1>3. lists[l] = Identity /\ lists \in [Lists -> Seq(RowNumbers)]
    BY <1>1, <1>2 DEF Whole
<1>4. /\ table \in TableRec /\ table.data = l /\ table.index = NoPlan /\ table.fits = TRUE
    BY <1>1 DEF TableRec
<1>5. \A c \in Cursors : cur[c] = NewCur
    BY <1>1
<1>6. Types
    BY <1>1, <1>3, <1>4, NewCurIs DEF Types
<1>7. ListsWhole
    BY <1>2, <1>3, <1>4, <1>5, NewCurIs DEF ListsWhole
<1>8. IndexOK
    BY <1>4 DEF IndexOK, IndexFresh
<1>9. FailsOnEmpty
    BY <1>5, NewCurIs DEF FailsOnEmpty
<1>10. Answering /\ \A c \in Cursors : Counted(cur[c])
    BY <1>5, NewCurIs DEF Answering, ScanOK, Counted
<1> QED
    BY <1>6, <1>7, <1>8, <1>9, <1>10 DEF IInv

\* Every step keeps the invariant, and the answers.
LEMMA NextOK ==
    ASSUME IInv, [Next]_vars
    PROVE  IInv' /\ (Answering => Answering')
<1>1. ASSUME NEW c \in Cursors, Open(c) PROVE Stepped(c)
    BY <1>1, OpenOK
<1>2. ASSUME NEW c \in Cursors, NEW q \in Queries, NEW values \in Args[q], Filter(c, q, values)
      PROVE  Stepped(c)
    BY <1>2, FilterOK
<1>3. ASSUME NEW c \in Cursors, NEW q \in Queries, NEW values \in Args[q], FilterFailed(c, q, values)
      PROVE  Stepped(c)
    BY <1>3, FilterFailedOK
<1>4. ASSUME NEW c \in Cursors, NEW p \in Plans, FilterInterrupted(c, p) PROVE Stepped(c)
    BY <1>4, FilterInterruptedOK
<1>5. ASSUME NEW c \in Cursors, Next_(c) PROVE Stepped(c)
    BY <1>5, NextStepOK
<1>6. ASSUME NEW c \in Cursors, Close(c) PROVE Stepped(c)
    BY <1>6, CloseOK
<1>7. CASE UNCHANGED vars
  <2>1. lists' = lists /\ table' = table /\ cur' = cur
    BY <1>7 DEF vars
  <2>2. IInv'
    BY <2>1 DEF IInv, Types, ListsWhole, IndexOK, IndexFresh, FailsOnEmpty, Counted
  <2>3. Answering => Answering'
    BY <2>1 DEF Answering
  <2> QED
    BY <2>2, <2>3
<1>8. CASE Next
  <2>1. PICK c \in Cursors :
            \/ Open(c)
            \/ \E q \in Queries : \E values \in Args[q] : Filter(c, q, values) \/ FilterFailed(c, q, values)
            \/ \E p \in Plans : FilterInterrupted(c, p)
            \/ Next_(c)
            \/ Close(c)
    BY <1>8 DEF Next
  <2>2. Stepped(c)
    BY <1>1, <1>2, <1>3, <1>4, <1>5, <1>6, <2>1
  <2> QED
    BY <2>2 DEF Stepped
<1> QED
    BY <1>7, <1>8

-----------------------------------------------------------------------------
(* What a scan has returned *)

\* The rows returned come first among those to come.
LEMMA StartOfAnswer ==
    ASSUME NEW S, NEW u \in Seq(S), NEW w \in Seq(S)
    PROVE  /\ IsInjective(u \o w) => IsInjective(u)
           /\ ToSet(u) \subseteq ToSet(u \o w)
           /\ \A order : Ordered(u \o w, order) => Ordered(u, order)
<1>. DEFINE a == u \o w
<1>1. PICK m \in Nat, n \in Nat : m = Len(u) /\ n = Len(w)
    OBVIOUS
<1>2. DOMAIN u = 1..m /\ DOMAIN a = 1..(m + n) /\ \A i \in 1..m : i \in 1..(m + n) /\ a[i] = u[i]
  <2>1. /\ a \in Seq(S) /\ Len(a) = m + n
        /\ \A i \in 1..(m + n) : a[i] = IF i <= m THEN u[i] ELSE w[i - m]
    BY <1>1, ConcatProperties
  <2>. HIDE DEF a
  <2>2. \A i \in 1..m : i \in 1..(m + n) /\ i <= m
    OBVIOUS
  <2> QED
    BY <1>1, <2>1, <2>2
<1>. HIDE DEF a
<1>3. IsInjective(a) => IsInjective(u)
    BY <1>2 DEF IsInjective
<1>4. ToSet(u) \subseteq ToSet(a)
    BY <1>2 DEF ToSet
<1>5. \A order : Ordered(a, order) => Ordered(u, order)
    BY <1>2 DEF Ordered
<1> QED
    BY <1>3, <1>4, <1>5 DEF a

\* What Answering says of one scan.
LEMMA Answered ==
    ASSUME IInv, Answering, NEW c \in Cursors
    PROVE  LET s == cur[c] IN
           ~s.resorted =>
               /\ IsInjective(s.got)
               /\ s.st = "eof" => Chosen(s) \subseteq ToSet(s.got)
               /\ s.sound => /\ ToSet(s.got) \subseteq Chosen(s) \cup OfNulls(s)
                             /\ Ordered(s.got, s.query.order)
<1>. DEFINE s == cur[c]
            content == Content(lists, s)
            rest == IF s.list # NoList THEN SubSeq(content, s.pos + 1, Len(content)) ELSE s.rest
<1>1. s \in CurRec /\ (s.list # NoList => Whole(lists[s.list])) /\ ScanOK(s, content)
    BY DEF IInv, Types, ListsWhole, Answering
<1>2. s.got \in Seq(RowNumbers) /\ rest \in Seq(RowNumbers)
  <2>1. s.got \in Seq(RowNumbers) /\ s.rest \in Seq(RowNumbers)
    BY <1>1 DEF CurRec
  <2>2. ASSUME s.list # NoList PROVE SubSeq(content, s.pos + 1, Len(content)) \in Seq(RowNumbers)
    <3>1. content \in Seq(RowNumbers) /\ Len(content) = N /\ s.pos \in 0..N
      BY <1>1, <2>2 DEF Whole, Content, CurRec
    <3>. HIDE DEF content, s
    <3> QED
      BY <3>1, NextOfList
  <2> QED
    BY <2>1, <2>2
<1>3. ToCome(s, content) = s.got \o rest
    BY DEF ToCome
<1>. HIDE DEF s, content, rest
<1>4. CASE s.st = "row"
  <2>1. ~s.resorted => Answers(s, s.got \o rest)
    BY <1>1, <1>3, <1>4 DEF ScanOK
  <2>2. /\ IsInjective(s.got \o rest) => IsInjective(s.got)
        /\ ToSet(s.got) \subseteq ToSet(s.got \o rest)
        /\ \A order : Ordered(s.got \o rest, order) => Ordered(s.got, order)
    BY <1>2, StartOfAnswer
  <2> QED
    BY <1>4, <2>1, <2>2 DEF Answers, s
<1>5. CASE s.st = "eof"
    BY <1>1, <1>5 DEF ScanOK, Answers, s
<1>6. CASE s.st \notin {"row", "eof"}
  <2>1. s.got = <<>>
    BY <1>1, <1>6 DEF ScanOK
  <2>2. DOMAIN s.got = {}
    BY <2>1
  <2> QED
    BY <1>6, <2>2 DEF IsInjective, ToSet, Ordered, s
<1> QED
    BY <1>4, <1>5, <1>6

-----------------------------------------------------------------------------
(* Theorems *)

\* The invariant holds.
LEMMA InvariantHolds == Spec => []IInv
<1>1. Init => IInv
    BY InitOK
<1>2. IInv /\ [Next]_vars => IInv'
    BY NextOK
<1> QED
    BY <1>1, <1>2, PTL DEF Spec

\* So do the answers.
LEMMA AnswersHold == Spec => [](IInv /\ Answering)
<1>1. Init => IInv /\ Answering
    BY InitOK
<1>2. IInv /\ Answering /\ [Next]_vars => (IInv /\ Answering)'
    BY NextOK
<1> QED
    BY <1>1, <1>2, PTL DEF Spec

\* Types are kept, and every list in use is a permutation of the rows: however many scans
\* sort, index and are interrupted, the table neither loses a row nor doubles one.
THEOREM TypesOK == Spec => []TypeOK
<1>1. IInv => TypeOK
  <2> SUFFICES ASSUME IInv PROVE TypeOK
    OBVIOUS
  <2>1. lists \in [Lists -> Seq(RowNumbers)] /\ table \in TableRec /\ cur \in [Cursors -> CurRec]
    BY DEF IInv, Types
  <2>2. /\ table.data \in Lists /\ table.index \in Plans \cup {NoPlan}
        /\ {table.ordered, table.fits, table.torn} \subseteq BOOLEAN
        /\ table.tree \in Seq(RowNumbers) /\ table.cols \subseteq DOMAIN Rows[1]
    BY <2>1 DEF TableRec
  <2>3. ASSUME NEW c \in Cursors
        PROVE  /\ cur[c].st \in {"closed", "open", "row", "eof", "failed"}
               /\ cur[c].list \in Lists \cup {NoList} /\ cur[c].pos \in 0..Len(Rows)
               /\ cur[c].rest \in Seq(RowNumbers) /\ cur[c].got \in Seq(RowNumbers)
    BY <2>1 DEF CurRec, N
  <2>4. ASSUME NEW l \in ({table.data} \cup {cur[c].list : c \in Cursors}) \ {NoList}
        PROVE  Len(lists[l]) = Len(Rows) /\ IsInjective(lists[l])
    <3>1. Whole(lists[l])
      BY DEF IInv, ListsWhole
    <3> QED
      BY <3>1 DEF Whole, N
  <2> QED
    BY <2>1, <2>2, <2>3, <2>4 DEF TypeOK
<1> QED
    BY <1>1, InvariantHolds, PTL

\* An index calculated to its end is that of lastcalculatedidx, its columns and its order,
\* whatever was sorted or interrupted before: BestIndex need not calculate it anew.
THEOREM IndexAlwaysFresh == Spec => []IndexFresh
<1>1. IInv => IndexFresh
    BY DEF IInv, IndexOK
<1> QED
    BY <1>1, InvariantHolds, PTL

\* An exception out of Filter, other than an interrupt, loses no row: there was none to
\* return, or an interrupted calculation had left rows without positions.
THEOREM FailsOnlyEmpty == Spec => []FailsOnEmpty
<1>1. IInv => FailsOnEmpty
    BY DEF IInv
<1> QED
    BY <1>1, InvariantHolds, PTL

\* A scan whose list no other cursor sorts while it is reading returns no row twice and
\* misses none at its end, with a half-calculated index, too; one whose list was sorted
\* returns as many rows as there are.
THEOREM RowsAlwaysKept == Spec => []RowsKept
<1>1. IInv /\ Answering => RowsKept
  <2> SUFFICES ASSUME IInv, Answering, NEW c \in Cursors
               PROVE  /\ ~cur[c].resorted => IsInjective(cur[c].got)
                      /\ cur[c].st = "eof" => IF cur[c].resorted THEN Len(cur[c].got) = Len(Rows)
                                             ELSE Chosen(cur[c]) \subseteq ToSet(cur[c].got)
    BY DEF RowsKept
  <2>1. cur[c].st = "eof" /\ cur[c].resorted => Len(cur[c].got) = Len(Rows)
    BY DEF IInv, Counted, N
  <2> QED
    BY <2>1, Answered
<1> QED
    BY <1>1, AnswersHold, PTL

\* A scan returns what SQLite has left to it, the rows its terms select in the order agreed
\* to and of the others only such as a NULL was compared of, unless an interrupt has hit it
\* or the calculation of its index, or another cursor has sorted the list it was reading.
THEOREM ScansAnswer == Spec => []ScanAnswers
<1>1. IInv /\ Answering => ScanAnswers
  <2> SUFFICES ASSUME IInv, Answering, NEW c \in Cursors,
                      cur[c].sound, ~cur[c].resorted, cur[c].st \in {"row", "eof"}
               PROVE  /\ IsInjective(cur[c].got)
                      /\ ToSet(cur[c].got) \subseteq Chosen(cur[c]) \cup OfNulls(cur[c])
                      /\ Ordered(cur[c].got, cur[c].query.order)
                      /\ cur[c].st = "eof" => Chosen(cur[c]) \subseteq ToSet(cur[c].got)
    BY DEF ScanAnswers
  <2> QED
    BY Answered
<1> QED
    BY <1>1, AnswersHold, PTL

================================================================================
