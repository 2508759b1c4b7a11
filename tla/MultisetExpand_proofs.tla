------------------------- MODULE MultisetExpand_proofs -------------------------
(***************************************************************************)
(* Whatever the query and however many rows it has, expand uses its cursor *)
(* as StmtCursor describes, so what is proved of cursors holds of expand.  *)
(* From that, what expand yields and which generators stay registered, for *)
(* every query that does not have a single row, when no step fails.        *)
(***************************************************************************)
EXTENDS MultisetExpand, StmtCursor_proofs, Integers, FiniteSetTheorems

-----------------------------------------------------------------------------
(***************************************************************************)
(* Induction and recursion on the natural numbers.  The library's theorems *)
(* have a predicate as a parameter; here a set stands for it, of whose     *)
(* counterexamples one is the smallest.                                    *)
(***************************************************************************)

\* Every nonempty set of natural numbers has a smallest one.
LEMMA Smallest ==
    ASSUME NEW S \in SUBSET Nat, S # {}
    PROVE  \E m \in S : \A n \in S : m <= n
<1>1. PICK x \in S : TRUE
    OBVIOUS
<1>. DEFINE U == 0..x
            F == {0..n : n \in {k \in S : k <= x}}
<1>2. IsFiniteSet(U)
    BY FS_Interval
<1>3. F \subseteq SUBSET U /\ F # {}
    BY <1>1
<1>4. IsWellFoundedOn(StrictSubsetOrdering(U), FiniteSubsetsOf(U))
    BY FS_StrictSubsetOrderingWellFounded
<1>5. F \subseteq FiniteSubsetsOf(U)
    BY <1>2, <1>3, FS_FiniteSubsetsOfFinite
<1>. HIDE DEF F, U
<1>6. PICK A \in F : \A B \in F : ~(<<B, A>> \in StrictSubsetOrdering(U))
    BY <1>3, <1>4, <1>5, WFMin
<1>7. PICK m \in S : m <= x /\ A = 0..m
    BY <1>6 DEF F
<1>8. ASSUME NEW n \in S, n < m PROVE FALSE
  <2>1. 0..n \in F
     BY <1>1, <1>7, <1>8 DEF F
  <2>2. 0..n \subseteq 0..m /\ 0..n # 0..m
    BY <1>7, <1>8
  <2>3. 0..n \in SUBSET U /\ A \in SUBSET U
    BY <1>3, <1>6, <2>1
  <2> QED
    BY <1>6, <1>7, <2>1, <2>2, <2>3 DEF StrictSubsetOrdering
<1> QED
    BY <1>8

\* A set of natural numbers with 0 and the successors of its elements is all.
LEMMA Induction ==
    ASSUME NEW S \in SUBSET Nat, 0 \in S, \A n \in S : n + 1 \in S
    PROVE  S = Nat
<1> SUFFICES ASSUME Nat \ S # {} PROVE FALSE
    OBVIOUS
<1>1. PICK m \in Nat \ S : \A n \in Nat \ S : m <= n
  <2>1. Nat \ S \in SUBSET Nat
    OBVIOUS
  <2> QED
    BY <2>1, Smallest
<1>2. m - 1 \in Nat /\ m - 1 \in S
    BY <1>1
<1> QED
    BY <1>1, <1>2

\* What a function defined by recursion has for 0..n.
Attempt(S, a, G, n, f) ==
    /\ f \in [0..n -> S] /\ f[0] = a
    /\ \A k \in 0..(n - 1) : f[k + 1] = G[k][f[k]]

\* The ways to go on from S to S, one for every step.
Steps(S) == [Nat -> [S -> S]]

\* f begins with a and goes on as G says.
Iterates(f, S, a, G) ==
    /\ f \in [Nat -> S] /\ f[0] = a
    /\ \A n \in Nat : f[n + 1] = G[n][f[n]]

\* There is a function for every definition by recursion.
LEMMA Recursion ==
    ASSUME NEW S, NEW a \in S, NEW G \in Steps(S)
    PROVE  \E f : Iterates(f, S, a, G)
<1>. DEFINE T(n, f) == Attempt(S, a, G, n, f)
            Has == {n \in Nat : \E f : T(n, f)}
<1>1. Has = Nat
  <2>1. 0 \in Has
    <3>1. T(0, [k \in 0..0 |-> a])
      BY DEF Attempt
    <3> QED
      BY <3>1
  <2>2. ASSUME NEW n \in Has PROVE n + 1 \in Has
    <3>1. PICK f : T(n, f)
      OBVIOUS
    <3>. DEFINE g == [k \in 0..(n + 1) |-> IF k = n + 1 THEN G[n][f[n]] ELSE f[k]]
    <3>2. T(n + 1, g)
      <4>1. G[n][f[n]] \in S
        BY <3>1 DEF Attempt, Steps
      <4>2. g \in [0..(n + 1) -> S] /\ g[0] = a
        BY <3>1, <4>1 DEF Attempt
      <4>3. ASSUME NEW k \in 0..n PROVE g[k + 1] = G[k][g[k]]
        <5>1. /\ k \in 0..(n + 1) /\ k + 1 \in 0..(n + 1)
              /\ k # n + 1 /\ (k + 1 = n + 1 <=> k = n) /\ (k # n => k \in 0..(n - 1))
          OBVIOUS
        <5>2. g[k] = f[k] /\ g[k + 1] = IF k = n THEN G[n][f[n]] ELSE f[k + 1]
          BY <5>1
        <5>. HIDE DEF g
        <5>3. \A j \in 0..(n - 1) : f[j + 1] = G[j][f[j]]
          BY <3>1 DEF Attempt
        <5> QED
          BY <5>1, <5>2, <5>3
      <4>4. 0..((n + 1) - 1) = 0..n
        OBVIOUS
      <4> QED
        BY <4>2, <4>3, <4>4 DEF Attempt
    <3> QED
      BY <3>2
  <2>. HIDE DEF Has
  <2>3. Has \in SUBSET Nat
    BY DEF Has
  <2> QED
    BY <2>1, <2>2, <2>3, Induction
<1>2. ASSUME NEW n \in Nat, NEW m \in Nat, NEW f, NEW g, T(n, f), T(m, g),
             NEW k \in Nat, k <= n, k <= m
      PROVE  f[k] = g[k]
  <2>. DEFINE Same == {j \in Nat : j <= n /\ j <= m => f[j] = g[j]}
  <2>1. 0 \in Same
    BY <1>2 DEF Attempt
  <2>2. ASSUME NEW j \in Same PROVE j + 1 \in Same
    <3> SUFFICES ASSUME j + 1 <= n, j + 1 <= m PROVE f[j + 1] = g[j + 1]
      OBVIOUS
    <3>1. f[j] = g[j] /\ j \in 0..(n - 1) /\ j \in 0..(m - 1)
      OBVIOUS
    <3> QED
      BY <1>2, <3>1 DEF Attempt
  <2>3. Same = Nat
    <3>. HIDE DEF Same
    <3>1. Same \in SUBSET Nat
      BY DEF Same
    <3> QED
      BY <2>1, <2>2, <3>1, Induction
  <2> QED
    BY <1>2, <2>3
<1>. DEFINE best(n) == CHOOSE f : T(n, f)
            F == [n \in Nat |-> best(n)[n]]
<1>3. \A n \in Nat : T(n, best(n))
    BY <1>1
<1>. HIDE DEF T, best, Has
<1>4. \A n \in Nat : best(n)[n] \in S
    BY <1>3 DEF T, Attempt
<1>5. F \in [Nat -> S]
    BY <1>4
<1>6. F[0] = a
    BY <1>3 DEF T, Attempt
<1>7. ASSUME NEW n \in Nat PROVE F[n + 1] = G[n][F[n]]
  <2>1. T(n + 1, best(n + 1)) /\ T(n, best(n))
    BY <1>3
  <2>2. best(n + 1)[n] = best(n)[n]
    BY <1>2, <2>1
  <2>3. best(n + 1)[n + 1] = G[n][best(n + 1)[n]]
    BY <2>1 DEF T, Attempt
  <2> QED
    BY <2>2, <2>3
<1> QED
    BY <1>5, <1>6, <1>7 DEF Iterates

-----------------------------------------------------------------------------
(* Expand as a user of its cursor *)

\* The text that is expanded is one that readers execute.
Expandable == query.sql \in Given

LEMMA XInitOK == XInit => Expandable
<1> SUFFICES ASSUME XInit PROVE query.sql \in Given
    BY DEF Expandable
<1>1. PICK q \in Given : query \in [sql : {q}, named : BOOLEAN,
                                    sizes : [1..RowCount[q] -> [1..Columns -> Sizes]]]
    BY DEF XInit, Queries
<1> QED
    BY <1>1

LEMMA XNextOK == Expandable /\ [XNext]_<<vars, xvars>> => Expandable' /\ [Next]_vars
<1> SUFFICES ASSUME Expandable, [XNext]_<<vars, xvars>> PROVE UNCHANGED query /\ [Next]_vars
    BY DEF Expandable
<1>0. Reader \in Cursors
    BY ConstantsOK, ExpandOK
<1>1. CASE XExecute
    BY <1>0, <1>1 DEF XExecute, Expandable, Next, Call
<1>2. CASE XExecuted
    BY <1>2 DEF XExecuted, Next, Return
<1>3. CASE XIterate
    BY <1>0, <1>3 DEF XIterate, Next, Call
<1>4. CASE XFetch
    BY <1>0, <1>4 DEF XFetch, Next, Call, Resume, xvars
<1>5. CASE XFetched
    BY <1>5 DEF XFetched, Next, Return
<1>6. CASE XEmpty
    BY <1>0, <1>6 DEF XEmpty, Next, Call, Resume
<1>7. CASE XEnd
    BY <1>0, <1>7 DEF XEnd, Next, Call, Resume
<1>8. CASE XFirst \/ XRow \/ XExpand
    BY <1>8 DEF XFirst, XRow, XExpand
<1>9. CASE XAbandon
    BY <1>0, <1>9 DEF XAbandon, Next, Call
<1>10. CASE Other
    BY <1>10 DEF Other, Next, Call, xvars
<1>11. CASE UNCHANGED <<vars, xvars>>
    BY <1>11 DEF xvars
<1> QED
    BY <1>1, <1>2, <1>3, <1>4, <1>5, <1>6, <1>7, <1>8, <1>9, <1>10, <1>11 DEF XNext

\* Every behaviour of expand, with other cursors at work, is a behaviour of the
\* cursors and statements of apsw.py.
THEOREM ExpandUsesCursors == XSpec => Spec
<1>1. XInit => Init
    BY DEF XInit
<1> QED
    BY <1>1, XInitOK, XNextOK, PTL DEF XSpec, Spec

\* Neither of the two iterators of expand ever steps a finalized statement.
THEOREM ExpandNeverDangles == XSpec => []NothingDangles
BY ExpandUsesCursors, NoneDangles, PTL

-----------------------------------------------------------------------------
(* What a query expands to *)

RowsIn == RowCount[query.sql]

\* A row of the table function.
OutRec == [row : Nat, el : Nat]

LEMMA QueryIs ==
    ASSUME query \in Queries
    PROVE  /\ query.sql \in Given /\ query.sql \in Sqls /\ RowsIn \in Nat
           /\ query.sizes \in [1..RowsIn -> [1..Columns -> Sizes]]
<1>1. PICK q \in Given : query \in [sql : {q}, named : BOOLEAN,
                                    sizes : [1..RowCount[q] -> [1..Columns -> Sizes]]]
    BY DEF Queries
<1> QED
    BY <1>1, ConstantsOK DEF RowsIn

LEMMA ExprownIs ==
    ASSUME query \in Queries, NEW n \in 1..RowsIn
    PROVE  Exprown(n) \in Seq(OutRec)
<1>1. \A i \in 1..Columns : Size(n, i) \in Nat
  <2>1. \A i \in 1..Columns : query.sizes[n][i] \in Sizes
    BY QueryIs
  <2> QED
    BY <2>1, ExpandOK DEF Size
<1>2. n \in Nat /\ n # 0
    BY QueryIs
<1>3. CASE Empty(n) # {}
  <2>1. <<>> \in Seq(OutRec)
    OBVIOUS
  <2> QED
    BY <1>2, <1>3, <2>1 DEF Exprown
<1>4. CASE Empty(n) = {}
  <2>1. PICK m \in Nat : m = Size(n, Columns)
    BY <1>1, ExpandOK
  <2>2. [k \in 1..m |-> [row |-> n, el |-> k]] \in [1..m -> OutRec]
    BY <1>2, <2>1 DEF OutRec
  <2>3. Exprown(n) = [k \in 1..m |-> [row |-> n, el |-> k]]
    BY <1>2, <1>4, <2>1 DEF Exprown
  <2> QED
    BY <2>2, <2>3, SeqDef
<1> QED
    BY <1>3, <1>4

\* Expansion is defined row by row.
LEMMA ExpansionIs ==
    ASSUME query \in Queries
    PROVE  /\ Expansion(0) = <<>>
           /\ \A n \in 0..RowsIn : Expansion(n) \in Seq(OutRec)
           /\ \A n \in 0..RowsIn : n # RowsIn => Expansion(n + 1) = Expansion(n) \o Exprown(n + 1)
<1>0. RowsIn \in Nat
    BY QueryIs
<1>. DEFINE G == [n \in Nat |-> [s \in Seq(OutRec) |->
                    IF n + 1 <= RowsIn THEN s \o Exprown(n + 1) ELSE s]]
            Def(n, g) == g = [k \in 0..n |-> IF k = 0 THEN <<>> ELSE g[k - 1] \o Exprown(k)]
<1>1. ASSUME NEW n \in Nat, NEW s \in Seq(OutRec)
      PROVE  (IF n + 1 <= RowsIn THEN s \o Exprown(n + 1) ELSE s) \in Seq(OutRec)
  <2>1. CASE n + 1 <= RowsIn
    <3>1. n + 1 \in 1..RowsIn
      BY <1>0, <2>1
    <3> QED
      BY <2>1, <3>1, ExprownIs, ConcatProperties
  <2> QED
    BY <2>1
<1>2. /\ G \in [Nat -> [Seq(OutRec) -> Seq(OutRec)]]
      /\ \A n \in Nat : \A s \in Seq(OutRec) :
            G[n][s] = IF n + 1 <= RowsIn THEN s \o Exprown(n + 1) ELSE s
    BY <1>1
<1>. HIDE DEF G
<1>3. PICK e \in Seq(OutRec) : e = <<>>
    BY EmptySeq
<1>4. G \in Steps(Seq(OutRec))
    BY <1>2 DEF Steps
<1>5. PICK f : Iterates(f, Seq(OutRec), e, G)
    BY <1>4, Recursion
<1>6. /\ f \in [Nat -> Seq(OutRec)] /\ f[0] = <<>>
      /\ \A n \in Nat : n + 1 <= RowsIn => f[n + 1] = f[n] \o Exprown(n + 1)
    BY <1>2, <1>3, <1>5 DEF Iterates
<1>7. ASSUME NEW n \in 0..RowsIn PROVE Expansion(n) = f[n]
  <2>. DEFINE h == [k \in 0..n |-> f[k]]
  <2>0. n \in Nat
    BY <1>0
  <2>1. Def(n, h)
    <3>1. ASSUME NEW k \in 0..n, k # 0
          PROVE  h[k] = h[k - 1] \o Exprown(k)
      <4>1. k - 1 \in Nat /\ (k - 1) + 1 = k /\ (k - 1) + 1 <= RowsIn /\ k - 1 \in 0..n
        BY <1>0, <2>0, <3>1
      <4>2. f[(k - 1) + 1] = f[k - 1] \o Exprown((k - 1) + 1)
        BY <1>6, <4>1
      <4> QED
        BY <4>1, <4>2
    <3>2. 0 \in 0..n => h[0] = <<>>
      BY <1>6
    <3>3. \A k \in 0..n : h[k] = IF k = 0 THEN <<>> ELSE h[k - 1] \o Exprown(k)
      BY <3>1, <3>2
    <3> QED
      BY <3>3
  <2>2. PICK g : g = CHOOSE x : Def(n, x)
    OBVIOUS
  <2>3. Expansion(n) = g[n]
    BY <2>2 DEF Expansion
  <2>4. Def(n, g)
    <3>. HIDE DEF Def, h
    <3> QED
      BY <2>1, <2>2
  <2>. DEFINE S == {k \in Nat : k <= n => g[k] = f[k]}
  <2>5. 0 \in S
    <3>1. 0 \in 0..n
      BY <2>0
    <3> QED
      BY <1>6, <2>4, <3>1
  <2>6. ASSUME NEW k \in S PROVE k + 1 \in S
    <3> SUFFICES ASSUME k + 1 <= n PROVE g[k + 1] = f[k + 1]
      OBVIOUS
    <3>1. k \in Nat /\ k + 1 \in 0..n /\ k + 1 # 0 /\ (k + 1) - 1 = k /\ k <= n /\ k + 1 <= RowsIn
      BY <1>0, <2>0
    <3>2. g[k + 1] = g[(k + 1) - 1] \o Exprown(k + 1)
      BY <2>4, <3>1
    <3>3. g[k] = f[k]
      BY <3>1
    <3> QED
      BY <1>6, <3>1, <3>2, <3>3
  <2>7. S \in SUBSET Nat
    OBVIOUS
  <2>8. S = Nat
    <3>. HIDE DEF S
    <3> QED
      BY <2>5, <2>6, <2>7, Induction
  <2>9. g[n] = f[n]
    <3>1. n \in S
      BY <2>0, <2>8
    <3> QED
      BY <2>0, <3>1
  <2> QED
    BY <2>3, <2>9
<1>8. 0 \in 0..RowsIn /\ \A n \in 0..RowsIn : n \in Nat /\ (n # RowsIn => n + 1 \in 0..RowsIn /\ n + 1 <= RowsIn)
    BY <1>0
<1> QED
    BY <1>6, <1>7, <1>8

\* What fewer rows expand to begins what all of them do.
LEMMA ExpansionBegins ==
    ASSUME query \in Queries, NEW m \in 0..RowsIn
    PROVE  Begins(Expansion(m), Expansion(RowsIn))
<1>0. RowsIn \in Nat /\ m \in Nat
    BY QueryIs
<1>. DEFINE S == {d \in Nat : m + d <= RowsIn =>
                     \E X \in Seq(OutRec) : Expansion(m + d) = Expansion(m) \o X}
<1>1. 0 \in S
  <2>1. PICK e \in Seq(OutRec) : e = <<>>
    BY EmptySeq
  <2>2. Expansion(m) \in Seq(OutRec) /\ m + 0 = m
    BY <1>0, ExpansionIs
  <2>3. Expansion(m) = Expansion(m) \o e
    BY <2>1, <2>2, ConcatEmptySeq
  <2>4. \E X \in Seq(OutRec) : Expansion(m + 0) = Expansion(m) \o X
    BY <2>2, <2>3
  <2> QED
    BY <2>4
<1>2. ASSUME NEW d \in S PROVE d + 1 \in S
  <2> SUFFICES ASSUME m + (d + 1) <= RowsIn
               PROVE  \E X \in Seq(OutRec) : Expansion(m + (d + 1)) = Expansion(m) \o X
    OBVIOUS
  <2>1. /\ d \in Nat /\ m + d <= RowsIn /\ m + d \in 0..RowsIn /\ m + d # RowsIn
        /\ (m + d) + 1 = m + (d + 1) /\ (m + d) + 1 \in 1..RowsIn
    BY <1>0
  <2>2. PICK X \in Seq(OutRec) : Expansion(m + d) = Expansion(m) \o X
    BY <2>1
  <2>3. PICK Y \in Seq(OutRec) : Y = Exprown((m + d) + 1)
    BY <2>1, ExprownIs
  <2>4. PICK p \in Seq(OutRec) : p = Expansion(m)
    BY ExpansionIs
  <2>5. Expansion((m + d) + 1) = Expansion(m + d) \o Y
    BY <2>1, <2>3, ExpansionIs
  <2>6. (p \o X) \o Y = p \o (X \o Y) /\ X \o Y \in Seq(OutRec)
    BY ConcatAssociative, ConcatProperties
  <2> QED
    BY <2>1, <2>2, <2>4, <2>5, <2>6
<1>3. S \in SUBSET Nat
    OBVIOUS
<1>4. S = Nat
  <2>. HIDE DEF S
  <2> QED
    BY <1>1, <1>2, <1>3, Induction
<1>5. PICK d \in Nat : m + d = RowsIn
  <2>1. RowsIn - m \in Nat /\ m + (RowsIn - m) = RowsIn
    BY <1>0
  <2> QED
    BY <2>1
<1>6. m + d <= RowsIn => \E X \in Seq(OutRec) : Expansion(m + d) = Expansion(m) \o X
  <2>1. d \in S
    BY <1>4
  <2> QED
    BY <2>1
<1>. HIDE DEF S
<1>7. PICK X \in Seq(OutRec) : Expansion(RowsIn) = Expansion(m) \o X
  <2>1. m + d <= RowsIn
    BY <1>0, <1>5
  <2>2. PICK X \in Seq(OutRec) : Expansion(m + d) = Expansion(m) \o X
    BY <1>6, <2>1
  <2> QED
    BY <1>5, <2>2
<1>8. PICK p \in Seq(OutRec) : p = Expansion(m)
    BY ExpansionIs
<1>9. Begins(p, p \o X)
    BY PartBegins
<1> QED
    BY <1>7, <1>8, <1>9

-----------------------------------------------------------------------------
(* The inductive invariant *)

Phases == {"new", "executing", "executed", "prefetch", "first", "expandfirst", "again",
           "loop", "row", "expand", "cut", "done", "failed", "abandoned"}

\* No step of the connection has failed.
NoFailure ==
    /\ \A s \in Stmts : ~stmt[s].failed
    /\ \A c \in Cursors : it[c].ret # "step"

\* From its execution on, the cursor is at the text of the query.
OnText ==
    phase \notin {"new", "abandoned"} =>
        /\ read[Reader].sql = query.sql /\ read[Reader].err = "no"
        /\ TextOf(Reader) = query.sql

\* After t rows the statement is on the next one, or there is none.
Ahead(t) ==
    \/ it[Reader].ret = "row" /\ PosOf(Reader) = t + 1 /\ t + 1 \in 1..RowsIn
    \/ it[Reader].ret = "done" /\ t = RowsIn

\* The generator has yielded a row.
Suspended == it[Reader].st = "mid" /\ ~Busy(Reader) /\ ~cur[Reader].exhausted

\* The generator steps the statement from row t.
Fetching(t) ==
    /\ it[Reader].st = "mid" /\ it[Reader].ret = "row" /\ Busy(Reader)
    /\ ~cur[Reader].exhausted
    /\ it[Reader].row = t /\ PosOf(Reader) = t /\ t \in 1..RowsIn

\* Before the first row,
AtHead ==
    /\ phase \in {"new", "executing"} => open = {}
    /\ phase = "executing" =>
          /\ it[Reader].st = "none" /\ Busy(Reader)
          /\ PosOf(Reader) = 0 /\ cur[Reader].exhausted
    /\ phase \in {"executed", "prefetch"} /\ it[Reader].st # "mid" =>
          /\ ~Busy(Reader)
          /\ IF cur[Reader].exhausted THEN RowsIn = 0 ELSE PosOf(Reader) = 1 /\ RowsIn >= 1
    /\ phase = "executed" => it[Reader].st = "none"
    /\ phase = "prefetch" => it[Reader].st = "new" \/ Fetching(1)
    /\ phase \in {"new", "executing", "executed", "prefetch"} => taken = 0 /\ out = <<>>

\* at a row, and between two rows: the second iterator starts on the row that the
\* first one has fetched ahead, which is why a query of one row is no good.
AtRows ==
    /\ phase \in {"first", "expandfirst", "row", "expand"} =>
          /\ Suspended /\ it[Reader].row = taken /\ taken \in 1..RowsIn /\ Ahead(taken)
          /\ out = Expansion(taken - 1)
    /\ phase \in {"first", "expandfirst"} => taken = 1
    /\ phase \in {"row", "expand"} => taken \in 2..RowsIn
    /\ phase \in {"again", "loop"} => taken \in 1..RowsIn /\ out = Expansion(taken)
    /\ phase = "again" => taken = 1 /\ Suspended /\ Ahead(1)
    /\ phase = "loop" =>
          \/ /\ it[Reader].st = "new" /\ ~Busy(Reader) /\ ~cur[Reader].exhausted
             /\ PosOf(Reader) = taken + 1 /\ taken + 1 \in 1..RowsIn
          \/ Fetching(taken + 1)
          \/ Suspended /\ Ahead(taken)

\* and at the end.
AtTail ==
    /\ phase = "cut" => taken \in 2..RowsIn /\ ~Headed(taken) /\ out = Expansion(taken - 1)
    /\ phase = "done" => taken = RowsIn /\ out = Expansion(RowsIn)
    /\ phase \in {"failed", "abandoned"} => \E m \in 0..RowsIn : out = Expansion(m)

Registered == open \subseteq (Nat \ {0}) \X (1..Columns)

XInv ==
    /\ query \in Queries /\ phase \in Phases /\ taken \in Nat /\ NoFailure /\ Registered
    /\ OnText /\ AtHead /\ AtRows /\ AtTail /\ GeneratorsFreed

\* What is known before a step.
Known == IInv /\ FailedBorn /\ FollowsScript /\ XInv

-----------------------------------------------------------------------------
(* No step fails *)

\* No step of the connection fails.
StepsSucceed == "step" \notin Faults

LEMMA Unfailing ==
    ASSUME StepsSucceed, NEW s \in Stmts, NEW o \in StepOutcomes(s)
    PROVE  o \in {"row", "done"}
BY DEF StepsSucceed, StepOutcomes

\* A statement is reset for a failure only when a step of it has failed.
LEMMA FailureFree ==
    ASSUME IInv, NEW s, \/ UNCHANGED stmt
                        \/ \E q : stmt' = Dirty(q, s)
                        \/ \E o : stmt' = Stepped(s, o)
                        \/ stmt' = [stmt EXCEPT ![s].pos = 0, ![s].use = FALSE]
                        \/ stmt' = [stmt EXCEPT ![s] = [@ EXCEPT !.st = "gone", !.pos = 0]],
           \A x \in Stmts : ~stmt[x].failed
    PROVE  \A x \in Stmts : ~stmt'[x].failed
<1>1. stmt \in [Stmts -> StmtRec]
    BY DEF IInv, TypeOK
<1>2. CASE UNCHANGED stmt
    BY <1>2
<1>3. CASE \E q : stmt' = Dirty(q, s)
    BY <1>1, <1>3 DEF Dirty, StmtRec
<1>4. CASE \E o : stmt' = Stepped(s, o)
    BY <1>1, <1>4 DEF Stepped, StmtRec
<1>5. CASE stmt' = [stmt EXCEPT ![s].pos = 0, ![s].use = FALSE]
    BY <1>1, <1>5 DEF StmtRec
<1>6. CASE stmt' = [stmt EXCEPT ![s] = [@ EXCEPT !.st = "gone", !.pos = 0]]
    BY <1>1, <1>6 DEF StmtRec
<1> QED
    BY <1>2, <1>3, <1>4, <1>5, <1>6

LEMMA StepNoFailure ==
    ASSUME StepsSucceed, IInv, NoFailure, [Next]_vars
    PROVE  NoFailure'
<1>0. /\ it \in [Cursors -> IterRec]
      /\ NoIter.ret = "row" /\ DeadIter.ret = "row" /\ [NoIter EXCEPT !.st = "new"].ret = "row"
    BY DEF IInv, TypeOK, NoIter, DeadIter
<1>. DEFINE Free == \/ UNCHANGED stmt
                    \/ \E s, q : stmt' = Dirty(q, s)
                    \/ \E s, o : stmt' = Stepped(s, o)
                    \/ \E s : stmt' = [stmt EXCEPT ![s].pos = 0, ![s].use = FALSE]
                    \/ \E s : stmt' = [stmt EXCEPT ![s] = [@ EXCEPT !.st = "gone", !.pos = 0]]
            Iter == \/ UNCHANGED it
                    \/ \E c, r : it' = [it EXCEPT ![c] = r] /\ r.ret = "row"
                    \/ \E c : \E o \in {"row", "done"} : it' = [it EXCEPT ![c].ret = o]
<1>1. ASSUME NEW c \in Cursors, NEW q \in Given,
             ExecuteUnprepared(c, q) \/ ExecuteUnbound(c, q) \/ Execute(c, q)
      PROVE  Free /\ Iter
  <2>1. Free
    BY <1>1, Zenon DEF ExecuteUnprepared, ExecuteUnbound, Execute
  <2>2. it' = [it EXCEPT ![c] = NoIter]
    BY <1>1 DEF ExecuteUnprepared, ExecuteUnbound, Execute
  <2> QED
    BY <1>0, <2>1, <2>2
<1>2. ASSUME NEW c \in Cursors, StartIter(c) \/ Close(c) \/ Forget(c)
      PROVE  Free /\ Iter
  <2>1. Free
    BY <1>2 DEF StartIter, Close, Forget
  <2>2. it' = [it EXCEPT ![c] = NoIter] \/ it' = [it EXCEPT ![c] = [NoIter EXCEPT !.st = "new"]]
    BY <1>2 DEF StartIter, Close, Forget
  <2> QED
    BY <1>0, <2>1, <2>2
<1>3. ASSUME NEW c \in Cursors, Resume(c) PROVE Free /\ Iter
  <2>1. ~RowFailed(c)
    BY DEF RowFailed, NoFailure
  <2>2. Free
    BY <1>3, <2>1, Zenon DEF Resume, BeginRows, NoRows, NextRow, LastRow, RestBegin, RestFailed,
       NextStatement
  <2>3. CASE \E s, n : Take(c, s, n)
    <3>1. PICK s, n : it' = [it EXCEPT ![c] = [st |-> "mid", stmt |-> s, ret |-> "row", row |-> n]]
      BY <2>3 DEF Take
    <3>2. PICK r : r = [st |-> "mid", stmt |-> s, ret |-> "row", row |-> n]
      OBVIOUS
    <3>3. it' = [it EXCEPT ![c] = r] /\ r.ret = "row"
      BY <3>1, <3>2
    <3> QED
      BY <2>2, <3>3, Zenon
  <2>4. CASE UNCHANGED it \/ it' = [it EXCEPT ![c] = DeadIter]
    BY <1>0, <2>2, <2>4
  <2>5. (\E s, n : Take(c, s, n)) \/ UNCHANGED it \/ it' = [it EXCEPT ![c] = DeadIter]
    BY <1>3, <2>1, Zenon DEF Resume, BeginRows, NoRows, NextRow, LastRow, RestBegin, RestFailed,
       StopIteration
  <2> QED
    BY <2>3, <2>4, <2>5
<1>4. ASSUME Return PROVE Free /\ Iter
  <2>0. \E op : Returning(op)
    BY <1>4, Zenon DEF Return, ExecuteFailed, ExecuteRow, ExecuteDone, ExecuteNext,
       ExecuteNextFailed, RowReturn, RestRow, RestNext, RestNextFailed, RestDone
  <2>1. PICK c \in Cursors : c = Top.cur /\ cur[c].stmt \in Stmts
    BY <2>0, ReturnFacts
  <2>2. ~ExecuteFailed
    BY <2>1, Unfailing DEF ExecuteFailed
  <2>3. Free
    BY <1>4, <2>2, Zenon DEF Return, ExecuteRow, ExecuteDone, ExecuteNext, ExecuteNextFailed,
       RowReturn, RestRow, RestNext, RestNextFailed, RestDone, NextStatement
  <2>4. CASE RowReturn
    <3>1. it[c].stmt \in Stmts
      BY <2>1, <2>4, ReturnFacts DEF RowReturn, Fits, Reading
    <3>2. PICK o \in StepOutcomes(it[c].stmt) : it' = [it EXCEPT ![c].ret = o]
      BY <2>1, <2>4, Zenon DEF RowReturn
    <3> QED
      BY <2>3, <3>1, <3>2, Unfailing
  <2>5. CASE RestRow
    <3>1. PICK s, n : it' = [it EXCEPT ![c] = [st |-> "mid", stmt |-> s, ret |-> "row", row |-> n]]
      BY <2>1, <2>5, Zenon DEF RestRow, Take
    <3>2. PICK r : r = [st |-> "mid", stmt |-> s, ret |-> "row", row |-> n]
      OBVIOUS
    <3>3. it' = [it EXCEPT ![c] = r] /\ r.ret = "row"
      BY <3>1, <3>2
    <3> QED
      BY <2>3, <3>3, Zenon
  <2>6. CASE ~RowReturn /\ ~RestRow
    <3>1. UNCHANGED it \/ it' = [it EXCEPT ![c] = DeadIter]
      BY <1>4, <2>1, <2>2, <2>6, Zenon DEF Return, ExecuteRow, ExecuteDone, ExecuteNext,
         ExecuteNextFailed, RestNext, RestNextFailed, RestDone, StopIteration
    <3> QED
      BY <1>0, <2>3, <3>1
  <2> QED
    BY <2>4, <2>5, <2>6
<1>5. ASSUME (\E s \in Stmts : Collect(s)) \/ UNCHANGED vars PROVE Free /\ Iter
    BY <1>5 DEF Collect, vars
<1>6. Free /\ Iter
  <2>. HIDE DEF Free, Iter
  <2> QED
    BY <1>1, <1>2, <1>3, <1>4, <1>5 DEF Next, Call
<1>7. \A s \in Stmts : ~stmt'[s].failed
    BY <1>6, FailureFree DEF NoFailure
<1>8. \A c \in Cursors : it'[c].ret # "step"
    BY <1>0, <1>6 DEF NoFailure, IterRec
<1> QED
    BY <1>7, <1>8 DEF NoFailure

-----------------------------------------------------------------------------
(* What expand sees of a step that is not its own *)

\* What a query expands to is up to the query alone.
ExprownOf(q, n) ==
    IF n = 0 THEN <<[row |-> 0, el |-> 0]>>
    ELSE IF {i \in 1..Columns :
               n # 0 /\ (IF q.sizes[n][i] = Headless THEN 0 ELSE q.sizes[n][i]) = 0} # {}
         THEN <<>>
         ELSE [k \in 1..(IF q.sizes[n][Columns] = Headless THEN 0 ELSE q.sizes[n][Columns]) |->
                 [row |-> n, el |-> k]]

ExpansionOf(q, n) ==
    LET e[k \in 0..n] == IF k = 0 THEN <<>> ELSE e[k - 1] \o ExprownOf(q, k) IN e[n]

LEMMA SameQuery ==
    ASSUME UNCHANGED query
    PROVE  /\ RowsIn' = RowsIn
           /\ \A n : Expansion(n)' = Expansion(n)
           /\ \A n : Headed(n)' = Headed(n)
           /\ \A n : Skipped(n)' = Skipped(n)
<1>1. \A n : Expansion(n) = ExpansionOf(query, n)
    BY DEF Expansion, ExpansionOf, Exprown, ExprownOf, Empty, Size
<1>2. \A n : Expansion(n)' = ExpansionOf(query', n)
    BY DEF Expansion, ExpansionOf, Exprown, ExprownOf, Empty, Size
<1>3. \A n : ExpansionOf(query', n) = ExpansionOf(query, n)
    OBVIOUS
<1>4. RowsIn' = RowsIn /\ (\A n : Headed(n)' = Headed(n)) /\ (\A n : Skipped(n)' = Skipped(n))
    BY DEF RowsIn, Headed, Skipped, Generators, Empty, Size
<1> QED
    BY <1>1, <1>2, <1>3, <1>4

\* The reader has a statement, which has not failed.
LEMMA ReaderHas ==
    ASSUME Known, phase \notin {"new", "abandoned"}
    PROVE  /\ cur[Reader].st = "open" /\ cur[Reader].stmt \in Stmts
           /\ Holds(Reader, cur[Reader].stmt)
           /\ ~stmt[cur[Reader].stmt].failed /\ stmt[cur[Reader].stmt] \in StmtRec
<1>1. Reader \in Cursors
    BY ConstantsOK, ExpandOK
<1>2. query.sql \in Sqls
    BY QueryIs DEF Known, XInv
<1>3. Started(Reader) /\ ScriptOK(Reader)
    BY <1>1, <1>2, ConstantsOK DEF Known, XInv, OnText, Started, FollowsScript
<1>4. cur[Reader].st = "open" /\ cur[Reader].stmt \in Stmts /\ Holds(Reader, cur[Reader].stmt)
    BY <1>1, <1>3, ReaderFacts DEF Known
<1> QED
    BY <1>4 DEF Known, XInv, NoFailure, IInv, TypeOK

\* Expand is where it was after a step that does not touch its cursor.
LEMMA ReaderSame ==
    ASSUME Known, Untouched(Reader), UNCHANGED xvars, NoFailure'
    PROVE  XInv'
<1>1. /\ cur'[Reader] = cur[Reader] /\ it'[Reader] = it[Reader] /\ read'[Reader] = read[Reader]
      /\ Busy(Reader)' <=> Busy(Reader)
    BY DEF Untouched
<1>2. /\ query' = query /\ phase' = phase /\ taken' = taken /\ out' = out /\ open' = open
    BY DEF xvars
<1>3. phase \notin {"new", "abandoned"} =>
          TextOf(Reader)' = TextOf(Reader) /\ PosOf(Reader)' = PosOf(Reader)
  <2> SUFFICES ASSUME phase \notin {"new", "abandoned"}
               PROVE  TextOf(Reader)' = TextOf(Reader) /\ PosOf(Reader)' = PosOf(Reader)
    OBVIOUS
  <2>1. /\ cur[Reader].stmt \in Stmts /\ Holds(Reader, cur[Reader].stmt)
        /\ ~stmt[cur[Reader].stmt].failed
    BY ReaderHas
  <2>2. stmt'[cur[Reader].stmt] = stmt[cur[Reader].stmt]
    BY <2>1 DEF Untouched
  <2> QED
    BY <1>1, <2>2 DEF TextOf, PosOf
<1>4. /\ RowsIn' = RowsIn /\ \A n : Expansion(n)' = Expansion(n)
      /\ \A n : Headed(n)' = Headed(n)
      /\ \A n : Skipped(n)' = Skipped(n)
    BY <1>2, SameQuery
<1>5. \A t : phase \notin {"new", "abandoned"} =>
                 (Ahead(t)' <=> Ahead(t)) /\ (Fetching(t)' <=> Fetching(t))
    BY <1>1, <1>3, <1>4 DEF Ahead, Fetching
<1>6. Suspended' <=> Suspended
    BY <1>1 DEF Suspended
<1>7. OnText'
    BY <1>1, <1>2, <1>3 DEF Known, XInv, OnText
<1>8. AtHead'
    BY <1>1, <1>2, <1>3, <1>4, <1>5 DEF Known, XInv, AtHead
<1>9. AtRows'
    BY <1>1, <1>2, <1>3, <1>4, <1>5, <1>6 DEF Known, XInv, AtRows
<1>10. AtTail'
    BY <1>2, <1>4 DEF Known, XInv, AtTail
<1>11. GeneratorsFreed'
    BY <1>2, <1>4 DEF Known, XInv, GeneratorsFreed
<1>12. (query \in Queries)'
    BY <1>2 DEF Known, XInv, Queries
<1> QED
    BY <1>2, <1>7, <1>8, <1>9, <1>10, <1>11, <1>12 DEF Known, XInv, Registered, Phases

LEMMA OtherSteps ==
    ASSUME Known, Other, NoFailure'
    PROVE  XInv'
<1>0. Reader \in Cursors /\ IInv /\ FailedBorn /\ FollowsScript
    BY ConstantsOK, ExpandOK DEF Known
<1>1. Untouched(Reader)
  <2>1. ASSUME NEW c \in Cursors \ {Reader}, Moved(c) PROVE Untouched(Reader)
    BY <1>0, <2>1 DEF Moved
  <2>2. ASSUME NEW c \in Cursors \ {Reader}, NEW q \in Given, Execute(c, q)
        PROVE  Untouched(Reader)
    BY <1>0, <2>1, <2>2, ExecuteMoves
  <2>3. ASSUME NEW c \in Cursors \ {Reader}, StartIter(c) \/ Resume(c) \/ Close(c) \/ Forget(c)
        PROVE  Untouched(Reader)
    <3>1. Moved(c)
      BY <1>0, <2>3, StartIterMoves, ResumeMoves, GoneMoves
    <3> QED
      BY <2>1, <3>1
  <2>4. ASSUME Return, Top.cur # Reader PROVE Untouched(Reader)
    <3>1. PICK c \in Cursors : c = Top.cur /\ Moved(c)
      BY <1>0, <2>4, ReturnMoves
    <3> QED
      BY <2>1, <2>4, <3>1
  <2>5. ASSUME \E s \in Stmts : Collect(s) PROVE Untouched(Reader)
    BY <1>0, <2>5, CollectMoves
  <2> QED
    BY <2>2, <2>3, <2>4, <2>5 DEF Other
<1>2. UNCHANGED xvars
    BY DEF Other
<1> QED
    BY <1>1, <1>2, ReaderSame

LEMMA NoStep ==
    ASSUME Known, UNCHANGED <<vars, xvars>>, NoFailure'
    PROVE  XInv'
<1>1. Untouched(Reader)
    BY CollectMoves, ConstantsOK, ExpandOK DEF Known
<1> QED
    BY <1>1, ReaderSame

-----------------------------------------------------------------------------
(* The steps of expand *)

\* What a step of expand keeps.
Kept ==
    /\ (query \in Queries)' /\ RowsIn' = RowsIn
    /\ (\A n : Expansion(n)' = Expansion(n)) /\ (\A n : Headed(n)' = Headed(n))
    /\ (\A n : Skipped(n)' = Skipped(n))

LEMMA Start ==
    ASSUME Known, UNCHANGED query
    PROVE  /\ Reader \in Cursors /\ IInv /\ Cells /\ FailedBorn /\ FollowsScript
           /\ query.sql \in Given /\ query.sql \in Sqls
           /\ RowsIn \in Nat /\ taken \in Nat /\ Kept
<1>1. Reader \in Cursors /\ IInv /\ Cells
    BY ConstantsOK, ExpandOK, Parts DEF Known
<1>2. query \in Queries /\ (query \in Queries)'
    BY DEF Known, XInv, Queries
<1>3. query.sql \in Given /\ query.sql \in Sqls /\ RowsIn \in Nat
    BY <1>2, QueryIs
<1>4. /\ RowsIn' = RowsIn /\ (\A n : Expansion(n)' = Expansion(n))
      /\ (\A n : Headed(n)' = Headed(n)) /\ (\A n : Skipped(n)' = Skipped(n))
    BY SameQuery
<1> QED
    BY <1>1, <1>2, <1>3, <1>4 DEF Known, XInv, Kept

\* A step that comes to row n registers its generators and no others.
LEMMA RegisterOK ==
    ASSUME Known, Register, NEW n \in Nat, PosOf(Reader)' = n
    PROVE  /\ open' = open \cup Generators(n) /\ Registered'
           /\ \A g \in Generators(n) : g[1] = n
<1>1. open' = open \cup Generators(n)
    BY DEF Register, PosOf
<1>2. open \subseteq (Nat \ {0}) \X (1..Columns)
    BY DEF Known, XInv, Registered
<1>3. Generators(n) \subseteq (Nat \ {0}) \X (1..Columns) /\ \A g \in Generators(n) : g[1] = n
    BY DEF Generators
<1> QED
    BY <1>1, <1>2, <1>3 DEF Registered

LEMMA ExecuteStep ==
    ASSUME Known, XExecute, NoFailure'
    PROVE  XInv'
<1>1. /\ phase = "new" /\ Execute(Reader, query.sql) /\ phase' = "executing"
      /\ UNCHANGED query /\ taken' = taken /\ out' = out /\ open' = open
    BY DEF XExecute
<1>2. /\ Reader \in Cursors /\ IInv /\ Cells /\ FailedBorn
      /\ query.sql \in Sqls /\ Kept /\ taken \in Nat
    BY <1>1, Start
<1>3. PICK c \in Cursors : c = Reader
    BY <1>2
<1>4. PICK q \in Sqls : q = query.sql
    BY <1>2
<1>5. /\ it' = [it EXCEPT ![c] = NoIter] /\ Push(Frame("execute", c))
      /\ read' = [read EXCEPT ![c] = [Unread EXCEPT !.sql = q]]
    BY <1>1, <1>3, <1>4 DEF Execute
<1>6. PICK s \in Stmts :
         /\ Get(q, s) /\ stmt' = Dirty(q, s)
         /\ cur' = [cur EXCEPT ![c] = [@ EXCEPT !.stmt = s, !.next = Rest[q],
                                               !.exhausted = TRUE, !.locked = TRUE]]
    BY <1>1, <1>3, <1>4 DEF Execute
<1>7. /\ it'[c].st = "none" /\ read'[c].sql = q /\ read'[c].err = "no"
      /\ cur'[c].stmt = s /\ cur'[c].exhausted
    BY <1>2, <1>5, <1>6 DEF Cells, Unread, NoIter, CurRec
<1>8. Busy(c)'
    BY <1>2, <1>5, PushBusy
<1>9. stmt'[s].sql = q /\ stmt'[s].pos = 0
    BY <1>2, <1>6, MoveGet
<1>10. TextOf(c)' = q /\ PosOf(c)' = 0
    BY <1>7, <1>9 DEF TextOf, PosOf
<1>11. OnText'
    BY <1>1, <1>3, <1>4, <1>7, <1>10 DEF OnText
<1>12. taken = 0 /\ out = <<>> /\ open = {}
    BY <1>1 DEF Known, XInv, AtHead
<1>13. AtHead'
    BY <1>1, <1>3, <1>7, <1>8, <1>10, <1>12 DEF AtHead
<1>14. (AtRows /\ AtTail)'
    BY <1>1 DEF AtRows, AtTail
<1>15. Registered' /\ GeneratorsFreed'
    BY <1>1, <1>12 DEF Registered, GeneratorsFreed
<1> QED
    BY <1>1, <1>2, <1>11, <1>13, <1>14, <1>15 DEF XInv, Kept, Phases

LEMMA ExecutedStep ==
    ASSUME Known, XExecuted, NoFailure'
    PROVE  XInv'
<1>1. /\ phase = "executing" /\ stack # <<>> /\ Top.cur = Reader /\ phase' = "executed"
      /\ ExecuteRow \/ ExecuteDone
      /\ Register /\ UNCHANGED query /\ taken' = taken /\ out' = out
    BY DEF XExecuted, OwnStep
<1>2. /\ Reader \in Cursors /\ IInv /\ Cells /\ FailedBorn
      /\ query.sql \in Sqls /\ RowsIn \in Nat /\ Kept /\ taken \in Nat
    BY <1>1, Start
<1>3. PICK c \in Cursors : c = Reader /\ c = Top.cur
    BY <1>1, <1>2
<1>4. /\ it[c].st = "none" /\ PosOf(c) = 0 /\ cur[c].exhausted
      /\ taken = 0 /\ out = <<>> /\ open = {}
      /\ read[c].sql = query.sql /\ read[c].err = "no" /\ TextOf(c) = query.sql
    BY <1>1, <1>3 DEF Known, XInv, AtHead, OnText
<1>5. PICK s \in Stmts : s = cur[c].stmt /\ cur[c].st = "open"
    BY <1>1, <1>3, ReaderHas
<1>6. PICK o \in {"row", "done"} :
         /\ o \in StepOutcomes(s) /\ stmt' = Stepped(s, o) /\ Pop
         /\ it' = it /\ read' = read
         /\ \/ o = "row" /\ cur' = [cur EXCEPT ![c].exhausted = FALSE, ![c].locked = FALSE]
            \/ o = "done" /\ cur' = [cur EXCEPT ![c].locked = FALSE]
  <2>1. CASE ExecuteRow
    BY <1>3, <1>5, <2>1 DEF ExecuteRow
  <2>2. CASE ExecuteDone
    BY <1>3, <1>5, <2>2 DEF ExecuteDone
  <2> QED
    BY <1>1, <2>1, <2>2
<1>7. /\ cur'[c].stmt = s
      /\ o = "row" => ~cur'[c].exhausted
      /\ o = "done" => cur'[c].exhausted
  <2>1. cur \in [Cursors -> CurRec] /\ cur[c] \in CurRec
    BY <1>2 DEF Cells
  <2> QED
    BY <1>4, <1>5, <1>6, <2>1 DEF CurRec
<1>8. ~Busy(c)'
    BY <1>1, <1>2, <1>3, <1>6, PopBusy
<1>9. /\ TextOf(c)' = query.sql
      /\ o = "row" => PosOf(c)' = 1 /\ RowsIn >= 1
      /\ o = "done" => PosOf(c)' = 0 /\ RowsIn = 0
  <2>1. /\ TextOf(c)' = TextOf(c) /\ PosOf(c)' = PosAfter(s, o)
        /\ o = "row" => PosOf(c) < RowCount[TextOf(c)] /\ PosOf(c)' = PosOf(c) + 1
        /\ o = "done" => ~(PosOf(c) < RowCount[TextOf(c)])
    <3>1. o \in StepOutcomes(s) /\ stmt' = Stepped(s, o) /\ cur'[c].stmt = s
      BY <1>6, <1>7
    <3> QED
      BY <1>2, <1>5, <3>1, SteppedMoves
  <2> QED
    BY <1>2, <1>4, <1>6, <2>1 DEF RowsIn, PosAfter
<1>10. PICK n \in {0, 1} : PosOf(Reader)' = n
    BY <1>3, <1>6, <1>9
<1>11. open' = Generators(n) /\ Registered' /\ \A g \in Generators(n) : g[1] = n
    BY <1>1, <1>4, <1>10, RegisterOK
<1>12. OnText'
    BY <1>1, <1>3, <1>4, <1>6, <1>9 DEF OnText
<1>13. AtHead'
  <2>1. /\ it'[Reader].st = "none" /\ ~Busy(Reader)' /\ taken' = 0 /\ out' = <<>>
        /\ \/ ~cur'[Reader].exhausted /\ PosOf(Reader)' = 1 /\ RowsIn >= 1
           \/ cur'[Reader].exhausted /\ RowsIn = 0
    BY <1>1, <1>3, <1>4, <1>6, <1>7, <1>8, <1>9
  <2>2. RowsIn' = RowsIn /\ phase' = "executed"
    BY <1>1, <1>2 DEF Kept
  <2> QED
    BY <2>1, <2>2 DEF AtHead
<1>14. (AtRows /\ AtTail)'
    BY <1>1 DEF AtRows, AtTail
<1>15. GeneratorsFreed'
  <2>1. n = 0 => Generators(n) = {}
    BY DEF Generators
  <2> QED
    BY <1>1, <1>4, <1>11, <2>1 DEF GeneratorsFreed
<1> QED
    BY <1>1, <1>2, <1>11, <1>12, <1>13, <1>14, <1>15 DEF XInv, Kept, Phases

\* A query that is expanded has no row, or more than one.
NoSingleRow == \A q \in Given : RowCount[q] # 1

LEMMA IterateStep ==
    ASSUME Known, NoSingleRow, XIterate, NoFailure'
    PROVE  XInv'
<1>1. /\ phase \in {"executed", "again"} /\ StartIter(Reader)
      /\ phase' = IF phase = "executed" THEN "prefetch" ELSE "loop"
      /\ UNCHANGED query /\ taken' = taken /\ out' = out /\ open' = open
    BY DEF XIterate
<1>2. /\ Reader \in Cursors /\ IInv /\ Cells /\ query.sql \in Given
      /\ RowsIn \in Nat /\ Kept /\ taken \in Nat
    BY <1>1, Start
<1>3. /\ it' = [it EXCEPT ![Reader] = [NoIter EXCEPT !.st = "new"]] /\ ~Busy(Reader)
      /\ UNCHANGED stmt /\ UNCHANGED cur /\ UNCHANGED stack /\ UNCHANGED read
    BY <1>1, <1>2, IdleFacts DEF StartIter
<1>4. it'[Reader].st = "new"
    BY <1>2, <1>3 DEF Cells, NoIter
<1>5. /\ ~Busy(Reader)' /\ TextOf(Reader)' = TextOf(Reader) /\ PosOf(Reader)' = PosOf(Reader)
      /\ cur'[Reader] = cur[Reader] /\ read'[Reader] = read[Reader]
    BY <1>3 DEF TextOf, PosOf, Busy
<1>6. OnText'
    BY <1>1, <1>5 DEF Known, XInv, OnText
<1>7. CASE phase = "executed"
  <2>1. /\ IF cur[Reader].exhausted THEN RowsIn = 0 ELSE PosOf(Reader) = 1 /\ RowsIn >= 1
        /\ taken = 0 /\ out = <<>>
    BY <1>7 DEF Known, XInv, AtHead
  <2>2. AtHead'
    BY <1>1, <1>2, <1>4, <1>5, <1>7, <2>1 DEF AtHead, Kept
  <2>3. (AtRows /\ AtTail)'
    BY <1>1, <1>7 DEF AtRows, AtTail
  <2>4. GeneratorsFreed' /\ Registered'
    BY <1>1, <1>2, <1>7 DEF Known, XInv, GeneratorsFreed, Registered, Kept
  <2> QED
    BY <1>1, <1>2, <1>6, <1>7, <2>2, <2>3, <2>4 DEF XInv, Kept, Phases
<1>8. CASE phase = "again"
  <2>1. taken = 1 /\ Suspended /\ Ahead(1) /\ taken \in 1..RowsIn /\ out = Expansion(taken)
    BY <1>8 DEF Known, XInv, AtRows
  <2>2. RowsIn # 1
    BY <1>2 DEF NoSingleRow, RowsIn
  <2>3. PosOf(Reader) = taken + 1 /\ taken + 1 \in 1..RowsIn /\ ~cur[Reader].exhausted
    BY <1>2, <2>1, <2>2 DEF Ahead, Suspended
  <2>4. out' = Expansion(taken)'
    BY <1>1, <1>2, <2>1 DEF Kept
  <2>5. AtRows'
    BY <1>1, <1>2, <1>4, <1>5, <1>8, <2>1, <2>3, <2>4 DEF AtRows, Kept
  <2>6. (AtHead /\ AtTail)'
    BY <1>1, <1>8 DEF AtHead, AtTail
  <2>7. GeneratorsFreed' /\ Registered'
    BY <1>1, <1>2, <1>8 DEF Known, XInv, GeneratorsFreed, Registered, Kept
  <2> QED
    BY <1>1, <1>2, <1>6, <1>8, <2>5, <2>6, <2>7 DEF XInv, Kept, Phases
<1> QED
    BY <1>1, <1>7, <1>8

LEMMA FetchStep ==
    ASSUME Known, XFetch, NoFailure'
    PROVE  XInv'
<1>1. /\ phase \in {"prefetch", "loop"}
      /\ BeginRows(Reader) \/ NextRow(Reader)
      /\ phase' = phase /\ UNCHANGED query /\ taken' = taken /\ out' = out /\ open' = open
    BY DEF XFetch, xvars
<1>2. /\ Reader \in Cursors /\ IInv /\ Cells /\ RowsIn \in Nat /\ Kept /\ taken \in Nat
    BY <1>1, Start
<1>3. ~Busy(Reader) /\ Reading(Reader)
    BY <1>1, <1>2, IdleFacts DEF BeginRows, NextRow
<1>4. /\ it[Reader].st = "new" \/ (it[Reader].st = "mid" /\ it[Reader].ret = "row")
      /\ \E s : Take(Reader, s, PosOf(Reader))
      /\ Push(Frame("row", Reader))
      /\ UNCHANGED stmt /\ UNCHANGED cur /\ UNCHANGED read
      /\ it[Reader].st = "new" => ~cur[Reader].exhausted
    BY <1>1, <1>3 DEF BeginRows, NextRow, PosOf, Reading
<1>5. /\ it'[Reader].st = "mid" /\ it'[Reader].ret = "row" /\ it'[Reader].row = PosOf(Reader)
    BY <1>2, <1>4 DEF Cells, Take
<1>6. Busy(Reader)'
    BY <1>2, <1>4, PushBusy
<1>7. /\ TextOf(Reader)' = TextOf(Reader) /\ PosOf(Reader)' = PosOf(Reader)
      /\ cur'[Reader] = cur[Reader] /\ read'[Reader] = read[Reader]
    BY <1>4 DEF TextOf, PosOf
<1>8. /\ ~cur[Reader].exhausted /\ PosOf(Reader) = taken + 1 /\ taken + 1 \in 1..RowsIn
  <2>1. CASE phase = "prefetch"
    <3>1. it[Reader].st = "new"
      BY <1>3, <2>1 DEF Known, XInv, AtHead, Fetching
    <3> QED
      BY <1>2, <1>4, <2>1, <3>1 DEF Known, XInv, AtHead
  <2>2. CASE phase = "loop"
    BY <1>2, <1>3, <1>4, <2>2 DEF Known, XInv, AtRows, Fetching, Suspended, Ahead
  <2> QED
    BY <1>1, <2>1, <2>2
<1>9. PICK t \in Nat : t = taken + 1
    BY <1>2
<1>10. Fetching(t)'
    BY <1>2, <1>5, <1>6, <1>7, <1>8, <1>9 DEF Fetching, Kept
<1>11. OnText'
    BY <1>1, <1>7 DEF Known, XInv, OnText
<1>12. AtHead'
    BY <1>1, <1>2, <1>5, <1>9, <1>10 DEF Known, XInv, AtHead
<1>13. AtRows'
  <2>1. CASE phase = "prefetch"
    BY <1>1, <2>1 DEF AtRows
  <2>2. CASE phase = "loop"
    <3>1. taken \in 1..RowsIn /\ out = Expansion(taken)
      BY <2>2 DEF Known, XInv, AtRows
    <3>2. taken' \in 1..RowsIn' /\ out' = Expansion(taken)'
      BY <1>1, <1>2, <3>1 DEF Kept
    <3>3. Fetching(taken + 1)'
      BY <1>1, <1>9, <1>10
    <3> QED
      BY <1>1, <2>2, <3>2, <3>3 DEF AtRows
  <2> QED
    BY <1>1, <2>1, <2>2
<1>14. AtTail'
    BY <1>1 DEF AtTail
<1>15. GeneratorsFreed' /\ Registered'
    BY <1>1, <1>2 DEF Known, XInv, GeneratorsFreed, Registered, Kept
<1> QED
    BY <1>1, <1>2, <1>11, <1>12, <1>13, <1>14, <1>15 DEF XInv, Kept, Phases

LEMMA FetchedStep ==
    ASSUME StepsSucceed, Known, XFetched, NoFailure'
    PROVE  XInv'
<1>1. /\ phase \in {"prefetch", "loop"} /\ stack # <<>> /\ Top.cur = Reader /\ RowReturn
      /\ Register /\ phase' = IF phase = "prefetch" THEN "first" ELSE "row"
      /\ UNCHANGED query /\ taken' = taken + 1 /\ out' = out
    BY DEF XFetched, OwnStep
<1>2. /\ Reader \in Cursors /\ IInv /\ Cells /\ FailedBorn
      /\ RowsIn \in Nat /\ Kept /\ taken \in Nat
    BY <1>1, Start
<1>3. PICK c \in Cursors : c = Reader /\ c = Top.cur
    BY <1>1, <1>2
<1>4. /\ Busy(c) /\ it[c].st = "mid" /\ it[c].stmt = cur[c].stmt
      /\ cur[c].st = "open" /\ cur[c].stmt \in Stmts
    BY <1>1, <1>3, ReturnFacts, TopFacts DEF RowReturn, Fits, Reading, Known
<1>5. PICK t \in Nat : t = taken + 1
    BY <1>2
<1>6. /\ ~cur[c].exhausted /\ it[c].row = t /\ PosOf(c) = t /\ t \in 1..RowsIn
      /\ out = Expansion(taken) /\ (phase = "prefetch" => taken = 0)
      /\ (phase = "loop" => taken \in 1..RowsIn)
  <2>1. CASE phase = "prefetch"
    <3>1. Fetching(1) /\ taken = 0 /\ out = <<>>
      BY <1>3, <1>4, <2>1 DEF Known, XInv, AtHead
    <3>2. Expansion(0) = <<>>
      BY ExpansionIs DEF Known, XInv
    <3> QED
      BY <1>3, <1>5, <2>1, <3>1, <3>2 DEF Fetching
  <2>2. CASE phase = "loop"
    <3>1. Fetching(taken + 1) /\ taken \in 1..RowsIn /\ out = Expansion(taken)
      BY <1>3, <1>4, <2>2 DEF Known, XInv, AtRows, Suspended
    <3> QED
      BY <1>3, <1>5, <2>2, <3>1 DEF Fetching
  <2> QED
    BY <1>1, <2>1, <2>2
<1>7. PICK s \in Stmts : s = cur[c].stmt
    BY <1>4
<1>8. PICK o \in StepOutcomes(s) : stmt' = Stepped(s, o) /\ it' = [it EXCEPT ![c].ret = o]
    BY <1>1, <1>3, <1>4, <1>7, Zenon DEF RowReturn
<1>9. o \in {"row", "done"}
    BY Unfailing
<1>10. /\ \E r : read' = [read EXCEPT ![c].rows = r]
       /\ Pop /\ UNCHANGED cur
    BY <1>1, <1>3 DEF RowReturn
<1>11. /\ it'[c].st = "mid" /\ it'[c].ret = o /\ it'[c].row = t
    BY <1>2, <1>4, <1>6, <1>8 DEF Cells, IterRec
<1>12. read'[c].sql = read[c].sql /\ read'[c].err = read[c].err
    BY <1>2, <1>10 DEF Cells, ReadRec
<1>13. ~Busy(c)'
    BY <1>1, <1>2, <1>3, <1>10, PopBusy
<1>14. /\ TextOf(c)' = TextOf(c) /\ PosOf(c)' = PosAfter(s, o)
       /\ o = "row" => PosOf(c) < RowCount[TextOf(c)] /\ PosOf(c)' = PosOf(c) + 1
       /\ o = "done" => ~(PosOf(c) < RowCount[TextOf(c)])
  <2>1. cur'[c].stmt = s
    BY <1>7, <1>10
  <2> QED
    BY <1>2, <1>4, <1>7, <1>8, <2>1, SteppedMoves
<1>15. TextOf(c) = query.sql /\ read[c].sql = query.sql /\ read[c].err = "no"
    BY <1>1, <1>3 DEF Known, XInv, OnText
<1>16. /\ o = "row" => PosOf(c)' = t + 1 /\ t + 1 \in 1..RowsIn
       /\ o = "done" => PosOf(c)' = 0 /\ t = RowsIn
    BY <1>2, <1>6, <1>14, <1>15 DEF RowsIn, PosAfter
<1>17. Ahead(t)'
    BY <1>2, <1>3, <1>9, <1>11, <1>16 DEF Ahead, Kept
<1>18. Suspended'
    BY <1>3, <1>6, <1>10, <1>11, <1>13 DEF Suspended
<1>19. PICK n \in Nat : PosOf(Reader)' = n /\ (n = 0 \/ n = t + 1)
    BY <1>3, <1>9, <1>16
<1>20. open' = open \cup Generators(n) /\ Registered' /\ \A g \in Generators(n) : g[1] = n
    BY <1>1, <1>19, RegisterOK
<1>21. OnText'
    BY <1>1, <1>3, <1>12, <1>14, <1>15 DEF OnText
<1>22. AtRows'
  <2>1. out' = Expansion(t - 1)' /\ t \in 1..RowsIn'
    <3>1. t - 1 = taken
      BY <1>2, <1>5
    <3>2. Expansion(t - 1)' = Expansion(t - 1)
      BY <1>2 DEF Kept
    <3> QED
      BY <1>1, <1>2, <1>6, <3>1, <3>2 DEF Kept
  <2>2. phase' = "first" => t = 1
    BY <1>1, <1>2, <1>5, <1>6
  <2>3. phase' = "row" => t \in 2..RowsIn'
    BY <1>1, <1>2, <1>5, <1>6, <2>1
  <2>4. /\ taken' = t /\ phase' \in {"first", "row"}
        /\ it'[Reader].row = t /\ Suspended' /\ Ahead(t)'
    BY <1>1, <1>3, <1>5, <1>11, <1>17, <1>18
  <2> QED
    BY <2>1, <2>2, <2>3, <2>4 DEF AtRows
<1>23. (AtHead /\ AtTail)'
    BY <1>1 DEF AtHead, AtTail
<1>24. GeneratorsFreed'
  <2> SUFFICES ASSUME NEW g \in open'
               PROVE  \/ g[1] = t + 1
                      \/ g[1] = t
                      \/ g \in Skipped(g[1])'
    BY <1>1, <1>5 DEF GeneratorsFreed
  <2>1. CASE g \in Generators(n)
    <3>1. n # 0
      BY <2>1 DEF Generators
    <3> QED
      BY <1>19, <1>20, <2>1, <3>1
  <2>2. CASE g \in open
    <3>1. g[1] # 0
      BY <2>2 DEF Known, XInv, Registered
    <3>2. \/ g[1] = t
          \/ g[1] = taken /\ phase \notin {"again", "loop", "done"}
          \/ g \in Skipped(g[1])
      BY <1>5, <2>2 DEF Known, XInv, GeneratorsFreed
    <3>3. ~(g[1] = taken /\ phase \notin {"again", "loop", "done"})
      BY <1>1, <1>6, <3>1
    <3> QED
      BY <1>2, <3>2, <3>3 DEF Kept
  <2> QED
    BY <1>20, <2>1, <2>2
<1> QED
    BY <1>1, <1>2, <1>20, <1>21, <1>22, <1>23, <1>24 DEF XInv, Kept, Phases

\* The iteration is over.
LEMMA EndStep ==
    ASSUME Known, XEmpty \/ XEnd, NoFailure'
    PROVE  XInv'
<1>1. /\ phase \in {"prefetch", "loop"} /\ phase' = "done"
      /\ UNCHANGED query /\ taken' = taken /\ out' = out /\ open' = open
    BY DEF XEmpty, XEnd
<1>2. /\ Reader \in Cursors /\ Cells /\ RowsIn \in Nat /\ Kept /\ taken \in Nat
    BY <1>1, Start
<1>3. /\ StopIteration(Reader) /\ UNCHANGED stmt /\ ~Busy(Reader)
      /\ \E e, l : cur' = [cur EXCEPT ![Reader] = [@ EXCEPT !.exhausted = e, !.locked = l]]
      /\ phase = "prefetch" => it[Reader].st = "new" /\ cur[Reader].exhausted
      /\ phase = "loop" => it[Reader].st = "mid" /\ it[Reader].ret = "done"
  <2>1. CASE XEmpty
    <3>1. NoRows(Reader) /\ phase = "prefetch"
      BY <2>1 DEF XEmpty
    <3>2. /\ StopIteration(Reader) /\ UNCHANGED stmt /\ it[Reader].st = "new"
          /\ cur[Reader].exhausted /\ cur' = [cur EXCEPT ![Reader].locked = FALSE]
      BY <3>1 DEF NoRows
    <3>3. ~Busy(Reader)
      BY <3>1, Start, <1>1, IdleFacts DEF NoRows
    <3>4. cur' = [cur EXCEPT ![Reader] = [@ EXCEPT !.exhausted = TRUE, !.locked = FALSE]]
      <4>1. cur \in [Cursors -> CurRec] /\ cur[Reader] \in CurRec
        BY <1>2 DEF Cells
      <4>2. [cur[Reader] EXCEPT !.exhausted = TRUE, !.locked = FALSE]
                = [cur[Reader] EXCEPT !.locked = FALSE]
        BY <3>2, <4>1 DEF CurRec
      <4> QED
        BY <3>2, <4>1, <4>2
    <3> QED
      BY <3>1, <3>2, <3>3, <3>4
  <2>2. CASE XEnd
    <3>1. LastRow(Reader) /\ phase = "loop"
      BY <2>2 DEF XEnd
    <3>2. /\ StopIteration(Reader) /\ UNCHANGED stmt /\ it[Reader].st = "mid"
          /\ it[Reader].ret = "done"
          /\ cur' = [cur EXCEPT ![Reader].exhausted = TRUE, ![Reader].locked = FALSE]
      BY <3>1 DEF LastRow
    <3>3. ~Busy(Reader)
      BY <3>1, Start, <1>1, IdleFacts DEF LastRow
    <3>4. cur' = [cur EXCEPT ![Reader] = [@ EXCEPT !.exhausted = TRUE, !.locked = FALSE]]
      BY <1>2, <3>2 DEF Cells
    <3> QED
      BY <3>1, <3>2, <3>3, <3>4
  <2> QED
    BY <2>1, <2>2
<1>4. /\ read'[Reader].sql = read[Reader].sql /\ read'[Reader].err = read[Reader].err
  <2>1. read \in [Cursors -> ReadRec] /\ read' = [read EXCEPT ![Reader].ended = TRUE]
    BY <1>2, <1>3 DEF Cells, StopIteration
  <2> QED
    BY <1>2, <2>1 DEF ReadRec
<1>5. TextOf(Reader)' = TextOf(Reader)
  <2>1. cur'[Reader].stmt = cur[Reader].stmt
    BY <1>2, <1>3 DEF Cells, CurRec
  <2> QED
    BY <1>3, <2>1 DEF TextOf
<1>6. taken = RowsIn /\ out = Expansion(RowsIn)
  <2>1. CASE phase = "prefetch"
    <3>1. RowsIn = 0 /\ taken = 0 /\ out = <<>>
      BY <1>3, <2>1 DEF Known, XInv, AtHead
    <3> QED
      BY <3>1, ExpansionIs DEF Known, XInv
  <2>2. CASE phase = "loop"
    BY <1>3, <2>2 DEF Known, XInv, AtRows, Ahead, Fetching
  <2> QED
    BY <1>1, <2>1, <2>2
<1>7. OnText'
    BY <1>1, <1>4, <1>5 DEF Known, XInv, OnText
<1>8. AtTail'
  <2>1. PICK m \in Nat : m = RowsIn
    BY <1>2
  <2>2. Expansion(m)' = Expansion(m) /\ RowsIn' = m
    BY <1>2, <2>1 DEF Kept
  <2>3. taken' = m /\ out' = Expansion(m)
    BY <1>1, <1>6, <2>1
  <2>4. out' = Expansion(RowsIn)'
    BY <2>2, <2>3
  <2> QED
    BY <1>1, <2>2, <2>3, <2>4 DEF AtTail
<1>9. (AtHead /\ AtRows)'
    BY <1>1 DEF AtHead, AtRows
<1>10. GeneratorsFreed' /\ Registered'
  <2>1. Registered'
    BY <1>1 DEF Known, XInv, Registered
  <2> SUFFICES ASSUME NEW g \in open
               PROVE  g[1] = taken + 1 \/ g \in Skipped(g[1])'
    BY <1>1, <2>1 DEF GeneratorsFreed
  <2>2. g[1] # 0
    BY DEF Known, XInv, Registered
  <2>3. \/ g[1] = taken + 1
        \/ g[1] = taken /\ phase \notin {"again", "loop", "done"}
        \/ g \in Skipped(g[1])
    BY DEF Known, XInv, GeneratorsFreed
  <2>4. ~(g[1] = taken /\ phase \notin {"again", "loop", "done"})
    BY <1>1, <2>2 DEF Known, XInv, AtHead
  <2> QED
    BY <1>2, <2>3, <2>4 DEF Kept
<1> QED
    BY <1>1, <1>2, <1>7, <1>8, <1>9, <1>10 DEF XInv, Kept, Phases

\* A step that touches no cursor.
LEMMA Still ==
    ASSUME Known, UNCHANGED vars, UNCHANGED query
    PROVE  /\ it'[Reader] = it[Reader] /\ (Suspended' <=> Suspended)
           /\ \A t : Ahead(t)' <=> Ahead(t)
           /\ phase' \in Phases /\ phase # "new" /\ phase # "abandoned" => OnText'
<1>1. /\ cur' = cur /\ it' = it /\ read' = read /\ stmt' = stmt /\ stack' = stack
    BY DEF vars
<1>2. RowsIn' = RowsIn
    BY DEF RowsIn
<1>3. TextOf(Reader)' = TextOf(Reader) /\ PosOf(Reader)' = PosOf(Reader)
    BY <1>1 DEF TextOf, PosOf
<1> QED
    BY <1>1, <1>2, <1>3 DEF Suspended, Busy, Ahead, OnText, Known, XInv

\* A row is looked at.
LEMMA LookStep ==
    ASSUME Known, XFirst \/ XRow, NoFailure'
    PROVE  XInv'
<1>1. /\ UNCHANGED vars /\ UNCHANGED query /\ taken' = taken /\ out' = out /\ open' = open
      /\ \/ phase = "first" /\ phase' \in {"expandfirst", "failed"}
         \/ /\ phase = "row" /\ phase' \in {"expand", "cut"}
            /\ phase' = "cut" => ~Headed(it[Reader].row)
    BY DEF XFirst, XRow, Row
<1>2. RowsIn \in Nat /\ Kept /\ taken \in Nat
    BY <1>1, Start
<1>3. /\ it'[Reader] = it[Reader] /\ (Suspended' <=> Suspended) /\ \A t : Ahead(t)' <=> Ahead(t)
      /\ OnText'
    BY <1>1, Still DEF Phases
<1>4. /\ Suspended /\ it[Reader].row = taken /\ taken \in 1..RowsIn /\ Ahead(taken)
      /\ out = Expansion(taken - 1)
      /\ phase = "first" => taken = 1
      /\ phase = "row" => taken \in 2..RowsIn
    BY <1>1 DEF Known, XInv, AtRows
<1>5. PICK m \in Nat : m = taken - 1 /\ m \in 0..RowsIn
    BY <1>2, <1>4
<1>6. out' = Expansion(m)' /\ m = taken' - 1 /\ RowsIn' = RowsIn
    BY <1>1, <1>2, <1>4, <1>5 DEF Kept
<1>7. AtHead'
    BY <1>1 DEF AtHead
<1>8. AtRows'
  <2>1. CASE phase' \in {"expandfirst", "expand"}
    <3>1. out' = Expansion(taken - 1)'
      BY <1>6
    <3>2. Ahead(taken)'
      <4>1. PICK t \in Nat : t = taken
        BY <1>2
      <4>2. Ahead(t)'
        BY <1>3, <1>4, <4>1
      <4> QED
        BY <1>1, <4>1, <4>2
    <3> QED
      BY <1>1, <1>3, <1>4, <1>6, <2>1, <3>1, <3>2 DEF AtRows
  <2>2. CASE phase' \in {"failed", "cut"}
    BY <2>2 DEF AtRows
  <2> QED
    BY <1>1, <2>1, <2>2
<1>9. AtTail'
  <2>1. CASE phase' = "failed"
    <3>1. (\E k \in 0..RowsIn : out = Expansion(k))'
      BY <1>2, <1>5, <1>6
    <3> QED
      BY <2>1, <3>1 DEF AtTail
  <2>2. CASE phase' = "cut"
    <3>1. PICK t \in Nat : t = taken /\ t \in 2..RowsIn /\ ~Headed(t)
      BY <1>1, <1>2, <1>4, <2>2
    <3>2. ~Headed(t)'
      BY <1>2, <3>1 DEF Kept
    <3>3. (taken \in 2..RowsIn)' /\ ~Headed(taken)' /\ out' = Expansion(taken - 1)'
      BY <1>1, <1>6, <3>1, <3>2
    <3> QED
      BY <2>2, <3>3 DEF AtTail
  <2>3. CASE phase' \in {"expandfirst", "expand"}
    BY <2>3 DEF AtTail
  <2> QED
    BY <1>1, <2>1, <2>2, <2>3
<1>10. GeneratorsFreed' /\ Registered'
    BY <1>1, <1>2 DEF Known, XInv, Registered, GeneratorsFreed, Kept
<1> QED
    BY <1>1, <1>2, <1>3, <1>7, <1>8, <1>9, <1>10 DEF XInv, Kept, Phases

\* A row is expanded.
LEMMA ExpandStep ==
    ASSUME Known, XExpand, NoFailure'
    PROVE  XInv'
<1>1. /\ UNCHANGED vars /\ UNCHANGED query /\ taken' = taken
      /\ out' = out \o Exprown(it[Reader].row) /\ open' = open \ Freed(it[Reader].row)
      /\ \/ phase = "expandfirst" /\ phase' = "again"
         \/ phase = "expand" /\ phase' = "loop"
    BY DEF XExpand, Row
<1>2. RowsIn \in Nat /\ Kept /\ taken \in Nat
    BY <1>1, Start
<1>3. /\ it'[Reader] = it[Reader] /\ (Suspended' <=> Suspended) /\ \A t : Ahead(t)' <=> Ahead(t)
      /\ OnText'
    BY <1>1, Still DEF Phases
<1>4. /\ Suspended /\ it[Reader].row = taken /\ taken \in 1..RowsIn /\ Ahead(taken)
      /\ out = Expansion(taken - 1)
      /\ phase = "expandfirst" => taken = 1
    BY <1>1 DEF Known, XInv, AtRows
<1>5. PICK t \in Nat : t = taken
    BY <1>2
<1>6. out' = Expansion(t)
  <2>1. t - 1 \in 0..RowsIn /\ t - 1 # RowsIn /\ (t - 1) + 1 = t
    BY <1>2, <1>4, <1>5
  <2>2. Expansion((t - 1) + 1) = Expansion(t - 1) \o Exprown((t - 1) + 1)
    BY <2>1, ExpansionIs DEF Known, XInv
  <2> QED
    BY <1>1, <1>4, <1>5, <2>1, <2>2
<1>7. AtHead' /\ AtTail'
    BY <1>1 DEF AtHead, AtTail
<1>8. AtRows'
  <2>1. out' = Expansion(taken)' /\ taken' \in 1..RowsIn'
    BY <1>1, <1>2, <1>4, <1>5, <1>6 DEF Kept
  <2>2. Ahead(t)' /\ Suspended'
    BY <1>3, <1>4, <1>5
  <2>3. Ahead(taken)'
    BY <1>1, <1>5, <2>2
  <2>4. phase' = "again" => taken' = 1 /\ Ahead(1)'
    BY <1>1, <1>4, <1>5, <2>2
  <2> QED
    BY <1>1, <2>1, <2>2, <2>3, <2>4 DEF AtRows
<1>9. Registered'
    BY <1>1 DEF Known, XInv, Registered
<1>10. GeneratorsFreed'
  <2> SUFFICES ASSUME NEW g \in open, g \notin Freed(t)
               PROVE  g[1] = t + 1 \/ g \in Skipped(g[1])'
    BY <1>1, <1>4, <1>5 DEF GeneratorsFreed
  <2>1. \/ g[1] = t + 1 \/ g[1] = t \/ g \in Skipped(g[1])
    BY <1>5 DEF Known, XInv, GeneratorsFreed
  <2>2. CASE g[1] = t
    <3>1. g \in (Nat \ {0}) \X (1..Columns)
      BY DEF Known, XInv, Registered
    <3>2. g \in Generators(t)
      BY <2>2, <3>1 DEF Generators
    <3>3. g \in Skipped(t)
      BY <3>2 DEF Freed
    <3> QED
      BY <1>2, <2>2, <3>3 DEF Kept
  <2> QED
    BY <1>2, <2>1, <2>2 DEF Kept
<1> QED
    BY <1>1, <1>2, <1>3, <1>7, <1>8, <1>9, <1>10 DEF XInv, Kept, Phases

LEMMA AbandonStep ==
    ASSUME Known, XAbandon, NoFailure'
    PROVE  XInv'
<1>1. /\ phase \in {"expandfirst", "again", "expand", "loop"} /\ phase' = "abandoned"
      /\ UNCHANGED query /\ taken' = taken /\ out' = out /\ open' = open
    BY DEF XAbandon
<1>2. RowsIn \in Nat /\ Kept /\ taken \in Nat
    BY <1>1, Start
<1>3. PICK m \in Nat : m \in 0..RowsIn /\ out = Expansion(m)
  <2>1. CASE phase \in {"expandfirst", "expand"}
    <3>1. taken \in 1..RowsIn /\ out = Expansion(taken - 1)
      BY <2>1 DEF Known, XInv, AtRows
    <3>2. taken - 1 \in Nat /\ taken - 1 \in 0..RowsIn
      BY <1>2, <3>1
    <3> QED
      BY <3>1, <3>2
  <2>2. CASE phase \in {"again", "loop"}
    <3>1. taken \in 1..RowsIn /\ out = Expansion(taken)
      BY <2>2 DEF Known, XInv, AtRows
    <3>2. taken \in 0..RowsIn
      BY <1>2, <3>1
    <3> QED
      BY <1>2, <3>1, <3>2
  <2> QED
    BY <1>1, <2>1, <2>2
<1>4. AtTail'
  <2>1. (\E k \in 0..RowsIn : out = Expansion(k))'
    BY <1>1, <1>2, <1>3 DEF Kept
  <2> QED
    BY <1>1, <2>1 DEF AtTail
<1>5. (AtHead /\ AtRows /\ OnText)'
    BY <1>1 DEF AtHead, AtRows, OnText
<1>6. GeneratorsFreed' /\ Registered'
    BY <1>1, <1>2 DEF Known, XInv, Registered, GeneratorsFreed, Kept
<1> QED
    BY <1>1, <1>2, <1>4, <1>5, <1>6 DEF XInv, Kept, Phases

-----------------------------------------------------------------------------
(* What expand yields *)

LEMMA InitExpands == XInit => XInv
<1> SUFFICES ASSUME XInit PROVE XInv
    OBVIOUS
<1>1. /\ query \in Queries /\ phase = "new" /\ taken = 0 /\ out = <<>> /\ open = {} /\ Init
    BY DEF XInit
<1>2. NoFailure
    BY <1>1 DEF Init, NoFailure, NoStmt, NoIter
<1> QED
    BY <1>1, <1>2 DEF XInv, Phases, Registered, OnText, AtHead, AtRows, AtTail, GeneratorsFreed

LEMMA NextExpands ==
    ASSUME StepsSucceed, NoSingleRow, Known, [Next]_vars, [XNext]_<<vars, xvars>>
    PROVE  XInv'
<1>1. NoFailure'
    BY StepNoFailure DEF Known, XInv
<1>2. CASE XExecute \/ XExecuted \/ XIterate \/ XFetch
    BY <1>1, <1>2, ExecuteStep, ExecutedStep, IterateStep, FetchStep
<1>3. CASE XFetched \/ XEmpty \/ XEnd \/ XFirst \/ XRow
    BY <1>1, <1>3, FetchedStep, EndStep, LookStep
<1>4. CASE XExpand \/ XAbandon \/ Other
    BY <1>1, <1>4, ExpandStep, AbandonStep, OtherSteps
<1>5. CASE UNCHANGED <<vars, xvars>>
    BY <1>1, <1>5, NoStep
<1> QED
    BY <1>2, <1>3, <1>4, <1>5 DEF XNext

LEMMA Expanding ==
    ASSUME StepsSucceed, NoSingleRow
    PROVE  XSpec => []XInv
<1>1. XInit => XInv
    BY InitExpands
<1>2. /\ IInv /\ FailedBorn /\ FollowsScript /\ [Next]_vars
      /\ XInv /\ [XNext]_<<vars, xvars>>
      => XInv'
    BY NextExpands DEF Known
<1>3. Spec => [](IInv /\ FailedBorn /\ FollowsScript)
    BY Following
<1>4. Spec => [][Next]_vars
    BY PTL DEF Spec
<1> QED
    BY <1>1, <1>2, <1>3, <1>4, ExpandUsesCursors, PTL DEF XSpec

\* What expand has yielded begins what its query expands to.
LEMMA Yielded ==
    ASSUME query \in Queries, AtHead, AtRows, AtTail, phase \in Phases
    PROVE  ExpandsRows
<1>1. RowsIn \in Nat
    BY QueryIs
<1>2. PICK m \in 0..RowsIn : out = Expansion(m)
  <2>1. CASE phase \in {"new", "executing", "executed", "prefetch"}
    <3>1. out = <<>> /\ Expansion(0) = <<>> /\ 0 \in 0..RowsIn
      BY <1>1, <2>1, ExpansionIs DEF AtHead
    <3> QED
      BY <3>1
  <2>2. CASE phase \in {"first", "expandfirst", "row", "expand"}
    <3>1. taken \in 1..RowsIn /\ out = Expansion(taken - 1)
      BY <2>2 DEF AtRows
    <3>2. taken - 1 \in 0..RowsIn
      BY <1>1, <3>1
    <3> QED
      BY <3>1, <3>2
  <2>3. CASE phase \in {"again", "loop"}
    <3>1. taken \in 1..RowsIn /\ out = Expansion(taken)
      BY <2>3 DEF AtRows
    <3>2. taken \in 0..RowsIn
      BY <1>1, <3>1
    <3> QED
      BY <3>1, <3>2
  <2>4. CASE phase \in {"cut", "done", "failed", "abandoned"}
    <3>1. CASE phase = "cut"
      <4>1. taken \in 2..RowsIn /\ out = Expansion(taken - 1)
        BY <3>1 DEF AtTail
      <4>2. taken - 1 \in 0..RowsIn
        BY <1>1, <4>1
      <4> QED
        BY <4>1, <4>2
    <3>2. CASE phase = "done"
      <4>1. out = Expansion(RowsIn) /\ RowsIn \in 0..RowsIn
        BY <1>1, <3>2 DEF AtTail
      <4> QED
        BY <4>1
    <3>3. CASE phase \in {"failed", "abandoned"}
      BY <3>3 DEF AtTail
    <3> QED
      BY <2>4, <3>1, <3>2, <3>3
  <2> QED
    BY <2>1, <2>2, <2>3, <2>4 DEF Phases
<1>3. Begins(out, Expansion(RowsIn))
    BY <1>2, ExpansionBegins
<1> QED
    BY <1>3 DEF ExpandsRows, AtTail, RowsIn

\* Unless its query has a single row or a step fails, expand yields the elements
\* of every row of the query once and in order: its second iterator goes on where
\* the first one has stopped, whatever other cursors do meanwhile.
THEOREM RowsExpanded ==
    ASSUME StepsSucceed, NoSingleRow
    PROVE  XSpec => []ExpandsRows
<1>1. XInv => ExpandsRows
    BY Yielded DEF XInv
<1> QED
    BY <1>1, Expanding, PTL

\* For the same queries, the generators that stay registered are those of the row
\* that is expanded, of the one fetched ahead, and those behind an empty one.
THEOREM GeneratorsAreFreed ==
    ASSUME StepsSucceed, NoSingleRow
    PROVE  XSpec => []GeneratorsFreed
<1>1. XInv => GeneratorsFreed
    BY DEF XInv
<1> QED
    BY <1>1, Expanding, PTL
=============================================================================
