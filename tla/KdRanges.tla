------------------------------- MODULE KdRanges -------------------------------
(***************************************************************************)
(* The constraints of an index: lib/kdtree.py, constrainttorange,          *)
(* intersectranges, compineconstraints.                                    *)
(*                                                                         *)
(* Values are natural numbers in the order of Python 2, in which None comes*)
(* before all others; Null stands for it.  A bound lies to the LEFT or to  *)
(* the RIGHT of a value, or beyond all values.                             *)
(***************************************************************************)
EXTENDS Integers, Sequences, FiniteSetsExt

CONSTANTS
    Null,      \* None
    MaxValue   \* bound on the values

ASSUME ValuesOK == Null \in Nat /\ MaxValue \in Nat /\ Null < MaxValue

Ops == {"EQ", "GT", "LE", "LT", "GE"}

Left(v)  == 2 * v
Right(v) == 2 * v + 1
INFNEG   == -1
INFPOS   == Right(MaxValue) + 1

\* Mutant: the value itself satisfies a strict constraint.
Mutant_RangeOf(op, v) ==
    CASE op = "EQ" -> [lo |-> Left(v), hi |-> Right(v)]
      [] op = "GT" -> [lo |-> Left(v), hi |-> INFPOS]
      [] op = "GE" -> [lo |-> Left(v), hi |-> INFPOS]
      [] op = "LT" -> [lo |-> INFNEG, hi |-> Left(v)]
      [] op = "LE" -> [lo |-> INFNEG, hi |-> Right(v)]

\* The values between two bounds.
RangeOf(op, v) ==
    CASE op = "EQ" -> [lo |-> Left(v), hi |-> Right(v)]
      [] op = "GT" -> [lo |-> Right(v), hi |-> INFPOS]
      [] op = "GE" -> [lo |-> Left(v), hi |-> INFPOS]
      [] op = "LT" -> [lo |-> INFNEG, hi |-> Left(v)]
      [] op = "LE" -> [lo |-> INFNEG, hi |-> Right(v)]

\* The ranges of the constraints on a column, and their intersection.
RangesOn(cons, args, col) ==
    {RangeOf(cons[i].op, args[i]) : i \in {j \in DOMAIN cons : cons[j].col = col}}

Combined(cons, args, col) ==
    LET ranges == RangesOn(cons, args, col) IN
    [lo |-> Max({INFNEG} \cup {r.lo : r \in ranges}),
     hi |-> Min({INFPOS} \cup {r.hi : r \in ranges})]

\* Mutant: a bound is taken for its value, as if LEFT and RIGHT were the same.
Mutant_Contradict(cons, args) ==
    \E range \in {Combined(cons, args, cons[i].col) : i \in DOMAIN cons} :
        range.lo \div 2 >= range.hi \div 2

\* Two constraints on one column exclude each other: compineconstraints returns None.
Contradict(cons, args) ==
    \E range \in {Combined(cons, args, cons[i].col) : i \in DOMAIN cons} : range.lo >= range.hi

\* Mutant: a value on the lower bound is left out.
Mutant_Within(v, range) == range.lo < Left(v) /\ Left(v) < range.hi

Within(v, range) == range.lo <= Left(v) /\ Left(v) < range.hi

-----------------------------------------------------------------------------
\* What SQL says of a constraint: nothing compares with NULL.
Holds(op, v, w) ==
    /\ v # Null /\ w # Null
    /\ CASE op = "EQ" -> v = w
         [] op = "GT" -> v > w
         [] op = "GE" -> v >= w
         [] op = "LT" -> v < w
         [] op = "LE" -> v <= w

\* The rows of data that a WHERE clause selects.
Selected(data, cons, args) ==
    {r \in DOMAIN data : \A i \in DOMAIN cons : Holds(cons[i].op, data[r][cons[i].col], args[i])}
=============================================================================
