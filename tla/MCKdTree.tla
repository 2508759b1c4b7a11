------------------------------- MODULE MCKdTree -------------------------------
(* Instances of KdTree for TLC *)
EXTENDS KdTree

CONSTANTS
    MaxRows,     \* rows of a table in any order
    MaxSorted    \* rows of a table of one column in order

\* The tables of up to n rows with values up to max.
Of(width, n, max) == UNION {[1..m -> [1..width -> 1..max]] : m \in 1..n}

OneColumn ==
    Of(1, MaxRows, MaxValue) \cup
    UNION {{[i \in 1..m |-> <<s[i]>>] :
            s \in {f \in [1..m -> 1..MaxValue] : \A i \in 2..m : f[i - 1] <= f[i]}} :
           m \in 1..MaxSorted}

OneAndTwoColumns == OneColumn \cup Of(2, MaxRows, 2)

\* Queries of up to two constraints on the columns.
UpToTwo(width, max) ==
    {[cons |-> [i \in DOMAIN q |-> q[i][1]], args |-> [i \in DOMAIN q |-> q[i][2]]] :
        q \in UNION {[1..m -> [col : 1..width, op : Ops] \X (1..max)] : m \in 0..2}}

OnOne == {q \in UpToTwo(1, MaxValue) : Len(q.cons) = 2 => q.args[1] <= q.args[2]}
OnOneOrTwo == OnOne \cup {q \in UpToTwo(2, 2) : Len(q.cons) = 2 => q.cons[1].col # q.cons[2].col}
===============================================================================
