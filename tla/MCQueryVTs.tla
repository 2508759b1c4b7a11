------------------------------ MODULE MCQueryVTs ------------------------------
(* Instances of QueryVTs for TLC *)
EXTENDS QueryVTs, TLC

CONSTANTS c1, c2, c3, n1, n2

Plan(makes, scans) == [makes |-> makes, scans |-> scans]
Temp(n) == [name |-> n, keep |-> FALSE]
Perm(n) == [name |-> n, keep |-> TRUE]

\* create temp view ... as select ... from op1; a query of that view; a query of one
\* operator
View == Plan(<<Perm(n1)>>, {})
OfView == Plan(<<>>, {n1})
One(n) == Plan(<<Temp(n)>>, {n})

MCCursors == {c1, c2, c3}
MCNames == {n1, n2}

\* Three cursors with the first operator in common, one of which makes views; the
\* second operator is the first cursor's own.
PrivatePlans == (c1 :> {Plan(<<Temp(n2), Temp(n1)>>, {n1, n2}), One(n2)})
                @@ (c2 :> {One(n1)}) @@ (c3 :> {OfView, View})
===============================================================================
