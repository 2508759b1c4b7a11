------------------------------- MODULE MCCacheVT -------------------------------
(* Instances of CacheVT for TLC *)
EXTENDS CacheVT, TLC

CONSTANTS c1, c2, l1, l2, l3

Term(col, op) == [col |-> col, op |-> op, usable |-> TRUE]
Later(col, op) == [col |-> col, op |-> op, usable |-> FALSE]
Asc(col) == [col |-> col, desc |-> FALSE]
Desc(col) == [col |-> col, desc |-> TRUE]

TwoRows == << <<1, 2>>, <<2, Null>> >>

\* All rows in an order; an interval in another order with a MATCH among its terms; the
\* rows up to a value, joined with another table.
AllOrdered == [terms |-> <<>>, order |-> <<Asc(2), Asc(1)>>]
OrderedInterval == [terms |-> <<Term(1, "GE"), Term(2, "MATCH"), Term(1, "LE")>>, order |-> <<Desc(2)>>]
UpTo == [terms |-> <<Later(1, "EQ"), Term(2, "LE")>>, order |-> <<>>]

AllQueries == {AllOrdered, OrderedInterval, UpTo}

\* One value, both and none in the interval; the row with the NULL is found beside the other.
AllArgs == [q \in AllQueries |->
    CASE q = AllOrdered -> {<<>>}
      [] q = OrderedInterval -> {1 :> a @@ 3 :> b : <<a, b>> \in {<<1, 1>>, <<1, 2>>, <<2, 1>>}}
      [] q = UpTo -> {2 :> 2}]

Alike == Permutations({c1, c2}) \cup Permutations({l1, l2, l3})
===============================================================================
