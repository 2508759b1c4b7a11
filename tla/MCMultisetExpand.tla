--------------------------- MODULE MCMultisetExpand ---------------------------
(* Small instances of MultisetExpand. *)
EXTENDS MultisetExpand, TLC

CONSTANTS none, one, two, three

\* Queries of no row, of one, of two and of three.
Rows == (none :> 0) @@ (one :> 1) @@ (two :> 2) @@ (three :> 3)
NoRest == [q \in {none, one, two, three} |-> None]

NoneOrMore == {0, 2, Headless}
OneOrTwo == {1, 2}
=============================================================================
