----------------------------- MODULE MCStmtCursor -----------------------------
(* Small instances of StmtCursor. *)
EXTENDS StmtCursor, TLC

CONSTANTS two, script, setup, query, tail

Symmetry == Permutations(Cursors)

\* A query of two rows.
TwoRows == (two :> 2)
TwoRest == (two :> None)

\* A text of four statements, of which the first yields a row and the third two.
ScriptRows == (script :> 1) @@ (setup :> 0) @@ (query :> 2) @@ (tail :> 0)
ScriptRest == (script :> setup) @@ (setup :> query) @@ (query :> tail) @@ (tail :> None)
=============================================================================
