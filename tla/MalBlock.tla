------------------------------- MODULE MalBlock -------------------------------
(***************************************************************************)
(* The dependency graph of a block of MAL instructions: DFLOWinitBlk of    *)
(* mal_dataflow.c.                                                         *)
(*                                                                         *)
(* An instruction is a record of the set of variables it assigns and the   *)
(* sequence of those it reads, constants left out.  eol gives the last     *)
(* instruction in whose arguments a variable occurs, 0 when it is used     *)
(* after the block.                                                        *)
(***************************************************************************)
EXTENDS Naturals, FiniteSets, SequencesExt

\* assign[v] when DFLOWinitBlk comes to instruction n, 0 for none.
Assigned(code, n, v) ==
    LET A == {k \in 1 .. n - 1 : v \in code[k].ret} IN IF A = {} THEN 0 ELSE Max(A)

\* The wake-up of n for an argument, put in the list of k ...
ForArg(code, n, v, k) == IF k # 0 /\ Assigned(code, n, v) = k THEN <<n>> ELSE <<>>

\* Mutant: no edge for the end of a scope.
Mutant_ForScope(code, eol, n, v) == <<>>

\* ... and the one n gives the instruction where an argument's scope ends, so that the
\* variable is not garbage collected before its other uses.
ForScope(code, eol, n, v) == IF eol[v] > n /\ eol[v] <= Len(code) THEN <<eol[v]>> ELSE <<>>

\* The list of k, in the order in which it is made.
WakeList(code, eol, k) ==
    LET args(n) == code[n].args
    IN  FlattenSeq([j \in DOMAIN args(k) |-> ForScope(code, eol, k, args(k)[j])])
        \o FlattenSeq([m \in 1 .. Len(code) - k |->
              FlattenSeq([j \in DOMAIN args(k + m) |-> ForArg(code, k + m, args(k + m)[j], k)])])

Graph(code, eol) == [k \in DOMAIN code |-> WakeList(code, eol, k)]
===============================================================================
