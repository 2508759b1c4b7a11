------------------------------- MODULE IndexScan -------------------------------
(***************************************************************************)
(* What a constrained scan promises: every selected row once, in any order,*)
(* then the end.  A scan whose constraints exclude each other may fail.    *)
(***************************************************************************)
EXTENDS FiniteSets

CONSTANT Rows

VARIABLES
    want,   \* selected rows that have not been returned
    got,    \* what has been returned
    over    \* the scan has ended

Init == want \in SUBSET Rows /\ got = {} /\ over = FALSE

Return ==
    /\ ~over
    /\ \E r \in want : want' = want \ {r} /\ got' = got \cup {r}
    /\ UNCHANGED over

Finish == ~over /\ want = {} /\ over' = TRUE /\ UNCHANGED <<want, got>>

Next == Return \/ Finish

Spec == Init /\ [][Next]_<<want, got, over>>
=============================================================================
