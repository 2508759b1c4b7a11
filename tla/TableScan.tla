------------------------------- MODULE TableScan -------------------------------
(***************************************************************************)
(* What a table function promises SQLite: each open cursor is an iterator  *)
(* of its own over the rows of its table.  A scan starts at the first row, *)
(* reads every row once and in order, and ends after the last; rewinding   *)
(* starts a new scan; nothing another cursor does is visible.              *)
(***************************************************************************)
EXTENDS Naturals, Sequences

CONSTANTS Tables, Cursors, RowCount, None

VARIABLES
    tab,    \* the table a cursor reads, None before it is opened
    phase,  \* where the cursor's scan is
    seen    \* rows read in the current scan

vars == <<tab, phase, seen>>

Init ==
    /\ tab = [c \in Cursors |-> None]
    /\ phase = [c \in Cursors |-> "unused"]
    /\ seen = [c \in Cursors |-> <<>>]

Open(t, c) ==
    /\ phase[c] = "unused"
    /\ tab' = [tab EXCEPT ![c] = t]
    /\ phase' = [phase EXCEPT ![c] = "idle"]
    /\ UNCHANGED seen

Rewind(c) ==
    /\ phase[c] \in {"idle", "row", "eof"}
    /\ phase' = [phase EXCEPT ![c] = "idle"]
    /\ seen' = [seen EXCEPT ![c] = <<>>]
    /\ UNCHANGED tab

Read(c) ==
    /\ phase[c] \in {"idle", "row"}
    /\ Len(seen[c]) < RowCount[tab[c]]
    /\ phase' = [phase EXCEPT ![c] = "row"]
    /\ seen' = [seen EXCEPT ![c] = Append(@, Len(@) + 1)]
    /\ UNCHANGED tab

Finish(c) ==
    /\ phase[c] \in {"idle", "row"}
    /\ Len(seen[c]) = RowCount[tab[c]]
    /\ phase' = [phase EXCEPT ![c] = "eof"]
    /\ UNCHANGED <<tab, seen>>

Close(c) ==
    /\ phase[c] \in {"idle", "row", "eof"}
    /\ phase' = [phase EXCEPT ![c] = "closed"]
    /\ UNCHANGED <<tab, seen>>

Next ==
    \E c \in Cursors :
        \/ \E t \in Tables : Open(t, c)
        \/ Rewind(c) \/ Read(c) \/ Finish(c) \/ Close(c)

Spec == Init /\ [][Next]_vars
=============================================================================
