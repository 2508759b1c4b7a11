-------------------------------- MODULE DagRun --------------------------------
(***************************************************************************)
(* What runMALdataflow promises of a block: every instruction is executed  *)
(* at most once, between the call and the return, after all it depends on  *)
(* succeeded; the block succeeds when all did and otherwise returns the    *)
(* exception of one that did not.                                          *)
(***************************************************************************)
EXTENDS Naturals

CONSTANTS Blocks, Size, Needs, None

VARIABLES stage, ran, failed, result

vars == <<stage, ran, failed, result>>

Init == /\ stage = [b \in Blocks |-> "new"]
        /\ ran = [b \in Blocks |-> {}]
        /\ failed = [b \in Blocks |-> {}]
        /\ result = [b \in Blocks |-> None]

Open(b) == /\ stage[b] = "new"
           /\ stage' = [stage EXCEPT ![b] = "open"]
           /\ UNCHANGED <<ran, failed, result>>

Execute(b, i) ==
    /\ stage[b] = "open"
    /\ i \notin ran[b]
    /\ Needs[b][i] \subseteq ran[b] \ failed[b]
    /\ ran' = [ran EXCEPT ![b] = @ \cup {i}]
    /\ \/ failed' = failed
       \/ failed' = [failed EXCEPT ![b] = @ \cup {i}]
    /\ UNCHANGED <<stage, result>>

Close(b) ==
    /\ stage[b] = "open"
    /\ stage' = [stage EXCEPT ![b] = "closed"]
    /\ IF failed[b] = {}
       THEN ran[b] = 1..Size[b] /\ result' = result
       ELSE \E i \in failed[b] : result' = [result EXCEPT ![b] = i]
    /\ UNCHANGED <<ran, failed>>

Next == \E b \in Blocks : Open(b) \/ Close(b) \/ \E i \in 1..Size[b] : Execute(b, i)

Spec == Init /\ [][Next]_vars
===============================================================================
