------------------------------ MODULE MCDataflow ------------------------------
(* Instances of Dataflow for TLC *)
EXTENDS Dataflow, TLC

CONSTANTS b1, b2, b3, c1, c2

B == INSTANCE MalBlock

Ins(ret, args) == [ret |-> ret, args |-> args]

\* x := f(); y := g(); z := h(x, x, y): a join, with x used twice
Join3 == <<Ins({"x"}, <<>>), Ins({"y"}, <<>>), Ins({"z"}, <<"x", "x", "y">>)>>
JoinWakes == << <<3, 3>>, <<3>>, <<>> >>
\* x := f(); y := g(x, x); z := h(x): the scope of x ends at z, so y comes before z
Line3 == <<Ins({"x"}, <<>>), Ins({"y"}, <<"x", "x">>), Ins({"z"}, <<"x">>)>>
LineWakes == << <<2, 2, 3>>, <<3, 3>>, <<>> >>
ScopeAt(n) == [v \in {"x", "y", "z"} |-> n]
ASSUME GraphsOK == /\ B!Graph(Join3, ScopeAt(3)) = JoinWakes
                   /\ B!Graph(Line3, ScopeAt(3)) = LineWakes

MCClients == {c1, c2}
NoneOf == {}
NoLimit == [c \in MCClients |-> 0]
Claims(e) == e[1] = b1 /\ e[2] \in {1, 2}

\* x and z call blocks, the first of which may have to run serially; x and y compete
\* for memory, and y and what x calls may raise an exception.
FlowsBlocks == {b1, b2, b3}
FlowsClient == [b \in FlowsBlocks |-> c1]
FlowsCaller == (b1 :> None) @@ (b2 :> <<b1, 1>>) @@ (b3 :> <<b1, 3>>)
FlowsSize == (b1 :> 3) @@ (b2 :> 3) @@ (b3 :> 1)
FlowsWakes == (b1 :> JoinWakes) @@ (b2 :> LineWakes) @@ (b3 :> << <<>> >>)
FlowsFail == {<<b2, 1>>, <<b1, 2>>}
FlowsClaim == [e \in {b1, b2} \X (1..3) \cup {<<b3, 1>>} |->
                 IF e \in {<<b1, 1>>, <<b1, 2>>} THEN 1 ELSE 0]
FlowsNotStart == {b2}

\* The instructions of the second client never return, and are as many as the workers.
BigBlocks == {b1, b2}
BigClient == (b1 :> c1) @@ (b2 :> c2)
BigCaller == [b \in BigBlocks |-> None]
BigSize == (b1 :> 2) @@ (b2 :> 3)
BigWakes == (b1 :> << <<2>>, <<>> >>) @@ (b2 :> << <<>>, <<>>, <<>> >>)
BigClaim == [e \in {b1} \X (1..2) \cup {b2} \X (1..3) |-> 0]
BigEndless == {b2} \X (1..3)

===============================================================================
