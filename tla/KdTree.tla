-------------------------------- MODULE KdTree --------------------------------
(***************************************************************************)
(* The index of the cache operator: lib/kdtree.py, kdtree and query.       *)
(*                                                                         *)
(* The tree is an array: node i has its halves at 2i+1 and 2i+2.  A node   *)
(* stands for the rows below it, in the order of its axis; the array holds *)
(* the median of them.  query is a generator: one step of this module is   *)
(* one iteration of its loop.                                              *)
(***************************************************************************)
EXTENDS KdRanges, SequencesExt

CONSTANTS
    Tables,    \* sequences of rows to index, each a sequence of values
    Queries    \* [cons, args]: constraints and their values

ASSUME InputsOK ==
    /\ \A t \in Tables : /\ t \in Seq(Seq(0..MaxValue)) /\ t # <<>> /\ t[1] # <<>>
                         /\ \A r \in DOMAIN t : Len(t[r]) = Len(t[1])
    /\ \A q \in Queries : /\ q.cons \in Seq([col : Nat \ {0}, op : Ops])
                          /\ q.args \in [DOMAIN q.cons -> 0..MaxValue]

VARIABLES
    data,    \* the rows
    query,   \* the constraints
    tree,    \* the rows below every node, as row numbers; <<>> where there is no node
    todo,    \* nodes to build or to visit and their axes, the next one last
    found,   \* what query has yielded
    st       \* "new", "build", "built", "search", "done" or "failed"

vars == <<data, query, tree, todo, found, st>>

N == Len(data)

\* calculate_indexes asks for the columns of the constraints, in their order and
\* with repetitions; without constraints the columns are all there are.
Columns == IF query.cons = <<>> THEN [i \in DOMAIN data[1] |-> i]
           ELSE [i \in DOMAIN query.cons |-> query.cons[i].col]

K == Len(Columns)

Init ==
    /\ data \in Tables
    /\ query \in {q \in Queries : \A i \in DOMAIN q.cons : q.cons[i].col \in DOMAIN data[1]}
    /\ tree = <<>> /\ todo = <<>> /\ found = <<>> /\ st = "new"

-----------------------------------------------------------------------------
(* kdtree *)

\* 2 ** e
Doubled[e \in Nat] == IF e = 0 THEN 1 ELSE 2 * Doubled[e - 1]

\* The length of the array: 2 ** (ceil(log(N, 2)) + 1).
Height == CHOOSE e \in 0..N : Doubled[e] >= N /\ Doubled[e] < 2 * N
Size == 2 * Doubled[Height]

\* sorted, which is stable
Sorted(s, col) ==
    LET Before(i, j) == \/ data[s[i]][col] < data[s[j]][col]
                        \/ data[s[i]][col] = data[s[j]][col] /\ i < j
        Rank(j) == Cardinality({i \in DOMAIN s : Before(i, j)}) + 1
    IN [n \in DOMAIN s |-> s[CHOOSE j \in DOMAIN s : Rank(j) = n]]

NextAxis(a) == (a % K) + 1

\* The nodes after t, with the axis that comes next.
Child(t, half) == [node |-> 2 * t.node + half, axis |-> NextAxis(t.axis)]

Build ==
    /\ st = "new"
    /\ tree' = [i \in 0..(Size - 1) |-> IF i = 0 THEN [r \in 1..N |-> r] ELSE <<>>]
    /\ todo' = <<[node |-> 0, axis |-> 1]>>
    /\ st' = "build"
    /\ UNCHANGED <<data, query, found>>

\* Mutant: the rows are cut in the order they come in.
Mutant_Kdtreerec ==
    LET t == Last(todo)
        rows == tree[t.node]
        m == Len(rows) \div 2
    IN
    /\ st = "build" /\ todo # <<>>
    /\ IF Len(rows) # 1
       THEN /\ tree' = [tree EXCEPT ![2 * t.node + 1] = SubSeq(rows, 1, m),
                                    ![2 * t.node + 2] = SubSeq(rows, m + 1, Len(rows))]
            /\ todo' = Front(todo) \o <<Child(t, 2), Child(t, 1)>>
       ELSE todo' = Front(todo) /\ UNCHANGED tree
    /\ UNCHANGED <<data, query, found, st>>

\* kdtreerec: the rows of a node are sorted by its axis and cut into halves.
Kdtreerec ==
    LET t == Last(todo)
        rows == Sorted(tree[t.node], Columns[t.axis])
        m == Len(rows) \div 2
    IN
    /\ st = "build" /\ todo # <<>>
    /\ IF Len(rows) # 1
       THEN /\ tree' = [tree EXCEPT ![t.node] = rows,
                                    ![2 * t.node + 1] = SubSeq(rows, 1, m),
                                    ![2 * t.node + 2] = SubSeq(rows, m + 1, Len(rows))]
            /\ todo' = Front(todo) \o <<Child(t, 2), Child(t, 1)>>
       ELSE todo' = Front(todo) /\ UNCHANGED tree
    /\ UNCHANGED <<data, query, found, st>>

Built ==
    /\ st = "build" /\ todo = <<>>
    /\ st' = "built"
    /\ UNCHANGED <<data, query, tree, todo, found>>

\* treedata[i]
Median(i) == tree[i][Len(tree[i]) \div 2 + 1]

-----------------------------------------------------------------------------
(* query *)

AxisRange(axis) == Combined(query.cons, query.args, Columns[axis])

Begin ==
    /\ st = "built" /\ ~Contradict(query.cons, query.args)
    /\ todo' = <<[node |-> 0, axis |-> 1]>>
    /\ st' = "search"
    /\ UNCHANGED <<data, query, tree, found>>

\* compineconstraints returns None, which "c not in cc" does not take.
BeginFailed ==
    /\ st = "built" /\ Contradict(query.cons, query.args)
    /\ st' = "failed"
    /\ UNCHANGED <<data, query, tree, todo, found>>

\* Mutant: only the end of the array makes a leaf.
Mutant_IsLeaf(i) == 2 * i + 1 > Size

IsLeaf(i) ==
    LET left == 2 * i + 1 IN
    \/ left > Size
    \/ left >= N /\ left < Size /\ tree[left] = <<>>

Passes(r) == \A a \in 1..K : Within(data[r][Columns[a]], AxisRange(a))

VisitLeaf ==
    LET i == Last(todo).node IN
    /\ st = "search" /\ todo # <<>> /\ IsLeaf(i)
    /\ todo' = Front(todo)
    /\ found' = IF Passes(Median(i)) THEN Append(found, Median(i)) ELSE found
    /\ UNCHANGED <<data, query, tree, st>>

\* Mutant: a bound that equals the median excludes the left half, whose last rows
\* may equal the median, too.
Mutant_Halfway(t) ==
    LET middle == Left(data[Median(t.node)][Columns[t.axis]]) IN
    (IF AxisRange(t.axis).hi > middle THEN <<Child(t, 2)>> ELSE <<>>)
    \o (IF AxisRange(t.axis).lo < middle THEN <<Child(t, 1)>> ELSE <<>>)

\* The halves of a node that may have rows in the range, the left one on top.
Halfway(t) ==
    LET middle == Left(data[Median(t.node)][Columns[t.axis]]) IN
    (IF AxisRange(t.axis).hi > middle THEN <<Child(t, 2)>> ELSE <<>>)
    \o (IF AxisRange(t.axis).lo <= middle THEN <<Child(t, 1)>> ELSE <<>>)

VisitInner ==
    LET t == Last(todo) IN
    /\ st = "search" /\ todo # <<>> /\ ~IsLeaf(t.node)
    /\ todo' = Front(todo) \o Halfway(t)
    /\ UNCHANGED <<data, query, tree, found, st>>

End ==
    /\ st = "search" /\ todo = <<>>
    /\ st' = "done"
    /\ UNCHANGED <<data, query, tree, todo, found>>

-----------------------------------------------------------------------------
Next == Build \/ Kdtreerec \/ Built \/ Begin \/ BeginFailed \/ VisitLeaf \/ VisitInner \/ End

Spec == Init /\ [][Next]_vars

-----------------------------------------------------------------------------
(* Properties *)

\* The rows to find.
Wanted == Selected(data, query.cons, query.args)

\* The variables have their types and what waits to be visited is a node.
TypeOK ==
    /\ st \in {"new", "build", "built", "search", "done", "failed"}
    /\ st # "new" => tree \in [0..(Size - 1) -> Seq(1..N)]
    /\ \A n \in DOMAIN todo : /\ todo[n].axis \in 1..K
                              /\ todo[n].node \in 0..(Size - 1) /\ tree[todo[n].node] # <<>>
    /\ found \in Seq(1..N)

\* No row is lost and none comes twice, however the rows tie on the axes and
\* wherever the bounds fall: what is selected has been found or lies below exactly
\* one of the nodes that are yet to be visited (query, kdtreerec).
NoneMissed ==
    st \in {"search", "done"} =>
        /\ Wanted \subseteq ToSet(found) \cup UNION {ToSet(tree[t.node]) : t \in ToSet(todo)}
        /\ IsInjective(found)
        /\ \A i, j \in DOMAIN todo :
              LET rows == ToSet(tree[todo[i].node]) IN
              /\ rows \cap ToSet(found) = {}
              /\ i # j => rows \cap ToSet(tree[todo[j].node]) = {}

\* The state of the scan that query implements.
over == st \in {"done", "failed"}
left == Wanted \ ToSet(found)

IScan == INSTANCE IndexScan WITH Rows <- Nat, want <- left, got <- ToSet(found)

\* query returns what the WHERE clause selects, SQLite not checking it again; when
\* it fails there was nothing to return.
ImplementsIndexScan == IScan!Init /\ [][IScan!Next]_<<left, ToSet(found), over>>
=============================================================================
