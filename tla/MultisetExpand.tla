---------------------------- MODULE MultisetExpand ----------------------------
(***************************************************************************)
(* The expand table function, functions/vtable/expand.py.                  *)
(*                                                                         *)
(* A multiset function returns a generator: iterwrapper registers it in    *)
(* the connection's openiters and SQLite gets its name as the value of the *)
(* column.  Expand executes the query, takes its first row with c.next()   *)
(* to learn the schema, takes the others with a for loop over c, and puts  *)
(* the elements of the generators named in a row in the row's place.       *)
(*                                                                         *)
(* The first value a generator yields is its schema.  A generator without  *)
(* even that is headless.                                                  *)
(***************************************************************************)
EXTENDS StmtCursor

CONSTANTS
    Reader,    \* the apsw cursor of the query that is expanded
    Columns,   \* columns of the query that call multiset functions
    Sizes,     \* how many elements a generator may yield after its schema
    Headless

ASSUME ExpandOK ==
    /\ Reader \in Rereaders
    /\ Columns \in Nat \ {0}
    /\ Sizes \subseteq Nat \cup {Headless}
    /\ Headless \notin Nat

VARIABLES
    query,   \* its text, the generators of each of its rows, whether AS names them
    phase,   \* where VTiter is
    taken,   \* how many rows of the query it has taken
    out,     \* the rows it has yielded
    open     \* openiters: generators by row and column of the query

xvars == <<query, phase, taken, out, open>>

Queries == UNION {[sql : {q}, named : BOOLEAN,
                   sizes : [1..RowCount[q] -> [1..Columns -> Sizes]]] : q \in Given}

XInit ==
    /\ Init
    /\ query \in Queries
    /\ phase = "new" /\ taken = 0 /\ out = <<>> /\ open = {}

-----------------------------------------------------------------------------
Generators(n) == IF n = 0 THEN {} ELSE {n} \X (1..Columns)

Headed(n)  == \A i \in 1..Columns : n # 0 => query.sizes[n][i] # Headless
Size(n, i) == IF query.sizes[n][i] = Headless THEN 0 ELSE query.sizes[n][i]
Empty(n)   == {i \in 1..Columns : n # 0 /\ Size(n, i) = 0}

\* exprown(row n): the elements of the last generator, each with the first
\* elements of the others, which by the second one have been used up.  Row 0 is
\* one without generators, which is what reading a statement that is not on a
\* row returns.
Exprown(n) ==
    IF n = 0 THEN <<[row |-> 0, el |-> 0]>>
    ELSE IF Empty(n) # {} THEN <<>>
    ELSE [k \in 1..Size(n, Columns) |-> [row |-> n, el |-> k]]

\* The generators exprown never gets to: an empty one comes before them.
Skipped(n) == {g \in Generators(n) : \E i \in Empty(n) : i < g[2]}

\* Mutant: a generator stays registered when it is used up.
Mutant_Freed(n) == {g \in Generators(n) : g[2] < Columns}

\* The generators exprown deletes from openiters.
Freed(n) == Generators(n) \ Skipped(n)

-----------------------------------------------------------------------------
(* The query *)

OwnStep == stack # <<>> /\ Top.cur = Reader

\* A step that comes to a row has called the multiset functions for it.
Register == open' = open \cup Generators(stmt'[cur'[Reader].stmt].pos)

XExecute ==
    /\ phase = "new" /\ Execute(Reader, query.sql)
    /\ phase' = "executing"
    /\ UNCHANGED <<query, taken, out, open>>

XExecuted ==
    /\ phase = "executing" /\ OwnStep
    /\ ExecuteRow \/ ExecuteDone
    /\ Register
    /\ phase' = "executed"
    /\ UNCHANGED <<query, taken, out>>

\* c.next(), the iterator the cursor was made with; later for row in c, a new one.
XIterate ==
    /\ phase \in {"executed", "again"} /\ StartIter(Reader)
    /\ phase' = IF phase = "executed" THEN "prefetch" ELSE "loop"
    /\ UNCHANGED <<query, taken, out, open>>

XFetch ==
    /\ phase \in {"prefetch", "loop"}
    /\ BeginRows(Reader) \/ NextRow(Reader)
    /\ UNCHANGED xvars

XFetched ==
    /\ phase \in {"prefetch", "loop"} /\ OwnStep /\ RowReturn
    /\ Register
    /\ phase' = IF phase = "prefetch" THEN "first" ELSE "row"
    /\ taken' = taken + 1
    /\ UNCHANGED <<query, out>>

XEmpty ==
    /\ phase = "prefetch" /\ NoRows(Reader)
    /\ phase' = "done"
    /\ UNCHANGED <<query, taken, out, open>>

XEnd ==
    /\ phase = "loop" /\ LastRow(Reader)
    /\ phase' = "done"
    /\ UNCHANGED <<query, taken, out, open>>

-----------------------------------------------------------------------------
(* A row *)

Row == it[Reader].row

\* In the first row a missing schema is an error unless AS names the column,
\* and then the multiset is taken as empty.
XFirst ==
    /\ phase = "first"
    /\ phase' = IF query.named \/ Headed(Row) THEN "expandfirst" ELSE "failed"
    /\ UNCHANGED <<vars, query, taken, out, open>>

\* In the others its StopIteration ends VTiter itself, with the rows left unread.
XRow ==
    /\ phase = "row"
    /\ phase' = IF Headed(Row) THEN "expand" ELSE "cut"
    /\ UNCHANGED <<vars, query, taken, out, open>>

\* Mutant: the row that was read for the schema is not expanded.
Mutant_XExpand ==
    /\ phase \in {"expandfirst", "expand"}
    /\ phase' = IF phase = "expandfirst" THEN "again" ELSE "loop"
    /\ out' = IF phase = "expandfirst" THEN out ELSE out \o Exprown(Row)
    /\ open' = open \ Freed(Row)
    /\ UNCHANGED <<vars, query, taken>>

XExpand ==
    /\ phase \in {"expandfirst", "expand"}
    /\ phase' = IF phase = "expandfirst" THEN "again" ELSE "loop"
    /\ out' = out \o Exprown(Row)
    /\ open' = open \ Freed(Row)
    /\ UNCHANGED <<vars, query, taken>>

\* The reader of the table function stops at one of its yields: the cursor is
\* left to the garbage collector, the generators stay registered.
XAbandon ==
    /\ phase \in {"expandfirst", "again", "expand", "loop"} /\ Forget(Reader)
    /\ phase' = "abandoned"
    /\ UNCHANGED <<query, taken, out, open>>

-----------------------------------------------------------------------------
(* What other cursors of the connection do meanwhile *)

Other ==
    /\ \/ \E c \in Cursors \ {Reader} :
            \/ \E q \in Given : Execute(c, q)
            \/ StartIter(c) \/ Resume(c) \/ Close(c) \/ Forget(c)
       \/ stack # <<>> /\ Top.cur # Reader /\ Return
       \/ \E s \in Stmts : Collect(s)
    /\ UNCHANGED xvars

XNext ==
    \/ XExecute \/ XExecuted \/ XIterate \/ XFetch \/ XFetched \/ XEmpty \/ XEnd
    \/ XFirst \/ XRow \/ XExpand \/ XAbandon \/ Other

XSpec == XInit /\ [][XNext]_<<vars, xvars>>

-----------------------------------------------------------------------------
(* Properties *)

\* What the first n rows of the query expand to.
Expansion(n) ==
    LET e[k \in 0..n] == IF k = 0 THEN <<>> ELSE e[k - 1] \o Exprown(k) IN e[n]

\* Expand yields the elements of every row of the query once, rows and elements
\* in order, although it reads the query through two iterators; it stops before
\* the end only at a row that has a generator without a schema.
ExpandsRows ==
    LET n == RowCount[query.sql] IN
    /\ Begins(out, Expansion(n))
    /\ phase = "done" => out = Expansion(n)
    /\ phase = "cut" => taken \in 2..n /\ ~Headed(taken) /\ out = Expansion(taken - 1)

\* openiters does not grow with the query: a registered generator belongs to the
\* row that is expanded, to the one fetched ahead of it, or comes after an empty
\* one in its row (such a generator stays registered as long as the connection).
GeneratorsFreed ==
    \A g \in open :
        \/ g[1] = taken + 1
        \/ g[1] = taken /\ phase \notin {"again", "loop", "done"}
        \/ g \in Skipped(g[1])
=============================================================================
