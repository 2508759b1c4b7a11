-------------------------------- MODULE CacheVT --------------------------------
(***************************************************************************)
(* The cache operator, vtable/cache.py: a table in memory that negotiates  *)
(* constraints and orders with SQLite (BestIndex) and answers them itself. *)
(*                                                                         *)
(* Cursors share the table's rows and its one index, which a scan with     *)
(* another plan than the last one calculates anew.  A scan without         *)
(* constraints reads the list of rows through an iterator, and an order    *)
(* sorts that list in place, whoever is reading it.                        *)
(* The rows that an index finds are KdTree's: here they are a set.         *)
(***************************************************************************)
EXTENDS KdRanges, SequencesExt

CONSTANTS
    Rows,      \* the rows of the cached query
    Cursors,
    Queries,   \* on the table: [terms, order], terms [col, op, usable], an order of [col, desc]
    Args,      \* Args[q]: what the terms of q that are passed on are compared with
    Lists,     \* identities of list objects
    NoList,
    Faults     \* subset of {"interrupt"}

\* The rows of one query have the same columns.
ASSUME RowsOK ==
    /\ Rows \in Seq(Seq(0..MaxValue)) /\ Rows # <<>>
    /\ \A r \in DOMAIN Rows : Len(Rows[r]) = Len(Rows[1])

ASSUME QueriesOK ==
    \A q \in Queries :
        /\ q.terms \in Seq([col : DOMAIN Rows[1], op : Ops \cup {"MATCH"}, usable : BOOLEAN])
        /\ q.order \in Seq([col : DOMAIN Rows[1], desc : BOOLEAN])

\* There is a list for every cursor and one for the table.
ASSUME ListsOK == Cardinality(Lists) > Cardinality(Cursors) /\ IsFiniteSet(Cursors) /\ NoList \notin Lists

VARIABLES
    lists,   \* the contents of list objects, as row numbers
    table,   \* LTable: its list, its index and what it was calculated for
    cur      \* cursors

vars == <<lists, table, cur>>

NoQuery == [terms |-> <<>>, order |-> <<>>]
NoPlan == [cons |-> <<>>, order |-> <<[col |-> 0, desc |-> FALSE]>>]

\* list and pos are those of a list iterator, list = NoList for the rows of an index,
\* which are left in rest; got is what the scan has returned.  History: sound says that no
\* interrupt has hit the scan nor the last calculation before it, resorted that another
\* cursor has changed the order of the list while this one was reading it.
NewCur == [st |-> "closed", query |-> NoQuery, values |-> <<>>, list |-> NoList, pos |-> 0,
           rest |-> <<>>, got |-> <<>>, sound |-> TRUE, resorted |-> FALSE]

Identity == [r \in DOMAIN Rows |-> r]

\* index is lastcalculatedidx; tree the list the kd-tree was made from, cols its
\* columns; fits says that its rows have the column orderindex, torn that the last
\* calculation was interrupted before lastcalculatedidx was set.
Init ==
    \E l \in Lists :
        /\ lists = [i \in Lists |-> IF i = l THEN Identity ELSE <<>>]
        /\ table = [data |-> l, index |-> NoPlan, ordered |-> FALSE, fits |-> TRUE,
                    tree |-> <<>>, cols |-> {}, torn |-> FALSE]
        /\ cur = [c \in Cursors |-> NewCur]

-----------------------------------------------------------------------------
\* Where number i comes among those in I, and the elements of s at the places in I.
Place(I, i) == Cardinality({j \in I : j < i}) + 1
At(s, I) == [n \in 1..Cardinality(I) |-> s[CHOOSE i \in I : Place(I, i) = n]]

-----------------------------------------------------------------------------
(* xBestIndex and BestIndex *)

\* A MATCH and what SQLite has no value for yet stay with SQLite.
Taken(term) == term.usable /\ term.op # "MATCH"
TakenIn(q) == {i \in DOMAIN q.terms : Taken(q.terms[i])}

\* SQLite has a value for each of the terms taken.
ASSUME ArgsOK == \A q \in Queries : Args[q] \subseteq [TakenIn(q) -> 0..MaxValue]

\* SQLite is told to check the constraints no more and not to sort.
BestIndex(q) == [cons |-> At(q.terms, TakenIn(q)), order |-> q.order]

\* Where Filter finds the plan of a query, calculated when the query was prepared.
consdict == [q \in Queries |-> BestIndex(q)]

Plans == {BestIndex(q) : q \in Queries}

\* Where among the arguments of xFilter SQLite is to put the value of a term.
ArgvIndex == [q \in Queries |-> [i \in DOMAIN q.terms |->
    IF Taken(q.terms[i]) THEN Place(TakenIn(q), i) ELSE 0]]

Argv(q, values) ==
    [k \in DOMAIN consdict[q].cons |-> values[CHOOSE i \in DOMAIN values : ArgvIndex[q][i] = k]]

-----------------------------------------------------------------------------
(* calculate_indexes *)

\* Row r comes before row s.
Precedes(r, s, order) ==
    \E k \in DOMAIN order :
        LET v == Rows[r][order[k].col]
            w == Rows[s][order[k].col]
        IN /\ IF order[k].desc THEN v > w ELSE v < w
           /\ \A l \in 1..(k - 1) : Rows[r][order[l].col] = Rows[s][order[l].col]

\* The stable sorts by the columns of an order, last to first.
SortedBy(s, order) ==
    LET Before(i, j) == \/ Precedes(s[i], s[j], order)
                        \/ ~Precedes(s[j], s[i], order) /\ i < j
        by == CHOOSE f \in SetToSeqs(DOMAIN s) : \A i, j \in DOMAIN s : i < j => Before(f[i], f[j])
    IN [n \in DOMAIN s |-> s[by[n]]]

\* The list objects that are in use when cursor c starts a scan; the others are
\* garbage, each of which may serve as a new list.
Used(c) == {table.data} \cup ({cur[d].list : d \in Cursors \ {c}} \ {NoList})
Unused(c) == Lists \ Used(c)

\* The table's list is sorted in place.
Sort(c, content) == [l \in Lists |-> IF l = table.data THEN content
                                     ELSE IF l \in Used(c) THEN lists[l] ELSE <<>>]

\* The columns of an index; without constraints kdtree takes them all.
Columns(p) == IF p.cons = <<>> THEN DOMAIN Rows[1] ELSE {p.cons[i].col : i \in DOMAIN p.cons}

\* Mutant: the index is calculated once.
Mutant_Stale(p) == table.index = NoPlan

Stale(p) == table.index # p

\* Mutant: the table stays ordered when the new plan has no order.
Mutant_Calculate(c, p, new, index) ==
    LET content == SortedBy(lists[table.data], p.order) IN
    IF p.order = <<>>
    THEN /\ table' = [table EXCEPT !.index = index, !.torn = index # p,
                                   !.cols = Columns(p), !.tree = lists[table.data]]
         /\ UNCHANGED lists
    ELSE /\ lists' = [Sort(c, content) EXCEPT ![new] = content]
         /\ table' = [table EXCEPT !.index = index, !.torn = index # p, !.ordered = TRUE, !.fits = TRUE,
                                   !.cols = Columns(p), !.data = new, !.tree = content]

\* The list is sorted in place; a new list takes its rows with their positions,
\* by which the rows of the index are to be sorted.
Calculate(c, p, new, index) ==
    LET content == SortedBy(lists[table.data], p.order) IN
    IF p.order = <<>>
    THEN /\ table' = [table EXCEPT !.index = index, !.torn = index # p, !.ordered = FALSE, !.fits = TRUE,
                                   !.cols = Columns(p), !.tree = lists[table.data]]
         /\ UNCHANGED lists
    ELSE /\ lists' = [Sort(c, content) EXCEPT ![new] = content]
         /\ table' = [table EXCEPT !.index = index, !.torn = index # p, !.ordered = TRUE, !.fits = TRUE,
                                   !.cols = Columns(p), !.data = new, !.tree = content]

\* The index is calculated if it is another plan's.
Indexed(c, p) ==
    IF Stale(p)
    THEN \E new \in Unused(c) : Calculate(c, p, new, p)
    ELSE UNCHANGED <<lists, table>>

-----------------------------------------------------------------------------
(* Cursor *)

\* What kdtree.query finds with the constraints on the columns of the index.
Found(t, p, args) ==
    LET range == [c \in t.cols |-> Combined(p.cons, args, c)] IN
    {r \in DOMAIN Rows : \A c \in t.cols : Within(Rows[r][c], range[c])}

\* Mutant: the iterator moves on beyond the last row.
Mutant_Advance(r, content) ==
    IF r.list # NoList
    THEN IF r.pos < Len(content)
         THEN [r EXCEPT !.st = "row", !.pos = r.pos + 1, !.got = Append(r.got, content[r.pos + 1])]
         ELSE [r EXCEPT !.st = "eof", !.pos = r.pos + 1]
    ELSE IF r.rest # <<>>
         THEN [r EXCEPT !.st = "row", !.rest = Tail(r.rest), !.got = Append(r.got, Head(r.rest))]
         ELSE [r EXCEPT !.st = "eof"]

\* resultrows.next(); the end is an exception.
Advance(r, content) ==
    IF r.list # NoList
    THEN IF r.pos < Len(content)
         THEN [r EXCEPT !.st = "row", !.pos = r.pos + 1, !.got = Append(r.got, content[r.pos + 1])]
         ELSE [r EXCEPT !.st = "eof"]
    ELSE IF r.rest # <<>>
         THEN [r EXCEPT !.st = "row", !.rest = Tail(r.rest), !.got = Append(r.got, Head(r.rest))]
         ELSE [r EXCEPT !.st = "eof"]

Open(c) ==
    /\ cur[c].st = "closed"
    /\ cur' = [cur EXCEPT ![c].st = "open"]
    /\ UNCHANGED <<lists, table>>

MayFilter(c) == cur[c].st \in {"open", "row", "eof"}

\* SQLite asks nothing more of a scan that was interrupted but to be closed.
Interrupted == [NewCur EXCEPT !.st = "failed", !.sound = FALSE]

Start(q, values, list, rest) ==
    [NewCur EXCEPT !.query = q, !.values = values, !.list = list, !.rest = rest, !.sound = ~table'.torn]

\* Cursor c becomes a; those that are reading the table's list find it resorted if c has
\* sorted it.
Became(c, a) ==
    [d \in Cursors |->
        IF d = c THEN a
        ELSE IF cur[d].st = "row" /\ cur[d].list = table.data /\ lists'[table.data] # lists[table.data]
             THEN [cur[d] EXCEPT !.resorted = TRUE]
             ELSE cur[d]]

\* The rows of an index in its order; sorting needs their positions.  When nobody
\* asks for an order this one stands for any.
InOrder(t, found) == At(t.tree, {i \in DOMAIN t.tree : t.tree[i] \in found})

Filter(c, q, values) ==
    LET p == consdict[q]
        args == Argv(q, values)
        found == IF Contradict(p.cons, args) THEN {} ELSE Found(table', p, args)
    IN
    /\ MayFilter(c)
    /\ Indexed(c, p)
    /\ IF p.cons = <<>>
       THEN cur' = Became(c, Advance(Start(q, values, table'.data, <<>>), lists'[table'.data]))
       ELSE /\ table'.ordered => ~Contradict(p.cons, args) /\ (table'.fits \/ found = {})
            /\ \E rest \in IF table'.ordered \/ p.order = <<>> THEN {InOrder(table', found)}
                           ELSE SetToSeqs(found) :
                  cur' = Became(c, Advance(Start(q, values, NoList, rest), <<>>))

\* The query of an ordered index is run to its end by sorted, outside the try:
\* its exception, or that of a row without a position, fails the scan.
FilterFailed(c, q, values) ==
    LET p == consdict[q]
        args == Argv(q, values)
    IN
    /\ MayFilter(c) /\ p.cons # <<>>
    /\ Indexed(c, p)
    /\ table'.ordered
    /\ Contradict(p.cons, args) \/ (~table'.fits /\ Found(table', p, args) # {})
    /\ cur' = Became(c, [Start(q, values, NoList, <<>>) EXCEPT !.st = "failed"])

\* A KeyboardInterrupt stops calculate_indexes on its way: after the old order was
\* given up, between the sorts, before or after the new index is there; or it
\* stops the query.
FilterInterrupted(c, p) ==
    LET From(k) == SortedBy(lists[table.data], SubSeq(p.order, k, Len(p.order)))
        Torn == [table EXCEPT !.ordered = FALSE, !.torn = TRUE]
        Unfit == [Torn EXCEPT !.ordered = TRUE, !.fits = FALSE]
    IN
    /\ "interrupt" \in Faults
    /\ MayFilter(c)
    /\ \/ ~Stale(p) /\ UNCHANGED <<lists, table>>
       \/ Stale(p) /\ UNCHANGED lists /\ table' = Torn
       \/ /\ Stale(p) /\ p.order # <<>>
          /\ \/ /\ \E k \in 1..(Len(p.order) + 1) : lists' = Sort(c, From(k))
                /\ table' = Unfit
             \/ \E new \in Unused(c) : /\ lists' = [Sort(c, From(1)) EXCEPT ![new] = From(1)]
                /\ table' = [Unfit EXCEPT !.data = new]
       \/ /\ Stale(p)
          /\ \E index \in {table.index, p} : \E new \in Unused(c) : Calculate(c, p, new, index)
    /\ cur' = Became(c, Interrupted)

Next_(c) ==
    /\ cur[c].st = "row"
    /\ \/ cur' = [cur EXCEPT ![c] = Advance(cur[c], IF cur[c].list = NoList THEN <<>> ELSE lists[cur[c].list])]
       \/ "interrupt" \in Faults /\ cur' = [cur EXCEPT ![c] = Interrupted]
    /\ UNCHANGED <<lists, table>>

Close(c) ==
    /\ cur[c].st # "closed"
    /\ cur' = [cur EXCEPT ![c] = NewCur]
    /\ UNCHANGED <<lists, table>>

-----------------------------------------------------------------------------
Next ==
    \E c \in Cursors :
        \/ Open(c)
        \/ \E q \in Queries : \E values \in Args[q] : Filter(c, q, values) \/ FilterFailed(c, q, values)
        \/ \E p \in Plans : FilterInterrupted(c, p)
        \/ Next_(c)
        \/ Close(c)

Spec == Init /\ [][Next]_vars

-----------------------------------------------------------------------------
(* Properties *)

RowNumbers == DOMAIN Rows

\* The variables have their types, and every list that is in use is a permutation
\* of the rows.
TypeOK ==
    /\ lists \in [Lists -> Seq(RowNumbers)]
    /\ table.data \in Lists /\ table.index \in Plans \cup {NoPlan}
    /\ {table.ordered, table.fits, table.torn} \subseteq BOOLEAN
    /\ table.tree \in Seq(RowNumbers) /\ table.cols \subseteq DOMAIN Rows[1]
    /\ \A c \in Cursors :
          /\ cur[c].st \in {"closed", "open", "row", "eof", "failed"}
          /\ cur[c].list \in Lists \cup {NoList} /\ cur[c].pos \in 0..Len(Rows)
          /\ cur[c].rest \in Seq(RowNumbers) /\ cur[c].got \in Seq(RowNumbers)
    /\ \A l \in ({table.data} \cup {cur[c].list : c \in Cursors}) \ {NoList} :
          Len(lists[l]) = Len(Rows) /\ IsInjective(lists[l])

\* What SQLite leaves to the scan: the terms it has passed a value for, and the order.
Chosen(s) ==
    {r \in DOMAIN Rows : \A i \in DOMAIN s.values :
        Holds(s.query.terms[i].op, Rows[r][s.query.terms[i].col], s.values[i])}

Ordered(s, order) == \A i, j \in DOMAIN s : i < j => ~Precedes(s[j], s[i], order)

\* The rows of which a term compares a NULL, which kdtree takes for the least value.
OfNulls(s) ==
    {r \in DOMAIN Rows : \E i \in DOMAIN s.values : Null \in {Rows[r][s.query.terms[i].col], s.values[i]}}

\* A scan returns the rows that the query's terms select, none twice and in the order
\* agreed to, whatever the scans before it and beside it have made of the index and of the
\* other lists: SQLite checks neither again (BestIndex sets omit and orderByConsumed).
\* These are all the exceptions: the scan uses an index which a KeyboardInterrupt has left
\* half-calculated; another cursor's calculate_indexes has sorted the list this scan was
\* still reading, as it does in the code; and rows of which a NULL was compared are
\* returned, too.
ScanAnswers ==
    \A c \in Cursors :
        LET s == cur[c]
            selected == Chosen(s)
        IN s.sound /\ ~s.resorted /\ s.st \in {"row", "eof"} =>
              /\ IsInjective(s.got) /\ ToSet(s.got) \subseteq selected \cup OfNulls(s)
              /\ Ordered(s.got, s.query.order)
              /\ s.st = "eof" => selected \subseteq ToSet(s.got)

\* Only a scan whose list was sorted while it was reading loses a row or returns one
\* twice, not one with a half-calculated index; and it returns as many rows as there are,
\* so that each row it misses is made up for by one returned twice.
RowsKept ==
    \A c \in Cursors :
        LET s == cur[c] IN
        /\ ~s.resorted => IsInjective(s.got)
        /\ s.st = "eof" => IF s.resorted THEN Len(s.got) = Len(Rows)
                                         ELSE Chosen(s) \subseteq ToSet(s.got)

\* The index is the one of lastcalculatedidx: a scan with the same plan may use it.
\* After an interrupt this is so again from the next calculation on.
IndexFresh ==
    LET p == table.index IN
    ~table.torn /\ p # NoPlan =>
        /\ table.cols = Columns(p)
        /\ table.ordered <=> p.order # <<>>
        /\ table.ordered => /\ table.fits
                            /\ Ordered(table.tree, p.order) /\ Ordered(lists[table.data], p.order)

\* A scan that is not interrupted fails only if there is nothing to return.
FailsOnEmpty ==
    \A c \in Cursors : cur[c].st = "failed" =>
        ~cur[c].sound \/ Chosen(cur[c]) = {}
=============================================================================
