# YeSQL in TLA+

YeSQL extends SQLite, and in a second version MonetDB, with Python functions
that a query can use as values, as aggregates and as tables. This directory
models the parts of it that are stateful and hard to test. In the SQLite version
they are what happens between SQLite's callbacks and the Python generators
behind them, between cursors that share prepared statements and virtual tables,
and between the scans of a table held in memory. In the MonetDB version they are
what runs the calls of wrapped functions over columns in parallel: the division
of a plan into parallel regions and the scheduler that executes them with the
threads of the server.

Paths below are relative to `src/YeSQLite`, those in `monetdb5/` to
`src/YeSQL_MonetDB/MonetDB-11.41.11`.

The modules are checked by TLC on small instances. Eight of them have proofs,
for every value of their constants, in modules of their own.

    tlc -workers 2 -config VirtualTable_slots.cfg MCVirtualTable.tla
    tlapm VirtualTable_proofs.tla

`PROJECT.json` lists the runs, the lines each definition stands for, the hazards
and what covers them, and for every property a wrong variant of the code
(an operator `Mutant_X` before the `X` it replaces) that it rejects.

## 1. The system

*YeSQLite* is one Python process, one thread. SQLite calls Python (virtual-table callbacks,
functions, aggregates) from within `sqlite3_step`, and that Python code may
execute queries on the same connection before it returns: the program is
sequential, but its calls nest, and generators suspend in the middle of what
they do. That, and exceptions at every level, is where its interleavings come
from. Nothing is persisted by the system itself, so there is no recovery to model.

| Component | State | Operations | Talks to |
|---|---|---|---|
| Virtual-table bridge, `pypylib/apsw.py` `createmodule` | `_vttables`, the parallel slot lists `_vtcursors`, `_vtcursorinstances`, `_vtcursortables` | xCreate, xBestIndex, xOpen, xFilter, xNext, xEof, xColumn, xClose, xDisconnect, xDestroy | SQLite above, table functions below |
| Table functions, `functions/vtable/vtbase.py` | `LTable.openedIter`, `LTable.cursors`, a generator per `Cursor` | Create, Open, Filter, Next, Close, Destroy | user generators, which run nested queries |
| Statements and cursors, `pypylib/apsw.py` `Statement`, `StatementCache`, `Cursor` | cached statements by text, `in_use`, `locked`, `exhausted`, a generator per iteration | get, execute, iteration, close, deletion | `sqlite3_step` |
| Query cursor, `functions/__init__.py` `Cursor` | `__vtables`, `__permanentvtables` | execute, executetrace, cleanupvts, close | the transformer, the cursor it wraps |
| Transformer, `functions/sqltransform.py` | cache of transformed texts | transform, vt_distinct | |
| Multiset functions, `functions/__init__.py` `iterwrapper`, `functions/vtable/expand.py` | `openiters`, a registry of generators | register, expand a row | a query cursor, read through two iterators |
| CACHE, `functions/vtable/cache.py` with `lib/kdtree.py` | the rows, one index, the plan it was made for | BestIndex, Filter, Next, calculate_indexes | the bridge, from which it takes constraints and orders |
| Output operators and flows, `vtout.py`, `output.py`, `exec.py`, ... | files, connections to other databases | run a query into a sink | query cursors |
| Windows and samples, `slidingwindow.py`, `sample.py`, ... | a generator over one query | | a query cursor |
| Aggregates, `createaggregatefunction` | `aggregate_instances` by address | step, final | SQLite |
| Sources, row functions, terminals, argument parsing | no shared state | | |

*The MonetDB version* keeps the function library, wraps the functions of a query
as C UDFs and lets MonetDB 11.41.11, of which it carries the source, call them.
There a query is a plan of MAL instructions. What is a UDF call over columns
(`batcapi.eval`) is a plain instruction for the optimizer, that is, it may run
at the same time as others; one over single values (`capi.eval`) is in the list
`hasSideEffects` and runs alone. Threads share the queue of instructions, the
table of workers and the status array of each block.

| Component | State | Operations | Talks to |
|---|---|---|---|
| Dataflow optimizer, `monetdb5/optimizer/opt_dataflow.c` | flags of each variable, the region so far | one pass over a plan | the graph of each region |
| Graph of a block, `DFLOWinitBlk` of `monetdb5/mal/mal_dataflow.c` | wake lists, counts of sources | made once for each execution | scopes of variables |
| Dataflow scheduler, the rest of `mal_dataflow.c` | the queue `todo`, the table `workers`, a flow per block with its status array and queue `done` | runMALdataflow, DFLOWscheduler, DFLOWworker | the interpreter, which calls blocks from within instructions |
| Admission control, `monetdb5/mal/mal_resource.c` | memory pool, workers and memory of a stack | claim, release | workers |
| C UDFs, `sql/backends/monet5/UDF/capi/capi.c` | cache of compiled functions | compile, call | workers |

What is hard, and what makes each part correct:

- *Bridge and table functions.* A callback is in the middle of resuming a
  generator while other callbacks run. Slots are reused. A generator is shared
  by Create, by the first Open and by Filter's restarts. Exceptions are
  reported, swallowed or turned into a disconnect of the whole table,
  depending on where they come up. Correct: every cursor is an iterator of its
  own over the rows of its table.
- *Statements and cursors.* A Statement is handed out by text and shared unless
  `in_use` says otherwise; eviction finalizes it; a generator holds the raw
  pointer across suspensions and steps once ahead of what it yields. Correct:
  one reader per statement, no use after finalize, the rows of every statement
  of a script in order, an end.
- *Query cursors.* Temporary tables are named by the text of an operator, shared
  by cursors that use the same one, and dropped by whoever listed them, also in
  failure. Correct: no table is forgotten; none is taken away between its
  creation and the query.
- *Multisets.* A column's value is the name of a generator somewhere else, and
  the first row of the query is read by one iterator, the others by another.
  Correct: every row is expanded once, in order; the registry does not grow.
- *CACHE.* SQLite is told not to check the constraints nor to sort. The index is
  one, the plans and scans are many, and sorting is done in place. Correct:
  scans answer what was negotiated, whatever was calculated in between. (Not so
  for a scan whose list is sorted while it reads: section 3.)
- *Optimizer and graph.* An update changes a column in place, a variable is
  released by the last instruction in the text that has it as an argument, and
  barrier blocks nest. Correct: of two instructions in conflict the second waits
  for the first, and a release waits for all uses.
- *Scheduler.* A worker takes a token and may find that the entry is another
  client's; it goes on with an instruction its last one has set free while the
  client's thread counts down the same edges; after an error the rest passes
  through the queues unexecuted; the flow is freed at the end; instructions call
  blocks, which come back to the same queue; every block starts a worker and
  makes another one exit. Correct: an instruction is executed once, after what
  it needs, the block returns with the exception of an instruction or none,
  nobody looks at a freed flow, and the number of workers does not drift.

## 2. The modules

| Module | Models | Proofs |
|---|---|---|
| `TableScan` | what a table function promises: isolated iterators | |
| `VirtualTable` | the bridge over `vtbase.py`; implements `TableScan` | `VirtualTable_proofs` |
| `StmtCursor` | `Statement`, `StatementCache`, apsw's `Cursor` | `StmtCursor_proofs` |
| `MultisetExpand` | `expand.py` and `iterwrapper`, composed with `StmtCursor` (EXTENDS: its query cursor is one of those) | `MultisetExpand_proofs` |
| `QueryVTs` | `functions.Cursor` and the temporary tables | `QueryVTs_proofs` |
| `IndexScan` | what a constrained scan promises | |
| `KdRanges` | constraints as intervals: `compineconstraints`, `constrainttorange` | |
| `KdTree` | building and searching the kd-tree; implements `IndexScan` | `KdTree_proofs` |
| `CacheVT` | `cache.py`, with `KdRanges` for what its index finds | `CacheVT_proofs` |
| `DagRun` | what runMALdataflow promises to its caller | |
| `Dataflow` | the scheduler with admission control; implements `DagRun` | `Dataflow_proofs` |
| `MalBlock` | the graph of a block | |
| `DataflowRegions` | the optimizer's pass, with the graphs `MalBlock` gives to its regions | `DataflowRegions_proofs` |

`MCx` modules give constants their values; `x_<run>.cfg` are the instances.

Common conventions. A call into code that may call back is two actions, the
call and the return, with a stack of those that wait and a bound `MaxDepth`.
The outcome of foreign code (a generator, `sqlite3_step`) is a choice; `Faults`
says which exceptions an instance allows. Python objects are named by numbers in
the order they are made, or are members of a small set, and an instance stops
when they are used up.

### VirtualTable

`slots` is the three parallel lists of the bridge, by slot number; `handle` is
SQLite's side of a cursor, `inst` the `Cursor` object of `vtbase.py`, `gen` the
generators with how many items were taken from each (the first is the schema),
`got` what SQLite has read in the current scan.

- Create reads the schema from a generator and keeps it in `openedIter`: the
  first Open takes it (`OpenFirst`), later ones start another (`OpenAgain`), and
  Filter starts another for every scan but the first. A generator that ends
  without a schema fails the Create, one that raises AbortError is tried once
  more (`CreateRetry`).
- xClose frees the slot before it runs the generator's clean-up code, and clears
  the rest of it afterwards (`Close`, `CloseReturn`), so a cursor that is opened
  by that time could be hit. It is not, because clean-up code opens nothing
  (`MayCall`): a generator that is being closed closes what it has open. That is
  read off the generators of the repository and assumed here; no property would
  notice clean-up code that does open a cursor.
- xFilter reports an exception, xNext keeps it to itself and returns SQLITE_OK
  with the row of before, xOpen returns SQLITE_OK with no cursor at all: the
  process dies when SQLite uses it (`Alive`).
- A KeyboardInterrupt in xFilter disconnects the table, that is, closes the
  generators of all its cursors, in order, until one of them raises
  (`DisconnectAll`).
- `Destroy` drops the schema generator without closing it. `Disconnect` does not
  call LTable.Disconnect, since the bridge looks for a method `xDisconnect`.

The model lets any cursor's callback nest in any other's, which is more than
SQLite does.

### StmtCursor

`stmt` are Statement objects with SQLite's position in their rows, `cache` the
ordered dictionary, `cur` the cursors, `it` the generator each reader goes on
with, `read` what the reader asked and got. A script is a text, with what is
left of it after its first statement (`Rest`); that a text gets shorter is the
assumption `RestEnds`. The generator of `__iter__` reads
a row, steps and only then yields the row, so `NextRow` calls the step whose
outcome (`RowReturn`, `LastRow`, `RowFailed`, then `RestBegin` ... for the next
statement) shows at the next resumption. A failed step resets the statement and
clears `in_use` although the cursor still refers to it; a failed prepare leaves
the cursor locked; both are as in the code, and the properties say exactly how
far the damage goes.

### MultisetExpand

Expand's reader is one cursor of `StmtCursor`, and every action conjoins one of
that module's with the state of `VTiter`: the registry `open`, the rows `out`.
A step that comes to a row registers a generator per multiset column; `exprown`
takes the elements of a row's generators and removes those it gets to. Reading
ahead registers the generators of the next row before those of this one are
gone. The other cursor executes the same texts through the same statement cache.

### QueryVTs

A plan is what the transformer returns: the tables a query makes, which of them
a view keeps, and those it scans. `Execute` drops what the cursor's last query
made, then makes the tables one by one (`MakeExisting`, `MakeCall`,
`MakeReturn`, `MakeFailed`) and runs the query. `Cleanup` drops last to first
and stops at a table that a half-read statement scans (`Pinned`): SQLite answers
SQLITE_LOCKED, executetrace starts the clean-up again from its handler, and so
on until the interpreter's recursion limit, after which the list is unchanged
and the cursor may be locked. A query that is half read pins its own tables, so
that even its close fails. `NoOrphan` therefore asks for the list, not for the
drop: a table stays listed until it is dropped, by a cursor that still exists.
It accepts a table that is refused for ever and those of a cursor that is dropped
without a close (`Forget`); `OwnTables` accepts that a cursor loses a table to
another one whose queries have the same operator.

Two remarks. A permanent table (of `create temp view`) is not protected from
another cursor that lists the same name: the comment at sqltransform.py:103
("mark its vtables as permanent") and `__permanentvtables` hold for the cursor
that made the view only; `kept` models just that. And queries whose creation
nests a query with the same operator are excluded: the text would have to
contain itself.

### KdRanges, KdTree

A bound is `2v` or `2v + 1`, so that inclusive and exclusive bounds are of one
order; NULL is below all values, as in Python 2. `Kdtreerec` is one call, on a
stack `todo` that stands for the recursion; `VisitLeaf` and `VisitInner` are one
turn of query's loop. The tree is the array of the code, with the test for a
leaf that looks past its end. What `Within` says of a row is what the comparison
of the code says; what SQL says is `Holds`, and `IndexScan` asks for the latter.

### CacheVT

List objects have identities: `table.data` and a scan's iterator refer to one,
`calculate_indexes` sorts it in place and then makes a new list. `BestIndex`
turns the terms SQLite offers into the plan of a scan (`consdict` keeps it) and
`Argv` passes their values; a term that is not usable, or a MATCH, stays with SQLite. A KeyboardInterrupt may
stop `calculate_indexes` at every point where its parts are inconsistent:
`ordered`, the sorts, `data`, `kdindex`, `lastcalculatedidx`
(`FilterInterrupted`). The list is sorted whoever is reading it: a scan without
constraints that has got to row 2 goes on with what is in place 3 afterwards.
The history field `resorted` remembers of such a scan that the order of its list
has changed (`Became`); it is read by the properties only.

### Dataflow, DagRun

A worker is identified with its slot in `workers`: `flag`, `cntxt` and `sema`
are the slot's, `pc`, `local`, `fe`, `fnxt` and `error` are the locals of the
thread in it. `todo`, `exitcount` and `tokens` are the shared queue with its
semaphore, `state`, `blocks`, `done` and `flowerror` the flow of a block. What
is done under one lock is one action, so the locks themselves do not appear.

- `Down` takes a token, `TakeOwn`, `TakeNothing`, `TakeLast` and `TakeExit` are
  what the worker then finds; between the two, others act. A worker for one
  client searches the queue from its end for its client's entry of lowest pc
  (`IsOldest`); when there is none it gives the token back (`GiveBack`) and
  sleeps for a millisecond. It has read its client before the down (`Loop`),
  which may be cleared meanwhile.
- `Skip`, `Admit` and `Refuse` are the tests before an instruction, `Run` is the
  return of the interpreter from it, with the exception it may raise. `WrapUp`
  is the section under `flowlock`: it records the first error or picks the
  instruction to go on with. `Post` enters the finished one in `done`.
  The test of `flow->error` and the claim (mal_dataflow.c:380-387) are one step: an
  error that comes up between the two finds an instruction that runs all the same,
  as one that comes up between `Admit` and `Run` does.
- `Join`, `Joined`, `Pick`, `RunSerially` are runMALdataflow's search for a
  slot: exited threads are joined first, without the lock; the worker gets the
  client's specificity, or its caller's in a recursive call. `Enter` is one
  q_enqueue of DFLOWscheduler, of those in `pend`; it holds `flowlock` as long
  as `pend` is not empty (`Unlocked`). `Handle` takes a finished instruction and
  counts down its edges. `Finish` and `Return` end the block: the slot becomes a
  generic worker's, and some worker is told to exit.
- A block that finds no slot, or whose thread does not start, is executed by its
  caller, one instruction after the other (`SerialStep`).
- Entries of one flow in `done` are taken by that flow's scheduler only, which
  is why one `Handle` stands for its dequeue and what it does with the entry
  under `flowlock`.

`ran` and `failed` are histories. `DagRun` is what a caller may rely on: a block
is open between the call and the return, executes each instruction at most once
and after what it needs, and returns the exception of one that failed, or none
when all were executed.

Claims are constants of the instructions. The pool's refill, the count of
workers and the double charge under a memory limit (`Charge`) are the code's.

### MalBlock, DataflowRegions

An instruction is what the pass looks at: its kind, the variable it assigns and
those it reads. A plan is scanned once; `Stay` marks the variables of an
instruction that belongs to the region so far, `Break` closes the region and
starts another, `End` comes at the end of the plan. `simpleFlow` says which
regions are not worth it; a parallel one gets a release at its end for each
variable that is read more than once (`dflowGarbagesink`).

`Graph` is DFLOWinitBlk: an instruction is woken by the last assignment of each
argument and wakes the one where the scope of an argument ends. `MCDataflow`
has two such graphs as its blocks and asserts (`GraphsOK`) that they are what
`Graph` makes of their code.

The two modules meet in the properties. `Ordered` and `Collected` say that
whatever conflicts in a parallel region is connected by a path of the graph;
`InOrder` and `RunsDag` say that the scheduler executes a block along its graph.
Together: a parallel region changes columns, and the variables it makes, as the
sequential plan does, and releases none too early. The plans of which this is
said keep to `OwnResults` and `UpdatesApart`.

## 3. The runs

| Run | Instance | States | Shows |
|---|---|---|---|
| `vt_slots` | 3 cursors, 4 generators, a table of 2 rows, no faults, nesting 2 | 255k | slots never mix up cursors, a generator has one holder, no generator outlives its scan, and the bridge implements `TableScan` |
| `vt_faults` | 2 cursors, 3 generators, errors and interrupts anywhere | 80k | rows in order, a short scan has one of two known reasons, cursors do not change each other's rows, scans end |
| `sc_script` | 2 cursors, 3 statements, cache of 2, a script of four statements (1, 0, 2, 0 rows) and its parts, failing prepare, bind and step | 443k | statements private, locks released, nothing dangles, scripts read in order |
| `sc_ends` | 2 cursors, one query, cache of 1, failing step | 27k | reading ends |
| `expand_rows` | queries of 0 and 3 rows, 2 multiset columns, generators of 0 or 2 elements or none, another cursor on the same texts | 1.1M | every row expanded once and in order, the registry does not grow |
| `expand_single` | a query of one row | | *violated*: the row is expanded again |
| `qv_tables` | 3 cursors, 2 operators, a view, failing create, prepare and step, nesting 3 | 81k | no table is forgotten, one's own tables stay |
| `kd_find` | all tables of one column to 3 rows, sorted ones to 6, of two columns to 3 rows; up to two constraints | 639k | the search returns the selected rows and nothing else |
| `cache_scans` | 2 cursors, 2 rows, one with a NULL, three plans, interrupts anywhere | 72k | scans answer what was negotiated but for rows with NULLs and lists sorted under them, an interrupted calculation loses no row, the index is that of its plan |
| `df_flows` | a block of three that joins, whose first instruction calls a block of three in a line, and whose last calls one more; 3 slots, one generic worker, claims over the pool, two instructions that may fail, one thread that may not start | 34k | tokens match entries, nothing of a freed flow is left, instructions in order, the number of workers, and `RunsDag` |
| `df_progress` | a second client whose three instructions never return, with 3 slots | 79k | the first client's block returns |
| `df_regions` | all plans of four instructions of computing and updating, and of all kinds with two variables (127 thousand) | 761k | conflicts and releases are ordered, barrier blocks whole |

Why the bounds are enough. Mixing up slots takes two cursors and one that comes
between, hence three; four generators let one of them scan twice. Statements are
shared by two cursors, lost to eviction with a cache smaller than the texts in use, and
confused with a third one that is made because the first is in use. Three rows
are the fewest of which a reader has a first, one in the middle and a last,
and the middle is what the prefetching needs. Trees of six rows have inner nodes
whose halves differ in size and places that are empty, on the last level and
before it; three rows with repeated values meet every case of the comparison
with a median, and two columns make the axes alternate. Two rows are enough for a
scan of CACHE to be in the middle when its list is sorted, and to get one of them
twice; that the order suffers, too, takes a third, which `ScansAnswer` covers. The values
its terms are compared with (`AllArgs`) give an interval of one value, of both and
of none, and find the row with the NULL beside the other. Clean-up concerns three
cursors: one that drops, one that pins, one nested.

A generic worker and one for each of two nested blocks fill the three slots: the
third block finds one only by joining a thread that has exited, and runs serially
when the worker told to exit has not done so.
The two graphs have a join, an edge twice and an edge that only a scope gives;
two instructions that may fail, one in the inner and one in the outer block, let
an error come up while others run. `Threshold = 1` makes the two claims exclude
each other. For progress, endless instructions must be as many as workers, so
that only the specific worker is left. Plans of four instructions between the
signature and the end have regions of up to four, in which a conflict may have
one or two instructions between its ends, and barrier blocks nested twice.

Symmetry is used where the instance does not distinguish the objects (cursors of
`sc_script`, cursors and lists of `CacheVT`) and never with liveness.

Deadlock is checked in `QueryVTs` and `CacheVT`. `KdTree` stops when the search
is over; instances of the others stop when they have used up their generators,
statements or cursors, or when the process has died of a failed xOpen.

### Fairness

`ScanEnds` (vt_faults) assumes that a table function's code comes back
(`WF(Return)`) and that SQLite goes on with a statement that is on a row
(`WF(Next_(c) \/ NextFinished(c))`, for each cursor). Both are the program's
one thread at work. A callback that never returned would stop everything; a
statement on a row is stepped by whoever executed it, and a closed one counts as
ended. The runs do not assume that SQLite opens, filters or closes anything.

`ReadEnds` (sc_ends) assumes weak fairness of each reader and strong fairness of
the return of its step. Strong, because a step of one cursor returns only when it
is the innermost: another cursor may use the stack again and again in
between, but each of its steps ends. It promises nothing after a failed step,
since other executions of the statement, no longer in use, may send the reader
back to its start for ever.

`Progress` (df_progress) assumes strong fairness of each worker and weak fairness
of each scheduler. A worker waits for the semaphore of `todo`, for `flowlock`, or
for a slot's semaphore. Locks are held for a few statements. A token is missed
only while another worker has it for the time of a look into the queue; without
an entry of its client that worker gives it back and sleeps for a millisecond, so
that it does not win every time: that is what strong fairness stands for. An
instruction in `Endless` has no step `Run`, so nothing is assumed of it.

### Where code and documentation differ

Shown by a run: `expand_single`. Expand reads the first row with `c.next()` and the others
   with `for row in c`, which makes a second generator. For a query of exactly
   one row the statement is at its end by then, but `exhausted` is not yet set:
   the second generator reads a row of NULLs and executes the query again, and
   the row is expanded twice. The doctest at expand.py:18-21 prints such a row
   once.
Seen while modelling, not shown by a run; the modules have the code's behaviour
where they cover it:

- `None` is below every value in Python 2, so the index of CACHE finds NULL for
  `col < 1`, and BestIndex has told SQLite not to check. `kd_find` has no NULL
  among its values; with one, `ImplementsIndexScan` fails. `cache_scans` has a NULL
  in its table: `ScanAnswers` says that no other rows are returned too many.
- `self.table.data.sort` (cache.py:280) sorts the list that an unconstrained scan
  iterates over: the other scan repeats and loses rows, as the inner query of
  `select (select a from t order by b limit 1) from t` does to the outer one.
  `cache_scans` has it; `ScanAnswers` and `RowsKept` except the scans that were
  reading the list (`resorted`) and would be violated without that.
- For constraints that exclude each other `compineconstraints` returns None, and
  the loop at kdtree.py:84 uses it before the test at kdtree.py:88. Where the
  plan has an order this is outside the `try` and the query fails;
  `FailsOnEmpty` (cache_scans) shows that nothing else makes it fail, and that
  there was no row to return.
- An aggregate that returns several rows has its `final` wrapped
  (functions/__init__.py:489), but the bridge makes its instances with `cls()`
  (apsw.py:928), which drops the wrapper; SQLite gets NULL.
- AbortError, for which vtout.py:62 runs its query again, is raised by no code
  below it: the retry is never taken.
- executesplit (apsw.py:1676) looks at the result of a step when the next row is
  sent; the failure of the last row of a part is not seen.
- execflow (exec.py:180) changes the working directory and may raise before the
  `try` that restores it.
- sample.py:84 reads its query through two iterators, as expand.py does; the
  window operators never close their cursor.
- An instruction whose claim is over its client's memory limit is refused for
  ever, also when nothing else of the client runs (mal_resource.c:138), though
  the comment there says that at least one worker is kept active. A claim is
  charged twice (lines 142 and 146). `Progress` is checked without a limit.
- opt_dataflow.c:457 sets VARREAD only for variables the region has written: of
  one that comes from outside, a read and a later assignment or update in the same
  region are not ordered, against lines 123-125. The SQL front end assigns most
  variables once, but not those that an SQL function declares
  (sql_statement.c:4103). `Ordered` speaks of variables the region makes.
- Values of an update are not tested for VARBLOCK (opt_dataflow.c:141), against
  line 36. After `X := bat.new(); Y := bat.append(X, a)`, a `W := bat.append(Z, X)`
  joins the region and may run at the same time as the first append. `Ordered` is checked and proved for plans in which no update takes
  as a value what an earlier one has changed under another name (`UpdatesApart`).
- `todo` is set (mal_dataflow.c:787) before the table of workers is filled; the
  test at line 492 lets a second client pass at that moment.
- When an allocation fails after the worker was started, or the block is empty,
  nobody raises the worker's semaphore (mal_dataflow.c:692, 865): it waits in its
  slot for good.

Known and not a finding, because nothing promises otherwise: a cursor whose text
could not be prepared stays locked (`LockReleased` says that only these do); two
cursors may share a statement after a step of it failed (`StatementPrivate`
excludes it); generators that an empty one precedes stay registered
(`GeneratorsFreed` says which); a row may be read twice when xNext swallows an
exception (`RowsInOrder`).

## 4. What is proved

Each theorem is for all values of the constants: any number of cursors,
statements, tables and names, any nesting and any cache size, with all faults
unless its hypotheses say otherwise. The assumptions are those the modules state
(`ConstantsOK`, `RestEnds`, `ExpandOK`, `InputsOK`, `PlansOK`, ...), which TLC
evaluates in every run. Where a theorem has a hypothesis of its own it is in the
statement of the theorem, and the reason for it is given below.

- **VirtualTable**: `TypeCorrect`, `SlotsOwned`. A slot is found by number, so
  `SlotOwner` needs to know what pending callbacks may do to it: a cursor whose
  close is running has already freed its slot, and an open that is pending must
  be for a cursor that has none. That is `FramesOK`: frames of cursors are about
  distinct cursors in the right state, and above a close there are closes only.
  The invariant is `TypeOK /\ SlotOwner /\ FramesOK`.
  `HoldersNeverShared` (`OneHolder`) and `ScansNeverLeft` (`NoScanLeft`) rest on
  a second invariant, `Held`, inductive given the first: no generator is held
  twice (`HoldersUnique`), each frame waits for a running generator of its own,
  which its cursor holds or, before a create or an open has returned, nobody
  (`FramesHold`), every running generator has such a frame (`RunningWaits`), and
  a generator given up can no longer be resumed through a stale next method
  (`NextIsHeld`). So a cursor no callback waits for holds nothing that runs, and
  `LTable.Destroy` finds nothing left to close (`MadeFor` ties its list to
  cursors of the table, which are closed by then). The lemmas are one per kind of
  move: a held generator is resumed, a new one is started, a frame returns, a
  cursor gets or gives up a generator, a table is disconnected or dropped.
  A third invariant, `Reading`, is about rows: how far an open cursor's generator
  is against the row the cursor shows (`ScansOK`), the same for a cursor some
  callback waits for (`FramesScan`), that the generator in `openedIter` has given
  its schema and nothing more (`SchemaRead`), and `RowsInOrder` itself. It gives
  `RowsReadInOrder` and `ShortScansExplained`, with all faults, the action
  property `RowsStayPrivate`, and, when no exceptions come up, the refinement
  `ScansAreIterators` of `TableScan` by a step simulation. With exceptions the
  refinement is false: xNext swallows one and the row before is read again.
- **StmtCursor**: `CursorTypes`, `StatementsPrivate`, `LocksReleased`,
  `NoneDangles`. `NothingDangles` follows from what keeps a statement from being
  collected: a cursor that holds it or the cache; a suspended reader's pointer
  must therefore be its cursor's statement (`ReadersOK`), a held statement must
  be in use unless it failed (`HeldInUse`), and a running step belongs to a
  cursor that does not change hands meanwhile (`StackOK`).
  `ScriptsRead` (`ReadsScript`) says of each reader that the rows it has read,
  followed by those its statement and the rest of its text still have, are the
  rows of the script, in each of three stages: before the first step, between
  two rows, and after the last one (`ReadOK`). Two more invariants support it: a
  statement is reset by a failure only after it has begun (`FailedBorn`), and a
  cursor at work holds the statement of the text it has come to
  (`FollowsScript`). The rows of a script are a recursion along `Rest`, unwound
  by `RestEnds`. The hypothesis `Rereaders = {}` excludes a second iterator on
  one execution, which starts in the middle of the rows or after them: that is
  the case of expand, and the next theorem's.
- **MultisetExpand**: `ExpandUsesCursors` is a step simulation, that every step of
  expand is one of StmtCursor or a stutter; `ExpandNeverDangles` follows
  from it and from `NoneDangles`. `RowsExpanded` (`ExpandsRows`) and
  `GeneratorsAreFreed` (`GeneratorsFreed`) need to know where the two iterators
  are. The first reads one row and has stepped to the second (`AtHead`); the
  other goes on from there (`AtRows`) to the end (`AtTail`); between them nobody
  moves the statement (`OnText`). `GeneratorsFreed` is a part of the conjunction,
  which says what the rows fetched so far have registered. TLC checked the conjunction on the instance of `expand_rows`. Two hypotheses: a query with
  exactly one row is expanded twice (`expand_single`), so `NoSingleRow`; and
  after a failed step two cursors may share a statement, so `StepsSucceed`.
- **QueryVTs**: `ListsOK`, `NoneForgotten`, `OwnTablesStay`. The invariant adds
  to the properties what a cursor's record is like at each point of execute
  (`RecOK`): what it has listed, what it has left to make, that the two are
  disjoint. The lemmas reduce each action to a few kinds of moves (a clean-up, a
  note of one more table, steps that leave the lists alone), and preservation is
  proved for those.
- **KdTree**: `TypesOK` (`TypeOK`), `NothingMissed` (`NoneMissed`), for tables
  and queries of any size. The difficulty is that the array has a length computed
  from the number of rows and that query finds out about a leaf by looking at
  places that may be empty or past its end. The invariant `Shape` says of every
  node: its rows are distinct, no more than its level has room for (so that its
  halves are inside the array), they are those of its halves and its median, and
  they are sorted by its axis. Sorting is stable ranking, so that the halves are
  on their sides of the median. A subtree is skipped only when the median is on
  the wrong side of the interval of its axis, which no row below it then is in.
  `QueriesAreIndexScans` is the refinement of `IndexScan`. Its hypothesis
  `WithoutNulls` is the known difference of None from NULL (see above).
- **CacheVT**: `TypesOK` (`TypeOK`), `IndexAlwaysFresh` (`IndexFresh`) and
  `FailsOnlyEmpty` (`FailsOnEmpty`) rest on `IInv`: a list that the table or any
  scan refers to is whole, a permutation of the rows (`ListsWhole`), so is the list
  the tree was made from, and rows lack positions only after an interrupted
  calculation (`IndexOK`). A new list is nobody's (`UnusedIs`), and sorting in
  place changes no list but the table's (`SortIs`).
  `RowsAlwaysKept` (`RowsKept`) and `ScansAnswer` (`ScanAnswers`) are about scans
  that began before others changed the index, and have no hypotheses. The
  invariant `Answering` says of each scan whose list was not sorted while it was
  reading that what it has returned, followed by what its iterator still has, is
  what it was asked for (`ToCome`, `Answers`): a scan of an index has its rows from
  the start, one of the list those that are behind its position in it. A step of
  one cursor changes the list of another in one case only, when it is the table's
  (`Undisturbed`), and then marks its reader (`OthersAre`). Of those that are
  marked `Counted` says that they have returned as many rows as they have gone
  through. An index finds what is selected and, since None is below all values,
  rows of which a NULL was compared (`FoundHasWanted`, `FoundIsWanted`).
  The lemmas are about the negotiation (`ArgumentsAre`: the constraints of a plan
  with their arguments are the terms that were taken with their values), the
  ranges (`CombinedIs`: a value is between the combined bounds when it is in the
  range of each constraint) and the sorts (`SortedByIs`: they keep all rows and
  order them; `PrecedesSplits`: an order by several columns is one of classes).
- **Dataflow**: `TokensAlwaysMatch`, `PoolSizeKept`, `FlowAlwaysLive`,
  `AlwaysInOrder`, `AlwaysTyped`, and `ImplementsDag`, that the scheduler
  implements `DagRun`: for all graphs, trees of calls, claims, limits and numbers
  of workers. Three invariants are inductive one after the other, and are the
  three parts of `Dataflow_proofs`.
  `Base` says what goes with the place of a worker: its slot's flag, whether it
  has an instruction, which block it is joined by. With it the tokens and the
  workers can be counted. `Flow` says where instructions are: each in one place
  (queue, worker, `done`), only those of flows in use; the count of a pending one
  is the number of its edges from what the scheduler has not handled, and `tasks`
  is the number of what it has. Hence nothing is left anywhere when `tasks` is
  the size of the block, and the flow may be freed. `Order` says what that place
  tells of `ran` and `failed`: what was handed out had all its sources executed
  well, and an error that makes one fail is in the flow before anything that
  waits for it can be counted down; a worker that goes on by itself takes what
  waits for its last instruction only. `RunsDag` is then a step simulation.
- **DataflowRegions**: `RegionsTyped`, `BarriersWhole`, for well-formed plans
  (`PlansOK`) of any length. `level` is the number of open barriers while a region
  of that kind is scanned and no barrier is open otherwise (`Current`), so no
  region ends inside a barrier block; what the tests let into the other kinds has
  no side effects.
  `ReleasedLast` (`Collected`) and `ConflictsOrdered` (`Ordered`) join the pass
  to the graph: `ArgEdge` and `ScopeEdge` say when `Graph` has an edge, from what
  `FlattenSeq` returns (`FlattenAll`), and `WokenAfter` that an edge is a path. A
  release is an edge of its own, as no use of a variable comes after the end of its
  scope (`ScopeCovers`, `SinksOK`). For conflicts, `CalmOK` says what the flags
  mean: of two instructions of a region that may become parallel, the later one
  assigns nothing the first assigns, and neither uses nor changes what the flags
  forbid (`Apart`). What is left of a conflict is a value made by the first and
  read by the second, and that is an edge. The hypothesis `PlansApart` holds where
  instructions on columns have results of their own (sql_statement.c:709 takes a
  new variable) and updates take no values that earlier ones have changed; without
  the second, `Ordered` is false (see above).

Induction. The library states induction with an operator as a parameter, which
the installed provers cannot instantiate. `KdTree_proofs`,
`MultisetExpand_proofs` and `DataflowRegions_proofs` do without: a nonempty set of numbers has a smallest
member (`Smallest`, from the well-foundedness of strict inclusion of finite
sets), so a set of counterexamples has a first one. From it come `Induction` (over a set instead of
a predicate), `Recursion` (a function defined along the numbers satisfies its
equation), and in the proofs of KdTree and StmtCursor the same for levels of the
tree and for texts along `Rest`.

Model-checked only:

- liveness (`ScanEnds`, `ReadEnds`, `Progress`), which the prover does not cover;
- expand of queries with one row and with failing steps, the bridge as a
  `TableScan` with exceptions (false, see above), the index with NULLs.

## 5. What is not modelled

- In the modelled parts: update callbacks and xRename (tables are read-only),
  executemany, executesplit, executescript, commit, rollback and blobs of
  `apsw.py`; getdescriptionsafe and queryplan of `functions/__init__.py`;
  constraints on the rowid and the empty input of CACHE; column types, names and
  schemas everywhere; in `MultisetExpand`, generators that other queries register
  and two rows with the same generator name; in `QueryVTs`, scripts, DROPs by the user
  and operators that do not exist.
- Text processing (the transformer, argument parsing), sources (files, services,
  other databases), terminals: no protocol of their own.
- Row functions and aggregates: computations over one row or one group.
- In `Dataflow`: DFLOWinitialize (the model begins after it), stopMALdataflow and
  the flag `exiting`, failures of malloc, the empty block, the search that stops
  after 1024 entries of the queue, claims that grow while an instruction is
  queued (`hotclaim`), profiling and query time-outs. The order in which
  DFLOWscheduler enters several free instructions is left open.
- In `DataflowRegions`: instructions with several results, the check of the new
  plan, plans the optimizer leaves alone; in `MalBlock`, memory claims.
- C UDFs (`capi.c`). What can go wrong there is one function's data: the key of
  the cache has neither the real types of the inputs nor the use of C++ (comment
  at lines 720-721), preprocessor directives are blanked in place in a string
  that the plan shares, inputs are passed without a copy, and handlers of SIGSEGV
  and SIGBUS are the process's while the jump buffer is the thread's. A model of
  it would be one of C's memory.
- The MonetDB version's Python library (near copies of the operators modelled
  here) and its driver, which generates wrappers and statements.
- The rest of MonetDB and the vendored libraries. By lines, nearly all of the
  repository is this server, which the project takes from upstream and changes in
  a few files: kernel, SQL front end, storage, clients. A model of a tenth of
  it would be one of MonetDB and not of YeSQL, so the share of the C
  code that these modules translate is small, and is that of the code which
  decides how YeSQL's functions are run.
