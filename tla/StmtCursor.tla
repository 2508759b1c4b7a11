------------------------------ MODULE StmtCursor ------------------------------
(***************************************************************************)
(* Query cursors over shared prepared statements: Statement,               *)
(* StatementCache and Cursor of pypylib/apsw.py.                           *)
(*                                                                         *)
(* A Statement object belongs to the cursors that hold it and to the       *)
(* cache, which hands it to the next cursor executing the same text unless *)
(* its in_use flag is set.  Rows are fetched one step ahead: the generator *)
(* made by Cursor.__iter__ reads a row, steps the statement and only then  *)
(* yields the row, so the outcome of a step shows when it is resumed.      *)
(* A step runs SQLite, which may run table functions that use cursors of   *)
(* their own: call and return of a step are two actions, nested by stack.  *)
(***************************************************************************)
EXTENDS Naturals, Sequences

CONSTANTS
    Cursors,    \* apsw.Cursor objects
    Stmts,      \* Statement objects, numbered in the order they are made
    Sqls,       \* texts
    Given,      \* the texts readers execute; the others are what is left of them
    RowCount,   \* RowCount[q]: rows of the first statement of text q
    Rest,       \* Rest[q]: what is left of q after that statement, None if nothing
    CacheSize,  \* StatementCache.maxcount
    Faults,     \* what may go wrong: subset of {"prepare", "bind", "step"}
    Rereaders,  \* cursors whose reader starts a second iterator over a result
    MaxDepth,   \* bound on nested steps
    None

ASSUME ConstantsOK ==
    /\ Given \subseteq Sqls
    /\ Stmts \subseteq Nat
    /\ RowCount \in [Sqls -> Nat]
    /\ Rest \in [Sqls -> Sqls \cup {None}]
    /\ CacheSize \in Nat \ {0}
    /\ Faults \subseteq {"prepare", "bind", "step"}
    /\ Rereaders \subseteq Cursors
    /\ MaxDepth \in Nat
    /\ None \notin Cursors \cup Stmts \cup Sqls

\* What is left of a text is shorter: no set of texts goes on for ever in itself.
ASSUME RestEnds ==
    \A S \in SUBSET Sqls : S # {} => \E q \in S : Rest[q] \notin S

VARIABLES
    cache,   \* the cached statements, the oldest first (OrderedDict by text)
    stmt,    \* Statement objects with SQLite's position in their rows
    cur,     \* Cursor objects
    it,      \* the generator each cursor's reader uses
    stack,   \* steps that are running, the newest last
    read     \* what the reader of each cursor executed and got

vars == <<cache, stmt, cur, it, stack, read>>

\* pos is the row the statement is on; 0 when it is reset or ran to its end.
\* failed records that a step of it failed and it was reset for that.
NoStmt == [st |-> "unborn", sql |-> None, use |-> FALSE, pos |-> 0, failed |-> FALSE]
NewCur == [st |-> "open", stmt |-> None, next |-> None, exhausted |-> FALSE, locked |-> FALSE]
NoIter == [st |-> "none", stmt |-> None, ret |-> "row", row |-> 0]
DeadIter == [NoIter EXCEPT !.st = "dead"]
Unread == [sql |-> None, rows |-> <<>>, err |-> "no", ended |-> FALSE]

Init ==
    /\ cache = <<>>
    /\ stmt = [s \in Stmts |-> NoStmt]
    /\ cur = [c \in Cursors |-> NewCur]
    /\ it = [c \in Cursors |-> NoIter]
    /\ stack = <<>>
    /\ read = [c \in Cursors |-> Unread]

-----------------------------------------------------------------------------
(* Statements and their cache *)

Fresh(s) == /\ stmt[s].st = "unborn"
            /\ \A r \in Stmts : r < s => stmt[r].st # "unborn"

InCache(s) == \E i \in 1..Len(cache) : cache[i] = s
Cached(q)  == {s \in Stmts : InCache(s) /\ stmt[s].sql = q}

\* Mutant: the cache only grows.
Mutant_Remember(s) == cache' = Append(cache, s)

\* A full cache drops its oldest entry, whoever still holds it.
Remember(s) ==
    cache' = IF Len(cache) < CacheSize THEN Append(cache, s) ELSE Append(Tail(cache), s)

\* Mutant: the flag is not looked at.
Mutant_Get(q, s) ==
    \/ s \in Cached(q) /\ UNCHANGED cache
    \/ Cached(q) = {} /\ Fresh(s) /\ Remember(s)

\* StatementCache.get(q) returns s, prepared now or before.
Get(q, s) ==
    \/ s \in Cached(q) /\ ~stmt[s].use /\ UNCHANGED cache
    \/ (\E r \in Cached(q) : stmt[r].use) /\ Fresh(s) /\ UNCHANGED cache
    \/ Cached(q) = {} /\ Fresh(s) /\ Remember(s)

\* Only a new Statement is prepared, and preparing raises.
MayNotPrepare(q) ==
    "prepare" \in Faults /\ \A s \in Cached(q) : stmt[s].use

-----------------------------------------------------------------------------
(* SQLite: sqlite3_step runs a statement that is reset or at its end from    *)
(* the beginning.                                                            *)

StepOutcomes(s) ==
    {IF stmt[s].pos < RowCount[stmt[s].sql] THEN "row" ELSE "done"}
        \cup (Faults \cap {"step"})

PosAfter(s, o) == IF o = "row" THEN stmt[s].pos + 1 ELSE 0

Stepped(s, o) == [stmt EXCEPT ![s].pos = PosAfter(s, o)]

\* Statement.reset, called because a step of s failed.
Dropped(s) == [stmt EXCEPT ![s].pos = 0, ![s].use = FALSE, ![s].failed = TRUE]

\* Statement.set_params on a statement of text q that get returned: reset, mark_dirty.
Dirty(q, s) ==
    [stmt EXCEPT ![s] = [@ EXCEPT !.st = "live", !.sql = q, !.use = TRUE, !.pos = 0]]

-----------------------------------------------------------------------------
(* The stack of running steps *)

Frame(op, c) == [op |-> op, cur |-> c]
Top     == stack[Len(stack)]
Returning(op) == stack # <<>> /\ Top.op = op
Push(f) == stack' = Append(stack, f)
Pop     == stack' = SubSeq(stack, 1, Len(stack) - 1)
Swap(f) == stack' = [stack EXCEPT ![Len(stack)] = f]

Busy(c) == \E i \in 1..Len(stack) : stack[i].cur = c
Idle(c) == cur[c].st = "open" /\ ~Busy(c)
Room    == Len(stack) < MaxDepth

Raised(c, e) == read' = [read EXCEPT ![c].err = e]

-----------------------------------------------------------------------------
(* Cursor.execute *)

\* The lock is taken before the statement is prepared; if that raises, the
\* handler passes the exception on and the cursor stays locked.
ExecuteUnprepared(c, q) ==
    /\ Idle(c) /\ ~cur[c].locked
    /\ MayNotPrepare(q)
    /\ cur' = [cur EXCEPT ![c].locked = TRUE]
    /\ it' = [it EXCEPT ![c] = NoIter]
    /\ read' = [read EXCEPT ![c] = [Unread EXCEPT !.sql = q, !.err = "prepare"]]
    /\ UNCHANGED <<cache, stmt, stack>>

\* A binding is missing: the lock is released, the statement stays in use.
ExecuteUnbound(c, q) ==
    /\ Idle(c) /\ ~cur[c].locked
    /\ "bind" \in Faults
    /\ \E s \in Stmts :
         /\ Get(q, s)
         /\ stmt' = Dirty(q, s)
         /\ cur' = [cur EXCEPT ![c] = [@ EXCEPT !.stmt = s, !.next = Rest[q],
                                               !.exhausted = TRUE]]
    /\ it' = [it EXCEPT ![c] = NoIter]
    /\ read' = [read EXCEPT ![c] = [Unread EXCEPT !.sql = q, !.err = "bind"]]
    /\ UNCHANGED stack

\* The previous statement of the cursor is let go of as it is.
Execute(c, q) ==
    /\ Idle(c) /\ Room /\ ~cur[c].locked
    /\ \E s \in Stmts :
         /\ Get(q, s)
         /\ stmt' = Dirty(q, s)
         /\ cur' = [cur EXCEPT ![c] = [@ EXCEPT !.stmt = s, !.next = Rest[q],
                                               !.exhausted = TRUE, !.locked = TRUE]]
    /\ it' = [it EXCEPT ![c] = NoIter]
    /\ read' = [read EXCEPT ![c] = [Unread EXCEPT !.sql = q]]
    /\ Push(Frame("execute", c))

\* Mutant: an error in a step leaves the cursor locked.
Mutant_ExecuteFailed ==
    LET c == Top.cur  s == cur[c].stmt IN
    /\ Returning("execute") /\ "step" \in StepOutcomes(s)
    /\ stmt' = Dropped(s)
    /\ Raised(c, "step")
    /\ Pop
    /\ UNCHANGED <<cache, cur, it>>

ExecuteFailed ==
    LET c == Top.cur  s == cur[c].stmt IN
    /\ Returning("execute") /\ "step" \in StepOutcomes(s)
    /\ stmt' = Dropped(s)
    /\ cur' = [cur EXCEPT ![c].locked = FALSE]
    /\ Raised(c, "step")
    /\ Pop
    /\ UNCHANGED <<cache, it>>

ExecuteRow ==
    LET c == Top.cur  s == cur[c].stmt IN
    /\ Returning("execute") /\ "row" \in StepOutcomes(s)
    /\ stmt' = Stepped(s, "row")
    /\ cur' = [cur EXCEPT ![c].exhausted = FALSE, ![c].locked = FALSE]
    /\ Pop
    /\ UNCHANGED <<cache, it, read>>

ExecuteDone ==
    LET c == Top.cur  s == cur[c].stmt IN
    /\ Returning("execute") /\ "done" \in StepOutcomes(s) /\ cur[c].next = None
    /\ stmt' = Stepped(s, "done")
    /\ cur' = [cur EXCEPT ![c].locked = FALSE]
    /\ Pop
    /\ UNCHANGED <<cache, it, read>>

\* The next statement of a script: the one before stays marked as in use.
NextStatement(c) ==
    \E s \in Stmts :
        LET q == cur[c].next IN
        /\ Get(q, s)
        /\ stmt' = Dirty(q, s)
        /\ cur' = [cur EXCEPT ![c].stmt = s, ![c].next = Rest[q]]

ExecuteNext ==
    LET c == Top.cur  s == cur[c].stmt IN
    /\ Returning("execute") /\ "done" \in StepOutcomes(s) /\ cur[c].next # None
    /\ NextStatement(c)
    /\ UNCHANGED <<it, stack, read>>

\* The next statement cannot be prepared or bound; this time the lock is released.
ExecuteNextFailed ==
    LET c == Top.cur  s == cur[c].stmt IN
    /\ Returning("execute") /\ "done" \in StepOutcomes(s) /\ cur[c].next # None
    /\ \/ /\ MayNotPrepare(cur[c].next)
          /\ cur' = [cur EXCEPT ![c].locked = FALSE]
          /\ UNCHANGED <<cache, stmt>>
       \/ /\ "bind" \in Faults
          /\ \E r \in Stmts :
               /\ Get(cur[c].next, r)
               /\ stmt' = Dirty(cur[c].next, r)
               /\ cur' = [cur EXCEPT ![c].stmt = r, ![c].next = Rest[cur[c].next],
                                     ![c].locked = FALSE]
    /\ Raised(c, "step")
    /\ Pop
    /\ UNCHANGED it

-----------------------------------------------------------------------------
(* Cursor.__iter__ and its generator *)

\* One iterator per execute; a rereader (expand: next(), then a for loop) starts
\* another one while the first is suspended.
StartIter(c) ==
    /\ Idle(c) /\ read[c].sql # None /\ read[c].err = "no"
    /\ it[c].st = "none" \/ (c \in Rereaders /\ it[c].st = "mid")
    /\ it' = [it EXCEPT ![c] = [NoIter EXCEPT !.st = "new"]]
    /\ UNCHANGED <<cache, stmt, cur, stack, read>>

\* The generator takes row n, which statement s is on, and steps s.
Take(c, s, n) == it' = [it EXCEPT ![c] = [st |-> "mid", stmt |-> s, ret |-> "row", row |-> n]]

\* Mutant: at its end the generator yields once more and asks again.
Mutant_StopIteration(c) == UNCHANGED <<it, read>>

StopIteration(c) ==
    /\ it' = [it EXCEPT ![c] = DeadIter]
    /\ read' = [read EXCEPT ![c].ended = TRUE]

\* The first resumption.
BeginRows(c) ==
    /\ Idle(c) /\ Room /\ it[c].st = "new" /\ ~cur[c].exhausted
    /\ Take(c, cur[c].stmt, stmt[cur[c].stmt].pos)
    /\ Push(Frame("row", c))
    /\ UNCHANGED <<cache, stmt, cur, read>>

NoRows(c) ==
    /\ Idle(c) /\ it[c].st = "new" /\ cur[c].exhausted
    /\ cur' = [cur EXCEPT ![c].locked = FALSE]
    /\ StopIteration(c)
    /\ UNCHANGED <<cache, stmt, stack>>

NextRow(c) ==
    /\ Idle(c) /\ Room /\ it[c].st = "mid" /\ it[c].ret = "row"
    /\ Take(c, it[c].stmt, stmt[it[c].stmt].pos)
    /\ Push(Frame("row", c))
    /\ UNCHANGED <<cache, stmt, cur, read>>

\* The texts that executing a text goes through, and the rows they yield.
Texts[q \in Sqls] == {q} \cup (IF Rest[q] = None THEN {} ELSE Texts[Rest[q]])

\* No step of this read, nor of a statement with one of its texts, has failed.
Untroubled(c) ==
    /\ read[c].err = "no"
    /\ \A s \in Stmts : stmt[s].failed => stmt[s].sql \notin Texts[read[c].sql]

\* The step ahead is over: the row read before it is delivered.  The rows of a
\* troubled read are not recorded.
RowReturn ==
    LET c == Top.cur  s == it[c].stmt IN
    /\ Returning("row")
    /\ \E o \in StepOutcomes(s) :
         /\ stmt' = Stepped(s, o)
         /\ it' = [it EXCEPT ![c].ret = o]
    /\ read' = [read EXCEPT ![c].rows =
          IF Untroubled(c) THEN Append(@, [sql |-> stmt[s].sql, row |-> it[c].row]) ELSE <<>>]
    /\ Pop
    /\ UNCHANGED <<cache, cur>>

\* Mutant: what is left of the text is forgotten.
Mutant_LastRow(c) ==
    /\ Idle(c) /\ it[c].st = "mid" /\ it[c].ret = "done"
    /\ cur' = [cur EXCEPT ![c].exhausted = TRUE, ![c].locked = FALSE]
    /\ StopIteration(c)
    /\ UNCHANGED <<cache, stmt, stack>>

LastRow(c) ==
    /\ Idle(c) /\ it[c].st = "mid" /\ it[c].ret = "done" /\ cur[c].next = None
    /\ cur' = [cur EXCEPT ![c].exhausted = TRUE, ![c].locked = FALSE]
    /\ StopIteration(c)
    /\ UNCHANGED <<cache, stmt, stack>>

\* The step ahead had failed: the cursor's statement is reset and the error raised.
RowFailed(c) ==
    /\ Idle(c) /\ it[c].st = "mid" /\ it[c].ret = "step"
    /\ stmt' = Dropped(cur[c].stmt)
    /\ it' = [it EXCEPT ![c] = DeadIter]
    /\ Raised(c, "step")
    /\ UNCHANGED <<cache, cur, stack>>

\* The rows of a statement are over and the script goes on.
RestBegin(c) ==
    /\ Idle(c) /\ Room /\ it[c].st = "mid" /\ it[c].ret = "done" /\ cur[c].next # None
    /\ NextStatement(c)
    /\ Push(Frame("rest", c))
    /\ UNCHANGED <<it, read>>

RestFailed(c) ==
    /\ Idle(c) /\ it[c].st = "mid" /\ it[c].ret = "done" /\ cur[c].next # None
    /\ \/ MayNotPrepare(cur[c].next) /\ UNCHANGED <<cache, stmt, cur>>
       \/ "bind" \in Faults /\ NextStatement(c)
    /\ it' = [it EXCEPT ![c] = DeadIter]
    /\ Raised(c, "step")
    /\ UNCHANGED stack

\* A row, or an error that is overlooked: either way the generator goes on to
\* read a row and to step the statement again.
RestRow ==
    LET c == Top.cur  s == cur[c].stmt IN
    /\ Returning("rest")
    /\ \E o \in StepOutcomes(s) \ {"done"} :
         /\ stmt' = Stepped(s, o)
         /\ Take(c, s, PosAfter(s, o))
         /\ IF o = "step" THEN Raised(c, "step") ELSE UNCHANGED read
    /\ Swap(Frame("row", c))
    /\ UNCHANGED <<cache, cur>>

RestNext ==
    LET c == Top.cur  s == cur[c].stmt IN
    /\ Returning("rest") /\ "done" \in StepOutcomes(s) /\ cur[c].next # None
    /\ NextStatement(c)
    /\ UNCHANGED <<it, stack, read>>

RestNextFailed ==
    LET c == Top.cur  s == cur[c].stmt IN
    /\ Returning("rest") /\ "done" \in StepOutcomes(s) /\ cur[c].next # None
    /\ \/ MayNotPrepare(cur[c].next) /\ UNCHANGED <<cache, stmt, cur>>
       \/ "bind" \in Faults /\ NextStatement(c)
    /\ it' = [it EXCEPT ![c] = DeadIter]
    /\ Raised(c, "step")
    /\ Pop

\* The iteration ends without marking the cursor as exhausted.
RestDone ==
    LET c == Top.cur  s == cur[c].stmt IN
    /\ Returning("rest") /\ "done" \in StepOutcomes(s) /\ cur[c].next = None
    /\ stmt' = Stepped(s, "done")
    /\ cur' = [cur EXCEPT ![c].locked = FALSE]
    /\ StopIteration(c)
    /\ Pop
    /\ UNCHANGED cache

-----------------------------------------------------------------------------
(* The end of a cursor *)

\* Cursor.close resets the statement the cursor holds.
Close(c) ==
    /\ Idle(c)
    /\ LET s == cur[c].stmt IN
       stmt' = IF s = None THEN stmt ELSE [stmt EXCEPT ![s].pos = 0, ![s].use = FALSE]
    /\ cur' = [cur EXCEPT ![c] = [NewCur EXCEPT !.st = "closed"]]
    /\ it' = [it EXCEPT ![c] = NoIter] /\ read' = [read EXCEPT ![c] = Unread]
    /\ UNCHANGED <<cache, stack>>

\* A cursor that nobody refers to any more: nothing is reset.
Forget(c) ==
    /\ Idle(c)
    /\ cur' = [cur EXCEPT ![c] = [NewCur EXCEPT !.st = "closed"]]
    /\ it' = [it EXCEPT ![c] = NoIter] /\ read' = [read EXCEPT ![c] = Unread]
    /\ UNCHANGED <<cache, stmt, stack>>

Holds(c, s) == cur[c].st = "open" /\ cur[c].stmt = s

\* Mutant: leaving the cache finalizes a statement.
Mutant_Collect(s) ==
    /\ stmt[s].st = "live" /\ ~InCache(s)
    /\ stmt' = [stmt EXCEPT ![s] = [@ EXCEPT !.st = "gone", !.pos = 0]]
    /\ UNCHANGED <<cache, cur, it, stack, read>>

\* Statement.__del__ finalizes a statement that neither cache nor cursor refers to.
Collect(s) ==
    /\ stmt[s].st = "live" /\ ~InCache(s) /\ \A c \in Cursors : ~Holds(c, s)
    /\ stmt' = [stmt EXCEPT ![s] = [@ EXCEPT !.st = "gone", !.pos = 0]]
    /\ UNCHANGED <<cache, cur, it, stack, read>>

-----------------------------------------------------------------------------
Resume(c) ==
    \/ BeginRows(c) \/ NoRows(c) \/ NextRow(c) \/ LastRow(c) \/ RowFailed(c)
    \/ RestBegin(c) \/ RestFailed(c)

Call ==
    \/ \E c \in Cursors, q \in Given :
          ExecuteUnprepared(c, q) \/ ExecuteUnbound(c, q) \/ Execute(c, q)
    \/ \E c \in Cursors : StartIter(c) \/ Resume(c) \/ Close(c) \/ Forget(c)

Return ==
    \/ ExecuteFailed \/ ExecuteRow \/ ExecuteDone \/ ExecuteNext \/ ExecuteNextFailed
    \/ RowReturn \/ RestRow \/ RestNext \/ RestNextFailed \/ RestDone

Next == Call \/ Return \/ \E s \in Stmts : Collect(s)

Spec == Init /\ [][Next]_vars

\* SQLite comes back from a step, also when the table functions it runs execute
\* queries of their own (each does so finitely often), and a reader goes on reading.
FairSpec ==
    /\ Spec
    /\ \A c \in Cursors : SF_vars(Return /\ Top.cur = c) /\ WF_vars(Resume(c))

-----------------------------------------------------------------------------
(* Properties *)

StmtRec  == [st : {"unborn", "live", "gone"}, sql : Sqls \cup {None}, use : BOOLEAN,
             pos : Nat, failed : BOOLEAN]
CurRec   == [st : {"open", "closed"}, stmt : Stmts \cup {None}, next : Sqls \cup {None},
             exhausted : BOOLEAN, locked : BOOLEAN]
IterRec  == [st : {"none", "new", "mid", "dead"}, stmt : Stmts \cup {None},
             ret : {"row", "done", "step"}, row : Nat]
FrameRec == [op : {"execute", "row", "rest"}, cur : Cursors]
RowRec   == [sql : Sqls \cup {None}, row : Nat]
ReadRec  == [sql : Sqls \cup {None}, rows : Seq(RowRec),
             err : {"no", "prepare", "bind", "step"}, ended : BOOLEAN]

\* Every variable has the shape its comment says; the cache holds at most
\* maxcount statements, one per text, none of them finalized.
TypeOK ==
    /\ stmt \in [Stmts -> StmtRec]
    /\ cur \in [Cursors -> CurRec]
    /\ it \in [Cursors -> IterRec]
    /\ stack \in Seq(FrameRec)
    /\ read \in [Cursors -> ReadRec]
    /\ cache \in Seq(Stmts) /\ Len(cache) <= CacheSize
    /\ \A i \in 1..Len(cache) : stmt[cache[i]].st = "live"
    /\ \A i, j \in 1..Len(cache) : stmt[cache[i]].sql = stmt[cache[j]].sql => i = j

\* in_use keeps a statement to one cursor: two cursors come to hold the same
\* Statement only after a step of it failed, which clears the flag while the
\* failed cursor still holds it.
StatementPrivate ==
    \A s \in Stmts : ~stmt[s].failed =>
        \A c, d \in Cursors : Holds(c, s) /\ Holds(d, s) => c = d

\* A cursor nobody is using is locked only if its text could not be prepared:
\* every other error of execute leaves the cursor usable for the next execute
\* (which clean-up code relies on to drop the tables of the failed query).
LockReleased ==
    \A c \in Cursors : Idle(c) /\ cur[c].locked => read[c].err = "prepare"

\* The statement a suspended reader will step next has not been finalized,
\* however many texts went through the cache since the reader last ran.
NothingDangles ==
    \A c \in Cursors :
        /\ Busy(c) => stmt[cur[c].stmt].st = "live"
        /\ it[c].st = "mid" /\ it[c].ret = "row" => stmt[it[c].stmt].st = "live"

RowsOf(q) == [k \in 1..RowCount[q] |-> [sql |-> q, row |-> k]]

Script[q \in Sqls] == RowsOf(q) \o (IF Rest[q] = None THEN <<>> ELSE Script[Rest[q]])

Begins(s, t) == Len(s) <= Len(t) /\ s = SubSeq(t, 1, Len(s))

\* A reader gets the rows of its script once each and in order, and all of them
\* by the time its iteration ends, whatever other cursors execute, read, close
\* or abandon meanwhile, the same text included.
ReadsScript ==
    \A c \in Cursors : read[c].sql # None /\ Untroubled(c) =>
        /\ Begins(read[c].rows, Script[read[c].sql])
        /\ read[c].ended => read[c].rows = Script[read[c].sql]

\* Reading a result ends, unless a step failed: then other executions of the
\* shared statement may put the reader back to the start for ever.  (An instance
\* of the model that has no Statement left to make cannot go on with a script.)
ReadEnds ==
    \A c \in Cursors :
        it[c].st = "mid" ~>
            it[c].st # "mid" \/ ~Untroubled(c) \/ \A s \in Stmts : ~Fresh(s)
=============================================================================
