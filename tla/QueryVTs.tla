------------------------------- MODULE QueryVTs -------------------------------
(***************************************************************************)
(* The temporary virtual tables of queries: Cursor of functions/__init__.py*)
(*                                                                         *)
(* sqltransform puts a name made from the text in the place of every       *)
(* operator of a query.  Cursor.execute creates a virtual table of each    *)
(* name unless the connection has one, lists it and drops what it listed   *)
(* when it executes the next query, when it fails and when it is closed.   *)
(* Two cursors whose queries use the same operator share its table.        *)
(*                                                                         *)
(* Creating a table and stepping a query run Python code, which may use    *)
(* other cursors of the connection: their call and return are two actions. *)
(* Not a nested call that names the table being created: the text of an    *)
(* operator would have to contain itself.                                  *)
(***************************************************************************)
EXTENDS Naturals, Sequences, Functions

CONSTANTS
    Cursors,   \* functions.Cursor objects
    Names,     \* names of virtual tables
    Plans,     \* transformed queries of a cursor: the tables they make and those they scan
    Faults,    \* what may go wrong: subset of {"create", "prepare", "step"}
    MaxDepth   \* bound on nested calls

PlanRec == [makes : Seq([name : Names, keep : BOOLEAN]), scans : SUBSET Names]

\* vt_distinct leaves one entry for a name.
ASSUME ConstantsOK ==
    /\ \A c \in Cursors : \A p \in Plans[c] :
          /\ p \in PlanRec
          /\ \A i, j \in DOMAIN p.makes : p.makes[i].name = p.makes[j].name => i = j
    /\ Faults \subseteq {"create", "prepare", "step"}
    /\ MaxDepth \in Nat

VARIABLES
    tables,   \* virtual tables of the temp database
    kept,     \* names some cursor has marked as permanent
    lost,     \* names listed by cursors that were dropped without a close
    loose,    \* what statements scan that their cursor has let go of half-way
    cur,      \* cursors
    stack     \* cursors in the middle of a call, the newest last

vars == <<tables, kept, lost, loose, cur, stack>>

NoPlan == [makes |-> <<>>, scans |-> {}]

\* vts is __vtables, left the rest of the tables to make; scan is what the
\* statement of the wrapped cursor is scanning, locked its lock.
NewCur == [st |-> "open", vts |-> <<>>, at |-> "idle", plan |-> NoPlan, left |-> <<>>,
           scan |-> {}, locked |-> FALSE]

Closed == [NewCur EXCEPT !.st = "closed"]

Init ==
    /\ tables = {} /\ kept = {} /\ lost = {} /\ loose = {}
    /\ cur = [c \in Cursors |-> Closed]
    /\ stack = <<>>

-----------------------------------------------------------------------------
Listed(c) == Range(cur[c].vts)

Top     == stack[Len(stack)]
At(p)   == stack # <<>> /\ cur[Top].at = p
Push(c) == Len(stack) < MaxDepth /\ stack' = Append(stack, c)
Pop     == stack' = SubSeq(stack, 1, Len(stack) - 1)

Making == {Head(cur[d].left).name : d \in {e \in Cursors : cur[e].at = "create"}}

\* Only the code of the caller and that of an operator uses cursors.
MayCall == stack # <<>> => cur[Top].at \in {"create", "run", "fetch"}

Idle(c) ==
    /\ MayCall
    /\ cur[c].st = "open" /\ cur[c].at = "idle" /\ Listed(c) \cap Making = {}

\* The tables that statements of the cursors D and loose statements scan: SQLite
\* does not drop them.
Pinned(D) == UNION loose \cup UNION {cur[d].scan : d \in D}

\* A statement that takes the place of a half-read one leaves it where it is: the
\* statement cache holds it until it is evicted and collected.
LetGo(c) == loose' = IF cur[c].scan = {} THEN loose ELSE loose \cup {cur[c].scan}

\* Mutant: the list is emptied although a table could not be dropped.
Mutant_Cleanup(c, pinned, r) ==
    /\ tables' = tables \ (Listed(c) \ pinned)
    /\ cur' = [cur EXCEPT ![c] = [r EXCEPT !.vts = <<>>]]

\* cleanupvts on a cursor that is not locked; r is what else becomes of the
\* cursor.  The tables are dropped last to first.  When one is pinned,
\* executetrace starts the clean-up again, and again, up to the interpreter's
\* recursion limit, which may hit execute where it has taken the lock: the list
\* is unchanged and the cursor possibly locked.
Cleanup(c, pinned, r) ==
    LET vts == cur[c].vts
        stuck == {i \in DOMAIN vts : vts[i] \in pinned}
    IN
    \/ /\ stuck = {}
       /\ tables' = tables \ Listed(c)
       /\ cur' = [cur EXCEPT ![c] = [r EXCEPT !.vts = <<>>]]
    \/ /\ stuck # {}
       /\ tables' = tables \ {vts[i] : i \in {k \in DOMAIN vts : \A j \in stuck : j < k}}
       /\ \E l \in BOOLEAN : cur' = [cur EXCEPT ![c] = [r EXCEPT !.locked = l]]

\* The cursor between two calls, its statement finished or reset.
Rest(c) == [cur[c] EXCEPT !.at = "idle", !.plan = NoPlan, !.left = <<>>, !.scan = {}]

-----------------------------------------------------------------------------
(* Connection.cursor *)

Open(c) ==
    /\ MayCall /\ cur[c].st = "closed"
    /\ cur' = [cur EXCEPT ![c] = NewCur]
    /\ UNCHANGED <<tables, kept, lost, loose, stack>>

-----------------------------------------------------------------------------
(* Cursor.execute *)

\* The tables of the last query, which are dropped without IF EXISTS.
Missing(c) == {i \in DOMAIN cur[c].vts : cur[c].vts[i] \notin tables}

\* Mutant: the list is not emptied once its tables are dropped.
Mutant_Execute(c, p) ==
    /\ Idle(c) /\ ~cur[c].locked /\ {e.name : e \in Range(p.makes)} \cap Making = {}
    /\ Missing(c) = {} /\ Listed(c) \cap Pinned(Cursors) = {}
    /\ tables' = tables \ Listed(c)
    /\ IF cur[c].vts = <<>> THEN UNCHANGED loose ELSE LetGo(c)
    /\ cur' = [cur EXCEPT ![c] = [cur[c] EXCEPT !.at = "make", !.plan = p, !.left = p.makes,
                                                !.scan = IF cur[c].vts = <<>> THEN @ ELSE {}]]
    /\ Push(c)
    /\ UNCHANGED <<kept, lost>>

Execute(c, p) ==
    /\ Idle(c) /\ ~cur[c].locked /\ {e.name : e \in Range(p.makes)} \cap Making = {}
    /\ Missing(c) = {} /\ Listed(c) \cap Pinned(Cursors) = {}
    /\ tables' = tables \ Listed(c)
    /\ IF cur[c].vts = <<>> THEN UNCHANGED loose ELSE LetGo(c)
    /\ cur' = [cur EXCEPT ![c] = [cur[c] EXCEPT !.vts = <<>>, !.at = "make",
                                                !.plan = p, !.left = p.makes,
                                                !.scan = IF cur[c].vts = <<>> THEN @ ELSE {}]]
    /\ Push(c)
    /\ UNCHANGED <<kept, lost>>

\* The first DROP cannot be prepared, another cursor having dropped the table:
\* the lock stays taken, which defeats the clean-up, and the statement stays.
ExecuteGone(c) ==
    /\ Idle(c) /\ ~cur[c].locked
    /\ Len(cur[c].vts) \in Missing(c)
    /\ cur' = [cur EXCEPT ![c].locked = TRUE]
    /\ UNCHANGED <<tables, kept, lost, loose, stack>>

\* A later DROP cannot be prepared, or the first is in the statement cache and is
\* prepared again by its step, or a table is pinned.
ExecuteStuck(c) ==
    /\ Idle(c) /\ ~cur[c].locked
    /\ Missing(c) # {} \/ Listed(c) \cap Pinned(Cursors) # {}
    /\ LetGo(c)
    /\ Cleanup(c, Pinned(Cursors), Rest(c))
    /\ UNCHANGED <<kept, lost, stack>>

\* The table of entry e is there: it is marked as permanent or listed.
Note(c, e) ==
    LET vts == IF e.keep THEN cur[c].vts ELSE Append(cur[c].vts, e.name) IN
    /\ kept' = IF e.keep THEN kept \cup {e.name} ELSE kept
    /\ cur' = [cur EXCEPT ![c] = [cur[c] EXCEPT !.at = "make", !.left = Tail(cur[c].left),
                                                !.scan = {}, !.vts = vts]]

\* CREATE VIRTUAL TABLE IF NOT EXISTS
MakeExisting ==
    LET e == Head(cur[Top].left) IN
    /\ At("make") /\ cur[Top].left # <<>> /\ e.name \in tables
    /\ LetGo(Top)
    /\ Note(Top, e)
    /\ UNCHANGED <<tables, lost, stack>>

\* xCreate runs the operator as far as its schema.
MakeCall ==
    LET e == Head(cur[Top].left) IN
    /\ At("make") /\ cur[Top].left # <<>> /\ e.name \notin tables
    /\ LetGo(Top)
    /\ cur' = [cur EXCEPT ![Top].at = "create", ![Top].scan = {}]
    /\ UNCHANGED <<tables, kept, lost, stack>>

\* Mutant: the clean-up runs when a table has been created, too.
Mutant_MakeReturn ==
    LET e == Head(cur[Top].left) IN
    /\ At("create")
    /\ tables' = (tables \ Listed(Top)) \cup {e.name}
    /\ Note(Top, e)
    /\ UNCHANGED <<lost, loose, stack>>

MakeReturn ==
    LET e == Head(cur[Top].left) IN
    /\ At("create")
    /\ tables' = tables \cup {e.name}
    /\ Note(Top, e)
    /\ UNCHANGED <<lost, loose, stack>>

MakeFailed ==
    /\ At("create") /\ "create" \in Faults
    /\ Cleanup(Top, Pinned(Cursors), Rest(Top))
    /\ Pop
    /\ UNCHANGED <<kept, lost, loose>>

Ready == At("make") /\ cur[Top].left = <<>>
Prepares == cur[Top].plan.scans \subseteq tables

\* The query cannot be prepared, for its own sake or because a table it scans
\* has been dropped: the cursor stays locked, which defeats the clean-up, and
\* keeps its last statement.
RunUnprepared ==
    /\ Ready
    /\ "prepare" \in Faults \/ ~Prepares
    /\ cur' = [cur EXCEPT ![Top] = [Rest(Top) EXCEPT !.locked = TRUE, !.scan = cur[Top].scan]]
    /\ Pop
    /\ UNCHANGED <<tables, kept, lost, loose>>

\* The query is in the statement cache and its step cannot prepare it again.
RunStale ==
    /\ Ready /\ ~Prepares
    /\ LetGo(Top)
    /\ Cleanup(Top, Pinned(Cursors), Rest(Top))
    /\ Pop
    /\ UNCHANGED <<kept, lost>>

RunCall ==
    /\ Ready /\ Prepares
    /\ LetGo(Top)
    /\ cur' = [cur EXCEPT ![Top].at = "run", ![Top].scan = cur[Top].plan.scans]
    /\ UNCHANGED <<tables, kept, lost, stack>>

\* A row was found, or the query is over.
RunReturn ==
    /\ At("run")
    /\ \E rest \in {{}, cur[Top].scan} :
          cur' = [cur EXCEPT ![Top] = [Rest(Top) EXCEPT !.scan = rest]]
    /\ Pop
    /\ UNCHANGED <<tables, kept, lost, loose>>

\* The wrapped cursor resets the statement, then there is a clean-up.
RunFailed ==
    /\ At("run") /\ "step" \in Faults
    /\ Cleanup(Top, Pinned(Cursors \ {Top}), Rest(Top))
    /\ Pop
    /\ UNCHANGED <<kept, lost, loose>>

-----------------------------------------------------------------------------
(* Reading on: the wrapped cursor's iterator, without a clean-up *)

FetchCall(c) ==
    /\ Idle(c) /\ cur[c].scan # {}
    /\ cur' = [cur EXCEPT ![c].at = "fetch"]
    /\ Push(c)
    /\ UNCHANGED <<tables, kept, lost, loose>>

\* A row; or the end of the query, where the iterator unlocks the cursor as soon
\* as it is asked for one more row; or an error, which resets the statement.
FetchReturn ==
    /\ At("fetch")
    /\ \/ cur' = [cur EXCEPT ![Top].at = "idle"]
       \/ \E l \in {FALSE, cur[Top].locked} :
             cur' = [cur EXCEPT ![Top] = [Rest(Top) EXCEPT !.locked = l]]
    /\ Pop
    /\ UNCHANGED <<tables, kept, lost, loose>>

-----------------------------------------------------------------------------
(* Cursor.close *)

\* Nothing is listed: the wrapped cursor resets its statement, locked or not.
CloseBare(c) ==
    /\ Idle(c) /\ cur[c].vts = <<>>
    /\ cur' = [cur EXCEPT ![c] = Closed]
    /\ UNCHANGED <<tables, kept, lost, loose, stack>>

\* The clean-up comes first, so that a query read half-way pins its own tables.
\* A clean-up that fails leaves the cursor open; that of a locked one does nothing.
Close(c) ==
    /\ Idle(c) /\ cur[c].vts # <<>> /\ ~cur[c].locked
    /\ LetGo(c)
    /\ Cleanup(c, Pinned(Cursors),
               IF Listed(c) \cap Pinned(Cursors) = {} THEN Closed
               ELSE Rest(c))
    /\ UNCHANGED <<kept, lost, stack>>

\* The caller drops a cursor without a close, or one whose close has failed.
Forget(c) ==
    /\ Idle(c)
    /\ lost' = lost \cup Listed(c)
    /\ LetGo(c)
    /\ cur' = [cur EXCEPT ![c] = Closed]
    /\ UNCHANGED <<tables, kept, stack>>

\* A half-read statement leaves the statement cache and is collected.
Collect ==
    /\ \E l \in loose : loose' = loose \ {l}
    /\ UNCHANGED <<tables, kept, lost, cur, stack>>

-----------------------------------------------------------------------------
Next ==
    \/ \E c \in Cursors :
          \/ Open(c)
          \/ \E p \in Plans[c] : Execute(c, p)
          \/ ExecuteGone(c)
          \/ ExecuteStuck(c)
          \/ FetchCall(c)
          \/ CloseBare(c)
          \/ Close(c)
          \/ Forget(c)
    \/ MakeExisting \/ MakeCall \/ MakeReturn \/ MakeFailed
    \/ RunUnprepared \/ RunStale \/ RunCall \/ RunReturn \/ RunFailed
    \/ FetchReturn
    \/ Collect

Spec == Init /\ [][Next]_vars

-----------------------------------------------------------------------------
(* Properties *)

CurRec == [st : {"open", "closed"}, vts : Seq(Names), at : {"idle", "make", "create", "run", "fetch"},
           plan : PlanRec, left : Seq([name : Names, keep : BOOLEAN]),
           scan : SUBSET Names, locked : BOOLEAN]

\* The variables have their types, and no list names a table twice: the second of
\* two DROPs of one table could not be prepared and would leave the cursor locked.
TypeOK ==
    /\ tables \subseteq Names /\ kept \subseteq Names /\ lost \subseteq Names
    /\ loose \subseteq SUBSET Names
    /\ cur \in [Cursors -> CurRec]
    /\ stack \in Seq(Cursors) /\ Len(stack) <= MaxDepth
    /\ \A c \in Cursors : cur[c].at = "create" => cur[c].left # <<>>
    /\ \A c \in Cursors : IsInjective(cur[c].vts)

\* Whatever fails on the way, no table of the connection is forgotten: it is
\* permanent, or an open cursor lists it and drops it in the end, or its cursor
\* was never (or could not be) closed (execute, executetrace, cleanupvts, close).
NoOrphan == tables \subseteq kept \cup lost \cup UNION {Listed(c) : c \in Cursors}

Uses(c) == UNION {p.scans \cup {e.name : e \in Range(p.makes)} : p \in Plans[c]}

\* A query in the middle of execute lacks a table it has made only when another
\* cursor's queries have the same operator: the clean-up of the last query comes
\* before the first CREATE, and that of a nested query leaves the others alone.
OwnTables ==
    \A c \in Cursors : cur[c].at \in {"make", "create", "run"} =>
        \A t \in Listed(c) \ tables : \E d \in Cursors \ {c} : t \in Uses(d)
=============================================================================
