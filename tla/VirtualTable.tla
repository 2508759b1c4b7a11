----------------------------- MODULE VirtualTable -----------------------------
(***************************************************************************)
(* The life of a table function behind SQLite's virtual-table callbacks:   *)
(* the callback closures of pypylib/apsw.py (createmodule) over the table  *)
(* and cursor objects of functions/vtable/vtbase.py.                       *)
(*                                                                         *)
(* A table function is a Python generator: its first item is the schema,   *)
(* the others are the rows.  The generator is user code and may run nested *)
(* queries on the same connection, so a callback that resumes a generator  *)
(* is two steps, the call and the return, and other callbacks may run in   *)
(* between.  There is one thread: the pending callbacks form a stack and   *)
(* only the newest one returns.                                            *)
(*                                                                         *)
(* An operator named Mutant_X is a wrong variant of the X defined after    *)
(* it, kept to show that a property notices the difference.                *)
(***************************************************************************)
EXTENDS Naturals, Sequences, FiniteSets

CONSTANTS
    Tables,    \* names of virtual tables (temp.vt_...)
    Cursors,   \* SQLite's cursor handles, numbered in the order of xOpen
    Gens,      \* generator objects, numbered in the order VTiter made them
    RowCount,  \* RowCount[t]: rows the table function of t yields
    Faults,    \* kinds of exception a generator may raise
    MaxDepth,  \* bound on nested callbacks
    None

ASSUME ConstantsOK ==
    /\ RowCount \in [Tables -> Nat]
    /\ Faults \subseteq {"error", "interrupt"}
    /\ MaxDepth \in Nat
    /\ Cursors \subseteq Nat
    /\ Gens \subseteq Nat
    /\ None \notin Tables \cup Cursors \cup Gens

VARIABLES
    tables,      \* tables registered in tableObjs and _vttables
    openedIter,  \* LTable.openedIter: the generator Create read the schema from
    cursors,     \* LTable.cursors: every instance Open made, in order
    gen,         \* the generators
    slots,       \* _vtcursors, _vtcursorinstances and _vtcursortables
    handle,      \* SQLite's side of each cursor
    inst,        \* vtbase Cursor objects, named by the handle they were made for
    stack,       \* callbacks that wait for a generator, the newest last
    got          \* rows SQLite was given since the last xFilter

vars == <<tables, openedIter, cursors, gen, slots, handle, inst, stack, got>>

NoGen    == [st |-> "unborn", tab |-> None, pos |-> 0]
NoHandle == [st |-> "fresh", tab |-> None, slot |-> 0, scan |-> "idle"]
NoInst   == [openIter |-> None, iterNext |-> None, firsttime |-> TRUE,
             row |-> 0, eof |-> FALSE]

Init ==
    /\ tables = {}
    /\ openedIter = [t \in Tables |-> None]
    /\ cursors = [t \in Tables |-> <<>>]
    /\ gen = [g \in Gens |-> NoGen]
    /\ slots = <<>>
    /\ handle = [c \in Cursors |-> NoHandle]
    /\ inst = [c \in Cursors |-> NoInst]
    /\ stack = <<>>
    /\ got = [c \in Cursors |-> <<>>]

-----------------------------------------------------------------------------
(* Generators.  pos counts the items taken: 1 is the schema, k + 1 is row k. *)

Fresh(g)     == /\ gen[g].st = "unborn"
                /\ \A h \in Gens : h < g => gen[h].st # "unborn"
Suspended(g) == g # None /\ gen[g].st = "suspended"

Started(t) == [st |-> "running", tab |-> t, pos |-> 0]

Outcomes(g) ==
    (IF gen[g].pos <= RowCount[gen[g].tab] THEN {"yield"} ELSE {"stop"}) \cup Faults

\* The generator after it was resumed and ended the resumption with outcome o.
Settled(g, o) ==
    IF o = "yield"
    THEN [st |-> "suspended", tab |-> gen[g].tab, pos |-> gen[g].pos + 1]
    ELSE [gen[g] EXCEPT !.st = IF o = "stop" THEN "done" ELSE "failed"]

Closed(g) == [gen[g] EXCEPT !.st = "closed"]

\* close() runs the generator's clean-up code, which may raise.
CloseOutcomes == {"stop"} \cup Faults

-----------------------------------------------------------------------------
(* The stack of callbacks waiting for a generator. *)

Frame(op, t, c, g) == [op |-> op, tab |-> t, cur |-> c, gen |-> g]
Top       == stack[Len(stack)]
Returning(op) == stack # <<>> /\ Top.op = op
Push(f)   == stack' = Append(stack, f)
Pop       == stack' = SubSeq(stack, 1, Len(stack) - 1)
Swap(f)   == stack' = [stack EXCEPT ![Len(stack)] = f]

Busy(c)   == \E i \in 1..Len(stack) : stack[i].cur = c
InUse(t)  == \/ \E i \in 1..Len(stack) : stack[i].tab = t
             \/ \E c \in Cursors : handle[c].st = "open" /\ handle[c].tab = t

\* The process dies when SQLite uses the cursor that a failing xOpen left unset.
Alive     == \A c \in Cursors : handle[c].st # "null"

\* A generator that is being closed runs its clean-up code: it closes its own
\* query (xClose, then drop table), it never starts a new one.
MayClose  == Alive /\ Len(stack) < MaxDepth
MayCall   == MayClose /\ (stack # <<>> => Top.op \notin {"close", "reclose"})

-----------------------------------------------------------------------------
(* xCreate and VTGenerator.Create *)

Create(t) ==
    /\ MayCall
    /\ t \notin tables /\ ~InUse(t)
    /\ \E g \in Gens :
         /\ Fresh(g)
         /\ gen' = [gen EXCEPT ![g] = Started(t)]
         /\ Push(Frame("create", t, None, g))
    /\ UNCHANGED <<tables, openedIter, cursors, slots, handle, inst, got>>

\* Only the first attempt catches apsw.AbortError, and starts a new generator.
CreateRetry ==
    /\ Returning("create") /\ "error" \in Faults
    /\ \E g \in Gens :
         /\ Fresh(g)
         /\ gen' = [gen EXCEPT ![Top.gen] = Settled(Top.gen, "abort"),
                               ![g] = Started(Top.tab)]
         /\ Swap(Frame("recreate", Top.tab, None, g))
    /\ UNCHANGED <<tables, openedIter, cursors, slots, handle, inst, got>>

\* A generator that yields no schema is closed and the table is not created.
CreateReturn ==
    /\ Returning("create") \/ Returning("recreate")
    /\ \E o \in Outcomes(Top.gen) \cup {"stop"} :
         /\ gen' = [gen EXCEPT ![Top.gen] = Settled(Top.gen, o)]
         /\ IF o = "yield"
            THEN /\ tables' = tables \cup {Top.tab}
                 /\ openedIter' = [openedIter EXCEPT ![Top.tab] = Top.gen]
                 /\ cursors' = [cursors EXCEPT ![Top.tab] = <<>>]
            ELSE UNCHANGED <<tables, openedIter, cursors>>
    /\ Pop
    /\ UNCHANGED <<slots, handle, inst, got>>

-----------------------------------------------------------------------------
(* xOpen and LTable.Open *)

\* Mutant: number the cursor by how many are open.
Mutant_FirstFree(i) ==
    i = 1 + Cardinality({j \in 1..Len(slots) : slots[j].cur # None})

FirstFree(i) ==
    /\ i <= Len(slots) => slots[i].cur = None
    /\ \A j \in 1..(i - 1) : slots[j].cur # None

\* Once table.Open has returned the instance: append it, take the first slot.
Place(t, c, g) ==
    /\ cursors' = [cursors EXCEPT ![t] = Append(@, c)]
    /\ inst' = [inst EXCEPT ![c] = [NoInst EXCEPT !.openIter = g, !.iterNext = g]]
    /\ \E i \in 1..(Len(slots) + 1) :
         /\ FirstFree(i)
         /\ LET s == [cur |-> c, inst |-> c, tab |-> t] IN
            slots' = IF i > Len(slots) THEN Append(slots, s) ELSE [slots EXCEPT ![i] = s]
         /\ handle' = [handle EXCEPT ![c] =
                [st |-> "open", tab |-> t, slot |-> i, scan |-> "idle"]]

MayOpen(t, c) ==
    /\ MayCall /\ t \in tables
    /\ handle[c].st = "fresh" /\ ~Busy(c)
    /\ \A d \in Cursors : d < c => handle[d].st # "fresh" \/ Busy(d)

\* Mutant: the schema generator is handed out again and again.
Mutant_OpenFirst(t, c) ==
    /\ MayOpen(t, c)
    /\ openedIter[t] # None
    /\ Place(t, c, openedIter[t])
    /\ UNCHANGED <<tables, openedIter, gen, stack, got>>

\* The first Open gets the generator that Create read the schema from.
OpenFirst(t, c) ==
    /\ MayOpen(t, c)
    /\ openedIter[t] # None
    /\ Place(t, c, openedIter[t])
    /\ openedIter' = [openedIter EXCEPT ![t] = None]
    /\ UNCHANGED <<tables, gen, stack, got>>

OpenAgain(t, c) ==
    /\ MayOpen(t, c)
    /\ openedIter[t] = None
    /\ \E g \in Gens :
         /\ Fresh(g)
         /\ gen' = [gen EXCEPT ![g] = Started(t)]
         /\ Push(Frame("open", t, c, g))
    /\ UNCHANGED <<tables, openedIter, cursors, slots, handle, inst, got>>

\* An exception leaves the cursor unset and reports SQLITE_OK.
OpenReturn ==
    /\ Returning("open")
    /\ \E o \in Outcomes(Top.gen) :
         /\ gen' = [gen EXCEPT ![Top.gen] = Settled(Top.gen, o)]
         /\ IF o = "yield"
            THEN Place(Top.tab, Top.cur, Top.gen)
            ELSE /\ handle' = [handle EXCEPT ![Top.cur].st = "null"]
                 /\ UNCHANGED <<cursors, inst, slots>>
    /\ Pop
    /\ UNCHANGED <<tables, openedIter, got>>

-----------------------------------------------------------------------------
(* What SQLite does with the answer of xFilter and xNext.  i is the instance *)
(* in the cursor's slot, r its record after the call.                        *)

\* Mutant: use the instance that was opened last.
Mutant_InstOf(c) == slots[Len(slots)].inst

InstOf(c) == slots[handle[c].slot].inst

\* Mutant: the end of the scan is not noticed.
Mutant_Answer(c, i, r) ==
    /\ inst' = [inst EXCEPT ![i] = r]
    /\ got' = [got EXCEPT ![c] = IF r.eof THEN @ ELSE Append(@, r.row)]
    /\ handle' = [handle EXCEPT ![c].scan = "row"]

\* SQLITE_OK: SQLite asks xEof and reads the row's columns unless at the end.
Answer(c, i, r) ==
    /\ inst' = [inst EXCEPT ![i] = r]
    /\ handle' = [handle EXCEPT ![c].scan = IF r.eof THEN "eof" ELSE "row"]
    /\ got' = [got EXCEPT ![c] = IF r.eof THEN @ ELSE Append(@, r.row)]

Fail(c) == handle' = [handle EXCEPT ![c].scan = "failed"]

\* Mutant: an empty row object instead of an empty row.
Mutant_Exhausted(i) == [inst[i] EXCEPT !.row = None, !.eof = TRUE, !.openIter = None]

RowOf(i, g)  == [inst[i] EXCEPT !.row = gen[g].pos, !.eof = FALSE]
Exhausted(i) == [inst[i] EXCEPT !.row = 0, !.eof = TRUE, !.openIter = None]

Ready(c) == handle[c].st = "open" /\ ~Busy(c)

(* xFilter and Cursor.Filter *)

MayFilter(c) == MayCall /\ Ready(c) /\ handle[c].scan # "failed"

\* First scan: go on with the generator Open handed out.
FilterFirst(c) ==
    LET i == InstOf(c)  g == inst[i].iterNext IN
    /\ MayFilter(c) /\ inst[i].firsttime /\ Suspended(g)
    /\ inst' = [inst EXCEPT ![i].firsttime = FALSE, ![i].eof = FALSE]
    /\ gen' = [gen EXCEPT ![g].st = "running"]
    /\ got' = [got EXCEPT ![c] = <<>>]
    /\ Push(Frame("filter", handle[c].tab, c, g))
    /\ UNCHANGED <<tables, openedIter, cursors, slots, handle>>

\* First scan, but the generator was closed meanwhile: StopIteration at once.
FilterClosed(c) ==
    LET i == InstOf(c) IN
    /\ MayFilter(c) /\ inst[i].firsttime /\ ~Suspended(inst[i].iterNext)
    /\ inst' = [inst EXCEPT ![i] = [Exhausted(i) EXCEPT !.firsttime = FALSE]]
    /\ handle' = [handle EXCEPT ![c].scan = "eof"]
    /\ got' = [got EXCEPT ![c] = <<>>]
    /\ UNCHANGED <<tables, openedIter, cursors, gen, slots, stack>>

\* A new scan closes the generator of the previous one first.
FilterAgain(c) ==
    LET i == InstOf(c)  g == inst[i].openIter IN
    /\ MayFilter(c) /\ ~inst[i].firsttime /\ Suspended(g)
    /\ \E h \in Gens : Fresh(h)   \* bound
    /\ inst' = [inst EXCEPT ![i].eof = FALSE]
    /\ gen' = [gen EXCEPT ![g].st = "running"]
    /\ got' = [got EXCEPT ![c] = <<>>]
    /\ Push(Frame("reclose", handle[c].tab, c, g))
    /\ UNCHANGED <<tables, openedIter, cursors, slots, handle>>

\* Mutant: the next method of the previous generator is kept.
Mutant_StartOver(i, g) == inst' = [inst EXCEPT ![i].openIter = g, ![i].eof = FALSE]

\* Start a new generator for instance i and resume it up to its schema row.
StartOver(i, g) ==
    inst' = [inst EXCEPT ![i].openIter = g, ![i].iterNext = g, ![i].eof = FALSE]

\* Mutant: the previous generator is not closed.
Mutant_FilterRestart(c) ==
    LET i == InstOf(c) IN
    /\ MayFilter(c) /\ ~inst[i].firsttime
    /\ \E g \in Gens :
         /\ Fresh(g)
         /\ gen' = [gen EXCEPT ![g] = Started(handle[c].tab)]
         /\ StartOver(i, g)
         /\ Push(Frame("skip", handle[c].tab, c, g))
    /\ got' = [got EXCEPT ![c] = <<>>]
    /\ UNCHANGED <<tables, openedIter, cursors, slots, handle>>

FilterRestart(c) ==
    LET i == InstOf(c) IN
    /\ MayFilter(c) /\ ~inst[i].firsttime /\ ~Suspended(inst[i].openIter)
    /\ \E g \in Gens :
         /\ Fresh(g)
         /\ gen' = [gen EXCEPT ![g] = Started(handle[c].tab)]
         /\ StartOver(i, g)
         /\ Push(Frame("skip", handle[c].tab, c, g))
    /\ got' = [got EXCEPT ![c] = <<>>]
    /\ UNCHANGED <<tables, openedIter, cursors, slots, handle>>

(* An interrupt inside xFilter disconnects the table: LTable.CloseCursors    *)
(* closes the generators of ALL its instances in order.  A close that raises *)
(* (a running generator always does) ends the loop with the list intact.     *)

Running(g) == g # None /\ gen[g].st = "running"

DisconnectAll(t, dead) ==
    LET cs == cursors[t]
        it(k) == inst[cs[k]].openIter
    IN \E k \in 0..Len(cs) :
        LET gone == {it(j) : j \in 1..k} IN
        /\ \A j \in 1..k : it(j) = dead \/ ~Running(it(j))
        /\ k < Len(cs) => /\ it(k + 1) # dead
                          /\ \/ Running(it(k + 1))
                             \/ "error" \in Faults /\ Suspended(it(k + 1))
        /\ gen' = [g \in Gens |->
              IF g = dead THEN Settled(g, "interrupt")
              ELSE IF Suspended(g) /\ (g \in gone \/ (k < Len(cs) /\ g = it(k + 1)))
              THEN Closed(g)
              ELSE gen[g]]
        /\ inst' = [c \in Cursors |->
              IF \E j \in 1..k : cs[j] = c THEN [inst[c] EXCEPT !.openIter = None]
              ELSE inst[c]]
        /\ cursors' = [cursors EXCEPT ![t] = IF k = Len(cs) THEN <<>> ELSE @]

\* The previous generator has been closed.
RecloseReturn ==
    LET c == Top.cur  i == InstOf(c) IN
    /\ Returning("reclose")
    /\ \E o \in CloseOutcomes :
         \/ /\ o = "stop"
            /\ \E g \in Gens :
                 /\ Fresh(g)
                 /\ gen' = [gen EXCEPT ![Top.gen] = Closed(Top.gen),
                                       ![g] = Started(Top.tab)]
                 /\ StartOver(i, g)
                 /\ Swap(Frame("skip", Top.tab, c, g))
            /\ UNCHANGED <<cursors, handle>>
         \/ /\ o = "error"
            /\ gen' = [gen EXCEPT ![Top.gen] = Closed(Top.gen)]
            /\ Fail(c) /\ Pop
            /\ UNCHANGED <<inst, cursors>>
         \/ /\ o = "interrupt"
            /\ DisconnectAll(Top.tab, Top.gen)
            /\ Fail(c) /\ Pop
    /\ UNCHANGED <<tables, openedIter, slots, got>>

\* Mutant: the schema row is delivered as a row.
Mutant_SkipReturn ==
    /\ Returning("skip")
    /\ Swap(Frame("filter", Top.tab, Top.cur, Top.gen))
    /\ UNCHANGED <<tables, openedIter, cursors, gen, slots, handle, inst, got>>

\* The schema row is dropped and the generator runs on to its first row.
SkipReturn ==
    LET c == Top.cur  i == InstOf(c) IN
    /\ Returning("skip")
    /\ \E o \in Outcomes(Top.gen) :
         \/ /\ o = "yield"
            /\ gen' = [gen EXCEPT ![Top.gen].pos = @ + 1]
            /\ Swap(Frame("filter", Top.tab, c, Top.gen))
            /\ UNCHANGED <<inst, cursors, handle>>
         \/ /\ o = "error"
            /\ gen' = [gen EXCEPT ![Top.gen] = Settled(Top.gen, o)]
            /\ Fail(c) /\ Pop
            /\ UNCHANGED <<inst, cursors>>
         \/ /\ o = "interrupt"
            /\ DisconnectAll(Top.tab, Top.gen)
            /\ Fail(c) /\ Pop
    /\ UNCHANGED <<tables, openedIter, slots, got>>

FilterReturn ==
    LET c == Top.cur  i == InstOf(c)  g == Top.gen IN
    /\ Returning("filter")
    /\ \E o \in Outcomes(g) :
         \/ /\ o \in {"yield", "stop"}
            /\ gen' = [gen EXCEPT ![g] = Settled(g, o)]
            /\ Answer(c, i, IF o = "yield" THEN RowOf(i, g) ELSE Exhausted(i))
            /\ UNCHANGED cursors
         \/ /\ o = "error"
            /\ gen' = [gen EXCEPT ![g] = Settled(g, o)]
            /\ Fail(c)
            /\ UNCHANGED <<inst, cursors, got>>
         \/ /\ o = "interrupt"
            /\ DisconnectAll(Top.tab, g)
            /\ Fail(c)
            /\ UNCHANGED got
    /\ Pop
    /\ UNCHANGED <<tables, openedIter, slots>>

-----------------------------------------------------------------------------
(* xNext and Cursor.Next *)

MayStep(c) == MayCall /\ Ready(c) /\ handle[c].scan = "row"

Next_(c) ==
    LET g == inst[InstOf(c)].iterNext IN
    /\ MayStep(c) /\ Suspended(g)
    /\ gen' = [gen EXCEPT ![g].st = "running"]
    /\ Push(Frame("next", handle[c].tab, c, g))
    /\ UNCHANGED <<tables, openedIter, cursors, slots, handle, inst, got>>

\* A generator that failed or was closed answers StopIteration.
NextFinished(c) ==
    LET i == InstOf(c) IN
    /\ MayStep(c) /\ ~Suspended(inst[i].iterNext)
    /\ Answer(c, i, Exhausted(i))
    /\ UNCHANGED <<tables, openedIter, cursors, gen, slots, stack>>

\* Mutant: an exception ends the scan.
Mutant_NextReturn ==
    LET c == Top.cur  i == InstOf(c)  g == Top.gen IN
    /\ Returning("next")
    /\ \E o \in Outcomes(g) :
         /\ gen' = [gen EXCEPT ![g] = Settled(g, o)]
         /\ Answer(c, i, IF o = "yield" THEN RowOf(i, g) ELSE Exhausted(i))
    /\ Pop
    /\ UNCHANGED <<tables, openedIter, cursors, slots>>

\* An exception other than KeyboardInterrupt leaves the callback with its
\* default answer, SQLITE_OK, and SQLite reads the previous row again.
NextReturn ==
    LET c == Top.cur  i == InstOf(c)  g == Top.gen IN
    /\ Returning("next")
    /\ \E o \in Outcomes(g) :
         /\ gen' = [gen EXCEPT ![g] = Settled(g, o)]
         /\ IF o = "interrupt"
            THEN Fail(c) /\ UNCHANGED <<inst, got>>
            ELSE Answer(c, i, CASE o = "yield" -> RowOf(i, g)
                                [] o = "stop"  -> Exhausted(i)
                                [] o = "error" -> inst[i])
    /\ Pop
    /\ UNCHANGED <<tables, openedIter, cursors, slots>>

-----------------------------------------------------------------------------
(* xClose and Cursor.Close: the slot is free before the generator is closed. *)

Close(c) ==
    LET n == handle[c].slot  g == inst[InstOf(c)].openIter IN
    /\ MayClose /\ Ready(c) /\ Suspended(g)
    /\ slots' = [slots EXCEPT ![n].cur = None]
    /\ gen' = [gen EXCEPT ![g].st = "running"]
    /\ Push(Frame("close", handle[c].tab, c, g))
    /\ UNCHANGED <<tables, openedIter, cursors, handle, inst, got>>

CloseFinished(c) ==
    LET n == handle[c].slot  i == InstOf(c) IN
    /\ MayClose /\ Ready(c) /\ ~Suspended(inst[i].openIter)
    /\ slots' = [slots EXCEPT ![n] = [cur |-> None, inst |-> None, tab |-> None]]
    /\ inst' = [inst EXCEPT ![i].openIter = None]
    /\ handle' = [handle EXCEPT ![c].st = "closed"]
    /\ UNCHANGED <<tables, openedIter, cursors, gen, stack, got>>

\* Clean-up code that raises leaves the instance in its slot.
CloseReturn ==
    LET c == Top.cur  n == handle[c].slot  i == InstOf(c) IN
    /\ Returning("close")
    /\ \E o \in CloseOutcomes :
         /\ gen' = [gen EXCEPT ![Top.gen] = Closed(Top.gen)]
         /\ IF o = "stop"
            THEN /\ slots' = [slots EXCEPT ![n].inst = None, ![n].tab = None]
                 /\ inst' = [inst EXCEPT ![i].openIter = None]
            ELSE UNCHANGED <<slots, inst>>
    /\ handle' = [handle EXCEPT ![c].st = "closed"]
    /\ Pop
    /\ UNCHANGED <<tables, openedIter, cursors, got>>

-----------------------------------------------------------------------------
(* xDestroy (drop table) and xDisconnect (the connection closes).  SQLite    *)
(* refuses both while a cursor of the table is open.                         *)

\* openedIter is dropped, not closed, when no cursor was ever opened.
Destroy(t) ==
    /\ MayClose /\ t \in tables /\ ~InUse(t)
    /\ tables' = tables \ {t}
    /\ openedIter' = [openedIter EXCEPT ![t] = None]
    /\ cursors' = [cursors EXCEPT ![t] = <<>>]
    /\ LET mine == {cursors[t][j] : j \in 1..Len(cursors[t])} IN
         /\ inst' = [c \in Cursors |->
               IF c \in mine THEN [inst[c] EXCEPT !.openIter = None] ELSE inst[c]]
         /\ gen' = [g \in Gens |->
               IF Suspended(g) /\ \E c \in mine : inst[c].openIter = g
               THEN Closed(g) ELSE gen[g]]
    /\ UNCHANGED <<slots, handle, stack, got>>

\* LTable.Disconnect is not called: the bridge looks for another name.
Disconnect(t) ==
    /\ stack = <<>> /\ Alive /\ t \in tables /\ ~InUse(t)
    /\ tables' = tables \ {t}
    /\ openedIter' = [openedIter EXCEPT ![t] = None]
    /\ cursors' = [cursors EXCEPT ![t] = <<>>]
    /\ UNCHANGED <<gen, slots, handle, inst, stack, got>>

-----------------------------------------------------------------------------
Call ==
    \/ \E t \in Tables : Create(t) \/ Destroy(t) \/ Disconnect(t)
    \/ \E t \in Tables, c \in Cursors : OpenFirst(t, c) \/ OpenAgain(t, c)
    \/ \E c \in Cursors :
          \/ FilterFirst(c) \/ FilterClosed(c) \/ FilterAgain(c) \/ FilterRestart(c)
          \/ Next_(c) \/ NextFinished(c)
          \/ Close(c) \/ CloseFinished(c)

Return ==
    \/ CreateRetry \/ CreateReturn \/ OpenReturn
    \/ RecloseReturn \/ SkipReturn \/ FilterReturn
    \/ NextReturn \/ CloseReturn

Next == Call \/ Return

Spec == Init /\ [][Next]_vars

\* A table function's code comes back, and SQLite steps a statement whose
\* cursor is on a row until the scan is over or the statement is closed.
FairSpec ==
    /\ Spec
    /\ WF_vars(Return)
    /\ \A c \in Cursors : WF_vars(Next_(c) \/ NextFinished(c))

-----------------------------------------------------------------------------
(* Properties *)

GenStates == {"unborn", "running", "suspended", "done", "failed", "closed"}
GenRec    == [st : GenStates, tab : Tables \cup {None}, pos : Nat]
SlotRec   == [cur : Cursors \cup {None}, inst : Cursors \cup {None}, tab : Tables \cup {None}]
HandleRec == [st : {"fresh", "open", "null", "closed"}, tab : Tables \cup {None},
              slot : Nat, scan : {"idle", "row", "eof", "failed"}]
InstRec   == [openIter : Gens \cup {None}, iterNext : Gens \cup {None},
              firsttime : BOOLEAN, row : Nat, eof : BOOLEAN]

\* The callbacks that wait for a generator, by whether SQLite has the cursor yet.
TableOps  == {"create", "recreate"}
CursorOps == {"reclose", "skip", "filter", "next", "close"}
FrameRec  == [op : TableOps \cup {"open"} \cup CursorOps, tab : Tables,
              cur : Cursors \cup {None}, gen : Gens]

\* Every variable has the shape its comment says.
TypeOK ==
    /\ tables \subseteq Tables
    /\ openedIter \in [Tables -> Gens \cup {None}]
    /\ cursors \in [Tables -> Seq(Cursors)]
    /\ gen \in [Gens -> GenRec]
    /\ slots \in Seq(SlotRec)
    /\ handle \in [Cursors -> HandleRec]
    /\ \A c \in Cursors : handle[c].st = "open" => handle[c].tab \in Tables
    /\ inst \in [Cursors -> InstRec]
    /\ stack \in Seq(FrameRec)
    /\ got \in [Cursors -> Seq(Nat)]

Closing(c) == \E i \in 1..Len(stack) : stack[i].op = "close" /\ stack[i].cur = c

\* A cursor SQLite holds open finds its own instance in its slot, whatever was
\* opened, closed and reused in between or is half closed: slot numbers handed
\* out by xOpen and freed early by xClose never mix up two cursors.
SlotOwner ==
    \A c \in Cursors : handle[c].st = "open" =>
        /\ handle[c].slot \in 1..Len(slots)
        /\ slots[handle[c].slot].inst = c
        /\ slots[handle[c].slot].tab = handle[c].tab
        /\ ~Closing(c) => slots[handle[c].slot].cur = c

\* Callbacks nest properly: each waits for a cursor of its own that is in the
\* state its callback needs, and code that cleans up only closes.
FramesOK ==
    \A i \in 1..Len(stack) :
        /\ stack[i].op \in TableOps => stack[i].cur = None
        /\ stack[i].op = "open" =>
              stack[i].cur \in Cursors /\ handle[stack[i].cur].st = "fresh"
        /\ stack[i].op \in CursorOps =>
              /\ stack[i].cur \in Cursors
              /\ handle[stack[i].cur].st = "open"
              /\ handle[stack[i].cur].tab = stack[i].tab
        /\ \A j \in 1..Len(stack) :
              /\ i # j => stack[i].cur = None \/ stack[i].cur # stack[j].cur
              /\ i < j /\ stack[i].op = "close" => stack[j].op = "close"

CanRun(g) == gen[g].st \in {"suspended", "running"}

\* A generator that can still run has one holder: the generator whose schema
\* Create read is handed to one cursor only, later cursors and scans get their own.
OneHolder ==
    \A g \in Gens : CanRun(g) =>
        /\ \A c, d \in Cursors : inst[c].openIter = g /\ inst[d].openIter = g => c = d
        /\ \A t \in tables : openedIter[t] = g => \A c \in Cursors : inst[c].openIter # g
        /\ \A t, u \in tables : openedIter[t] = g /\ openedIter[u] = g => t = u

\* No scan is left behind: a generator suspended in the middle of its rows
\* belongs to a cursor SQLite still holds open, so dropping a table never runs
\* a table function's clean-up code.
NoScanLeft ==
    /\ \A g \in Gens : gen[g].st = "suspended" /\ gen[g].pos > 1 =>
          \E c \in Cursors : handle[c].st = "open" /\ inst[c].openIter = g
    /\ \A c \in Cursors : Suspended(inst[c].openIter) => handle[c].st = "open"

\* SQLite reads the rows of a scan in the order the generator yields them, none
\* skipped; only the very last row it reads may be a repeat of the one before
\* (an exception xNext did not report).
RowsInOrder ==
    \A c \in Cursors : \A k \in 1..Len(got[c]) :
        \/ got[c][k] = k
        \/ k > 1 /\ k = Len(got[c]) /\ got[c][k] = k - 1

Repeated(s) == Len(s) > 1 /\ s[Len(s)] = s[Len(s) - 1]

\* A scan that ends short of the table's rows either repeated a row (swallowed
\* exception) or had its generator closed under it by LTable.Disconnect, when
\* another scan of the table was interrupted.
ShortScanExplained ==
    \A c \in Cursors : Ready(c) /\ handle[c].scan = "eof" =>
        \/ Len(got[c]) = RowCount[handle[c].tab] /\ ~Repeated(got[c])
        \/ Repeated(got[c]) /\ gen[inst[c].iterNext].st = "failed"
        \/ gen[inst[c].iterNext].st = "closed" /\ "interrupt" \in Faults

\* A cursor's current row changes only in a step that answers that cursor.
RowsArePrivate ==
    [][\A c \in Cursors : handle[c].st = "open" /\ inst[c].row' # inst[c].row =>
          got[c]' # got[c] \/ handle[c].scan' # handle[c].scan]_vars

\* Every scan ends, also when exceptions are swallowed and nested scans start,
\* unless the process died of an xOpen without a cursor.
ScanEnds ==
    \A c \in Cursors :
        (handle[c].scan = "row") ~>
            (handle[c].st = "closed" \/ handle[c].scan # "row" \/ ~Alive)

-----------------------------------------------------------------------------
(* Without exceptions the callbacks implement isolated iterators.  A scan is *)
(* idle while xFilter is being answered.                                     *)

Filtering(c) == \E i \in 1..Len(stack) :
    stack[i].cur = c /\ stack[i].op \in {"reclose", "skip", "filter"}

Phase(c) == CASE handle[c].st = "fresh" -> "unused"
              [] handle[c].st \in {"closed", "null"} -> "closed"
              [] OTHER -> IF Filtering(c) THEN "idle" ELSE handle[c].scan

Scan == INSTANCE TableScan WITH
    tab <- [c \in Cursors |-> handle[c].tab],
    phase <- [c \in Cursors |-> Phase(c)],
    seen <- got

\* The apsw callbacks over vtbase's generators behave as TableScan says.
ImplementsTableScan == Scan!Spec
=============================================================================
