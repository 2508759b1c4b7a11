---------------------------- MODULE DataflowRegions ----------------------------
(***************************************************************************)
(* Which instructions of a MAL plan are executed in parallel: the pass of  *)
(* OPTdataflowImplementation (opt_dataflow.c) that divides the plan into   *)
(* regions, with the graph MalBlock gives to those Dataflow runs.          *)
(*                                                                         *)
(* An instruction is a record of its kind, the variable it assigns, the    *)
(* variables it reads and, for sql.append and sql.update, the column.      *)
(* Kinds: "plain", "calc" (a module of simple arithmetic), "multiplex",    *)
(* "update" (bat.append, bat.replace, bat.delete: args[1] is changed in    *)
(* place), "column" (sql.append, sql.update), "effects" (unsafe or with    *)
(* side effects, among them capi.eval; batcapi.eval is plain), "barrier",  *)
(* "exit", "end".                                                          *)
(***************************************************************************)
EXTENDS Integers, FiniteSets, SequencesExt

CONSTANTS Plans, Vars

Kinds == {"plain", "calc", "multiplex", "update", "column", "effects", "barrier", "exit", "end"}
Instruction == [kind : Kinds, ret : Vars, args : Seq(Vars), column : Nat]

\* Barriers opened and not closed after instruction k of a plan.
Open(p, k) == Cardinality({h \in 1 .. k : p[h].kind = "barrier"})
              - Cardinality({h \in 1 .. k : p[h].kind = "exit"})

\* Plans are well-formed: an update has a column to change, and no exit comes before
\* its barrier.
ASSUME PlansOK ==
    \A p \in Plans :
        /\ p \in Seq(Instruction) /\ Len(p) > 0 /\ p[1].kind # "barrier"
        /\ \A k \in DOMAIN p :
              /\ Open(p, k) >= 0
              /\ p[k].kind \in {"update", "column"} => p[k].args # <<>>

\* What Ordered is about: plans whose instructions on columns have results of their own
\* (each takes a new variable) ...
OwnResults(p) ==
    \A h, k \in DOMAIN p :
        h < k /\ p[h].kind = "column" /\ p[k].kind = "column" => p[h].ret # p[k].ret

\* ... and in which no update takes as a value what an earlier one has changed and
\* returned under another name.
UpdatesApart(p) ==
    \A h, k \in DOMAIN p :
        h < k /\ p[h].kind = "update" /\ p[k].kind = "update" /\ p[h].ret # p[h].args[1]
            => \A j \in 2 .. Len(p[k].args) : p[k].args[j] # p[h].args[1]

M == INSTANCE MalBlock

VARIABLES
    old,     \* mb->stmt before the pass; old[1] is the signature
    i, start,
    states,  \* the flags of every variable
    type, level,   \* state.type and the nesting level of an existing region
    regions  \* what has been copied: [first, last, parallel, sinks]

vars == <<old, i, start, states, type, level, regions>>

Init ==
    /\ old \in Plans
    /\ i = 2 /\ start = 1
    /\ states = [v \in Vars |-> {}]
    /\ type = "singleton" /\ level = 0
    /\ regions = <<>>

UpdateKinds == {"update", "column"}

\* setVariableScope, for plans whose barrier blocks use what they define themselves.
EndScope(v) == LET U == {k \in DOMAIN old : v = old[k].ret \/ v \in Range(old[k].args)}
               IN  IF U = {} THEN 0 ELSE Max(U)

-----------------------------------------------------------------------------
\* A region that starts with instruction p.
decideRegionType(p) ==
    CASE p.kind \in {"barrier", "end"} -> "existing"
      [] p.kind = "column" -> "sql"
      [] p.kind \in {"effects", "multiplex", "exit"} -> "singleton"
      [] OTHER -> "dataflow"

\* Mutant: an updated variable may be read.
Mutant_dataflowBreakpoint(p) ==
    \/ p.kind \in {"end", "barrier", "exit", "effects", "column"}
    \/ states[p.ret] \cap {"WRITE", "READ", "BLOCK"} # {}
    \/ p.kind = "update" /\ states[p.args[1]] \cap {"READ", "BLOCK"} # {}

dataflowBreakpoint(p) ==
    \/ p.kind \in {"end", "barrier", "exit", "effects", "column"}
    \/ states[p.ret] \cap {"WRITE", "READ", "BLOCK"} # {}
    \/ p.kind = "update" /\ states[p.args[1]] \cap {"READ", "BLOCK"} # {}
    \/ p.kind # "update" /\ \E v \in Range(p.args) : "BLOCK" \in states[v]

sqlBreakpoint(p) ==
    p.kind = "column" => \E k \in start .. i - 1 : old[k].column = p.column

\* Mutant: a barrier block ends one level too early.
Mutant_checkBreakpoint(p) ==
    \/ type = "singleton"
    \/ type = "dataflow" /\ dataflowBreakpoint(p)
    \/ type = "existing" /\ level <= 1
    \/ type = "sql" /\ sqlBreakpoint(p)

checkBreakpoint(p) ==
    \/ type = "singleton"
    \/ type = "dataflow" /\ dataflowBreakpoint(p)
    \/ type = "existing" /\ level = 0
    \/ type = "sql" /\ sqlBreakpoint(p)

\* Mutant: inner barriers are not counted.
Mutant_Nesting(p) == IF p.kind = "exit" THEN -1 ELSE 0

Nesting(p) == CASE p.kind = "barrier" -> 1 [] p.kind = "exit" -> -1 [] OTHER -> 0

\* Not worth it: one instruction, arithmetic, or each consumes what the one before gives.
Calc(k) == old[k].kind = "calc"
Consumes(k) == old[k - 1].ret \in Range(old[k].args)
simpleFlow(first, last) ==
    LET N == {k \in first .. last : ~ Calc(k)} IN
    \/ first = last
    \/ type = "existing"
    \/ N = {}
    \/ /\ Min(N) < last
       /\ \A k \in Min(N) + 1 .. last : Calc(k) \/ Consumes(k)

\* Variables read more than once whose scope ends in the region are released at its end.
dflowGarbagesink(first, last) ==
    {v \in Vars : /\ "2READ" \in states[v]
                  /\ EndScope(v) \in first .. last
                  /\ v \in Range(old[EndScope(v)].args)}

\* "remember you assigned/read variables"
Mark(s, p) ==
    LET written == [s EXCEPT ![p.ret] = @ \cup {"WRITE"}]
        blocked == IF /\ p.kind \in UpdateKinds
                      /\ written[p.args[1]] = {} \/ "WRITE" \in written[p.args[1]]
                   THEN [written EXCEPT ![p.args[1]] = @ \cup {"BLOCK"}]
                   ELSE written
        uses(v) == Cardinality({k \in DOMAIN p.args : p.args[k] = v})
        second(v) == uses(v) > (IF "READ" \in blocked[v] THEN 0 ELSE 1)
    IN  [v \in Vars |->
           IF uses(v) = 0 \/ blocked[v] \cap {"WRITE", "READ"} = {} THEN blocked[v]
           ELSE blocked[v] \cup {"READ"} \cup (IF second(v) THEN {"2READ"} ELSE {})]

Close(last) ==
    LET parallel == ~ simpleFlow(start, last) IN
    regions' = Append(regions, [first |-> start, last |-> last, parallel |-> parallel,
                   sinks |-> IF parallel THEN dflowGarbagesink(start, last) ELSE {}])

-----------------------------------------------------------------------------
Scanning == i <= Len(old)

Stay ==
    /\ Scanning
    /\ ~ checkBreakpoint(old[i])
    /\ level' = IF type = "existing" THEN level + Nesting(old[i]) ELSE level
    /\ states' = Mark(states, old[i])
    /\ i' = i + 1
    /\ UNCHANGED <<old, start, type, regions>>

Break ==
    /\ Scanning
    /\ checkBreakpoint(old[i])
    /\ old[i].kind # "end"
    /\ Close(i - 1)
    /\ start' = i
    /\ type' = decideRegionType(old[i])
    /\ level' = IF old[i].kind = "barrier" THEN 1 ELSE level
    /\ states' = Mark([v \in Vars |-> {}], old[i])
    /\ i' = i + 1
    /\ UNCHANGED old

\* The rest is copied as it is.
End ==
    /\ Scanning
    /\ checkBreakpoint(old[i])
    /\ old[i].kind = "end"
    /\ Close(i - 1)
    /\ i' = Len(old) + 1
    /\ UNCHANGED <<old, start, states, type, level>>

Next == Stay \/ Break \/ End

Spec == Init /\ [][Next]_vars

-----------------------------------------------------------------------------
(* What a region is when it runs *)

\* Its instructions and, after them, those that release variables.
Sinks(r) == SetToSeq(r.sinks)
Size(r) == r.last - r.first + 1
Code(r) == [k \in 1 .. Size(r) |-> [ret |-> {old[r.first + k - 1].ret},
                                    args |-> old[r.first + k - 1].args]]
           \o [k \in DOMAIN Sinks(r) |-> [ret |-> {}, args |-> <<Sinks(r)[k]>>]]
Ends(r) == [v \in Vars |->
              IF v \in r.sinks THEN Size(r) + CHOOSE k \in DOMAIN Sinks(r) : Sinks(r)[k] = v
              ELSE IF EndScope(v) \in r.first .. r.last THEN EndScope(v) - r.first + 1
              ELSE 0]

\* What has finished before instruction k starts.
Before(r) ==
    LET g == M!Graph(Code(r), Ends(r))
        before[k \in DOMAIN g] ==
            LET direct == {j \in 1 .. k - 1 : k \in Range(g[j])}
            IN  direct \cup UNION {before[j] : j \in direct}
    IN  before

Parallel == {regions[n] : n \in {m \in DOMAIN regions : regions[m].parallel}}

Writes(p) == {p.ret} \cup (IF p.kind = "update" THEN {p.args[1]} ELSE {})
Reads(p) == Range(p.args)

\* Variables the region itself has assigned up to instruction k.
Own(r, k) == {old[h].ret : h \in r.first .. k}

\* One of the two changes what the other one uses.
Conflict(r, k, l) ==
    \/ /\ old[k].kind = "column" /\ old[l].kind = "column"
       /\ old[k].column = old[l].column
    \/ \E v \in Own(r, k) : \/ v \in Writes(old[k]) /\ v \in Reads(old[l]) \cup Writes(old[l])
                            \/ v \in Reads(old[k]) /\ v \in Writes(old[l])

-----------------------------------------------------------------------------
TypeOK ==
    /\ i \in 2 .. Len(old) + 1 /\ start \in 1 .. Len(old)
    /\ states \in [Vars -> SUBSET {"WRITE", "READ", "BLOCK", "2READ"}]
    /\ type \in {"singleton", "existing", "sql", "dataflow"}
    /\ level \in Nat /\ (type # "existing" => level = 0)
    /\ \A n \in DOMAIN regions : /\ regions[n].parallel \in BOOLEAN
                                 /\ regions[n].sinks \subseteq Vars

\* Of two instructions of a parallel region that use the same column, or of which one
\* assigns or updates a variable made in the region that the other one uses, the later
\* one waits for the earlier: the result is that of the sequential plan.
Ordered ==
    \A r \in Parallel :
        LET before == Before(r) IN
        \A k, l \in r.first .. r.last :
            k < l /\ Conflict(r, k, l) => k - r.first + 1 \in before[l - r.first + 1]

\* The instruction after which the interpreter releases a variable of a parallel region
\* waits for all others that use it.
Collected ==
    \A r \in Parallel :
        LET before == Before(r)  code == Code(r)  ends == Ends(r) IN
        \A v \in Vars : ends[v] # 0 =>
            \A k \in DOMAIN code : v \in Range(code[k].args) /\ k # ends[v] => k \in before[ends[v]]

\* Regions are consecutive; what has side effects is executed in no parallel one, and a
\* barrier block is in one region with its exit.
BlocksWhole ==
    \A n \in DOMAIN regions :
        LET r == regions[n] IN
        /\ r.first = (IF n = 1 THEN 1 ELSE regions[n - 1].last + 1) /\ r.first <= r.last
        /\ Open(old, r.last) = 0
        /\ r.parallel => \A k \in r.first .. r.last :
                            old[k].kind \notin {"effects", "barrier", "exit", "end"}
================================================================================
