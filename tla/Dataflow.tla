------------------------------- MODULE Dataflow -------------------------------
(***************************************************************************)
(* The dataflow scheduler of MonetDB, monetdb5/mal/mal_dataflow.c, with the*)
(* admission control of mal_resource.c: what runs the calls of wrapped UDFs*)
(* over columns (batcapi.eval) in parallel.                                *)
(*                                                                         *)
(* A block of MAL instructions is run by runMALdataflow, in the thread of  *)
(* a client or of the worker that executes the instruction that calls it.  *)
(* It starts one worker more, hands out what depends on nothing through the*)
(* queue todo, waits for each instruction on the block's own queue done,   *)
(* hands out what that sets free, and lets one worker exit at the end.     *)
(*                                                                         *)
(* A worker is identified with its slot in the table workers.  What is done*)
(* under one lock is one action; q_enqueue is one action with its sema_up, *)
(* for the worker that takes the new entry first uses another one's token. *)
(* The down of a semaphore and the look into the queue are two.            *)
(***************************************************************************)
EXTENDS Integers, FiniteSets, SequencesExt

CONSTANTS
    Blocks,      \* calls of runMALdataflow
    Clients,
    Client,      \* the client of a block
    Caller,      \* the instruction of another block that calls a block, or None
    Size,        \* number of instructions of a block
    Wakes,       \* flow->nodes and edges: the instructions to wake after each one
    Claim,       \* fe->argclaim of each instruction
    MayFail,     \* instructions that may raise an exception
    Slots,       \* THREADS: the table workers is 1..Slots
    NrThreads,   \* GDKnr_threads
    Threshold,   \* MEMORY_THRESHOLD
    WorkerLimit, \* cntxt->workerlimit, 0 for none
    MemLimit,    \* cntxt->memorylimit, 0 for none
    MayNotStart, \* blocks whose worker's thread may fail to start
    Endless,     \* instructions that never return
    None

Instrs(b) == 1..Size[b]
Events == UNION {{b} \X Instrs(b) : b \in Blocks}

ASSUME BlocksOK ==
    /\ IsFiniteSet(Blocks)
    /\ Size \in [Blocks -> Nat \ {0}]
    /\ Client \in [Blocks -> Clients] /\ None \notin Clients /\ None \notin Events
    /\ Caller \in [Blocks -> Events \cup {None}]
    /\ \A b \in Blocks : None \notin Instrs(b)

\* Edges go forward: assert(k < pc) and assert(pc < l) of DFLOWinitBlk.
ASSUME WakesOK ==
    \A b \in Blocks : /\ DOMAIN Wakes[b] = Instrs(b)
                      /\ \A k \in Instrs(b) : Wakes[b][k] \in Seq(k + 1 .. Size[b])

ASSUME LimitsOK ==
    /\ Slots \in Nat /\ NrThreads \in Nat /\ NrThreads > 1 /\ NrThreads - 1 <= Slots
    /\ Threshold \in Nat \ {0}
    /\ Claim \in [Events -> Nat] /\ MayFail \subseteq Events
    /\ MayNotStart \subseteq Blocks /\ Endless \subseteq Events
    /\ WorkerLimit \in [Clients -> Nat] /\ MemLimit \in [Clients -> Nat]

Workers == 1..Slots

VARIABLES
    todo,       \* todo->data, the last one is taken first
    exitcount,  \* todo->exitcount
    tokens,     \* todo->s
    flag,       \* workers[s].flag
    cntxt,      \* workers[s].cntxt, None is NULL
    sema,       \* workers[s].s
    pc, local, fe, fnxt, error,   \* of DFLOWworker in a slot: where it is and its locals
    state,      \* flow->status[i].state
    blocks,     \* flow->status[i].blocks
    done,       \* flow->done
    flowerror,  \* flow->error: the instruction whose exception it is
    phase,      \* where runMALdataflow and DFLOWscheduler are
    slot,       \* the slot runMALdataflow uses
    pend,       \* what DFLOWscheduler is still to enqueue, holding flowlock
    tasks,      \* instructions DFLOWscheduler has seen done, or executed serially
    result,     \* what runMALdataflow returns
    memorypool, stkworkers, stkmemory,  \* admission: globals, stk->workers, stk->memory
    ran, failed \* histories: what was executed, and what of it raised an exception

poolVars == <<todo, exitcount, tokens>>
slotVars == <<flag, cntxt, sema>>
workerVars == <<pc, local, fe, fnxt, error>>
flowVars == <<state, blocks, done, flowerror>>
callVars == <<phase, slot, pend, tasks, result>>
claimVars == <<memorypool, stkworkers, stkmemory>>
histVars == <<ran, failed>>
vars == <<poolVars, slotVars, workerVars, flowVars, callVars, claimVars, histVars>>

\* The edges from k to i, and all that lead to i.
Edges(b, k, i) == {<<k, p>> : p \in {q \in DOMAIN Wakes[b][k] : Wakes[b][k][q] = i}}
EdgesTo(b, i) == UNION {Edges(b, k, i) : k \in Instrs(b)}
Sources(b, i) == {k \in Instrs(b) : i \in Range(Wakes[b][k])}

\* After DFLOWinitialize: GDKnr_threads - 1 workers for the work of any client.
Init ==
    /\ todo = <<>> /\ exitcount = 0 /\ tokens = 0
    /\ flag = [s \in Workers |-> IF s < NrThreads THEN "RUNNING" ELSE "IDLE"]
    /\ cntxt = [s \in Workers |-> None]
    /\ sema = [s \in Workers |-> 0]
    /\ pc = [s \in Workers |-> IF s < NrThreads THEN "start" ELSE "off"]
    /\ local = [s \in Workers |-> None]
    /\ fe = [s \in Workers |-> None]
    /\ fnxt = [s \in Workers |-> None]
    /\ error = [s \in Workers |-> FALSE]
    /\ state = [b \in Blocks |-> [i \in Instrs(b) |-> "pending"]]
    /\ blocks = [b \in Blocks |-> [i \in Instrs(b) |-> Cardinality(EdgesTo(b, i))]]
    /\ done = [b \in Blocks |-> <<>>]
    /\ flowerror = [b \in Blocks |-> None]
    /\ phase = [b \in Blocks |-> "idle"]
    /\ slot = [b \in Blocks |-> None]
    /\ pend = [b \in Blocks |-> {}]
    /\ tasks = [b \in Blocks |-> 0]
    /\ result = [b \in Blocks |-> None]
    /\ memorypool = 0
    /\ stkworkers = [b \in Blocks |-> 0]
    /\ stkmemory = [b \in Blocks |-> 0]
    /\ ran = [b \in Blocks |-> {}]
    /\ failed = [b \in Blocks |-> {}]

-----------------------------------------------------------------------------
\* Queues
Enqueue(e) == /\ todo' = Append(todo, e)
              /\ tokens' = tokens + 1
              /\ UNCHANGED exitcount

Requeue(e) == /\ todo' = <<e>> \o todo
              /\ tokens' = tokens + 1
              /\ UNCHANGED exitcount

ClientOf(e) == Client[e[1]]

\* For a client: its entry of the lowest pc, the one nearest to the end of the queue.
OwnEntries(c) == {k \in DOMAIN todo : ClientOf(todo[k]) = c}
IsOldest(k, c) == /\ k \in OwnEntries(c)
                  /\ \A j \in OwnEntries(c) : \/ todo[k][2] < todo[j][2]
                                              \/ todo[k][2] = todo[j][2] /\ j <= k

-----------------------------------------------------------------------------
\* Admission control
Pool == IF memorypool <= 0 THEN Threshold ELSE memorypool

Admissible(e) ==
    LET b == e[1]  c == ClientOf(e) IN
    \/ Claim[e] = 0
    \/ /\ ~ (WorkerLimit[c] # 0 /\ WorkerLimit[c] < stkworkers[b])
       /\ Pool > Claim[e] \/ stkworkers[b] = 0
       /\ MemLimit[c] # 0 => Claim[e] + stkmemory[b] <= MemLimit[c]

\* The claim is added to stk->memory a second time under a memory limit.
Charge(e) == IF MemLimit[ClientOf(e)] # 0 THEN 2 * Claim[e] ELSE Claim[e]

MALadmission_claim(e) ==
    IF Claim[e] = 0 THEN UNCHANGED claimVars
    ELSE /\ memorypool' = Pool - Claim[e]
         /\ stkworkers' = [stkworkers EXCEPT ![e[1]] = @ + 1]
         /\ stkmemory' = [stkmemory EXCEPT ![e[1]] = @ + Charge(e)]

\* A refused claim may still refill an exhausted pool.
MALadmission_refuse(e) ==
    LET c == ClientOf(e) IN
    /\ memorypool' = IF WorkerLimit[c] # 0 /\ WorkerLimit[c] < stkworkers[e[1]]
                     THEN memorypool ELSE Pool
    /\ UNCHANGED <<stkworkers, stkmemory>>

MALadmission_release(e) ==
    IF Claim[e] = 0 THEN UNCHANGED claimVars
    ELSE /\ memorypool' = IF memorypool + Claim[e] > Threshold THEN Threshold
                          ELSE memorypool + Claim[e]
         /\ stkworkers' = [stkworkers EXCEPT ![e[1]] = @ - 1]
         /\ stkmemory' = [stkmemory EXCEPT ![e[1]] = @ - Charge(e)]

-----------------------------------------------------------------------------
\* What runs an instruction: a worker, or the caller of a block it could not start a
\* worker for.
RunsIt(s, e) == pc[s] = "run" /\ fe[s] = e
Executing(e) == \/ \E s \in Workers : RunsIt(s, e)
                \/ phase[e[1]] = "serial" /\ e[2] = tasks[e[1]] + 1 /\ failed[e[1]] = {}

Called(b) == Caller[b] # None => Executing(Caller[b])

\* The blocks an instruction calls have returned.
Callees(e) == {b \in Blocks : Caller[b] = e}
CalleesDone(e) == \A b \in Callees(e) : phase[b] = "returned"
Raises(e) == IF \E b \in Callees(e) : result[b] # None THEN {TRUE}
             ELSE IF e \in MayFail THEN BOOLEAN ELSE {FALSE}

\* flow->flowlock is free: DFLOWscheduler holds it while it enqueues.
Unlocked(b) == pend[b] = {}

-----------------------------------------------------------------------------
(* DFLOWworker *)

At(s, from, to) == pc[s] = from /\ pc' = [pc EXCEPT ![s] = to]

\* A specific worker waits until DFLOWscheduler has entered the first instructions.
Start(s) ==
    /\ pc[s] = "start"
    /\ pc' = [pc EXCEPT ![s] = IF cntxt[s] = None THEN "loop" ELSE "hold"]
    /\ UNCHANGED <<poolVars, slotVars, local, fe, fnxt, error, flowVars, callVars, claimVars, histVars>>

Released(s) ==
    /\ At(s, "hold", "loop")
    /\ sema[s] > 0
    /\ sema' = [sema EXCEPT ![s] = @ - 1]
    /\ UNCHANGED <<poolVars, flag, cntxt, local, fe, fnxt, error, flowVars, callVars, claimVars, histVars>>

\* It reads the client it works for and goes down on the queue with that, although the
\* client may be cleared while it waits.  A generic worker remains one.
Loop(s) ==
    /\ cntxt[s] # None
    /\ At(s, "loop", "down")
    /\ local' = [local EXCEPT ![s] = cntxt[s]]
    /\ UNCHANGED <<poolVars, slotVars, fe, fnxt, error, flowVars, callVars, claimVars, histVars>>

GoesDown(s) == pc[s] = "down" \/ (pc[s] = "loop" /\ cntxt[s] = None)
Down(s) ==
    /\ GoesDown(s)
    /\ tokens > 0
    /\ tokens' = tokens - 1
    /\ pc' = [pc EXCEPT ![s] = "take"]
    /\ local' = [local EXCEPT ![s] = IF pc[s] = "down" THEN @ ELSE None]
    /\ UNCHANGED <<todo, exitcount, slotVars, fe, fnxt, error, flowVars, callVars, claimVars, histVars>>

TakeOwn(s) ==
    /\ local[s] # None
    /\ At(s, "take", "begin")
    /\ \E k \in DOMAIN todo : /\ IsOldest(k, local[s])
                             /\ fe' = [fe EXCEPT ![s] = todo[k]]
                             /\ todo' = RemoveAt(todo, k)
    /\ UNCHANGED <<exitcount, tokens, slotVars, local, fnxt, error, flowVars, callVars, claimVars, histVars>>

\* Nothing of its client: it compensates for the down.
TakeNothing(s) ==
    /\ local[s] # None
    /\ OwnEntries(local[s]) = {}
    /\ At(s, "take", "back")
    /\ UNCHANGED <<poolVars, slotVars, local, fe, fnxt, error, flowVars, callVars, claimVars, histVars>>

\* Mutant: no compensation for the down.
Mutant_GiveBack(s) ==
    /\ At(s, "back", "loop")
    /\ UNCHANGED <<poolVars, slotVars, local, fe, fnxt, error, flowVars, callVars, claimVars, histVars>>

GiveBack(s) ==
    /\ At(s, "back", "loop")
    /\ tokens' = tokens + 1
    /\ UNCHANGED <<todo, exitcount, slotVars, local, fe, fnxt, error, flowVars, callVars, claimVars, histVars>>

\* The last entry; without one assert(q->last > 0) fails, here the worker stands still.
TakeLast(s) ==
    /\ local[s] = None
    /\ exitcount = 0
    /\ todo # <<>>
    /\ At(s, "take", "begin")
    /\ fe' = [fe EXCEPT ![s] = Last(todo)]
    /\ todo' = Front(todo)
    /\ UNCHANGED <<exitcount, tokens, slotVars, local, fnxt, error, flowVars, callVars, claimVars, histVars>>

TakeExit(s) ==
    /\ local[s] = None
    /\ exitcount > 0
    /\ At(s, "take", "gone")
    /\ exitcount' = exitcount - 1
    /\ UNCHANGED <<todo, tokens, slotVars, local, fe, fnxt, error, flowVars, callVars, claimVars, histVars>>

Exit(s) ==
    /\ At(s, "gone", "off")
    /\ flag' = [flag EXCEPT ![s] = "EXITED"]
    /\ UNCHANGED <<poolVars, cntxt, sema, local, fe, fnxt, error, flowVars, callVars, claimVars, histVars>>

\* After an error of the flow its other instructions are done as they are.
Skip(s) ==
    /\ pc[s] = "begin"
    /\ flowerror[fe[s][1]] # None
    /\ done' = [done EXCEPT ![fe[s][1]] = Append(@, fe[s][2])]
    /\ fe' = [fe EXCEPT ![s] = None]
    /\ pc' = [pc EXCEPT ![s] = "loop"]
    /\ UNCHANGED <<poolVars, slotVars, local, fnxt, error, state, blocks, flowerror, callVars, claimVars, histVars>>

Admit(s) ==
    /\ At(s, "begin", "run")
    /\ flowerror[fe[s][1]] = None
    /\ Admissible(fe[s])
    /\ MALadmission_claim(fe[s])
    /\ UNCHANGED <<poolVars, slotVars, local, fe, fnxt, error, flowVars, callVars, histVars>>

Refuse(s) ==
    /\ At(s, "begin", "loop")
    /\ flowerror[fe[s][1]] = None
    /\ ~ Admissible(fe[s])
    /\ MALadmission_refuse(fe[s])
    /\ Requeue(fe[s])
    /\ fe' = [fe EXCEPT ![s] = None]
    /\ UNCHANGED <<slotVars, local, fnxt, error, flowVars, callVars, histVars>>

\* runMALsequence returns, and the claim is released.
Run(s) ==
    /\ At(s, "run", "wrap")
    /\ fe[s] \notin Endless
    /\ CalleesDone(fe[s])
    /\ \E raises \in Raises(fe[s]) :
          /\ error' = [error EXCEPT ![s] = raises]
          /\ ran' = [ran EXCEPT ![fe[s][1]] = @ \cup {fe[s][2]}]
          /\ failed' = IF raises THEN [failed EXCEPT ![fe[s][1]] = @ \cup {fe[s][2]}] ELSE failed
    /\ MALadmission_release(fe[s])
    /\ UNCHANGED <<poolVars, slotVars, local, fe, fnxt, flowVars, callVars>>

\* Mutant: whatever else the instruction waits for.
Mutant_Eligible(b, k, i) == i \in Range(Wakes[b][k]) /\ state[b][i] = "pending"

\* The first pending instruction that waits for this one only.
Eligible(b, k, i) == /\ i \in Range(Wakes[b][k])
                     /\ state[b][i] = "pending" /\ blocks[b][i] = 1
\* Mutant: the worker may take the same instruction again.
Mutant_FirstEligible(b, k) ==
    LET w == Wakes[b][k]
        E == {p \in DOMAIN w : Eligible(b, k, w[p])}
    IN  IF E = {} THEN {} ELSE {w[CHOOSE p \in E : \A q \in E : p <= q]} \cup {k}

FirstEligible(b, k) ==
    LET w == Wakes[b][k]
        E == {p \in DOMAIN w : Eligible(b, k, w[p])}
    IN  IF E = {} THEN {} ELSE {w[CHOOSE p \in E : \A q \in E : p <= q]}

WrapUp(s) ==
    LET b == fe[s][1]  k == fe[s][2] IN
    /\ At(s, "wrap", "post")
    /\ Unlocked(b)
    /\ IF error[s]
       THEN /\ state' = [state EXCEPT ![b][k] = "wrapup"]
            /\ flowerror' = IF flowerror[b] = None THEN [flowerror EXCEPT ![b] = k] ELSE flowerror
            /\ UNCHANGED <<blocks, fnxt>>
       ELSE /\ flowerror' = flowerror
            /\ \/ /\ FirstEligible(b, k) = {}
                  /\ state' = [state EXCEPT ![b][k] = "wrapup"]
                  /\ UNCHANGED <<blocks, fnxt>>
               \/ \E i \in FirstEligible(b, k) :
                     /\ state' = [state EXCEPT ![b] = [@ EXCEPT ![k] = "wrapup", ![i] = "running"]]
                     /\ blocks' = [blocks EXCEPT ![b][i] = 0]
                     /\ fnxt' = [fnxt EXCEPT ![s] = <<b, i>>]
    /\ UNCHANGED <<poolVars, slotVars, local, fe, error, done, callVars, claimVars, histVars>>

Post(s) ==
    /\ pc[s] = "post"
    /\ done' = [done EXCEPT ![fe[s][1]] = Append(@, fe[s][2])]
    /\ fe' = [fe EXCEPT ![s] = fnxt[s]]
    /\ fnxt' = [fnxt EXCEPT ![s] = None]
    /\ error' = [error EXCEPT ![s] = FALSE]
    /\ pc' = [pc EXCEPT ![s] = IF fnxt[s] = None THEN "loop" ELSE "begin"]
    /\ UNCHANGED <<poolVars, slotVars, local, state, blocks, flowerror, callVars, claimVars, histVars>>

Worker(s) == \/ Start(s) \/ Released(s) \/ Loop(s) \/ Down(s)
             \/ TakeOwn(s) \/ TakeNothing(s) \/ GiveBack(s) \/ TakeLast(s) \/ TakeExit(s) \/ Exit(s)
             \/ Skip(s) \/ Admit(s) \/ Refuse(s) \/ Run(s) \/ WrapUp(s) \/ Post(s)

-----------------------------------------------------------------------------
(* runMALdataflow and DFLOWscheduler *)

Go(b, from, to) == phase[b] = from /\ phase' = [phase EXCEPT ![b] = to]

NoExited == \A s \in Workers : flag[s] # "EXITED"

\* dataflowLock is released while the thread of the slot is joined.
Join(b) ==
    /\ Go(b, "idle", "join")
    /\ Called(b)
    /\ \E s \in Workers : /\ flag[s] = "EXITED"
                          /\ flag' = [flag EXCEPT ![s] = "JOINING"]
                          /\ cntxt' = [cntxt EXCEPT ![s] = None]
                          /\ slot' = [slot EXCEPT ![b] = s]
    /\ UNCHANGED <<poolVars, sema, workerVars, flowVars, pend, tasks, result, claimVars, histVars>>

Joined(b) ==
    /\ Go(b, "join", "idle")
    /\ flag' = [flag EXCEPT ![slot[b]] = "IDLE"]
    /\ slot' = [slot EXCEPT ![b] = None]
    /\ UNCHANGED <<poolVars, cntxt, sema, workerVars, flowVars, pend, tasks, result, claimVars, histVars>>

\* Mutant: every worker works for all clients.
Mutant_Specificity(b) == {None}

\* A recursive call copies the specificity of the worker that makes it.
Specificity(b) ==
    IF Caller[b] = None THEN {Client[b]}
    ELSE LET S == {s \in Workers : RunsIt(s, Caller[b])}
         IN  IF S = {} THEN {None} ELSE {cntxt[s] : s \in S}

\* Instructions that wait for nothing.
Ready(b) == {i \in Instrs(b) : blocks[b][i] = 0}

\* A slot for one more worker; its semaphore is as the last worker there left it.
Pick(b) ==
    /\ Go(b, "idle", "seed")
    /\ Called(b)
    /\ NoExited
    /\ \E s \in Workers :
          /\ flag[s] = "IDLE"
          /\ \A r \in Workers : flag[r] = "IDLE" => s <= r
          /\ flag' = [flag EXCEPT ![s] = "RUNNING"]
          /\ \E c \in Specificity(b) : cntxt' = [cntxt EXCEPT ![s] = c]
          /\ pc' = [pc EXCEPT ![s] = "start"]
          /\ slot' = [slot EXCEPT ![b] = s]
    /\ pend' = [pend EXCEPT ![b] = Ready(b)]
    /\ UNCHANGED <<poolVars, sema, local, fe, fnxt, error, flowVars, tasks, result, claimVars, histVars>>

\* No slot, or the thread cannot be started: the caller runs the block itself.
RunSerially(b) ==
    /\ Go(b, "idle", "serial")
    /\ Called(b)
    /\ NoExited
    /\ b \in MayNotStart \/ \A s \in Workers : flag[s] # "IDLE"
    /\ UNCHANGED <<poolVars, slotVars, workerVars, flowVars, slot, pend, tasks, result, claimVars, histVars>>

SerialStep(b) ==
    LET i == tasks[b] + 1 IN
    /\ phase[b] = "serial"
    /\ i <= Size[b] /\ failed[b] = {} /\ <<b, i>> \notin Endless
    /\ CalleesDone(<<b, i>>)
    /\ \E raises \in Raises(<<b, i>>) :
          failed' = IF raises THEN [failed EXCEPT ![b] = {i}] ELSE failed
    /\ ran' = [ran EXCEPT ![b] = @ \cup {i}]
    /\ tasks' = [tasks EXCEPT ![b] = i]
    /\ UNCHANGED <<poolVars, slotVars, workerVars, flowVars, phase, slot, pend, result, claimVars>>

SerialReturn(b) ==
    /\ Go(b, "serial", "returned")
    /\ tasks[b] = Size[b] \/ failed[b] # {}
    /\ result' = [result EXCEPT ![b] = IF failed[b] = {} THEN None ELSE tasks[b]]
    /\ UNCHANGED <<poolVars, slotVars, workerVars, flowVars, slot, pend, tasks, claimVars, histVars>>

\* q_enqueue(todo, flow->status + i), holding flowlock.  The order, that of the block
\* or of a list of edges, is left open.
Enter(b) ==
    /\ \E i \in pend[b] : /\ Enqueue(<<b, i>>)
                          /\ state' = [state EXCEPT ![b][i] = "running"]
                          /\ pend' = [pend EXCEPT ![b] = @ \ {i}]
    /\ UNCHANGED <<slotVars, workerVars, blocks, done, flowerror, phase, slot, tasks, result, claimVars, histVars>>

\* MT_sema_up(&w->s)
Release(b) ==
    /\ Go(b, "seed", "wait")
    /\ Unlocked(b)
    /\ sema' = [sema EXCEPT ![slot[b]] = @ + 1]
    /\ UNCHANGED <<poolVars, flag, cntxt, workerVars, flowVars, slot, pend, tasks, result, claimVars, histVars>>

\* Mutant: what a worker went on with is counted down too.
Mutant_Lowers(b, k, i) == i \in Range(Wakes[b][k])

\* Every edge of a finished instruction lowers the count of what still waits.
Lowers(b, k, i) == /\ i \in Range(Wakes[b][k])
                   /\ state[b][i] = "pending"
Freed(b, k, i) == Lowers(b, k, i) /\ blocks[b][i] \in 1 .. Cardinality(Edges(b, k, i))
Handle(b) ==
    LET k == Last(done[b]) IN
    /\ phase[b] = "wait"
    /\ Unlocked(b)
    /\ done[b] # <<>>
    /\ tasks[b] # Size[b]
    /\ done' = [done EXCEPT ![b] = Front(@)]
    /\ tasks' = [tasks EXCEPT ![b] = @ + 1]
    /\ blocks' = [blocks EXCEPT ![b] =
                   [i \in Instrs(b) |-> IF Freed(b, k, i) THEN 0
                                        ELSE IF Lowers(b, k, i) THEN @[i] - Cardinality(Edges(b, k, i))
                                        ELSE @[i]]]
    /\ pend' = [pend EXCEPT ![b] = {i \in Instrs(b) : Freed(b, k, i)}]
    /\ UNCHANGED <<poolVars, slotVars, workerVars, state, flowerror, phase, slot, result, claimVars, histVars>>

\* Mutant: an error ends the wait.
Mutant_Finish(b) ==
    /\ Go(b, "wait", "exit")
    /\ Unlocked(b)
    /\ tasks[b] = Size[b] \/ flowerror[b] # None
    /\ cntxt' = [cntxt EXCEPT ![slot[b]] = None]
    /\ result' = [result EXCEPT ![b] = flowerror[b]]
    /\ flowerror' = [flowerror EXCEPT ![b] = None]
    /\ UNCHANGED <<poolVars, flag, sema, workerVars, state, blocks, done, slot, pend, tasks, claimVars, histVars>>

\* All is done: the specific worker becomes a generic one, the flow is freed.
Finish(b) ==
    /\ Go(b, "wait", "exit")
    /\ Unlocked(b)
    /\ tasks[b] = Size[b]
    /\ cntxt' = [cntxt EXCEPT ![slot[b]] = None]
    /\ result' = [result EXCEPT ![b] = flowerror[b]]
    /\ flowerror' = [flowerror EXCEPT ![b] = None]
    /\ UNCHANGED <<poolVars, flag, sema, workerVars, state, blocks, done, slot, pend, tasks, claimVars, histVars>>

\* Mutant: a worker is woken, none is told to exit.
Mutant_Return(b) ==
    /\ Go(b, "exit", "returned")
    /\ tokens' = tokens + 1
    /\ UNCHANGED <<todo, exitcount, slotVars, workerVars, flowVars, slot, pend, tasks, result, claimVars, histVars>>

\* One worker is told to exit.
Return(b) ==
    /\ Go(b, "exit", "returned")
    /\ exitcount' = exitcount + 1
    /\ tokens' = tokens + 1
    /\ UNCHANGED <<todo, slotVars, workerVars, flowVars, slot, pend, tasks, result, claimVars, histVars>>

Scheduler(b) == \/ Join(b) \/ Joined(b) \/ Pick(b)
                \/ RunSerially(b) \/ SerialStep(b) \/ SerialReturn(b)
                \/ Enter(b) \/ Release(b) \/ Handle(b) \/ Finish(b) \/ Return(b)

Next == (\E s \in Workers : Worker(s)) \/ (\E b \in Blocks : Scheduler(b))

Spec == Init /\ [][Next]_vars

-----------------------------------------------------------------------------
\* A worker that can go on again and again does: what it waits for are locks held for a
\* moment, and tokens, which others offer again, for who finds nothing of its client
\* sleeps before the next try.  A scheduler that can go on does.
FairSpec == /\ Spec
            /\ \A s \in Workers : SF_vars(Worker(s))
            /\ \A b \in Blocks : WF_vars(Scheduler(b))

-----------------------------------------------------------------------------
TypeOK ==
    /\ todo \in Seq(Events) /\ exitcount \in Nat /\ tokens \in Nat
    /\ flag \in [Workers -> {"IDLE", "RUNNING", "JOINING", "EXITED"}]
    /\ cntxt \in [Workers -> Clients \cup {None}]
    /\ sema \in [Workers -> Nat]
    /\ pc \in [Workers -> {"off", "start", "hold", "loop", "down", "take", "back", "gone",
                          "begin", "run", "wrap", "post"}]
    /\ local \in [Workers -> Clients \cup {None}]
    /\ fe \in [Workers -> Events \cup {None}]
    /\ fnxt \in [Workers -> Events \cup {None}]
    /\ error \in [Workers -> BOOLEAN]
    /\ DOMAIN state = Blocks /\ DOMAIN blocks = Blocks
    /\ \A b \in Blocks : /\ state[b] \in [Instrs(b) -> {"pending", "running", "wrapup"}]
                         /\ blocks[b] \in [Instrs(b) -> Nat]
    /\ DOMAIN done = Blocks /\ DOMAIN pend = Blocks
    /\ \A b \in Blocks : done[b] \in Seq(Instrs(b)) /\ pend[b] \subseteq Instrs(b)
    /\ DOMAIN flowerror = Blocks /\ DOMAIN result = Blocks
    /\ \A b \in Blocks : {flowerror[b], result[b]} \subseteq Instrs(b) \cup {None}
    /\ phase \in [Blocks -> {"idle", "join", "serial", "seed", "wait", "exit", "returned"}]
    /\ slot \in [Blocks -> Workers \cup {None}]
    /\ tasks \in [Blocks -> Nat]
    /\ memorypool \in Int /\ stkworkers \in [Blocks -> Int] /\ stkmemory \in [Blocks -> Int]
    /\ DOMAIN ran = Blocks /\ DOMAIN failed = Blocks
    /\ \A b \in Blocks : ran[b] \subseteq Instrs(b) /\ failed[b] \subseteq ran[b]

\* The tokens of todo are as many as its entries and the exits due, those of workers
\* that look into the queue or are about to give theirs back included: nobody who has
\* a token finds the queue empty (assert(q->last > 0) of q_dequeue) and no entry is
\* left without one.
Holding == {s \in Workers : pc[s] \in {"take", "back"}}
TokensMatch == tokens + Cardinality(Holding) = Len(todo) + exitcount

\* The status, the queue and the graph of a block are in use only while its scheduler
\* waits: after the last instruction it frees them, and a worker has nothing of it.
InUse(b) == phase[b] \in {"seed", "wait"}
FlowLive ==
    /\ \A k \in DOMAIN todo : InUse(todo[k][1])
    /\ \A s \in Workers : \A e \in {fe[s], fnxt[s]} \ {None} : InUse(e[1])
    /\ \A b \in Blocks : ~ InUse(b) => done[b] = <<>>

\* An instruction runs after all that wake it have run without an exception, also those
\* a worker goes on with while the scheduler handles others.
InOrder == \A b \in Blocks : \A i \in Instrs(b) :
              Executing(<<b, i>>) => Sources(b, i) \subseteq ran[b] \ failed[b]

\* "we make sure that there are once again GDKnr_threads-1 generic workers": a worker
\* more for every block at work and for every exit that is due.
Live == {s \in Workers : flag[s] = "RUNNING" /\ pc[s] # "gone"}
Working == {b \in Blocks : phase[b] \in {"seed", "wait", "exit"}}
PoolSize == Cardinality(Live) = NrThreads - 1 + Cardinality(Working) + exitcount

\* "there will always be progress for the client, even if all other workers are doing
\* something big": a block without an endless instruction of its own returns.
Calls(b, d) == Caller[d] # None /\ Caller[d][1] = b
Ends(b) == \A d \in Blocks : d = b \/ Calls(b, d) => Endless \cap ({d} \X Instrs(d)) = {}
Progress == \A b \in Blocks : Ends(b) => (Called(b) ~> phase[b] = "returned")

\* What a caller sees of a block.
Promise == INSTANCE DagRun WITH
    Needs <- [b \in Blocks |-> [i \in Instrs(b) |-> Sources(b, i)]],
    stage <- [b \in Blocks |-> IF phase[b] \in {"idle", "join"} THEN "new"
                               ELSE IF phase[b] \in {"exit", "returned"} THEN "closed"
                               ELSE "open"]
RunsDag == Promise!Spec
===============================================================================
