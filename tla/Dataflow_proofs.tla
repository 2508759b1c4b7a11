---------------------------- MODULE Dataflow_proofs ----------------------------
(*****************************************************************************)
(* For every set of blocks and clients, every graph of instructions, every   *)
(* limit and every number of workers, in three parts:                        *)
(*                                                                           *)
(* 1. What the queue and the table of workers keep.  The tokens of the queue *)
(*    match its entries and exits, and the number of workers is what it      *)
(*    should be.  Base relates the place of a worker to its slot and its     *)
(*    instructions; one lemma for each action shows that the action keeps    *)
(*    it.  TokensMatch and PoolSize are inductive together with Base.        *)
(*                                                                           *)
(* 2. Where the instructions of a block are, and what their counts say.      *)
(*    Flow is inductive together with Base: an instruction is in one place   *)
(*    at a time, the number of edges it waits for is that of its edges from  *)
(*    what the scheduler has not handled, and tasks is the number of what it *)
(*    has.  So nothing is left anywhere when the scheduler has counted all.  *)
(*                                                                           *)
(* 3. Instructions are executed in the order of the graph, and a block is    *)
(*    run as DagRun promises to its caller.  Order is inductive together     *)
(*    with Base and Flow.  What is handed out had sources that are all over, *)
(*    and what is over went well or left its error in the flow, which keeps  *)
(*    workers from starting more.                                            *)
(*****************************************************************************)
EXTENDS Dataflow, FiniteSetTheorems, SequenceTheorems, WellFoundedInduction, TLAPS

-----------------------------------------------------------------------------
(* Queues *)

\* What Append adds to a queue.
LEMMA Appended ==
    ASSUME NEW S, NEW q \in Seq(S), NEW e \in S
    PROVE  /\ Append(q, e) \in Seq(S) /\ Len(Append(q, e)) = Len(q) + 1
           /\ Range(Append(q, e)) = Range(q) \cup {e}
           /\ IsInjective(q) /\ e \notin Range(q) => IsInjective(Append(q, e))
<1> DEFINE a == Append(q, e)
<1>1. /\ a \in Seq(S) /\ Len(a) = Len(q) + 1 /\ Len(q) \in Nat
      /\ DOMAIN q = 1 .. Len(q) /\ DOMAIN a = 1 .. Len(q) + 1
  OBVIOUS
<1>2. a[Len(q) + 1] = e /\ \A i \in 1 .. Len(q) : a[i] = q[i]
  OBVIOUS
<1> HIDE DEF a
<1>3. Range(a) = Range(q) \cup {e}
  <2>1. Range(a) \subseteq Range(q) \cup {e}
    BY <1>1, <1>2 DEF Range
  <2>2. Range(q) \cup {e} \subseteq Range(a)
    BY <1>1, <1>2 DEF Range
  <2> QED BY <2>1, <2>2
<1>4. ASSUME IsInjective(q), e \notin Range(q) PROVE IsInjective(a)
  BY <1>1, <1>2, <1>4 DEF IsInjective, Range
<1> QED BY <1>1, <1>3, <1>4 DEF a

\* What an entry put in front adds to a queue.
LEMMA Prepended ==
    ASSUME NEW S, NEW q \in Seq(S), NEW e \in S
    PROVE  /\ <<e>> \o q \in Seq(S) /\ Len(<<e>> \o q) = Len(q) + 1
           /\ Range(<<e>> \o q) = Range(q) \cup {e}
           /\ IsInjective(q) /\ e \notin Range(q) => IsInjective(<<e>> \o q)
<1> DEFINE a == <<e>> \o q
<1>1. <<e>> \in Seq(S) /\ Len(<<e>>) = 1 /\ <<e>>[1] = e
  OBVIOUS
<1>2. /\ a \in Seq(S) /\ Len(a) = Len(q) + 1 /\ Len(q) \in Nat
      /\ DOMAIN q = 1 .. Len(q) /\ DOMAIN a = 1 .. Len(q) + 1
  BY <1>1, ConcatProperties, LenProperties
<1>3. a[1] = e /\ \A i \in 2 .. Len(q) + 1 : a[i] = q[i - 1]
  BY <1>1, <1>2, ConcatProperties
<1> HIDE DEF a
<1>4. \A i \in 1 .. Len(q) : q[i] = a[i + 1]
  BY <1>2, <1>3
<1>5. Range(a) = Range(q) \cup {e}
  <2>1. Range(a) \subseteq Range(q) \cup {e}
    BY <1>2, <1>3 DEF Range
  <2>2. e \in Range(a)
    BY <1>2, <1>3 DEF Range
  <2>3. ASSUME NEW x \in Range(q) PROVE x \in Range(a)
    <3>1. PICK i \in 1 .. Len(q) : x = q[i] BY <1>2 DEF Range
    <3>2. i + 1 \in DOMAIN a /\ a[i + 1] = x BY <1>2, <1>4, <3>1
    <3> QED BY <3>2 DEF Range
  <2> QED BY <2>1, <2>2, <2>3
<1>6. ASSUME IsInjective(q), e \notin Range(q) PROVE IsInjective(a)
  <2> SUFFICES ASSUME NEW i \in DOMAIN a, NEW j \in DOMAIN a, a[i] = a[j] PROVE i = j
    BY DEF IsInjective
  <2>1. CASE i = 1 \/ j = 1
    BY <1>2, <1>3, <1>6, <2>1 DEF Range
  <2>2. CASE i # 1 /\ j # 1
    <3>1. i - 1 \in DOMAIN q /\ j - 1 \in DOMAIN q BY <1>2, <2>2
    <3>2. q[i - 1] = q[j - 1] BY <1>2, <1>3, <2>2
    <3>3. i - 1 = j - 1 BY <1>6, <3>1, <3>2 DEF IsInjective
    <3> QED BY <1>2, <3>3
  <2> QED BY <2>1, <2>2
<1> QED BY <1>2, <1>5, <1>6 DEF a

\* What is left when one entry is taken out of a queue.
LEMMA Removed ==
    ASSUME NEW S, NEW q \in Seq(S), NEW k \in DOMAIN q
    PROVE  /\ RemoveAt(q, k) \in Seq(S) /\ Len(RemoveAt(q, k)) = Len(q) - 1
           /\ q[k] \in S
           /\ IsInjective(q) => /\ IsInjective(RemoveAt(q, k))
                                /\ Range(RemoveAt(q, k)) = Range(q) \ {q[k]}
<1> DEFINE l == SubSeq(q, 1, k - 1)
           r == SubSeq(q, k + 1, Len(q))
           a == RemoveAt(q, k)
           n == Len(q)
<1>1. n \in Nat /\ DOMAIN q = 1 .. n /\ k \in 1 .. n /\ \A i \in 1 .. n : q[i] \in S
  BY LenProperties, ElementOfSeq
<1>2. l \in Seq(S) /\ Len(l) = k - 1 /\ \A i \in 1 .. k - 1 : l[i] = q[i]
  BY <1>1, SubSeqProperties
<1>3. r \in Seq(S) /\ Len(r) = n - k /\ \A i \in 1 .. n - k : r[i] = q[k + i]
  BY <1>1, SubSeqProperties
<1>4. /\ a \in Seq(S) /\ Len(a) = n - 1
      /\ \A i \in 1 .. n - 1 : a[i] = IF i < k THEN q[i] ELSE q[i + 1]
  <2>1. a = l \o r BY DEF RemoveAt
  <2>2. a \in Seq(S) /\ Len(a) = (k - 1) + (n - k)
    BY <1>2, <1>3, <2>1, ConcatProperties
  <2>3. ASSUME NEW i \in 1 .. n - 1 PROVE a[i] = IF i < k THEN q[i] ELSE q[i + 1]
    <3> HIDE DEF a, l, r
    <3>0. i \in 1 .. Len(l) + Len(r) BY <1>1, <1>2, <1>3
    <3>1. a[i] = IF i <= Len(l) THEN l[i] ELSE r[i - Len(l)]
      BY <1>2, <1>3, <2>1, <3>0, ConcatProperties
    <3>2. CASE i < k BY <1>1, <1>2, <3>1, <3>2
    <3>3. CASE ~ (i < k)
      <4>0. i - Len(l) = i - (k - 1) /\ ~ (i <= Len(l)) BY <1>1, <1>2, <3>3
      <4>1. a[i] = r[i - (k - 1)] BY <3>1, <4>0
      <4>2. i - (k - 1) \in 1 .. n - k BY <1>1, <3>3
      <4>3. r[i - (k - 1)] = q[k + (i - (k - 1))] BY <1>3, <4>2
      <4>4. k + (i - (k - 1)) = i + 1 BY <1>1
      <4> QED BY <3>3, <4>1, <4>3, <4>4
    <3> QED BY <3>2, <3>3
  <2> QED BY <1>1, <2>2, <2>3
<1>5. DOMAIN a = 1 .. n - 1
  BY <1>4, LenProperties
<1> HIDE DEF a, l, r
<1>6. ASSUME IsInjective(q)
      PROVE  IsInjective(a) /\ Range(a) = Range(q) \ {q[k]}
  <2>1. IsInjective(a)
    <3> DEFINE at(i) == IF i < k THEN i ELSE i + 1
    <3>1. \A i \in 1 .. n - 1 : at(i) \in 1 .. n /\ a[i] = q[at(i)]
      BY <1>1, <1>4
    <3>2. \A i, j \in 1 .. n - 1 : at(i) = at(j) => i = j
      BY <1>1
    <3> HIDE DEF at
    <3> QED BY <1>1, <1>5, <1>6, <3>1, <3>2 DEF IsInjective
  <2>2. Range(a) \subseteq Range(q) \ {q[k]}
    BY <1>1, <1>4, <1>5, <1>6 DEF IsInjective, Range
  <2>3. ASSUME NEW x \in Range(q) \ {q[k]} PROVE x \in Range(a)
    <3>1. PICK i \in 1 .. n : x = q[i] BY <1>1 DEF Range
    <3>2. i # k BY <3>1
    <3>3. CASE i < k
      <4>1. i \in 1 .. n - 1 /\ a[i] = q[i] BY <1>1, <1>4, <3>3
      <4> QED BY <1>5, <3>1, <4>1 DEF Range
    <3>4. CASE i > k
      <4>1. i - 1 \in 1 .. n - 1 /\ a[i - 1] = q[i] BY <1>1, <1>4, <3>4
      <4> QED BY <1>5, <3>1, <4>1 DEF Range
    <3> QED BY <1>1, <3>2, <3>3, <3>4
  <2> QED BY <2>1, <2>2, <2>3
<1> QED BY <1>1, <1>4, <1>6 DEF a

\* What is left when the last entry is taken from a queue.
LEMMA Fronted ==
    ASSUME NEW S, NEW q \in Seq(S), q # <<>>
    PROVE  /\ Front(q) \in Seq(S) /\ Len(Front(q)) = Len(q) - 1
           /\ Last(q) \in S /\ Last(q) \in Range(q)
           /\ IsInjective(q) => /\ IsInjective(Front(q))
                                /\ Range(Front(q)) = Range(q) \ {Last(q)}
<1>1. Len(q) \in Nat \ {0} /\ DOMAIN q = 1 .. Len(q) /\ Len(q) \in DOMAIN q
  BY EmptySeq, LenProperties
<1>2. SubSeq(q, 1, Len(q) - 1) \in Seq(S)
  <2>1. \A i \in 1 .. Len(q) - 1 : q[i] \in S BY <1>1, ElementOfSeq
  <2> QED BY <1>1, <2>1, SubSeqProperties
<1>3. Front(q) = RemoveAt(q, Len(q))
  <2>1. SubSeq(q, Len(q) + 1, Len(q)) = <<>>
    BY <1>1, SubSeqEmpty
  <2> QED BY <1>2, <2>1, ConcatEmptySeq DEF Front, RemoveAt
<1>4. Last(q) = q[Len(q)] BY DEF Last
<1>5. Last(q) \in S /\ Last(q) \in Range(q)
  BY <1>1, <1>4, ElementOfSeq DEF Range
<1>6. /\ RemoveAt(q, Len(q)) \in Seq(S) /\ Len(RemoveAt(q, Len(q))) = Len(q) - 1
      /\ IsInjective(q) => /\ IsInjective(RemoveAt(q, Len(q)))
                           /\ Range(RemoveAt(q, Len(q))) = Range(q) \ {q[Len(q)]}
  BY <1>1, Removed
<1> QED BY <1>3, <1>4, <1>5, <1>6

-----------------------------------------------------------------------------
(* Types, and what goes with the place of a worker *)

\* Types of the variables of queues and workers.
Types ==
    /\ todo \in Seq(Events) /\ exitcount \in Nat /\ tokens \in Nat
    /\ flag \in [Workers -> {"IDLE", "RUNNING", "JOINING", "EXITED"}]
    /\ cntxt \in [Workers -> Clients \cup {None}]
    /\ sema \in [Workers -> Nat]
    /\ pc \in [Workers -> {"off", "start", "hold", "loop", "down", "take", "back", "gone",
                          "begin", "run", "wrap", "post"}]
    /\ local \in [Workers -> Clients \cup {None}]
    /\ fe \in [Workers -> Events \cup {None}]
    /\ fnxt \in [Workers -> Events \cup {None}]
    /\ error \in [Workers -> BOOLEAN]

\* Types of those of blocks; that a count of edges is not negative comes later.
FlowTypes ==
    /\ DOMAIN state = Blocks /\ DOMAIN blocks = Blocks
    /\ \A b \in Blocks : /\ state[b] \in [Instrs(b) -> {"pending", "running", "wrapup"}]
                         /\ blocks[b] \in [Instrs(b) -> Int]
    /\ DOMAIN done = Blocks /\ DOMAIN pend = Blocks
    /\ \A b \in Blocks : done[b] \in Seq(Instrs(b)) /\ pend[b] \subseteq Instrs(b)
    /\ DOMAIN flowerror = Blocks /\ result \in [Blocks -> Int \cup {None}]
    /\ \A b \in Blocks : flowerror[b] \in Instrs(b) \cup {None}
    /\ phase \in [Blocks -> {"idle", "join", "serial", "seed", "wait", "exit", "returned"}]
    /\ slot \in [Blocks -> Workers \cup {None}]
    /\ tasks \in [Blocks -> Nat]
    /\ memorypool \in Int /\ stkworkers \in [Blocks -> Int] /\ stkmemory \in [Blocks -> Int]
    /\ DOMAIN ran = Blocks /\ DOMAIN failed = Blocks
    /\ \A b \in Blocks : ran[b] \subseteq Instrs(b) /\ failed[b] \subseteq ran[b]

\* A worker in these places has an instruction, and in the last one maybe two.
Busy == {"begin", "run", "wrap", "post"}
WorkersOK ==
    \A s \in Workers : /\ pc[s] # "off" <=> flag[s] = "RUNNING"
                       /\ fe[s] # None <=> pc[s] \in Busy
                       /\ fnxt[s] # None => pc[s] = "post"

\* A worker that is being joined is so by one block.
JoinsOK ==
    \A b \in Blocks : phase[b] = "join" =>
        /\ slot[b] \in Workers /\ flag[slot[b]] = "JOINING"
        /\ \A c \in Blocks : phase[c] = "join" /\ slot[c] = slot[b] => b = c

BlocksAt == \A b \in Blocks : phase[b] \in {"seed", "wait"} => slot[b] \in Workers

Base == Types /\ FlowTypes /\ WorkersOK /\ JoinsOK /\ BlocksAt

-----------------------------------------------------------------------------
(* Blocks, instructions and edges *)

\* None is no event, no client and no instruction.
LEMMA NoneApart == None \notin Events /\ None \notin Clients /\ \A b \in Blocks : None \notin Instrs(b)
BY BlocksOK

\* An event is a block and one of its instructions.
LEMMA EventsOK == \A e \in Events : e[1] \in Blocks /\ e[2] \in Instrs(e[1]) /\ e = <<e[1], e[2]>>
BY DEF Events

\* An instruction has finitely many edges to another one.
LEMMA EdgesNumber ==
    ASSUME NEW b \in Blocks, NEW k \in Instrs(b), NEW i
    PROVE  IsFiniteSet(Edges(b, k, i)) /\ Cardinality(Edges(b, k, i)) \in Nat
<1> DEFINE n == Len(Wakes[b][k])
           f == [p \in 1 .. n |-> <<k, p>>]
<1>1. n \in Nat /\ DOMAIN Wakes[b][k] = 1 .. n
  BY WakesOK, LenProperties
<1>2. {q \in 1 .. n : Wakes[b][k][q] = i} \in SUBSET (1 .. n)
  OBVIOUS
<1>3. IsFiniteSet(1 .. n)
  BY <1>1, FS_Interval
<1>4. IsFiniteSet({q \in 1 .. n : Wakes[b][k][q] = i})
  BY <1>2, <1>3, FS_Subset
<1> DEFINE D == {q \in 1 .. n : Wakes[b][k][q] = i}
           g == [p \in D |-> <<k, p>>]
<1>5. g \in Surjection(D, Edges(b, k, i))
  <2>1. g \in [D -> Edges(b, k, i)]
    BY <1>1 DEF Edges
  <2>2. \A e \in Edges(b, k, i) : \E p \in D : g[p] = e
    BY <1>1 DEF Edges
  <2> QED BY <2>1, <2>2 DEF Surjection
<1>6. IsFiniteSet(Edges(b, k, i))
  BY <1>4, <1>5, FS_Surjection
<1> QED BY <1>6, FS_CardinalityType

\* A wake list leads forward only.
LEMMA WakesForward ==
    ASSUME NEW b \in Blocks, NEW k \in Instrs(b)
    PROVE  Range(Wakes[b][k]) \subseteq {i \in Instrs(b) : k < i}
<1>1. Wakes[b][k] \in Seq(k + 1 .. Size[b]) /\ Size[b] \in Nat
  BY WakesOK, BlocksOK
<1>2. \A p \in DOMAIN Wakes[b][k] : Wakes[b][k][p] \in k + 1 .. Size[b]
  BY <1>1, ElementOfSeq, LenProperties
<1>3. Instrs(b) = 1 .. Size[b] /\ k \in Nat /\ k >= 1
  BY <1>1 DEF Instrs
<1> QED BY <1>1, <1>2, <1>3 DEF Range

\* The instruction a worker goes on with is eligible.
LEMMA FirstIsEligible ==
    ASSUME NEW b \in Blocks, NEW k \in Instrs(b), NEW i \in FirstEligible(b, k)
    PROVE  Eligible(b, k, i) /\ i \in Instrs(b) /\ k < i
<1> DEFINE w == Wakes[b][k]
           E == {p \in DOMAIN w : Eligible(b, k, w[p])}
<1>1. E # {} /\ i = w[CHOOSE p \in E : \A q \in E : p <= q]
  BY DEF FirstEligible
<1> DEFINE n == Len(w)
           upTo(q) == E \cap 1 .. q
           F == {upTo(q) : q \in E}
<1>2. n \in Nat /\ E \subseteq 1 .. n
  BY WakesOK, LenProperties
<1>3. PICK T \in F : \A U \in F : ~ (<<U, T>> \in StrictSubsetOrdering(1 .. n))
  <2>1. IsFiniteSet(1 .. n)
    BY <1>2, FS_Interval
  <2>2. F \subseteq FiniteSubsetsOf(1 .. n)
    <3>1. \A U \in SUBSET (1 .. n) : IsFiniteSet(U) BY <2>1, FS_Subset
    <3> QED BY <1>2, <3>1 DEF FiniteSubsetsOf
  <2>3. F # {}
    BY <1>1
  <2> HIDE DEF F
  <2> QED BY <2>2, <2>3, FS_StrictSubsetOrderingWellFounded, WFMin
<1>4. PICK p \in E : T = upTo(p)
  OBVIOUS
<1>5. \A q \in E : p <= q
  <2> SUFFICES ASSUME NEW q \in E, q < p PROVE FALSE
    BY <1>2
  <2>1. upTo(q) \subseteq upTo(p) /\ p \in upTo(p) /\ p \notin upTo(q)
    BY <1>2
  <2>2. <<upTo(q), upTo(p)>> \in StrictSubsetOrdering(1 .. n)
    BY <1>2, <2>1 DEF StrictSubsetOrdering
  <2> QED BY <1>3, <1>4, <2>2
<1>6. (CHOOSE r \in E : \A q \in E : r <= q) \in E
  BY <1>5
<1>7. Eligible(b, k, i)
  BY <1>1, <1>6
<1> QED BY <1>7, WakesForward DEF Eligible

\* Every instruction of a block makes an event.
LEMMA EventOf == \A b \in Blocks : \A i \in Instrs(b) : <<b, i>> \in Events
BY DEF Events

\* Finitely many edges lead to an instruction.
LEMMA EdgesToNumber ==
    \A b \in Blocks : \A i \in Instrs(b) : IsFiniteSet(EdgesTo(b, i)) /\ Cardinality(EdgesTo(b, i)) \in Nat
<1> SUFFICES ASSUME NEW b \in Blocks, NEW i \in Instrs(b)
             PROVE  IsFiniteSet(EdgesTo(b, i)) /\ Cardinality(EdgesTo(b, i)) \in Nat
  OBVIOUS
<1> DEFINE F == {Edges(b, k, i) : k \in Instrs(b)}
           f == [k \in Instrs(b) |-> Edges(b, k, i)]
<1>1. IsFiniteSet(Instrs(b))
  BY BlocksOK, FS_Interval DEF Instrs
<1>2. f \in Surjection(Instrs(b), F)
  BY DEF Surjection
<1>3. IsFiniteSet(F)
  BY <1>1, <1>2, FS_Surjection
<1>4. \A T \in F : IsFiniteSet(T)
  BY EdgesNumber
<1>5. IsFiniteSet(EdgesTo(b, i))
  BY <1>3, <1>4, FS_UNION DEF EdgesTo
<1> QED BY <1>5, FS_CardinalityType

-----------------------------------------------------------------------------
(* Every action keeps Base *)

\* Init establishes Base.
LEMMA BaseInit == Init => Base
<1> SUFFICES ASSUME Init PROVE Base
  OBVIOUS
<1>1. Types
  <2>1. <<>> \in Seq(Events)
    OBVIOUS
  <2> QED BY <2>1 DEF Init, Types
<1>2. FlowTypes
  <2>1. \A b \in Blocks : \A i \in Instrs(b) : Cardinality(EdgesTo(b, i)) \in Int
    BY EdgesToNumber
  <2>2. \A b \in Blocks : <<>> \in Seq(Instrs(b))
    OBVIOUS
  <2> QED BY <2>1, <2>2 DEF Init, FlowTypes
<1>3. WorkersOK
  BY DEF Init, WorkersOK, Busy
<1>4. JoinsOK /\ BlocksAt
  BY DEF Init, JoinsOK, BlocksAt
<1> QED BY <1>1, <1>2, <1>3, <1>4 DEF Base

\* Start keeps Base.
LEMMA BaseStart ==
    ASSUME Base, NEW s \in Workers, Start(s)
    PROVE Base'
<1>1. Types'
  BY NoneApart
     DEF Base, Types, Start, poolVars, slotVars, workerVars, flowVars, callVars, claimVars, histVars
<1>2. FlowTypes'
  BY NoneApart
     DEF Base, Types, FlowTypes, Start, poolVars, slotVars, workerVars, flowVars, callVars,
     claimVars, histVars
<1>3. WorkersOK'
  BY NoneApart
     DEF Base, Types, WorkersOK, Busy, Start, poolVars, slotVars, workerVars, flowVars, callVars,
     claimVars, histVars
<1>4. JoinsOK'
  BY NoneApart
     DEF Base, Types, FlowTypes, WorkersOK, JoinsOK, Start, poolVars, slotVars, workerVars,
     flowVars, callVars, claimVars, histVars
<1>5. BlocksAt'
  BY NoneApart
     DEF Base, FlowTypes, JoinsOK, BlocksAt, Start, poolVars, slotVars, workerVars, flowVars,
     callVars, claimVars, histVars
<1> QED BY <1>1, <1>2, <1>3, <1>4, <1>5 DEF Base

\* Released keeps Base.
LEMMA BaseReleased ==
    ASSUME Base, NEW s \in Workers, Released(s)
    PROVE Base'
<1>1. Types'
  BY NoneApart
     DEF Base, Types, Released, At, poolVars, slotVars, workerVars, flowVars, callVars, claimVars,
     histVars
<1>2. FlowTypes'
  BY NoneApart
     DEF Base, Types, FlowTypes, Released, At, poolVars, slotVars, workerVars, flowVars, callVars,
     claimVars, histVars
<1>3. WorkersOK'
  BY NoneApart
     DEF Base, Types, WorkersOK, Busy, Released, At, poolVars, slotVars, workerVars, flowVars,
     callVars, claimVars, histVars
<1>4. JoinsOK'
  BY NoneApart
     DEF Base, Types, FlowTypes, WorkersOK, JoinsOK, Released, At, poolVars, slotVars, workerVars,
     flowVars, callVars, claimVars, histVars
<1>5. BlocksAt'
  BY NoneApart
     DEF Base, FlowTypes, JoinsOK, BlocksAt, Released, At, poolVars, slotVars, workerVars,
     flowVars, callVars, claimVars, histVars
<1> QED BY <1>1, <1>2, <1>3, <1>4, <1>5 DEF Base

\* Loop keeps Base.
LEMMA BaseLoop ==
    ASSUME Base, NEW s \in Workers, Loop(s)
    PROVE Base'
<1>1. Types'
  BY NoneApart
     DEF Base, Types, Loop, At, poolVars, slotVars, workerVars, flowVars, callVars, claimVars,
     histVars
<1>2. FlowTypes'
  BY NoneApart
     DEF Base, Types, FlowTypes, Loop, At, poolVars, slotVars, workerVars, flowVars, callVars,
     claimVars, histVars
<1>3. WorkersOK'
  BY NoneApart
     DEF Base, Types, WorkersOK, Busy, Loop, At, poolVars, slotVars, workerVars, flowVars,
     callVars, claimVars, histVars
<1>4. JoinsOK'
  BY NoneApart
     DEF Base, Types, FlowTypes, WorkersOK, JoinsOK, Loop, At, poolVars, slotVars, workerVars,
     flowVars, callVars, claimVars, histVars
<1>5. BlocksAt'
  BY NoneApart
     DEF Base, FlowTypes, JoinsOK, BlocksAt, Loop, At, poolVars, slotVars, workerVars, flowVars,
     callVars, claimVars, histVars
<1> QED BY <1>1, <1>2, <1>3, <1>4, <1>5 DEF Base

\* Down keeps Base.
LEMMA BaseDown ==
    ASSUME Base, NEW s \in Workers, Down(s)
    PROVE Base'
<1>1. Types'
  BY NoneApart
     DEF Base, Types, Down, GoesDown, poolVars, slotVars, workerVars, flowVars, callVars,
     claimVars, histVars
<1>2. FlowTypes'
  BY NoneApart
     DEF Base, Types, FlowTypes, Down, GoesDown, poolVars, slotVars, workerVars, flowVars,
     callVars, claimVars, histVars
<1>3. WorkersOK'
  BY NoneApart
     DEF Base, Types, WorkersOK, Busy, Down, GoesDown, poolVars, slotVars, workerVars, flowVars,
     callVars, claimVars, histVars
<1>4. JoinsOK'
  BY NoneApart
     DEF Base, Types, FlowTypes, WorkersOK, JoinsOK, Down, GoesDown, poolVars, slotVars,
     workerVars, flowVars, callVars, claimVars, histVars
<1>5. BlocksAt'
  BY NoneApart
     DEF Base, FlowTypes, JoinsOK, BlocksAt, Down, GoesDown, poolVars, slotVars, workerVars,
     flowVars, callVars, claimVars, histVars
<1> QED BY <1>1, <1>2, <1>3, <1>4, <1>5 DEF Base

\* TakeOwn keeps Base.
LEMMA BaseTakeOwn ==
    ASSUME Base, NEW s \in Workers, TakeOwn(s)
    PROVE Base'
<1>1. Types'
  <2>1. PICK k \in DOMAIN todo : fe' = [fe EXCEPT ![s] = todo[k]] /\ todo' = RemoveAt(todo, k)
    BY DEF TakeOwn
  <2>2. todo[k] \in Events /\ todo' \in Seq(Events)
    BY <2>1, Removed DEF Base, Types
  <2> QED BY <2>1, <2>2 DEF Base, Types, TakeOwn, At, slotVars, workerVars
<1>2. FlowTypes'
  BY NoneApart
     DEF Base, Types, FlowTypes, TakeOwn, At, poolVars, slotVars, workerVars, flowVars, callVars,
     claimVars, histVars
<1>3. WorkersOK'
  <2>1. PICK k \in DOMAIN todo : fe' = [fe EXCEPT ![s] = todo[k]]
    BY DEF TakeOwn
  <2>2. todo[k] \in Events
    BY <2>1, Removed DEF Base, Types
  <2> QED BY <2>1, <2>2, NoneApart
             DEF Base, Types, WorkersOK, Busy, TakeOwn, At, slotVars, workerVars
<1>4. JoinsOK'
  BY NoneApart
     DEF Base, Types, FlowTypes, WorkersOK, JoinsOK, TakeOwn, At, poolVars, slotVars, workerVars,
     flowVars, callVars, claimVars, histVars
<1>5. BlocksAt'
  BY NoneApart
     DEF Base, FlowTypes, JoinsOK, BlocksAt, TakeOwn, At, poolVars, slotVars, workerVars,
     flowVars, callVars, claimVars, histVars
<1> QED BY <1>1, <1>2, <1>3, <1>4, <1>5 DEF Base

\* TakeNothing keeps Base.
LEMMA BaseTakeNothing ==
    ASSUME Base, NEW s \in Workers, TakeNothing(s)
    PROVE Base'
<1>1. Types'
  BY NoneApart
     DEF Base, Types, TakeNothing, At, poolVars, slotVars, workerVars, flowVars, callVars,
     claimVars, histVars
<1>2. FlowTypes'
  BY NoneApart
     DEF Base, Types, FlowTypes, TakeNothing, At, poolVars, slotVars, workerVars, flowVars,
     callVars, claimVars, histVars
<1>3. WorkersOK'
  BY NoneApart
     DEF Base, Types, WorkersOK, Busy, TakeNothing, At, poolVars, slotVars, workerVars, flowVars,
     callVars, claimVars, histVars
<1>4. JoinsOK'
  BY NoneApart
     DEF Base, Types, FlowTypes, WorkersOK, JoinsOK, TakeNothing, At, poolVars, slotVars,
     workerVars, flowVars, callVars, claimVars, histVars
<1>5. BlocksAt'
  BY NoneApart
     DEF Base, FlowTypes, JoinsOK, BlocksAt, TakeNothing, At, poolVars, slotVars, workerVars,
     flowVars, callVars, claimVars, histVars
<1> QED BY <1>1, <1>2, <1>3, <1>4, <1>5 DEF Base

\* GiveBack keeps Base.
LEMMA BaseGiveBack ==
    ASSUME Base, NEW s \in Workers, GiveBack(s)
    PROVE Base'
<1>1. Types'
  BY NoneApart
     DEF Base, Types, GiveBack, At, poolVars, slotVars, workerVars, flowVars, callVars, claimVars,
     histVars
<1>2. FlowTypes'
  BY NoneApart
     DEF Base, Types, FlowTypes, GiveBack, At, poolVars, slotVars, workerVars, flowVars, callVars,
     claimVars, histVars
<1>3. WorkersOK'
  BY NoneApart
     DEF Base, Types, WorkersOK, Busy, GiveBack, At, poolVars, slotVars, workerVars, flowVars,
     callVars, claimVars, histVars
<1>4. JoinsOK'
  BY NoneApart
     DEF Base, Types, FlowTypes, WorkersOK, JoinsOK, GiveBack, At, poolVars, slotVars, workerVars,
     flowVars, callVars, claimVars, histVars
<1>5. BlocksAt'
  BY NoneApart
     DEF Base, FlowTypes, JoinsOK, BlocksAt, GiveBack, At, poolVars, slotVars, workerVars,
     flowVars, callVars, claimVars, histVars
<1> QED BY <1>1, <1>2, <1>3, <1>4, <1>5 DEF Base

\* TakeLast keeps Base.
LEMMA BaseTakeLast ==
    ASSUME Base, NEW s \in Workers, TakeLast(s)
    PROVE Base'
<1>1. Types'
  <2>1. Last(todo) \in Events /\ todo' \in Seq(Events)
    BY Fronted DEF Base, Types, TakeLast
  <2> QED BY <2>1 DEF Base, Types, TakeLast, At, slotVars, workerVars
<1>2. FlowTypes'
  BY NoneApart
     DEF Base, Types, FlowTypes, TakeLast, At, poolVars, slotVars, workerVars, flowVars, callVars,
     claimVars, histVars
<1>3. WorkersOK'
  <2>1. Last(todo) \in Events
    BY Fronted DEF Base, Types, TakeLast
  <2> QED BY <2>1, NoneApart DEF Base, Types, WorkersOK, Busy, TakeLast, At, slotVars, workerVars
<1>4. JoinsOK'
  BY NoneApart
     DEF Base, Types, FlowTypes, WorkersOK, JoinsOK, TakeLast, At, poolVars, slotVars, workerVars,
     flowVars, callVars, claimVars, histVars
<1>5. BlocksAt'
  BY NoneApart
     DEF Base, FlowTypes, JoinsOK, BlocksAt, TakeLast, At, poolVars, slotVars, workerVars,
     flowVars, callVars, claimVars, histVars
<1> QED BY <1>1, <1>2, <1>3, <1>4, <1>5 DEF Base

\* TakeExit keeps Base.
LEMMA BaseTakeExit ==
    ASSUME Base, NEW s \in Workers, TakeExit(s)
    PROVE Base'
<1>1. Types'
  BY NoneApart
     DEF Base, Types, TakeExit, At, poolVars, slotVars, workerVars, flowVars, callVars, claimVars,
     histVars
<1>2. FlowTypes'
  BY NoneApart
     DEF Base, Types, FlowTypes, TakeExit, At, poolVars, slotVars, workerVars, flowVars, callVars,
     claimVars, histVars
<1>3. WorkersOK'
  BY NoneApart
     DEF Base, Types, WorkersOK, Busy, TakeExit, At, poolVars, slotVars, workerVars, flowVars,
     callVars, claimVars, histVars
<1>4. JoinsOK'
  BY NoneApart
     DEF Base, Types, FlowTypes, WorkersOK, JoinsOK, TakeExit, At, poolVars, slotVars, workerVars,
     flowVars, callVars, claimVars, histVars
<1>5. BlocksAt'
  BY NoneApart
     DEF Base, FlowTypes, JoinsOK, BlocksAt, TakeExit, At, poolVars, slotVars, workerVars,
     flowVars, callVars, claimVars, histVars
<1> QED BY <1>1, <1>2, <1>3, <1>4, <1>5 DEF Base

\* Exit keeps Base.
LEMMA BaseExit ==
    ASSUME Base, NEW s \in Workers, Exit(s)
    PROVE Base'
<1>1. Types'
  BY NoneApart
     DEF Base, Types, Exit, At, poolVars, slotVars, workerVars, flowVars, callVars, claimVars,
     histVars
<1>2. FlowTypes'
  BY NoneApart
     DEF Base, Types, FlowTypes, Exit, At, poolVars, slotVars, workerVars, flowVars, callVars,
     claimVars, histVars
<1>3. WorkersOK'
  BY NoneApart
     DEF Base, Types, WorkersOK, Busy, Exit, At, poolVars, slotVars, workerVars, flowVars,
     callVars, claimVars, histVars
<1>4. JoinsOK'
  <2>1. flag[s] = "RUNNING" /\ flag' = [flag EXCEPT ![s] = "EXITED"] /\ UNCHANGED <<phase, slot>>
    BY DEF Base, WorkersOK, Exit, At, callVars
  <2> QED BY <2>1 DEF Base, Types, JoinsOK
<1>5. BlocksAt'
  BY NoneApart
     DEF Base, FlowTypes, JoinsOK, BlocksAt, Exit, At, poolVars, slotVars, workerVars, flowVars,
     callVars, claimVars, histVars
<1> QED BY <1>1, <1>2, <1>3, <1>4, <1>5 DEF Base

\* Skip keeps Base.
LEMMA BaseSkip ==
    ASSUME Base, NEW s \in Workers, Skip(s)
    PROVE Base'
<1>1. Types'
  BY NoneApart
     DEF Base, Types, Skip, poolVars, slotVars, workerVars, flowVars, callVars, claimVars, histVars
<1>2. FlowTypes'
  <2>1. fe[s] \in Events
    BY NoneApart DEF Base, Types, WorkersOK, Busy, Skip, At
  <2> DEFINE b == fe[s][1]
             k == fe[s][2]
  <2>2. b \in Blocks /\ k \in Instrs(b)
    BY <2>1, EventsOK
  <2>3. Append(done[b], k) \in Seq(Instrs(b))
    BY <2>2, Appended DEF Base, FlowTypes
  <2> HIDE DEF b, k
  <2>4. done' = [done EXCEPT ![b] = Append(done[b], k)]
    BY DEF Skip, b, k
  <2> QED BY <2>2, <2>3, <2>4 DEF Base, FlowTypes, Skip, callVars, claimVars, histVars
<1>3. WorkersOK'
  BY NoneApart
     DEF Base, Types, WorkersOK, Busy, Skip, poolVars, slotVars, workerVars, flowVars, callVars,
     claimVars, histVars
<1>4. JoinsOK'
  BY NoneApart
     DEF Base, Types, FlowTypes, WorkersOK, JoinsOK, Skip, poolVars, slotVars, workerVars,
     flowVars, callVars, claimVars, histVars
<1>5. BlocksAt'
  BY NoneApart
     DEF Base, FlowTypes, JoinsOK, BlocksAt, Skip, poolVars, slotVars, workerVars, flowVars,
     callVars, claimVars, histVars
<1> QED BY <1>1, <1>2, <1>3, <1>4, <1>5 DEF Base

\* Admit keeps Base.
LEMMA BaseAdmit ==
    ASSUME Base, NEW s \in Workers, Admit(s)
    PROVE Base'
<1>1. Types'
  BY NoneApart
     DEF Base, Types, Admit, At, MALadmission_claim, Pool, poolVars, slotVars, workerVars,
     flowVars, callVars, claimVars, histVars
<1>2. FlowTypes'
  <2>1. fe[s] \in Events
    BY NoneApart DEF Base, Types, WorkersOK, Busy, Admit, At
  <2>2. fe[s][1] \in Blocks /\ Claim[fe[s]] \in Nat /\ Charge(fe[s]) \in Nat
    BY <2>1, EventsOK, LimitsOK DEF Charge
  <2> DEFINE b == fe[s][1]
             c == Claim[fe[s]]
             h == Charge(fe[s])
  <2>3. \/ UNCHANGED claimVars
        \/ /\ memorypool' = Pool - c
           /\ stkworkers' = [stkworkers EXCEPT ![b] = @ + 1]
           /\ stkmemory' = [stkmemory EXCEPT ![b] = @ + h]
    BY DEF Admit, MALadmission_claim
  <2>4. Pool \in Int
    BY LimitsOK DEF Base, FlowTypes, Pool
  <2>5. b \in Blocks /\ c \in Nat /\ h \in Nat
    BY <2>2
  <2> HIDE DEF b, c, h
  <2>6. memorypool' \in Int /\ stkworkers' \in [Blocks -> Int] /\ stkmemory' \in [Blocks -> Int]
    BY <2>3, <2>4, <2>5 DEF Base, FlowTypes, claimVars
  <2> QED BY <2>6 DEF Base, FlowTypes, Admit, flowVars, callVars, histVars
<1>3. WorkersOK'
  BY NoneApart
     DEF Base, Types, WorkersOK, Busy, Admit, At, MALadmission_claim, Pool, poolVars, slotVars,
     workerVars, flowVars, callVars, claimVars, histVars
<1>4. JoinsOK'
  BY NoneApart
     DEF Base, Types, FlowTypes, WorkersOK, JoinsOK, Admit, At, MALadmission_claim, Pool,
     poolVars, slotVars, workerVars, flowVars, callVars, claimVars, histVars
<1>5. BlocksAt'
  BY NoneApart
     DEF Base, FlowTypes, JoinsOK, BlocksAt, Admit, At, MALadmission_claim, Pool, poolVars,
     slotVars, workerVars, flowVars, callVars, claimVars, histVars
<1> QED BY <1>1, <1>2, <1>3, <1>4, <1>5 DEF Base

\* Refuse keeps Base.
LEMMA BaseRefuse ==
    ASSUME Base, NEW s \in Workers, Refuse(s)
    PROVE Base'
<1>1. Types'
  <2>1. fe[s] \in Events
    BY NoneApart DEF Base, Types, WorkersOK, Busy, Refuse, At
  <2>2. todo' \in Seq(Events) /\ tokens' \in Nat /\ exitcount' \in Nat
    BY <2>1, Prepended DEF Base, Types, Refuse, Requeue
  <2> QED BY <2>2 DEF Base, Types, Refuse, At, slotVars, workerVars
<1>2. FlowTypes'
  <2>1. memorypool' \in Int /\ stkworkers' \in [Blocks -> Int] /\ stkmemory' \in [Blocks -> Int]
    BY LimitsOK DEF Base, FlowTypes, Refuse, MALadmission_refuse, Pool
  <2> QED BY <2>1 DEF Base, FlowTypes, Refuse, flowVars, callVars, histVars
<1>3. WorkersOK'
  BY NoneApart
     DEF Base, Types, WorkersOK, Busy, Refuse, At, Requeue, MALadmission_refuse, Pool, poolVars,
     slotVars, workerVars, flowVars, callVars, claimVars, histVars
<1>4. JoinsOK'
  BY NoneApart
     DEF Base, Types, FlowTypes, WorkersOK, JoinsOK, Refuse, At, Requeue, MALadmission_refuse,
     Pool, poolVars, slotVars, workerVars, flowVars, callVars, claimVars, histVars
<1>5. BlocksAt'
  BY NoneApart
     DEF Base, FlowTypes, JoinsOK, BlocksAt, Refuse, At, Requeue, MALadmission_refuse, Pool,
     poolVars, slotVars, workerVars, flowVars, callVars, claimVars, histVars
<1> QED BY <1>1, <1>2, <1>3, <1>4, <1>5 DEF Base

\* Run keeps Base.
LEMMA BaseRun ==
    ASSUME Base, NEW s \in Workers, Run(s)
    PROVE Base'
<1>1. Types'
  <2>1. \E raises \in BOOLEAN : error' = [error EXCEPT ![s] = raises]
    BY DEF Run, Raises
  <2> QED BY <2>1 DEF Base, Types, Run, At, poolVars, slotVars, workerVars
<1>2. FlowTypes'
  <2>1. fe[s] \in Events
    BY NoneApart DEF Base, Types, WorkersOK, Busy, Run, At
  <2> DEFINE b == fe[s][1]
             k == fe[s][2]
  <2>2. b \in Blocks /\ k \in Instrs(b) /\ Claim[fe[s]] \in Nat /\ Charge(fe[s]) \in Nat
    BY <2>1, EventsOK, LimitsOK DEF Charge
  <2> DEFINE c == Claim[fe[s]]
             h == Charge(fe[s])
  <2>3. \/ UNCHANGED claimVars
        \/ /\ memorypool' \in {Threshold, memorypool + c}
           /\ stkworkers' = [stkworkers EXCEPT ![b] = @ - 1]
           /\ stkmemory' = [stkmemory EXCEPT ![b] = @ - h]
    BY DEF Run, MALadmission_release
  <2>4. /\ ran' = [ran EXCEPT ![b] = @ \cup {k}]
        /\ failed' = failed \/ failed' = [failed EXCEPT ![b] = @ \cup {k}]
    BY DEF Run
  <2>9. c \in Nat /\ h \in Nat
    BY <2>2
  <2> HIDE DEF b, k, c, h
  <2>6. memorypool' \in Int /\ stkworkers' \in [Blocks -> Int] /\ stkmemory' \in [Blocks -> Int]
    BY SMTT(30), <2>2, <2>3, <2>9, LimitsOK DEF Base, FlowTypes, claimVars
  <2>5. /\ DOMAIN ran' = Blocks /\ DOMAIN failed' = Blocks
        /\ \A d \in Blocks : ran'[d] \subseteq Instrs(d) /\ failed'[d] \subseteq ran'[d]
    BY <2>2, <2>4 DEF Base, FlowTypes
  <2> QED BY <2>6, <2>5 DEF Base, FlowTypes, Run, flowVars, callVars
<1>3. WorkersOK'
  BY NoneApart
     DEF Base, Types, WorkersOK, Busy, Run, At, MALadmission_release, poolVars, slotVars,
     workerVars, flowVars, callVars, claimVars, histVars
<1>4. JoinsOK'
  BY NoneApart
     DEF Base, Types, FlowTypes, WorkersOK, JoinsOK, Run, At, MALadmission_release, poolVars,
     slotVars, workerVars, flowVars, callVars, claimVars, histVars
<1>5. BlocksAt'
  BY NoneApart
     DEF Base, FlowTypes, JoinsOK, BlocksAt, Run, At, MALadmission_release, poolVars, slotVars,
     workerVars, flowVars, callVars, claimVars, histVars
<1> QED BY <1>1, <1>2, <1>3, <1>4, <1>5 DEF Base

\* WrapUp keeps Base.
LEMMA BaseWrapUp ==
    ASSUME Base, NEW s \in Workers, WrapUp(s)
    PROVE Base'
<1>1. Types'
  <2>1. fe[s] \in Events
    BY NoneApart DEF Base, Types, WorkersOK, Busy, WrapUp, At
  <2> DEFINE b == fe[s][1]
             k == fe[s][2]
  <2>2. b \in Blocks /\ k \in Instrs(b)
    BY <2>1, EventsOK
  <2>3. fnxt' = fnxt \/ \E i \in FirstEligible(b, k) : fnxt' = [fnxt EXCEPT ![s] = <<b, i>>]
    BY DEF WrapUp
  <2>4. \A i \in FirstEligible(b, k) : <<b, i>> \in Events
    BY <2>2, FirstIsEligible, EventOf
  <2> HIDE DEF b, k
  <2>5. fnxt' \in [Workers -> Events \cup {None}]
    BY ZenonT(40), <2>3, <2>4 DEF Base, Types
  <2> QED BY <2>5 DEF Base, Types, WrapUp, At, poolVars, slotVars
<1>2. FlowTypes'
  <2>1. fe[s] \in Events
    BY NoneApart DEF Base, Types, WorkersOK, Busy, WrapUp, At
  <2> DEFINE b == fe[s][1]
             k == fe[s][2]
  <2>2. b \in Blocks /\ k \in Instrs(b)
    BY <2>1, EventsOK
  <2>3. /\ \/ state' = [state EXCEPT ![b][k] = "wrapup"] /\ blocks' = blocks
           \/ \E i \in FirstEligible(b, k) :
                 /\ state' = [state EXCEPT ![b] = [@ EXCEPT ![k] = "wrapup", ![i] = "running"]]
                 /\ blocks' = [blocks EXCEPT ![b][i] = 0]
        /\ flowerror' = flowerror \/ flowerror' = [flowerror EXCEPT ![b] = k]
    BY DEF WrapUp
  <2>4. \A i \in FirstEligible(b, k) : i \in Instrs(b)
    BY <2>2, FirstIsEligible
  <2> HIDE DEF b, k
  <2>5. /\ DOMAIN state' = Blocks /\ DOMAIN blocks' = Blocks
        /\ \A d \in Blocks : /\ state'[d] \in [Instrs(d) -> {"pending", "running", "wrapup"}]
                             /\ blocks'[d] \in [Instrs(d) -> Int]
    <3>1. CASE state' = [state EXCEPT ![b][k] = "wrapup"] /\ blocks' = blocks
      BY <2>2, <3>1 DEF Base, FlowTypes
    <3>2. ASSUME NEW i \in FirstEligible(b, k),
                 state' = [state EXCEPT ![b] = [@ EXCEPT ![k] = "wrapup", ![i] = "running"]],
                 blocks' = [blocks EXCEPT ![b][i] = 0]
          PROVE  /\ DOMAIN state' = Blocks /\ DOMAIN blocks' = Blocks
                 /\ \A d \in Blocks : /\ state'[d] \in [Instrs(d) -> {"pending", "running", "wrapup"}]
                                      /\ blocks'[d] \in [Instrs(d) -> Int]
      <4>1. i \in Instrs(b)
        BY <2>4
      <4>2. state'[b] = [state[b] EXCEPT ![k] = "wrapup", ![i] = "running"] /\ blocks'[b] = [blocks[b] EXCEPT ![i] = 0]
        BY <2>2, <3>2 DEF Base, FlowTypes
      <4>4. blocks[b] \in [Instrs(b) -> Int] /\ state[b] \in [Instrs(b) -> {"pending", "running", "wrapup"}]
        BY <2>2 DEF Base, FlowTypes
      <4>3. state'[b] \in [Instrs(b) -> {"pending", "running", "wrapup"}]
        BY <2>2, <4>1, <4>2, <4>4
      <4>5. blocks'[b] \in [Instrs(b) -> Int]
        BY <4>1, <4>2, <4>4
      <4> QED BY <2>2, <3>2, <4>3, <4>5 DEF Base, FlowTypes
    <3> QED BY <2>3, <3>1, <3>2
  <2>6. DOMAIN flowerror' = Blocks /\ \A d \in Blocks : flowerror'[d] \in Instrs(d) \cup {None}
    BY <2>2, <2>3 DEF Base, FlowTypes
  <2> QED BY <2>5, <2>6 DEF Base, FlowTypes, WrapUp, callVars, claimVars, histVars
<1>3. WorkersOK'
  <2>1. fe[s] \in Events
    BY NoneApart DEF Base, Types, WorkersOK, Busy, WrapUp, At
  <2> DEFINE b == fe[s][1]
             k == fe[s][2]
  <2>2. fnxt' = fnxt \/ \E e : fnxt' = [fnxt EXCEPT ![s] = e]
    BY DEF WrapUp
  <2> QED BY <2>2 DEF Base, Types, WorkersOK, Busy, WrapUp, At, slotVars
<1>4. JoinsOK'
  BY NoneApart
     DEF Base, Types, FlowTypes, WorkersOK, JoinsOK, WrapUp, At, poolVars, slotVars, workerVars,
     flowVars, callVars, claimVars, histVars
<1>5. BlocksAt'
  BY NoneApart
     DEF Base, FlowTypes, JoinsOK, BlocksAt, WrapUp, At, poolVars, slotVars, workerVars, flowVars,
     callVars, claimVars, histVars
<1> QED BY <1>1, <1>2, <1>3, <1>4, <1>5 DEF Base

\* Post keeps Base.
LEMMA BasePost ==
    ASSUME Base, NEW s \in Workers, Post(s)
    PROVE Base'
<1>1. Types'
  BY NoneApart
     DEF Base, Types, Post, poolVars, slotVars, workerVars, flowVars, callVars, claimVars, histVars
<1>2. FlowTypes'
  <2>1. fe[s] \in Events
    BY NoneApart DEF Base, Types, WorkersOK, Busy, Post, At
  <2> DEFINE b == fe[s][1]
             k == fe[s][2]
  <2>2. b \in Blocks /\ k \in Instrs(b)
    BY <2>1, EventsOK
  <2>3. Append(done[b], k) \in Seq(Instrs(b))
    BY <2>2, Appended DEF Base, FlowTypes
  <2> HIDE DEF b, k
  <2>4. done' = [done EXCEPT ![b] = Append(done[b], k)]
    BY DEF Post, b, k
  <2> QED BY <2>2, <2>3, <2>4 DEF Base, FlowTypes, Post, callVars, claimVars, histVars
<1>3. WorkersOK'
  BY NoneApart
     DEF Base, Types, WorkersOK, Busy, Post, poolVars, slotVars, workerVars, flowVars, callVars,
     claimVars, histVars
<1>4. JoinsOK'
  BY NoneApart
     DEF Base, Types, FlowTypes, WorkersOK, JoinsOK, Post, poolVars, slotVars, workerVars,
     flowVars, callVars, claimVars, histVars
<1>5. BlocksAt'
  BY NoneApart
     DEF Base, FlowTypes, JoinsOK, BlocksAt, Post, poolVars, slotVars, workerVars, flowVars,
     callVars, claimVars, histVars
<1> QED BY <1>1, <1>2, <1>3, <1>4, <1>5 DEF Base

\* Join keeps Base.
LEMMA BaseJoin ==
    ASSUME Base, NEW b \in Blocks, Join(b)
    PROVE Base'
<1>1. Types'
  BY NoneApart
     DEF Base, Types, Join, Go, poolVars, slotVars, workerVars, flowVars, callVars, claimVars,
     histVars
<1>2. FlowTypes'
  BY NoneApart
     DEF Base, Types, FlowTypes, Join, Go, poolVars, slotVars, workerVars, flowVars, callVars,
     claimVars, histVars
<1>3. WorkersOK'
  BY NoneApart
     DEF Base, Types, WorkersOK, Busy, Join, Go, poolVars, slotVars, workerVars, flowVars,
     callVars, claimVars, histVars
<1>4. JoinsOK'
  BY NoneApart
     DEF Base, Types, FlowTypes, WorkersOK, JoinsOK, Join, Go, poolVars, slotVars, workerVars,
     flowVars, callVars, claimVars, histVars
<1>5. BlocksAt'
  BY NoneApart
     DEF Base, FlowTypes, JoinsOK, BlocksAt, Join, Go, poolVars, slotVars, workerVars, flowVars,
     callVars, claimVars, histVars
<1> QED BY <1>1, <1>2, <1>3, <1>4, <1>5 DEF Base

\* Joined keeps Base.
LEMMA BaseJoined ==
    ASSUME Base, NEW b \in Blocks, Joined(b)
    PROVE Base'
<1>1. Types'
  BY NoneApart
     DEF Base, Types, Joined, Go, poolVars, slotVars, workerVars, flowVars, callVars, claimVars,
     histVars
<1>2. FlowTypes'
  BY NoneApart
     DEF Base, Types, FlowTypes, Joined, Go, poolVars, slotVars, workerVars, flowVars, callVars,
     claimVars, histVars
<1>3. WorkersOK'
  <2>1. slot[b] \in Workers /\ flag[slot[b]] = "JOINING" /\ flag' = [flag EXCEPT ![slot[b]] = "IDLE"]
    BY DEF Base, JoinsOK, Joined, Go
  <2> QED BY <2>1 DEF Base, Types, WorkersOK, Busy, Joined, workerVars
<1>4. JoinsOK'
  BY NoneApart
     DEF Base, Types, FlowTypes, WorkersOK, JoinsOK, Joined, Go, poolVars, slotVars, workerVars,
     flowVars, callVars, claimVars, histVars
<1>5. BlocksAt'
  BY NoneApart
     DEF Base, FlowTypes, JoinsOK, BlocksAt, Joined, Go, poolVars, slotVars, workerVars, flowVars,
     callVars, claimVars, histVars
<1> QED BY <1>1, <1>2, <1>3, <1>4, <1>5 DEF Base

\* Pick keeps Base.
LEMMA BasePick ==
    ASSUME Base, NEW b \in Blocks, Pick(b)
    PROVE Base'
<1>1. Types'
  <2>1. PICK w \in Workers : /\ flag' = [flag EXCEPT ![w] = "RUNNING"]
                             /\ \E c \in Specificity(b) : cntxt' = [cntxt EXCEPT ![w] = c]
                             /\ pc' = [pc EXCEPT ![w] = "start"]
    BY DEF Pick
  <2>2. Specificity(b) \subseteq Clients \cup {None}
    BY BlocksOK DEF Base, Types, Specificity
  <2> QED BY <2>1, <2>2 DEF Base, Types, Pick, poolVars
<1>2. FlowTypes'
  <2>1. PICK w \in Workers : slot' = [slot EXCEPT ![b] = w]
    BY DEF Pick
  <2>2. Ready(b) \subseteq Instrs(b)
    BY DEF Ready
  <2> QED BY <2>1, <2>2 DEF Base, FlowTypes, Pick, Go, flowVars, claimVars, histVars
<1>3. WorkersOK'
  BY NoneApart
     DEF Base, Types, WorkersOK, Busy, Pick, Go, poolVars, slotVars, workerVars, flowVars,
     callVars, claimVars, histVars
<1>4. JoinsOK'
  BY NoneApart
     DEF Base, Types, FlowTypes, WorkersOK, JoinsOK, Pick, Go, poolVars, slotVars, workerVars,
     flowVars, callVars, claimVars, histVars
<1>5. BlocksAt'
  BY NoneApart
     DEF Base, FlowTypes, JoinsOK, BlocksAt, Pick, Go, poolVars, slotVars, workerVars, flowVars,
     callVars, claimVars, histVars
<1> QED BY <1>1, <1>2, <1>3, <1>4, <1>5 DEF Base

\* RunSerially keeps Base.
LEMMA BaseRunSerially ==
    ASSUME Base, NEW b \in Blocks, RunSerially(b)
    PROVE Base'
<1>1. Types'
  BY NoneApart
     DEF Base, Types, RunSerially, Go, poolVars, slotVars, workerVars, flowVars, callVars,
     claimVars, histVars
<1>2. FlowTypes'
  BY NoneApart
     DEF Base, Types, FlowTypes, RunSerially, Go, poolVars, slotVars, workerVars, flowVars,
     callVars, claimVars, histVars
<1>3. WorkersOK'
  BY NoneApart
     DEF Base, Types, WorkersOK, Busy, RunSerially, Go, poolVars, slotVars, workerVars, flowVars,
     callVars, claimVars, histVars
<1>4. JoinsOK'
  BY NoneApart
     DEF Base, Types, FlowTypes, WorkersOK, JoinsOK, RunSerially, Go, poolVars, slotVars,
     workerVars, flowVars, callVars, claimVars, histVars
<1>5. BlocksAt'
  BY NoneApart
     DEF Base, FlowTypes, JoinsOK, BlocksAt, RunSerially, Go, poolVars, slotVars, workerVars,
     flowVars, callVars, claimVars, histVars
<1> QED BY <1>1, <1>2, <1>3, <1>4, <1>5 DEF Base

\* SerialStep keeps Base.
LEMMA BaseSerialStep ==
    ASSUME Base, NEW b \in Blocks, SerialStep(b)
    PROVE Base'
<1>1. Types'
  BY NoneApart
     DEF Base, Types, SerialStep, poolVars, slotVars, workerVars, flowVars, callVars, claimVars,
     histVars
<1>2. FlowTypes'
  <2> DEFINE i == tasks[b] + 1
  <2>1. i \in Instrs(b)
    BY BlocksOK DEF Base, FlowTypes, SerialStep, Instrs
  <2>2. /\ ran' = [ran EXCEPT ![b] = @ \cup {i}] /\ tasks' = [tasks EXCEPT ![b] = i]
        /\ failed' = failed \/ failed' = [failed EXCEPT ![b] = {i}]
    BY DEF SerialStep
  <2> HIDE DEF i
  <2>3. /\ DOMAIN ran' = Blocks /\ DOMAIN failed' = Blocks
        /\ \A d \in Blocks : ran'[d] \subseteq Instrs(d) /\ failed'[d] \subseteq ran'[d]
    BY <2>1, <2>2 DEF Base, FlowTypes
  <2>4. tasks' \in [Blocks -> Nat]
    BY <2>1, <2>2, BlocksOK DEF Base, FlowTypes, Instrs
  <2> QED BY <2>3, <2>4 DEF Base, FlowTypes, SerialStep, flowVars, claimVars
<1>3. WorkersOK'
  BY NoneApart
     DEF Base, Types, WorkersOK, Busy, SerialStep, poolVars, slotVars, workerVars, flowVars,
     callVars, claimVars, histVars
<1>4. JoinsOK'
  BY NoneApart
     DEF Base, Types, FlowTypes, WorkersOK, JoinsOK, SerialStep, poolVars, slotVars, workerVars,
     flowVars, callVars, claimVars, histVars
<1>5. BlocksAt'
  BY NoneApart
     DEF Base, FlowTypes, JoinsOK, BlocksAt, SerialStep, poolVars, slotVars, workerVars, flowVars,
     callVars, claimVars, histVars
<1> QED BY <1>1, <1>2, <1>3, <1>4, <1>5 DEF Base

\* SerialReturn keeps Base.
LEMMA BaseSerialReturn ==
    ASSUME Base, NEW b \in Blocks, SerialReturn(b)
    PROVE Base'
<1>1. Types'
  BY NoneApart
     DEF Base, Types, SerialReturn, Go, poolVars, slotVars, workerVars, flowVars, callVars,
     claimVars, histVars
<1>2. FlowTypes'
  BY NoneApart
     DEF Base, Types, FlowTypes, SerialReturn, Go, poolVars, slotVars, workerVars, flowVars,
     callVars, claimVars, histVars
<1>3. WorkersOK'
  BY NoneApart
     DEF Base, Types, WorkersOK, Busy, SerialReturn, Go, poolVars, slotVars, workerVars, flowVars,
     callVars, claimVars, histVars
<1>4. JoinsOK'
  BY NoneApart
     DEF Base, Types, FlowTypes, WorkersOK, JoinsOK, SerialReturn, Go, poolVars, slotVars,
     workerVars, flowVars, callVars, claimVars, histVars
<1>5. BlocksAt'
  BY NoneApart
     DEF Base, FlowTypes, JoinsOK, BlocksAt, SerialReturn, Go, poolVars, slotVars, workerVars,
     flowVars, callVars, claimVars, histVars
<1> QED BY <1>1, <1>2, <1>3, <1>4, <1>5 DEF Base

\* Enter keeps Base.
LEMMA BaseEnter ==
    ASSUME Base, NEW b \in Blocks, Enter(b)
    PROVE Base'
<1>1. Types'
  <2>1. PICK i \in pend[b] : Enqueue(<<b, i>>)
    BY DEF Enter
  <2>2. todo' \in Seq(Events) /\ tokens' \in Nat /\ exitcount' \in Nat
    BY <2>1, EventOf, Appended DEF Base, Types, FlowTypes, Enqueue
  <2> QED BY <2>2 DEF Base, Types, Enter, slotVars, workerVars
<1>2. FlowTypes'
  <2>1. PICK i \in pend[b] : /\ state' = [state EXCEPT ![b][i] = "running"]
                             /\ pend' = [pend EXCEPT ![b] = @ \ {i}]
    BY DEF Enter
  <2>2. i \in Instrs(b)
    BY DEF Base, FlowTypes
  <2> QED BY <2>1, <2>2 DEF Base, FlowTypes, Enter, claimVars, histVars
<1>3. WorkersOK'
  BY NoneApart
     DEF Base, Types, WorkersOK, Busy, Enter, Enqueue, poolVars, slotVars, workerVars, flowVars,
     callVars, claimVars, histVars
<1>4. JoinsOK'
  BY NoneApart
     DEF Base, Types, FlowTypes, WorkersOK, JoinsOK, Enter, Enqueue, poolVars, slotVars,
     workerVars, flowVars, callVars, claimVars, histVars
<1>5. BlocksAt'
  BY NoneApart
     DEF Base, FlowTypes, JoinsOK, BlocksAt, Enter, Enqueue, poolVars, slotVars, workerVars,
     flowVars, callVars, claimVars, histVars
<1> QED BY <1>1, <1>2, <1>3, <1>4, <1>5 DEF Base

\* Release keeps Base.
LEMMA BaseRelease ==
    ASSUME Base, NEW b \in Blocks, Release(b)
    PROVE Base'
<1>1. Types'
  <2>1. slot[b] \in Workers
    BY DEF Base, BlocksAt, Release, Go
  <2> QED BY <2>1 DEF Base, Types, Release, poolVars, workerVars
<1>2. FlowTypes'
  BY NoneApart
     DEF Base, Types, FlowTypes, Release, Go, poolVars, slotVars, workerVars, flowVars, callVars,
     claimVars, histVars
<1>3. WorkersOK'
  BY NoneApart
     DEF Base, Types, WorkersOK, Busy, Release, Go, poolVars, slotVars, workerVars, flowVars,
     callVars, claimVars, histVars
<1>4. JoinsOK'
  BY NoneApart
     DEF Base, Types, FlowTypes, WorkersOK, JoinsOK, Release, Go, poolVars, slotVars, workerVars,
     flowVars, callVars, claimVars, histVars
<1>5. BlocksAt'
  BY NoneApart
     DEF Base, FlowTypes, JoinsOK, BlocksAt, Release, Go, poolVars, slotVars, workerVars,
     flowVars, callVars, claimVars, histVars
<1> QED BY <1>1, <1>2, <1>3, <1>4, <1>5 DEF Base

\* Handle keeps Base.
LEMMA BaseHandle ==
    ASSUME Base, NEW b \in Blocks, Handle(b)
    PROVE Base'
<1>1. Types'
  BY NoneApart
     DEF Base, Types, Handle, poolVars, slotVars, workerVars, flowVars, callVars, claimVars,
     histVars
<1>2. FlowTypes'
  <2> DEFINE k == Last(done[b])
             pd == {i \in Instrs(b) : Freed(b, k, i)}
             bl == [i \in Instrs(b) |-> IF Freed(b, k, i) THEN 0
                                        ELSE IF Lowers(b, k, i) THEN blocks[b][i] - Cardinality(Edges(b, k, i))
                                        ELSE blocks[b][i]]
  <2>1. k \in Instrs(b) /\ Front(done[b]) \in Seq(Instrs(b))
    BY Fronted DEF Base, FlowTypes, Handle
  <2>2. bl \in [Instrs(b) -> Int] /\ pd \subseteq Instrs(b)
    BY <2>1, EdgesNumber DEF Base, FlowTypes
  <2>3. /\ done' = [done EXCEPT ![b] = Front(@)] /\ tasks' = [tasks EXCEPT ![b] = @ + 1]
        /\ blocks' = [blocks EXCEPT ![b] = bl] /\ pend' = [pend EXCEPT ![b] = pd]
    BY DEF Handle
  <2> HIDE DEF k, pd, bl
  <2>4. /\ DOMAIN blocks' = Blocks /\ DOMAIN done' = Blocks /\ DOMAIN pend' = Blocks
        /\ \A d \in Blocks : /\ blocks'[d] \in [Instrs(d) -> Int] /\ done'[d] \in Seq(Instrs(d))
                             /\ pend'[d] \subseteq Instrs(d)
    BY <2>1, <2>2, <2>3 DEF Base, FlowTypes
  <2>5. tasks' \in [Blocks -> Nat]
    BY <2>3 DEF Base, FlowTypes
  <2> QED BY <2>4, <2>5 DEF Base, FlowTypes, Handle, claimVars, histVars
<1>3. WorkersOK'
  BY NoneApart
     DEF Base, Types, WorkersOK, Busy, Handle, poolVars, slotVars, workerVars, flowVars, callVars,
     claimVars, histVars
<1>4. JoinsOK'
  BY NoneApart
     DEF Base, Types, FlowTypes, WorkersOK, JoinsOK, Handle, poolVars, slotVars, workerVars,
     flowVars, callVars, claimVars, histVars
<1>5. BlocksAt'
  BY NoneApart
     DEF Base, FlowTypes, JoinsOK, BlocksAt, Handle, poolVars, slotVars, workerVars, flowVars,
     callVars, claimVars, histVars
<1> QED BY <1>1, <1>2, <1>3, <1>4, <1>5 DEF Base

\* Finish keeps Base.
LEMMA BaseFinish ==
    ASSUME Base, NEW b \in Blocks, Finish(b)
    PROVE Base'
<1>1. Types'
  BY NoneApart
     DEF Base, Types, Finish, Go, poolVars, slotVars, workerVars, flowVars, callVars, claimVars,
     histVars
<1>2. FlowTypes'
  <2>1. flowerror[b] \in Int \cup {None} /\ \A d \in Blocks : None \in Instrs(d) \cup {None}
    BY DEF Base, FlowTypes, Instrs
  <2> QED BY <2>1 DEF Base, FlowTypes, Finish, Go, claimVars, histVars
<1>3. WorkersOK'
  BY NoneApart
     DEF Base, Types, WorkersOK, Busy, Finish, Go, poolVars, slotVars, workerVars, flowVars,
     callVars, claimVars, histVars
<1>4. JoinsOK'
  BY NoneApart
     DEF Base, Types, FlowTypes, WorkersOK, JoinsOK, Finish, Go, poolVars, slotVars, workerVars,
     flowVars, callVars, claimVars, histVars
<1>5. BlocksAt'
  BY NoneApart
     DEF Base, FlowTypes, JoinsOK, BlocksAt, Finish, Go, poolVars, slotVars, workerVars, flowVars,
     callVars, claimVars, histVars
<1> QED BY <1>1, <1>2, <1>3, <1>4, <1>5 DEF Base

\* Return keeps Base.
LEMMA BaseReturn ==
    ASSUME Base, NEW b \in Blocks, Return(b)
    PROVE Base'
<1>1. Types'
  BY NoneApart
     DEF Base, Types, Return, Go, poolVars, slotVars, workerVars, flowVars, callVars, claimVars,
     histVars
<1>2. FlowTypes'
  BY NoneApart
     DEF Base, Types, FlowTypes, Return, Go, poolVars, slotVars, workerVars, flowVars, callVars,
     claimVars, histVars
<1>3. WorkersOK'
  BY NoneApart
     DEF Base, Types, WorkersOK, Busy, Return, Go, poolVars, slotVars, workerVars, flowVars,
     callVars, claimVars, histVars
<1>4. JoinsOK'
  BY NoneApart
     DEF Base, Types, FlowTypes, WorkersOK, JoinsOK, Return, Go, poolVars, slotVars, workerVars,
     flowVars, callVars, claimVars, histVars
<1>5. BlocksAt'
  BY NoneApart
     DEF Base, FlowTypes, JoinsOK, BlocksAt, Return, Go, poolVars, slotVars, workerVars, flowVars,
     callVars, claimVars, histVars
<1> QED BY <1>1, <1>2, <1>3, <1>4, <1>5 DEF Base

\* Every step keeps Base.
LEMMA BaseStep == Base /\ [Next]_vars => Base'
<1> SUFFICES ASSUME Base, [Next]_vars PROVE Base'
  OBVIOUS
<1>1. ASSUME NEW s \in Workers, Worker(s) PROVE Base'
  BY <1>1, BaseStart, BaseReleased, BaseLoop, BaseDown, BaseTakeOwn, BaseTakeNothing,
     BaseGiveBack, BaseTakeLast,
     BaseTakeExit, BaseExit, BaseSkip, BaseAdmit, BaseRefuse, BaseRun, BaseWrapUp, BasePost DEF Worker
<1>2. ASSUME NEW b \in Blocks, Scheduler(b) PROVE Base'
  BY <1>2, BaseJoin, BaseJoined, BasePick, BaseRunSerially, BaseSerialStep, BaseSerialReturn,
     BaseEnter, BaseRelease,
     BaseHandle, BaseFinish, BaseReturn DEF Scheduler
<1>3. CASE UNCHANGED vars
  BY <1>3
     DEF vars, poolVars, slotVars, workerVars, flowVars, callVars, claimVars, histVars, Base,
     Types, FlowTypes,
     WorkersOK, JoinsOK, BlocksAt
<1> QED BY <1>1, <1>2, <1>3 DEF Next

\* The types of the scheduler's variables and what they have to do with the place of
\* each worker, for any blocks, clients, limits and numbers of workers.
THEOREM BaseInvariant == Spec => []Base
BY BaseInit, BaseStep, PTL DEF Spec

-----------------------------------------------------------------------------
(* Tokens and workers *)

\* Counting one more or one less.
LEMMA Counted ==
    ASSUME NEW S, IsFiniteSet(S), NEW x
    PROVE  /\ Cardinality(S) \in Nat
           /\ x \notin S => Cardinality(S \cup {x}) = Cardinality(S) + 1
           /\ x \in S => Cardinality(S \ {x}) = Cardinality(S) - 1
BY FS_CardinalityType, FS_AddElement, FS_RemoveElement

\* What the counts of tokens and workers count is finite.
LEMMA FiniteParts == IsFiniteSet(Holding) /\ IsFiniteSet(Live) /\ IsFiniteSet(Working)
<1>1. IsFiniteSet(Workers)
  BY LimitsOK, FS_Interval DEF Workers
<1>2. Holding \subseteq Workers /\ Live \subseteq Workers /\ Working \subseteq Blocks
  BY DEF Holding, Live, Working
<1> QED BY <1>1, <1>2, BlocksOK, FS_Subset

\* Every step keeps TokensMatch: a worker that leaves Holding has taken an entry, an
\* exit or given its token back, and what enters todo brings one.
LEMMA TokensStep ==
    ASSUME Base, TokensMatch, Next
    PROVE  TokensMatch'
<1> DEFINE h == Cardinality(Holding)
<1>h. h \in Nat
  BY FiniteParts, FS_CardinalityType
<1>t. /\ tokens \in Nat /\ exitcount \in Nat /\ Len(todo) \in Nat /\ h \in Nat
      /\ todo \in Seq(Events) /\ DOMAIN pc = Workers
      /\ tokens + h = Len(todo) + exitcount
  BY <1>h, LenProperties DEF Base, Types, TokensMatch
<1>n. ASSUME Holding' = Holding, UNCHANGED poolVars PROVE TokensMatch'
  BY <1>n DEF TokensMatch, poolVars
<1>l. ASSUME NEW s \in Workers, pc[s] \in {"take", "back"}, pc'[s] \notin {"take", "back"},
             \A r \in Workers \ {s} : pc'[r] = pc[r],
             Len(todo') + exitcount' + tokens + 1 = Len(todo) + exitcount + tokens',
             Len(todo') \in Nat, exitcount' \in Nat, tokens' \in Nat
      PROVE  TokensMatch'
  <2>1. Holding' = Holding \ {s} /\ s \in Holding
    BY <1>l DEF Holding
  <2>2. Cardinality(Holding') = h - 1
    BY <2>1, FiniteParts, Counted
  <2> DEFINE m == Len(todo)
             n == Len(todo')
  <2>3. n + exitcount' + tokens + 1 = m + exitcount + tokens'
    BY <1>l
  <2>4. n \in Nat /\ exitcount' \in Nat /\ tokens' \in Nat
    BY <1>l
  <2>5. m \in Nat /\ tokens \in Nat /\ exitcount \in Nat /\ tokens + h = m + exitcount
    BY <1>t
  <2> HIDE DEF h, m, n
  <2>6. tokens' + (h - 1) = n + exitcount'
    BY <1>h, <2>3, <2>4, <2>5
  <2> QED BY <2>2, <2>6 DEF TokensMatch, n
<1>e. ASSUME Holding' = Holding, tokens' = tokens + 1, Len(todo') + exitcount' = Len(todo) + exitcount + 1
      PROVE  TokensMatch'
  <2> HIDE DEF h
  <2>1. Cardinality(Holding') = h
    BY <1>e DEF h
  <2> QED BY <1>t, <1>e, <2>1 DEF TokensMatch
<1>1. ASSUME NEW s \in Workers, Worker(s) PROVE TokensMatch'
  <2>1. CASE Start(s) \/ Released(s) \/ Loop(s) \/ Exit(s) \/ Skip(s) \/ Admit(s) \/ Run(s) \/ WrapUp(s) \/ Post(s)
    <3>1. Holding' = Holding /\ UNCHANGED poolVars
      BY <1>t, <2>1
         DEF Holding, Start, Released, Loop, Exit, Skip, Admit, Run, WrapUp, Post, At, poolVars
    <3> QED BY <1>n, <3>1
  <2>2. CASE TakeNothing(s)
    <3>1. Holding' = Holding /\ UNCHANGED poolVars
      BY <1>t, <2>2 DEF Holding, TakeNothing, At
    <3> QED BY <1>n, <3>1
  <2>3. CASE Down(s)
    <3>1. Holding' = Holding \cup {s} /\ s \notin Holding
      BY <1>t, <2>3 DEF Holding, Down, GoesDown
    <3>2. Cardinality(Holding') = h + 1
      BY <3>1, FiniteParts, Counted
    <3> HIDE DEF h
    <3> QED BY <1>t, <2>3, <3>2 DEF TokensMatch, Down
  <2>4. CASE TakeOwn(s)
    <3>1. PICK k \in DOMAIN todo : todo' = RemoveAt(todo, k)
      BY <2>4 DEF TakeOwn
    <3>2. Len(todo') = Len(todo) - 1 /\ Len(todo') \in Nat
      BY <1>t, <3>1, Removed, LenProperties
    <3> QED BY <1>t, <1>l, <2>4, <3>2 DEF TakeOwn, At
  <2>5. CASE TakeLast(s)
    <3>1. Len(todo') = Len(todo) - 1 /\ Len(todo') \in Nat
      BY <1>t, <2>5, Fronted, LenProperties DEF TakeLast
    <3> QED BY <1>t, <1>l, <2>5, <3>1 DEF TakeLast, At
  <2>6. CASE GiveBack(s)
    BY <1>t, <1>l, <2>6 DEF GiveBack, At
  <2>7. CASE TakeExit(s)
    BY <1>t, <1>l, <2>7 DEF TakeExit, At
  <2>8. CASE Refuse(s)
    <3>1. fe[s] \in Events
      BY NoneApart, <2>8 DEF Base, Types, WorkersOK, Busy, Refuse, At
    <3>2. Len(todo') = Len(todo) + 1
      BY <1>t, <2>8, <3>1, Prepended DEF Refuse, Requeue
    <3>3. Holding' = Holding /\ tokens' = tokens + 1 /\ exitcount' = exitcount
      BY <1>t, <2>8 DEF Holding, Refuse, Requeue, At
    <3> QED BY <1>t, <1>e, <3>2, <3>3
  <2> QED BY <1>1, <2>1, <2>2, <2>3, <2>4, <2>5, <2>6, <2>7, <2>8 DEF Worker
<1>2. ASSUME NEW b \in Blocks, Scheduler(b) PROVE TokensMatch'
  <2>1. CASE Join(b) \/ Joined(b) \/ RunSerially(b) \/ SerialStep(b) \/ SerialReturn(b) \/ Release(b) \/ Handle(b) \/ Finish(b)
    <3>1. UNCHANGED <<poolVars, pc>>
      BY <2>1
         DEF Join, Joined, RunSerially, SerialStep, SerialReturn, Release, Handle, Finish,
         workerVars
    <3> QED BY <1>n, <3>1 DEF Holding
  <2>2. CASE Pick(b)
    <3>1. PICK w \in Workers : flag[w] = "IDLE" /\ pc' = [pc EXCEPT ![w] = "start"]
      BY <2>2 DEF Pick
    <3>2. pc[w] = "off"
      BY <3>1 DEF Base, WorkersOK
    <3>3. Holding' = Holding /\ UNCHANGED poolVars
      BY <1>t, <2>2, <3>1, <3>2 DEF Holding, Pick
    <3> QED BY <1>n, <3>3
  <2>3. CASE Enter(b)
    <3>1. PICK i \in pend[b] : Enqueue(<<b, i>>)
      BY <2>3 DEF Enter
    <3>2. Len(todo') = Len(todo) + 1 /\ tokens' = tokens + 1 /\ exitcount' = exitcount
      BY <1>t, <3>1, EventOf, Appended DEF Base, FlowTypes, Enqueue
    <3>3. Holding' = Holding
      BY <2>3 DEF Holding, Enter, workerVars
    <3> QED BY <1>t, <1>e, <3>2, <3>3
  <2>4. CASE Return(b)
    <3>1. Holding' = Holding
      BY <2>4 DEF Holding, Return, workerVars
    <3> QED BY <1>t, <1>e, <2>4, <3>1 DEF Return
  <2> QED BY <1>2, <2>1, <2>2, <2>3, <2>4 DEF Scheduler
<1> QED BY <1>1, <1>2 DEF Next

\* Every step keeps PoolSize: Live changes with Working or with exitcount only.
LEMMA PoolStep ==
    ASSUME Base, PoolSize, Next
    PROVE  PoolSize'
<1> DEFINE l == Cardinality(Live)
           w == Cardinality(Working)
<1>l. l \in Nat /\ w \in Nat
  BY FiniteParts, FS_CardinalityType
<1>t. /\ exitcount \in Nat /\ l \in Nat /\ w \in Nat /\ NrThreads \in Nat
      /\ DOMAIN pc = Workers /\ DOMAIN flag = Workers /\ DOMAIN phase = Blocks
      /\ l = NrThreads - 1 + w + exitcount
  BY <1>l, LimitsOK DEF Base, Types, FlowTypes, PoolSize
<1>n. ASSUME Live' = Live, Working' = Working, exitcount' = exitcount PROVE PoolSize'
  BY <1>n DEF PoolSize
<1>1. ASSUME NEW s \in Workers, Worker(s) PROVE PoolSize'
  <2>0. UNCHANGED phase
    BY <1>1
       DEF Worker, Start, Released, Loop, Down, TakeOwn, TakeNothing, GiveBack, TakeLast,
       TakeExit, Exit, Skip,
       Admit, Refuse, Run, WrapUp, Post, callVars
  <2>w. Working' = Working
    BY <2>0 DEF Working
  <2>1. CASE TakeExit(s)
    <3>1. Live' = Live \ {s} /\ s \in Live
      BY <1>t, <2>1 DEF Base, WorkersOK, Live, TakeExit, At, slotVars
    <3>2. Cardinality(Live') = l - 1
      BY <3>1, FiniteParts, Counted
    <3> HIDE DEF l, w
    <3>3. Cardinality(Working') = w
      BY <2>w DEF w
    <3> QED BY <1>t, <2>1, <3>2, <3>3 DEF PoolSize, TakeExit
  <2>2. CASE Exit(s)
    <3>1. Live' = Live
      BY <1>t, <2>2 DEF Live, Exit, At
    <3> QED BY <1>n, <2>2, <2>w, <3>1 DEF Exit, poolVars
  <2>3. CASE ~ TakeExit(s) /\ ~ Exit(s)
    <3>1. /\ UNCHANGED <<flag, exitcount>> /\ pc[s] \notin {"off", "gone"} /\ pc'[s] # "gone"
          /\ \A r \in Workers \ {s} : pc'[r] = pc[r]
      BY <1>t, <1>1, <2>3
         DEF Worker, Start, Released, Loop, Down, TakeOwn, TakeNothing, GiveBack, TakeLast, Skip,
         Admit, Refuse, Run, WrapUp, Post, At, GoesDown, Requeue, poolVars, slotVars
    <3>2. Live' = Live
      BY <3>1 DEF Live
    <3> QED BY <1>n, <2>w, <3>1, <3>2
  <2> QED BY <2>1, <2>2, <2>3
<1>2. ASSUME NEW b \in Blocks, Scheduler(b) PROVE PoolSize'
  <2>1. CASE RunSerially(b) \/ SerialStep(b) \/ SerialReturn(b) \/ Enter(b) \/ Release(b) \/ Handle(b) \/ Finish(b)
    <3>1. /\ UNCHANGED <<flag, pc, exitcount>>
          /\ phase' = phase \/ \E p \in {"serial", "returned", "wait", "exit"} :
                phase' = [phase EXCEPT ![b] = p] /\ (p \in {"serial", "returned"} => phase[b] \in {"idle", "serial"})
                         /\ (p \in {"wait", "exit"} => phase[b] \in {"seed", "wait"})
      BY <2>1
         DEF RunSerially, SerialStep, SerialReturn, Enter, Enqueue, Release, Handle, Finish, Go,
         poolVars, slotVars, workerVars
    <3>2. Live' = Live /\ Working' = Working
      BY <1>t, <3>1 DEF Live, Working
    <3> QED BY <1>n, <3>1, <3>2
  <2>2. CASE Join(b)
    <3>1. PICK s \in Workers : flag[s] = "EXITED" /\ flag' = [flag EXCEPT ![s] = "JOINING"]
      BY <2>2 DEF Join
    <3>2. Live' = Live /\ Working' = Working
      BY <1>t, <2>2, <3>1 DEF Live, Working, Join, Go, workerVars
    <3> QED BY <1>n, <2>2, <3>2 DEF Join, poolVars
  <2>3. CASE Joined(b)
    <3>1. slot[b] \in Workers /\ flag[slot[b]] = "JOINING" /\ flag' = [flag EXCEPT ![slot[b]] = "IDLE"]
      BY <2>3 DEF Base, JoinsOK, Joined, Go
    <3>2. Live' = Live /\ Working' = Working
      BY <1>t, <2>3, <3>1 DEF Live, Working, Joined, Go, workerVars
    <3> QED BY <1>n, <2>3, <3>2 DEF Joined, poolVars
  <2>4. CASE Pick(b)
    <3>1. PICK s \in Workers : /\ flag[s] = "IDLE" /\ flag' = [flag EXCEPT ![s] = "RUNNING"]
                               /\ pc' = [pc EXCEPT ![s] = "start"]
      BY <2>4 DEF Pick
    <3>2. Live' = Live \cup {s} /\ s \notin Live
      BY <1>t, <3>1 DEF Live
    <3>3. Working' = Working \cup {b} /\ b \notin Working
      BY <1>t, <2>4 DEF Working, Pick, Go
    <3>4. Cardinality(Live') = l + 1 /\ Cardinality(Working') = w + 1
      BY <3>2, <3>3, FiniteParts, Counted
    <3> HIDE DEF l, w
    <3> QED BY <1>t, <2>4, <3>4 DEF PoolSize, Pick, poolVars
  <2>5. CASE Return(b)
    <3>1. Live' = Live
      BY <2>5 DEF Live, Return, slotVars, workerVars
    <3>2. Working' = Working \ {b} /\ b \in Working
      BY <1>t, <2>5 DEF Working, Return, Go
    <3>3. Cardinality(Live') = l /\ Cardinality(Working') = w - 1
      BY <3>1, <3>2, FiniteParts, Counted
    <3> HIDE DEF l, w
    <3> QED BY <1>t, <2>5, <3>3 DEF PoolSize, Return
  <2> QED BY <1>2, <2>1, <2>2, <2>3, <2>4, <2>5 DEF Scheduler
<1> QED BY <1>1, <1>2 DEF Next

\* For any blocks and numbers of workers, the tokens of the semaphore of todo match its
\* entries and exits: q_dequeue never finds the queue empty (mal_dataflow.c:205).
THEOREM TokensAlwaysMatch == Spec => []TokensMatch
<1>1. Init => TokensMatch
  <2> SUFFICES ASSUME Init PROVE TokensMatch
    OBVIOUS
  <2>1. Holding = {} /\ Len(todo) = 0
    BY DEF Init, Holding
  <2> QED BY <2>1, FS_EmptySet DEF Init, TokensMatch
<1>2. Base /\ TokensMatch /\ [Next]_vars => TokensMatch'
  <2>1. ASSUME UNCHANGED vars, TokensMatch PROVE TokensMatch'
    BY <2>1 DEF vars, poolVars, workerVars, TokensMatch, Holding
  <2> QED BY <2>1, TokensStep
<1> QED BY <1>1, <1>2, BaseInvariant, PTL DEF Spec

\* For any blocks and numbers of workers, there are GDKnr_threads - 1 workers, one more
\* for every block at work and one for every exit that is due (mal_dataflow.c:845).
THEOREM PoolSizeKept == Spec => []PoolSize
<1>1. Init => PoolSize
  <2> SUFFICES ASSUME Init PROVE PoolSize
    OBVIOUS
  <2>1. Live = 1 .. NrThreads - 1 /\ Working = {}
    BY LimitsOK DEF Init, Live, Working, Workers
  <2>2. Cardinality(Live) = NrThreads - 1 /\ Cardinality(Working) = 0
    BY <2>1, LimitsOK, FS_Interval, FS_EmptySet
  <2> QED BY <2>2, LimitsOK DEF Init, PoolSize
<1>2. Base /\ PoolSize /\ [Next]_vars => PoolSize'
  <2>1. ASSUME UNCHANGED vars, PoolSize PROVE PoolSize'
    BY <2>1 DEF vars, poolVars, slotVars, workerVars, callVars, PoolSize, Live, Working
  <2> QED BY <2>1, PoolStep
<1> QED BY <1>1, <1>2, BaseInvariant, PTL DEF Spec

-----------------------------------------------------------------------------
(* The places of instructions and their counts: the inductive invariant *)

\* Where an instruction is: in todo, with a worker, in done.
Has(s, e) == fe[s] = e \/ fnxt[s] = e
IsDone(e) == e[2] \in Range(done[e[1]])
Located(e) == e \in Range(todo) \/ IsDone(e) \/ \E s \in Workers : Has(s, e)

\* What DFLOWscheduler has taken from done.
Handled(b) == {i \in Instrs(b) : state[b][i] # "pending" /\ ~ Located(<<b, i>>)}

\* The edges an instruction still waits for.
Waits(b, i) == UNION {Edges(b, k, i) : k \in Instrs(b) \ Handled(b)}

\* An instruction is in one place at a time.
Apart ==
    /\ IsInjective(todo) /\ \A b \in Blocks : IsInjective(done[b])
    /\ \A e \in Events : e \in Range(todo) => ~ IsDone(e)
    /\ \A s \in Workers : \A e \in Events : Has(s, e) =>
          /\ e \notin Range(todo) /\ ~ IsDone(e)
          /\ \A r \in Workers : Has(r, e) => r = s
          /\ ~ (fe[s] = e /\ fnxt[s] = e)

\* What is somewhere has left the state pending and belongs to a flow in use.
Where == \A e \in Events : Located(e) => state[e[1]][e[2]] # "pending" /\ InUse(e[1])

\* What the scheduler is about to enter waits for nothing.
PendOK == \A b \in Blocks : \A i \in pend[b] : InUse(b) /\ state[b][i] = "pending" /\ blocks[b][i] = 0

CountsOK == \A b \in Blocks : InUse(b) => tasks[b] = Cardinality(Handled(b))

\* The count of a pending instruction is that of the edges it waits for.
EdgesOK == \A b \in Blocks : \A i \in Instrs(b) :
               state[b][i] = "pending" => blocks[b][i] = Cardinality(Waits(b, i))

\* Nothing is entered before Pick, or in a serial run.
Unstarted == \A b \in Blocks : phase[b] \in {"idle", "join", "serial"} =>
                /\ \A i \in Instrs(b) : state[b][i] = "pending"
                /\ phase[b] # "serial" => tasks[b] = 0

Flow == Apart /\ Where /\ PendOK /\ CountsOK /\ EdgesOK /\ Unstarted

-----------------------------------------------------------------------------
(* Every action keeps Flow *)

\* What is handled depends on what is located only.
LEMMA SameHandled ==
    ASSUME \A e \in Events : Located(e)' = Located(e), UNCHANGED state, Base, NEW b \in Blocks
    PROVE  Handled(b)' = Handled(b) /\ \A i \in Instrs(b) : Waits(b, i)' = Waits(b, i)
<1>1. Handled(b)' = Handled(b)
  BY EventOf DEF Handled
<1> QED BY <1>1 DEF Waits

\* Flow holds after a step that only moves instructions from one place to another.
LEMMA FlowMoves ==
    ASSUME Base, Flow, Apart', \A e \in Events : Located(e)' = Located(e), UNCHANGED <<state, blocks, pend, tasks, phase>>
    PROVE  Flow'
<1>1. \A b \in Blocks : Handled(b)' = Handled(b) /\ \A i \in Instrs(b) : Waits(b, i)' = Waits(b, i)
  BY SameHandled
<1>2. Where' /\ PendOK' /\ Unstarted'
  BY DEF Flow, Where, PendOK, Unstarted, InUse
<1>3. CountsOK' /\ EdgesOK'
  BY <1>1 DEF Flow, CountsOK, EdgesOK, InUse
<1> QED BY <1>2, <1>3 DEF Flow

\* A worker takes an entry from the queue.
LEMMA Taking ==
    ASSUME Base, Apart, NEW s \in Workers, fe[s] = None, fnxt[s] = None, NEW e \in Events, e \in Range(todo),
           IsInjective(todo'), Range(todo') = Range(todo) \ {e}, fe' = [fe EXCEPT ![s] = e], UNCHANGED <<fnxt, done>>
    PROVE  Apart' /\ \A x \in Events : Located(x)' = Located(x)
<1>0. DOMAIN fe = Workers /\ None \notin Events
  BY NoneApart DEF Base, Types
<1>1. \A x \in Events : /\ IsDone(x)' = IsDone(x)
                        /\ \A r \in Workers : Has(r, x)' <=> Has(r, x) \/ (r = s /\ x = e)
  BY <1>0 DEF IsDone, Has
<1>2. \A x \in Events : Located(x)' = Located(x)
  BY <1>1 DEF Located
<1>3. \A r \in Workers : ~ Has(r, e)
  BY DEF Apart
<1>4. IsInjective(todo') /\ \A d \in Blocks : IsInjective(done'[d])
  BY DEF Apart
<1>5. \A x \in Events : x \in Range(todo') => ~ IsDone(x)'
  BY <1>1 DEF Apart
<1>6. ASSUME NEW q \in Workers, NEW x \in Events, Has(q, x)'
      PROVE  /\ x \notin Range(todo') /\ ~ IsDone(x)'
             /\ \A r \in Workers : Has(r, x)' => r = q
             /\ ~ (fe'[q] = x /\ fnxt'[q] = x)
  <2>1. CASE x = e
    BY <1>0, <1>1, <1>3, <1>6, <2>1 DEF Apart, Has
  <2>2. CASE x # e
    BY <1>0, <1>1, <1>6, <2>2 DEF Apart, Has
  <2> QED BY <2>1, <2>2
<1>7. Apart'
  BY <1>4, <1>5, <1>6 DEF Apart
<1> QED BY <1>2, <1>7

\* A worker puts its entry back.
LEMMA Refusing ==
    ASSUME Base, Apart, NEW s \in Workers, fe[s] \in Events, fnxt[s] = None, 
           IsInjective(todo'), Range(todo') = Range(todo) \cup {fe[s]}, fe' = [fe EXCEPT ![s] = None], UNCHANGED <<fnxt, done>>
    PROVE  Apart' /\ \A x \in Events : Located(x)' = Located(x)
<1>0. DOMAIN fe = Workers /\ None \notin Events
  BY NoneApart DEF Base, Types
<1>1. \A x \in Events : /\ IsDone(x)' = IsDone(x)
                        /\ \A r \in Workers : Has(r, x)' <=> Has(r, x) /\ x # fe[s]
  BY <1>0 DEF IsDone, Has, Apart
<1>2. \A x \in Events : Located(x)' = Located(x)
  BY <1>1 DEF Located, Has
<1>4. IsInjective(todo') /\ \A d \in Blocks : IsInjective(done'[d])
  BY DEF Apart
<1>5. \A x \in Events : x \in Range(todo') => ~ IsDone(x)'
  BY <1>1 DEF Apart, Has
<1>6. ASSUME NEW q \in Workers, NEW x \in Events, Has(q, x)'
      PROVE  /\ x \notin Range(todo') /\ ~ IsDone(x)'
             /\ \A r \in Workers : Has(r, x)' => r = q
             /\ ~ (fe'[q] = x /\ fnxt'[q] = x)
  BY <1>0, <1>1, <1>6 DEF Apart, Has
<1>7. Apart'
  BY <1>4, <1>5, <1>6 DEF Apart
<1> QED BY <1>2, <1>7

\* A worker enters its instruction in done and goes on with another one, or with none.
LEMMA Ending ==
    ASSUME Base, Apart, NEW s \in Workers, NEW b \in Blocks, NEW k \in Instrs(b), fe[s] = <<b, k>>,
           done' = [done EXCEPT ![b] = Append(@, k)], fe' = [fe EXCEPT ![s] = fnxt[s]],
           fnxt' = [fnxt EXCEPT ![s] = None], UNCHANGED todo
    PROVE  Apart' /\ \A x \in Events : Located(x)' = Located(x)
<1> DEFINE e == <<b, k>>
<1>0. /\ DOMAIN fe = Workers /\ DOMAIN fnxt = Workers /\ DOMAIN done = Blocks /\ None \notin Events
      /\ done[b] \in Seq(Instrs(b)) /\ e \in Events
  BY NoneApart, EventOf DEF Base, Types, FlowTypes
<1>1. k \notin Range(done[b]) /\ IsInjective(done[b])
  BY <1>0 DEF Apart, Has, IsDone
<1>2. Range(done'[b]) = Range(done[b]) \cup {k} /\ IsInjective(done'[b])
  BY <1>0, <1>1, Appended
<1>3. \A d \in Blocks \ {b} : done'[d] = done[d]
  BY <1>0
<1>4. \A x \in Events : IsDone(x)' <=> IsDone(x) \/ x = e
  BY <1>2, <1>3, EventsOK DEF IsDone
<1>5. \A x \in Events : \A r \in Workers : Has(r, x)' <=> Has(r, x) /\ x # e
  BY <1>0 DEF Apart, Has
<1>6. Has(s, e) /\ e \notin Range(todo)
  BY <1>0 DEF Has, Apart
<1> HIDE DEF e
<1>7. \A x \in Events : Located(x)' = Located(x)
  BY <1>0, <1>4, <1>5, <1>6 DEF Located
<1>8. \A d \in Blocks : IsInjective(done'[d])
  BY <1>2, <1>3 DEF Apart
<1>9. \A x \in Events : x \in Range(todo') => ~ IsDone(x)'
  BY <1>4, <1>6 DEF Apart
<1>10. ASSUME NEW q \in Workers, NEW x \in Events, Has(q, x)'
      PROVE  /\ x \notin Range(todo') /\ ~ IsDone(x)'
             /\ \A r \in Workers : Has(r, x)' => r = q
             /\ ~ (fe'[q] = x /\ fnxt'[q] = x)
  <2>1. Has(q, x) /\ x # e
    BY <1>5, <1>10
  <2>2. ~ (fe'[q] = x /\ fnxt'[q] = x)
    BY <1>0, <2>1 DEF Apart
  <2> QED BY <1>4, <1>5, <2>1, <2>2 DEF Apart
<1>11. Apart'
  BY <1>8, <1>9, <1>10 DEF Apart
<1> QED BY <1>7, <1>11

\* Flow does not depend on the other variables.
LEMMA FlowQuiet ==
    ASSUME Base, Flow, UNCHANGED <<todo, fe, fnxt, done, state, blocks, pend, tasks, phase>>
    PROVE  Flow'
<1>1. Apart' /\ \A e \in Events : Located(e)' = Located(e)
  BY DEF Flow, Apart, Located, Has, IsDone
<1> QED BY <1>1, FlowMoves

\* Flow holds after a scheduler's step that does not start or end the use of a flow.
LEMMA FlowPhases ==
    ASSUME Base, Flow, UNCHANGED <<todo, fe, fnxt, done, state, blocks, pend>>, Unstarted',
           \A d \in Blocks : InUse(d)' = InUse(d) /\ (InUse(d) => tasks'[d] = tasks[d])
    PROVE  Flow'
<1>1. Apart' /\ \A e \in Events : Located(e)' = Located(e)
  BY DEF Flow, Apart, Located, Has, IsDone
<1>2. \A b \in Blocks : Handled(b)' = Handled(b) /\ \A i \in Instrs(b) : Waits(b, i)' = Waits(b, i)
  BY <1>1, SameHandled
<1>3. Where' /\ PendOK'
  BY <1>1, EventsOK DEF Flow, Where, PendOK
<1>4. CountsOK' /\ EdgesOK'
  BY <1>2 DEF Flow, CountsOK, EdgesOK
<1> QED BY <1>1, <1>3, <1>4 DEF Flow

\* What is handled is finite.
LEMMA HandledNumber == \A b \in Blocks : IsFiniteSet(Handled(b)) /\ Handled(b) \subseteq Instrs(b)
<1> SUFFICES ASSUME NEW b \in Blocks PROVE IsFiniteSet(Handled(b)) /\ Handled(b) \subseteq Instrs(b)
  OBVIOUS
<1>1. IsFiniteSet(Instrs(b))
  BY BlocksOK, FS_Interval DEF Instrs
<1>2. Handled(b) \subseteq Instrs(b)
  BY DEF Handled
<1> QED BY <1>1, <1>2, FS_Subset

\* Pick starts with a flow in which all is pending.
LEMMA FlowPick ==
    ASSUME Base, Flow, NEW b \in Blocks, Pick(b)
    PROVE Flow'
<1>1. /\ UNCHANGED <<todo, fe, fnxt, done, state, blocks, tasks>> /\ phase[b] = "idle"
      /\ phase' = [phase EXCEPT ![b] = "seed"] /\ pend' = [pend EXCEPT ![b] = Ready(b)]
  BY DEF Pick, Go, poolVars, flowVars
<1>2. Apart' /\ \A e \in Events : Located(e)' = Located(e)
  BY <1>1 DEF Flow, Apart, Located, Has, IsDone
<1>3. \A d \in Blocks : Handled(d)' = Handled(d) /\ \A i \in Instrs(d) : Waits(d, i)' = Waits(d, i)
  BY <1>1, <1>2, SameHandled
<1>4. \A d \in Blocks : InUse(d)' <=> InUse(d) \/ d = b
  BY <1>1 DEF InUse, Base, FlowTypes
<1>5. Where'
  BY <1>1, <1>2, <1>4, EventsOK DEF Flow, Where
<1>6. (\A i \in Instrs(b) : state[b][i] = "pending") /\ tasks[b] = 0
  BY <1>1 DEF Flow, Unstarted
<1>7. PendOK'
  BY <1>1, <1>4, <1>6 DEF Flow, PendOK, Ready, Base, FlowTypes
<1>8. Handled(b) = {}
  BY <1>6 DEF Handled
<1>9. CountsOK'
  BY <1>1, <1>3, <1>4, <1>6, <1>8, FS_EmptySet DEF Flow, CountsOK
<1>10. EdgesOK'
  BY <1>1, <1>3 DEF Flow, EdgesOK
<1>11. Unstarted'
  BY <1>1 DEF Flow, Unstarted, Base, FlowTypes
<1> QED BY <1>2, <1>5, <1>7, <1>9, <1>10, <1>11 DEF Flow

\* When as many are handled as there are instructions, none is anywhere.
LEMMA AllHandled ==
    ASSUME Base, Flow, NEW b \in Blocks, InUse(b), tasks[b] = Size[b]
    PROVE  \A i \in Instrs(b) : state[b][i] # "pending" /\ ~ Located(<<b, i>>)
<1>1. Cardinality(Handled(b)) = Size[b]
  BY DEF Flow, CountsOK
<1>2. IsFiniteSet(Instrs(b)) /\ Cardinality(Instrs(b)) = Size[b]
  BY BlocksOK, FS_Interval DEF Instrs
<1>3. Handled(b) = Instrs(b)
  BY <1>1, <1>2, HandledNumber, FS_Subset
<1> QED BY <1>3 DEF Handled

\* Finish frees a flow none of whose instructions is anywhere.
LEMMA FlowFinish ==
    ASSUME Base, Flow, NEW b \in Blocks, Finish(b)
    PROVE Flow'
<1>1. /\ UNCHANGED <<todo, fe, fnxt, done, state, blocks, pend, tasks>> /\ phase[b] = "wait" /\ pend[b] = {}
      /\ phase' = [phase EXCEPT ![b] = "exit"] /\ tasks[b] = Size[b]
  BY DEF Finish, Go, Unlocked, poolVars, workerVars
<1>2. Apart' /\ \A e \in Events : Located(e)' = Located(e)
  BY <1>1 DEF Flow, Apart, Located, Has, IsDone
<1>3. \A d \in Blocks : Handled(d)' = Handled(d) /\ \A i \in Instrs(d) : Waits(d, i)' = Waits(d, i)
  BY <1>1, <1>2, SameHandled
<1>4. \A d \in Blocks : InUse(d)' <=> InUse(d) /\ d # b
  BY <1>1 DEF InUse, Base, FlowTypes
<1>5. \A e \in Events : e[1] = b => ~ Located(e)
  BY <1>1, AllHandled, EventsOK DEF InUse
<1>6. Where'
  BY <1>1, <1>2, <1>4, <1>5, EventsOK DEF Flow, Where
<1>7. PendOK'
  BY <1>1, <1>4 DEF Flow, PendOK
<1>8. CountsOK' /\ EdgesOK'
  BY <1>1, <1>3, <1>4 DEF Flow, CountsOK, EdgesOK
<1>9. Unstarted'
  BY <1>1 DEF Flow, Unstarted, Base, FlowTypes
<1> QED BY <1>2, <1>6, <1>7, <1>8, <1>9 DEF Flow

\* Enter moves a pending instruction to todo.
LEMMA FlowEnter ==
    ASSUME Base, Flow, NEW b \in Blocks, Enter(b)
    PROVE Flow'
<1>1. PICK i \in pend[b] : /\ todo' = Append(todo, <<b, i>>)
                           /\ state' = [state EXCEPT ![b][i] = "running"]
                           /\ pend' = [pend EXCEPT ![b] = @ \ {i}]
  BY DEF Enter, Enqueue
<1> DEFINE e == <<b, i>>
<1>2. UNCHANGED <<fe, fnxt, done, blocks, tasks, phase>>
  BY DEF Enter, workerVars
<1>3. /\ i \in Instrs(b) /\ e \in Events /\ todo \in Seq(Events)
      /\ InUse(b) /\ state[b][i] = "pending" /\ DOMAIN state = Blocks /\ DOMAIN pend = Blocks
      /\ DOMAIN state[b] = Instrs(b)
  BY EventOf DEF Base, Types, FlowTypes, Flow, PendOK
<1>4. ~ Located(e)
  BY <1>3 DEF Flow, Where
<1>5. Range(todo') = Range(todo) \cup {e} /\ IsInjective(todo')
  BY <1>1, <1>3, <1>4, Appended DEF Flow, Apart, Located
<1>6. /\ \A d \in Blocks \ {b} : state'[d] = state[d] /\ pend'[d] = pend[d]
      /\ \A j \in Instrs(b) \ {i} : state'[b][j] = state[b][j]
      /\ state'[b][i] = "running" /\ pend'[b] = pend[b] \ {i}
  BY <1>1, <1>3
<1>7. \A x \in Events : IsDone(x)' = IsDone(x) /\ \A s \in Workers : Has(s, x)' = Has(s, x)
  BY <1>2 DEF IsDone, Has
<1>8. \A x \in Events : Located(x)' <=> Located(x) \/ x = e
  BY <1>5, <1>7 DEF Located
<1>9. \A x \in Events : state'[x[1]][x[2]] = IF x = e THEN "running" ELSE state[x[1]][x[2]]
  BY <1>6, EventsOK
<1>p. \A d \in Blocks : \A j \in Instrs(d) : <<d, j>> \in Events /\ (<<d, j>> = e <=> d = b /\ j = i)
  BY EventOf
<1>q. \A d \in Blocks : \A j \in Instrs(d) : state'[d][j] = IF <<d, j>> = e THEN "running" ELSE state[d][j]
  BY <1>9, <1>p
<1> HIDE DEF e
<1>10. \A d \in Blocks : Handled(d)' = Handled(d) 
  BY <1>3, <1>8, <1>p, <1>q DEF Handled
<1>11. \A d \in Blocks : \A j \in Instrs(d) : Waits(d, j)' = Waits(d, j)
  BY <1>10 DEF Waits
<1>12. Apart'
  BY <1>2, <1>4, <1>5, <1>7 DEF Flow, Apart, Located
<1>13. \A d \in Blocks : InUse(d)' = InUse(d)
  BY <1>2 DEF InUse
<1>14. Where'
  BY <1>3, <1>8, <1>9, <1>13, EventsOK DEF Flow, Where, e
<1>15. PendOK'
  <2>1. \A d \in Blocks : \A j \in pend'[d] : j \in pend[d] /\ j \in Instrs(d) /\ (d = b => j # i)
    BY <1>6 DEF Base, FlowTypes
  <2>2. \A d \in Blocks : \A j \in pend'[d] : state'[d][j] = state[d][j]
    BY <1>6, <2>1
  <2> QED BY <1>2, <1>13, <2>1, <2>2 DEF Flow, PendOK
<1>16. CountsOK' /\ EdgesOK'
  BY <1>2, <1>10, <1>11, <1>13, <1>q DEF Flow, CountsOK, EdgesOK
<1>17. Unstarted'
  BY <1>2, <1>3, <1>6 DEF Flow, Unstarted, InUse
<1> QED BY <1>12, <1>14, <1>15, <1>16, <1>17 DEF Flow

\* WrapUp hands a pending instruction to the worker itself.
LEMMA FlowWrapUp ==
    ASSUME Base, Flow, NEW s \in Workers, WrapUp(s)
    PROVE Flow'
<1> DEFINE b == fe[s][1]
           k == fe[s][2]
<1>1. /\ fe[s] \in Events /\ fnxt[s] = None /\ b \in Blocks /\ k \in Instrs(b) /\ fe[s] = <<b, k>>
      /\ DOMAIN state = Blocks /\ DOMAIN blocks = Blocks /\ DOMAIN fnxt = Workers
      /\ \A d \in Blocks : DOMAIN state[d] = Instrs(d) /\ DOMAIN blocks[d] = Instrs(d)
  BY NoneApart, EventsOK DEF Base, Types, FlowTypes, WorkersOK, Busy, WrapUp, At
<1>2. UNCHANGED <<todo, fe, done, pend, tasks, phase>> /\ pend[b] = {}
  BY DEF WrapUp, Unlocked, poolVars, callVars
<1>3. state[b][k] # "pending" /\ InUse(b)
  BY <1>1 DEF Flow, Where, Located, Has
<1>4. \A d \in Blocks : InUse(d)' = InUse(d)
  BY <1>2 DEF InUse
<1>5. \/ /\ state' = [state EXCEPT ![b][k] = "wrapup"] /\ UNCHANGED <<blocks, fnxt>>
      \/ \E i \in FirstEligible(b, k) :
            /\ state' = [state EXCEPT ![b] = [@ EXCEPT ![k] = "wrapup", ![i] = "running"]]
            /\ blocks' = [blocks EXCEPT ![b][i] = 0]
            /\ fnxt' = [fnxt EXCEPT ![s] = <<b, i>>]
  BY DEF WrapUp
<1> HIDE DEF b, k
<1>6. CASE state' = [state EXCEPT ![b][k] = "wrapup"] /\ UNCHANGED <<blocks, fnxt>>
  <2>1. Apart' /\ \A e \in Events : Located(e)' = Located(e)
    BY <1>2, <1>6 DEF Flow, Apart, Located, Has, IsDone
  <2>2. \A d \in Blocks : \A j \in Instrs(d) : state'[d][j] = "pending" <=> state[d][j] = "pending"
    BY <1>1, <1>3, <1>6
  <2>3. \A d \in Blocks : Handled(d)' = Handled(d)
    BY <2>1, <2>2, EventOf DEF Handled
  <2>4. \A d \in Blocks : \A j \in Instrs(d) : Waits(d, j)' = Waits(d, j)
    BY <2>3 DEF Waits
  <2>5. Where'
    BY <1>4, <2>1, <2>2, EventsOK DEF Flow, Where
  <2>6. PendOK' /\ Unstarted'
    BY <1>2, <1>4, <1>6, <2>2 DEF Flow, PendOK, Unstarted, Base, FlowTypes
  <2>7. CountsOK' /\ EdgesOK'
    BY <1>2, <1>4, <1>6, <2>2, <2>3, <2>4 DEF Flow, CountsOK, EdgesOK
  <2> QED BY <2>1, <2>5, <2>6, <2>7 DEF Flow
<1>7. ASSUME NEW i \in FirstEligible(b, k),
             state' = [state EXCEPT ![b] = [@ EXCEPT ![k] = "wrapup", ![i] = "running"]],
             blocks' = [blocks EXCEPT ![b][i] = 0], fnxt' = [fnxt EXCEPT ![s] = <<b, i>>]
      PROVE  Flow'
  <2> DEFINE e == <<b, i>>
  <2>1. i \in Instrs(b) /\ state[b][i] = "pending" /\ e \in Events
    BY <1>1, FirstIsEligible, EventOf DEF Eligible
  <2>2. ~ Located(e)
    BY <2>1 DEF Flow, Where
  <2>3. \A d \in Blocks : \A j \in Instrs(d) :
           state'[d][j] = IF d = b /\ j = i THEN "running" ELSE IF d = b /\ j = k THEN "wrapup" ELSE state[d][j]
    BY <1>1, <1>7, <2>1
  <2>4. \A d \in Blocks : \A j \in Instrs(d) : ~ (d = b /\ j = i) => blocks'[d][j] = blocks[d][j]
    BY <1>1, <1>7, <2>1
  <2>5. \A x \in Events : IsDone(x)' = IsDone(x) /\ \A r \in Workers : Has(r, x)' <=> Has(r, x) \/ (r = s /\ x = e)
    BY <1>1, <1>2, <1>7, NoneApart DEF IsDone, Has
  <2>6. \A x \in Events : Located(x)' <=> Located(x) \/ x = e
    BY <1>2, <2>5 DEF Located
  <2>p. \A d \in Blocks : \A j \in Instrs(d) : <<d, j>> \in Events /\ (<<d, j>> = e <=> d = b /\ j = i)
    BY EventOf
  <2>q. fnxt'[s] = e /\ fe[s] # e /\ \A r \in Workers \ {s} : fnxt'[r] = fnxt[r]
    BY <1>1, <1>7, <2>1, <2>2 DEF Located, Has
  <2> HIDE DEF e
  <2>7. \A d \in Blocks : Handled(d)' = Handled(d)
    BY <1>3, <2>1, <2>3, <2>6, <2>p DEF Handled
  <2>8. \A d \in Blocks : \A j \in Instrs(d) : Waits(d, j)' = Waits(d, j)
    BY <2>7 DEF Waits
  <2>9. Apart'
    <3>1. /\ IsInjective(todo') /\ \A d \in Blocks : IsInjective(done'[d])
          /\ \A x \in Events : x \in Range(todo') => ~ IsDone(x)'
      BY <1>2, <2>5 DEF Flow, Apart
    <3>2. ASSUME NEW r \in Workers, NEW x \in Events, Has(r, x)'
          PROVE  /\ x \notin Range(todo') /\ ~ IsDone(x)'
                 /\ \A q \in Workers : Has(q, x)' => q = r
                 /\ ~ (fe'[r] = x /\ fnxt'[r] = x)
      <4>1. CASE x = e
        BY <1>2, <2>2, <2>5, <2>q, <3>2, <4>1 DEF Located, Has
      <4>2. CASE x # e
        BY <1>2, <2>5, <2>q, <3>2, <4>2 DEF Flow, Apart
      <4> QED BY <4>1, <4>2
    <3> QED BY <3>1, <3>2 DEF Apart
  <2>10. Where'
    <3> SUFFICES ASSUME NEW x \in Events, Located(x)' PROVE state'[x[1]][x[2]] # "pending" /\ InUse(x[1])'
      BY DEF Where
    <3>1. x[1] \in Blocks /\ x[2] \in Instrs(x[1]) /\ x = <<x[1], x[2]>>
      BY EventsOK
    <3>2. CASE x = e
      BY <1>3, <1>4, <2>3, <3>1, <3>2 DEF e
    <3>3. CASE x # e
      BY <1>4, <2>3, <2>6, <3>1, <3>3 DEF Flow, Where
    <3> QED BY <3>2, <3>3
  <2>11. PendOK'
    <3>1. \A d \in Blocks : \A j \in pend'[d] : j \in pend[d] /\ j \in Instrs(d) /\ d # b
      BY <1>2 DEF Base, FlowTypes
    <3> QED BY <1>4, <2>3, <2>4, <3>1 DEF Flow, PendOK
  <2>12. CountsOK'
    BY <1>2, <1>4, <2>7 DEF Flow, CountsOK
  <2>13. EdgesOK'
    BY <2>3, <2>4, <2>8 DEF Flow, EdgesOK
  <2>14. Unstarted'
    <3>1. \A d \in Blocks : phase[d] \in {"idle", "join", "serial"} => d # b
      BY <1>3 DEF InUse
    <3> QED BY <1>2, <2>3, <3>1 DEF Flow, Unstarted
  <2> QED BY <2>9, <2>10, <2>11, <2>12, <2>13, <2>14 DEF Flow
<1> QED BY <1>5, <1>6, <1>7

\* One more is handled: what waits loses the edges from it.
LEMMA WaitsWithout ==
    ASSUME NEW b \in Blocks, NEW i \in Instrs(b), NEW k \in Instrs(b), k \notin Handled(b),
           Handled(b)' = Handled(b) \cup {k}
    PROVE  /\ IsFiniteSet(Waits(b, i)) /\ Edges(b, k, i) \subseteq Waits(b, i)
           /\ Cardinality(Waits(b, i)') = Cardinality(Waits(b, i)) - Cardinality(Edges(b, k, i))
           /\ Cardinality(Edges(b, k, i)) <= Cardinality(Waits(b, i))
           /\ i \in Range(Wakes[b][k]) => Cardinality(Edges(b, k, i)) >= 1
           /\ i \notin Range(Wakes[b][k]) => Cardinality(Edges(b, k, i)) = 0
<1> DEFINE W == Waits(b, i)
           E == Edges(b, k, i)
<1>1. Waits(b, i) \subseteq EdgesTo(b, i)
  BY DEF Waits, EdgesTo
<1>2. IsFiniteSet(W) /\ IsFiniteSet(E)
  BY <1>1, EdgesToNumber, EdgesNumber, FS_Subset
<1>3. E \subseteq W
  BY DEF Waits
<1>4. Waits(b, i)' = W \ E
  <2>1. Waits(b, i)' = UNION {Edges(b, j, i) : j \in Instrs(b) \ (Handled(b) \cup {k})}
    BY DEF Waits
  <2>2. \A j \in Instrs(b) \ {k} : Edges(b, j, i) \cap E = {}
    BY DEF Edges
  <2> HIDE DEF E
  <2>3. UNION {Edges(b, j, i) : j \in Instrs(b) \ (Handled(b) \cup {k})} \subseteq W \ E
    BY <2>2 DEF Waits
  <2>4. W \ E \subseteq UNION {Edges(b, j, i) : j \in Instrs(b) \ (Handled(b) \cup {k})}
    BY DEF Waits, E
  <2> QED BY <2>1, <2>3, <2>4
<1> HIDE DEF W, E
<1>5. W \cap E = E
  BY <1>3
<1>6. Cardinality(W \ E) = Cardinality(W) - Cardinality(E)
  BY <1>2, <1>5, FS_Difference
<1>7. Cardinality(E) <= Cardinality(W)
  BY <1>2, <1>3, FS_Subset
<1>8. i \in Range(Wakes[b][k]) <=> E # {}
  BY DEF E, Edges, Range
<1>9. (Cardinality(E) = 0 <=> E = {}) /\ Cardinality(E) \in Nat
  BY <1>2, FS_EmptySet, FS_CardinalityType
<1> QED BY <1>2, <1>3, <1>4, <1>6, <1>7, <1>8, <1>9 DEF W, E

\* Handle lowers the counts by the edges of what it takes from done.
LEMMA FlowHandle ==
    ASSUME Base, Flow, NEW b \in Blocks, Handle(b)
    PROVE Flow'
<1> DEFINE k == Last(done[b])
           e == <<b, k>>
           n(i) == Cardinality(Edges(b, k, i))
           bl == [i \in Instrs(b) |-> IF Freed(b, k, i) THEN 0
                                      ELSE IF Lowers(b, k, i) THEN blocks[b][i] - n(i)
                                      ELSE blocks[b][i]]
<1>1. /\ UNCHANGED <<todo, fe, fnxt, state, phase>> /\ phase[b] = "wait"
      /\ done' = [done EXCEPT ![b] = Front(@)] /\ tasks' = [tasks EXCEPT ![b] = @ + 1]
      /\ blocks' = [blocks EXCEPT ![b] = bl]
      /\ pend' = [pend EXCEPT ![b] = {i \in Instrs(b) : Freed(b, k, i)}]
  BY DEF Handle, poolVars, workerVars
<1>2. /\ k \in Instrs(b) /\ k \in Range(done[b]) /\ IsInjective(Front(done[b]))
      /\ Range(Front(done[b])) = Range(done[b]) \ {k}
  BY Fronted DEF Base, FlowTypes, Flow, Apart, Handle
<1>3. DOMAIN done = Blocks /\ DOMAIN blocks = Blocks /\ DOMAIN pend = Blocks /\ DOMAIN tasks = Blocks /\ tasks[b] \in Nat
  BY DEF Base, FlowTypes
<1> HIDE DEF k, bl
<1>4. \A x \in Events : IsDone(x)' <=> IsDone(x) /\ x # e
  BY <1>1, <1>2, <1>3, EventsOK DEF IsDone
<1>5. e \in Events /\ IsDone(e)
  BY <1>2, EventOf DEF IsDone
<1>6. \A x \in Events : \A s \in Workers : Has(s, x)' = Has(s, x)
  BY <1>1 DEF Has
<1>7. e \notin Range(todo) /\ \A s \in Workers : ~ Has(s, e)
  BY <1>5 DEF Flow, Apart
<1>8. \A x \in Events : Located(x)' <=> Located(x) /\ x # e
  BY <1>1, <1>4, <1>6, <1>7 DEF Located
<1>p. \A d \in Blocks : \A j \in Instrs(d) : <<d, j>> \in Events /\ (<<d, j>> = e <=> d = b /\ j = k)
  BY EventOf
<1> HIDE DEF e
<1>9. Apart'
  <2>1. IsInjective(todo') /\ \A d \in Blocks : IsInjective(done'[d])
    BY <1>1, <1>2, <1>3 DEF Flow, Apart
  <2>2. \A x \in Events : x \in Range(todo') => ~ IsDone(x)'
    BY <1>1, <1>4 DEF Flow, Apart
  <2>3. \A s \in Workers : \A x \in Events : Has(s, x)' =>
           /\ x \notin Range(todo') /\ ~ IsDone(x)'
           /\ \A r \in Workers : Has(r, x)' => r = s
           /\ ~ (fe'[s] = x /\ fnxt'[s] = x)
    BY <1>1, <1>4, <1>6 DEF Flow, Apart
  <2> QED BY <2>1, <2>2, <2>3 DEF Apart
<1>10. \A d \in Blocks : InUse(d)' = InUse(d)
  BY <1>1 DEF InUse
<1>11. Where'
  BY <1>1, <1>8, <1>10, EventsOK DEF Flow, Where
<1>12. state[b][k] # "pending" /\ Located(e) /\ InUse(b)
  BY <1>2, <1>5 DEF Flow, Where, Located, e
<1>13. \A d \in Blocks \ {b} : Handled(d)' = Handled(d)
  BY <1>1, <1>8, <1>p DEF Handled
<1>14. Handled(b)' = Handled(b) \cup {k} /\ k \notin Handled(b)
  BY <1>1, <1>2, <1>8, <1>12, <1>p DEF Handled
<1>15. CountsOK'
  <2>1. Cardinality(Handled(b)') = Cardinality(Handled(b)) + 1
    BY <1>14, HandledNumber, Counted
  <2>2. tasks'[b] = tasks[b] + 1 /\ \A d \in Blocks \ {b} : tasks'[d] = tasks[d]
    BY <1>1, <1>3
  <2>3. tasks[b] = Cardinality(Handled(b))
    BY <1>12 DEF Flow, CountsOK
  <2>4. tasks'[b] = Cardinality(Handled(b)')
    BY <2>1, <2>2, <2>3
  <2> QED BY <1>10, <1>13, <2>2, <2>4 DEF Flow, CountsOK
<1>16. \A d \in Blocks \ {b} : blocks'[d] = blocks[d] /\ pend'[d] = pend[d]
  BY <1>1, <1>3
<1>17. blocks'[b] = bl
  BY <1>1, <1>3
<1>18. ASSUME NEW i \in Instrs(b), state[b][i] = "pending"
       PROVE  /\ blocks'[b][i] = Cardinality(Waits(b, i)')
              /\ Freed(b, k, i) => blocks'[b][i] = 0
  <2> DEFINE w == Cardinality(Waits(b, i))
  <2>1. /\ n(i) <= w /\ Cardinality(Waits(b, i)') = w - n(i)
        /\ i \in Range(Wakes[b][k]) => n(i) >= 1
        /\ i \notin Range(Wakes[b][k]) => n(i) = 0
        /\ n(i) \in Nat /\ w \in Nat
    BY <1>2, <1>14, WaitsWithout, EdgesNumber, FS_CardinalityType
  <2>2. blocks[b][i] = w
    BY <1>18 DEF Flow, EdgesOK
  <2>3. blocks'[b][i] = IF Freed(b, k, i) THEN 0 ELSE IF Lowers(b, k, i) THEN w - n(i) ELSE w
    BY <1>17, <2>2 DEF bl
  <2>4. Lowers(b, k, i) <=> i \in Range(Wakes[b][k])
    BY <1>18 DEF Lowers
  <2>5. Freed(b, k, i) <=> Lowers(b, k, i) /\ w \in 1 .. n(i)
    BY <2>2 DEF Freed
  <2> HIDE DEF n, w
  <2> QED BY <2>1, <2>3, <2>4, <2>5
<1>19. EdgesOK'
  <2>1. \A d \in Blocks \ {b} : \A i \in Instrs(d) : Waits(d, i)' = Waits(d, i)
    BY <1>13 DEF Waits
  <2> QED BY <1>1, <1>16, <1>18, <2>1 DEF Flow, EdgesOK
<1>20. PendOK'
  <2>1. \A i \in pend'[b] : i \in Instrs(b) /\ Freed(b, k, i) /\ state[b][i] = "pending"
    BY <1>1, <1>3 DEF Freed, Lowers
  <2> QED BY <1>1, <1>10, <1>12, <1>16, <1>18, <2>1 DEF Flow, PendOK
<1>21. Unstarted'
  BY <1>1 DEF Flow, Unstarted
<1> QED BY <1>9, <1>11, <1>15, <1>19, <1>20, <1>21 DEF Flow

\* Every step of a worker keeps Flow.
LEMMA FlowWorker ==
    ASSUME Base, Flow, NEW s \in Workers, Worker(s)
    PROVE Flow'
<1>1. CASE Start(s) \/ Released(s) \/ Loop(s) \/ Down(s) \/ TakeNothing(s) \/ GiveBack(s) \/ TakeExit(s) \/ Exit(s)
           \/ Admit(s) \/ Run(s)
  <2>1. UNCHANGED <<todo, fe, fnxt, done, state, blocks, pend, tasks, phase>>
    BY <1>1 DEF Start, Released, Loop, Down, TakeNothing, GiveBack, TakeExit, Exit, Admit, Run,
       poolVars, workerVars, flowVars, callVars
  <2> QED BY <2>1, FlowQuiet
<1>t. (fe[s] = None /\ fnxt[s] = None) \/ pc[s] \in Busy
  BY DEF Base, WorkersOK, Busy
<1>2. CASE TakeOwn(s)
  <2>1. PICK k \in DOMAIN todo : fe' = [fe EXCEPT ![s] = todo[k]] /\ todo' = RemoveAt(todo, k)
    BY <1>2 DEF TakeOwn
  <2>2. UNCHANGED <<fnxt, done, state, blocks, pend, tasks, phase>> /\ pc[s] = "take"
    BY <1>2 DEF TakeOwn, At, flowVars, callVars
  <2>3. /\ todo[k] \in Events /\ todo[k] \in Range(todo)
        /\ IsInjective(todo') /\ Range(todo') = Range(todo) \ {todo[k]}
    <3>1. todo[k] \in Range(todo)
      BY DEF Range
    <3> QED BY <2>1, <3>1, Removed DEF Base, Types, Flow, Apart
  <2>4. fe[s] = None /\ fnxt[s] = None
    BY <1>t, <2>2 DEF Busy
  <2>5. Apart' /\ \A x \in Events : Located(x)' = Located(x)
    BY <2>1, <2>2, <2>3, <2>4, Taking DEF Flow
  <2> QED BY <2>2, <2>5, FlowMoves
<1>3. CASE TakeLast(s)
  <2>1. todo # <<>> /\ fe' = [fe EXCEPT ![s] = Last(todo)] /\ todo' = Front(todo)
    BY <1>3 DEF TakeLast
  <2>2. UNCHANGED <<fnxt, done, state, blocks, pend, tasks, phase>> /\ pc[s] = "take"
    BY <1>3 DEF TakeLast, At, flowVars, callVars
  <2>3. /\ Last(todo) \in Events /\ Last(todo) \in Range(todo)
        /\ IsInjective(todo') /\ Range(todo') = Range(todo) \ {Last(todo)}
    BY <2>1, Fronted DEF Base, Types, Flow, Apart
  <2>4. fe[s] = None /\ fnxt[s] = None
    BY <1>t, <2>2 DEF Busy
  <2>5. Apart' /\ \A x \in Events : Located(x)' = Located(x)
    BY <2>1, <2>2, <2>3, <2>4, Taking DEF Flow
  <2> QED BY <2>2, <2>5, FlowMoves
<1>4. CASE Refuse(s)
  <2>1. todo' = <<fe[s]>> \o todo /\ fe' = [fe EXCEPT ![s] = None]
    BY <1>4 DEF Refuse, Requeue
  <2>2. UNCHANGED <<fnxt, done, state, blocks, pend, tasks, phase>> /\ pc[s] = "begin"
    BY <1>4 DEF Refuse, At, flowVars, callVars
  <2>3. fe[s] \in Events /\ fnxt[s] = None
    BY <2>2, NoneApart DEF Base, Types, WorkersOK, Busy
  <2>4. fe[s] \notin Range(todo)
    BY <2>3 DEF Flow, Apart, Has
  <2>5. IsInjective(todo') /\ Range(todo') = Range(todo) \cup {fe[s]}
    BY <2>1, <2>3, <2>4, Prepended DEF Base, Types, Flow, Apart
  <2>6. Apart' /\ \A x \in Events : Located(x)' = Located(x)
    BY <2>1, <2>2, <2>3, <2>5, Refusing DEF Flow
  <2> QED BY <2>2, <2>6, FlowMoves
<1>5. CASE Skip(s) \/ Post(s)
  <2> DEFINE b == fe[s][1]
             k == fe[s][2]
  <2>1. /\ fe[s] \in Events /\ (Skip(s) => fnxt[s] = None) /\ DOMAIN fnxt = Workers
        /\ fnxt \in [Workers -> Events \cup {None}]
    BY <1>5, NoneApart DEF Skip, Post, Base, Types, WorkersOK, Busy
  <2>2. b \in Blocks /\ k \in Instrs(b) /\ fe[s] = <<b, k>>
    BY <2>1, EventsOK
  <2>3. /\ done' = [done EXCEPT ![b] = Append(@, k)]
        /\ Skip(s) => fe' = [fe EXCEPT ![s] = None] /\ fnxt' = fnxt
        /\ Post(s) => fe' = [fe EXCEPT ![s] = fnxt[s]] /\ fnxt' = [fnxt EXCEPT ![s] = None]
        /\ UNCHANGED <<todo, state, blocks, pend, tasks, phase>>
    BY <1>5 DEF Skip, Post, poolVars, callVars
  <2> HIDE DEF b, k
  <2>4. fe' = [fe EXCEPT ![s] = fnxt[s]] /\ fnxt' = [fnxt EXCEPT ![s] = None]
    BY <1>5, <2>1, <2>3
  <2>5. Apart' /\ \A x \in Events : Located(x)' = Located(x)
    BY <2>2, <2>3, <2>4, Ending DEF Flow
  <2> QED BY <2>3, <2>5, FlowMoves
<1>6. CASE WrapUp(s)
  BY <1>6, FlowWrapUp
<1> QED BY <1>1, <1>2, <1>3, <1>4, <1>5, <1>6 DEF Worker

\* Every step of a scheduler keeps Flow.
LEMMA FlowScheduler ==
    ASSUME Base, Flow, NEW b \in Blocks, Scheduler(b)
    PROVE Flow'
<1>1. CASE Join(b) \/ Joined(b) \/ RunSerially(b) \/ SerialStep(b) \/ SerialReturn(b) \/ Release(b) \/ Return(b)
  <2>1. UNCHANGED <<todo, fe, fnxt, done, state, blocks, pend>>
    BY <1>1
       DEF Join, Joined, RunSerially, SerialStep, SerialReturn, Release, Return, poolVars,
       workerVars, flowVars
  <2>2. /\ \A d \in Blocks \ {b} : phase'[d] = phase[d] /\ tasks'[d] = tasks[d]
        /\ <<phase[b], phase'[b]>> \in {<<"idle", "join">>, <<"join", "idle">>, <<"idle", "serial">>,
              <<"serial", "serial">>, <<"serial", "returned">>, <<"seed", "wait">>, <<"exit", "returned">>}
        /\ phase[b] # "serial" => tasks'[b] = tasks[b]
    BY <1>1
       DEF Base, FlowTypes, Join, Joined, RunSerially, SerialStep, SerialReturn, Release, Return, Go
  <2>3. Unstarted'
    BY <2>1, <2>2 DEF Flow, Unstarted
  <2>4. \A d \in Blocks : InUse(d)' = InUse(d) /\ (InUse(d) => tasks'[d] = tasks[d])
    BY <2>2 DEF InUse
  <2> QED BY <2>1, <2>3, <2>4, FlowPhases
<1> QED BY <1>1, FlowPick, FlowEnter, FlowHandle, FlowFinish DEF Scheduler

\* Init establishes Flow.
LEMMA FlowInit == Init => Flow
<1> SUFFICES ASSUME Init PROVE Flow
  OBVIOUS
<1>0. Base
  BY BaseInit
<1>1. Range(<<>>) = {} /\ IsInjective(<<>>)
  BY DEF Range, IsInjective
<1>2. \A e \in Events : \A s \in Workers : ~ Has(s, e)
  BY NoneApart DEF Init, Has
<1>3. \A e \in Events : ~ IsDone(e) /\ e \notin Range(todo)
  BY <1>1, EventsOK DEF Init, IsDone
<1>4. \A e \in Events : ~ Located(e)
  BY <1>2, <1>3 DEF Located
<1>5. Apart /\ Where
  BY <1>1, <1>2, <1>3, <1>4 DEF Init, Apart, Where
<1>6. PendOK /\ CountsOK /\ Unstarted
  BY DEF Init, PendOK, CountsOK, Unstarted, InUse
<1>7. \A b \in Blocks : Handled(b) = {}
  BY DEF Init, Handled
<1>8. \A b \in Blocks : \A i \in Instrs(b) : Waits(b, i) = EdgesTo(b, i)
  BY <1>7 DEF Waits, EdgesTo
<1>9. EdgesOK
  BY <1>8 DEF Init, EdgesOK
<1> QED BY <1>5, <1>6, <1>9 DEF Flow

\* Every step keeps Flow.
LEMMA FlowStep == Base /\ Flow /\ [Next]_vars => Flow'
<1> SUFFICES ASSUME Base, Flow, [Next]_vars PROVE Flow'
  OBVIOUS
<1>1. CASE Next
  BY <1>1, FlowWorker, FlowScheduler DEF Next
<1>2. CASE UNCHANGED vars
  <2>1. UNCHANGED <<todo, fe, fnxt, done, state, blocks, pend, tasks, phase>>
    BY <1>2 DEF vars, poolVars, workerVars, flowVars, callVars
  <2> QED BY <2>1, FlowQuiet
<1> QED BY <1>1, <1>2

\* Every instruction is in one place at a time, the count of what it waits for is that of
\* its edges from what is not handled, and the scheduler has counted what is handled.
THEOREM FlowInvariant == Spec => []Flow
BY FlowInit, FlowStep, BaseInvariant, PTL DEF Spec

\* Flow says where instructions of freed flows are: nowhere.
LEMMA FlowGivesLive == Base /\ Flow => FlowLive
<1> SUFFICES ASSUME Base, Flow PROVE FlowLive
  OBVIOUS
<1>1. ASSUME NEW k \in DOMAIN todo PROVE InUse(todo[k][1])
  <2>1. todo[k] \in Events /\ todo[k] \in Range(todo)
    BY ElementOfSeq, LenProperties DEF Base, Types, Range
  <2> QED BY <2>1 DEF Flow, Where, Located
<1>2. ASSUME NEW s \in Workers, NEW e \in {fe[s], fnxt[s]} \ {None} PROVE InUse(e[1])
  BY <1>2 DEF Base, Types, Flow, Where, Located, Has
<1>3. ASSUME NEW b \in Blocks, ~ InUse(b) PROVE done[b] = <<>>
  <2>1. \A i \in Instrs(b) : i \notin Range(done[b])
    BY <1>3, EventOf DEF Flow, Where, Located, IsDone
  <2>2. done[b] \in Seq(Instrs(b))
    BY DEF Base, FlowTypes
  <2>3. ASSUME done[b] # <<>> PROVE FALSE
    BY <2>1, <2>2, <2>3, Fronted
  <2> QED BY <2>3
<1> QED BY <1>1, <1>2, <1>3 DEF FlowLive

\* For any graphs, no worker and no queue has an instruction of a block whose flow is not
\* in use: DFLOWscheduler frees it when nobody looks at it any more (mal_dataflow.c:919).
THEOREM FlowAlwaysLive == Spec => []FlowLive
BY FlowGivesLive, FlowInvariant, BaseInvariant, PTL

-----------------------------------------------------------------------------
(* The order of execution: the inductive invariant *)

\* The stages of an instruction: fresh until it is executed, then with its worker until
\* its edges are looked at, then over.
Fresh(e) == \/ state[e[1]][e[2]] = "pending" \/ e \in Range(todo)
            \/ \E s \in Workers : fnxt[s] = e \/ (fe[s] = e /\ pc[s] \in {"begin", "run"})
AtWrap(e) == \E s \in Workers : fe[s] = e /\ pc[s] = "wrap"

\* Executed without an exception, unless the flow has an error anyway.
Well(e) == e[2] \in ran[e[1]] \ failed[e[1]] \/ flowerror[e[1]] # None

\* A block that is not over, and not run serially.
Unclosed == {"idle", "join", "seed", "wait"}

\* What was executed, seen from an instruction that is not, is and was executed.
Ran ==
    /\ \A e \in Events : phase[e[1]] \in Unclosed /\ Fresh(e) => e[2] \notin ran[e[1]]
    /\ \A s \in Workers : pc[s] = "wrap" =>
          fe[s][2] \in ran[fe[s][1]] /\ (error[s] <=> fe[s][2] \in failed[fe[s][1]])
    /\ \A s \in Workers : pc[s] = "run" =>
          Sources(fe[s][1], fe[s][2]) \subseteq ran[fe[s][1]] \ failed[fe[s][1]]

\* What is over went well, and what has been handed out waits for nothing else.
Sound == \A e \in Events : InUse(e[1]) =>
    /\ ~ Fresh(e) /\ ~ AtWrap(e) => Well(e)
    /\ state[e[1]][e[2]] # "pending" => \A k \in Sources(e[1], e[2]) : Well(<<e[1], k>>)

\* The histories before, during and after the run of a block.
Outcomes == \A b \in Blocks :
    /\ phase[b] \in {"idle", "join"} => ran[b] = {} /\ failed[b] = {}
    /\ phase[b] = "serial" => tasks[b] <= Size[b] /\ ran[b] = 1 .. tasks[b] /\ failed[b] \subseteq {tasks[b]}
    /\ phase[b] \notin {"exit", "returned"} => result[b] = None
    /\ flowerror[b] # None => InUse(b) /\ flowerror[b] \in failed[b]

Order == Ran /\ Sound /\ Outcomes

\* No instruction changes its stage.
SameStages == \A e \in Events : Fresh(e)' = Fresh(e) /\ AtWrap(e)' = AtWrap(e)

-----------------------------------------------------------------------------
(* Every action keeps Order *)

\* Ran holds after a step that executes nothing.
LEMMA RanKept ==
    ASSUME Base, Order, SameStages, UNCHANGED <<ran, failed>>,
           \A b \in Blocks : phase'[b] \in Unclosed => phase[b] \in Unclosed,
           \A s \in Workers : pc'[s] \in {"wrap", "run"} => pc'[s] = pc[s] /\ fe'[s] = fe[s] /\ error'[s] = error[s]
    PROVE  Ran'
<1>1. \A e \in Events : (phase[e[1]] \in Unclosed)' /\ Fresh(e)' => e[2] \notin ran'[e[1]]
  BY EventsOK DEF Order, Ran, SameStages, Unclosed
<1>2. \A s \in Workers : pc'[s] = "wrap" =>
          fe'[s][2] \in ran'[fe'[s][1]] /\ (error'[s] <=> fe'[s][2] \in failed'[fe'[s][1]])
  BY DEF Order, Ran
<1>3. \A s \in Workers : pc'[s] = "run" =>
          Sources(fe'[s][1], fe'[s][2]) \subseteq ran'[fe'[s][1]] \ failed'[fe'[s][1]]
  BY DEF Order, Ran
<1> QED BY <1>1, <1>2, <1>3 DEF Ran

\* Sound holds after a step that leaves every instruction in its stage.
LEMMA SoundKept ==
    ASSUME Base, Order, SameStages, UNCHANGED <<ran, failed, flowerror, state>>,
           \A b \in Blocks : InUse(b)' => InUse(b)
    PROVE  Sound'
<1>1. \A e \in Events : Well(e)' = Well(e) /\ (InUse(e[1])' => InUse(e[1])) /\ state'[e[1]][e[2]] = state[e[1]][e[2]]
  BY EventsOK DEF Well
<1>2. \A b \in Blocks : \A k \in Instrs(b) : Well(<<b, k>>)' = Well(<<b, k>>)
  BY DEF Well
<1>3. \A e \in Events : \A k \in Sources(e[1], e[2]) : e[1] \in Blocks /\ k \in Instrs(e[1])
  BY EventsOK DEF Sources
<1> QED BY <1>1, <1>2, <1>3 DEF Order, Sound, SameStages

\* Outcomes depends on these variables only.
LEMMA OutcomesKept ==
    ASSUME Base, Order, UNCHANGED <<ran, failed, flowerror, phase, tasks, result>>
    PROVE  Outcomes'
BY DEF Order, Outcomes, InUse

\* Order holds after a step that leaves every instruction in its stage.
LEMMA OrderMoves ==
    ASSUME Base, Order, SameStages, UNCHANGED <<ran, failed, flowerror, phase, tasks, result, state>>,
           \A s \in Workers : pc'[s] \in {"wrap", "run"} => pc'[s] = pc[s] /\ fe'[s] = fe[s] /\ error'[s] = error[s]
    PROVE  Order'
<1>1. Ran'
  BY RanKept
<1>2. Sound'
  BY SoundKept DEF InUse
<1> QED BY <1>1, <1>2, OutcomesKept DEF Order

\* Steps of a worker that has no instruction.
LEMMA OrderQuiet ==
    ASSUME Base, Order, NEW s \in Workers,
           Start(s) \/ Released(s) \/ Loop(s) \/ Down(s) \/ TakeNothing(s) \/ GiveBack(s) \/ TakeExit(s) \/ Exit(s)
    PROVE  Order'
<1>1. UNCHANGED <<todo, fe, fnxt, error, ran, failed, flowerror, phase, tasks, result, state>>
  BY DEF Start, Released, Loop, Down, TakeNothing, GiveBack, TakeExit, Exit, poolVars, workerVars,
     flowVars, callVars, histVars
<1>2. \A r \in Workers : pc'[r] # pc[r] => pc[r] \notin Busy /\ pc'[r] \notin Busy
  BY DEF Start, Released, Loop, Down, TakeNothing, GiveBack, TakeExit, Exit, At, GoesDown, Busy,
     Base, Types
<1>3. SameStages
  BY <1>1, <1>2 DEF SameStages, Fresh, AtWrap, Busy
<1> QED BY <1>1, <1>2, <1>3, OrderMoves DEF Busy

\* A worker takes an instruction from the queue.
LEMMA OrderTake ==
    ASSUME Base, Flow, Order, NEW s \in Workers, TakeOwn(s) \/ TakeLast(s)
    PROVE  Order'
<1>1. PICK e \in Events : /\ e \in Range(todo) /\ Range(todo') = Range(todo) \ {e}
                          /\ fe' = [fe EXCEPT ![s] = e]
  <2>1. CASE TakeOwn(s)
    <3>1. PICK k \in DOMAIN todo : fe' = [fe EXCEPT ![s] = todo[k]] /\ todo' = RemoveAt(todo, k)
      BY <2>1 DEF TakeOwn
    <3>2. todo[k] \in Range(todo)
      BY DEF Range
    <3> QED BY <3>1, <3>2, Removed DEF Base, Types, Flow, Apart
  <2>2. CASE TakeLast(s)
    BY <2>2, Fronted DEF TakeLast, Base, Types, Flow, Apart
  <2> QED BY <2>1, <2>2
<1>2. /\ pc[s] = "take" /\ pc' = [pc EXCEPT ![s] = "begin"]
      /\ UNCHANGED <<fnxt, error, ran, failed, flowerror, phase, tasks, result, state>>
  BY DEF TakeOwn, TakeLast, At, flowVars, callVars, histVars
<1>3. fe[s] = None /\ DOMAIN fe = Workers /\ DOMAIN pc = Workers /\ None \notin Events
  BY <1>2, NoneApart DEF Base, Types, WorkersOK, Busy
<1>4. SameStages
  <2>1. \A r \in Workers \ {s} : fe'[r] = fe[r] /\ pc'[r] = pc[r]
    BY <1>1, <1>2, <1>3
  <2>2. fe'[s] = e /\ pc'[s] = "begin"
    BY <1>1, <1>2, <1>3
  <2>3. \A x \in Events : Fresh(x)' = Fresh(x)
    BY <1>1, <1>2, <1>3, <2>1, <2>2 DEF Fresh
  <2>4. \A x \in Events : AtWrap(x)' = AtWrap(x)
    BY <1>2, <1>3, <2>1, <2>2 DEF AtWrap
  <2> QED BY <2>3, <2>4 DEF SameStages
<1> QED BY <1>1, <1>2, <1>3, <1>4, OrderMoves

\* A worker puts an instruction back.
LEMMA OrderRefuse ==
    ASSUME Base, Flow, Order, NEW s \in Workers, Refuse(s)
    PROVE Order'
<1>1. /\ pc[s] = "begin" /\ pc' = [pc EXCEPT ![s] = "loop"] /\ todo' = <<fe[s]>> \o todo /\ fe' = [fe EXCEPT ![s] = None]
      /\ UNCHANGED <<fnxt, error, ran, failed, flowerror, phase, tasks, result, state>>
  BY DEF Refuse, Requeue, At, flowVars, callVars, histVars
<1>2. fe[s] \in Events /\ DOMAIN fe = Workers /\ DOMAIN pc = Workers /\ None \notin Events
  BY <1>1, NoneApart DEF Base, Types, WorkersOK, Busy
<1>3. Range(todo') = Range(todo) \cup {fe[s]}
  BY <1>1, <1>2, Prepended DEF Base, Types
<1>4. SameStages
  <2>1. \A r \in Workers \ {s} : fe'[r] = fe[r] /\ pc'[r] = pc[r]
    BY <1>1, <1>2
  <2>2. fe'[s] = None /\ pc'[s] = "loop"
    BY <1>1, <1>2
  <2>3. \A x \in Events : Fresh(x)' = Fresh(x)
    BY <1>1, <1>2, <1>3, <2>1, <2>2 DEF Fresh
  <2>4. \A x \in Events : AtWrap(x)' = AtWrap(x)
    BY <1>1, <1>2, <2>1, <2>2 DEF AtWrap
  <2> QED BY <2>3, <2>4 DEF SameStages
<1> QED BY <1>1, <1>2, <1>4, OrderMoves

\* A worker reports an instruction.
LEMMA OrderPost ==
    ASSUME Base, Order, NEW s \in Workers, Post(s)
    PROVE Order'
<1>1. /\ pc[s] = "post" /\ pc' = [pc EXCEPT ![s] = IF fnxt[s] = None THEN "loop" ELSE "begin"]
      /\ fe' = [fe EXCEPT ![s] = fnxt[s]] /\ fnxt' = [fnxt EXCEPT ![s] = None] /\ error' = [error EXCEPT ![s] = FALSE]
      /\ UNCHANGED <<todo, ran, failed, flowerror, phase, tasks, result, state>>
  BY DEF Post, poolVars, callVars, histVars
<1>2. DOMAIN fe = Workers /\ DOMAIN pc = Workers /\ DOMAIN fnxt = Workers /\ DOMAIN error = Workers /\ None \notin Events
  BY NoneApart DEF Base, Types
<1>3. \A r \in Workers \ {s} : fe'[r] = fe[r] /\ pc'[r] = pc[r] /\ fnxt'[r] = fnxt[r] /\ error'[r] = error[r]
  BY <1>1, <1>2
<1>4. fe'[s] = fnxt[s] /\ fnxt'[s] = None /\ pc'[s] = IF fnxt[s] = None THEN "loop" ELSE "begin"
  BY <1>1, <1>2
<1>5. SameStages
  <2>1. \A x \in Events : Fresh(x)' = Fresh(x)
    BY <1>1, <1>2, <1>3, <1>4 DEF Fresh
  <2>2. \A x \in Events : AtWrap(x)' = AtWrap(x)
    BY <1>1, <1>3, <1>4 DEF AtWrap
  <2> QED BY <2>1, <2>2 DEF SameStages
<1>6. \A r \in Workers : pc'[r] \in {"wrap", "run"} => pc'[r] = pc[r] /\ fe'[r] = fe[r] /\ error'[r] = error[r]
  BY <1>3, <1>4
<1> QED BY <1>1, <1>5, <1>6, OrderMoves

\* An instruction whose count is 0 waits for nothing.
LEMMA NoSource ==
    ASSUME Base, Flow, NEW b \in Blocks, NEW i \in Instrs(b), state[b][i] = "pending", blocks[b][i] = 0,
           NEW j \in Sources(b, i)
    PROVE  j \in Handled(b)
<1>1. j \in Instrs(b) /\ i \in Range(Wakes[b][j])
  BY DEF Sources
<1>2. Edges(b, j, i) # {}
  BY <1>1 DEF Edges, Range
<1>3. Waits(b, i) \subseteq EdgesTo(b, i)
  BY DEF Waits, EdgesTo
<1>4. IsFiniteSet(Waits(b, i)) /\ Cardinality(Waits(b, i)) = 0
  BY <1>3, EdgesToNumber, FS_Subset DEF Flow, EdgesOK
<1>5. Waits(b, i) = {}
  BY <1>4, FS_EmptySet
<1> QED BY <1>1, <1>2, <1>5 DEF Waits

\* An instruction whose count is 1 waits for the one that is not handled yet.
LEMMA OnlySource ==
    ASSUME Base, Flow, NEW b \in Blocks, NEW i \in Instrs(b), state[b][i] = "pending", blocks[b][i] = 1,
           NEW k \in Instrs(b) \ Handled(b), i \in Range(Wakes[b][k]), NEW j \in Sources(b, i), j # k
    PROVE  j \in Handled(b)
<1>1. j \in Instrs(b) /\ i \in Range(Wakes[b][j])
  BY DEF Sources
<1>2. PICK p : p \in Edges(b, j, i)
  BY <1>1 DEF Edges, Range
<1>3. PICK q : q \in Edges(b, k, i)
  BY DEF Edges, Range
<1>4. p # q
  BY <1>2, <1>3 DEF Edges
<1>5. Waits(b, i) \subseteq EdgesTo(b, i)
  BY DEF Waits, EdgesTo
<1>6. IsFiniteSet(Waits(b, i)) /\ Cardinality(Waits(b, i)) = 1
  BY <1>5, EdgesToNumber, FS_Subset DEF Flow, EdgesOK
<1>7. q \in Waits(b, i)
  BY <1>3 DEF Waits
<1>8. Cardinality(Waits(b, i) \ {q}) = 0 /\ IsFiniteSet(Waits(b, i) \ {q})
  BY <1>6, <1>7, FS_RemoveElement
<1>9. Waits(b, i) \ {q} = {}
  BY <1>8, FS_EmptySet
<1> QED BY <1>1, <1>2, <1>4, <1>9 DEF Waits

\* What a worker starts to run has no source that failed: the flow has no error.
LEMMA OrderAdmit ==
    ASSUME Base, Flow, Order, NEW s \in Workers, Admit(s)
    PROVE Order'
<1>1. /\ pc[s] = "begin" /\ pc' = [pc EXCEPT ![s] = "run"] /\ flowerror[fe[s][1]] = None
      /\ UNCHANGED <<todo, fe, fnxt, error, ran, failed, flowerror, phase, tasks, result, state>>
  BY DEF Admit, At, poolVars, flowVars, callVars, histVars
<1> DEFINE e == fe[s]
<1>2. e \in Events /\ DOMAIN pc = Workers /\ e[1] \in Blocks /\ e[2] \in Instrs(e[1]) /\ e = <<e[1], e[2]>>
  BY <1>1, NoneApart, EventsOK DEF Base, Types, WorkersOK, Busy
<1>3. state[e[1]][e[2]] # "pending" /\ InUse(e[1])
  BY <1>2 DEF Flow, Where, Located, Has
<1>4. Sources(e[1], e[2]) \subseteq ran[e[1]] \ failed[e[1]]
  BY <1>1, <1>2, <1>3 DEF Order, Sound, Well
<1>5. SameStages
  BY <1>1, <1>2 DEF SameStages, Fresh, AtWrap
<1>6. Sound'
  BY <1>1, <1>5, SoundKept DEF InUse
<1>7. Outcomes'
  BY <1>1, OutcomesKept
<1>8. Ran'
  <2>1. \A x \in Events : (phase[x[1]] \in Unclosed)' /\ Fresh(x)' => x[2] \notin ran'[x[1]]
    BY <1>1, <1>5 DEF Order, Ran, SameStages
  <2>2. \A r \in Workers : pc'[r] = "wrap" =>
            fe'[r][2] \in ran'[fe'[r][1]] /\ (error'[r] <=> fe'[r][2] \in failed'[fe'[r][1]])
    BY <1>1, <1>2 DEF Order, Ran
  <2>3. ASSUME NEW r \in Workers, pc'[r] = "run"
        PROVE  Sources(fe'[r][1], fe'[r][2]) \subseteq ran'[fe'[r][1]] \ failed'[fe'[r][1]]
    <3>1. CASE r = s
      BY <1>1, <1>4, <3>1
    <3>2. CASE r # s
      <4>1. pc[r] = "run"
        BY <1>1, <1>2, <2>3, <3>2
      <4> QED BY <1>1, <4>1 DEF Order, Ran
    <3> QED BY <3>1, <3>2
  <2> QED BY <2>1, <2>2, <2>3 DEF Ran
<1> QED BY <1>6, <1>7, <1>8 DEF Order

\* What is skipped belongs to a flow with an error.
LEMMA OrderSkip ==
    ASSUME Base, Flow, Order, NEW s \in Workers, Skip(s)
    PROVE Order'
<1>1. /\ pc[s] = "begin" /\ pc' = [pc EXCEPT ![s] = "loop"] /\ flowerror[fe[s][1]] # None
      /\ fe' = [fe EXCEPT ![s] = None]
      /\ UNCHANGED <<todo, fnxt, error, ran, failed, flowerror, phase, tasks, result, state>>
  BY DEF Skip, poolVars, callVars, histVars
<1> DEFINE e == fe[s]
<1>2. e \in Events /\ DOMAIN pc = Workers /\ DOMAIN fe = Workers /\ None \notin Events
  BY <1>1, NoneApart, EventsOK DEF Base, Types, WorkersOK, Busy
<1>3. /\ \A r \in Workers \ {s} : fe'[r] = fe[r] /\ pc'[r] = pc[r]
      /\ fe'[s] = None /\ pc'[s] = "loop"
  BY <1>1, <1>2
<1> HIDE DEF e
<1>4. \A x \in Events : /\ Fresh(x)' => Fresh(x)
                        /\ x # e => Fresh(x)' = Fresh(x)
                        /\ AtWrap(x)' = AtWrap(x)
  BY <1>1, <1>2, <1>3 DEF Fresh, AtWrap, e
<1>5. \A r \in Workers : pc'[r] \in {"wrap", "run"} => pc'[r] = pc[r] /\ fe'[r] = fe[r]
  BY <1>3
<1>6. Ran'
  <2>1. \A x \in Events : (phase[x[1]] \in Unclosed)' /\ Fresh(x)' => x[2] \notin ran'[x[1]]
    BY <1>1, <1>4 DEF Order, Ran
  <2>2. \A r \in Workers : pc'[r] = "wrap" =>
            fe'[r][2] \in ran'[fe'[r][1]] /\ (error'[r] <=> fe'[r][2] \in failed'[fe'[r][1]])
    BY <1>1, <1>5 DEF Order, Ran
  <2>3. \A r \in Workers : pc'[r] = "run" =>
            Sources(fe'[r][1], fe'[r][2]) \subseteq ran'[fe'[r][1]] \ failed'[fe'[r][1]]
    BY <1>1, <1>5 DEF Order, Ran
  <2> QED BY <2>1, <2>2, <2>3 DEF Ran
<1>7. \A x \in Events : Well(x)' = Well(x) /\ (InUse(x[1])' = InUse(x[1]))
  BY <1>1 DEF Well, InUse
<1>8. \A b \in Blocks : \A k \in Instrs(b) : Well(<<b, k>>)' = Well(<<b, k>>)
  BY <1>1 DEF Well
<1>9. \A x \in Events : \A k \in Sources(x[1], x[2]) : x[1] \in Blocks /\ k \in Instrs(x[1])
  BY EventsOK DEF Sources
<1>10. Well(e)
  BY <1>1 DEF Well, e
<1>11. Sound'
  BY <1>1, <1>4, <1>7, <1>8, <1>9, <1>10 DEF Order, Sound
<1> QED BY <1>1, <1>6, <1>11, OutcomesKept DEF Order

\* What a worker goes on with waited for its last instruction only, which ran well.
LEMMA OrderWrapUp ==
    ASSUME Base, Flow, Order, NEW s \in Workers, WrapUp(s)
    PROVE Order'
<1> DEFINE e == fe[s]
           b == fe[s][1]
           k == fe[s][2]
<1>1. /\ e \in Events /\ fnxt[s] = None /\ b \in Blocks /\ k \in Instrs(b) /\ e = <<b, k>> /\ None \notin Events
      /\ DOMAIN state = Blocks /\ DOMAIN fnxt = Workers /\ DOMAIN pc = Workers /\ DOMAIN flowerror = Blocks
      /\ \A d \in Blocks : DOMAIN state[d] = Instrs(d)
  BY NoneApart, EventsOK DEF Base, Types, FlowTypes, WorkersOK, Busy, WrapUp, At
<1>2. /\ UNCHANGED <<todo, fe, error, phase, tasks, result, ran, failed>>
      /\ pc[s] = "wrap" /\ pc' = [pc EXCEPT ![s] = "post"]
  BY DEF WrapUp, At, poolVars, callVars, histVars
<1>3. InUse(b) /\ state[b][k] # "pending" /\ Has(s, e) /\ e \notin Range(todo) /\ \A r \in Workers \ {s} : ~ Has(r, e)
  BY <1>1 DEF Flow, Apart, Where, Located, Has
<1>4. k \in ran[b] /\ (error[s] <=> k \in failed[b])
  BY <1>2 DEF Order, Ran
<1>5. /\ pc'[s] = "post" /\ \A r \in Workers \ {s} : pc'[r] = pc[r]
  BY <1>1, <1>2
<1>6. /\ error[s] => /\ state' = [state EXCEPT ![b][k] = "wrapup"] /\ fnxt' = fnxt
                     /\ flowerror' = IF flowerror[b] = None THEN [flowerror EXCEPT ![b] = k] ELSE flowerror
      /\ ~ error[s] => /\ flowerror' = flowerror
                       /\ \/ state' = [state EXCEPT ![b][k] = "wrapup"] /\ fnxt' = fnxt
                          \/ \E i \in FirstEligible(b, k) :
                                /\ state' = [state EXCEPT ![b] = [@ EXCEPT ![k] = "wrapup", ![i] = "running"]]
                                /\ fnxt' = [fnxt EXCEPT ![s] = <<b, i>>]
  BY DEF WrapUp
<1> HIDE DEF e, b, k
<1>7. /\ \A d \in Blocks : flowerror[d] # None => flowerror'[d] # None
      /\ error[s] => flowerror'[b] # None
      /\ Outcomes'
  <2>1. CASE error[s] /\ flowerror[b] = None
    <3>1. flowerror'[b] = k /\ \A d \in Blocks \ {b} : flowerror'[d] = flowerror[d]
      BY <1>1, <1>6, <2>1
    <3>2. k # None
      BY <1>1, NoneApart
    <3>3. Outcomes'
      BY <1>2, <1>3, <1>4, <2>1, <3>1 DEF Order, Outcomes, InUse
    <3> QED BY <3>1, <3>2, <3>3
  <2>2. CASE ~ (error[s] /\ flowerror[b] = None)
    <3>1. flowerror' = flowerror
      BY <1>6, <2>2
    <3> QED BY <1>2, <2>2, <3>1, OutcomesKept
  <2> QED BY <2>1, <2>2
<1>8. \A x \in Events : Well(x) => Well(x)'
  BY <1>2, <1>7, EventsOK DEF Well
<1>9. \A x \in Events : x = e => Well(x)'
  BY <1>1, <1>2, <1>4, <1>7 DEF Well
<1>10. \A x \in Events : AtWrap(x)' <=> AtWrap(x) /\ x # e
  BY <1>2, <1>3, <1>5 DEF AtWrap, Has, e
<1>11. /\ \A x \in Events : Fresh(x)' = Fresh(x)
       /\ \A x \in Events : state'[x[1]][x[2]] # "pending" =>
             state[x[1]][x[2]] # "pending" \/ (~ error[s] /\ x[1] = b /\ x[2] \in FirstEligible(b, k))
  <2>1. CASE state' = [state EXCEPT ![b][k] = "wrapup"] /\ fnxt' = fnxt
    <3>1. \A x \in Events : state'[x[1]][x[2]] = "pending" <=> state[x[1]][x[2]] = "pending"
      BY <1>1, <1>3, <2>1, EventsOK
    <3>2. \A x \in Events : Fresh(x)' = Fresh(x)
      BY <1>2, <1>5, <2>1, <3>1 DEF Fresh
    <3> QED BY <3>1, <3>2
  <2>2. ASSUME ~ error[s], NEW i \in FirstEligible(b, k),
               state' = [state EXCEPT ![b] = [@ EXCEPT ![k] = "wrapup", ![i] = "running"]],
               fnxt' = [fnxt EXCEPT ![s] = <<b, i>>]
        PROVE  /\ \A x \in Events : Fresh(x)' = Fresh(x)
               /\ \A x \in Events : state'[x[1]][x[2]] # "pending" =>
                     state[x[1]][x[2]] # "pending" \/ (~ error[s] /\ x[1] = b /\ x[2] \in FirstEligible(b, k))
    <3>1. i \in Instrs(b) /\ state[b][i] = "pending" /\ <<b, i>> \in Events
      BY <1>1, FirstIsEligible, EventOf DEF Eligible
    <3>2. \A x \in Events : state'[x[1]][x[2]] = IF x = <<b, i>> THEN "running" ELSE IF x = e THEN "wrapup"
                                                ELSE state[x[1]][x[2]]
      <4>1. \A d \in Blocks : \A j \in Instrs(d) :
               state'[d][j] = IF d = b /\ j = i THEN "running" ELSE IF d = b /\ j = k THEN "wrapup" ELSE state[d][j]
        BY <1>1, <2>2, <3>1
      <4> QED BY <1>1, <4>1, EventsOK
    <3>3. \A x \in Events : state'[x[1]][x[2]] = "pending" <=> state[x[1]][x[2]] = "pending" /\ x # <<b, i>>
      BY <1>1, <1>3, <3>2
    <3>4. \A r \in Workers : fnxt'[r] = IF r = s THEN <<b, i>> ELSE fnxt[r]
      BY <1>1, <2>2
    <3>5. \A x \in Events : Fresh(x)' = Fresh(x)
      BY <1>1, <1>2, <1>5, <3>1, <3>3, <3>4 DEF Fresh
    <3>6. \A x \in Events : state'[x[1]][x[2]] # "pending" => state[x[1]][x[2]] # "pending" \/ x = <<b, i>>
      BY <3>3
    <3> QED BY <2>2, <3>5, <3>6
  <2> QED BY <1>6, <2>1, <2>2
<1>12. Ran'
  <2>1. \A x \in Events : (phase[x[1]] \in Unclosed)' /\ Fresh(x)' => x[2] \notin ran'[x[1]]
    BY <1>2, <1>11 DEF Order, Ran
  <2>2. \A r \in Workers : pc'[r] = "wrap" =>
            fe'[r][2] \in ran'[fe'[r][1]] /\ (error'[r] <=> fe'[r][2] \in failed'[fe'[r][1]])
    BY <1>2, <1>5 DEF Order, Ran
  <2>3. \A r \in Workers : pc'[r] = "run" =>
            Sources(fe'[r][1], fe'[r][2]) \subseteq ran'[fe'[r][1]] \ failed'[fe'[r][1]]
    BY <1>2, <1>5 DEF Order, Ran
  <2> QED BY <2>1, <2>2, <2>3 DEF Ran
<1>13. Sound'
  <2> SUFFICES ASSUME NEW x \in Events, InUse(x[1])'
               PROVE  /\ ~ Fresh(x)' /\ ~ AtWrap(x)' => Well(x)'
                      /\ state'[x[1]][x[2]] # "pending" => \A j \in Sources(x[1], x[2]) : Well(<<x[1], j>>)'
    BY DEF Sound
  <2>0. InUse(x[1])
    BY <1>2 DEF InUse
  <2>1. ~ Fresh(x)' /\ ~ AtWrap(x)' => Well(x)'
    BY <1>8, <1>9, <1>10, <1>11, <2>0 DEF Order, Sound
  <2>2. ASSUME state'[x[1]][x[2]] # "pending", NEW j \in Sources(x[1], x[2]) PROVE Well(<<x[1], j>>)'
    <3>1. x[1] \in Blocks /\ x[2] \in Instrs(x[1]) /\ j \in Instrs(x[1]) /\ <<x[1], j>> \in Events
      BY EventsOK, EventOf DEF Sources
    <3>2. CASE state[x[1]][x[2]] # "pending"
      BY <1>8, <2>0, <3>1, <3>2 DEF Order, Sound
    <3>3. CASE state[x[1]][x[2]] = "pending"
      <4>1. ~ error[s] /\ x[1] = b /\ x[2] \in FirstEligible(b, k)
        BY <1>11, <2>2, <3>3
      <4>2. blocks[b][x[2]] = 1 /\ x[2] \in Range(Wakes[b][k])
        BY <1>1, <4>1, FirstIsEligible DEF Eligible
      <4>3. CASE j = k
        BY <1>1, <1>9, <3>1, <4>1, <4>3
      <4>4. CASE j # k
        <5>1. k \notin Handled(b) /\ k \in Instrs(b)
          BY <1>1, <1>3 DEF Handled, Located
        <5>2. j \in Handled(b)
          BY <1>1, <3>1, <3>3, <4>1, <4>2, <4>4, <5>1, OnlySource
        <5>3. state[b][j] # "pending" /\ ~ Located(<<b, j>>)
          BY <5>2 DEF Handled
        <5>4. ~ Fresh(<<b, j>>) /\ ~ AtWrap(<<b, j>>)
          BY <5>3 DEF Fresh, AtWrap, Located, Has
        <5>5. Well(<<b, j>>)
          BY <1>3, <3>1, <4>1, <5>4 DEF Order, Sound
        <5> QED BY <1>8, <3>1, <4>1, <5>5
      <4> QED BY <4>3, <4>4
    <3> QED BY <3>2, <3>3
  <2> QED BY <2>1, <2>2
<1> QED BY <1>7, <1>12, <1>13 DEF Order

\* What runs has not been run before.
LEMMA OrderRun ==
    ASSUME Base, Flow, Order, NEW s \in Workers, Run(s)
    PROVE Order'
<1>1. PICK e \in Events : e = fe[s]
  BY NoneApart DEF Base, Types, WorkersOK, Busy, Run, At
<1>0. PICK b \in Blocks : e[1] = b
  BY EventsOK
<1>2. PICK k \in Instrs(b) : e[2] = k
  BY <1>0, EventsOK
<1>e. e = <<b, k>> /\ fe[s] = e /\ fe[s][1] = b /\ fe[s][2] = k
  BY <1>0, <1>1, <1>2, EventsOK
<1>3. PICK raises \in BOOLEAN :
         /\ error' = [error EXCEPT ![s] = raises]
         /\ ran' = [ran EXCEPT ![b] = @ \cup {k}]
         /\ failed' = IF raises THEN [failed EXCEPT ![b] = @ \cup {k}] ELSE failed
  BY <1>e DEF Run, Raises
<1>4. /\ pc[s] = "run" /\ pc' = [pc EXCEPT ![s] = "wrap"]
      /\ UNCHANGED <<todo, fe, fnxt, state, flowerror, phase, tasks, result>>
  BY DEF Run, At, poolVars, flowVars, callVars
<1>5. /\ DOMAIN pc = Workers /\ DOMAIN error = Workers /\ DOMAIN ran = Blocks /\ DOMAIN failed = Blocks
      /\ None \notin Events /\ fnxt[s] = None /\ failed[b] \subseteq ran[b]
      /\ \A r \in Workers : pc[r] \in {"run", "wrap"} => fe[r] \in Events
  BY <1>4, NoneApart DEF Base, Types, FlowTypes, WorkersOK, Busy
<1>6. InUse(b) /\ state[b][k] # "pending" /\ Has(s, e) /\ e \notin Range(todo) /\ \A r \in Workers \ {s} : ~ Has(r, e)
  BY <1>0, <1>2, <1>e DEF Flow, Apart, Where, Located, Has
<1>7. k \notin ran[b]
  BY <1>0, <1>2, <1>e, <1>4, <1>6 DEF Order, Ran, Fresh, InUse, Unclosed
<1>8. /\ pc'[s] = "wrap" /\ \A r \in Workers \ {s} : pc'[r] = pc[r] /\ error'[r] = error[r]
      /\ error'[s] = raises
  BY <1>3, <1>4, <1>5
<1>9. /\ ran'[b] = ran[b] \cup {k} /\ failed'[b] = IF raises THEN failed[b] \cup {k} ELSE failed[b]
      /\ \A d \in Blocks \ {b} : ran'[d] = ran[d] /\ failed'[d] = failed[d]
  BY <1>3, <1>5
<1>10. \A x \in Events : /\ x[2] \in ran'[x[1]] <=> x[2] \in ran[x[1]] \/ x = e
                         /\ x[2] \in failed'[x[1]] <=> x[2] \in failed[x[1]] \/ (raises /\ x = e)
  BY <1>0, <1>2, <1>e, <1>9, EventsOK
<1>11. \A x \in Events : /\ Fresh(x)' <=> Fresh(x) /\ x # e
                         /\ AtWrap(x)' <=> AtWrap(x) \/ x = e
  BY <1>0, <1>2, <1>e, <1>4, <1>5, <1>6, <1>8 DEF Fresh, AtWrap, Has
<1>12. \A x \in Events : Well(x) => Well(x)'
  BY <1>0, <1>2, <1>e, <1>4, <1>7, <1>10, EventsOK DEF Well
<1>13. Ran'
  <2>1. \A x \in Events : (phase[x[1]] \in Unclosed)' /\ Fresh(x)' => x[2] \notin ran'[x[1]]
    BY <1>4, <1>10, <1>11 DEF Order, Ran
  <2>2. ASSUME NEW r \in Workers, pc'[r] = "wrap"
        PROVE  fe'[r][2] \in ran'[fe'[r][1]] /\ (error'[r] <=> fe'[r][2] \in failed'[fe'[r][1]])
    <3>1. CASE r = s
      <4>1. fe'[s] = <<b, k>> /\ k \notin failed[b]
        BY <1>e, <1>4, <1>5, <1>7
      <4> QED BY <1>8, <1>9, <3>1, <4>1
    <3>2. CASE r # s
      <4>1. pc[r] = "wrap" /\ fe[r] \in Events /\ fe[r] # e
        BY <1>5, <1>6, <1>8, <2>2, <3>2 DEF Has
      <4> QED BY <1>4, <1>8, <1>10, <3>2, <4>1 DEF Order, Ran
    <3> QED BY <3>1, <3>2
  <2>3. ASSUME NEW r \in Workers, pc'[r] = "run"
        PROVE  Sources(fe'[r][1], fe'[r][2]) \subseteq ran'[fe'[r][1]] \ failed'[fe'[r][1]]
    <3>1. pc[r] = "run" /\ fe[r] \in Events
      BY <1>5, <1>8, <2>3
    <3>2. fe[r][1] \in Blocks
      BY <3>1, EventsOK
    <3>3. Sources(fe[r][1], fe[r][2]) \subseteq ran[fe[r][1]] \ failed[fe[r][1]]
      BY <3>1 DEF Order, Ran
    <3> QED BY <1>4, <1>7, <1>9, <3>2, <3>3
  <2> QED BY <2>1, <2>2, <2>3 DEF Ran
<1>14. Sound'
  <2> SUFFICES ASSUME NEW x \in Events, InUse(x[1])'
               PROVE  /\ ~ Fresh(x)' /\ ~ AtWrap(x)' => Well(x)'
                      /\ state'[x[1]][x[2]] # "pending" => \A j \in Sources(x[1], x[2]) : Well(<<x[1], j>>)'
    BY DEF Sound
  <2>0. InUse(x[1])
    BY <1>4 DEF InUse
  <2>1. ~ Fresh(x)' /\ ~ AtWrap(x)' => Well(x)'
    BY <1>11, <1>12, <2>0 DEF Order, Sound
  <2>2. \A j \in Sources(x[1], x[2]) : <<x[1], j>> \in Events
    BY EventsOK, EventOf DEF Sources
  <2> QED BY <1>4, <1>12, <2>0, <2>1, <2>2 DEF Order, Sound
<1>15. Outcomes'
  BY <1>4, <1>6, <1>9 DEF Order, Outcomes, InUse
<1> QED BY <1>13, <1>14, <1>15 DEF Order

\* Steps of a scheduler that leave the instructions where they are.
LEMMA OrderPhases ==
    ASSUME Base, Flow, Order, NEW b \in Blocks,
           Join(b) \/ Joined(b) \/ RunSerially(b) \/ SerialReturn(b) \/ Release(b) \/ Return(b) \/ Handle(b)
    PROVE  Order'
<1>1. UNCHANGED <<todo, fe, fnxt, pc, error, state, flowerror, ran, failed>>
  BY DEF Join, Joined, RunSerially, SerialReturn, Release, Return, Handle, poolVars, workerVars,
     flowVars, histVars
<1>2. /\ \A d \in Blocks \ {b} : phase'[d] = phase[d] /\ tasks'[d] = tasks[d] /\ result'[d] = result[d]
      /\ <<phase[b], phase'[b]>> \in {<<"idle", "join">>, <<"join", "idle">>, <<"idle", "serial">>,
            <<"serial", "returned">>, <<"seed", "wait">>, <<"exit", "returned">>, <<"wait", "wait">>}
      /\ phase[b] # "wait" => tasks'[b] = tasks[b]
      /\ phase[b] # "serial" => result'[b] = result[b]
  <2>1. CASE Join(b) \/ Joined(b) \/ RunSerially(b)
    BY <2>1 DEF Base, FlowTypes, Join, Joined, RunSerially, Go
  <2>2. CASE Release(b) \/ Return(b)
    BY <2>2 DEF Base, FlowTypes, Release, Return, Go
  <2>3. CASE SerialReturn(b)
    <3>1. UNCHANGED tasks /\ phase[b] = "serial" /\ phase'[b] = "returned" /\ \A d \in Blocks \ {b} : phase'[d] = phase[d]
      BY <2>3 DEF Base, FlowTypes, SerialReturn, Go
    <3>2. \A d \in Blocks \ {b} : result'[d] = result[d]
      BY <2>3 DEF Base, FlowTypes, SerialReturn
    <3> QED BY <3>1, <3>2
  <2>4. CASE Handle(b)
    BY <2>4 DEF Base, FlowTypes, Handle
  <2> QED BY <2>1, <2>2, <2>3, <2>4
<1>3. SameStages
  BY <1>1 DEF SameStages, Fresh, AtWrap
<1>4. \A d \in Blocks : InUse(d)' = InUse(d)
  BY <1>2 DEF InUse
<1>5. \A d \in Blocks : phase'[d] \in Unclosed => phase[d] \in Unclosed
  BY <1>2 DEF Unclosed
<1>6. Ran' /\ Sound'
  BY <1>1, <1>3, <1>4, <1>5, RanKept, SoundKept
<1>7. Outcomes'
  <2>1. phase[b] = "idle" => tasks[b] = 0 /\ Size[b] \in Nat
    BY BlocksOK DEF Flow, Unstarted
  <2> SUFFICES ASSUME NEW d \in Blocks
               PROVE  /\ phase'[d] \in {"idle", "join"} => ran[d] = {} /\ failed[d] = {}
                      /\ phase'[d] = "serial" =>
                            tasks'[d] <= Size[d] /\ ran[d] = 1 .. tasks'[d] /\ failed[d] \subseteq {tasks'[d]}
                      /\ phase'[d] \notin {"exit", "returned"} => result'[d] = None
                      /\ flowerror[d] # None => InUse(d) /\ flowerror[d] \in failed[d]
    BY <1>1, <1>4 DEF Outcomes
  <2>2. CASE d # b
    BY <1>2, <2>2 DEF Order, Outcomes
  <2>3. CASE d = b /\ phase[b] = "idle" /\ phase'[b] = "serial"
    <3>1. tasks'[b] = 0 /\ 0 <= Size[b] /\ result'[b] = None /\ ran[b] = {} /\ failed[b] = {} /\ 1 .. 0 = {}
      BY <1>2, <2>1, <2>3 DEF Order, Outcomes
    <3> QED BY <2>3, <3>1 DEF Order, Outcomes
  <2>4. CASE d = b /\ ~ (phase[b] = "idle" /\ phase'[b] = "serial")
    BY <1>2, <2>4 DEF Order, Outcomes
  <2> QED BY <2>2, <2>3, <2>4
<1> QED BY <1>6, <1>7 DEF Order

\* A serial step runs the next instruction.
LEMMA OrderSerialStep ==
    ASSUME Base, Flow, Order, NEW b \in Blocks, SerialStep(b)
    PROVE Order'
<1> DEFINE i == tasks[b] + 1
<1>1. /\ UNCHANGED <<todo, fe, fnxt, pc, error, state, flowerror, phase, result>>
      /\ phase[b] = "serial" /\ i <= Size[b] /\ failed[b] = {} /\ tasks[b] \in Nat
      /\ ran' = [ran EXCEPT ![b] = @ \cup {i}] /\ tasks' = [tasks EXCEPT ![b] = i]
      /\ failed' = failed \/ failed' = [failed EXCEPT ![b] = {i}]
  BY DEF SerialStep, Base, FlowTypes, poolVars, workerVars, flowVars
<1>2. /\ ran'[b] = ran[b] \cup {i} /\ tasks'[b] = i /\ failed'[b] \subseteq {i}
      /\ \A d \in Blocks \ {b} : ran'[d] = ran[d] /\ failed'[d] = failed[d] /\ tasks'[d] = tasks[d]
  BY <1>1 DEF Base, FlowTypes
<1>3. SameStages
  BY <1>1 DEF SameStages, Fresh, AtWrap
<1>4. \A d \in Blocks : InUse(d)' = InUse(d) /\ (InUse(d) \/ phase[d] \in Unclosed => d # b)
  BY <1>1 DEF InUse, Unclosed
<1>5. \A s \in Workers : pc[s] \in {"wrap", "run"} => fe[s] \in Events /\ fe[s][1] \in Blocks \ {b}
  <2> SUFFICES ASSUME NEW s \in Workers, pc[s] \in {"wrap", "run"} PROVE fe[s] \in Events /\ fe[s][1] \in Blocks \ {b}
    OBVIOUS
  <2>1. fe[s] \in Events
    BY NoneApart DEF Base, Types, WorkersOK, Busy
  <2>2. InUse(fe[s][1])
    BY <2>1 DEF Flow, Where, Located, Has
  <2> QED BY <1>4, <2>1, <2>2, EventsOK
<1> HIDE DEF i
<1>6. Ran'
  <2>1. \A x \in Events : (phase[x[1]] \in Unclosed)' /\ Fresh(x)' => x[2] \notin ran'[x[1]]
    BY <1>1, <1>2, <1>3, <1>4, EventsOK DEF Order, Ran, SameStages
  <2>2. \A r \in Workers : pc'[r] = "wrap" =>
            fe'[r][2] \in ran'[fe'[r][1]] /\ (error'[r] <=> fe'[r][2] \in failed'[fe'[r][1]])
    BY <1>1, <1>2, <1>5 DEF Order, Ran
  <2>3. \A r \in Workers : pc'[r] = "run" =>
            Sources(fe'[r][1], fe'[r][2]) \subseteq ran'[fe'[r][1]] \ failed'[fe'[r][1]]
    BY <1>1, <1>2, <1>5 DEF Order, Ran
  <2> QED BY <2>1, <2>2, <2>3 DEF Ran
<1>7. Sound'
  <2>1. \A x \in Events : x[1] \in Blocks \ {b} => Well(x)' = Well(x)
    BY <1>1, <1>2 DEF Well
  <2>2. \A x \in Events : \A j \in Sources(x[1], x[2]) : <<x[1], j>> \in Events
    BY EventsOK, EventOf DEF Sources
  <2>3. \A x \in Events : InUse(x[1])' => x[1] \in Blocks \ {b} /\ InUse(x[1])
    BY <1>4, EventsOK
  <2> QED BY <1>1, <1>3, <2>1, <2>2, <2>3 DEF Order, Sound, SameStages
<1>8. ran'[b] = 1 .. i
  <2>1. ran[b] = 1 .. tasks[b]
    BY <1>1 DEF Order, Outcomes
  <2>2. (1 .. tasks[b]) \cup {i} = 1 .. i
    BY <1>1 DEF i
  <2> QED BY <1>2, <2>1, <2>2
<1>9. Outcomes'
  BY <1>1, <1>2, <1>4, <1>8 DEF Order, Outcomes
<1> QED BY <1>6, <1>7, <1>9 DEF Order

\* Pick starts with a block of which nothing was run.
LEMMA OrderPick ==
    ASSUME Base, Flow, Order, NEW b \in Blocks, Pick(b)
    PROVE Order'
<1>1. PICK w \in Workers : flag[w] = "IDLE" /\ pc' = [pc EXCEPT ![w] = "start"]
  BY DEF Pick
<1>2. /\ UNCHANGED <<todo, fe, fnxt, error, state, flowerror, ran, failed, tasks, result>>
      /\ phase[b] = "idle" /\ phase' = [phase EXCEPT ![b] = "seed"]
  BY DEF Pick, Go, poolVars, flowVars, histVars
<1>3. /\ pc[w] = "off" /\ pc'[w] = "start" /\ \A r \in Workers \ {w} : pc'[r] = pc[r]
      /\ phase'[b] = "seed" /\ \A d \in Blocks \ {b} : phase'[d] = phase[d]
  BY <1>1, <1>2 DEF Base, Types, FlowTypes, WorkersOK
<1>4. SameStages
  BY <1>2, <1>3 DEF SameStages, Fresh, AtWrap
<1>5. Ran'
  BY <1>2, <1>3, <1>4, RanKept DEF Unclosed
<1>6. \A x \in Events : x[1] = b => state[x[1]][x[2]] = "pending" /\ Fresh(x)
  BY <1>2, EventsOK DEF Flow, Unstarted, Fresh
<1>7. Sound'
  <2>1. \A x \in Events : /\ Well(x)' = Well(x) /\ (InUse(x[1])' => x[1] = b \/ InUse(x[1]))
    BY <1>2, <1>3, EventsOK DEF Well, InUse
  <2>2. \A x \in Events : \A j \in Sources(x[1], x[2]) : <<x[1], j>> \in Events
    BY EventsOK, EventOf DEF Sources
  <2> QED BY <1>2, <1>4, <1>6, <2>1, <2>2 DEF Order, Sound, SameStages
<1>8. Outcomes'
  BY <1>2, <1>3 DEF Order, Outcomes, InUse
<1> QED BY <1>5, <1>7, <1>8 DEF Order

\* Finish makes the error of the flow the result.
LEMMA OrderFinish ==
    ASSUME Base, Flow, Order, NEW b \in Blocks, Finish(b)
    PROVE Order'
<1>1. /\ UNCHANGED <<todo, pc, fe, fnxt, error, state, ran, failed, tasks>>
      /\ phase[b] = "wait" /\ phase' = [phase EXCEPT ![b] = "exit"]
      /\ flowerror' = [flowerror EXCEPT ![b] = None] /\ result' = [result EXCEPT ![b] = flowerror[b]]
  BY DEF Finish, Go, poolVars, workerVars, histVars
<1>2. /\ phase'[b] = "exit" /\ flowerror'[b] = None
      /\ \A d \in Blocks \ {b} : phase'[d] = phase[d] /\ flowerror'[d] = flowerror[d] /\ result'[d] = result[d]
  BY <1>1 DEF Base, FlowTypes
<1>3. SameStages
  BY <1>1 DEF SameStages, Fresh, AtWrap
<1>4. Ran'
  BY <1>1, <1>2, <1>3, RanKept DEF Unclosed
<1>5. Sound'
  <2>1. \A x \in Events : InUse(x[1])' => x[1] \in Blocks \ {b} /\ InUse(x[1])
    BY <1>2, EventsOK DEF InUse
  <2>2. \A x \in Events : x[1] \in Blocks \ {b} => Well(x)' = Well(x)
    BY <1>1, <1>2 DEF Well
  <2>3. \A x \in Events : \A j \in Sources(x[1], x[2]) : <<x[1], j>> \in Events
    BY EventsOK, EventOf DEF Sources
  <2> QED BY <1>1, <1>3, <2>1, <2>2, <2>3 DEF Order, Sound, SameStages
<1>6. Outcomes'
  BY <1>1, <1>2 DEF Order, Outcomes, InUse
<1> QED BY <1>4, <1>5, <1>6 DEF Order

\* What the scheduler enters waits for nothing.
LEMMA OrderEnter ==
    ASSUME Base, Flow, Order, NEW b \in Blocks, Enter(b)
    PROVE Order'
<1>1. PICK i \in pend[b] : /\ todo' = Append(todo, <<b, i>>)
                           /\ state' = [state EXCEPT ![b][i] = "running"]
  BY DEF Enter, Enqueue
<1> DEFINE e == <<b, i>>
<1>2. UNCHANGED <<pc, fe, fnxt, error, flowerror, ran, failed, phase, tasks, result>>
  BY DEF Enter, workerVars, histVars
<1>3. /\ i \in Instrs(b) /\ e \in Events /\ InUse(b) /\ state[b][i] = "pending" /\ blocks[b][i] = 0
      /\ DOMAIN state = Blocks /\ DOMAIN state[b] = Instrs(b) /\ todo \in Seq(Events)
  BY EventOf DEF Base, Types, FlowTypes, Flow, PendOK
<1>4. Range(todo') = Range(todo) \cup {e}
  BY <1>1, <1>3, Appended
<1>5. \A x \in Events : state'[x[1]][x[2]] = IF x = e THEN "running" ELSE state[x[1]][x[2]]
  BY <1>1, <1>3, EventsOK
<1>6. SameStages
  BY <1>2, <1>3, <1>4, <1>5 DEF SameStages, Fresh, AtWrap
<1>7. Ran'
  BY <1>2, <1>6, RanKept
<1>8. \A j \in Sources(b, i) : Well(<<b, j>>)
  <2> SUFFICES ASSUME NEW j \in Sources(b, i) PROVE Well(<<b, j>>)
    OBVIOUS
  <2>1. j \in Handled(b)
    BY <1>3, NoSource
  <2>2. j \in Instrs(b) /\ <<b, j>> \in Events /\ state[b][j] # "pending" /\ ~ Located(<<b, j>>)
    BY <2>1, EventOf DEF Handled
  <2>3. ~ Fresh(<<b, j>>) /\ ~ AtWrap(<<b, j>>)
    BY <2>2 DEF Fresh, AtWrap, Located, Has
  <2> QED BY <1>3, <2>2, <2>3 DEF Order, Sound
<1>9. Sound'
  <2>1. \A x \in Events : Well(x)' = Well(x) /\ InUse(x[1])' = InUse(x[1])
    BY <1>2 DEF Well, InUse
  <2>2. \A x \in Events : \A j \in Sources(x[1], x[2]) : <<x[1], j>> \in Events
    BY EventsOK, EventOf DEF Sources
  <2>3. \A x \in Events : state'[x[1]][x[2]] # "pending" => state[x[1]][x[2]] # "pending" \/ x = e
    BY <1>5
  <2> QED BY <1>6, <1>8, <2>1, <2>2, <2>3 DEF Order, Sound, SameStages
<1> QED BY <1>2, <1>7, <1>9, OutcomesKept DEF Order

\* Init establishes Order.
LEMMA OrderInit == Init => Order
<1> SUFFICES ASSUME Init PROVE Order
  OBVIOUS
<1>1. Ran
  BY EventsOK, LimitsOK DEF Init, Ran
<1>2. Sound /\ Outcomes
  BY EventsOK DEF Init, Sound, Outcomes, InUse
<1> QED BY <1>1, <1>2 DEF Order

\* Every step keeps Order.
LEMMA OrderStep == Base /\ Flow /\ Order /\ [Next]_vars => Order'
<1> SUFFICES ASSUME Base, Flow, Order, [Next]_vars PROVE Order'
  OBVIOUS
<1>1. ASSUME NEW s \in Workers, Worker(s) PROVE Order'
  BY <1>1, OrderQuiet, OrderTake, OrderRefuse, OrderPost, OrderAdmit, OrderSkip, OrderWrapUp,
     OrderRun DEF Worker
<1>2. ASSUME NEW b \in Blocks, Scheduler(b) PROVE Order'
  BY <1>2, OrderPhases, OrderSerialStep, OrderPick, OrderFinish, OrderEnter DEF Scheduler
<1>3. CASE UNCHANGED vars
  <2>1. UNCHANGED <<todo, pc, fe, fnxt, error, state, flowerror, ran, failed, phase, tasks, result>>
    BY <1>3 DEF vars, poolVars, workerVars, flowVars, callVars, histVars
  <2>2. SameStages
    BY <2>1 DEF SameStages, Fresh, AtWrap
  <2> QED BY <2>1, <2>2, OrderMoves
<1> QED BY <1>1, <1>2, <1>3 DEF Next

\* What was run, and what of it failed, agrees with the place of every instruction; the
\* exception kept by a flow is that of an instruction that failed.
THEOREM OrderInvariant == Spec => []Order
BY OrderInit, OrderStep, BaseInvariant, FlowInvariant, PTL DEF Spec

-----------------------------------------------------------------------------
(* Order and types *)

\* What is executing waits for nothing and none of its sources failed.
LEMMA OrderGivesInOrder == Base /\ Flow /\ Order => InOrder
<1> SUFFICES ASSUME Base, Flow, Order, NEW b \in Blocks, NEW i \in Instrs(b), Executing(<<b, i>>)
             PROVE  Sources(b, i) \subseteq ran[b] \ failed[b]
  BY DEF InOrder
<1>1. ASSUME NEW s \in Workers, RunsIt(s, <<b, i>>) PROVE Sources(b, i) \subseteq ran[b] \ failed[b]
  BY <1>1 DEF RunsIt, Order, Ran
<1>2. ASSUME phase[b] = "serial", i = tasks[b] + 1, failed[b] = {} PROVE Sources(b, i) \subseteq ran[b] \ failed[b]
  <2>1. ran[b] = 1 .. tasks[b] /\ tasks[b] \in Nat
    BY <1>2 DEF Order, Outcomes, Base, FlowTypes
  <2>2. ASSUME NEW k \in Sources(b, i) PROVE k \in 1 .. tasks[b]
    <3>1. k \in Instrs(b) /\ k < i
      BY WakesForward DEF Sources
    <3> QED BY <1>2, <2>1, <3>1, BlocksOK DEF Instrs
  <2> QED BY <1>2, <2>1, <2>2
<1> QED BY <1>1, <1>2 DEF Executing

\* For any graphs and any number of workers, an instruction is executed after all that wake
\* it have been executed without an exception.
THEOREM AlwaysInOrder == Spec => []InOrder
BY OrderGivesInOrder, OrderInvariant, FlowInvariant, BaseInvariant, PTL

\* What the type invariant says beyond Base.
InRange == \A b \in Blocks : /\ \A i \in Instrs(b) : blocks[b][i] \in Nat
                            /\ result[b] \in Instrs(b) \cup {None}

\* Counts of edges stay natural numbers, results instructions of the block.
LEMMA InRangeStep == Base /\ Flow /\ Order /\ InRange /\ [Next]_vars => InRange'
<1> SUFFICES ASSUME Base, Flow, Order, InRange, [Next]_vars PROVE InRange'
  OBVIOUS
<1>1. Base' /\ Flow'
  BY BaseStep, FlowStep
<1>2. ASSUME NEW b \in Blocks, NEW i \in Instrs(b), state'[b][i] = "pending" PROVE blocks'[b][i] \in Nat
  <2>1. (Waits(b, i))' \subseteq EdgesTo(b, i)
    BY DEF Waits, EdgesTo
  <2>2. Cardinality((Waits(b, i))') \in Nat
    BY <2>1, EdgesToNumber, FS_Subset, FS_CardinalityType
  <2> QED BY <1>1, <1>2, <2>2 DEF Flow, EdgesOK
<1>3. ASSUME NEW b \in Blocks, NEW i \in Instrs(b), state'[b][i] # "pending" PROVE blocks'[b][i] \in Nat
  <2>1. blocks[b][i] \in Nat
    BY DEF InRange
  <2>2. ASSUME NEW s \in Workers, WrapUp(s) PROVE blocks'[b][i] \in {blocks[b][i], 0}
    <3>1. blocks' = blocks \/ \E d \in Blocks : \E j : blocks' = [blocks EXCEPT ![d][j] = 0]
      <4>1. fe[s][1] \in Blocks
        BY <2>2, NoneApart, EventsOK DEF Base, Types, WorkersOK, Busy, WrapUp, At
      <4> QED BY <2>2, <4>1 DEF WrapUp
    <3>2. DOMAIN blocks = Blocks /\ \A d \in Blocks : DOMAIN blocks[d] = Instrs(d)
      BY DEF Base, FlowTypes
    <3> QED BY <3>1, <3>2
  <2>3. ASSUME NEW d \in Blocks, Handle(d) PROVE blocks'[b][i] \in {blocks[b][i], 0}
    <3> DEFINE k == Last(done[d])
               bl == [j \in Instrs(d) |-> IF Freed(d, k, j) THEN 0
                                          ELSE IF Lowers(d, k, j) THEN blocks[d][j] - Cardinality(Edges(d, k, j))
                                          ELSE blocks[d][j]]
    <3>1. blocks' = [blocks EXCEPT ![d] = bl] /\ state' = state /\ DOMAIN blocks = Blocks
      BY <2>3 DEF Handle, Base, FlowTypes
    <3>2. CASE b = d
      <4>1. ~ Lowers(d, k, i)
        BY <1>3, <3>1, <3>2 DEF Lowers
      <4>2. bl[i] = blocks[d][i] \/ bl[i] = 0
        BY <3>2, <4>1
      <4> HIDE DEF bl
      <4> QED BY <3>1, <3>2, <4>2
    <3>3. CASE b # d
      <4> HIDE DEF bl
      <4> QED BY <3>1, <3>3
    <3> QED BY <3>2, <3>3
  <2>4. CASE ~ (\E s \in Workers : WrapUp(s)) /\ ~ (\E d \in Blocks : Handle(d))
    <3>1. UNCHANGED blocks
      BY ZenonT(40), <2>4
         DEF Next, Worker, Scheduler, Start, Released, Loop, Down, TakeOwn, TakeNothing, GiveBack,
         TakeLast, TakeExit,
         Exit, Skip, Admit, Refuse, Run, Post, Join, Joined, Pick, RunSerially, SerialStep, SerialReturn, Enter,
         Release, Finish, Return, flowVars, vars
    <3> QED BY <2>1, <3>1
  <2> QED BY <2>1, <2>2, <2>3, <2>4
<1>4. ASSUME NEW b \in Blocks PROVE result'[b] \in Instrs(b) \cup {None}
  <2>0. result[b] \in Instrs(b) \cup {None} /\ DOMAIN result = Blocks
    BY DEF InRange, Base, FlowTypes
  <2>1. ASSUME NEW d \in Blocks, Finish(d) PROVE result'[b] \in Instrs(b) \cup {None}
    BY <2>0, <2>1 DEF Finish, Base, FlowTypes
  <2>2. ASSUME NEW d \in Blocks, SerialReturn(d) PROVE result'[b] \in Instrs(b) \cup {None}
    <3>1. failed[d] # {} => tasks[d] \in Instrs(d)
      BY <2>2 DEF SerialReturn, Go, Order, Outcomes, Base, FlowTypes
    <3>2. result' = [result EXCEPT ![d] = IF failed[d] = {} THEN None ELSE tasks[d]]
      BY <2>2 DEF SerialReturn
    <3> QED BY <2>0, <3>1, <3>2
  <2>3. CASE ~ (\E d \in Blocks : Finish(d) \/ SerialReturn(d))
    <3>1. UNCHANGED result
      BY ZenonT(40), <2>3
         DEF Next, Worker, Scheduler, Start, Released, Loop, Down, TakeOwn, TakeNothing, GiveBack,
         TakeLast, TakeExit,
         Exit, Skip, Admit, Refuse, Run, WrapUp, Post, Join, Joined, Pick, RunSerially, SerialStep, Enter,
         Release, Handle, Return, callVars, vars
    <3> QED BY <2>0, <3>1
  <2> QED BY <2>1, <2>2, <2>3
<1> QED BY <1>2, <1>3, <1>4 DEF InRange

\* For any graphs the variables keep their types; the count of an instruction never
\* becomes negative.
THEOREM AlwaysTyped == Spec => []TypeOK
<1>1. Init => InRange
  <2> SUFFICES ASSUME Init PROVE InRange
    OBVIOUS
  <2>1. \A b \in Blocks : \A i \in Instrs(b) : Cardinality(EdgesTo(b, i)) \in Nat
    BY EdgesToNumber
  <2> QED BY <2>1 DEF Init, InRange
<1>2. Base /\ InRange => TypeOK
  <2> SUFFICES ASSUME Base, InRange PROVE TypeOK
    OBVIOUS
  <2>1. \A b \in Blocks : /\ blocks[b] \in [Instrs(b) -> Nat]
                          /\ {flowerror[b], result[b]} \subseteq Instrs(b) \cup {None}
    BY DEF Base, FlowTypes, InRange
  <2> QED BY <2>1 DEF Base, Types, FlowTypes, TypeOK
<1> QED BY <1>1, <1>2, InRangeStep, BaseInvariant, FlowInvariant, OrderInvariant, PTL DEF Spec

-----------------------------------------------------------------------------
(* The promise *)

\* The stage of DagRun.
Stage == [b \in Blocks |-> IF phase[b] \in {"idle", "join"} THEN "new"
                           ELSE IF phase[b] \in {"exit", "returned"} THEN "closed" ELSE "open"]

\* The initial states are those of DagRun.
LEMMA PromiseInit == Init => Promise!Init
BY DEF Init, Promise!Init

\* Steps a caller does not see.
LEMMA PromiseStutters ==
    ASSUME Base, UNCHANGED <<ran, failed, result>>, NEW b \in Blocks, \A d \in Blocks \ {b} : phase'[d] = phase[d],
           \/ phase'[b] = phase[b]
           \/ {phase[b], phase'[b]} \in {{"idle", "join"}, {"seed", "wait"}, {"exit", "returned"}}
    PROVE  UNCHANGED Promise!vars
<1>1. Stage' = Stage
  BY DEF Stage
<1> QED BY <1>1 DEF Stage, Promise!vars

\* A block is opened by the scheduler or to be run serially.
LEMMA PromiseOpen ==
    ASSUME Base, NEW b \in Blocks, Pick(b) \/ RunSerially(b)
    PROVE  Promise!Open(b)
<1>1. /\ UNCHANGED <<ran, failed, result>> /\ phase[b] = "idle" /\ phase'[b] \in {"seed", "serial"}
      /\ \A d \in Blocks \ {b} : phase'[d] = phase[d]
  BY DEF Pick, RunSerially, Go, histVars, Base, FlowTypes
<1>2. Stage[b] = "new" /\ Stage' = [Stage EXCEPT ![b] = "open"]
  BY <1>1 DEF Stage
<1> QED BY <1>1, <1>2 DEF Stage, Promise!Open

\* Executing an instruction is a step of DagRun.
LEMMA PromiseExecute ==
    ASSUME Base, Flow, Order, NEW b \in Blocks, NEW i \in Instrs(b), UNCHANGED <<phase, result>>,
           phase[b] \in {"seed", "wait", "serial"}, i \notin ran[b], Sources(b, i) \subseteq ran[b] \ failed[b],
           ran' = [ran EXCEPT ![b] = @ \cup {i}], failed' = failed \/ failed' = [failed EXCEPT ![b] = @ \cup {i}]
    PROVE  Promise!Execute(b, i)
<1>1. Stage[b] = "open" /\ Stage' = Stage
  BY DEF Stage
<1> QED BY <1>1 DEF Stage, Promise!Execute

\* A block is closed when it ran as a whole, or with the exception of an instruction.
LEMMA PromiseClose ==
    ASSUME Base, Flow, Order, NEW b \in Blocks, Finish(b) \/ SerialReturn(b)
    PROVE  Promise!Close(b)
<1>1. /\ UNCHANGED <<ran, failed>> /\ phase[b] \in {"wait", "serial"} /\ phase'[b] \in {"exit", "returned"}
      /\ \A d \in Blocks \ {b} : phase'[d] = phase[d]
      /\ DOMAIN result = Blocks /\ result[b] = None /\ ran[b] \subseteq Instrs(b) /\ failed[b] \subseteq ran[b]
  BY ZenonT(40) DEF Finish, SerialReturn, Go, histVars, Base, FlowTypes, Order, Outcomes
<1>2. Stage[b] = "open" /\ Stage' = [Stage EXCEPT ![b] = "closed"]
  BY <1>1 DEF Stage
<1>3. IF failed[b] = {} THEN ran[b] = Instrs(b) /\ result' = result
      ELSE \E i \in failed[b] : result' = [result EXCEPT ![b] = i]
  <2>1. CASE Finish(b)
    <3>1. result' = [result EXCEPT ![b] = flowerror[b]] /\ InUse(b) /\ tasks[b] = Size[b]
      BY <2>1 DEF Finish, Go, InUse
    <3>2. \A i \in Instrs(b) : <<b, i>> \in Events /\ ~ Fresh(<<b, i>>) /\ ~ AtWrap(<<b, i>>)
      BY <3>1, AllHandled, EventOf DEF Located, Has, Fresh, AtWrap
    <3>3. \A i \in Instrs(b) : i \in ran[b] \ failed[b] \/ flowerror[b] # None
      BY <3>1, <3>2 DEF Order, Sound, Well
    <3>4. flowerror[b] # None => flowerror[b] \in failed[b]
      BY DEF Order, Outcomes
    <3>5. CASE flowerror[b] = None
      <4>1. ran[b] = Instrs(b) /\ failed[b] = {}
        BY <1>1, <3>3, <3>5
      <4>2. result' = result
        BY <1>1, <3>1, <3>5 DEF Base, FlowTypes
      <4> QED BY <4>1, <4>2
    <3>6. CASE flowerror[b] # None
      BY <3>1, <3>4, <3>6
    <3> QED BY <3>5, <3>6
  <2>2. CASE SerialReturn(b)
    <3>1. /\ result' = [result EXCEPT ![b] = IF failed[b] = {} THEN None ELSE tasks[b]]
          /\ tasks[b] = Size[b] \/ failed[b] # {}
          /\ ran[b] = 1 .. tasks[b] /\ failed[b] \subseteq {tasks[b]}
      BY <2>2 DEF SerialReturn, Go, Order, Outcomes
    <3>2. CASE failed[b] = {}
      <4>1. result' = result
        BY <1>1, <3>1, <3>2 DEF Base, FlowTypes
      <4> QED BY <3>1, <3>2, <4>1 DEF Instrs
    <3>3. CASE failed[b] # {}
      BY <3>1, <3>3
    <3> QED BY <3>2, <3>3
  <2> QED BY <2>1, <2>2
<1> QED BY <1>1, <1>2, <1>3 DEF Stage, Promise!Close, Instrs

\* Every step is one of DagRun or changes nothing of it.
LEMMA PromiseStep == Base /\ Flow /\ Order /\ [Next]_vars => [Promise!Next]_Promise!vars
<1> SUFFICES ASSUME Base, Flow, Order, [Next]_vars PROVE Promise!Next \/ UNCHANGED Promise!vars
  OBVIOUS
<1>0. \A b \in Blocks : Instrs(b) = 1 .. Size[b]
  BY DEF Instrs
<1>1. ASSUME NEW s \in Workers, Worker(s) PROVE Promise!Next \/ UNCHANGED Promise!vars
  <2>1. CASE Run(s)
    <3>1. PICK e \in Events : e = fe[s]
      BY <2>1, NoneApart DEF Base, Types, WorkersOK, Busy, Run, At
    <3> DEFINE b == e[1]
               i == e[2]
    <3>2. b \in Blocks /\ i \in Instrs(b)
      BY EventsOK
    <3>3. /\ UNCHANGED <<phase, result>> /\ pc[s] = "run"
          /\ ran' = [ran EXCEPT ![b] = @ \cup {i}]
          /\ failed' = failed \/ failed' = [failed EXCEPT ![b] = @ \cup {i}]
      BY <2>1, <3>1 DEF Run, At, callVars
    <3>4. Located(e) /\ InUse(b)
      BY <3>1 DEF Flow, Where, Located, Has
    <3>5. i \notin ran[b]
      BY <3>1, <3>3, <3>4 DEF Order, Ran, Fresh, InUse, Unclosed
    <3>6. Sources(b, i) \subseteq ran[b] \ failed[b]
      BY <3>1, <3>3 DEF Order, Ran
    <3> HIDE DEF b, i
    <3>7. Promise!Execute(b, i)
      BY <3>2, <3>3, <3>4, <3>5, <3>6, PromiseExecute DEF InUse
    <3> QED BY <1>0, <3>2, <3>7 DEF Promise!Next
  <2>2. CASE ~ Run(s)
    <3>1. UNCHANGED <<ran, failed, result, phase>>
      BY <1>1, <2>2
         DEF Worker, Start, Released, Loop, Down, TakeOwn, TakeNothing, GiveBack, TakeLast,
         TakeExit,
         Exit, Skip, Admit, Refuse, WrapUp, Post, callVars, histVars
    <3>2. Stage' = Stage
      BY <3>1 DEF Stage
    <3> QED BY <3>1, <3>2 DEF Stage, Promise!vars
  <2> QED BY <2>1, <2>2
<1>2. ASSUME NEW b \in Blocks, Scheduler(b) PROVE Promise!Next \/ UNCHANGED Promise!vars
  <2>1. CASE Pick(b) \/ RunSerially(b)
    BY <2>1, PromiseOpen DEF Promise!Next
  <2>2. CASE Finish(b) \/ SerialReturn(b)
    BY <2>2, PromiseClose DEF Promise!Next
  <2>3. CASE SerialStep(b)
    <3>0. PICK i \in Instrs(b) : i = tasks[b] + 1
      <4>1. tasks[b] \in Nat /\ Size[b] \in Nat /\ tasks[b] + 1 <= Size[b]
        BY <2>3, BlocksOK DEF SerialStep, Base, FlowTypes
      <4>2. tasks[b] + 1 \in Instrs(b)
        BY <4>1 DEF Instrs
      <4> QED BY <4>2
    <3>1. /\ UNCHANGED <<phase, result>> /\ phase[b] = "serial" /\ failed[b] = {} /\ tasks[b] \in Nat
          /\ ran' = [ran EXCEPT ![b] = @ \cup {i}]
          /\ failed' = failed \/ failed' = [failed EXCEPT ![b] = {i}]
          /\ DOMAIN failed = Blocks
      BY <2>3, <3>0 DEF SerialStep, Base, FlowTypes
    <3>2. ran[b] = 1 .. tasks[b]
      BY <3>1 DEF Order, Outcomes
    <3>3. i \notin ran[b]
      BY <3>0, <3>1, <3>2
    <3>4. Sources(b, i) \subseteq ran[b] \ failed[b]
      <4>1. Executing(<<b, i>>)
        BY <3>0, <3>1 DEF Executing
      <4> QED BY <4>1, OrderGivesInOrder DEF InOrder
    <3>5. failed' = failed \/ failed' = [failed EXCEPT ![b] = @ \cup {i}]
      BY <3>1
    <3>6. Promise!Execute(b, i)
      <4>1. /\ UNCHANGED <<phase, result>> /\ phase[b] \in {"seed", "wait", "serial"}
            /\ ran' = [ran EXCEPT ![b] = @ \cup {i}]
        BY <3>1
      <4> QED BY <3>3, <3>4, <3>5, <4>1, PromiseExecute
    <3> QED BY <1>0, <3>6 DEF Promise!Next
  <2>4. CASE Join(b) \/ Joined(b) \/ Enter(b) \/ Release(b) \/ Handle(b) \/ Return(b)
    <3>1. /\ UNCHANGED <<ran, failed, result>> /\ \A d \in Blocks \ {b} : phase'[d] = phase[d]
          /\ \/ phase'[b] = phase[b]
             \/ {phase[b], phase'[b]} \in {{"idle", "join"}, {"seed", "wait"}, {"exit", "returned"}}
      BY <2>4
         DEF Join, Joined, Enter, Release, Handle, Return, Go, histVars, callVars, Base, FlowTypes
    <3> QED BY <3>1, PromiseStutters
  <2> QED BY <1>2, <2>1, <2>2, <2>3, <2>4 DEF Scheduler
<1>3. CASE UNCHANGED vars
  <2>1. UNCHANGED <<ran, failed, result, phase>>
    BY <1>3 DEF vars, callVars, histVars
  <2>2. Stage' = Stage
    BY <2>1 DEF Stage
  <2> QED BY <2>1, <2>2 DEF Stage, Promise!vars
<1> QED BY <1>1, <1>2, <1>3 DEF Next

\* For any graphs, clients, limits and numbers of workers, the scheduler runs every block
\* as DagRun says: each instruction at most once, in the order of the graph, and the
\* result is the exception of one that failed, or none when all were executed.
THEOREM ImplementsDag == Spec => RunsDag
BY PromiseInit, PromiseStep, BaseInvariant, FlowInvariant, OrderInvariant, PTL
   DEF Spec, RunsDag, Promise!Spec
================================================================================
