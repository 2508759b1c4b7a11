------------------------ MODULE DataflowRegions_proofs ------------------------
(***************************************************************************)
(* For every set of well-formed plans of any length: regions are           *)
(* consecutive, barrier blocks are whole, what has side effects is in no   *)
(* parallel region, and there variables are released last.  For plans in   *)
(* which no update takes what an earlier one has changed, what conflicts   *)
(* in a parallel region is ordered by its graph.                           *)
(***************************************************************************)
EXTENDS DataflowRegions, FiniteSetTheorems, WellFoundedInduction, SequenceTheorems, TLAPS

\* Kinds no parallel region may have.
Special == {"effects", "barrier", "exit", "end"}

\* The regions that have been copied, up to the one that starts at start.
RegionOK(n) ==
    /\ regions[n].first \in Nat /\ regions[n].last \in 1 .. Len(old)
    /\ regions[n].first = (IF n = 1 THEN 1 ELSE regions[n - 1].last + 1)
    /\ regions[n].first <= regions[n].last
    /\ Open(old, regions[n].last) = 0
    /\ regions[n].parallel => \A k \in regions[n].first .. regions[n].last :
                                 old[k].kind \notin Special

\* Where the regions that have been copied end.
LastRegion == IF regions = <<>> THEN 0 ELSE regions[Len(regions)].last

\* The region that is being scanned: level counts the barriers that are open, a
\* singleton has one instruction, and the others that may be parallel have nothing
\* special so far.
Current ==
    /\ start = LastRegion + 1 /\ start < i
    /\ IF type = "existing" THEN level = Open(old, i - 1) ELSE Open(old, i - 1) = 0
    /\ type = "singleton" => start = i - 1
    /\ type \in {"dataflow", "sql"} => \A k \in start .. i - 1 : old[k].kind \notin Special

\* The inductive invariant.
RInv == /\ old \in Plans
        /\ regions \in Seq([first : Nat, last : Nat, parallel : BOOLEAN, sinks : SUBSET Vars])
        /\ TypeOK
        /\ \A n \in DOMAIN regions : RegionOK(n)
        /\ Scanning => Current

-----------------------------------------------------------------------------
(* Barriers *)

\* What a well-formed plan is.
LEMMA PlanShape ==
    ASSUME NEW p \in Plans
    PROVE  /\ Len(p) \in Nat \ {0} /\ DOMAIN p = 1 .. Len(p)
           /\ p[1].kind # "barrier"
           /\ \A k \in 1 .. Len(p) : /\ p[k] \in Instruction
                                     /\ Open(p, k) >= 0
                                     /\ p[k].kind \in UpdateKinds => p[k].args # <<>>
<1>1. p \in Seq(Instruction) /\ Len(p) > 0 /\ p[1].kind # "barrier"
    BY PlansOK
<1>2. Len(p) \in Nat \ {0} /\ DOMAIN p = 1 .. Len(p)
    BY <1>1, LenProperties
<1>3. \A k \in DOMAIN p :
          /\ Open(p, k) >= 0
          /\ p[k].kind \in {"update", "column"} => p[k].args # <<>>
    BY PlansOK
<1>4. \A k \in 1 .. Len(p) : p[k] \in Instruction
    BY <1>1, <1>2, ElementOfSeq
<1> QED
    BY <1>1, <1>2, <1>3, <1>4 DEF UpdateKinds

\* One instruction more opens a barrier, closes one, or neither.
LEMMA OpenNext ==
    ASSUME NEW p \in Plans, NEW k \in Nat, k < Len(p)
    PROVE  /\ Open(p, k) \in Int
           /\ Open(p, k + 1) = Open(p, k) + Nesting(p[k + 1])
<1>. DEFINE Of(n, kind) == {h \in 1 .. n : p[h].kind = kind}
<1>1. \A n \in Nat : \A kind \in {"barrier", "exit"} :
          IsFiniteSet(Of(n, kind)) /\ Cardinality(Of(n, kind)) \in Nat
  <2>. TAKE n \in Nat
  <2>1. IsFiniteSet(1 .. n)
    BY FS_Interval
  <2> QED
    BY <2>1, FS_Subset, FS_CardinalityType
<1>2. ASSUME NEW kind \in {"barrier", "exit"}
      PROVE  Cardinality(Of(k + 1, kind))
                = Cardinality(Of(k, kind)) + (IF p[k + 1].kind = kind THEN 1 ELSE 0)
  <2>0. k + 1 \notin Of(k, kind)
    OBVIOUS
  <2>1. IsFiniteSet(Of(k, kind)) /\ Cardinality(Of(k, kind)) \in Nat /\ k + 1 \notin Of(k, kind)
    <3>. HIDE DEF Of
    <3> QED
      BY <1>1, <2>0
  <2>2. CASE p[k + 1].kind = kind
    <3>1. Of(k + 1, kind) = Of(k, kind) \cup {k + 1}
      BY <2>2
    <3>. HIDE DEF Of
    <3> QED
      BY <2>1, <2>2, <3>1, FS_AddElement
  <2>3. CASE p[k + 1].kind # kind
    <3>1. Of(k + 1, kind) = Of(k, kind)
      BY <2>3
    <3>. HIDE DEF Of
    <3> QED
      BY <2>1, <2>3, <3>1
  <2> QED
    BY <2>2, <2>3
<1>3. \A n \in Nat : Open(p, n) = Cardinality(Of(n, "barrier")) - Cardinality(Of(n, "exit"))
    BY DEF Open
<1>. HIDE DEF Of
<1>4. PICK b \in Nat, e \in Nat : b = Cardinality(Of(k, "barrier")) /\ e = Cardinality(Of(k, "exit"))
    BY <1>1
<1>5. Open(p, k) = b - e
    BY <1>3, <1>4
<1>6. /\ Cardinality(Of(k + 1, "barrier")) = b + (IF p[k + 1].kind = "barrier" THEN 1 ELSE 0)
      /\ Cardinality(Of(k + 1, "exit")) = e + (IF p[k + 1].kind = "exit" THEN 1 ELSE 0)
    BY <1>2, <1>4
<1>7. Open(p, k + 1) = (b + (IF p[k + 1].kind = "barrier" THEN 1 ELSE 0))
                       - (e + (IF p[k + 1].kind = "exit" THEN 1 ELSE 0))
    BY <1>3, <1>6
<1> QED
    BY <1>5, <1>7 DEF Nesting

\* The signature opens nothing.
LEMMA OpenSignature == \A p \in Plans : Open(p, 1) = 0
<1>. TAKE p \in Plans
<1>1. Len(p) \in Nat \ {0} /\ Len(p) > 0 /\ p[1].kind # "barrier" /\ Open(p, 1) >= 0
    BY PlanShape
<1>2. Open(p, 0) = 0
  <2>1. {h \in 1 .. 0 : p[h].kind = "barrier"} = {} /\ {h \in 1 .. 0 : p[h].kind = "exit"} = {}
    OBVIOUS
  <2> QED
    BY <2>1, FS_EmptySet DEF Open
<1>3. Open(p, 1) = 0 + Nesting(p[1])
    BY <1>1, <1>2, OpenNext
<1> QED
    BY <1>1, <1>3 DEF Nesting

-----------------------------------------------------------------------------
(* Regions *)

\* What a plan's instructions are.
LEMMA PlanFacts ==
    ASSUME RInv, Scanning
    PROVE  /\ Len(old) \in Nat /\ i \in 2 .. Len(old) /\ start \in 1 .. i - 1
           /\ old[i] \in Instruction
           /\ Open(old, i - 1) \in Int /\ Open(old, i) \in Nat
           /\ Open(old, i) = Open(old, i - 1) + Nesting(old[i])
           /\ old[i].kind \in UpdateKinds => old[i].args[1] \in Vars
<1>1. /\ Len(old) \in Nat /\ i \in 2 .. Len(old) /\ start \in 1 .. i - 1
      /\ old \in Plans
    BY PlanShape DEF RInv, TypeOK, Current, Scanning
<1>2. old[i] \in Instruction
    BY <1>1, PlanShape
<1>3. PICK k \in Nat : k = i - 1
    BY <1>1
<1>4. Open(old, i - 1) \in Int /\ Open(old, i) = Open(old, i - 1) + Nesting(old[i])
    BY <1>1, <1>3, OpenNext
<1>5. Open(old, i) >= 0
    BY <1>1, PlanShape
<1>6. old[i].kind \in UpdateKinds => old[i].args[1] \in Vars
  <2>1. old[i].kind \in UpdateKinds => old[i].args \in Seq(Vars) /\ old[i].args # <<>>
    BY <1>1, <1>2, PlanShape DEF Instruction
  <2> QED
    BY <2>1
<1>7. Open(old, i) \in Int
    BY <1>4 DEF Nesting
<1> QED
    BY <1>1, <1>2, <1>4, <1>5, <1>6, <1>7

\* Marking an instruction's variables keeps the types of the flags.
LEMMA MarkTypes ==
    ASSUME NEW s \in [Vars -> SUBSET {"WRITE", "READ", "BLOCK", "2READ"}],
           NEW p \in Instruction, p.kind \in UpdateKinds => p.args[1] \in Vars
    PROVE  Mark(s, p) \in [Vars -> SUBSET {"WRITE", "READ", "BLOCK", "2READ"}]
<1>. DEFINE Flags == {"WRITE", "READ", "BLOCK", "2READ"}
            written == [s EXCEPT ![p.ret] = @ \cup {"WRITE"}]
            blocked == IF /\ p.kind \in UpdateKinds
                          /\ written[p.args[1]] = {} \/ "WRITE" \in written[p.args[1]]
                       THEN [written EXCEPT ![p.args[1]] = @ \cup {"BLOCK"}]
                       ELSE written
            uses(v) == Cardinality({k \in DOMAIN p.args : p.args[k] = v})
            second(v) == uses(v) > (IF "READ" \in blocked[v] THEN 0 ELSE 1)
<1>1. written \in [Vars -> SUBSET Flags]
    BY DEF Instruction
<1>. HIDE DEF written
<1>2. blocked \in [Vars -> SUBSET Flags]
    BY <1>1
<1>. HIDE DEF blocked
<1>3. Mark(s, p) = [v \in Vars |->
           IF uses(v) = 0 \/ blocked[v] \cap {"WRITE", "READ"} = {} THEN blocked[v]
           ELSE blocked[v] \cup {"READ"} \cup (IF second(v) THEN {"2READ"} ELSE {})]
    BY DEF Mark, written, blocked
<1>. HIDE DEF uses, second
<1> QED
    BY <1>2, <1>3

\* A region that is closed is like those before it.
LEMMA CloseOK ==
    ASSUME RInv, Scanning, Close(i - 1), Open(old, i - 1) = 0, UNCHANGED old
    PROVE  /\ regions' \in Seq([first : Nat, last : Nat, parallel : BOOLEAN, sinks : SUBSET Vars])
           /\ \A n \in DOMAIN regions' : RegionOK(n)'
           /\ \A n \in DOMAIN regions' :
                  regions'[n].parallel \in BOOLEAN /\ regions'[n].sinks \subseteq Vars
           /\ LastRegion' = i - 1
<1>. DEFINE Region == [first : Nat, last : Nat, parallel : BOOLEAN, sinks : SUBSET Vars]
            parallel == ~ simpleFlow(start, i - 1)
            new == [first |-> start, last |-> i - 1, parallel |-> parallel,
                    sinks |-> IF parallel THEN dflowGarbagesink(start, i - 1) ELSE {}]
<1>1. /\ Len(old) \in Nat /\ i \in 2 .. Len(old) /\ start \in 1 .. i - 1
      /\ start = LastRegion + 1
    BY PlanFacts DEF RInv, Current
<1>2. parallel => \A k \in start .. i - 1 : old[k].kind \notin Special
  <2>1. parallel => type \notin {"singleton", "existing"}
    BY <1>1 DEF simpleFlow, RInv, Current
  <2> QED
    BY <2>1 DEF RInv, Current, TypeOK
<1>3. parallel \in BOOLEAN
    OBVIOUS
<1>. HIDE DEF parallel
<1>4. (IF parallel THEN dflowGarbagesink(start, i - 1) ELSE {}) \in SUBSET Vars
    BY DEF dflowGarbagesink
<1>5. new \in Region /\ new.first = start /\ new.last = i - 1 /\ new.parallel = parallel
    BY <1>1, <1>3, <1>4
<1>6. regions' = Append(regions, new)
    BY DEF Close, parallel
<1>. HIDE DEF new
<1>7. regions \in Seq(Region) /\ Len(regions) \in Nat
    BY DEF RInv
<1>8. /\ regions' \in Seq(Region) /\ Len(regions') = Len(regions) + 1
      /\ regions'[Len(regions) + 1] = new
      /\ \A n \in 1 .. Len(regions) : regions'[n] = regions[n]
    BY <1>5, <1>6, <1>7
<1>. HIDE DEF Region
<1>9. LastRegion' = i - 1
    BY <1>5, <1>7, <1>8 DEF LastRegion
<1>10. ASSUME NEW n \in 1 .. Len(regions)
       PROVE  RegionOK(n)'
  <2>1. RegionOK(n)
    BY <1>7 DEF RInv
  <2>2. regions'[n] = regions[n] /\ (n # 1 => regions'[n - 1] = regions[n - 1])
    BY <1>7, <1>8
  <2> QED
    BY <2>1, <2>2 DEF RegionOK
<1>11. ASSUME NEW n, n = Len(regions) + 1
       PROVE  RegionOK(n)'
  <2>1. start = IF n = 1 THEN 1 ELSE regions'[n - 1].last + 1
    BY <1>1, <1>7, <1>8, <1>11 DEF LastRegion
  <2>2. regions'[n] = new
    BY <1>8, <1>11
  <2> QED
    BY <1>1, <1>2, <1>5, <2>1, <2>2 DEF RegionOK
<1>12. \A n \in DOMAIN regions' : RegionOK(n)'
  <2>1. DOMAIN regions' = 1 .. Len(regions) + 1
    BY <1>8, LenProperties
  <2> QED
    BY <1>7, <1>10, <1>11, <2>1
<1>13. \A n \in DOMAIN regions' : regions'[n] \in Region
    BY <1>8, ElementOfSeq
<1>14. \A n \in DOMAIN regions' :
           regions'[n].parallel \in BOOLEAN /\ regions'[n].sinks \subseteq Vars
    BY <1>13 DEF Region
<1> QED
    BY <1>8, <1>9, <1>12, <1>14 DEF Region

-----------------------------------------------------------------------------
(* The steps *)

\* The pass begins with the signature in a region of its own.
LEMMA InitOK == Init => RInv
<1>. SUFFICES ASSUME Init PROVE RInv
    OBVIOUS
<1>1. Len(old) \in Nat \ {0} /\ Len(old) > 0 /\ old[1].kind # "barrier" /\ Open(old, 1) = 0
    BY PlanShape, OpenSignature DEF Init
<1>2. TypeOK
    BY <1>1 DEF Init, TypeOK
<1>3. Current
    BY <1>1 DEF Init, Current, LastRegion
<1> QED
    BY <1>2, <1>3 DEF Init, RInv

\* An instruction that belongs to the region keeps what is known of it.
LEMMA StayOK == RInv /\ Stay => RInv'
<1>. SUFFICES ASSUME RInv, Stay PROVE RInv'
    OBVIOUS
<1>. USE DEF Stay
<1>1. /\ Len(old) \in Nat /\ i \in 2 .. Len(old) /\ start \in 1 .. i - 1
      /\ old[i] \in Instruction
      /\ Open(old, i - 1) \in Int /\ Open(old, i) \in Nat
      /\ Open(old, i) = Open(old, i - 1) + Nesting(old[i])
      /\ old[i].kind \in UpdateKinds => old[i].args[1] \in Vars
    BY PlanFacts
<1>2. states' \in [Vars -> SUBSET {"WRITE", "READ", "BLOCK", "2READ"}]
    BY <1>1, MarkTypes DEF RInv, TypeOK
<1>3. type # "existing" => old[i].kind \notin Special /\ type # "singleton"
    BY DEF checkBreakpoint, dataflowBreakpoint, sqlBreakpoint, Special, RInv, TypeOK
<1>4. Current'
  <2>1. start = LastRegion + 1 /\ LastRegion' = LastRegion
    BY DEF RInv, Current, LastRegion
  <2>2. i' - 1 = i
    BY <1>1
  <2>3. IF type = "existing" THEN level' = Open(old, i) ELSE Open(old, i) = 0
    BY <1>1, <1>3 DEF RInv, Current, Nesting, Special
  <2>4. type \in {"dataflow", "sql"} => \A k \in start .. i : old[k].kind \notin Special
    BY <1>1, <1>3 DEF RInv, Current
  <2> QED
    BY <1>1, <1>3, <2>1, <2>2, <2>3, <2>4 DEF Current
<1>5. level' \in Nat /\ (type # "existing" => level' = 0)
    BY <1>1 DEF RInv, Current, TypeOK
<1>6. TypeOK'
    BY <1>1, <1>2, <1>5 DEF RInv, TypeOK
<1>7. \A n \in DOMAIN regions' : RegionOK(n)'
    BY DEF RInv, RegionOK
<1> QED
    BY <1>4, <1>6, <1>7 DEF RInv

\* A breakpoint is never inside a barrier block.
LEMMA BreakOutside ==
    ASSUME RInv, Scanning, checkBreakpoint(old[i])
    PROVE  Open(old, i - 1) = 0
BY DEF RInv, Current, checkBreakpoint

\* A region is closed outside of barrier blocks, and the next one begins as its type says.
LEMMA BreakOK == RInv /\ Break => RInv'
<1>. SUFFICES ASSUME RInv, Break PROVE RInv'
    OBVIOUS
<1>. USE DEF Break
<1>1. /\ Len(old) \in Nat /\ i \in 2 .. Len(old) /\ start \in 1 .. i - 1
      /\ old[i] \in Instruction
      /\ Open(old, i - 1) = 0 /\ Open(old, i) \in Nat
      /\ Open(old, i) = Open(old, i - 1) + Nesting(old[i])
      /\ old[i].kind \in UpdateKinds => old[i].args[1] \in Vars
    BY PlanFacts, BreakOutside
<1>2. /\ regions' \in Seq([first : Nat, last : Nat, parallel : BOOLEAN, sinks : SUBSET Vars])
      /\ \A n \in DOMAIN regions' : RegionOK(n)'
      /\ \A n \in DOMAIN regions' :
             regions'[n].parallel \in BOOLEAN /\ regions'[n].sinks \subseteq Vars
      /\ LastRegion' = i - 1
    BY <1>1, CloseOK
<1>3. states' \in [Vars -> SUBSET {"WRITE", "READ", "BLOCK", "2READ"}]
  <2>1. [v \in Vars |-> {}] \in [Vars -> SUBSET {"WRITE", "READ", "BLOCK", "2READ"}]
    OBVIOUS
  <2> QED
    BY <1>1, <2>1, MarkTypes
<1>4. old[i].kind \in Kinds \ {"end", "exit"}
    BY <1>1 DEF Nesting, Instruction
<1>5. /\ type' \in {"singleton", "existing", "sql", "dataflow"}
      /\ type' = "existing" <=> old[i].kind = "barrier"
      /\ type' \in {"dataflow", "sql"} => old[i].kind \notin Special
    BY <1>4 DEF decideRegionType, Special, Kinds
<1>6. /\ level' \in Nat /\ (type' # "existing" => level' = 0)
      /\ IF type' = "existing" THEN level' = Open(old, i) ELSE Open(old, i) = 0
  <2>1. level = 0
    BY <1>1 DEF RInv, Current, TypeOK
  <2> QED
    BY <1>1, <1>4, <1>5, <2>1 DEF Nesting
<1>7. Current'
    BY <1>1, <1>2, <1>5, <1>6 DEF Current
<1>8. old' = old /\ start' = i /\ i' = i + 1
    OBVIOUS
<1>9. TypeOK'
  <2>. HIDE DEF Break
  <2> QED
    BY <1>1, <1>2, <1>3, <1>5, <1>6, <1>8 DEF TypeOK
<1> QED
    BY <1>2, <1>7, <1>9 DEF RInv

\* The last region is closed like the others.
LEMMA EndOK == RInv /\ End => RInv'
<1>. SUFFICES ASSUME RInv, End PROVE RInv'
    OBVIOUS
<1>. USE DEF End
<1>1. Len(old) \in Nat /\ i \in 2 .. Len(old) /\ Open(old, i - 1) = 0
    BY PlanFacts, BreakOutside
<1>2. /\ regions' \in Seq([first : Nat, last : Nat, parallel : BOOLEAN, sinks : SUBSET Vars])
      /\ \A n \in DOMAIN regions' : RegionOK(n)'
      /\ \A n \in DOMAIN regions' :
             regions'[n].parallel \in BOOLEAN /\ regions'[n].sinks \subseteq Vars
    BY <1>1, CloseOK
<1>3. TypeOK'
    BY <1>1, <1>2 DEF RInv, TypeOK
<1>4. ~ Scanning'
    BY <1>1 DEF Scanning
<1> QED
    BY <1>2, <1>3, <1>4 DEF RInv

-----------------------------------------------------------------------------
(* Barrier blocks *)

\* What is known of the regions and of the one being scanned holds throughout the pass.
THEOREM RegionInvariant == Spec => []RInv
<1>1. ASSUME RInv, [Next]_vars
      PROVE  RInv'
  <2>1. CASE Stay
    BY <1>1, <2>1, StayOK
  <2>2. CASE Break
    BY <1>1, <2>2, BreakOK
  <2>3. CASE End
    BY <1>1, <2>3, EndOK
  <2>4. CASE UNCHANGED vars
    <3>1. TypeOK' /\ (Scanning' => Current')
      BY <1>1, <2>4 DEF vars, RInv, TypeOK, Current, LastRegion, Scanning
    <3>2. \A n \in DOMAIN regions' : RegionOK(n)'
      BY <1>1, <2>4 DEF vars, RInv, RegionOK
    <3> QED
      BY <1>1, <2>4, <3>1, <3>2 DEF vars, RInv
  <2> QED
    BY <1>1, <2>1, <2>2, <2>3, <2>4 DEF Next
<1> QED
    BY <1>1, InitOK, PTL DEF Spec

\* The variables of the pass keep their types; the nesting level never becomes negative
\* (opt_dataflow.c:295).
THEOREM RegionsTyped == Spec => []TypeOK
<1>1. RInv => TypeOK
    BY DEF RInv
<1> QED
    BY <1>1, RegionInvariant, PTL

\* For every plan, however barrier blocks nest: OPTdataflowImplementation makes consecutive
\* regions that have a barrier with its exit, and none with side effects is parallel.
THEOREM BarriersWhole == Spec => []BlocksWhole
<1>1. RInv => BlocksWhole
    BY DEF RInv, RegionOK, BlocksWhole, Special
<1> QED
    BY <1>1, RegionInvariant, PTL

-----------------------------------------------------------------------------
(* Induction *)

\* Every nonempty set of natural numbers has a smallest one.
LEMMA Smallest ==
    ASSUME NEW S \in SUBSET Nat, S # {}
    PROVE  \E m \in S : \A n \in S : m <= n
<1>1. PICK x \in S : TRUE
    OBVIOUS
<1>. DEFINE U == 0..x
            F == {0..n : n \in {k \in S : k <= x}}
<1>2. IsFiniteSet(U)
    BY FS_Interval
<1>3. F \subseteq SUBSET U /\ F # {}
    BY <1>1
<1>4. IsWellFoundedOn(StrictSubsetOrdering(U), FiniteSubsetsOf(U))
    BY FS_StrictSubsetOrderingWellFounded
<1>5. F \subseteq FiniteSubsetsOf(U)
    BY <1>2, <1>3, FS_FiniteSubsetsOfFinite
<1>. HIDE DEF F, U
<1>6. PICK A \in F : \A B \in F : ~(<<B, A>> \in StrictSubsetOrdering(U))
    BY <1>3, <1>4, <1>5, WFMin
<1>7. PICK m \in S : m <= x /\ A = 0..m
    BY <1>6 DEF F
<1>8. ASSUME NEW n \in S, n < m PROVE FALSE
  <2>1. 0..n \in F
     BY <1>1, <1>7, <1>8 DEF F
  <2>2. 0..n \subseteq 0..m /\ 0..n # 0..m
    BY <1>7, <1>8
  <2>3. 0..n \in SUBSET U /\ A \in SUBSET U
    BY <1>3, <1>6, <2>1
  <2> QED
    BY <1>6, <1>7, <2>1, <2>2, <2>3 DEF StrictSubsetOrdering
<1> QED
    BY <1>8

\* A set of natural numbers with 0 and the successors of its elements is all.
LEMMA Induction ==
    ASSUME NEW S \in SUBSET Nat, 0 \in S, \A n \in S : n + 1 \in S
    PROVE  S = Nat
<1> SUFFICES ASSUME Nat \ S # {} PROVE FALSE
    OBVIOUS
<1>1. PICK m \in Nat \ S : \A n \in Nat \ S : m <= n
  <2>1. Nat \ S \in SUBSET Nat
    OBVIOUS
  <2> QED
    BY <2>1, Smallest
<1>2. m - 1 \in Nat /\ m - 1 \in S
    BY <1>1
<1> QED
    BY <1>1, <1>2

-----------------------------------------------------------------------------
(* The graph of a block *)

\* A function from 1 .. n is a sequence of n elements.
LEMMA FunctionIsSeq ==
    ASSUME NEW S, NEW n \in Nat, NEW f \in [1 .. n -> S]
    PROVE  f \in Seq(S) /\ Len(f) = n
OBVIOUS

\* What a concatenation has, each part has.
LEMMA RangeOfBoth ==
    ASSUME NEW S, NEW a \in Seq(S), NEW b \in Seq(S)
    PROVE  a \o b \in Seq(S) /\ Range(a \o b) = Range(a) \cup Range(b)
<1>1. a \o b \in Seq(S) /\ Len(a \o b) = Len(a) + Len(b) /\ Len(a) \in Nat /\ Len(b) \in Nat
    OBVIOUS
<1>2. \A k \in 1 .. Len(a) + Len(b) :
          (a \o b)[k] = IF k <= Len(a) THEN a[k] ELSE b[k - Len(a)]
    OBVIOUS
<1>3. ASSUME NEW k \in 1 .. Len(b) PROVE (a \o b)[k + Len(a)] = b[k]
    BY <1>1, <1>2
<1>4. DOMAIN a = 1 .. Len(a) /\ DOMAIN b = 1 .. Len(b) /\ DOMAIN (a \o b) = 1 .. Len(a) + Len(b)
    BY <1>1
<1>5. Range(a \o b) \subseteq Range(a) \cup Range(b)
  <2>1. ASSUME NEW k \in 1 .. Len(a) + Len(b) PROVE (a \o b)[k] \in Range(a) \cup Range(b)
    <3>1. CASE k <= Len(a)
      BY <1>1, <1>2, <1>4, <3>1 DEF Range
    <3>2. CASE k > Len(a)
      <4>1. k - Len(a) \in 1 .. Len(b)
        BY <1>1, <3>2
      <4> QED
        BY <1>1, <1>2, <1>4, <3>2, <4>1 DEF Range
    <3> QED
      BY <1>1, <3>1, <3>2
  <2> QED
    BY <1>4, <2>1 DEF Range
<1>6. Range(a) \subseteq Range(a \o b)
    BY <1>1, <1>2, <1>4 DEF Range
<1>7. Range(b) \subseteq Range(a \o b)
  <2>1. ASSUME NEW k \in 1 .. Len(b) PROVE b[k] \in Range(a \o b)
    <3>1. k + Len(a) \in 1 .. Len(a) + Len(b)
      BY <1>1
    <3> QED
      BY <1>3, <1>4, <3>1 DEF Range
  <2> QED
    BY <1>4, <2>1 DEF Range
<1> QED
    BY <1>1, <1>5, <1>6, <1>7

\* g joins the first k sequences of s, step by step.
Joins(s, k, g) ==
    /\ DOMAIN g = 1 .. k
    /\ \A m \in 1 .. k : g[m] = IF m = 1 THEN s[m] ELSE g[m - 1] \o s[m]

\* The sequences of a sequence can be joined.
LEMMA JoinExists ==
    ASSUME NEW S, NEW n \in Nat, NEW s \in [1 .. n -> Seq(S)]
    PROVE  \E g : Joins(s, n, g)
<1>. DEFINE Has == {k \in Nat : \E g : Joins(s, k, g)}
<1>1. 0 \in Has
  <2>1. Joins(s, 0, [m \in 1 .. 0 |-> {}])
    BY DEF Joins
  <2> QED
    BY <2>1
<1>2. ASSUME NEW k \in Has PROVE k + 1 \in Has
  <2>1. PICK g : Joins(s, k, g)
    OBVIOUS
  <2>. DEFINE h == [m \in 1 .. k + 1 |-> IF m = k + 1
                                         THEN IF m = 1 THEN s[m] ELSE g[m - 1] \o s[m]
                                         ELSE g[m]]
  <2>2. \A m \in 1 .. k : h[m] = g[m]
    OBVIOUS
  <2>3. h[k + 1] = IF k + 1 = 1 THEN s[k + 1] ELSE g[k] \o s[k + 1]
    OBVIOUS
  <2>4. DOMAIN h = 1 .. k + 1
    OBVIOUS
  <2>. HIDE DEF h
  <2>5. ASSUME NEW m \in 1 .. k + 1
        PROVE  h[m] = IF m = 1 THEN s[m] ELSE h[m - 1] \o s[m]
    <3>1. m \in 1 .. k \/ m = k + 1
      OBVIOUS
    <3>2. m # 1 => m - 1 \in 1 .. k
      OBVIOUS
    <3>3. CASE m \in 1 .. k
      BY <2>1, <2>2, <3>2, <3>3 DEF Joins
    <3>4. CASE m = k + 1
      BY <2>2, <2>3, <3>2, <3>4
    <3> QED
      BY <3>1, <3>3, <3>4
  <2>6. Joins(s, k + 1, h)
    BY <2>4, <2>5 DEF Joins
  <2> QED
    BY <2>6
<1>. HIDE DEF Has
<1>3. Has \in SUBSET Nat
    BY DEF Has
<1>4. Has = Nat
    BY <1>1, <1>2, <1>3, Induction
<1> QED
    BY <1>4 DEF Has

\* What has been joined has all that went into it.
LEMMA JoinHasAll ==
    ASSUME NEW S, NEW n \in Nat, NEW s \in [1 .. n -> Seq(S)], NEW g, Joins(s, n, g),
           NEW k \in 1 .. n
    PROVE  g[k] \in Seq(S) /\ \A j \in 1 .. k : Range(s[j]) \subseteq Range(g[k])
<1>. DEFINE All(m) == g[m] \in Seq(S) /\ \A j \in 1 .. m : Range(s[j]) \subseteq Range(g[m])
            Good == {m \in Nat : m + 1 <= n => All(m + 1)}
<1>1. 0 \in Good
  <2>1. 1 <= n => g[1] = s[1] /\ s[1] \in Seq(S)
    BY DEF Joins
  <2> QED
    BY <2>1
<1>2. ASSUME NEW m \in Good PROVE m + 1 \in Good
  <2>. SUFFICES ASSUME m + 2 <= n PROVE All(m + 2)
    <3>1. (m + 1) + 1 = m + 2
      OBVIOUS
    <3>. HIDE DEF All
    <3> QED
      BY <3>1
  <2>1. All(m + 1)
    OBVIOUS
  <2>2. g[m + 2] = g[m + 1] \o s[m + 2] /\ s[m + 2] \in Seq(S)
    <3>1. m + 2 \in 1 .. n /\ m + 2 # 1 /\ (m + 2) - 1 = m + 1
      OBVIOUS
    <3> QED
      BY <3>1 DEF Joins
  <2>3. g[m + 2] \in Seq(S) /\ Range(g[m + 2]) = Range(g[m + 1]) \cup Range(s[m + 2])
    BY <2>1, <2>2, RangeOfBoth
  <2>4. \A j \in 1 .. m + 2 : j \in 1 .. m + 1 \/ j = m + 2
    OBVIOUS
  <2> QED
    BY <2>1, <2>3, <2>4
<1>. HIDE DEF All, Good
<1>3. Good \in SUBSET Nat
    BY DEF Good
<1>4. Good = Nat
    BY <1>1, <1>2, <1>3, Induction
<1>5. PICK m \in Nat : k = m + 1
  <2>1. k - 1 \in Nat /\ k = (k - 1) + 1
    OBVIOUS
  <2> QED
    BY <2>1
<1>6. All(k)
  <2>1. m \in Good /\ m + 1 <= n
    BY <1>4, <1>5
  <2>2. m + 1 <= n => All(m + 1)
    BY <2>1 DEF Good
  <2> QED
    BY <1>5, <2>1, <2>2
<1> QED
    BY <1>6 DEF All

\* FlattenSeq returns a sequence that has all that is in its sequences.
LEMMA FlattenAll ==
    ASSUME NEW S, NEW n \in Nat, NEW s \in [1 .. n -> Seq(S)]
    PROVE  /\ M!FlattenSeq(s) \in Seq(S)
           /\ \A j \in 1 .. n : Range(s[j]) \subseteq Range(M!FlattenSeq(s))
<1>1. s \in Seq(Seq(S)) /\ Len(s) = n
    BY FunctionIsSeq
<1>2. CASE n = 0
  <2>1. s = <<>> /\ M!FlattenSeq(s) = s
    BY <1>1, <1>2 DEF M!FlattenSeq
  <2>2. <<>> \in Seq(S)
    OBVIOUS
  <2>3. M!FlattenSeq(s) \in Seq(S)
    BY <2>1, <2>2
  <2>4. 1 .. n = {}
    BY <1>2
  <2> QED
    BY <2>3, <2>4
<1>3. CASE n # 0
  <2>. DEFINE J(g) == g = [k \in 1 .. Len(s) |-> IF k = 1 THEN s[k] ELSE g[k - 1] \o s[k]]
              f == CHOOSE g : J(g)
  <2>1. \E g : J(g)
    <3>1. PICK g : Joins(s, n, g)
      BY JoinExists
    <3>2. J([k \in 1 .. n |-> g[k]])
      BY <1>1, <3>1 DEF Joins
    <3> QED
      BY <3>2
  <2>2. J(f)
    BY <2>1
  <2>3. M!FlattenSeq(s) = f[n]
    BY <1>1, <1>3 DEF M!FlattenSeq
  <2>. HIDE DEF f
  <2>4. Joins(s, n, f)
    BY <1>1, <2>2 DEF Joins
  <2>5. n \in 1 .. n
    BY <1>3
  <2> QED
    BY <2>3, <2>4, <2>5, JoinHasAll
<1> QED
    BY <1>2, <1>3

\* A block of n instructions, and where the scopes of its variables end.
Blocks(n) == [1 .. n -> [ret : SUBSET Vars, args : Seq(Vars)]]
Scopes == [Vars -> Nat]

\* Every list of wake-ups has those for each argument of each later instruction, and
\* those for the scopes of its own instruction's arguments.
LEMMA WakeAll ==
    ASSUME NEW n \in Nat, NEW code \in Blocks(n), NEW eol \in Scopes, NEW k \in 1 .. n
    PROVE  /\ \A j \in DOMAIN code[k].args :
                  Range(M!ForScope(code, eol, k, code[k].args[j]))
                     \subseteq Range(M!Graph(code, eol)[k])
           /\ \A l \in k + 1 .. n : \A j \in DOMAIN code[l].args :
                  Range(M!ForArg(code, l, code[l].args[j], k))
                     \subseteq Range(M!Graph(code, eol)[k])
<1>. DEFINE args(m) == code[m].args
            own == [j \in DOMAIN args(k) |-> M!ForScope(code, eol, k, args(k)[j])]
            one(m) == [j \in DOMAIN args(k + m) |-> M!ForArg(code, k + m, args(k + m)[j], k)]
            later == [m \in 1 .. Len(code) - k |-> M!FlattenSeq(one(m))]
<1>1. Len(code) = n /\ DOMAIN code = 1 .. n /\ \A m \in 1 .. n : args(m) \in Seq(Vars)
    BY DEF Blocks
<1>2. M!Graph(code, eol)[k] = M!FlattenSeq(own) \o M!FlattenSeq(later)
    BY <1>1 DEF M!Graph, M!WakeList
<1>3. \A m \in 1 .. n : DOMAIN args(m) = 1 .. Len(args(m)) /\ Len(args(m)) \in Nat
                        /\ \A j \in DOMAIN args(m) : args(m)[j] \in Vars
    BY <1>1
<1>. HIDE DEF args
<1>4. own \in [1 .. Len(args(k)) -> Seq(Nat)]
  <2>1. \A v \in Vars : M!ForScope(code, eol, k, v) \in Seq(Nat)
    BY DEF M!ForScope, Scopes
  <2> QED
    BY <1>3, <2>1
<1>5. ASSUME NEW m \in 1 .. n - k
      PROVE  one(m) \in [1 .. Len(args(k + m)) -> Seq(Nat)]
  <2>1. k + m \in 1 .. n
    OBVIOUS
  <2>2. \A v : M!ForArg(code, k + m, v, k) \in Seq(Nat)
    BY <2>1 DEF M!ForArg
  <2> QED
    BY <1>3, <2>1, <2>2
<1>. HIDE DEF own, one
<1>6. /\ M!FlattenSeq(own) \in Seq(Nat)
      /\ \A j \in 1 .. Len(args(k)) : Range(own[j]) \subseteq Range(M!FlattenSeq(own))
    BY <1>3, <1>4, FlattenAll
<1>7. \A m \in 1 .. n - k :
          /\ M!FlattenSeq(one(m)) \in Seq(Nat)
          /\ \A j \in 1 .. Len(args(k + m)) :
                 Range(one(m)[j]) \subseteq Range(M!FlattenSeq(one(m)))
  <2>. TAKE m \in 1 .. n - k
  <2>1. k + m \in 1 .. n
    OBVIOUS
  <2> QED
    BY <1>3, <1>5, <2>1, FlattenAll
<1>8. n - k \in Nat /\ later \in [1 .. n - k -> Seq(Nat)]
    BY <1>1, <1>7
<1>9. \A m \in 1 .. n - k : later[m] = M!FlattenSeq(one(m))
    BY <1>1
<1>. HIDE DEF later
<1>10. /\ M!FlattenSeq(later) \in Seq(Nat)
       /\ \A m \in 1 .. n - k : Range(later[m]) \subseteq Range(M!FlattenSeq(later))
    BY <1>8, FlattenAll
<1>11. Range(M!Graph(code, eol)[k]) = Range(M!FlattenSeq(own)) \cup Range(M!FlattenSeq(later))
    BY <1>2, <1>6, <1>10, RangeOfBoth
<1>12. ASSUME NEW j \in DOMAIN args(k)
       PROVE  Range(M!ForScope(code, eol, k, args(k)[j])) \subseteq Range(M!Graph(code, eol)[k])
  <2>1. own[j] = M!ForScope(code, eol, k, args(k)[j]) /\ j \in 1 .. Len(args(k))
    BY <1>3 DEF own
  <2> QED
    BY <1>6, <1>11, <2>1
<1>13. ASSUME NEW l \in k + 1 .. n, NEW j \in DOMAIN args(l)
       PROVE  Range(M!ForArg(code, l, args(l)[j], k)) \subseteq Range(M!Graph(code, eol)[k])
  <2>1. PICK m \in 1 .. n - k : l = k + m
    <3>1. l - k \in 1 .. n - k /\ l = k + (l - k)
      OBVIOUS
    <3> QED
      BY <3>1
  <2>2. one(m)[j] = M!ForArg(code, l, args(l)[j], k) /\ j \in 1 .. Len(args(k + m))
    BY <1>3, <2>1 DEF one
  <2> QED
    BY <1>7, <1>9, <1>10, <1>11, <2>1, <2>2
<1> QED
    BY <1>12, <1>13 DEF args

\* What alone assigns a variable before an instruction that reads it wakes that one up.
LEMMA ArgEdge ==
    ASSUME NEW n \in Nat, NEW code \in Blocks(n), NEW eol \in Scopes,
           NEW k \in 1 .. n, NEW l \in k + 1 .. n, NEW v \in Range(code[l].args),
           \A h \in 1 .. l - 1 : v \in code[h].ret <=> h = k
    PROVE  l \in Range(M!Graph(code, eol)[k])
<1>1. PICK j \in DOMAIN code[l].args : code[l].args[j] = v
    BY DEF Range
<1>2. M!Assigned(code, l, v) = k
  <2>1. {h \in 1 .. l - 1 : v \in code[h].ret} = {k}
    OBVIOUS
  <2> QED
    BY <2>1 DEF M!Assigned, M!Max
<1>3. M!ForArg(code, l, v, k) = <<l>>
    BY <1>2 DEF M!ForArg
<1>4. l \in Range(<<l>>)
    BY DEF Range
<1> QED
    BY <1>1, <1>3, <1>4, WakeAll

\* An instruction that reads a variable wakes up the one where its scope ends.
LEMMA ScopeEdge ==
    ASSUME NEW n \in Nat, NEW code \in Blocks(n), NEW eol \in Scopes,
           NEW k \in 1 .. n, NEW v \in Range(code[k].args), eol[v] > k, eol[v] <= n
    PROVE  eol[v] \in Range(M!Graph(code, eol)[k])
<1>1. PICK j \in DOMAIN code[k].args : code[k].args[j] = v
    BY DEF Range
<1>2. Len(code) = n
    BY DEF Blocks
<1>3. M!ForScope(code, eol, k, v) = <<eol[v]>>
    BY <1>2 DEF M!ForScope
<1>4. eol[v] \in Range(<<eol[v]>>)
    BY DEF Range
<1> QED
    BY <1>1, <1>3, <1>4, WakeAll

\* The relation over 1 .. n that D's edges generate: j is in D[k] when an edge goes from
\* j to k.
Closed(n, D, T) ==
    /\ T \subseteq (1 .. n) \X (1 .. n)
    /\ \A k \in 1 .. n : \A j \in D[k] : <<j, k>> \in T
    /\ \A j, k, m \in 1 .. n : <<j, k>> \in T /\ <<k, m>> \in T => <<j, m>> \in T

\* There is a function as Before defines it: what is before an instruction are the
\* ones that wake it up, and what is before those.
LEMMA BeforeExists ==
    ASSUME NEW n \in Nat, NEW D \in [1 .. n -> SUBSET (1 .. n)]
    PROVE  \E f : f = [k \in 1 .. n |-> D[k] \cup UNION {f[j] : j \in D[k]}]
<1>. DEFINE All == (1 .. n) \X (1 .. n)
            T == {e \in All : \A R \in SUBSET All : Closed(n, D, R) => e \in R}
            f == [k \in 1 .. n |-> {j \in 1 .. n : <<j, k>> \in T}]
            S == {e \in T : \/ e[1] \in D[e[2]]
                            \/ \E m \in D[e[2]] : <<e[1], m>> \in T}
<1>1. Closed(n, D, T)
  <2>1. T \subseteq All
    OBVIOUS
  <2>2. ASSUME NEW k \in 1 .. n, NEW j \in D[k] PROVE <<j, k>> \in T
    <3>1. <<j, k>> \in All
      OBVIOUS
    <3>2. \A R \in SUBSET All : Closed(n, D, R) => <<j, k>> \in R
      BY DEF Closed
    <3> QED
      BY <3>1, <3>2
  <2>3. ASSUME NEW j \in 1 .. n, NEW k \in 1 .. n, NEW m \in 1 .. n,
               <<j, k>> \in T, <<k, m>> \in T
        PROVE  <<j, m>> \in T
    <3>1. <<j, m>> \in All
      OBVIOUS
    <3>2. \A R \in SUBSET All : Closed(n, D, R) => <<j, k>> \in R /\ <<k, m>> \in R
      BY <2>3
    <3>3. \A R \in SUBSET All : Closed(n, D, R) => <<j, m>> \in R
      BY <3>2 DEF Closed
    <3> QED
      BY <3>1, <3>3
  <2>. HIDE DEF T
  <2> QED
    BY <2>1, <2>2, <2>3 DEF Closed
<1>2. \A R \in SUBSET All : Closed(n, D, R) => T \subseteq R
    OBVIOUS
<1>. HIDE DEF T
<1>3. Closed(n, D, S)
  <2>1. S \subseteq All
    BY <1>1 DEF Closed
  <2>2. ASSUME NEW k \in 1 .. n, NEW j \in D[k] PROVE <<j, k>> \in S
    <3>1. <<j, k>> \in T
      BY <1>1 DEF Closed
    <3> QED
      BY <3>1
  <2>3. ASSUME NEW j \in 1 .. n, NEW k \in 1 .. n, NEW m \in 1 .. n,
               <<j, k>> \in S, <<k, m>> \in S
        PROVE  <<j, m>> \in S
    <3>1. <<j, k>> \in T /\ <<k, m>> \in T
      BY <2>3
    <3>2. <<j, m>> \in T
      BY <1>1, <3>1 DEF Closed
    <3>3. k \in D[m] \/ \E h \in D[m] : <<k, h>> \in T
      BY <2>3
    <3>4. CASE k \in D[m]
      BY <3>1, <3>2, <3>4
    <3>5. ASSUME NEW h \in D[m], <<k, h>> \in T PROVE <<j, m>> \in S
      <4>1. h \in 1 .. n
        OBVIOUS
      <4>2. <<j, h>> \in T
        BY <1>1, <3>1, <3>5, <4>1 DEF Closed
      <4> QED
        BY <3>2, <4>2
    <3> QED
      BY <3>3, <3>4, <3>5
  <2>. HIDE DEF S
  <2> QED
    BY <2>1, <2>2, <2>3 DEF Closed
<1>4. S \in SUBSET All
    BY <1>1 DEF Closed
<1>5. T \subseteq S
    BY <1>2, <1>3, <1>4
<1>6. ASSUME NEW k \in 1 .. n
      PROVE  f[k] = D[k] \cup UNION {f[j] : j \in D[k]}
  <2>1. D[k] \subseteq f[k]
    BY <1>1 DEF Closed
  <2>2. ASSUME NEW j \in D[k], NEW h \in f[j] PROVE h \in f[k]
    <3>1. j \in 1 .. n /\ h \in 1 .. n /\ <<h, j>> \in T /\ <<j, k>> \in T
      BY <1>1 DEF Closed
    <3> QED
      BY <1>1, <3>1 DEF Closed
  <2>3. ASSUME NEW h \in f[k] PROVE h \in D[k] \/ \E j \in D[k] : h \in f[j]
    <3>1. h \in 1 .. n /\ <<h, k>> \in S
      BY <1>5
    <3>2. h \in D[k] \/ \E m \in D[k] : <<h, m>> \in T
      BY <3>1
    <3> QED
      BY <3>1, <3>2
  <2>. HIDE DEF f
  <2> QED
    BY <2>1, <2>2, <2>3
<1>7. f = [k \in 1 .. n |-> D[k] \cup UNION {f[j] : j \in D[k]}]
  <2>1. f = [k \in 1 .. n |-> f[k]]
    OBVIOUS
  <2>. HIDE DEF f
  <2> QED
    BY <1>6, <2>1
<1> QED
    BY <1>7

\* What wakes an instruction of a region up comes before it.
LEMMA WokenAfter ==
    ASSUME NEW r, NEW n \in Nat, Code(r) \in Blocks(n),
           NEW j \in 1 .. n, NEW k \in j + 1 .. n,
           k \in Range(M!Graph(Code(r), Ends(r))[j])
    PROVE  j \in Before(r)[k]
<1>. DEFINE g == M!Graph(Code(r), Ends(r))
            D(m) == {h \in 1 .. m - 1 : m \in Range(g[h])}
            B(f) == f = [m \in DOMAIN g |-> D(m) \cup UNION {f[h] : h \in D(m)}]
            b == CHOOSE f : B(f)
<1>1. DOMAIN g = 1 .. n
    BY DEF M!Graph, Blocks
<1>2. Before(r) = b
    BY DEF Before
<1>. HIDE DEF g
<1>3. \E f : B(f)
  <2>. DEFINE E == [m \in 1 .. n |-> D(m)]
  <2>1. E \in [1 .. n -> SUBSET (1 .. n)]
    OBVIOUS
  <2>2. PICK f : f = [m \in 1 .. n |-> E[m] \cup UNION {f[h] : h \in E[m]}]
    <3>. HIDE DEF E
    <3> QED
      BY <2>1, BeforeExists
  <2>3. B(f)
    BY <1>1, <2>2
  <2> QED
    BY <2>3
<1>4. B(b)
    BY <1>3
<1>. HIDE DEF b
<1>5. b[k] = D(k) \cup UNION {b[h] : h \in D(k)}
    BY <1>1, <1>4
<1>6. j \in D(k)
    BY DEF g
<1> QED
    BY <1>2, <1>5, <1>6

-----------------------------------------------------------------------------
(* Releases *)

\* A nonempty set of numbers up to n has a largest one.
LEMMA LargestExists ==
    ASSUME NEW n \in Nat, NEW U \in SUBSET (1 .. n), U # {}
    PROVE  Max(U) \in U /\ \A k \in U : k <= Max(U)
<1>. DEFINE S == {n - k : k \in U}
<1>0. \A k \in U : k \in 1 .. n /\ n - k \in Nat
    OBVIOUS
<1>1. S \in SUBSET Nat /\ S # {}
  <2>1. PICK k \in U : TRUE
    OBVIOUS
  <2>2. n - k \in S
    OBVIOUS
  <2> QED
    BY <1>0, <2>2
<1>2. PICK m \in S : \A h \in S : m <= h
    BY <1>1, Smallest
<1>3. PICK k \in U : m = n - k
    BY <1>2
<1>4. ASSUME NEW h \in U PROVE h <= k
  <2>1. n - h \in S
    OBVIOUS
  <2>2. n - k <= n - h
    BY <1>2, <1>3, <2>1
  <2> QED
    BY <1>0, <2>2
<1>5. \E x \in U : \A y \in U : x >= y
    BY <1>0, <1>4
<1>. HIDE DEF S
<1>6. Max(U) \in U /\ \A y \in U : Max(U) >= y
    BY <1>5 DEF Max
<1> QED
    BY <1>0, <1>6

\* A variable's scope ends at or after each instruction that uses it.
LEMMA ScopeCovers ==
    ASSUME old \in Plans
    PROVE  /\ \A v : EndScope(v) \in 0 .. Len(old)
           /\ \A k \in 1 .. Len(old) : \A v \in Reads(old[k]) : k <= EndScope(v)
<1>1. Len(old) \in Nat /\ DOMAIN old = 1 .. Len(old)
    BY PlanShape
<1>. DEFINE U(v) == {k \in DOMAIN old : v = old[k].ret \/ v \in Range(old[k].args)}
<1>2. ASSUME NEW v
      PROVE  /\ EndScope(v) \in 0 .. Len(old)
             /\ \A k \in U(v) : k <= EndScope(v)
  <2>1. CASE U(v) = {}
    BY <1>1, <2>1 DEF EndScope
  <2>2. CASE U(v) # {}
    <3>1. EndScope(v) = Max(U(v))
      BY <2>2 DEF EndScope
    <3>2. U(v) \in SUBSET (1 .. Len(old))
      BY <1>1
    <3>. HIDE DEF U
    <3>3. Max(U(v)) \in U(v) /\ \A k \in U(v) : k <= Max(U(v))
      BY <1>1, <2>2, <3>2, LargestExists
    <3>4. Max(U(v)) \in 1 .. Len(old)
      BY <3>2, <3>3
    <3> QED
      BY <1>1, <3>1, <3>3, <3>4
  <2> QED
    BY <2>1, <2>2
<1>3. \A k \in 1 .. Len(old) : \A v \in Reads(old[k]) : k \in U(v)
    BY <1>1 DEF Reads
<1> QED
    BY <1>2, <1>3

\* A variable is released in the region where its scope ends, and there it is an argument.
SinksOK == \A n \in DOMAIN regions : \A v \in regions[n].sinks :
               /\ EndScope(v) \in regions[n].first .. regions[n].last
               /\ v \in Reads(old[EndScope(v)])

\* Every region that is copied gets its own releases.
LEMMA SinksInv == Spec => []SinksOK
<1>1. Init => SinksOK
    BY DEF Init, SinksOK
<1>2. ASSUME RInv, SinksOK, [Next]_vars
      PROVE  SinksOK'
  <2>1. old' = old
    BY <1>2 DEF Next, Stay, Break, End, vars
  <2>2. \A v : EndScope(v)' = EndScope(v)
    BY <2>1 DEF EndScope
  <2>3. CASE regions' = regions
    BY <1>2, <2>1, <2>2, <2>3 DEF SinksOK, Reads
  <2>4. CASE Close(i - 1)
    <3>. DEFINE new == [first |-> start, last |-> i - 1, parallel |-> ~ simpleFlow(start, i - 1),
                        sinks |-> IF ~ simpleFlow(start, i - 1)
                                  THEN dflowGarbagesink(start, i - 1) ELSE {}]
    <3>1. regions' = Append(regions, new)
      BY <2>4 DEF Close
    <3>2. \A v \in new.sinks : /\ EndScope(v) \in new.first .. new.last
                               /\ v \in Reads(old[EndScope(v)])
      BY DEF dflowGarbagesink, Reads
    <3>. HIDE DEF new
    <3>3. /\ DOMAIN regions' = 1 .. Len(regions) + 1 /\ DOMAIN regions = 1 .. Len(regions)
          /\ Len(regions) \in Nat
          /\ regions'[Len(regions) + 1] = new
          /\ \A n \in 1 .. Len(regions) : regions'[n] = regions[n]
      BY <1>2, <3>1 DEF RInv
    <3>4. ASSUME NEW n \in DOMAIN regions', NEW v \in regions'[n].sinks
          PROVE  /\ EndScope(v) \in regions'[n].first .. regions'[n].last
                 /\ v \in Reads(old[EndScope(v)])
      <4>1. CASE n = Len(regions) + 1
        BY <3>2, <3>3, <3>4, <4>1
      <4>2. CASE n \in 1 .. Len(regions)
        BY <1>2, <3>3, <3>4, <4>2 DEF SinksOK
      <4> QED
        BY <3>3, <4>1, <4>2
    <3> QED
      BY <2>1, <2>2, <3>4 DEF SinksOK, Reads
  <2> QED
    BY <1>2, <2>3, <2>4 DEF Next, Stay, Break, End, vars
<1> QED
    BY <1>1, <1>2, RegionInvariant, PTL DEF Spec

\* What SetToSeq makes of a finite set has all its elements, each once.
LEMMA SeqOfSet ==
    ASSUME NEW S, IsFiniteSet(S)
    PROVE  /\ SetToSeq(S) \in Seq(S) /\ Len(SetToSeq(S)) \in Nat
           /\ Range(SetToSeq(S)) = S
           /\ \A j, k \in DOMAIN SetToSeq(S) : SetToSeq(S)[j] = SetToSeq(S)[k] => j = k
<1>. DEFINE n == Cardinality(S)
<1>1. n \in Nat
    BY FS_CardinalityType
<1>2. PICK f : f \in Bijection(1 .. n, S)
  <2>1. PICK m \in Nat : ExistsBijection(1 .. m, S)
    BY FS_NatBijection
  <2>2. m = n
    BY <2>1, FS_CountingElements
  <2> QED
    BY <2>1, <2>2 DEF ExistsBijection
<1>. HIDE DEF n
<1>3. f \in [1 .. n -> S] /\ \A x \in S : \E k \in 1 .. n : f[k] = x
    BY <1>2 DEF Bijection, Surjection
<1>4. IsInjective(f)
    BY <1>2 DEF Bijection, Injection, IsInjective
<1>. DEFINE g == SetToSeq(S)
<1>5. g \in [1 .. n -> S] /\ IsInjective(g)
    BY <1>3, <1>4 DEF SetToSeq, n
<1>6. g \in Seq(S) /\ DOMAIN g = 1 .. n /\ Len(g) = n
    BY <1>1, <1>5, FunctionIsSeq
<1>7. \A j, k \in DOMAIN g : g[j] = g[k] => j = k
    BY <1>5 DEF IsInjective
<1>8. Range(g) = S
  <2>. HIDE DEF g
  <2>1. g \in Injection(1 .. n, S)
    BY <1>5, <1>6, <1>7 DEF Injection
  <2>2. ASSUME NEW x \in S, x \notin Range(g) PROVE FALSE
    <3>1. g \in Injection(1 .. n, S \ {x})
      BY <1>5, <1>6, <1>7, <2>2 DEF Injection, Range
    <3>2. IsFiniteSet(S \ {x}) /\ Cardinality(S \ {x}) = n - 1
      BY FS_RemoveElement DEF n
    <3>3. IsFiniteSet(1 .. n) /\ Cardinality(1 .. n) = n
      BY <1>1, FS_Interval
    <3>4. Cardinality(1 .. n) <= Cardinality(S \ {x})
      BY <3>1, <3>2, <3>3, FS_Injection DEF ExistsInjection
    <3> QED
      BY <1>1, <3>2, <3>3, <3>4
  <2> QED
    BY <1>5, <1>6, <2>2 DEF Range
<1> QED
    BY <1>1, <1>6, <1>7, <1>8

-----------------------------------------------------------------------------
(* The code of a parallel region *)

\* The variables that instructions 1 to n read are finitely many.
LEMMA FinitelyRead ==
    ASSUME old \in Plans
    PROVE  IsFiniteSet(UNION {Reads(old[k]) : k \in 1 .. Len(old)})
<1>1. Len(old) \in Nat
    BY PlanShape
<1>. DEFINE R == {Reads(old[k]) : k \in 1 .. Len(old)}
            f == [k \in 1 .. Len(old) |-> Reads(old[k])]
<1>2. f \in Surjection(1 .. Len(old), R)
    BY DEF Surjection
<1>3. IsFiniteSet(R)
    BY <1>1, <1>2, FS_Interval, FS_Surjection
<1>4. ASSUME NEW k \in 1 .. Len(old) PROVE IsFiniteSet(Reads(old[k]))
  <2>1. old[k].args \in Seq(Vars)
    BY PlanShape DEF Instruction
  <2>2. old[k].args \in Surjection(1 .. Len(old[k].args), Reads(old[k]))
    BY <2>1 DEF Surjection, Reads, Range
  <2>3. IsFiniteSet(1 .. Len(old[k].args))
    <3>1. Len(old[k].args) \in Int /\ 1 \in Int
      BY <2>1
    <3> QED
      BY <3>1, FS_Interval
  <2> QED
    BY <2>2, <2>3, FS_Surjection
<1> QED
    BY <1>3, <1>4, FS_UNION

\* Where a parallel region is.
LEMMA ParallelRegion ==
    ASSUME RInv, SinksOK, NEW r \in Parallel
    PROVE  /\ r.first \in 1 .. Len(old) /\ r.last \in r.first .. Len(old)
           /\ Len(old) \in Nat /\ old \in Plans
           /\ r.sinks \in SUBSET Vars /\ IsFiniteSet(r.sinks)
           /\ \A v \in r.sinks : /\ EndScope(v) \in r.first .. r.last
                                 /\ v \in Reads(old[EndScope(v)])
<1>1. Len(old) \in Nat /\ old \in Plans
    BY PlanShape DEF RInv
<1>2. PICK n \in DOMAIN regions : r = regions[n]
    BY DEF Parallel
<1>3. n \in Nat \ {0} /\ (n # 1 => n - 1 \in DOMAIN regions)
    BY DEF RInv
<1>4. RegionOK(n) /\ (n # 1 => RegionOK(n - 1))
    BY <1>3 DEF RInv
<1>5. r.first \in 1 .. Len(old) /\ r.last \in r.first .. Len(old)
    BY <1>1, <1>2, <1>3, <1>4 DEF RegionOK
<1>6. r.sinks \in SUBSET Vars
    BY <1>2 DEF RInv, TypeOK
<1>7. \A v \in r.sinks : EndScope(v) \in r.first .. r.last /\ v \in Reads(old[EndScope(v)])
    BY <1>2 DEF SinksOK
<1>8. \A v \in r.sinks : EndScope(v) \in 1 .. Len(old)
    BY <1>1, <1>5, <1>7
<1>9. r.sinks \subseteq UNION {Reads(old[k]) : k \in 1 .. Len(old)}
    BY <1>7, <1>8
<1>10. IsFiniteSet(r.sinks)
    BY <1>1, <1>9, FinitelyRead, FS_Subset
<1> QED
    BY <1>1, <1>5, <1>6, <1>7, <1>10

\* Its instructions and releases, and where scopes end among them.
LEMMA RegionCode ==
    ASSUME RInv, SinksOK, NEW r \in Parallel
    PROVE  /\ Size(r) \in Nat /\ Len(Sinks(r)) \in Nat /\ Range(Sinks(r)) = r.sinks
           /\ DOMAIN Sinks(r) = 1 .. Len(Sinks(r))
           /\ \A j, k \in DOMAIN Sinks(r) : Sinks(r)[j] = Sinks(r)[k] => j = k
           /\ Code(r) \in Blocks(Size(r) + Len(Sinks(r)))
           /\ \A k \in 1 .. Size(r) : /\ Code(r)[k].ret = {old[r.first + k - 1].ret}
                                      /\ Code(r)[k].args = old[r.first + k - 1].args
           /\ \A k \in 1 .. Len(Sinks(r)) : /\ Code(r)[Size(r) + k].ret = {}
                                            /\ Code(r)[Size(r) + k].args = <<Sinks(r)[k]>>
           /\ Ends(r) \in Scopes
           /\ \A v \in r.sinks : \E k \in 1 .. Len(Sinks(r)) :
                  Sinks(r)[k] = v /\ Ends(r)[v] = Size(r) + k
           /\ \A v \in Vars \ r.sinks :
                  Ends(r)[v] = IF EndScope(v) \in r.first .. r.last
                               THEN EndScope(v) - r.first + 1 ELSE 0
<1>. DEFINE s == Sinks(r)
            a == [k \in 1 .. Size(r) |-> [ret |-> {old[r.first + k - 1].ret},
                                          args |-> old[r.first + k - 1].args]]
            b == [k \in DOMAIN s |-> [ret |-> {}, args |-> <<s[k]>>]]
            I == [ret : SUBSET Vars, args : Seq(Vars)]
<1>1. /\ r.first \in 1 .. Len(old) /\ r.last \in r.first .. Len(old)
      /\ Len(old) \in Nat /\ old \in Plans
      /\ r.sinks \in SUBSET Vars /\ IsFiniteSet(r.sinks)
    BY ParallelRegion
<1>2. Size(r) \in Nat /\ \A k \in 1 .. Size(r) : r.first + k - 1 \in 1 .. Len(old)
    BY <1>1 DEF Size
<1>3. /\ s \in Seq(r.sinks) /\ Len(s) \in Nat /\ Range(s) = r.sinks
      /\ \A j, k \in DOMAIN s : s[j] = s[k] => j = k
    BY <1>1, SeqOfSet DEF Sinks
<1>. HIDE DEF s
<1>4. DOMAIN s = 1 .. Len(s) /\ \A k \in DOMAIN s : s[k] \in Vars
    BY <1>1, <1>3
<1>5. a \in [1 .. Size(r) -> I]
  <2>1. \A k \in 1 .. Len(old) : old[k].ret \in Vars /\ old[k].args \in Seq(Vars)
    BY <1>1, PlanShape DEF Instruction
  <2> QED
    BY <1>2, <2>1
<1>6. b \in [1 .. Len(s) -> I]
    BY <1>4
<1>7. Code(r) = a \o b
    BY DEF Code, s
<1>8. /\ \A k \in 1 .. Size(r) : /\ a[k].ret = {old[r.first + k - 1].ret}
                                 /\ a[k].args = old[r.first + k - 1].args
      /\ \A k \in 1 .. Len(s) : b[k].ret = {} /\ b[k].args = <<s[k]>>
    BY <1>4
<1>. HIDE DEF a, b, I
<1>9. a \in Seq(I) /\ b \in Seq(I) /\ Len(a) = Size(r) /\ Len(b) = Len(s)
  <2>1. a \in Seq(I) /\ Len(a) = Size(r)
    BY <1>2, <1>5, FunctionIsSeq
  <2>2. b \in Seq(I) /\ Len(b) = Len(s)
    BY <1>3, <1>6, FunctionIsSeq
  <2> QED
    BY <2>1, <2>2
<1>10. Code(r) \in Seq(I) /\ Len(Code(r)) = Size(r) + Len(s)
  <2>1. a \o b \in Seq(I) /\ Len(a \o b) = Len(a) + Len(b)
    BY <1>9, ConcatProperties
  <2> QED
    BY <1>7, <1>9, <2>1
<1>11. Code(r) \in Blocks(Size(r) + Len(s))
  <2>1. Code(r) \in [1 .. Size(r) + Len(s) -> I]
    BY <1>10
  <2> QED
    BY <2>1 DEF Blocks, I
<1>12. \A k \in 1 .. Size(r) : Code(r)[k] = a[k]
    BY <1>2, <1>3, <1>7, <1>9
<1>13. \A k \in 1 .. Len(s) : Code(r)[Size(r) + k] = b[k]
    BY <1>2, <1>3, <1>7, <1>9
<1>14. ASSUME NEW v \in r.sinks
       PROVE  \E k \in 1 .. Len(s) : s[k] = v /\ Ends(r)[v] = Size(r) + k
  <2>1. \E k \in DOMAIN s : s[k] = v
    BY <1>3 DEF Range
  <2>. DEFINE m == CHOOSE k \in DOMAIN s : s[k] = v
  <2>2. m \in DOMAIN s /\ s[m] = v
    BY <2>1
  <2>3. Ends(r)[v] = Size(r) + m
    BY <1>1 DEF Ends, s
  <2>. HIDE DEF m
  <2> QED
    BY <1>4, <2>2, <2>3
<1>15. \A v \in Vars \ r.sinks :
           Ends(r)[v] = IF EndScope(v) \in r.first .. r.last
                        THEN EndScope(v) - r.first + 1 ELSE 0
    BY DEF Ends
<1>16. Ends(r) \in Scopes
  <2>1. ASSUME NEW v \in Vars PROVE Ends(r)[v] \in Nat
    <3>1. CASE v \in r.sinks
      BY <1>2, <1>14, <3>1
    <3>2. CASE v \notin r.sinks
      BY <1>1, <1>15, <3>2
    <3> QED
      BY <3>1, <3>2
  <2>2. Ends(r) = [v \in Vars |-> Ends(r)[v]]
    BY DEF Ends
  <2> QED
    BY <2>1, <2>2 DEF Scopes
<1> QED
    BY <1>2, <1>3, <1>4, <1>8, <1>11, <1>12, <1>13, <1>14, <1>15, <1>16 DEF s

\* For every plan: the instruction after which DFLOWstep's garbage collection releases a
\* variable of a parallel region, often one that dflowGarbagesink added, waits for all
\* others of the region that read the variable.
THEOREM ReleasedLast == Spec => []Collected
<1>1. ASSUME RInv, SinksOK
      PROVE  Collected
  <2>1. ASSUME NEW r \in Parallel, NEW v \in Vars, Ends(r)[v] # 0,
               NEW k \in DOMAIN Code(r), v \in Range(Code(r)[k].args), k # Ends(r)[v]
        PROVE  k \in Before(r)[Ends(r)[v]]
    <3>. DEFINE n == Size(r) + Len(Sinks(r))
                e == Ends(r)[v]
    <3>1. /\ Size(r) \in Nat /\ Len(Sinks(r)) \in Nat /\ Range(Sinks(r)) = r.sinks
          /\ DOMAIN Sinks(r) = 1 .. Len(Sinks(r))
          /\ \A j, m \in DOMAIN Sinks(r) : Sinks(r)[j] = Sinks(r)[m] => j = m
          /\ Code(r) \in Blocks(n)
          /\ \A m \in 1 .. Size(r) : Code(r)[m].args = old[r.first + m - 1].args
          /\ \A m \in 1 .. Len(Sinks(r)) : Code(r)[Size(r) + m].args = <<Sinks(r)[m]>>
          /\ Ends(r) \in Scopes
      BY <1>1, RegionCode
    <3>2. k \in 1 .. n
      BY <3>1 DEF Blocks
    <3>3. k \in 1 .. Size(r) \/ \E j \in 1 .. Len(Sinks(r)) : k = Size(r) + j
      <4>1. k <= Size(r) \/ (k - Size(r) \in 1 .. Len(Sinks(r)) /\ k = Size(r) + (k - Size(r)))
        BY <3>1, <3>2
      <4> QED
        BY <3>2, <4>1
    <3>4. ASSUME NEW j \in 1 .. Len(Sinks(r)), k = Size(r) + j
          PROVE  v = Sinks(r)[j] /\ v \in r.sinks
      BY <2>1, <3>1, <3>4 DEF Range
    <3>5. e \in k + 1 .. n
      <4>1. CASE v \in r.sinks
        <5>1. PICK m \in 1 .. Len(Sinks(r)) : Sinks(r)[m] = v /\ e = Size(r) + m
          BY <1>1, <4>1, RegionCode
        <5>2. k \in 1 .. Size(r)
          BY <2>1, <3>1, <3>3, <3>4, <5>1
        <5> QED
          BY <3>1, <5>1, <5>2
      <4>2. CASE v \notin r.sinks
        <5>1. EndScope(v) \in r.first .. r.last /\ e = EndScope(v) - r.first + 1
          BY <1>1, <2>1, <4>2, RegionCode
        <5>2. k \in 1 .. Size(r)
          BY <3>3, <3>4, <4>2
        <5>3. /\ r.first \in 1 .. Len(old) /\ r.last \in r.first .. Len(old)
              /\ Len(old) \in Nat /\ old \in Plans
          BY <1>1, ParallelRegion
        <5>4. r.first + k - 1 \in 1 .. Len(old) /\ e <= Size(r)
          BY <5>1, <5>2, <5>3 DEF Size
        <5>5. v \in Reads(old[r.first + k - 1])
          BY <2>1, <3>1, <5>2 DEF Reads
        <5>6. r.first + k - 1 <= EndScope(v)
          BY <5>3, <5>4, <5>5, ScopeCovers
        <5>7. e \in Nat /\ k <= e /\ k # e
          BY <2>1, <5>1, <5>2, <5>3, <5>6
        <5>. HIDE DEF e
        <5> QED
          BY <3>1, <5>2, <5>4, <5>7
      <4> QED
        BY <4>1, <4>2
    <3>6. e > k /\ e <= n /\ n \in Nat
      BY <3>1, <3>2, <3>5
    <3>. HIDE DEF n
    <3>7. e \in Range(M!Graph(Code(r), Ends(r))[k])
      BY <2>1, <3>1, <3>2, <3>6, ScopeEdge
    <3> QED
      BY <3>1, <3>2, <3>5, <3>6, <3>7, WokenAfter
  <2> QED
    BY <2>1 DEF Collected
<1> QED
    BY <1>1, RegionInvariant, SinksInv, PTL

-----------------------------------------------------------------------------
(* Conflicts *)

\* Every plan is one that Ordered is about.
PlansApart == \A p \in Plans : OwnResults(p) /\ UpdatesApart(p)

\* The variables assigned by the instructions from f to k.
Assigns(p, f, k) == {p[h].ret : h \in f .. k}

Target(p, k, v) == p[k].kind = "update" /\ p[k].args[1] = v

\* Of two instructions of the region of p that begins with f, the later one assigns no
\* variable that the other one assigns, uses none of the region's that the other one has
\* changed without assigning it, and changes none of these that the other one has read.
Apart(p, f, k, l) ==
    /\ p[k].ret # p[l].ret
    /\ \A v \in Assigns(p, f, k) :
          /\ Target(p, k, v) /\ v # p[k].ret => v \notin Reads(p[l]) /\ v # p[l].ret
          /\ v \in Reads(p[k]) => v # p[l].ret /\ ~ Target(p, l, v)
    /\ p[k].kind = "column" /\ p[l].kind = "column" => p[k].column # p[l].column

Calm(p, f, n) == \A k, l \in f .. n : k < l => Apart(p, f, k, l)

\* What the flags s say about an instruction's variables, those of the region of p that
\* begins with f.
Flagged(p, f, s, k) ==
    /\ "WRITE" \in s[p[k].ret]
    /\ \A v \in Assigns(p, f, k) : /\ Target(p, k, v) => "BLOCK" \in s[v]
                                   /\ v \in Reads(p[k]) => "READ" \in s[v]

\* Regions that are or may become parallel are calm.
CalmOK ==
    /\ \A n \in DOMAIN regions :
          regions[n].parallel => Calm(old, regions[n].first, regions[n].last)
    /\ Scanning /\ type \in {"dataflow", "sql"} => Calm(old, start, i - 1)
    /\ Scanning /\ type = "dataflow" =>
          \A k \in start .. i - 1 : Flagged(old, start, states, k) /\ old[k].kind # "column"
    /\ Scanning /\ type = "sql" => \A k \in start .. i - 1 : old[k].kind = "column"

\* What marking an instruction's variables adds.
LEMMA MarkAdds ==
    ASSUME NEW s \in [Vars -> SUBSET {"WRITE", "READ", "BLOCK", "2READ"}],
           NEW p \in Instruction, p.kind \in UpdateKinds => p.args[1] \in Vars
    PROVE  /\ \A v \in Vars : s[v] \subseteq Mark(s, p)[v]
           /\ "WRITE" \in Mark(s, p)[p.ret]
           /\ \A v \in Vars : "WRITE" \in s[v] \/ v = p.ret =>
                 /\ p.kind = "update" /\ p.args[1] = v => "BLOCK" \in Mark(s, p)[v]
                 /\ v \in Reads(p) => "READ" \in Mark(s, p)[v]
<1>. DEFINE Flags == {"WRITE", "READ", "BLOCK", "2READ"}
            written == [s EXCEPT ![p.ret] = @ \cup {"WRITE"}]
            blocked == IF /\ p.kind \in UpdateKinds
                          /\ written[p.args[1]] = {} \/ "WRITE" \in written[p.args[1]]
                       THEN [written EXCEPT ![p.args[1]] = @ \cup {"BLOCK"}]
                       ELSE written
            uses(v) == Cardinality({k \in DOMAIN p.args : p.args[k] = v})
            second(v) == uses(v) > (IF "READ" \in blocked[v] THEN 0 ELSE 1)
<1>1. p.ret \in Vars /\ p.args \in Seq(Vars)
    BY DEF Instruction
<1>2. /\ written \in [Vars -> SUBSET Flags] /\ "WRITE" \in written[p.ret]
      /\ \A v \in Vars : s[v] \subseteq written[v]
    BY <1>1
<1>. HIDE DEF written
<1>3. /\ blocked \in [Vars -> SUBSET Flags]
      /\ \A v \in Vars : written[v] \subseteq blocked[v]
      /\ \A v \in Vars : p.kind = "update" /\ p.args[1] = v /\ "WRITE" \in written[v]
                            => "BLOCK" \in blocked[v]
    BY <1>2 DEF UpdateKinds
<1>. HIDE DEF blocked
<1>4. Mark(s, p) = [v \in Vars |->
           IF uses(v) = 0 \/ blocked[v] \cap {"WRITE", "READ"} = {} THEN blocked[v]
           ELSE blocked[v] \cup {"READ"} \cup (IF second(v) THEN {"2READ"} ELSE {})]
    BY DEF Mark, written, blocked
<1>5. ASSUME NEW v \in Reads(p) PROVE uses(v) # 0
  <2>. DEFINE K == {k \in DOMAIN p.args : p.args[k] = v}
  <2>1. IsFiniteSet(K)
    <3>1. Len(p.args) \in Int /\ 1 \in Int /\ DOMAIN p.args = 1 .. Len(p.args)
      BY <1>1
    <3>2. IsFiniteSet(1 .. Len(p.args))
      BY <3>1, FS_Interval
    <3> QED
      BY <3>1, <3>2, FS_Subset
  <2>2. K # {}
    BY DEF Reads, Range
  <2>. HIDE DEF K
  <2>3. Cardinality(K) # 0
    BY <2>1, <2>2, FS_EmptySet
  <2> QED
    BY <2>3 DEF K
<1>. HIDE DEF uses, second
<1>6. \A v \in Vars : blocked[v] \subseteq Mark(s, p)[v]
    BY <1>3, <1>4
<1>7. \A v \in Vars : v \in Reads(p) /\ "WRITE" \in blocked[v] => "READ" \in Mark(s, p)[v]
    BY <1>3, <1>4, <1>5
<1>8. \A v \in Vars : "WRITE" \in s[v] \/ v = p.ret => "WRITE" \in written[v]
    BY <1>2
<1> QED
    BY <1>1, <1>2, <1>3, <1>6, <1>7, <1>8

\* An instruction that joins a region does not conflict with those before it.
LEMMA StayCalm ==
    ASSUME RInv, PlansApart, CalmOK, Stay, type \in {"dataflow", "sql"}
    PROVE  /\ Calm(old, start, i)
           /\ type = "dataflow" => /\ old[i].kind # "column"
                                   /\ \A k \in start .. i : Flagged(old, start, states', k)
           /\ type = "sql" => old[i].kind = "column"
<1>1. /\ Len(old) \in Nat /\ i \in 2 .. Len(old) /\ start \in 1 .. i - 1 /\ old \in Plans
      /\ old[i] \in Instruction /\ Scanning
      /\ old[i].kind \in UpdateKinds => old[i].args[1] \in Vars
    BY PlanFacts DEF Stay, RInv
<1>2. DOMAIN old = 1 .. Len(old) /\ \A k \in 1 .. Len(old) : old[k] \in Instruction
    BY <1>1, PlanShape
<1>3. \A k \in start .. i : k \in 1 .. Len(old) /\ (k = i \/ k \in start .. i - 1)
    BY <1>1
<1>4. /\ Calm(old, start, i - 1)
      /\ type = "dataflow" => \A k \in start .. i - 1 :
            Flagged(old, start, states, k) /\ old[k].kind # "column"
      /\ type = "sql" => \A k \in start .. i - 1 : old[k].kind = "column"
    BY <1>1 DEF CalmOK
<1>5. OwnResults(old) /\ UpdatesApart(old)
    BY <1>1 DEF PlansApart
<1>6. \A k \in start .. i - 1 : \A v \in Assigns(old, start, k) :
          \E h \in start .. i - 1 : h <= k /\ v = old[h].ret
    BY <1>1 DEF Assigns
<1>7. CASE type = "sql"
  <2>1. old[i].kind = "column" /\ \A k \in start .. i - 1 : old[k].column # old[i].column
    BY <1>1, <1>7 DEF Stay, checkBreakpoint, sqlBreakpoint
  <2>2. \A k \in start .. i - 1 : old[k].ret # old[i].ret
    BY <1>1, <1>2, <1>3, <1>4, <1>5, <1>7, <2>1 DEF OwnResults
  <2>3. ASSUME NEW k \in start .. i - 1 PROVE Apart(old, start, k, i)
    BY <1>4, <1>6, <1>7, <2>1, <2>2 DEF Apart, Target
  <2>4. Calm(old, start, i)
    BY <1>1, <1>3, <1>4, <2>3 DEF Calm
  <2> QED
    BY <1>7, <2>1, <2>4
<1>8. CASE type = "dataflow"
  <2>. DEFINE p == old[i]
  <2>1. /\ p.kind # "column"
        /\ "WRITE" \notin states[p.ret] /\ "READ" \notin states[p.ret] /\ "BLOCK" \notin states[p.ret]
        /\ p.kind = "update" => "READ" \notin states[p.args[1]] /\ "BLOCK" \notin states[p.args[1]]
        /\ p.kind # "update" => \A v \in Reads(p) : "BLOCK" \notin states[v]
    BY <1>1, <1>8 DEF Stay, checkBreakpoint, dataflowBreakpoint, Reads
  <2>2. \A k \in start .. i - 1 : Flagged(old, start, states, k)
    BY <1>4, <1>8
  <2>3. \A k \in start .. i - 1 : \A v \in Assigns(old, start, k) : "WRITE" \in states[v]
    BY <1>6, <2>2 DEF Flagged
  <2>4. ASSUME NEW k \in start .. i - 1 PROVE Apart(old, start, k, i)
    <3>0. Flagged(old, start, states, k)
      BY <2>2
    <3>1. old[k].ret # p.ret
      BY <2>1, <3>0 DEF Flagged
    <3>2. ASSUME NEW v \in Assigns(old, start, k), Target(old, k, v), v # old[k].ret
          PROVE  v \notin Reads(p) /\ v # p.ret
      <4>1. "BLOCK" \in states[v]
        BY <3>0, <3>2 DEF Flagged
      <4>2. p.kind = "update" => v \notin Reads(p)
        <5>. SUFFICES ASSUME p.kind = "update", v \in Reads(p) PROVE FALSE
          OBVIOUS
        <5>1. p.args \in Seq(Vars)
          BY <1>1 DEF Instruction
        <5>2. PICK j \in 1 .. Len(p.args) : p.args[j] = v
          BY <5>1 DEF Reads, Range
        <5>3. j # 1
          BY <2>1, <4>1, <5>2
        <5>4. j \in 2 .. Len(p.args)
          BY <5>1, <5>2, <5>3
        <5>5. k < i /\ k \in DOMAIN old /\ i \in DOMAIN old
          BY <1>1, <1>2
        <5> QED
          BY <1>5, <3>2, <5>2, <5>4, <5>5 DEF UpdatesApart, Target
      <4> QED
        BY <2>1, <4>1, <4>2
    <3>3. ASSUME NEW v \in Assigns(old, start, k), v \in Reads(old[k])
          PROVE  v # p.ret /\ ~ Target(old, i, v)
      BY <2>1, <3>0, <3>3 DEF Flagged, Target
    <3> QED
      BY <2>1, <3>1, <3>2, <3>3 DEF Apart
  <2>5. Calm(old, start, i)
    BY <1>1, <1>3, <1>4, <2>4 DEF Calm
  <2>6. states \in [Vars -> SUBSET {"WRITE", "READ", "BLOCK", "2READ"}]
    BY DEF RInv, TypeOK
  <2>7. /\ \A v \in Vars : states[v] \subseteq states'[v]
        /\ "WRITE" \in states'[p.ret]
        /\ \A v \in Vars : "WRITE" \in states[v] \/ v = p.ret =>
              /\ p.kind = "update" /\ p.args[1] = v => "BLOCK" \in states'[v]
              /\ v \in Reads(p) => "READ" \in states'[v]
    BY <1>1, <2>6, MarkAdds DEF Stay
  <2>8. \A k \in start .. i : old[k].ret \in Vars /\ Assigns(old, start, k) \subseteq Vars
    BY <1>1, <1>2, <1>3 DEF Assigns, Instruction
  <2>9. ASSUME NEW k \in start .. i - 1 PROVE Flagged(old, start, states', k)
    <3>1. k \in start .. i /\ Flagged(old, start, states, k)
      BY <1>1, <2>2
    <3>2. old[k].ret \in Vars /\ Assigns(old, start, k) \subseteq Vars
      BY <2>8, <3>1
    <3>3. \A v \in Vars : states[v] \subseteq states'[v]
      BY <2>7
    <3> QED
      BY <3>1, <3>2, <3>3 DEF Flagged
  <2>10. Flagged(old, start, states', i)
    <3>1. \A v \in Assigns(old, start, i) : v = p.ret \/ "WRITE" \in states[v]
      BY <1>1, <1>3, <2>2 DEF Assigns, Flagged
    <3>2. i \in start .. i
      BY <1>1
    <3>3. \A v \in Assigns(old, start, i) :
              /\ Target(old, i, v) => "BLOCK" \in states'[v]
              /\ v \in Reads(old[i]) => "READ" \in states'[v]
      BY <2>7, <2>8, <3>1, <3>2 DEF Target
    <3>4. "WRITE" \in states'[old[i].ret]
      BY <2>7
    <3> QED
      BY <3>3, <3>4 DEF Flagged
  <2>11. \A k \in start .. i : Flagged(old, start, states', k)
    <3>1. \A k \in start .. i : k = i \/ k \in start .. i - 1
      BY <1>3
    <3> QED
      BY <2>9, <2>10, <3>1
  <2> QED
    BY <1>8, <2>1, <2>5, <2>11
<1> QED
    BY <1>7, <1>8

\* A region that is closed is calm when it is parallel.
LEMMA CloseCalm ==
    ASSUME RInv, CalmOK, Scanning, Close(i - 1), UNCHANGED old
    PROVE  \A n \in DOMAIN regions' :
               regions'[n].parallel => Calm(old, regions'[n].first, regions'[n].last)
<1>. DEFINE new == [first |-> start, last |-> i - 1, parallel |-> ~ simpleFlow(start, i - 1),
                    sinks |-> IF ~ simpleFlow(start, i - 1)
                              THEN dflowGarbagesink(start, i - 1) ELSE {}]
<1>1. /\ Len(old) \in Nat /\ i \in 2 .. Len(old) /\ start \in 1 .. i - 1
    BY PlanFacts
<1>2. regions' = Append(regions, new)
    BY DEF Close
<1>3. new.parallel => Calm(old, new.first, new.last)
  <2>1. new.parallel => type \notin {"singleton", "existing"}
    BY <1>1 DEF simpleFlow, RInv, Current
  <2> QED
    BY <2>1 DEF RInv, TypeOK, CalmOK
<1>. HIDE DEF new
<1>4. /\ DOMAIN regions' = 1 .. Len(regions) + 1 /\ DOMAIN regions = 1 .. Len(regions)
      /\ Len(regions) \in Nat
      /\ regions'[Len(regions) + 1] = new
      /\ \A n \in 1 .. Len(regions) : regions'[n] = regions[n]
    BY <1>2 DEF RInv
<1>6. ASSUME NEW n \in DOMAIN regions', regions'[n].parallel
      PROVE  Calm(old, regions'[n].first, regions'[n].last)
  <2>1. CASE n = Len(regions) + 1
    BY <1>3, <1>4, <1>6, <2>1
  <2>2. CASE n \in 1 .. Len(regions)
    BY <1>4, <1>6, <2>2 DEF CalmOK
  <2> QED
    BY <1>4, <2>1, <2>2
<1>7. \A n \in DOMAIN regions' :
          regions'[n].parallel => Calm(old, regions'[n].first, regions'[n].last)
    BY <1>6
<1> QED
    BY <1>7

\* The first instruction of a region has flags of its own.
LEMMA BreakCalm ==
    ASSUME RInv, Break
    PROVE  /\ Calm(old, i, i)
           /\ type' = "dataflow" => Flagged(old, i, states', i) /\ old[i].kind # "column"
           /\ type' = "sql" => old[i].kind = "column"
<1>1. /\ Len(old) \in Nat /\ i \in 2 .. Len(old) /\ old[i] \in Instruction
      /\ old[i].kind \in UpdateKinds => old[i].args[1] \in Vars
    BY PlanFacts DEF Break
<1>2. Calm(old, i, i)
    BY <1>1 DEF Calm
<1>3. /\ type' = "dataflow" => old[i].kind # "column"
      /\ type' = "sql" => old[i].kind = "column"
    BY DEF Break, decideRegionType
<1>. DEFINE s == [v \in Vars |-> {}]
<1>4. s \in [Vars -> SUBSET {"WRITE", "READ", "BLOCK", "2READ"}] /\ states' = Mark(s, old[i])
    BY DEF Break
<1>. HIDE DEF s
<1>5. /\ "WRITE" \in states'[old[i].ret]
      /\ \A v \in Vars : v = old[i].ret =>
            /\ Target(old, i, v) => "BLOCK" \in states'[v]
            /\ v \in Reads(old[i]) => "READ" \in states'[v]
    BY <1>1, <1>4, MarkAdds DEF Target
<1>7. Assigns(old, i, i) = {old[i].ret} /\ old[i].ret \in Vars
    BY <1>1 DEF Assigns, Instruction
<1>8. Flagged(old, i, states', i)
    BY <1>5, <1>7 DEF Flagged
<1> QED
    BY <1>2, <1>3, <1>8

\* Regions are calm throughout the pass.
LEMMA CalmInv ==
    ASSUME PlansApart
    PROVE  Spec => []CalmOK
<1>1. Init => CalmOK
    BY DEF Init, CalmOK
<1>2. ASSUME RInv, CalmOK, [Next]_vars
      PROVE  CalmOK'
  <2>1. CASE Stay
    <3>1. /\ old' = old /\ start' = start /\ type' = type /\ regions' = regions /\ i' = i + 1
          /\ i' - 1 = i /\ Scanning /\ start \in 1 .. i - 1
      BY <1>2, <2>1, PlanFacts DEF Stay
    <3>3. \A n \in DOMAIN regions' :
              regions'[n].parallel => Calm(old, regions'[n].first, regions'[n].last)
      BY <1>2, <3>1 DEF CalmOK
    <3>4. \A k \in start .. i : k = i \/ k \in start .. i - 1
      BY <1>2, <3>1, PlanFacts
    <3>5. type \in {"dataflow", "sql"} => Calm(old, start, i)
      BY <1>2, <2>1, StayCalm
    <3>6. type = "dataflow" => \A k \in start .. i :
             Flagged(old, start, states', k) /\ old[k].kind # "column"
      BY <1>2, <2>1, <3>1, <3>4, StayCalm DEF CalmOK
    <3>7. type = "sql" => \A k \in start .. i : old[k].kind = "column"
      BY <1>2, <2>1, <3>1, <3>4, StayCalm DEF CalmOK
    <3>8. Calm(old, start', i' - 1) <=> Calm(old, start, i)
      BY <3>1
    <3> QED
      BY <3>1, <3>3, <3>5, <3>6, <3>7, <3>8 DEF CalmOK
  <2>2. CASE Break
    <3>1. /\ old' = old /\ start' = i /\ i' = i + 1 /\ i' - 1 = i /\ Scanning /\ i .. i = {i}
      BY <1>2, <2>2, PlanFacts DEF Break
    <3>2. \A n \in DOMAIN regions' :
              regions'[n].parallel => Calm(old, regions'[n].first, regions'[n].last)
      BY <1>2, <2>2, CloseCalm DEF Break
    <3>4. Calm(old, start', i' - 1)
      BY <1>2, <2>2, <3>1, BreakCalm
    <3>5. /\ type' = "dataflow" => Flagged(old, i, states', i) /\ old'[i].kind # "column"
          /\ type' = "sql" => old'[i].kind = "column"
      BY <1>2, <2>2, <3>1, BreakCalm
    <3> QED
      BY <3>1, <3>2, <3>4, <3>5 DEF CalmOK
  <2>3. CASE End
    <3>1. ~ Scanning'
      BY <1>2, <2>3, PlanFacts DEF End, Scanning
    <3>2. \A n \in DOMAIN regions' :
              regions'[n].parallel => Calm(old, regions'[n].first, regions'[n].last)
      BY <1>2, <2>3, CloseCalm DEF End
    <3>3. old' = old
      BY <2>3 DEF End
    <3> QED
      BY <3>1, <3>2, <3>3 DEF CalmOK
  <2>4. CASE UNCHANGED vars
    BY <1>2, <2>4 DEF vars, CalmOK, Flagged, Scanning
  <2> QED
    BY <1>2, <2>1, <2>2, <2>3, <2>4 DEF Next
<1> QED
    BY <1>1, <1>2, RegionInvariant, PTL DEF Spec

\* For every plan whose updates take no values that earlier ones have changed: of two
\* instructions of a parallel region that conflict over a column or a variable made in the
\* region (dataflowBreakpoint, sqlBreakpoint), the one that comes first in the plan has
\* finished before the other one starts.
THEOREM ConflictsOrdered ==
    ASSUME PlansApart
    PROVE  Spec => []Ordered
<1>1. ASSUME RInv, SinksOK, CalmOK
      PROVE  Ordered
  <2>1. ASSUME NEW r \in Parallel, NEW k \in r.first .. r.last, NEW l \in r.first .. r.last,
               k < l, Conflict(r, k, l)
        PROVE  k - r.first + 1 \in Before(r)[l - r.first + 1]
    <3>. DEFINE n == Size(r) + Len(Sinks(r))
                K == k - r.first + 1
                L == l - r.first + 1
    <3>1. /\ r.first \in 1 .. Len(old) /\ r.last \in r.first .. Len(old)
          /\ Len(old) \in Nat /\ old \in Plans
      BY <1>1, ParallelRegion
    <3>2. /\ Size(r) \in Nat /\ Len(Sinks(r)) \in Nat
          /\ Code(r) \in Blocks(n) /\ Ends(r) \in Scopes
          /\ \A m \in 1 .. Size(r) : /\ Code(r)[m].ret = {old[r.first + m - 1].ret}
                                     /\ Code(r)[m].args = old[r.first + m - 1].args
      BY <1>1, RegionCode
    <3>3. Calm(old, r.first, r.last)
      BY <1>1 DEF Parallel, CalmOK
    <3>4. Apart(old, r.first, k, l)
      BY <2>1, <3>3 DEF Calm
    <3>5. \A v \in Writes(old[l]) :
              v = old[l].ret \/ (Target(old, l, v) /\ v \in Reads(old[l]))
      <4>1. l \in 1 .. Len(old)
        BY <3>1
      <4>2. old[l].args \in Seq(Vars) /\ (old[l].kind = "update" => old[l].args # <<>>)
        BY <3>1, <4>1, PlanShape DEF Instruction, UpdateKinds
      <4>3. old[l].kind = "update" => old[l].args[1] \in Reads(old[l])
        BY <4>2 DEF Reads, Range
      <4> QED
        BY <4>3 DEF Writes, Target
    <3>6. old[k].ret \in Reads(old[l])
      <4>1. Own(r, k) = Assigns(old, r.first, k)
        BY DEF Own, Assigns
      <4>2. PICK v \in Assigns(old, r.first, k) :
                \/ v \in Writes(old[k]) /\ v \in Reads(old[l]) \cup Writes(old[l])
                \/ v \in Reads(old[k]) /\ v \in Writes(old[l])
        BY <2>1, <3>4, <4>1 DEF Conflict, Apart
      <4>3. v = old[k].ret \/ Target(old, k, v) \/ v \in Reads(old[k])
        BY <4>2 DEF Writes, Target
      <4> QED
        BY <3>4, <3>5, <4>2, <4>3 DEF Apart, Writes, Target
    <3>7. /\ K \in 1 .. Size(r) /\ L \in K + 1 .. Size(r) /\ L \in 1 .. Size(r)
          /\ r.first + K - 1 = k /\ r.first + L - 1 = l
      <4>1. r.first \in Int /\ r.last \in Int /\ k \in Int /\ l \in Int
        BY <3>1
      <4>2. r.first <= k /\ k < l /\ l <= r.last
        BY <2>1, <4>1
      <4>3. Size(r) = r.last - r.first + 1
        BY DEF Size
      <4> QED
        BY <4>1, <4>2, <4>3
    <3>. HIDE DEF K, L
    <3>8. old[k].ret \in Range(Code(r)[L].args)
      BY <3>2, <3>6, <3>7 DEF Reads
    <3>9. ASSUME NEW h \in 1 .. L - 1 PROVE old[k].ret \in Code(r)[h].ret <=> h = K
      <4>1. h \in 1 .. Size(r) /\ r.first + h - 1 \in r.first .. r.last
        <5>1. r.first \in Int /\ r.last \in Int
          BY <3>1
        <5>2. Size(r) = r.last - r.first + 1 /\ Size(r) \in Int
          BY <5>1 DEF Size
        <5>3. h \in 1 .. Size(r)
          BY <3>7, <5>2
        <5> QED
          BY <5>1, <5>2, <5>3
      <4>2. Code(r)[h].ret = {old[r.first + h - 1].ret}
        BY <3>2, <4>1
      <4>3. h # K => old[r.first + h - 1].ret # old[k].ret
        <5>. SUFFICES ASSUME h # K PROVE old[r.first + h - 1].ret # old[k].ret
          OBVIOUS
        <5>1. PICK m \in r.first .. r.last : m = r.first + h - 1
          BY <4>1
        <5>2. m < k \/ k < m
          BY <3>1, <3>7, <5>1
        <5>3. Apart(old, r.first, m, k) \/ Apart(old, r.first, k, m)
          BY <3>3, <5>2 DEF Calm
        <5> QED
          BY <5>1, <5>3 DEF Apart
      <4> QED
        BY <3>7, <4>2, <4>3
    <3>10. n \in Nat /\ K \in 1 .. n /\ L \in K + 1 .. n
      BY <3>2, <3>7
    <3>. HIDE DEF n
    <3>11. L \in Range(M!Graph(Code(r), Ends(r))[K])
      BY <3>2, <3>8, <3>9, <3>10, ArgEdge
    <3>12. K \in Before(r)[L]
      BY <3>2, <3>10, <3>11, WokenAfter
    <3> QED
      BY <3>12 DEF K, L
  <2> QED
    BY <2>1 DEF Ordered
<1> QED
    BY <1>1, RegionInvariant, SinksInv, CalmInv, PTL
===============================================================================
