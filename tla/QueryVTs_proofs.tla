---------------------------- MODULE QueryVTs_proofs ----------------------------
(***************************************************************************)
(* For every set of cursors, names and queries and every depth of nesting: *)
(* type correctness of QueryVTs, that no table is forgotten, and that only *)
(* another cursor with the same operator takes a table from a query.       *)
(*                                                                         *)
(* Every action but Collect replaces the record of one cursor.  Move says  *)
(* what is to be known of the new record and of the tables for the         *)
(* invariant to hold again; CleanupMoves says it of a clean-up.            *)
(***************************************************************************)
EXTENDS QueryVTs, SequenceTheorems, TLAPS

-----------------------------------------------------------------------------
(* The inductive invariant *)

\* The tables still to be made are used by the cursor's queries, and differ from
\* each other and from those that are listed.
LeftOK(c, r) ==
    /\ \A i, j \in DOMAIN r.left : r.left[i].name = r.left[j].name => i = j
    /\ \A i \in DOMAIN r.left : r.left[i].name \in Uses(c) \ Range(r.vts)

RecOK(c, r) ==
    /\ r \in CurRec
    /\ IsInjective(r.vts)
    /\ r.at = "create" => r.left # <<>>
    /\ r.st = "closed" => r.vts = <<>> /\ r.at = "idle"
    /\ Range(r.vts) \subseteq Uses(c)
    /\ LeftOK(c, r)

Types ==
    /\ tables \subseteq Names /\ kept \subseteq Names /\ lost \subseteq Names
    /\ loose \subseteq SUBSET Names
    /\ cur \in [Cursors -> CurRec]
    /\ stack \in Seq(Cursors) /\ Len(stack) <= MaxDepth

IInv == Types /\ (\A c \in Cursors : RecOK(c, cur[c])) /\ NoOrphan /\ OwnTables

InExecute(c) == cur[c].at \in {"make", "create", "run"}

LEMMA Implied == IInv => TypeOK /\ NoOrphan /\ OwnTables
BY DEF IInv, Types, RecOK, TypeOK

-----------------------------------------------------------------------------
(* Lists and the stack *)

\* A name that is appended to a list.
LEMMA Appended ==
    ASSUME NEW s \in Seq(Names), NEW n \in Names
    PROVE  /\ Append(s, n) \in Seq(Names)
           /\ Range(Append(s, n)) = Range(s) \cup {n}
           /\ IsInjective(s) /\ n \notin Range(s) => IsInjective(Append(s, n))
<1> DEFINE a == Append(s, n)
<1>1. a \in Seq(Names) /\ Len(a) = Len(s) + 1 /\ Len(s) \in Nat /\ DOMAIN s = 1..Len(s)
      /\ DOMAIN a = 1..(Len(s) + 1)
  OBVIOUS
<1>2. a[Len(s) + 1] = n /\ \A i \in 1..Len(s) : a[i] = s[i]
  OBVIOUS
<1>3. Range(a) = Range(s) \cup {n}
  <2>1. Range(a) \subseteq Range(s) \cup {n}
    BY <1>1, <1>2 DEF Range
  <2>2. Range(s) \cup {n} \subseteq Range(a)
    <3>1. \A i \in DOMAIN s : i \in DOMAIN a /\ a[i] = s[i]
      BY <1>1, <1>2
    <3>2. Len(s) + 1 \in DOMAIN a
      BY <1>1
    <3>3. QED BY <3>1, <3>2, <1>2 DEF Range
  <2>3. QED BY <2>1, <2>2
<1>4. ASSUME IsInjective(s), n \notin Range(s) PROVE IsInjective(a)
  <2>1. \A i \in 1..Len(s) : s[i] # n
    BY <1>1, <1>4 DEF Range
  <2>2. \A i, j \in 1..Len(s) : s[i] = s[j] => i = j
    BY <1>1, <1>4 DEF IsInjective
  <2>3. SUFFICES ASSUME NEW i \in 1..(Len(s) + 1), NEW j \in 1..(Len(s) + 1), a[i] = a[j]
                 PROVE  i = j
    BY <1>1 DEF IsInjective
  <2>4. QED BY <1>1, <1>2, <2>1, <2>2, <2>3
<1>5. QED BY <1>1, <1>3, <1>4

LEMMA EmptyList == Range(<<>>) = {} /\ IsInjective(<<>>) /\ <<>> \in Seq(Names)
                   /\ <<>> \in Seq([name : Names, keep : BOOLEAN])
BY DEF Range, IsInjective

LEMMA HeadIs ==
    ASSUME NEW S, NEW s \in Seq(S), s # <<>>
    PROVE  Head(s) = s[1] /\ 1 \in DOMAIN s /\ Head(s) \in S
OBVIOUS

\* The cursor in the middle of a call.
LEMMA TopOK ==
    ASSUME Types, stack # <<>>
    PROVE  Top \in Cursors
BY DEF Types, Top

LEMMA PopOK ==
    ASSUME Types, stack # <<>>, Pop
    PROVE  stack' \in Seq(Cursors) /\ Len(stack') <= MaxDepth
<1>1. Len(stack) \in Nat /\ Len(stack) # 0 /\ stack \in Seq(Cursors) /\ Len(stack) <= MaxDepth
  BY DEF Types
<1>2. PICK n \in Nat : n = Len(stack) - 1
  BY <1>1
<1>3. SubSeq(stack, 1, n) \in Seq(Cursors) /\ Len(SubSeq(stack, 1, n)) = n
  BY <1>1, <1>2
<1>4. MaxDepth \in Nat /\ n <= MaxDepth
  BY <1>1, <1>2, ConstantsOK
<1>5. QED BY <1>2, <1>3, <1>4 DEF Pop

LEMMA PushOK ==
    ASSUME Types, NEW c \in Cursors, Push(c)
    PROVE  stack' \in Seq(Cursors) /\ Len(stack') <= MaxDepth
<1>1. Len(stack) \in Nat /\ MaxDepth \in Nat /\ stack \in Seq(Cursors)
  BY ConstantsOK DEF Types
<1>2. Len(stack') = Len(stack) + 1 /\ stack' \in Seq(Cursors)
  BY <1>1 DEF Push
<1>3. QED BY <1>1, <1>2 DEF Push

LEMMA LetGoOK ==
    ASSUME Types, NEW c \in Cursors, LetGo(c)
    PROVE  loose' \subseteq SUBSET Names
BY DEF Types, LetGo, CurRec

\* The plans of a cursor.
LEMMA PlanOK ==
    ASSUME NEW c \in Cursors, NEW p \in Plans[c]
    PROVE  /\ p \in PlanRec
           /\ \A i \in DOMAIN p.makes : p.makes[i].name \in Uses(c)
           /\ \A i, j \in DOMAIN p.makes : p.makes[i].name = p.makes[j].name => i = j
BY ConstantsOK DEF Uses, Range

-----------------------------------------------------------------------------
(* A step that replaces the record of one cursor *)

LEMMA Move ==
    ASSUME IInv, NEW c \in Cursors, NEW r, RecOK(c, r), cur' = [cur EXCEPT ![c] = r],
           tables' \subseteq Names, kept' \subseteq Names, lost' \subseteq Names,
           loose' \subseteq SUBSET Names,
           stack' \in Seq(Cursors), Len(stack') <= MaxDepth,
           kept \subseteq kept', lost \subseteq lost',
           tables' \subseteq kept' \cup lost' \cup Range(r.vts) \cup (tables \ Listed(c)),
           tables \ tables' \subseteq Listed(c),
           r.at \in {"make", "create", "run"} =>
               \A t \in Range(r.vts) \ tables' : InExecute(c) /\ t \in Listed(c) \ tables
    PROVE  IInv'
<1>1. cur \in [Cursors -> CurRec] /\ r \in CurRec
  BY DEF IInv, Types, RecOK
<1>2. cur' \in [Cursors -> CurRec] /\ cur'[c] = r /\ \A d \in Cursors \ {c} : cur'[d] = cur[d]
  BY <1>1
<1>3. Listed(c)' = Range(r.vts) /\ \A d \in Cursors \ {c} : Listed(d)' = Listed(d)
  BY <1>2 DEF Listed
<1>4. Types'
  BY <1>2 DEF Types
<1>5. \A d \in Cursors : RecOK(d, cur'[d])
  BY <1>2 DEF IInv
<1>6. NoOrphan'
  <2>1. SUFFICES ASSUME NEW t \in tables'
                 PROVE  t \in kept' \cup lost' \cup UNION {Listed(d)' : d \in Cursors}
    BY DEF NoOrphan
  <2>2. CASE t \in kept' \cup lost' \cup Range(r.vts)
    BY <2>2, <1>3
  <2>3. CASE t \in tables \ Listed(c)
    <3>1. t \in kept \cup lost \/ \E d \in Cursors \ {c} : t \in Listed(d)
      BY <2>3 DEF IInv, NoOrphan
    <3>2. QED BY <3>1, <1>3
  <2>4. QED BY <2>2, <2>3
<1>7. OwnTables'
  <2>1. SUFFICES ASSUME NEW d \in Cursors, cur'[d].at \in {"make", "create", "run"},
                        NEW t \in Listed(d)' \ tables'
                 PROVE  \E e \in Cursors \ {d} : t \in Uses(e)
    BY DEF OwnTables, Uses
  <2>2. CASE d = c
    <3>1. InExecute(c) /\ t \in Listed(c) \ tables
      BY <2>1, <2>2, <1>2, <1>3
    <3>2. QED BY <3>1, <2>2 DEF IInv, OwnTables, InExecute
  <2>3. CASE d # c
    <3>1. cur[d].at \in {"make", "create", "run"} /\ t \in Listed(d) \ tables'
      BY <2>1, <2>3, <1>2, <1>3
    <3>2. CASE t \in tables
      <4>1. t \in Uses(c)
        BY <3>1, <3>2 DEF IInv, RecOK, Listed
      <4>2. QED BY <4>1, <2>3
    <3>3. CASE t \notin tables
      BY <3>1, <3>3 DEF IInv, OwnTables
    <3>4. QED BY <3>2, <3>3
  <2>4. QED BY <2>2, <2>3
<1>8. QED BY <1>4, <1>5, <1>6, <1>7 DEF IInv, RecOK, LeftOK, Uses

\* A clean-up of an idle cursor, or of one whose execute fails.
LEMMA CleanupMoves ==
    ASSUME IInv, NEW c \in Cursors, NEW pinned, NEW r \in CurRec, Cleanup(c, pinned, r),
           r.at = "idle", r.left = <<>>,
           Listed(c) \cap pinned = {} \/ (r.vts = cur[c].vts /\ r.st = "open"),
           kept' = kept, lost' = lost, loose' \subseteq SUBSET Names,
           stack' \in Seq(Cursors), Len(stack') <= MaxDepth
    PROVE  IInv'
<1> DEFINE vts == cur[c].vts
           stuck == {i \in DOMAIN vts : vts[i] \in pinned}
           D == {vts[i] : i \in {k \in DOMAIN vts : \A j \in stuck : j < k}}
<1>1. /\ tables \subseteq Names /\ kept \subseteq Names /\ lost \subseteq Names
      /\ RecOK(c, cur[c])
  BY DEF IInv, Types
<1>2. D \subseteq Listed(c)
  BY DEF Listed, Range
<1>3. CASE stuck = {} /\ tables' = tables \ Listed(c)
           /\ cur' = [cur EXCEPT ![c] = [r EXCEPT !.vts = <<>>]]
  <2> DEFINE q == [r EXCEPT !.vts = <<>>]
  <2>1. q \in CurRec /\ q.vts = <<>> /\ q.left = <<>> /\ q.at = "idle"
    BY EmptyList DEF CurRec
  <2>2. RecOK(c, q)
    BY <2>1, EmptyList DEF RecOK, LeftOK
  <2>3. QED BY <1>1, <1>3, <2>1, <2>2, Move
<1>4. CASE stuck # {} /\ tables' = tables \ D
           /\ \E l \in BOOLEAN : cur' = [cur EXCEPT ![c] = [r EXCEPT !.locked = l]]
  <2>1. PICK l \in BOOLEAN : cur' = [cur EXCEPT ![c] = [r EXCEPT !.locked = l]]
    BY <1>4
  <2> DEFINE q == [r EXCEPT !.locked = l]
  <2>2. r.vts = vts /\ r.st = "open"
    BY <1>4 DEF Listed, Range
  <2>3. q \in CurRec /\ q.vts = vts /\ q.left = <<>> /\ q.at = "idle" /\ q.st = "open"
    BY <2>2 DEF CurRec
  <2>4. RecOK(c, q)
    BY <1>1, <2>3 DEF RecOK, LeftOK
  <2>5. Range(q.vts) = Listed(c)
    BY <2>3 DEF Listed
  <2>6. QED BY <1>1, <1>2, <1>4, <2>1, <2>3, <2>4, <2>5, Move
<1>5. QED BY <1>3, <1>4 DEF Cleanup

\* The cursor between two calls.
LEMMA RestOK ==
    ASSUME IInv, NEW c \in Cursors, NEW S \in SUBSET Names, NEW l \in BOOLEAN
    PROVE  /\ Rest(c) \in CurRec /\ Rest(c).at = "idle" /\ Rest(c).left = <<>>
           /\ Rest(c).vts = cur[c].vts /\ Rest(c).st = cur[c].st
           /\ LET q == [Rest(c) EXCEPT !.locked = l, !.scan = S] IN
              RecOK(c, q) /\ q.at = "idle" /\ Range(q.vts) = Listed(c)
<1>1. RecOK(c, cur[c]) /\ cur[c] \in CurRec
  BY DEF IInv, RecOK
<1>2. NoPlan \in PlanRec
  BY EmptyList DEF NoPlan, PlanRec
<1>3. /\ Rest(c) \in CurRec /\ Rest(c).at = "idle" /\ Rest(c).left = <<>>
      /\ Rest(c).vts = cur[c].vts /\ Rest(c).st = cur[c].st
  BY <1>1, <1>2, EmptyList DEF Rest, CurRec
<1> DEFINE q == [Rest(c) EXCEPT !.locked = l, !.scan = S]
<1>4. q \in CurRec /\ q.at = "idle" /\ q.left = <<>> /\ q.vts = cur[c].vts /\ q.st = cur[c].st
  BY <1>3 DEF CurRec
<1>5. RecOK(c, q)
  BY <1>1, <1>4 DEF RecOK, LeftOK
<1>6. QED BY <1>3, <1>4, <1>5 DEF Listed

LEMMA ClosedOK ==
    /\ NewCur \in CurRec /\ Closed \in CurRec
    /\ \A c \in Cursors, r \in {NewCur, Closed} :
          RecOK(c, r) /\ r.at = "idle" /\ r.left = <<>> /\ Range(r.vts) = {}
<1>1. NoPlan \in PlanRec
  BY EmptyList DEF NoPlan, PlanRec
<1>2. NewCur \in CurRec /\ Closed \in CurRec
  BY <1>1, EmptyList DEF NewCur, Closed, CurRec
<1>3. \A r \in {NewCur, Closed} : r.at = "idle" /\ r.left = <<>> /\ r.vts = <<>>
  BY DEF NewCur, Closed
<1>4. QED BY <1>2, <1>3, EmptyList DEF RecOK, LeftOK

\* The next entry of the plan gets where it belongs.
LEMMA NoteMoves ==
    ASSUME IInv, NEW c \in Cursors, InExecute(c), cur[c].left # <<>>,
           Note(c, Head(cur[c].left)),
           tables' = tables \cup {Head(cur[c].left).name}, lost' = lost,
           loose' \subseteq SUBSET Names, stack' = stack
    PROVE  IInv'
<1> DEFINE left == cur[c].left
           e == Head(left)
           vts == IF e.keep THEN cur[c].vts ELSE Append(cur[c].vts, e.name)
           r == [cur[c] EXCEPT !.at = "make", !.left = Tail(left), !.scan = {}, !.vts = vts]
<1>1. /\ RecOK(c, cur[c]) /\ cur[c] \in CurRec /\ LeftOK(c, cur[c])
      /\ tables \subseteq Names /\ kept \subseteq Names /\ lost \subseteq Names
      /\ stack \in Seq(Cursors) /\ Len(stack) <= MaxDepth
  BY DEF IInv, Types, RecOK
<1>2. left \in Seq([name : Names, keep : BOOLEAN]) /\ cur[c].vts \in Seq(Names)
  BY <1>1 DEF CurRec
<1>3. /\ e = left[1] /\ 1 \in DOMAIN left /\ e \in [name : Names, keep : BOOLEAN]
      /\ Tail(left) \in Seq([name : Names, keep : BOOLEAN])
      /\ \A i \in DOMAIN Tail(left) : i + 1 \in DOMAIN left /\ Tail(left)[i] = left[i + 1]
                                      /\ i \in Nat \ {0}
  <2>1. Len(left) \in Nat \ {0} /\ DOMAIN left = 1..Len(left)
    BY <1>2
  <2>2. Tail(left) \in Seq([name : Names, keep : BOOLEAN]) /\ Len(Tail(left)) = Len(left) - 1
        /\ \A i \in 1..Len(Tail(left)) : Tail(left)[i] = left[i + 1]
    BY <1>2, <2>1, HeadTailProperties
  <2>3. DOMAIN Tail(left) = 1..(Len(left) - 1)
    BY <2>2
  <2>4. e = left[1] /\ 1 \in DOMAIN left /\ e \in [name : Names, keep : BOOLEAN]
    BY <1>2, HeadIs
  <2>5. \A i \in DOMAIN Tail(left) : i \in Nat \ {0} /\ i + 1 \in 1..Len(left)
    BY <2>1, <2>3
  <2>6. QED BY <2>1, <2>2, <2>3, <2>4, <2>5
<1>4. e.name \in Names /\ e.name \in Uses(c) \ Range(cur[c].vts)
  BY <1>1, <1>3 DEF LeftOK
<1>5. vts \in Seq(Names) /\ IsInjective(vts) /\ Range(vts) \subseteq Range(cur[c].vts) \cup {e.name}
      /\ Range(cur[c].vts) \subseteq Range(vts) /\ (~e.keep => e.name \in Range(vts))
  BY <1>1, <1>2, <1>4, Appended DEF RecOK
<1>6. r \in CurRec /\ r.at = "make" /\ r.vts = vts /\ r.left = Tail(left) /\ r.st = cur[c].st
  BY <1>1, <1>3, <1>5 DEF CurRec
<1>7. \A i \in DOMAIN Tail(left) : Tail(left)[i].name \in Uses(c) \ Range(vts)
  <2>1. SUFFICES ASSUME NEW i \in DOMAIN Tail(left)
                 PROVE  Tail(left)[i].name \in Uses(c) \ Range(vts)
    OBVIOUS
  <2>2. i + 1 \in DOMAIN left /\ i + 1 # 1 /\ Tail(left)[i] = left[i + 1]
    BY <1>3, <2>1
  <2>3. left[i + 1].name # e.name /\ left[i + 1].name \in Uses(c) \ Range(cur[c].vts)
    BY <1>1, <1>3, <2>2 DEF LeftOK
  <2>4. QED BY <1>5, <2>2, <2>3
<1>8. \A i, j \in DOMAIN Tail(left) : Tail(left)[i].name = Tail(left)[j].name => i = j
  <2>1. SUFFICES ASSUME NEW i \in DOMAIN Tail(left), NEW j \in DOMAIN Tail(left),
                        Tail(left)[i].name = Tail(left)[j].name
                 PROVE  i = j
    OBVIOUS
  <2>2. i + 1 = j + 1
    <3>1. \A k, l \in DOMAIN left : left[k].name = left[l].name => k = l
      BY <1>1 DEF LeftOK
    <3>2. i + 1 \in DOMAIN left /\ j + 1 \in DOMAIN left
          /\ left[i + 1].name = left[j + 1].name
      BY <1>3, <2>1
    <3>3. QED BY <3>1, <3>2
  <2>3. i \in Nat /\ j \in Nat
    BY <1>3, <2>1
  <2>4. QED BY <2>2, <2>3
<1>9. cur[c].st # "closed"
  BY <1>1 DEF RecOK, InExecute
<1>10. RecOK(c, r)
  BY <1>1, <1>4, <1>5, <1>6, <1>7, <1>8, <1>9 DEF RecOK, LeftOK
<1>11. /\ kept' = IF e.keep THEN kept \cup {e.name} ELSE kept
       /\ cur' = [cur EXCEPT ![c] = r]
  <2>1. kept' = IF e.keep THEN kept \cup {e.name} ELSE kept
    BY DEF Note
  <2>2. cur' = [cur EXCEPT ![c] = r]
    BY DEF Note
  <2>3. QED BY <2>1, <2>2
<1>12. tables' \subseteq kept' \cup lost' \cup Range(r.vts) \cup (tables \ Listed(c))
  <2>1. SUFFICES ASSUME NEW t \in tables'
                 PROVE  t \in kept' \cup lost' \cup Range(r.vts) \cup (tables \ Listed(c))
    OBVIOUS
  <2>2. CASE t = e.name
    BY <2>2, <1>5, <1>6, <1>11
  <2>3. CASE t \in tables
    BY <2>3, <1>5, <1>6 DEF Listed
  <2>4. QED BY <2>2, <2>3
<1>13. \A t \in Range(r.vts) \ tables' : InExecute(c) /\ t \in Listed(c) \ tables
  BY <1>5, <1>6 DEF Listed
<1>14. kept \subseteq kept' /\ kept' \subseteq Names /\ tables' \subseteq Names /\ lost' \subseteq Names
  BY <1>1, <1>4, <1>11
<1>15. QED BY <1>1, <1>10, <1>11, <1>12, <1>13, <1>14, Move

\* A cursor whose list, tables and rest of the plan stay as they are.
LEMMA StayMoves ==
    ASSUME IInv, NEW c \in Cursors, NEW r, RecOK(c, r), cur' = [cur EXCEPT ![c] = r],
           r.vts = cur[c].vts,
           r.at \in {"make", "create", "run"} => InExecute(c),
           tables' = tables, kept' = kept, lost' = lost, loose' \subseteq SUBSET Names,
           stack' \in Seq(Cursors), Len(stack') <= MaxDepth
    PROVE  IInv'
<1>1. tables \subseteq Names /\ kept \subseteq Names /\ lost \subseteq Names
  BY DEF IInv, Types
<1>2. Range(r.vts) = Listed(c)
  BY DEF Listed
<1>3. QED BY <1>1, <1>2, Move

-----------------------------------------------------------------------------
(* The actions of the caller *)

LEMMA CallerMoves ==
    ASSUME IInv, NEW c \in Cursors,
           \/ Open(c) \/ ExecuteGone(c) \/ ExecuteStuck(c) \/ FetchCall(c)
           \/ CloseBare(c) \/ Close(c) \/ Forget(c)
    PROVE  IInv'
<1>1. /\ Types /\ RecOK(c, cur[c]) /\ cur[c] \in CurRec
      /\ tables \subseteq Names /\ kept \subseteq Names /\ lost \subseteq Names
      /\ loose \subseteq SUBSET Names
      /\ stack \in Seq(Cursors) /\ Len(stack) <= MaxDepth
      /\ Listed(c) \subseteq Names
  <2>1. Types /\ RecOK(c, cur[c]) /\ cur[c] \in CurRec
    BY DEF IInv, RecOK
  <2>2. \A i \in DOMAIN cur[c].vts : cur[c].vts[i] \in Names
    BY <2>1 DEF CurRec
  <2>3. QED BY <2>1, <2>2 DEF Types, Listed, Range
<1>2. CASE Open(c)
  <2>1. cur[c].vts = <<>> /\ Listed(c) = {}
    BY <1>1, <1>2, EmptyList DEF Open, RecOK, Listed
  <2>2. QED BY <1>1, <1>2, <2>1, ClosedOK, Move DEF Open
<1>3. CASE ExecuteGone(c)
  <2> DEFINE r == [cur[c] EXCEPT !.locked = TRUE]
  <2>1. cur' = [cur EXCEPT ![c] = r]
    BY <1>3 DEF ExecuteGone
  <2>2. RecOK(c, r) /\ r.vts = cur[c].vts /\ r.at = "idle"
    BY <1>1, <1>3 DEF RecOK, LeftOK, CurRec, ExecuteGone, Idle
  <2>3. UNCHANGED <<tables, kept, lost, loose, stack>>
    BY <1>3 DEF ExecuteGone
  <2>4. QED BY <1>1, <2>1, <2>2, <2>3, StayMoves
<1>4. CASE ExecuteStuck(c)
  <2>1. Rest(c) \in CurRec /\ Rest(c).at = "idle" /\ Rest(c).left = <<>>
        /\ Rest(c).vts = cur[c].vts /\ Rest(c).st = "open"
    BY <1>4, RestOK DEF ExecuteStuck, Idle
  <2>2. Cleanup(c, Pinned(Cursors), Rest(c)) /\ UNCHANGED <<kept, lost, stack>>
        /\ loose' \subseteq SUBSET Names
    BY <1>1, <1>4, LetGoOK DEF ExecuteStuck
  <2>3. QED BY <1>1, <2>1, <2>2, CleanupMoves
<1>5. CASE FetchCall(c)
  <2> DEFINE r == [cur[c] EXCEPT !.at = "fetch"]
  <2>1. cur' = [cur EXCEPT ![c] = r] /\ cur[c].st = "open"
    BY <1>5 DEF FetchCall, Idle
  <2>2. RecOK(c, r) /\ r.vts = cur[c].vts /\ r.at = "fetch"
    BY <1>1, <2>1 DEF RecOK, LeftOK, CurRec
  <2>3. UNCHANGED <<tables, kept, lost, loose>> /\ stack' \in Seq(Cursors)
        /\ Len(stack') <= MaxDepth
    BY <1>1, <1>5, PushOK DEF FetchCall
  <2>4. QED BY <1>1, <2>1, <2>2, <2>3, StayMoves
<1>6. CASE CloseBare(c)
  <2>1. Listed(c) = {} /\ cur' = [cur EXCEPT ![c] = Closed]
    BY <1>6, EmptyList DEF CloseBare, Listed
  <2>2. UNCHANGED <<tables, kept, lost, loose, stack>>
    BY <1>6 DEF CloseBare
  <2>3. QED BY <1>1, <2>1, <2>2, ClosedOK, Move
<1>7. CASE Close(c)
  <2> DEFINE r == IF Listed(c) \cap Pinned(Cursors) = {} THEN Closed ELSE Rest(c)
  <2>1. Rest(c) \in CurRec /\ Rest(c).at = "idle" /\ Rest(c).left = <<>>
        /\ Rest(c).vts = cur[c].vts /\ Rest(c).st = "open"
    BY <1>7, RestOK DEF Close, Idle
  <2>2. r \in CurRec /\ r.at = "idle" /\ r.left = <<>>
    BY <1>1, <2>1, ClosedOK
  <2>3. Cleanup(c, Pinned(Cursors), r) /\ UNCHANGED <<kept, lost, stack>>
        /\ loose' \subseteq SUBSET Names
    BY <1>1, <1>7, LetGoOK DEF Close
  <2>4. Listed(c) \cap Pinned(Cursors) = {} \/ (r.vts = cur[c].vts /\ r.st = "open")
    BY <2>1
  <2> HIDE DEF r
  <2>5. QED BY <1>1, <2>2, <2>3, <2>4, CleanupMoves
<1>8. CASE Forget(c)
  <2>1. cur' = [cur EXCEPT ![c] = Closed] /\ lost' = lost \cup Listed(c)
        /\ UNCHANGED <<tables, kept, stack>> /\ loose' \subseteq SUBSET Names
    BY <1>1, <1>8, LetGoOK DEF Forget
  <2>2. tables \subseteq kept' \cup lost' \cup {} \cup (tables \ Listed(c))
    BY <2>1
  <2>3. QED BY <1>1, <2>1, <2>2, ClosedOK, Move
<1>9. QED BY <1>2, <1>3, <1>4, <1>5, <1>6, <1>7, <1>8

LEMMA ExecuteMoves ==
    ASSUME IInv, NEW c \in Cursors, NEW p \in Plans[c], Execute(c, p)
    PROVE  IInv'
<1> DEFINE scan == IF cur[c].vts = <<>> THEN cur[c].scan ELSE {}
           r == [cur[c] EXCEPT !.vts = <<>>, !.at = "make", !.plan = p, !.left = p.makes,
                               !.scan = scan]
<1>1. /\ Types /\ cur[c] \in CurRec /\ cur[c].st = "open"
      /\ tables \subseteq Names /\ kept \subseteq Names /\ lost \subseteq Names
      /\ loose \subseteq SUBSET Names
  BY DEF IInv, Types, RecOK, Execute, Idle
<1>2. p \in PlanRec /\ p.makes \in Seq([name : Names, keep : BOOLEAN])
  BY PlanOK DEF PlanRec
<1>3. r \in CurRec /\ r.vts = <<>> /\ r.left = p.makes /\ r.at = "make" /\ r.st = "open"
  BY <1>1, <1>2, EmptyList DEF CurRec
<1>4. Range(r.vts) = {} /\ IsInjective(r.vts)
  BY <1>3, EmptyList
<1>5. RecOK(c, r)
  BY <1>3, <1>4, PlanOK DEF RecOK, LeftOK
<1>6. cur' = [cur EXCEPT ![c] = r]
  BY DEF Execute
<1>7. /\ tables' = tables \ Listed(c) /\ UNCHANGED <<kept, lost>>
      /\ loose' \subseteq SUBSET Names /\ stack' \in Seq(Cursors) /\ Len(stack') <= MaxDepth
  BY <1>1, LetGoOK, PushOK DEF Execute
<1> HIDE DEF r
<1>8. QED BY <1>1, <1>4, <1>5, <1>6, <1>7, Move

-----------------------------------------------------------------------------
(* The actions of the cursor on top of the stack *)

LEMMA MakeMoves ==
    ASSUME IInv, stack # <<>>, MakeExisting \/ MakeCall \/ MakeReturn \/ MakeFailed
    PROVE  IInv'
<1>1. /\ Types /\ Top \in Cursors /\ RecOK(Top, cur[Top]) /\ cur[Top] \in CurRec
      /\ loose \subseteq SUBSET Names /\ stack \in Seq(Cursors) /\ Len(stack) <= MaxDepth
  BY TopOK DEF IInv, Types, RecOK
<1>2. PICK c \in Cursors : c = Top
  BY <1>1
<1>3. CASE MakeExisting
  <2>1. /\ cur[c].at = "make" /\ cur[c].left # <<>> /\ Note(c, Head(cur[c].left))
        /\ tables' = tables \cup {Head(cur[c].left).name}
        /\ UNCHANGED <<lost, stack>> /\ loose' \subseteq SUBSET Names
    BY <1>1, <1>2, <1>3, LetGoOK DEF MakeExisting, At
  <2>2. QED BY <2>1, NoteMoves DEF InExecute
<1>4. CASE MakeCall
  <2> DEFINE r == [cur[c] EXCEPT !.at = "create", !.scan = {}]
  <2>1. /\ cur[c].at = "make" /\ cur[c].left # <<>>
        /\ UNCHANGED <<tables, kept, lost, stack>> /\ loose' \subseteq SUBSET Names
    BY <1>1, <1>2, <1>4, LetGoOK DEF MakeCall, At
  <2>2. cur' = [cur EXCEPT ![c] = r]
    BY <1>2, <1>4 DEF MakeCall
  <2>3. r \in CurRec /\ r.vts = cur[c].vts /\ r.left = cur[c].left /\ r.at = "create"
        /\ r.st = cur[c].st
    BY <1>1, <1>2 DEF CurRec
  <2>4. RecOK(c, r)
    BY <1>1, <1>2, <2>1, <2>3 DEF RecOK, LeftOK
  <2>5. InExecute(c)
    BY <2>1 DEF InExecute
  <2> HIDE DEF r
  <2>6. QED BY <1>1, <2>1, <2>2, <2>3, <2>4, <2>5, StayMoves
<1>5. CASE MakeReturn
  <2>1. /\ cur[c].at = "create" /\ Note(c, Head(cur[c].left))
        /\ tables' = tables \cup {Head(cur[c].left).name}
        /\ UNCHANGED <<lost, loose, stack>>
    BY <1>2, <1>5 DEF MakeReturn, At
  <2>2. cur[c].left # <<>>
    BY <1>1, <1>2, <2>1 DEF RecOK
  <2>3. QED BY <1>1, <2>1, <2>2, NoteMoves DEF InExecute
<1>6. CASE MakeFailed
  <2>1. cur[c].at = "create" /\ Cleanup(c, Pinned(Cursors), Rest(c)) /\ Pop
        /\ UNCHANGED <<kept, lost, loose>>
    BY <1>2, <1>6 DEF MakeFailed, At
  <2>2. Rest(c) \in CurRec /\ Rest(c).at = "idle" /\ Rest(c).left = <<>>
        /\ Rest(c).vts = cur[c].vts /\ Rest(c).st = cur[c].st
    BY RestOK
  <2>3. Rest(c).st = "open"
    BY <1>1, <1>2, <2>1, <2>2 DEF RecOK, CurRec
  <2>4. stack' \in Seq(Cursors) /\ Len(stack') <= MaxDepth
    BY <1>1, <2>1, PopOK
  <2>5. QED BY <1>1, <2>1, <2>2, <2>3, <2>4, CleanupMoves
<1>7. QED BY <1>3, <1>4, <1>5, <1>6

\* execute or next returns, successfully or not, without a clean-up.
LEMMA ReturnMoves ==
    ASSUME IInv, stack # <<>>, NEW c \in Cursors, c = Top,
           NEW S \in SUBSET Names, NEW l \in BOOLEAN,
           cur' = [cur EXCEPT ![c] = [Rest(c) EXCEPT !.locked = l, !.scan = S]],
           Pop, UNCHANGED <<tables, kept, lost, loose>>
    PROVE  IInv'
<1> DEFINE r == [Rest(c) EXCEPT !.locked = l, !.scan = S]
<1>1. RecOK(c, r) /\ r.at = "idle" /\ r.vts = cur[c].vts
  BY RestOK DEF CurRec
<1>2. Types /\ loose \subseteq SUBSET Names
  BY DEF IInv, Types
<1>3. stack' \in Seq(Cursors) /\ Len(stack') <= MaxDepth
  BY <1>2, PopOK
<1> HIDE DEF r
<1>4. cur' = [cur EXCEPT ![c] = r]
  BY DEF r
<1>5. QED BY <1>1, <1>2, <1>3, <1>4, StayMoves

LEMMA RunMoves ==
    ASSUME IInv, stack # <<>>,
           RunUnprepared \/ RunStale \/ RunCall \/ RunReturn \/ RunFailed \/ FetchReturn
    PROVE  IInv'
<1>1. /\ Types /\ Top \in Cursors /\ RecOK(Top, cur[Top]) /\ cur[Top] \in CurRec
      /\ loose \subseteq SUBSET Names /\ stack \in Seq(Cursors) /\ Len(stack) <= MaxDepth
  BY TopOK DEF IInv, Types, RecOK
<1>2. PICK c \in Cursors : c = Top
  BY <1>1
<1>3. /\ Rest(c) \in CurRec /\ Rest(c).at = "idle" /\ Rest(c).left = <<>>
      /\ Rest(c).vts = cur[c].vts /\ Rest(c).st = cur[c].st
      /\ Rest(c).locked = cur[c].locked /\ Rest(c).scan = {}
  BY <1>1, <1>2, RestOK DEF Rest, CurRec
<1>4. /\ \A S \in SUBSET Names :
            [Rest(c) EXCEPT !.scan = S] = [Rest(c) EXCEPT !.locked = cur[c].locked, !.scan = S]
      /\ \A l \in BOOLEAN :
            [Rest(c) EXCEPT !.locked = l] = [Rest(c) EXCEPT !.locked = l, !.scan = {}]
  BY <1>3 DEF CurRec
<1>5. cur[c].locked \in BOOLEAN /\ cur[c].scan \in SUBSET Names
  BY <1>1, <1>2 DEF CurRec
<1>6. CASE RunUnprepared
  <2>1. /\ cur' = [cur EXCEPT ![c] = [Rest(c) EXCEPT !.locked = TRUE, !.scan = cur[c].scan]]
        /\ Pop /\ UNCHANGED <<tables, kept, lost, loose>>
    BY <1>2, <1>6 DEF RunUnprepared
  <2>2. QED BY <1>2, <1>5, <2>1, ReturnMoves
<1>7. CASE RunStale \/ RunFailed
  <2>1. PICK D \in SUBSET Cursors : Cleanup(c, Pinned(D), Rest(c))
    BY <1>2, <1>7 DEF RunStale, RunFailed
  <2>2. /\ cur[c].at \in {"make", "run"} /\ Pop /\ UNCHANGED <<kept, lost>>
        /\ loose' \subseteq SUBSET Names
    BY <1>1, <1>2, <1>7, LetGoOK DEF RunStale, RunFailed, Ready, At
  <2>3. Rest(c).st = "open"
    BY <1>1, <1>2, <1>3, <2>2 DEF RecOK, CurRec
  <2>4. stack' \in Seq(Cursors) /\ Len(stack') <= MaxDepth
    BY <1>1, <2>2, PopOK
  <2>5. QED BY <1>3, <2>1, <2>2, <2>3, <2>4, CleanupMoves
<1>8. CASE RunCall
  <2> DEFINE r == [cur[c] EXCEPT !.at = "run", !.scan = cur[c].plan.scans]
  <2>1. /\ cur[c].at = "make"
        /\ UNCHANGED <<tables, kept, lost, stack>> /\ loose' \subseteq SUBSET Names
    BY <1>1, <1>2, <1>8, LetGoOK DEF RunCall, Ready, At
  <2>2. cur' = [cur EXCEPT ![c] = r]
    BY <1>2, <1>8 DEF RunCall
  <2>3. r \in CurRec /\ r.vts = cur[c].vts /\ r.left = cur[c].left /\ r.at = "run"
        /\ r.st = cur[c].st
    BY <1>1, <1>2 DEF CurRec, PlanRec
  <2>4. RecOK(c, r)
    BY <1>1, <1>2, <2>1, <2>3 DEF RecOK, LeftOK
  <2>5. InExecute(c)
    BY <2>1 DEF InExecute
  <2> HIDE DEF r
  <2>6. QED BY <1>1, <2>1, <2>2, <2>3, <2>4, <2>5, StayMoves
<1>9. CASE RunReturn
  <2>1. PICK S \in {{}, cur[c].scan} : cur' = [cur EXCEPT ![c] = [Rest(c) EXCEPT !.scan = S]]
    BY <1>2, <1>9 DEF RunReturn
  <2>2. Pop /\ UNCHANGED <<tables, kept, lost, loose>>
    BY <1>9 DEF RunReturn
  <2>3. S \in SUBSET Names
    BY <1>5, <2>1
  <2>4. cur' = [cur EXCEPT ![c] = [Rest(c) EXCEPT !.locked = cur[c].locked, !.scan = S]]
    BY <1>4, <2>1, <2>3
  <2>5. QED BY <1>2, <1>5, <2>2, <2>3, <2>4, ReturnMoves
<1>10. CASE FetchReturn
  <2>1. Pop /\ UNCHANGED <<tables, kept, lost, loose>>
    BY <1>10 DEF FetchReturn
  <2>2. CASE \E l \in {FALSE, cur[c].locked} :
                cur' = [cur EXCEPT ![c] = [Rest(c) EXCEPT !.locked = l]]
    <3>1. PICK l \in BOOLEAN :
             cur' = [cur EXCEPT ![c] = [Rest(c) EXCEPT !.locked = l, !.scan = {}]]
      BY <1>4, <1>5, <2>2
    <3>2. QED BY <1>2, <2>1, <3>1, ReturnMoves
  <2>3. CASE cur' = [cur EXCEPT ![c].at = "idle"]
    <3> DEFINE r == [cur[c] EXCEPT !.at = "idle"]
    <3>1. cur' = [cur EXCEPT ![c] = r] /\ cur[c].at = "fetch"
      BY <1>2, <1>10, <2>3 DEF FetchReturn, At
    <3>2. r \in CurRec /\ r.vts = cur[c].vts /\ r.left = cur[c].left /\ r.at = "idle"
          /\ r.st = cur[c].st
      BY <1>1, <1>2 DEF CurRec
    <3>3. RecOK(c, r)
      BY <1>1, <1>2, <3>1, <3>2 DEF RecOK, LeftOK
    <3>4. stack' \in Seq(Cursors) /\ Len(stack') <= MaxDepth
      BY <1>1, <2>1, PopOK
    <3> HIDE DEF r
    <3>5. QED BY <1>1, <2>1, <3>1, <3>2, <3>3, <3>4, StayMoves
  <2>4. QED BY <1>2, <1>10, <2>2, <2>3 DEF FetchReturn
<1>11. QED BY <1>6, <1>7, <1>8, <1>9, <1>10

-----------------------------------------------------------------------------
(* Theorems *)

LEMMA InitOK == Init => IInv
<1> SUFFICES ASSUME Init PROVE IInv
  OBVIOUS
<1>1. Types
  BY ClosedOK, EmptyList, ConstantsOK DEF Init, Types
<1>2. \A c \in Cursors : cur[c] = Closed
  BY DEF Init
<1>3. \A c \in Cursors : RecOK(c, cur[c]) /\ cur[c].at = "idle"
  BY <1>2, ClosedOK
<1>4. NoOrphan /\ OwnTables
  BY <1>3 DEF Init, NoOrphan, OwnTables
<1>5. QED BY <1>1, <1>3, <1>4 DEF IInv

LEMMA StepOK == IInv /\ [Next]_vars => IInv'
<1> SUFFICES ASSUME IInv, [Next]_vars PROVE IInv'
  OBVIOUS
<1>1. CASE UNCHANGED vars
  <2>1. UNCHANGED <<tables, kept, lost, loose, cur, stack>>
    BY <1>1 DEF vars
  <2>2. Types' /\ (\A c \in Cursors : RecOK(c, cur'[c]))
    BY <2>1 DEF IInv, Types
  <2>3. NoOrphan' /\ OwnTables'
    BY <2>1 DEF IInv, NoOrphan, OwnTables, Listed, Uses
  <2>4. QED BY <2>2, <2>3 DEF IInv, RecOK, LeftOK, Uses
<1>2. ASSUME NEW c \in Cursors,
             \/ Open(c) \/ ExecuteGone(c) \/ ExecuteStuck(c) \/ FetchCall(c)
             \/ CloseBare(c) \/ Close(c) \/ Forget(c)
      PROVE  IInv'
  BY <1>2, CallerMoves
<1>3. ASSUME NEW c \in Cursors, NEW p \in Plans[c], Execute(c, p)
      PROVE  IInv'
  BY <1>3, ExecuteMoves
<1>4. CASE MakeExisting \/ MakeCall \/ MakeReturn \/ MakeFailed
  <2>1. stack # <<>>
    BY <1>4 DEF MakeExisting, MakeCall, MakeReturn, MakeFailed, At
  <2>2. QED BY <1>4, <2>1, MakeMoves
<1>5. CASE RunUnprepared \/ RunStale \/ RunCall \/ RunReturn \/ RunFailed \/ FetchReturn
  <2>1. stack # <<>>
    BY <1>5 DEF RunUnprepared, RunStale, RunCall, RunReturn, RunFailed, FetchReturn, Ready, At
  <2>2. QED BY <1>5, <2>1, RunMoves
<1>6. CASE Collect
  <2>1. loose' \subseteq SUBSET Names
    BY <1>6 DEF Collect, IInv, Types
  <2>2. UNCHANGED <<tables, kept, lost, cur, stack>>
    BY <1>6 DEF Collect
  <2>3. Types' /\ (\A c \in Cursors : RecOK(c, cur'[c]))
    BY <2>1, <2>2 DEF IInv, Types
  <2>4. NoOrphan' /\ OwnTables'
    BY <2>2 DEF IInv, NoOrphan, OwnTables, Listed, Uses
  <2>5. QED BY <2>3, <2>4 DEF IInv, RecOK, LeftOK, Uses
<1>7. QED BY <1>1, <1>2, <1>3, <1>4, <1>5, <1>6 DEF Next

\* The variables of QueryVTs have their types, and no list names a table twice, so
\* that the script of DROPs of the next execute can be prepared to its end.
THEOREM ListsOK == Spec => []TypeOK
BY InitOK, StepOK, Implied, PTL DEF Spec

\* Whatever fails in execute, in a clean-up or in close, a temporary table of the
\* connection is permanent, or listed by an open cursor, or its cursor was dropped
\* without a (successful) close.
THEOREM NoneForgotten == Spec => []NoOrphan
BY InitOK, StepOK, Implied, PTL DEF Spec

\* A query in the middle of execute lacks a table it has made only when a query of
\* another cursor has the same operator.
THEOREM OwnTablesStay == Spec => []OwnTables
BY InitOK, StepOK, Implied, PTL DEF Spec
=============================================================================
