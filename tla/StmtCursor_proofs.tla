--------------------------- MODULE StmtCursor_proofs ---------------------------
(***************************************************************************)
(* For every set of cursors, statements and texts, every size of the cache *)
(* and every depth of nesting: type correctness of StmtCursor, and that a  *)
(* statement is shared only after it failed, that cursors are unlocked     *)
(* again, and that no reader steps a finalized statement.  From that, what *)
(* readers get: the rows of their script once each and in order.           *)
(***************************************************************************)
EXTENDS StmtCursor, SequenceTheorems, TLAPS

-----------------------------------------------------------------------------
(* The inductive invariant *)

\* A held statement exists, and is in use unless a step of it failed.
HeldInUse ==
    \A c \in Cursors, s \in Stmts :
        Holds(c, s) => stmt[s].st = "live" /\ (~stmt[s].failed => stmt[s].use)

HasStmt(c) == cur[c].st = "open" /\ cur[c].stmt \in Stmts

\* What the reader of a cursor goes on with is there, and unlocked.
Reading(c) ==
    /\ read[c].sql # None /\ read[c].err = "no" => HasStmt(c)
    /\ it[c].st \in {"new", "mid"} => HasStmt(c) /\ ~cur[c].locked
    /\ it[c].st = "mid" =>
          it[c].stmt \in Stmts /\ (it[c].ret = "row" => it[c].stmt = cur[c].stmt)

LockExplained(c) == cur[c].locked => read[c].err = "prepare"

\* A running step has the cursor and the iterator its callback left behind.
Fits(op, c) ==
    /\ HasStmt(c)
    /\ op = "execute" => it[c].st = "none"
    /\ op = "row" => it[c].st = "mid" /\ it[c].ret = "row"
    /\ op = "rest" => it[c].st = "mid" /\ it[c].ret = "done"

StackOK ==
    \A i \in 1..Len(stack) :
        /\ Fits(stack[i].op, stack[i].cur)
        /\ \A j \in 1..Len(stack) : i # j => stack[i].cur # stack[j].cur

ReadersOK == \A c \in Cursors : Reading(c) /\ (Idle(c) => LockExplained(c))

IInv == TypeOK /\ HeldInUse /\ StatementPrivate /\ ReadersOK /\ StackOK

\* The invariant in three parts: what a step does to one of them is proved
\* apart from what it does to the others.
Cells ==
    /\ cur \in [Cursors -> CurRec]
    /\ it \in [Cursors -> IterRec]
    /\ read \in [Cursors -> ReadRec]

Frames == stack \in Seq(FrameRec) /\ StackOK /\ ReadersOK

StmtTypes ==
    /\ stmt \in [Stmts -> StmtRec]
    /\ cache \in Seq(Stmts) /\ Len(cache) <= CacheSize
    /\ \A i \in 1..Len(cache) : stmt[cache[i]].st = "live"
    /\ \A i, j \in 1..Len(cache) : stmt[cache[i]].sql = stmt[cache[j]].sql => i = j

StmtsOK == StmtTypes /\ HeldInUse /\ StatementPrivate

Others(c) == \A d \in Cursors \ {c} : cur'[d] = cur[d] /\ it'[d] = it[d] /\ read'[d] = read[d]

\* No cursor holds a statement it did not hold.
NoNewHolds == \A d \in Cursors, s \in Stmts : Holds(d, s)' => Holds(d, s)

LEMMA Parts ==
    /\ IInv <=> Cells /\ StmtsOK /\ Frames
    /\ IInv' <=> (Cells /\ StmtsOK /\ Frames)'
BY DEF IInv, TypeOK, Cells, StmtsOK, StmtTypes, Frames

-----------------------------------------------------------------------------
(* Statements and cache *)

\* A statement of the cache's oldest entry leaves; the others stay in order.
LEMMA RememberOK ==
    ASSUME StmtTypes, NEW s \in Stmts, stmt[s].st = "unborn", Remember(s)
    PROVE  /\ cache' \in Seq(Stmts) /\ Len(cache') <= CacheSize
           /\ Len(cache') \in Nat
           /\ \E m \in {0, 1} : \A i \in 1..Len(cache') :
                 \/ i = Len(cache') /\ cache'[i] = s
                 \/ i # Len(cache') /\ i + m \in 1..Len(cache) /\ cache'[i] = cache[i + m]
<1>1. cache \in Seq(Stmts) /\ Len(cache) <= CacheSize /\ Len(cache) \in Nat
    BY DEF StmtTypes
<1>2. CASE Len(cache) < CacheSize
  <2>1. cache' = Append(cache, s)
    BY <1>2 DEF Remember
  <2>2. /\ cache' \in Seq(Stmts) /\ Len(cache') = Len(cache) + 1
        /\ cache'[Len(cache) + 1] = s
        /\ \A i \in 1..Len(cache) : cache'[i] = cache[i]
    BY <1>1, <2>1
  <2> QED
    BY <1>1, <1>2, <2>2, ConstantsOK
<1>3. CASE ~(Len(cache) < CacheSize)
  <2>1. cache' = Append(Tail(cache), s)
    BY <1>3 DEF Remember
  <2>2. PICK n \in Nat : Len(cache) = n + 1
    BY <1>1, <1>3, ConstantsOK
  <2>3. /\ Tail(cache) \in Seq(Stmts) /\ Len(Tail(cache)) = n
        /\ \A i \in 1..n : Tail(cache)[i] = cache[i + 1]
    BY <1>1, <2>2
  <2>4. /\ cache' \in Seq(Stmts) /\ Len(cache') = n + 1 /\ cache'[n + 1] = s
        /\ \A i \in 1..n : cache'[i] = cache[i + 1]
    BY <2>1, <2>3
  <2>5. Len(cache') <= CacheSize
    BY <1>1, <2>2, <2>4
  <2>6. \A i \in 1..Len(cache') :
            \/ i = Len(cache') /\ cache'[i] = s
            \/ i # Len(cache') /\ i + 1 \in 1..Len(cache) /\ cache'[i] = cache[i + 1]
    BY <2>2, <2>4
  <2> QED
    BY <2>4, <2>5, <2>6
<1> QED
    BY <1>2, <1>3

\* Executing a text, or going on with one, gives the cursor a statement that
\* nobody else holds unless it failed.
LEMMA GetOK ==
    ASSUME StmtsOK, NEW c \in Cursors, NEW q \in Sqls, NEW s \in Stmts,
           Get(q, s), stmt' = Dirty(q, s),
           cur[c].st = "open", cur'[c].st = "open", cur'[c].stmt = s,
           \A d \in Cursors \ {c} : cur'[d] = cur[d]
    PROVE  StmtsOK'
<1>. DEFINE r == [stmt[s] EXCEPT !.st = "live", !.sql = q, !.use = TRUE, !.pos = 0]
<1>1. stmt \in [Stmts -> StmtRec] /\ stmt[s] \in StmtRec
    BY DEF StmtsOK, StmtTypes
<1>2. stmt' = [stmt EXCEPT ![s] = r]
    BY DEF Dirty
<1>3. /\ r \in StmtRec /\ r.st = "live" /\ r.sql = q /\ r.use = TRUE
      /\ r.failed = stmt[s].failed
    BY <1>1 DEF StmtRec
<1>. HIDE DEF r
<1>4. /\ stmt' \in [Stmts -> StmtRec] /\ stmt'[s] = r
      /\ \A x \in Stmts : x # s => stmt'[x] = stmt[x]
    BY <1>1, <1>2, <1>3
<1>5. \A d \in Cursors : d # c /\ Holds(d, s) => stmt[s].failed
  <2> SUFFICES ASSUME NEW d \in Cursors, d # c, Holds(d, s) PROVE stmt[s].failed
    OBVIOUS
  <2>1. stmt[s].st = "live" /\ (~stmt[s].failed => stmt[s].use)
    BY DEF StmtsOK, HeldInUse
  <2> QED
    BY <2>1 DEF Get, Fresh
<1>6. HeldInUse'
  <2> SUFFICES ASSUME NEW d \in Cursors, NEW x \in Stmts, Holds(d, x)'
               PROVE  stmt'[x].st = "live" /\ (~stmt'[x].failed => stmt'[x].use)
    BY DEF HeldInUse
  <2>1. CASE x = s
    BY <1>3, <1>4, <2>1
  <2>2. CASE x # s
    BY <1>4, <2>2 DEF Holds, StmtsOK, HeldInUse
  <2> QED
    BY <2>1, <2>2
<1>7. StatementPrivate'
  <2> SUFFICES ASSUME NEW x \in Stmts, ~stmt'[x].failed,
                      NEW d \in Cursors, NEW e \in Cursors, Holds(d, x)', Holds(e, x)'
               PROVE  d = e
    BY DEF StatementPrivate
  <2>1. CASE x = s
    BY <1>3, <1>4, <1>5, <2>1 DEF Holds
  <2>2. CASE x # s
    BY <1>4, <2>2 DEF Holds, StmtsOK, StatementPrivate
  <2> QED
    BY <2>1, <2>2
<1>8. StmtTypes'
  <2>1. CASE UNCHANGED cache /\ ~(s \in Cached(q)) /\ stmt[s].st = "unborn"
    BY <1>3, <1>4, <2>1 DEF StmtsOK, StmtTypes
  <2>2. CASE UNCHANGED cache /\ s \in Cached(q)
    <3>1. stmt[s].sql = q
      BY <2>2 DEF Cached
    <3> QED
      BY <1>3, <1>4, <2>2, <3>1 DEF StmtsOK, StmtTypes
  <2>3. CASE Cached(q) = {} /\ Fresh(s) /\ Remember(s)
    <3>1. stmt[s].st = "unborn"
      BY <2>3 DEF Fresh
    <3>2. StmtTypes
      BY DEF StmtsOK
    <3>3. /\ cache' \in Seq(Stmts) /\ Len(cache') <= CacheSize /\ Len(cache') \in Nat
          /\ \E m \in {0, 1} : \A i \in 1..Len(cache') :
                \/ i = Len(cache') /\ cache'[i] = s
                \/ i # Len(cache') /\ i + m \in 1..Len(cache) /\ cache'[i] = cache[i + m]
      BY <2>3, <3>1, <3>2, RememberOK
    <3>4. PICK m \in {0, 1} : \A i \in 1..Len(cache') :
                \/ i = Len(cache') /\ cache'[i] = s
                \/ i # Len(cache') /\ i + m \in 1..Len(cache) /\ cache'[i] = cache[i + m]
      BY <3>3
    <3>5. \A i \in 1..Len(cache) : cache[i] \in Stmts /\ cache[i] # s /\ stmt[cache[i]].sql # q
      BY <2>3, <3>1, <3>2 DEF StmtTypes, Cached, InCache
    <3>6. \A i \in 1..Len(cache') : i # Len(cache') =>
              /\ i + m \in 1..Len(cache) /\ cache'[i] = cache[i + m]
              /\ stmt'[cache'[i]] = stmt[cache[i + m]]
      BY <1>4, <3>4, <3>5
    <3>7. Len(cache') \in 1..Len(cache') => stmt'[cache'[Len(cache')]] = r
      BY <1>4, <3>4, <3>5
    <3>8. \A i \in 1..Len(cache') : stmt'[cache'[i]].st = "live"
      <4>1. \A i \in 1..Len(cache') : i # Len(cache') => stmt'[cache'[i]].st = "live"
        BY <3>2, <3>6 DEF StmtTypes
      <4> QED
        BY <1>3, <3>7, <4>1
    <3>9. \A i, j \in 1..Len(cache') : stmt'[cache'[i]].sql = stmt'[cache'[j]].sql => i = j
      <4> SUFFICES ASSUME NEW i \in 1..Len(cache'), NEW j \in 1..Len(cache'),
                          stmt'[cache'[i]].sql = stmt'[cache'[j]].sql
                   PROVE  i = j
        OBVIOUS
      <4>1. CASE i # Len(cache') /\ j # Len(cache')
        <5>1. PICK k \in 1..Len(cache), l \in 1..Len(cache) : k = i + m /\ l = j + m
          BY <3>6, <4>1
        <5>2. stmt[cache[k]].sql = stmt[cache[l]].sql
          BY <3>6, <4>1, <5>1
        <5>3. k = l
          BY <3>2, <5>2 DEF StmtTypes
        <5> QED
          BY <5>1, <5>3
      <4>2. ASSUME NEW k \in 1..Len(cache'), k # Len(cache')
            PROVE  stmt'[cache'[k]].sql # q
        <5>1. k + m \in 1..Len(cache) /\ stmt'[cache'[k]] = stmt[cache[k + m]]
          BY <3>6, <4>2
        <5> QED
          BY <3>5, <5>1
      <4>3. CASE i = Len(cache') \/ j = Len(cache')
        <5>1. stmt'[cache'[Len(cache')]].sql = q
          BY <1>3, <3>7, <4>3
        <5> QED
          BY <4>2, <4>3, <5>1
      <4> QED
        BY <4>1, <4>3
    <3> QED
      BY <1>4, <3>3, <3>8, <3>9 DEF StmtTypes
  <2>4. s \notin Cached(q) => stmt[s].st = "unborn"
    BY DEF Get, Fresh
  <2> QED
    BY <2>1, <2>2, <2>3, <2>4 DEF Get
<1> QED
    BY <1>6, <1>7, <1>8 DEF StmtsOK
\* Statements and cache stay right when nothing happens to them,
LEMMA KeepOK ==
    ASSUME StmtsOK, NoNewHolds, UNCHANGED <<cache, stmt>>
    PROVE  StmtsOK'
<1>1. StmtTypes'
    BY DEF StmtsOK, StmtTypes
<1>2. HeldInUse' /\ StatementPrivate'
    BY DEF StmtsOK, HeldInUse, StatementPrivate, NoNewHolds
<1> QED
    BY <1>1, <1>2 DEF StmtsOK

\* when one statement changes but not its text, and stays in use if it is held
\* and has not failed,
LEMMA TouchOK ==
    ASSUME StmtsOK, NoNewHolds, UNCHANGED cache,
           NEW s \in Stmts, NEW r \in StmtRec, stmt' = [stmt EXCEPT ![s] = r],
           r.sql = stmt[s].sql, stmt[s].failed => r.failed,
           r.st = stmt[s].st \/ (~InCache(s) /\ \A d \in Cursors : ~Holds(d, s)),
           r.use = stmt[s].use \/ r.failed \/ \A d \in Cursors : ~Holds(d, s)'
    PROVE  StmtsOK'
<1>1. /\ stmt' \in [Stmts -> StmtRec] /\ stmt'[s] = r
      /\ \A x \in Stmts : x # s => stmt'[x] = stmt[x]
    BY DEF StmtsOK, StmtTypes
<1>2. StmtTypes'
  <2>1. \A i \in 1..Len(cache) : cache[i] \in Stmts
    BY DEF StmtsOK, StmtTypes
  <2>2. \A i \in 1..Len(cache) : stmt'[cache[i]].sql = stmt[cache[i]].sql
    BY <1>1, <2>1
  <2>3. \A i \in 1..Len(cache) : stmt'[cache[i]].st = "live"
    <3> SUFFICES ASSUME NEW i \in 1..Len(cache) PROVE stmt'[cache[i]].st = "live"
      OBVIOUS
    <3>1. stmt[cache[i]].st = "live"
      BY DEF StmtsOK, StmtTypes
    <3>2. CASE cache[i] = s
      BY <1>1, <3>1, <3>2 DEF InCache
    <3>3. CASE cache[i] # s
      BY <1>1, <2>1, <3>1, <3>3
    <3> QED
      BY <3>2, <3>3
  <2> QED
    BY <1>1, <2>2, <2>3 DEF StmtsOK, StmtTypes
<1>3. HeldInUse'
  <2> SUFFICES ASSUME NEW d \in Cursors, NEW x \in Stmts, Holds(d, x)'
               PROVE  stmt'[x].st = "live" /\ (~stmt'[x].failed => stmt'[x].use)
    BY DEF HeldInUse
  <2>1. Holds(d, x) /\ stmt[x].st = "live" /\ (~stmt[x].failed => stmt[x].use)
    BY DEF NoNewHolds, StmtsOK, HeldInUse
  <2>2. CASE x = s
    BY <1>1, <2>1, <2>2
  <2>3. CASE x # s
    BY <1>1, <2>1, <2>3
  <2> QED
    BY <2>2, <2>3
<1>4. StatementPrivate'
  <2>1. \A x \in Stmts : ~stmt'[x].failed => ~stmt[x].failed
    BY <1>1
  <2> QED
    BY <2>1 DEF StmtsOK, StatementPrivate, NoNewHolds
<1> QED
    BY <1>2, <1>3, <1>4 DEF StmtsOK

\* in particular when it is stepped,
LEMMA StepOK ==
    ASSUME StmtsOK, NoNewHolds, UNCHANGED cache,
           NEW s \in Stmts, NEW o \in StepOutcomes(s), stmt' = Stepped(s, o)
    PROVE  StmtsOK'
<1>. DEFINE r == [stmt[s] EXCEPT !.pos = PosAfter(s, o)]
<1>1. stmt \in [Stmts -> StmtRec] /\ stmt[s] \in StmtRec
    BY DEF StmtsOK, StmtTypes
<1>2. PosAfter(s, o) \in Nat
    BY <1>1 DEF PosAfter, StmtRec
<1>3. /\ r \in StmtRec /\ r.st = stmt[s].st /\ r.sql = stmt[s].sql
      /\ r.failed = stmt[s].failed /\ r.use = stmt[s].use
    BY <1>1, <1>2 DEF StmtRec
<1>4. stmt' = [stmt EXCEPT ![s] = r]
    BY <1>1 DEF Stepped
<1>. HIDE DEF r
<1> QED
    BY <1>3, <1>4, TouchOK

\* and when it is reset because a step of it failed.
LEMMA DropOK ==
    ASSUME StmtsOK, NoNewHolds, UNCHANGED cache, NEW s \in Stmts, stmt' = Dropped(s)
    PROVE  StmtsOK'
<1>. DEFINE r == [stmt[s] EXCEPT !.pos = 0, !.use = FALSE, !.failed = TRUE]
<1>1. stmt \in [Stmts -> StmtRec] /\ stmt[s] \in StmtRec
    BY DEF StmtsOK, StmtTypes
<1>2. r \in StmtRec /\ r.st = stmt[s].st /\ r.sql = stmt[s].sql /\ r.failed
    BY <1>1 DEF StmtRec
<1>3. stmt' = [stmt EXCEPT ![s] = r]
    BY <1>1 DEF Dropped
<1>. HIDE DEF r
<1> QED
    BY <1>2, <1>3, TouchOK

-----------------------------------------------------------------------------
(* Readers and running steps *)

\* The stack holds typed frames; a step that returns is the newest one.
LEMMA TopFacts ==
    ASSUME Frames, stack # <<>>
    PROVE  /\ Len(stack) \in Nat \ {0}
           /\ Top \in FrameRec /\ Fits(Top.op, Top.cur) /\ Busy(Top.cur)
           /\ \A i \in 1..(Len(stack) - 1) : stack[i].cur # Top.cur
<1>1. Len(stack) \in Nat \ {0}
    BY EmptySeq DEF Frames
<1>2. Top \in FrameRec
    BY <1>1 DEF Frames, Top
<1> QED
    BY <1>1, <1>2 DEF Top, Busy, Frames, StackOK

\* A frame of another cursor fits as before.
LEMMA OtherFits ==
    ASSUME NEW c \in Cursors, Others(c), NEW f \in FrameRec, f.cur # c, Fits(f.op, f.cur)
    PROVE  Fits(f.op, f.cur)'
<1>1. f.cur \in Cursors \ {c}
    BY DEF FrameRec
<1> QED
    BY <1>1 DEF Others, Fits, HasStmt

\* The other readers go on as before if the steps of their cursors do.
LEMMA OtherReaders ==
    ASSUME Frames, NEW c \in Cursors, Others(c),
           \A d \in Cursors \ {c} : Busy(d) => Busy(d)',
           Reading(c)', Idle(c)' => LockExplained(c)'
    PROVE  ReadersOK'
<1> SUFFICES ASSUME NEW d \in Cursors \ {c}
             PROVE  Reading(d)' /\ (Idle(d)' => LockExplained(d)')
    BY DEF ReadersOK
<1>1. cur'[d] = cur[d] /\ it'[d] = it[d] /\ read'[d] = read[d]
    BY DEF Others
<1>2. Reading(d) /\ (Idle(d) => LockExplained(d))
    BY DEF Frames, ReadersOK
<1>3. Idle(d)' => Idle(d)
    BY <1>1 DEF Idle
<1> QED
    BY <1>1, <1>2, <1>3 DEF Reading, HasStmt, LockExplained

\* A call that starts a step adds a frame of its cursor,
LEMMA PushOK ==
    ASSUME Frames, NEW c \in Cursors, Others(c), ~Busy(c),
           NEW op \in {"execute", "row", "rest"}, Push(Frame(op, c)),
           Fits(op, c)', Reading(c)'
    PROVE  Frames'
<1>1. Frame(op, c) \in FrameRec /\ Frame(op, c).op = op /\ Frame(op, c).cur = c
    BY DEF Frame, FrameRec
<1>2. PICK f \in FrameRec : f = Frame(op, c)
    BY <1>1
<1>3. /\ stack' \in Seq(FrameRec) /\ Len(stack) \in Nat /\ Len(stack') = Len(stack) + 1
      /\ stack'[Len(stack) + 1] = f
      /\ \A i \in 1..Len(stack) : stack'[i] = stack[i]
    BY <1>2 DEF Push, Frames
<1>4. \A i \in 1..Len(stack) : stack[i] \in FrameRec /\ stack[i].cur # c
    BY DEF Frames, Busy
<1>5. StackOK'
  <2> SUFFICES ASSUME NEW i \in 1..Len(stack')
               PROVE  /\ Fits(stack[i].op, stack[i].cur)'
                      /\ \A j \in 1..Len(stack') : i # j => stack'[i].cur # stack'[j].cur
    BY DEF StackOK
  <2>1. CASE i = Len(stack')
    BY <1>1, <1>2, <1>3, <1>4, <2>1
  <2>2. CASE i # Len(stack')
    <3>1. i \in 1..Len(stack) /\ stack'[i] = stack[i]
      BY <1>3, <2>2
    <3>2. Fits(stack[i].op, stack[i].cur)'
      BY <1>4, <3>1, OtherFits DEF Frames, StackOK
    <3>3. \A j \in 1..Len(stack') : i # j => stack'[i].cur # stack'[j].cur
      BY <1>1, <1>2, <1>3, <1>4, <3>1 DEF Frames, StackOK
    <3> QED
      BY <3>1, <3>2, <3>3
  <2> QED
    BY <2>1, <2>2
<1>6. Busy(c)' /\ \A d \in Cursors \ {c} : Busy(d) => Busy(d)'
    BY <1>1, <1>2, <1>3 DEF Busy
<1> QED
    BY <1>3, <1>5, <1>6, OtherReaders DEF Frames, Idle
\* one that returns removes it,
LEMMA PopOK ==
    ASSUME Frames, stack # <<>>, NEW c \in Cursors, c = Top.cur, Others(c), Pop,
           Reading(c)', LockExplained(c)'
    PROVE  Frames'
<1>1. /\ Len(stack) \in Nat \ {0}
      /\ \A i \in 1..(Len(stack) - 1) : stack[i].cur # c
    BY TopFacts
<1>2. PICK n \in Nat : n = Len(stack) - 1
    BY <1>1
<1>3. /\ SubSeq(stack, 1, n) \in Seq(FrameRec) /\ Len(SubSeq(stack, 1, n)) = n
      /\ \A i \in 1..n : SubSeq(stack, 1, n)[i] = stack[i]
    BY <1>1, <1>2 DEF Frames
<1>4. /\ stack' \in Seq(FrameRec) /\ Len(stack') = n
      /\ \A i \in 1..n : stack'[i] = stack[i] /\ stack[i] \in FrameRec /\ i \in 1..Len(stack)
    BY <1>1, <1>2, <1>3 DEF Pop, Frames
<1>5. StackOK'
  <2> SUFFICES ASSUME NEW i \in 1..n
               PROVE  /\ Fits(stack[i].op, stack[i].cur)'
                      /\ \A j \in 1..n : i # j => stack'[i].cur # stack'[j].cur
    BY <1>4 DEF StackOK
  <2>1. /\ stack'[i] = stack[i] /\ stack[i] \in FrameRec /\ stack[i].cur # c
        /\ i \in 1..Len(stack)
    BY <1>1, <1>2, <1>4
  <2>2. Fits(stack[i].op, stack[i].cur)'
    BY <2>1, OtherFits DEF Frames, StackOK
  <2>3. \A j \in 1..n : i # j => stack'[i].cur # stack'[j].cur
    BY <1>4, <2>1 DEF Frames, StackOK
  <2> QED
    BY <2>2, <2>3
<1>6. \A d \in Cursors \ {c} : Busy(d) => Busy(d)'
  <2> SUFFICES ASSUME NEW d \in Cursors \ {c}, NEW i \in 1..Len(stack), stack[i].cur = d
               PROVE  Busy(d)'
    BY DEF Busy
  <2>1. i # Len(stack)
    BY DEF Top
  <2>2. i \in 1..n
    BY <1>1, <1>2, <2>1
  <2> QED
    BY <1>4, <2>2 DEF Busy
<1> QED
    BY <1>4, <1>5, <1>6, OtherReaders DEF Frames

\* one that goes on leaves a frame of its cursor on top,
LEMMA SwapOK ==
    ASSUME Frames, stack # <<>>, NEW c \in Cursors, c = Top.cur, Others(c),
           NEW f \in FrameRec, f.cur = c, Fits(f.op, c)', Reading(c)',
           Swap(f) \/ (UNCHANGED stack /\ f = Top)
    PROVE  Frames'
<1>1. /\ Len(stack) \in Nat \ {0} /\ stack \in Seq(FrameRec)
      /\ \A i \in 1..(Len(stack) - 1) : stack[i].cur # c
    BY TopFacts DEF Frames
<1>2. /\ stack' \in Seq(FrameRec) /\ Len(stack') = Len(stack)
      /\ stack'[Len(stack)] = f
      /\ \A i \in 1..(Len(stack) - 1) : stack'[i] = stack[i]
  <2>1. CASE Swap(f)
    BY <1>1, <2>1 DEF Swap
  <2>2. CASE UNCHANGED stack /\ f = Top
    BY <1>1, <2>2 DEF Top
  <2> QED
    BY <2>1, <2>2
<1>3. StackOK'
  <2> SUFFICES ASSUME NEW i \in 1..Len(stack)
               PROVE  /\ Fits(stack[i].op, stack[i].cur)'
                      /\ \A j \in 1..Len(stack) : i # j => stack'[i].cur # stack'[j].cur
    BY <1>2 DEF StackOK
  <2>1. CASE i = Len(stack)
    BY <1>1, <1>2, <2>1
  <2>2. CASE i # Len(stack)
    <3>1. i \in 1..(Len(stack) - 1)
      BY <1>1, <2>2
    <3>2. stack'[i] = stack[i] /\ stack[i] \in FrameRec /\ stack[i].cur # c
      BY <1>1, <1>2, <3>1
    <3>3. Fits(stack[i].op, stack[i].cur)'
      BY <3>2, OtherFits DEF Frames, StackOK
    <3>4. \A j \in 1..Len(stack) : i # j => stack'[i].cur # stack'[j].cur
      BY <1>1, <1>2, <3>2 DEF Frames, StackOK
    <3> QED
      BY <3>3, <3>4
  <2> QED
    BY <2>1, <2>2
<1>4. \A i \in 1..Len(stack) : stack'[i].cur = stack[i].cur
    BY <1>1, <1>2 DEF Top
<1>5. \A d \in Cursors : Busy(d)' <=> Busy(d)
    BY <1>2, <1>4 DEF Busy
<1>6. ~Idle(c)'
    BY <1>5, TopFacts DEF Idle
<1> QED
    BY <1>2, <1>3, <1>5, <1>6, OtherReaders DEF Frames

\* and what an idle cursor does without a step leaves the stack alone.
LEMMA IdleOK ==
    ASSUME Frames, NEW c \in Cursors, ~Busy(c), Others(c), UNCHANGED stack,
           Reading(c)', cur'[c].st = "open" => LockExplained(c)'
    PROVE  Frames'
<1>1. \A i \in 1..Len(stack) : stack[i] \in FrameRec /\ stack[i].cur # c
    BY DEF Busy, Frames
<1>2. StackOK'
  <2> SUFFICES ASSUME NEW i \in 1..Len(stack) PROVE Fits(stack[i].op, stack[i].cur)'
    BY DEF StackOK, Frames
  <2> QED
    BY <1>1, OtherFits DEF Frames, StackOK
<1>3. \A d \in Cursors : Busy(d)' <=> Busy(d)
    BY DEF Busy
<1> QED
    BY <1>2, <1>3, OtherReaders DEF Frames, Idle
\* What an idle cursor of a state satisfying the invariant looks like.
LEMMA IdleFacts ==
    ASSUME IInv, NEW c \in Cursors, Idle(c)
    PROVE  /\ Cells /\ StmtsOK /\ Frames
           /\ cur[c] \in CurRec /\ cur[c].st = "open" /\ ~Busy(c)
           /\ it[c] \in IterRec /\ read[c] \in ReadRec
           /\ Reading(c) /\ LockExplained(c)
BY Parts DEF Cells, Frames, ReadersOK, Idle

\* What the cursor of a returning step looks like.
LEMMA ReturnFacts ==
    ASSUME IInv, NEW op, Returning(op)
    PROVE  /\ Cells /\ StmtsOK /\ Frames
           /\ stack # <<>> /\ Top \in FrameRec /\ Top.op = op
           /\ Top.cur \in Cursors /\ Fits(op, Top.cur) /\ Reading(Top.cur)
           /\ cur[Top.cur] \in CurRec /\ cur[Top.cur].st = "open"
           /\ cur[Top.cur].stmt \in Stmts
           /\ it[Top.cur] \in IterRec /\ read[Top.cur] \in ReadRec
<1>1. Cells /\ StmtsOK /\ Frames
    BY Parts
<1>2. /\ stack # <<>> /\ Top \in FrameRec /\ Top.op = op /\ Fits(op, Top.cur)
    BY <1>1, TopFacts DEF Returning
<1>3. Top.cur \in Cursors
    BY <1>2 DEF FrameRec
<1> QED
    BY <1>1, <1>2, <1>3 DEF Cells, Frames, ReadersOK, Fits, HasStmt

\* The records a step writes have their types.
LEMMA RecordTypes ==
    /\ NoIter \in IterRec /\ DeadIter \in IterRec /\ [NoIter EXCEPT !.st = "new"] \in IterRec
    /\ NoIter.st = "none" /\ DeadIter.st = "dead" /\ [NoIter EXCEPT !.st = "new"].st = "new"
    /\ [NewCur EXCEPT !.st = "closed"] \in CurRec
    /\ Unread \in ReadRec /\ Unread.err = "no" /\ Unread.sql = None
    /\ \A q \in Sqls : [Unread EXCEPT !.sql = q] \in ReadRec
    /\ \A q \in Sqls, e \in {"prepare", "bind"} :
          /\ [Unread EXCEPT !.sql = q, !.err = e] \in ReadRec
          /\ [Unread EXCEPT !.sql = q, !.err = e].err = e
<1>1. NoIter \in IterRec /\ DeadIter \in IterRec /\ [NoIter EXCEPT !.st = "new"] \in IterRec
    BY ConstantsOK DEF NoIter, DeadIter, IterRec
<1>2. NoIter.st = "none" /\ DeadIter.st = "dead" /\ [NoIter EXCEPT !.st = "new"].st = "new"
    BY DEF NoIter, DeadIter
<1>3. [NewCur EXCEPT !.st = "closed"] \in CurRec
    BY ConstantsOK DEF NewCur, CurRec
<1>4. PICK empty \in Seq(RowRec) : empty = <<>>
    BY EmptySeq
<1>5. Unread = [sql |-> None, rows |-> empty, err |-> "no", ended |-> FALSE]
    BY <1>4 DEF Unread
<1>6. Unread \in ReadRec /\ Unread.err = "no" /\ Unread.sql = None
    BY <1>5 DEF ReadRec
<1>7. \A q \in Sqls : [Unread EXCEPT !.sql = q] \in ReadRec
    BY <1>5 DEF ReadRec
<1>8. \A q \in Sqls, e \in {"prepare", "bind"} :
          /\ [Unread EXCEPT !.sql = q, !.err = e] \in ReadRec
          /\ [Unread EXCEPT !.sql = q, !.err = e].err = e
    BY <1>5 DEF ReadRec
<1> QED
    BY <1>1, <1>2, <1>3, <1>6, <1>7, <1>8

-----------------------------------------------------------------------------
(* Cursor.execute *)

LEMMA ExecuteUnpreparedOK ==
    ASSUME IInv, NEW c \in Cursors, NEW q \in Given, ExecuteUnprepared(c, q)
    PROVE  IInv'
<1>. USE DEF ExecuteUnprepared
<1>1. /\ Cells /\ StmtsOK /\ Frames /\ ~Busy(c)
      /\ cur[c] \in CurRec /\ cur[c].st = "open"
    BY IdleFacts
<1>2. Others(c)
    BY <1>1 DEF Cells, Others
<1>3. Cells'
    BY <1>1, RecordTypes, ConstantsOK DEF Cells, CurRec
<1>4. NoNewHolds
    BY <1>1 DEF Cells, NoNewHolds, Holds, CurRec
<1>5. StmtsOK'
    BY <1>1, <1>4, KeepOK
<1>6. it'[c].st = "none" /\ read'[c].err = "prepare"
    BY <1>1 DEF Cells, NoIter, Unread
<1>7. Frames'
    BY <1>1, <1>2, <1>6, IdleOK DEF Reading, LockExplained
<1> QED
    BY <1>3, <1>5, <1>7, Parts

LEMMA ExecuteUnboundOK ==
    ASSUME IInv, NEW c \in Cursors, NEW q \in Given, ExecuteUnbound(c, q)
    PROVE  IInv'
<1>1. /\ Cells /\ StmtsOK /\ Frames /\ ~Busy(c)
      /\ cur[c] \in CurRec /\ cur[c].st = "open"
    BY IdleFacts DEF ExecuteUnbound
<1>2. PICK s \in Stmts :
         /\ Get(q, s)
         /\ stmt' = Dirty(q, s)
         /\ cur' = [cur EXCEPT ![c] = [@ EXCEPT !.stmt = s, !.next = Rest[q],
                                               !.exhausted = TRUE]]
    BY DEF ExecuteUnbound
<1>3. it' = [it EXCEPT ![c] = NoIter] /\ UNCHANGED stack
      /\ read' = [read EXCEPT ![c] = [Unread EXCEPT !.sql = q, !.err = "bind"]]
      /\ ~cur[c].locked
    BY DEF ExecuteUnbound
<1>4. q \in Sqls /\ Rest[q] \in Sqls \cup {None}
    BY ConstantsOK
<1>5. cur'[c] \in CurRec /\ cur'[c].st = "open" /\ cur'[c].stmt = s /\ ~cur'[c].locked
    BY <1>1, <1>2, <1>3, <1>4 DEF Cells, CurRec
<1>6. Others(c)
    BY <1>1, <1>2, <1>3 DEF Cells, Others
<1>7. Cells'
    BY <1>1, <1>2, <1>3, <1>4, <1>5, RecordTypes DEF Cells
<1>8. StmtsOK'
    BY <1>1, <1>2, <1>4, <1>5, <1>6, GetOK DEF Others
<1>9. it'[c].st = "none" /\ read'[c].err = "bind"
    BY <1>1, <1>3 DEF Cells, NoIter, Unread
<1>10. Frames'
    BY <1>1, <1>3, <1>5, <1>6, <1>9, IdleOK DEF Reading, LockExplained
<1> QED
    BY <1>7, <1>8, <1>10, Parts

LEMMA ExecuteOK ==
    ASSUME IInv, NEW c \in Cursors, NEW q \in Given, Execute(c, q)
    PROVE  IInv'
<1>1. /\ Cells /\ StmtsOK /\ Frames /\ ~Busy(c)
      /\ cur[c] \in CurRec /\ cur[c].st = "open"
    BY IdleFacts DEF Execute
<1>2. PICK s \in Stmts :
         /\ Get(q, s)
         /\ stmt' = Dirty(q, s)
         /\ cur' = [cur EXCEPT ![c] = [@ EXCEPT !.stmt = s, !.next = Rest[q],
                                               !.exhausted = TRUE, !.locked = TRUE]]
    BY DEF Execute
<1>3. it' = [it EXCEPT ![c] = NoIter] /\ Push(Frame("execute", c))
      /\ read' = [read EXCEPT ![c] = [Unread EXCEPT !.sql = q]]
    BY DEF Execute
<1>4. q \in Sqls /\ Rest[q] \in Sqls \cup {None}
    BY ConstantsOK
<1>5. cur'[c] \in CurRec /\ cur'[c].st = "open" /\ cur'[c].stmt = s
    BY <1>1, <1>2, <1>4 DEF Cells, CurRec
<1>6. Others(c)
    BY <1>1, <1>2, <1>3 DEF Cells, Others
<1>7. Cells'
    BY <1>1, <1>2, <1>3, <1>4, <1>5, RecordTypes DEF Cells
<1>8. StmtsOK'
    BY <1>1, <1>2, <1>4, <1>5, <1>6, GetOK DEF Others
<1>9. it'[c].st = "none" /\ HasStmt(c)'
    BY <1>1, <1>3, <1>5 DEF Cells, NoIter, HasStmt
<1>10. Frames'
    BY <1>1, <1>3, <1>6, <1>9, PushOK DEF Reading, Fits
<1> QED
    BY <1>7, <1>8, <1>10, Parts
LEMMA ExecuteFailedOK ==
    ASSUME IInv, ExecuteFailed
    PROVE  IInv'
<1>. DEFINE c == Top.cur  s == cur[c].stmt
<1>1. /\ Cells /\ StmtsOK /\ Frames /\ stack # <<>> /\ c \in Cursors
      /\ cur[c] \in CurRec /\ s \in Stmts /\ read[c] \in ReadRec
      /\ it[c].st = "none"
    BY ReturnFacts DEF ExecuteFailed, Fits
<1>2. /\ stmt' = Dropped(s) /\ cur' = [cur EXCEPT ![c] = [@ EXCEPT !.locked = FALSE]]
      /\ read' = [read EXCEPT ![c] = [@ EXCEPT !.err = "step"]]
      /\ Pop /\ UNCHANGED <<cache, it>>
    BY DEF ExecuteFailed, Raised
<1>. HIDE DEF c, s
<1>3. cur'[c] \in CurRec /\ cur'[c].st = cur[c].st /\ cur'[c].stmt = cur[c].stmt /\ ~cur'[c].locked
    BY <1>1, <1>2 DEF Cells, CurRec
<1>4. read'[c] \in ReadRec /\ read'[c].err = "step"
    BY <1>1, <1>2 DEF Cells, ReadRec
<1>5. Others(c)
    BY <1>1, <1>2 DEF Cells, Others
<1>6. Cells'
    BY <1>1, <1>2, <1>3, <1>4 DEF Cells
<1>7. NoNewHolds
    BY <1>3, <1>5 DEF NoNewHolds, Holds, Others
<1>8. StmtsOK'
    BY <1>1, <1>2, <1>7, DropOK
<1>9. Frames'
    BY <1>1, <1>2, <1>3, <1>4, <1>5, PopOK DEF Reading, LockExplained, c
<1> QED
    BY <1>6, <1>8, <1>9, Parts

LEMMA ExecuteRowOK ==
    ASSUME IInv, ExecuteRow
    PROVE  IInv'
<1>. DEFINE c == Top.cur  s == cur[c].stmt
<1>1. /\ Cells /\ StmtsOK /\ Frames /\ stack # <<>> /\ c \in Cursors
      /\ cur[c] \in CurRec /\ s \in Stmts /\ HasStmt(c)
      /\ it[c].st = "none"
    BY ReturnFacts DEF ExecuteRow, Fits
<1>2. /\ stmt' = Stepped(s, "row") /\ "row" \in StepOutcomes(s)
      /\ cur' = [cur EXCEPT ![c] = [@ EXCEPT !.exhausted = FALSE, !.locked = FALSE]]
      /\ Pop /\ UNCHANGED <<cache, it, read>>
    BY DEF ExecuteRow
<1>. HIDE DEF c, s
<1>3. cur'[c] \in CurRec /\ cur'[c].st = cur[c].st /\ cur'[c].stmt = cur[c].stmt /\ ~cur'[c].locked
    BY <1>1, <1>2 DEF Cells, CurRec
<1>4. Others(c)
    BY <1>1, <1>2 DEF Cells, Others
<1>5. Cells'
    BY <1>1, <1>2, <1>3 DEF Cells
<1>6. NoNewHolds
    BY <1>3, <1>4 DEF NoNewHolds, Holds, Others
<1>7. StmtsOK'
    BY <1>1, <1>2, <1>6, StepOK
<1>8. Frames'
    BY <1>1, <1>2, <1>3, <1>4, PopOK DEF Reading, HasStmt, LockExplained, c
<1> QED
    BY <1>5, <1>7, <1>8, Parts

LEMMA ExecuteDoneOK ==
    ASSUME IInv, ExecuteDone
    PROVE  IInv'
<1>. DEFINE c == Top.cur  s == cur[c].stmt
<1>1. /\ Cells /\ StmtsOK /\ Frames /\ stack # <<>> /\ c \in Cursors
      /\ cur[c] \in CurRec /\ s \in Stmts /\ HasStmt(c)
      /\ it[c].st = "none"
    BY ReturnFacts DEF ExecuteDone, Fits
<1>2. /\ stmt' = Stepped(s, "done") /\ "done" \in StepOutcomes(s)
      /\ cur' = [cur EXCEPT ![c] = [@ EXCEPT !.locked = FALSE]]
      /\ Pop /\ UNCHANGED <<cache, it, read>>
    BY DEF ExecuteDone
<1>. HIDE DEF c, s
<1>3. cur'[c] \in CurRec /\ cur'[c].st = cur[c].st /\ cur'[c].stmt = cur[c].stmt /\ ~cur'[c].locked
    BY <1>1, <1>2 DEF Cells, CurRec
<1>4. Others(c)
    BY <1>1, <1>2 DEF Cells, Others
<1>5. Cells'
    BY <1>1, <1>2, <1>3 DEF Cells
<1>6. NoNewHolds
    BY <1>3, <1>4 DEF NoNewHolds, Holds, Others
<1>7. StmtsOK'
    BY <1>1, <1>2, <1>6, StepOK
<1>8. Frames'
    BY <1>1, <1>2, <1>3, <1>4, PopOK DEF Reading, HasStmt, LockExplained, c
<1> QED
    BY <1>5, <1>7, <1>8, Parts

\* The next statement of a script takes the place of the one before.
LEMMA NextStatementOK ==
    ASSUME Cells, StmtsOK, NEW c \in Cursors, cur[c].st = "open",
           cur[c].next # None, NextStatement(c)
    PROVE  /\ StmtsOK'
           /\ cur' \in [Cursors -> CurRec] /\ HasStmt(c)'
           /\ cur'[c].locked = cur[c].locked
           /\ \A d \in Cursors \ {c} : cur'[d] = cur[d]
<1>1. cur \in [Cursors -> CurRec] /\ cur[c] \in CurRec
    BY DEF Cells
<1>2. PICK q \in Sqls : q = cur[c].next
    BY <1>1 DEF CurRec
<1>3. PICK s \in Stmts :
         Get(q, s) /\ stmt' = Dirty(q, s)
         /\ cur' = [cur EXCEPT ![c] = [@ EXCEPT !.stmt = s, !.next = Rest[q]]]
    BY <1>2 DEF NextStatement
<1>4. Rest[q] \in Sqls \cup {None}
    BY <1>2, ConstantsOK
<1>5. /\ cur'[c] \in CurRec /\ cur'[c].st = "open" /\ cur'[c].stmt = s
      /\ cur'[c].locked = cur[c].locked
    BY <1>1, <1>3, <1>4 DEF CurRec
<1>6. cur' \in [Cursors -> CurRec] /\ \A d \in Cursors \ {c} : cur'[d] = cur[d]
    BY <1>1, <1>3, <1>5
<1>7. StmtsOK'
    BY <1>3, <1>5, <1>6, GetOK
<1> QED
    BY <1>5, <1>6, <1>7 DEF HasStmt

LEMMA ExecuteNextOK ==
    ASSUME IInv, ExecuteNext
    PROVE  IInv'
<1>0. PICK c \in Cursors : c = Top.cur
    BY ReturnFacts DEF ExecuteNext
<1>1. /\ Cells /\ StmtsOK /\ Frames /\ stack # <<>>
      /\ cur[c].st = "open" /\ Top \in FrameRec /\ Top.op = "execute" /\ it[c].st = "none"
    BY <1>0, ReturnFacts DEF ExecuteNext, Fits
<1>2. cur[c].next # None /\ NextStatement(c) /\ UNCHANGED <<it, stack, read>>
    BY <1>0, Zenon DEF ExecuteNext
<1>3. /\ StmtsOK' /\ cur' \in [Cursors -> CurRec] /\ HasStmt(c)'
      /\ \A d \in Cursors \ {c} : cur'[d] = cur[d]
    BY <1>1, <1>2, NextStatementOK
<1>4. Others(c) /\ Cells'
    BY <1>1, <1>2, <1>3 DEF Cells, Others
<1>5. Frames'
    BY <1>0, <1>1, <1>2, <1>3, <1>4, SwapOK DEF Reading, Fits
<1> QED
    BY <1>3, <1>4, <1>5, Parts
LEMMA ExecuteNextFailedOK ==
    ASSUME IInv, ExecuteNextFailed
    PROVE  IInv'
<1>0. PICK c \in Cursors : c = Top.cur
    BY ReturnFacts DEF ExecuteNextFailed
<1>1. /\ Cells /\ StmtsOK /\ Frames /\ stack # <<>>
      /\ cur[c] \in CurRec /\ cur[c].st = "open" /\ HasStmt(c) /\ it[c].st = "none"
      /\ read[c] \in ReadRec
    BY <1>0, ReturnFacts DEF ExecuteNextFailed, Fits
<1>2. /\ cur[c].next # None /\ Pop /\ UNCHANGED it
      /\ read' = [read EXCEPT ![c] = [@ EXCEPT !.err = "step"]]
    BY <1>0 DEF ExecuteNextFailed, Raised
<1>3. read'[c] \in ReadRec /\ read'[c].err = "step"
    BY <1>1, <1>2 DEF Cells, ReadRec
<1>4. /\ StmtsOK' /\ cur' \in [Cursors -> CurRec] /\ ~cur'[c].locked
      /\ \A d \in Cursors \ {c} : cur'[d] = cur[d]
  <2>1. CASE cur' = [cur EXCEPT ![c].locked = FALSE] /\ UNCHANGED <<cache, stmt>>
    <3>1. /\ cur'[c] \in CurRec /\ ~cur'[c].locked
          /\ cur'[c].st = cur[c].st /\ cur'[c].stmt = cur[c].stmt
      BY <1>1, <2>1 DEF Cells, CurRec
    <3>2. cur' \in [Cursors -> CurRec] /\ \A d \in Cursors \ {c} : cur'[d] = cur[d]
      BY <1>1, <2>1, <3>1 DEF Cells
    <3>3. NoNewHolds
      BY <3>1, <3>2 DEF NoNewHolds, Holds
    <3> QED
      BY <1>1, <2>1, <3>1, <3>2, <3>3, KeepOK
  <2>2. CASE \E r \in Stmts :
               /\ Get(cur[c].next, r)
               /\ stmt' = Dirty(cur[c].next, r)
               /\ cur' = [cur EXCEPT ![c].stmt = r, ![c].next = Rest[cur[c].next],
                                     ![c].locked = FALSE]
    <3>1. PICK q \in Sqls : q = cur[c].next
      BY <1>1, <1>2 DEF CurRec
    <3>2. PICK r \in Stmts :
             /\ Get(q, r) /\ stmt' = Dirty(q, r)
             /\ cur' = [cur EXCEPT ![c].stmt = r, ![c].next = Rest[q], ![c].locked = FALSE]
      BY <2>2, <3>1
    <3>3. Rest[q] \in Sqls \cup {None}
      BY ConstantsOK
    <3>4. cur'[c] \in CurRec /\ ~cur'[c].locked /\ cur'[c].st = "open" /\ cur'[c].stmt = r
      BY <1>1, <3>2, <3>3 DEF Cells, CurRec
    <3>5. cur' \in [Cursors -> CurRec] /\ \A d \in Cursors \ {c} : cur'[d] = cur[d]
      BY <1>1, <3>2, <3>4 DEF Cells
    <3> QED
      BY <1>1, <3>2, <3>4, <3>5, GetOK
  <2> QED
    BY <1>0, <2>1, <2>2, Zenon DEF ExecuteNextFailed
<1>5. Others(c) /\ Cells'
    BY <1>1, <1>2, <1>3, <1>4 DEF Cells, Others
<1>6. Frames'
    BY <1>0, <1>1, <1>2, <1>3, <1>4, <1>5, PopOK DEF Reading, LockExplained
<1> QED
    BY <1>4, <1>5, <1>6, Parts

-----------------------------------------------------------------------------
(* Cursor.__iter__ *)

LEMMA StartIterOK ==
    ASSUME IInv, NEW c \in Cursors, StartIter(c)
    PROVE  IInv'
<1>1. /\ Cells /\ StmtsOK /\ Frames /\ ~Busy(c) /\ cur[c].st = "open"
      /\ HasStmt(c) /\ ~cur[c].locked
    BY IdleFacts DEF StartIter, Reading, LockExplained
<1>2. /\ it' = [it EXCEPT ![c] = [NoIter EXCEPT !.st = "new"]]
      /\ UNCHANGED <<cache, stmt, cur, stack, read>>
    BY DEF StartIter
<1>3. it'[c].st = "new" /\ Others(c) /\ Cells'
    BY <1>1, <1>2, RecordTypes DEF Cells, Others
<1>4. StmtsOK'
    BY <1>1, <1>2, KeepOK DEF NoNewHolds, Holds
<1>5. Frames'
    BY <1>1, <1>2, <1>3, IdleOK DEF Reading, HasStmt, LockExplained
<1> QED
    BY <1>3, <1>4, <1>5, Parts

\* The generator takes the row its statement is on and steps the statement.
LEMMA TakeOK ==
    ASSUME IInv, NEW c \in Cursors, Idle(c), HasStmt(c), ~cur[c].locked,
           NEW s, s = cur[c].stmt, Take(c, s, stmt[s].pos), Push(Frame("row", c)),
           UNCHANGED <<cache, stmt, cur, read>>
    PROVE  IInv'
<1>1. Cells /\ StmtsOK /\ Frames /\ ~Busy(c) /\ cur[c].st = "open" /\ s \in Stmts
    BY IdleFacts DEF HasStmt
<1>2. stmt[s].pos \in Nat
    BY <1>1 DEF StmtsOK, StmtTypes, StmtRec
<1>3. PICK n \in Nat : n = stmt[s].pos
    BY <1>2
<1>4. it' = [it EXCEPT ![c] = [st |-> "mid", stmt |-> s, ret |-> "row", row |-> n]]
    BY <1>3 DEF Take
<1>5. it'[c].st = "mid" /\ it'[c].stmt = s /\ it'[c].ret = "row" /\ it'[c] \in IterRec
    BY <1>1, <1>4 DEF Cells, IterRec
<1>6. Others(c) /\ Cells'
    BY <1>1, <1>4, <1>5 DEF Cells, Others
<1>7. StmtsOK'
    BY <1>1, KeepOK DEF NoNewHolds, Holds
<1>8. HasStmt(c)' /\ Fits("row", c)'
    BY <1>5 DEF HasStmt, Fits
<1>9. Frames'
    BY <1>1, <1>5, <1>6, <1>8, PushOK DEF Reading
<1> QED
    BY <1>6, <1>7, <1>9, Parts

LEMMA BeginRowsOK ==
    ASSUME IInv, NEW c \in Cursors, BeginRows(c)
    PROVE  IInv'
<1>1. Idle(c) /\ HasStmt(c) /\ ~cur[c].locked
    BY IdleFacts DEF BeginRows, Reading
<1> QED
    BY <1>1, TakeOK DEF BeginRows

LEMMA NextRowOK ==
    ASSUME IInv, NEW c \in Cursors, NextRow(c)
    PROVE  IInv'
<1>1. Idle(c) /\ HasStmt(c) /\ ~cur[c].locked /\ it[c].stmt = cur[c].stmt
    BY IdleFacts DEF NextRow, Reading
<1> QED
    BY <1>1, TakeOK DEF NextRow

\* The iteration of an idle cursor ends.
LEMMA EndOK ==
    ASSUME IInv, NEW c \in Cursors, Idle(c), StopIteration(c),
           NEW e \in BOOLEAN,
           cur' = [cur EXCEPT ![c] = [@ EXCEPT !.exhausted = e, !.locked = FALSE]],
           UNCHANGED <<cache, stmt, stack>>
    PROVE  IInv'
<1>1. /\ Cells /\ StmtsOK /\ Frames /\ ~Busy(c) /\ Reading(c)
      /\ cur[c] \in CurRec /\ read[c] \in ReadRec
    BY IdleFacts
<1>2. /\ it' = [it EXCEPT ![c] = DeadIter]
      /\ read' = [read EXCEPT ![c] = [@ EXCEPT !.ended = TRUE]]
    BY DEF StopIteration
<1>3. /\ cur'[c] \in CurRec /\ ~cur'[c].locked
      /\ cur'[c].st = cur[c].st /\ cur'[c].stmt = cur[c].stmt
    BY <1>1 DEF Cells, CurRec
<1>4. read'[c] \in ReadRec /\ read'[c].sql = read[c].sql /\ read'[c].err = read[c].err
    BY <1>1, <1>2 DEF Cells, ReadRec
<1>5. it'[c].st = "dead" /\ Others(c) /\ Cells'
    BY <1>1, <1>2, <1>3, <1>4, RecordTypes DEF Cells, Others
<1>6. NoNewHolds
    BY <1>3, <1>5 DEF NoNewHolds, Holds, Others
<1>7. StmtsOK'
    BY <1>1, <1>6, KeepOK
<1>8. Frames'
    BY <1>1, <1>3, <1>4, <1>5, IdleOK DEF Reading, HasStmt, LockExplained
<1> QED
    BY <1>5, <1>7, <1>8, Parts

LEMMA NoRowsOK ==
    ASSUME IInv, NEW c \in Cursors, NoRows(c)
    PROVE  IInv'
<1>1. cur[c] \in CurRec /\ cur \in [Cursors -> CurRec]
    BY IdleFacts DEF NoRows, Cells
<1>2. cur' = [cur EXCEPT ![c] = [@ EXCEPT !.exhausted = TRUE, !.locked = FALSE]]
    BY <1>1 DEF NoRows, CurRec
<1> QED
    BY <1>2, EndOK DEF NoRows

LEMMA LastRowOK ==
    ASSUME IInv, NEW c \in Cursors, LastRow(c)
    PROVE  IInv'
<1>1. cur' = [cur EXCEPT ![c] = [@ EXCEPT !.exhausted = TRUE, !.locked = FALSE]]
    BY DEF LastRow
<1> QED
    BY <1>1, EndOK DEF LastRow
LEMMA RowReturnOK ==
    ASSUME IInv, RowReturn
    PROVE  IInv'
<1>0. PICK c \in Cursors : c = Top.cur
    BY ReturnFacts DEF RowReturn
<1>1. /\ Cells /\ StmtsOK /\ Frames /\ stack # <<>>
      /\ HasStmt(c) /\ it[c] \in IterRec /\ read[c] \in ReadRec
      /\ it[c].st = "mid" /\ it[c].ret = "row" /\ Reading(c)
    BY <1>0, ReturnFacts DEF RowReturn, Fits
<1>2. PICK s \in Stmts : s = it[c].stmt /\ s = cur[c].stmt /\ ~cur[c].locked
    BY <1>1 DEF Reading
<1>3. PICK o \in StepOutcomes(s) :
         stmt' = Stepped(s, o) /\ it' = [it EXCEPT ![c] = [@ EXCEPT !.ret = o]]
    BY <1>0, <1>2 DEF RowReturn
<1>4. stmt[s] \in StmtRec
    BY <1>1 DEF StmtsOK, StmtTypes
<1>5. PICK row \in RowRec : row = [sql |-> stmt[s].sql, row |-> it[c].row]
    BY <1>1, <1>4 DEF StmtRec, IterRec, RowRec
<1>6. PICK rows \in Seq(RowRec) :
         read' = [read EXCEPT ![c] = [@ EXCEPT !.rows = rows]]
  <2>1. read' = [read EXCEPT ![c].rows =
                    IF Untroubled(c) THEN Append(read[c].rows, row) ELSE <<>>]
    BY <1>0, <1>2, <1>5 DEF RowReturn
  <2>2. Append(read[c].rows, row) \in Seq(RowRec) /\ <<>> \in Seq(RowRec)
    BY <1>1 DEF ReadRec
  <2>3. (IF Untroubled(c) THEN Append(read[c].rows, row) ELSE <<>>) \in Seq(RowRec)
    BY <2>2
  <2> QED
    BY <2>1, <2>3
<1>7. Pop /\ UNCHANGED <<cache, cur>>
    BY DEF RowReturn
<1>8. it'[c] \in IterRec /\ it'[c].st = "mid" /\ it'[c].stmt = s
  <2>1. o \in {"row", "done", "step"}
    BY DEF StepOutcomes
  <2> QED
    BY <1>1, <1>2, <1>3, <2>1 DEF Cells, IterRec
<1>9. read'[c] \in ReadRec /\ read'[c].sql = read[c].sql /\ read'[c].err = read[c].err
    BY <1>1, <1>6 DEF Cells, ReadRec
<1>10. Others(c) /\ Cells'
    BY <1>1, <1>3, <1>6, <1>7, <1>8, <1>9 DEF Cells, Others
<1>11. StmtsOK'
    BY <1>1, <1>3, <1>7, StepOK DEF NoNewHolds, Holds
<1>12. Frames'
    BY <1>0, <1>1, <1>2, <1>7, <1>8, <1>9, <1>10, PopOK DEF Reading, HasStmt, LockExplained
<1> QED
    BY <1>10, <1>11, <1>12, Parts

LEMMA RowFailedOK ==
    ASSUME IInv, NEW c \in Cursors, RowFailed(c)
    PROVE  IInv'
<1>1. /\ Cells /\ StmtsOK /\ Frames /\ ~Busy(c) /\ cur[c].st = "open"
      /\ read[c] \in ReadRec /\ cur[c].stmt \in Stmts /\ ~cur[c].locked
    BY IdleFacts DEF RowFailed, Reading, HasStmt
<1>2. /\ stmt' = Dropped(cur[c].stmt)
      /\ it' = [it EXCEPT ![c] = DeadIter]
      /\ read' = [read EXCEPT ![c] = [@ EXCEPT !.err = "step"]]
      /\ UNCHANGED <<cache, cur, stack>>
    BY DEF RowFailed, Raised
<1>3. read'[c] \in ReadRec /\ read'[c].err = "step"
    BY <1>1, <1>2 DEF Cells, ReadRec
<1>4. it'[c].st = "dead" /\ Others(c) /\ Cells'
    BY <1>1, <1>2, <1>3, RecordTypes DEF Cells, Others
<1>5. StmtsOK'
    BY <1>1, <1>2, DropOK DEF NoNewHolds, Holds
<1>6. Frames'
    BY <1>1, <1>2, <1>3, <1>4, IdleOK DEF Reading, LockExplained
<1> QED
    BY <1>4, <1>5, <1>6, Parts

LEMMA RestBeginOK ==
    ASSUME IInv, NEW c \in Cursors, RestBegin(c)
    PROVE  IInv'
<1>1. /\ Cells /\ StmtsOK /\ Frames /\ ~Busy(c) /\ cur[c].st = "open"
      /\ Reading(c) /\ it[c].st = "mid" /\ it[c].ret = "done"
    BY IdleFacts DEF RestBegin
<1>2. cur[c].next # None /\ NextStatement(c) /\ Push(Frame("rest", c)) /\ UNCHANGED <<it, read>>
    BY DEF RestBegin
<1>3. /\ StmtsOK' /\ cur' \in [Cursors -> CurRec] /\ HasStmt(c)'
      /\ cur'[c].locked = cur[c].locked
      /\ \A d \in Cursors \ {c} : cur'[d] = cur[d]
    BY <1>1, <1>2, NextStatementOK
<1>4. Others(c) /\ Cells'
    BY <1>1, <1>2, <1>3 DEF Cells, Others
<1>5. Reading(c)' /\ Fits("rest", c)'
    BY <1>1, <1>2, <1>3 DEF Reading, Fits
<1>6. Frames'
    BY <1>1, <1>2, <1>4, <1>5, PushOK
<1> QED
    BY <1>3, <1>4, <1>6, Parts

LEMMA RestFailedOK ==
    ASSUME IInv, NEW c \in Cursors, RestFailed(c)
    PROVE  IInv'
<1>1. /\ Cells /\ StmtsOK /\ Frames /\ ~Busy(c) /\ cur[c].st = "open"
      /\ read[c] \in ReadRec /\ ~cur[c].locked /\ cur[c].next # None
    BY IdleFacts DEF RestFailed, Reading
<1>2. /\ it' = [it EXCEPT ![c] = DeadIter]
      /\ read' = [read EXCEPT ![c] = [@ EXCEPT !.err = "step"]]
      /\ UNCHANGED stack
    BY DEF RestFailed, Raised
<1>3. /\ StmtsOK' /\ cur' \in [Cursors -> CurRec] /\ ~cur'[c].locked
      /\ \A d \in Cursors \ {c} : cur'[d] = cur[d]
  <2>1. CASE UNCHANGED <<cache, stmt, cur>>
    BY <1>1, <2>1, KeepOK DEF NoNewHolds, Holds, Cells
  <2>2. CASE NextStatement(c)
    BY <1>1, <2>2, NextStatementOK
  <2> QED
    BY <2>1, <2>2, Zenon DEF RestFailed
<1>4. read'[c] \in ReadRec /\ read'[c].err = "step"
    BY <1>1, <1>2 DEF Cells, ReadRec
<1>5. it'[c].st = "dead" /\ Others(c) /\ Cells'
    BY <1>1, <1>2, <1>3, <1>4, RecordTypes DEF Cells, Others
<1>6. Frames'
    BY <1>1, <1>2, <1>3, <1>4, <1>5, IdleOK DEF Reading, LockExplained
<1> QED
    BY <1>3, <1>5, <1>6, Parts

LEMMA RestRowOK ==
    ASSUME IInv, RestRow
    PROVE  IInv'
<1>0. PICK c \in Cursors : c = Top.cur
    BY ReturnFacts DEF RestRow
<1>1. /\ Cells /\ StmtsOK /\ Frames /\ stack # <<>> /\ HasStmt(c)
      /\ read[c] \in ReadRec /\ it[c].st = "mid" /\ Reading(c) /\ ~cur[c].locked
    BY <1>0, ReturnFacts DEF RestRow, Fits, Reading
<1>2. PICK s \in Stmts : s = cur[c].stmt
    BY <1>1 DEF HasStmt
<1>3. PICK o \in StepOutcomes(s) \ {"done"} :
         /\ stmt' = Stepped(s, o)
         /\ Take(c, s, PosAfter(s, o))
         /\ IF o = "step" THEN Raised(c, "step") ELSE UNCHANGED read
    BY <1>0, <1>2, Zenon DEF RestRow
<1>4. Swap(Frame("row", c)) /\ UNCHANGED <<cache, cur>>
    BY <1>0 DEF RestRow
<1>5. PICK n \in Nat : n = PosAfter(s, o)
    BY <1>1 DEF StmtsOK, StmtTypes, StmtRec, PosAfter
<1>6. it' = [it EXCEPT ![c] = [st |-> "mid", stmt |-> s, ret |-> "row", row |-> n]]
    BY <1>3, <1>5 DEF Take
<1>7. it'[c].st = "mid" /\ it'[c].stmt = s /\ it'[c].ret = "row" /\ it'[c] \in IterRec
    BY <1>1, <1>6 DEF Cells, IterRec
<1>8. /\ read' \in [Cursors -> ReadRec] /\ read'[c].err \in {"step", read[c].err}
      /\ read'[c].sql = read[c].sql /\ \A d \in Cursors \ {c} : read'[d] = read[d]
  <2>1. CASE UNCHANGED read
    BY <1>1, <2>1 DEF Cells
  <2>2. CASE read' = [read EXCEPT ![c] = [@ EXCEPT !.err = "step"]]
    BY <1>1, <2>2 DEF Cells, ReadRec
  <2> QED
    BY <1>3, <2>1, <2>2 DEF Raised
<1>9. Others(c) /\ Cells'
    BY <1>1, <1>4, <1>6, <1>7, <1>8 DEF Cells, Others
<1>10. StmtsOK'
    BY <1>1, <1>3, <1>4, StepOK DEF NoNewHolds, Holds
<1>11. Reading(c)' /\ Fits("row", c)'
    BY <1>1, <1>2, <1>4, <1>7 DEF Reading, Fits, HasStmt
<1>12. PICK f \in FrameRec : f = Frame("row", c) /\ f.op = "row" /\ f.cur = c
  <2>1. Frame("row", c) \in FrameRec /\ Frame("row", c).op = "row" /\ Frame("row", c).cur = c
    BY DEF Frame, FrameRec
  <2> QED
    BY <2>1
<1>13. Frames'
    BY <1>0, <1>1, <1>4, <1>9, <1>11, <1>12, SwapOK
<1> QED
    BY <1>9, <1>10, <1>13, Parts

LEMMA RestNextOK ==
    ASSUME IInv, RestNext
    PROVE  IInv'
<1>0. PICK c \in Cursors : c = Top.cur
    BY ReturnFacts DEF RestNext
<1>1. /\ Cells /\ StmtsOK /\ Frames /\ stack # <<>> /\ cur[c].st = "open"
      /\ Top \in FrameRec /\ Top.op = "rest" /\ Reading(c)
      /\ it[c].st = "mid" /\ it[c].ret = "done"
    BY <1>0, ReturnFacts DEF RestNext, Fits
<1>2. cur[c].next # None /\ NextStatement(c) /\ UNCHANGED <<it, stack, read>>
    BY <1>0, Zenon DEF RestNext
<1>3. /\ StmtsOK' /\ cur' \in [Cursors -> CurRec] /\ HasStmt(c)'
      /\ cur'[c].locked = cur[c].locked
      /\ \A d \in Cursors \ {c} : cur'[d] = cur[d]
    BY <1>1, <1>2, NextStatementOK
<1>4. Others(c) /\ Cells'
    BY <1>1, <1>2, <1>3 DEF Cells, Others
<1>5. Reading(c)' /\ Fits("rest", c)'
    BY <1>1, <1>2, <1>3 DEF Reading, Fits
<1>6. Frames'
    BY <1>0, <1>1, <1>2, <1>4, <1>5, SwapOK
<1> QED
    BY <1>3, <1>4, <1>6, Parts

LEMMA RestNextFailedOK ==
    ASSUME IInv, RestNextFailed
    PROVE  IInv'
<1>0. PICK c \in Cursors : c = Top.cur
    BY ReturnFacts DEF RestNextFailed
<1>1. /\ Cells /\ StmtsOK /\ Frames /\ stack # <<>> /\ cur[c].st = "open"
      /\ read[c] \in ReadRec /\ it[c].st = "mid" /\ Reading(c) /\ ~cur[c].locked
    BY <1>0, ReturnFacts DEF RestNextFailed, Fits, Reading
<1>2. /\ cur[c].next # None /\ Pop
      /\ it' = [it EXCEPT ![c] = DeadIter]
      /\ read' = [read EXCEPT ![c] = [@ EXCEPT !.err = "step"]]
    BY <1>0 DEF RestNextFailed, Raised
<1>3. /\ StmtsOK' /\ cur' \in [Cursors -> CurRec] /\ ~cur'[c].locked
      /\ \A d \in Cursors \ {c} : cur'[d] = cur[d]
  <2>1. CASE UNCHANGED <<cache, stmt, cur>>
    BY <1>1, <2>1, KeepOK DEF NoNewHolds, Holds, Cells
  <2>2. CASE NextStatement(c)
    BY <1>1, <1>2, <2>2, NextStatementOK
  <2> QED
    BY <1>0, <2>1, <2>2, Zenon DEF RestNextFailed
<1>4. read'[c] \in ReadRec /\ read'[c].err = "step"
    BY <1>1, <1>2 DEF Cells, ReadRec
<1>5. it'[c].st = "dead" /\ Others(c) /\ Cells'
    BY <1>1, <1>2, <1>3, <1>4, RecordTypes DEF Cells, Others
<1>6. Frames'
    BY <1>0, <1>1, <1>2, <1>3, <1>4, <1>5, PopOK DEF Reading, LockExplained
<1> QED
    BY <1>3, <1>5, <1>6, Parts

LEMMA RestDoneOK ==
    ASSUME IInv, RestDone
    PROVE  IInv'
<1>0. PICK c \in Cursors : c = Top.cur
    BY ReturnFacts DEF RestDone
<1>1. /\ Cells /\ StmtsOK /\ Frames /\ stack # <<>> /\ HasStmt(c) /\ Reading(c)
      /\ cur[c] \in CurRec /\ read[c] \in ReadRec
    BY <1>0, ReturnFacts DEF RestDone, Fits
<1>2. PICK s \in Stmts : s = cur[c].stmt
    BY <1>1 DEF HasStmt
<1>3. /\ "done" \in StepOutcomes(s) /\ stmt' = Stepped(s, "done")
      /\ cur' = [cur EXCEPT ![c] = [@ EXCEPT !.locked = FALSE]]
      /\ it' = [it EXCEPT ![c] = DeadIter]
      /\ read' = [read EXCEPT ![c] = [@ EXCEPT !.ended = TRUE]]
      /\ Pop /\ UNCHANGED cache
    BY <1>0, <1>2 DEF RestDone, StopIteration
<1>4. /\ cur'[c] \in CurRec /\ ~cur'[c].locked
      /\ cur'[c].st = cur[c].st /\ cur'[c].stmt = cur[c].stmt
    BY <1>1, <1>3 DEF Cells, CurRec
<1>5. read'[c] \in ReadRec /\ read'[c].sql = read[c].sql /\ read'[c].err = read[c].err
    BY <1>1, <1>3 DEF Cells, ReadRec
<1>6. it'[c].st = "dead" /\ Others(c) /\ Cells'
    BY <1>1, <1>3, <1>4, <1>5, RecordTypes DEF Cells, Others
<1>7. NoNewHolds
    BY <1>4, <1>6 DEF NoNewHolds, Holds, Others
<1>8. StmtsOK'
    BY <1>1, <1>3, <1>7, StepOK
<1>9. Frames'
    BY <1>0, <1>1, <1>3, <1>4, <1>5, <1>6, PopOK DEF Reading, HasStmt, LockExplained
<1> QED
    BY <1>6, <1>8, <1>9, Parts

-----------------------------------------------------------------------------
(* The end of a cursor *)

\* A cursor that is closed or forgotten holds nothing any more.
LEMMA GoneOK ==
    ASSUME IInv, NEW c \in Cursors, Idle(c), UNCHANGED stack,
           cur' = [cur EXCEPT ![c] = [NewCur EXCEPT !.st = "closed"]],
           it' = [it EXCEPT ![c] = NoIter], read' = [read EXCEPT ![c] = Unread]
    PROVE  /\ Cells' /\ Frames' /\ NoNewHolds
           /\ \A s \in Stmts : ~Holds(c, s)' /\ \A d \in Cursors \ {c} : Holds(d, s)' = Holds(d, s)
<1>1. Cells /\ StmtsOK /\ Frames /\ ~Busy(c)
    BY IdleFacts
<1>2. cur'[c].st = "closed" /\ it'[c].st = "none" /\ read'[c].sql = None
    BY <1>1, RecordTypes DEF Cells, NewCur
<1>3. Others(c) /\ Cells'
    BY <1>1, RecordTypes DEF Cells, Others
<1>4. Frames'
    BY <1>1, <1>2, <1>3, IdleOK DEF Reading
<1> QED
    BY <1>2, <1>3, <1>4 DEF NoNewHolds, Holds, Others

LEMMA ForgetOK ==
    ASSUME IInv, NEW c \in Cursors, Forget(c)
    PROVE  IInv'
<1>1. Cells' /\ Frames' /\ NoNewHolds
    BY GoneOK DEF Forget
<1>2. StmtsOK'
    BY <1>1, KeepOK, Parts DEF Forget
<1> QED
    BY <1>1, <1>2, Parts

LEMMA CloseOK ==
    ASSUME IInv, NEW c \in Cursors, Close(c)
    PROVE  IInv'
<1>1. /\ Cells' /\ Frames' /\ NoNewHolds
      /\ \A s \in Stmts : ~Holds(c, s)' /\ \A d \in Cursors \ {c} : Holds(d, s)' = Holds(d, s)
    BY GoneOK DEF Close
<1>2. StmtsOK /\ cur[c] \in CurRec /\ cur[c].st = "open" /\ UNCHANGED cache
    BY IdleFacts DEF Close
<1>3. StmtsOK'
  <2>1. CASE cur[c].stmt = None
    BY <1>1, <1>2, <2>1, KeepOK DEF Close
  <2>2. CASE cur[c].stmt # None
    <3>1. PICK s \in Stmts : s = cur[c].stmt
      BY <1>2, <2>2 DEF CurRec
    <3>2. stmt' = [stmt EXCEPT ![s].pos = 0, ![s].use = FALSE]
      BY <2>2, <3>1 DEF Close
    <3>3. stmt \in [Stmts -> StmtRec] /\ stmt[s] \in StmtRec
      BY <1>2 DEF StmtsOK, StmtTypes
    <3>. DEFINE r == [stmt[s] EXCEPT !.pos = 0, !.use = FALSE]
    <3>4. r \in StmtRec /\ r.st = stmt[s].st /\ r.sql = stmt[s].sql /\ r.failed = stmt[s].failed
      BY <3>3 DEF StmtRec
    <3>5. stmt' = [stmt EXCEPT ![s] = r]
      BY <3>2, <3>3
    <3>. HIDE DEF r
    <3>6. r.failed \/ \A d \in Cursors : ~Holds(d, s)'
      <4>1. Holds(c, s)
        BY <1>2, <3>1 DEF Holds
      <4>2. ~stmt[s].failed => \A d \in Cursors \ {c} : ~Holds(d, s)
        BY <1>2, <4>1 DEF StmtsOK, StatementPrivate
      <4> QED
        BY <1>1, <3>4, <4>2
    <3> QED
      BY <1>1, <1>2, <3>4, <3>5, <3>6, TouchOK
  <2> QED
    BY <2>1, <2>2
<1> QED
    BY <1>1, <1>3, Parts

LEMMA CollectOK ==
    ASSUME IInv, NEW s \in Stmts, Collect(s)
    PROVE  IInv'
<1>1. Cells /\ StmtsOK /\ Frames
    BY Parts
<1>2. UNCHANGED <<cache, cur, it, stack, read>>
    BY DEF Collect
<1>3. stmt \in [Stmts -> StmtRec] /\ stmt[s] \in StmtRec
    BY <1>1 DEF StmtsOK, StmtTypes
<1>. DEFINE r == [stmt[s] EXCEPT !.st = "gone", !.pos = 0]
<1>4. /\ r \in StmtRec /\ r.sql = stmt[s].sql /\ r.failed = stmt[s].failed
      /\ r.use = stmt[s].use
    BY <1>3 DEF StmtRec
<1>5. stmt' = [stmt EXCEPT ![s] = r]
    BY <1>3 DEF Collect
<1>. HIDE DEF r
<1>6. NoNewHolds /\ ~InCache(s) /\ \A d \in Cursors : ~Holds(d, s)
    BY <1>2 DEF Collect, NoNewHolds, Holds
<1>8. StmtsOK'
    BY <1>1, <1>2, <1>4, <1>5, <1>6, TouchOK
<1>7. Cells' /\ Frames'
    BY <1>1, <1>2 DEF Cells, Frames, StackOK, ReadersOK, Fits, HasStmt, Reading,
                      Idle, Busy, LockExplained
<1> QED
    BY <1>7, <1>8, Parts
-----------------------------------------------------------------------------
(* The theorems *)

LEMMA InitOK == Init => IInv
<1> SUFFICES ASSUME Init PROVE IInv
    OBVIOUS
<1>1. Cells
    BY RecordTypes, ConstantsOK DEF Init, Cells, NewCur, CurRec
<1>2. StmtTypes
  <2>1. NoStmt \in StmtRec
    BY DEF NoStmt, StmtRec
  <2>2. cache \in Seq(Stmts) /\ Len(cache) = 0
    BY EmptySeq DEF Init
  <2> QED
    BY <2>1, <2>2, ConstantsOK DEF Init, StmtTypes
<1>3. HeldInUse /\ StatementPrivate
    BY ConstantsOK DEF Init, HeldInUse, StatementPrivate, Holds, NewCur
<1>4. stack \in Seq(FrameRec) /\ Len(stack) = 0
    BY EmptySeq DEF Init
<1>5. ReadersOK
    BY RecordTypes DEF Init, ReadersOK, Reading, LockExplained, NewCur
<1> QED
    BY <1>1, <1>2, <1>3, <1>4, <1>5, Parts DEF StmtsOK, Frames, StackOK

LEMMA StutterOK ==
    ASSUME IInv, UNCHANGED vars
    PROVE  IInv'
BY DEF vars, IInv, TypeOK, HeldInUse, StatementPrivate, ReadersOK, StackOK, Holds, Fits,
       HasStmt, Reading, Idle, Busy, LockExplained

LEMMA NextOK == IInv /\ [Next]_vars => IInv'
<1> SUFFICES ASSUME IInv, [Next]_vars PROVE IInv'
    OBVIOUS
<1>1. CASE Call
  <2>1. ASSUME NEW c \in Cursors, NEW q \in Given,
               ExecuteUnprepared(c, q) \/ ExecuteUnbound(c, q) \/ Execute(c, q)
        PROVE  IInv'
    BY <2>1, ExecuteUnpreparedOK, ExecuteUnboundOK, ExecuteOK
  <2>2. ASSUME NEW c \in Cursors, Resume(c)
        PROVE  IInv'
    BY <2>2, BeginRowsOK, NoRowsOK, NextRowOK, LastRowOK, RowFailedOK, RestBeginOK,
       RestFailedOK DEF Resume
  <2>3. ASSUME NEW c \in Cursors, StartIter(c) \/ Close(c) \/ Forget(c)
        PROVE  IInv'
    BY <2>3, StartIterOK, CloseOK, ForgetOK
  <2> QED
    BY <1>1, <2>1, <2>2, <2>3 DEF Call
<1>2. CASE Return
    BY <1>2, ExecuteFailedOK, ExecuteRowOK, ExecuteDoneOK, ExecuteNextOK,
       ExecuteNextFailedOK, RowReturnOK, RestRowOK, RestNextOK, RestNextFailedOK,
       RestDoneOK DEF Return
<1>3. CASE \E s \in Stmts : Collect(s)
    BY <1>3, CollectOK
<1>4. CASE UNCHANGED vars
    BY <1>4, StutterOK
<1> QED
    BY <1>1, <1>2, <1>3, <1>4 DEF Next

LEMMA Invariance == Spec => []IInv
BY InitOK, NextOK, PTL DEF Spec

\* Cursor.execute and Cursor.__iter__ keep every object in the states the
\* comments of StmtCursor name, and the cache in its bounds.
THEOREM CursorTypes == Spec => []TypeOK
<1>1. IInv => TypeOK
    BY DEF IInv
<1> QED
    BY <1>1, Invariance, PTL

\* in_use keeps a statement to one cursor until a step of it fails.
THEOREM StatementsPrivate == Spec => []StatementPrivate
<1>1. IInv => StatementPrivate
    BY DEF IInv
<1> QED
    BY <1>1, Invariance, PTL

\* Only a text that could not be prepared leaves an unused cursor locked.
THEOREM LocksReleased == Spec => []LockReleased
<1>1. IInv => LockReleased
    BY DEF IInv, ReadersOK, LockReleased, LockExplained
<1> QED
    BY <1>1, Invariance, PTL

\* No reader steps a statement that was finalized, whatever the cache evicts.
THEOREM NoneDangles == Spec => []NothingDangles
<1>1. IInv => NothingDangles
  <2> SUFFICES ASSUME IInv, NEW c \in Cursors
               PROVE  /\ Busy(c) => stmt[cur[c].stmt].st = "live"
                      /\ it[c].st = "mid" /\ it[c].ret = "row" => stmt[it[c].stmt].st = "live"
    BY DEF NothingDangles
  <2>1. HasStmt(c) => stmt[cur[c].stmt].st = "live"
    BY DEF IInv, HeldInUse, HasStmt, Holds
  <2>2. Busy(c) => HasStmt(c)
    BY DEF IInv, StackOK, Fits, Busy
  <2>3. it[c].st = "mid" /\ it[c].ret = "row" => HasStmt(c) /\ it[c].stmt = cur[c].stmt
    BY DEF IInv, ReadersOK, Reading
  <2> QED
    BY <2>1, <2>2, <2>3
<1> QED
    BY <1>1, Invariance, PTL
-----------------------------------------------------------------------------
(* Definitions along Rest *)

\* f goes back from what is left of a text to the text.
Unwinds(f, V, v0, C) ==
    /\ f \in [Sqls -> V]
    /\ \A q \in Sqls : f[q] = C[q][IF Rest[q] = None THEN v0 ELSE f[Rest[q]]]

\* The same for some of the texts, with what is left of them.
Partly(g, D, V, v0, C) ==
    /\ g \in [D -> V]
    /\ \A q \in D : Rest[q] # None => Rest[q] \in D
    /\ \A q \in D : g[q] = C[q][IF Rest[q] = None THEN v0 ELSE g[Rest[q]]]

\* Two such functions agree where both are defined.
LEMMA PartsAgree ==
    ASSUME NEW V, NEW v0, NEW C, NEW D \in SUBSET Sqls, NEW E \in SUBSET Sqls,
           NEW g, NEW h, Partly(g, D, V, v0, C), Partly(h, E, V, v0, C)
    PROVE  \A q \in D \cap E : g[q] = h[q]
<1>. DEFINE S == {q \in D \cap E : g[q] # h[q]}
<1> SUFFICES ASSUME S # {} PROVE FALSE
    OBVIOUS
<1>1. S \in SUBSET Sqls
    OBVIOUS
<1>2. PICK q \in S : Rest[q] \notin S
  <2>. HIDE DEF S
  <2> QED
    BY <1>1, RestEnds
<1>3. CASE Rest[q] = None
    BY <1>3 DEF Partly
<1>4. CASE Rest[q] # None
  <2>1. Rest[q] \in D \cap E
    BY <1>4 DEF Partly
  <2>2. g[Rest[q]] = h[Rest[q]]
    BY <1>2, <2>1
  <2> QED
    BY <1>4, <2>2 DEF Partly
<1> QED
    BY <1>3, <1>4

\* A function is defined by what it makes of a text and the value of the rest.
LEMMA Unwinding ==
    ASSUME NEW V, NEW v0 \in V, NEW C \in [Sqls -> [V -> V]]
    PROVE  \E f : Unwinds(f, V, v0, C)
<1>. DEFINE Reached == {q \in Sqls : \E D \in SUBSET Sqls : \E g : q \in D /\ Partly(g, D, V, v0, C)}
<1>1. ASSUME Reached # Sqls PROVE FALSE
  <2>. DEFINE B == Sqls \ Reached
  <2>1. B \in SUBSET Sqls /\ B # {}
    BY <1>1
  <2>2. PICK q \in B : Rest[q] \notin B
    <3>. HIDE DEF B
    <3> QED
      BY <2>1, RestEnds
  <2>3. q \in Sqls /\ q \notin Reached /\ Rest[q] \in Sqls \cup {None}
    BY ConstantsOK
  <2>4. ASSUME NEW D \in SUBSET Sqls, NEW g, Partly(g, D, V, v0, C), q \notin D,
               Rest[q] # None => Rest[q] \in D
        PROVE  q \in Reached
    <3>. DEFINE v == C[q][IF Rest[q] = None THEN v0 ELSE g[Rest[q]]]
                h == [p \in D \cup {q} |-> IF p = q THEN v ELSE g[p]]
    <3>1. g \in [D -> V] /\ (IF Rest[q] = None THEN v0 ELSE g[Rest[q]]) \in V
      BY <2>4 DEF Partly
    <3>2. v \in V
      BY <2>3, <3>1
    <3>. HIDE DEF v
    <3>3. h \in [D \cup {q} -> V] /\ h[q] = v /\ \A p \in D : h[p] = g[p]
      BY <2>4, <3>1, <3>2
    <3>. HIDE DEF h
    <3>4. \A p \in D \cup {q} : Rest[p] # None => Rest[p] \in D
      BY <2>4 DEF Partly
    <3>5. \A p \in D : h[p] = C[p][IF Rest[p] = None THEN v0 ELSE h[Rest[p]]]
      <4> TAKE p \in D
      <4>1. g[p] = C[p][IF Rest[p] = None THEN v0 ELSE g[Rest[p]]]
        BY <2>4 DEF Partly
      <4>2. Rest[p] # None => h[Rest[p]] = g[Rest[p]]
        BY <3>3, <3>4
      <4> QED
        BY <3>3, <4>1, <4>2
    <3>6. h[q] = C[q][IF Rest[q] = None THEN v0 ELSE h[Rest[q]]]
      BY <2>4, <3>3 DEF v
    <3>7. Partly(h, D \cup {q}, V, v0, C)
      BY <3>3, <3>4, <3>5, <3>6 DEF Partly
    <3>8. D \cup {q} \in SUBSET Sqls /\ q \in D \cup {q}
      OBVIOUS
    <3> QED
      BY <3>7, <3>8
  <2>5. CASE Rest[q] = None
    <3>1. Partly([p \in {} |-> v0], {}, V, v0, C)
      BY DEF Partly
    <3> QED
      BY <2>3, <2>4, <2>5, <3>1
  <2>6. CASE Rest[q] # None
    <3>1. Rest[q] \in Reached
      BY <2>2, <2>3, <2>6
    <3>2. PICK D \in SUBSET Sqls : \E h : Rest[q] \in D /\ Partly(h, D, V, v0, C)
      BY <3>1
    <3>3. PICK g : Rest[q] \in D /\ Partly(g, D, V, v0, C)
      BY <3>2
    <3>4. q \notin D
      BY <2>3, <3>3
    <3> QED
      BY <2>3, <2>4, <3>3, <3>4
  <2> QED
    BY <2>5, <2>6
<1>2. \A q \in Sqls : \E D \in SUBSET Sqls : \E g : q \in D /\ Partly(g, D, V, v0, C)
    BY <1>1
<1>. DEFINE Value(q, v) == \E D \in SUBSET Sqls : \E g : q \in D /\ Partly(g, D, V, v0, C) /\ v = g[q]
            f == [q \in Sqls |-> CHOOSE v : Value(q, v)]
<1>3. ASSUME NEW D \in SUBSET Sqls, NEW g, Partly(g, D, V, v0, C), NEW q \in D
      PROVE  f[q] = g[q]
  <2>1. Value(q, g[q])
    BY <1>3
  <2>2. Value(q, CHOOSE v : Value(q, v))
    <3>. HIDE DEF Value
    <3> QED
      BY <2>1
  <2>3. Value(q, f[q])
    BY <2>2, Zenon
  <2>4. PICK E \in SUBSET Sqls :
            \E h : q \in E /\ Partly(h, E, V, v0, C) /\ f[q] = h[q]
    <3>. HIDE DEF f
    <3> QED
      BY <2>3
  <2>5. PICK h : q \in E /\ Partly(h, E, V, v0, C) /\ f[q] = h[q]
    BY <2>4
  <2> QED
    BY <1>3, <2>5, PartsAgree
<1>4. DOMAIN f = Sqls /\ f = [q \in Sqls |-> f[q]]
    OBVIOUS
<1>. HIDE DEF f
<1>5. ASSUME NEW q \in Sqls
      PROVE  f[q] \in V /\ f[q] = C[q][IF Rest[q] = None THEN v0 ELSE f[Rest[q]]]
  <2>0. PICK D \in SUBSET Sqls : \E g : q \in D /\ Partly(g, D, V, v0, C)
    BY <1>2
  <2>1. PICK g : q \in D /\ Partly(g, D, V, v0, C)
    BY <2>0
  <2>2. f[q] = g[q] /\ g[q] \in V
    BY <1>3, <2>1 DEF Partly
  <2>3. Rest[q] # None => f[Rest[q]] = g[Rest[q]]
    BY <1>3, <2>1 DEF Partly
  <2> QED
    BY <2>1, <2>2, <2>3 DEF Partly
<1>6. f \in [Sqls -> V]
    BY <1>4, <1>5
<1> QED
    BY <1>5, <1>6 DEF Unwinds

\* The texts a text goes through are itself and those of what is left of it.
LEMMA TextsIs ==
    /\ Texts \in [Sqls -> SUBSET Sqls]
    /\ \A q \in Sqls : Texts[q] = {q} \cup (IF Rest[q] = None THEN {} ELSE Texts[Rest[q]])
<1>. DEFINE C == [q \in Sqls |-> [T \in SUBSET Sqls |-> {q} \cup T]]
            Def(f) == f = [q \in Sqls |->
                             {q} \cup (IF Rest[q] = None THEN {} ELSE f[Rest[q]])]
<1>1. /\ C \in [Sqls -> [SUBSET Sqls -> SUBSET Sqls]]
      /\ \A q \in Sqls : \A T \in SUBSET Sqls : C[q][T] = {q} \cup T
    OBVIOUS
<1>. HIDE DEF C
<1>2. {} \in SUBSET Sqls
    OBVIOUS
<1>3. PICK f : Unwinds(f, SUBSET Sqls, {}, C)
    BY <1>1, <1>2, Unwinding
<1>4. f \in [Sqls -> SUBSET Sqls]
    BY <1>3 DEF Unwinds
<1>5. \A q \in Sqls : f[q] = {q} \cup (IF Rest[q] = None THEN {} ELSE f[Rest[q]])
  <2> TAKE q \in Sqls
  <2>1. (IF Rest[q] = None THEN {} ELSE f[Rest[q]]) \in SUBSET Sqls
    BY <1>4, ConstantsOK
  <2> QED
    BY <1>1, <1>3, <2>1 DEF Unwinds
<1>6. Def(f)
    BY <1>4, <1>5
<1>7. Texts = CHOOSE g : Def(g)
    BY DEF Texts
<1>8. Def(Texts)
  <2>. HIDE DEF Def
  <2> QED
    BY <1>6, <1>7
<1>9. \A q \in Sqls : Texts[q] = {q} \cup (IF Rest[q] = None THEN {} ELSE Texts[Rest[q]])
    BY <1>8
<1>. DEFINE S == {q \in Sqls : ~(Texts[q] \subseteq Sqls)}
<1>10. S = {}
  <2> SUFFICES ASSUME S # {} PROVE FALSE
    OBVIOUS
  <2>1. S \in SUBSET Sqls
    OBVIOUS
  <2>2. PICK q \in S : Rest[q] \notin S
    <3>. HIDE DEF S
    <3> QED
      BY <2>1, RestEnds
  <2>3. Rest[q] # None => Texts[Rest[q]] \subseteq Sqls
    BY <2>2, ConstantsOK
  <2> QED
    BY <1>9, <2>2, <2>3
<1>11. DOMAIN Texts = Sqls /\ Texts = [q \in DOMAIN Texts |-> Texts[q]]
    BY <1>8
<1> QED
    BY <1>9, <1>10, <1>11

\* The rows of text q from row k on, and those of the texts after it.
RowsFrom(q, k) == [i \in 1..(RowCount[q] + 1 - k) |-> [sql |-> q, row |-> k + i - 1]]
After(q)       == IF Rest[q] = None THEN <<>> ELSE Script[Rest[q]]

\* Rows are rows.
LEMMA RowsAre ==
    ASSUME NEW q \in Sqls
    PROVE  /\ RowCount[q] \in Nat
           /\ RowsOf(q) \in Seq(RowRec) /\ Len(RowsOf(q)) = RowCount[q]
           /\ RowsOf(q) = RowsFrom(q, 1)
           /\ \A k \in 1..(RowCount[q] + 1) : RowsFrom(q, k) \in Seq(RowRec)
<1>1. RowCount[q] \in Nat
    BY ConstantsOK
<1>2. \A k \in Nat : [sql |-> q, row |-> k] \in RowRec
    BY DEF RowRec
<1>3. RowsOf(q) \in Seq(RowRec) /\ Len(RowsOf(q)) = RowCount[q]
  <2>1. RowsOf(q) \in [1..RowCount[q] -> RowRec]
    BY <1>1, <1>2 DEF RowsOf
  <2> QED
    BY <1>1, <2>1, SeqDef, LenProperties
<1>4. \A k \in 1..(RowCount[q] + 1) : RowsFrom(q, k) \in Seq(RowRec)
  <2> TAKE k \in 1..(RowCount[q] + 1)
  <2>1. PICK n \in Nat : n = RowCount[q] + 1 - k
    BY <1>1
  <2>2. \A i \in 1..n : k + i - 1 \in Nat
    BY <2>1
  <2>3. RowsFrom(q, k) \in [1..n -> RowRec]
    BY <1>2, <2>1, <2>2 DEF RowsFrom
  <2> QED
    BY <2>3, SeqDef
<1>5. RowsOf(q) = RowsFrom(q, 1)
  <2>1. 1..(RowCount[q] + 1 - 1) = 1..RowCount[q] /\ \A i \in 1..RowCount[q] : 1 + i - 1 = i
    BY <1>1
  <2> QED
    BY <2>1 DEF RowsOf, RowsFrom
<1> QED
    BY <1>1, <1>3, <1>4, <1>5

\* The rows of a script are those of its first text and those of what is left.
LEMMA ScriptIs ==
    /\ Script \in [Sqls -> Seq(RowRec)]
    /\ \A q \in Sqls : After(q) \in Seq(RowRec) /\ Script[q] = RowsOf(q) \o After(q)
<1>. DEFINE C == [q \in Sqls |-> [s \in Seq(RowRec) |-> RowsOf(q) \o s]]
            Def(f) == f = [q \in Sqls |->
                             RowsOf(q) \o (IF Rest[q] = None THEN <<>> ELSE f[Rest[q]])]
<1>1. /\ C \in [Sqls -> [Seq(RowRec) -> Seq(RowRec)]]
      /\ \A q \in Sqls : \A s \in Seq(RowRec) : C[q][s] = RowsOf(q) \o s
    BY RowsAre, ConcatProperties
<1>. HIDE DEF C
<1>2. PICK e \in Seq(RowRec) : e = <<>>
    BY EmptySeq
<1>3. PICK f : Unwinds(f, Seq(RowRec), e, C)
    BY <1>1, Unwinding
<1>4. f \in [Sqls -> Seq(RowRec)]
    BY <1>3 DEF Unwinds
<1>5. \A q \in Sqls : f[q] = RowsOf(q) \o (IF Rest[q] = None THEN e ELSE f[Rest[q]])
  <2> TAKE q \in Sqls
  <2>1. (IF Rest[q] = None THEN e ELSE f[Rest[q]]) \in Seq(RowRec)
    BY <1>4, ConstantsOK
  <2> QED
    BY <1>1, <1>3, <2>1 DEF Unwinds
<1>6. Def(f)
    BY <1>2, <1>4, <1>5
<1>7. Script = CHOOSE g : Def(g)
    BY DEF Script
<1>8. Def(Script)
  <2>. HIDE DEF Def
  <2> QED
    BY <1>6, <1>7
<1>9. \A q \in Sqls : Script[q] = RowsOf(q) \o After(q)
    BY <1>8 DEF After
<1>. DEFINE S == {q \in Sqls : Script[q] \notin Seq(RowRec)}
<1>10. S = {}
  <2> SUFFICES ASSUME S # {} PROVE FALSE
    OBVIOUS
  <2>1. S \in SUBSET Sqls
    OBVIOUS
  <2>2. PICK q \in S : Rest[q] \notin S
    <3>. HIDE DEF S
    <3> QED
      BY <2>1, RestEnds
  <2>3. After(q) \in Seq(RowRec)
    BY <1>2, <2>2, ConstantsOK DEF After
  <2>4. RowsOf(q) \in Seq(RowRec) /\ Script[q] = RowsOf(q) \o After(q)
    BY <1>9, <2>2, RowsAre
  <2>5. Script[q] \in Seq(RowRec)
    BY <2>3, <2>4, ConcatProperties
  <2> QED
    BY <2>2, <2>5
<1>11. DOMAIN Script = Sqls /\ Script = [q \in DOMAIN Script |-> Script[q]]
    BY <1>8
<1>12. \A q \in Sqls : Script[q] \in Seq(RowRec)
    BY <1>10
<1>13. Script \in [Sqls -> Seq(RowRec)]
    BY <1>11, <1>12
<1>14. \A q \in Sqls : After(q) \in Seq(RowRec)
    BY <1>2, <1>12, ConstantsOK DEF After
<1> QED
    BY <1>9, <1>13, <1>14

\* Taking row k of a text off what is left to read and adding it to what was
\* read keeps the two together the same.
LEMMA RowTaken ==
    ASSUME NEW q \in Sqls, NEW k \in 1..RowCount[q], NEW R \in Seq(RowRec), NEW X \in Seq(RowRec)
    PROVE  LET e == [sql |-> q, row |-> k] IN
           /\ Append(R, e) \in Seq(RowRec)
           /\ k < RowCount[q] =>
                 Append(R, e) \o (RowsFrom(q, k + 1) \o X) = R \o (RowsFrom(q, k) \o X)
           /\ k = RowCount[q] => Append(R, e) \o X = R \o (RowsFrom(q, k) \o X)
<1>. DEFINE e == [sql |-> q, row |-> k]
<1>1. /\ RowCount[q] \in Nat /\ k \in Nat /\ k + 1 \in 1..(RowCount[q] + 1)
      /\ RowsFrom(q, k) \in Seq(RowRec) /\ RowsFrom(q, k + 1) \in Seq(RowRec)
  <2>1. RowCount[q] \in Nat
    BY RowsAre
  <2>2. k \in 1..(RowCount[q] + 1) /\ k + 1 \in 1..(RowCount[q] + 1)
    BY <2>1
  <2> QED
    BY <2>1, <2>2, RowsAre
<1>2. e \in RowRec
  BY <1>1 DEF RowRec
<1>3. <<e>> \in Seq(RowRec) /\ Append(R, e) \in Seq(RowRec) /\ Append(R, e) = R \o <<e>>
  BY <1>2, AppendProperties, AppendIsConcat
<1>4. <<e>> \o RowsFrom(q, k + 1) = RowsFrom(q, k)
  <2>1. PICK n \in Nat : RowCount[q] = k + n
    <3>1. RowCount[q] - k \in Nat /\ RowCount[q] = k + (RowCount[q] - k)
      BY <1>1
    <3> QED
      BY <3>1
  <2>2. RowsFrom(q, k) = [i \in 1..(n + 1) |-> [sql |-> q, row |-> k + i - 1]]
    <3>1. RowCount[q] + 1 - k = n + 1
      BY <1>1, <2>1
    <3> QED
      BY <3>1 DEF RowsFrom
  <2>3. RowsFrom(q, k + 1) = [i \in 1..n |-> [sql |-> q, row |-> k + i]]
    <3>1. RowCount[q] + 1 - (k + 1) = n /\ \A i \in 1..n : (k + 1) + i - 1 = k + i
      BY <1>1, <2>1
    <3> QED
      BY <3>1 DEF RowsFrom
  <2>4. Len(RowsFrom(q, k)) = n + 1 /\ Len(RowsFrom(q, k + 1)) = n
    BY <1>1, <2>1, <2>2, <2>3, LenProperties
  <2>5. PICK t \in Seq(RowRec) : t = RowsFrom(q, k + 1)
    BY <1>1
  <2>6. PICK w \in Seq(RowRec) : w = <<e>>
    BY <1>3
  <2>7. Len(w) = 1 /\ w[1] = e
    BY <2>6
  <2>8. /\ w \o t \in Seq(RowRec) /\ Len(w \o t) = n + 1
        /\ \A i \in 1..(n + 1) : (w \o t)[i] = IF i <= 1 THEN w[i] ELSE t[i - 1]
    <3>1. /\ w \o t \in Seq(RowRec) /\ Len(w \o t) = Len(w) + Len(t)
          /\ \A i \in 1..(Len(w) + Len(t)) :
                (w \o t)[i] = IF i <= Len(w) THEN w[i] ELSE t[i - Len(w)]
      BY ConcatProperties
    <3>2. Len(w) + Len(t) = n + 1 /\ Len(w) = 1
      BY <2>1, <2>4, <2>5, <2>7
    <3> QED
      BY <3>1, <3>2
  <2>9. ASSUME NEW i \in 1..(n + 1) PROVE (w \o t)[i] = RowsFrom(q, k)[i]
    <3>1. RowsFrom(q, k)[i] = [sql |-> q, row |-> k + i - 1]
      BY <2>2
    <3>2. CASE i = 1
      <4>1. k + i - 1 = k
        BY <1>1, <3>2
      <4> QED
        BY <2>7, <2>8, <3>1, <3>2, <4>1
    <3>3. CASE i # 1
      <4>1. i - 1 \in 1..n /\ ~(i <= 1) /\ k + (i - 1) = k + i - 1
        BY <1>1, <2>1, <3>3
      <4>2. t[i - 1] = [sql |-> q, row |-> k + (i - 1)]
        BY <2>3, <2>5, <4>1
      <4> QED
        BY <2>8, <3>1, <4>1, <4>2
    <3> QED
      BY <3>2, <3>3
  <2> QED
    BY <1>1, <2>4, <2>5, <2>6, <2>8, <2>9, SeqEqual
<1>. HIDE DEF e
<1>5. ASSUME k < RowCount[q]
      PROVE  Append(R, e) \o (RowsFrom(q, k + 1) \o X) = R \o (RowsFrom(q, k) \o X)
  <2>1. PICK t \in Seq(RowRec) : t = RowsFrom(q, k + 1)
    BY <1>1
  <2>2. PICK w \in Seq(RowRec) : w = <<e>>
    BY <1>3
  <2>3. PICK u \in Seq(RowRec) : u = t \o X
    BY ConcatProperties
  <2>4. (R \o w) \o u = R \o (w \o u)
    BY ConcatAssociative
  <2>5. (w \o t) \o X = w \o (t \o X)
    BY ConcatAssociative
  <2> QED
    BY <1>3, <1>4, <2>1, <2>2, <2>3, <2>4, <2>5
<1>6. ASSUME k = RowCount[q]
      PROVE  Append(R, e) \o X = R \o (RowsFrom(q, k) \o X)
  <2>1. PICK w \in Seq(RowRec) : w = <<e>>
    BY <1>3
  <2>2. RowsFrom(q, k + 1) = <<>>
    <3>1. 1..(RowCount[q] + 1 - (k + 1)) = {}
      BY <1>1, <1>6
    <3>2. DOMAIN RowsFrom(q, k + 1) = {}
      BY <3>1 DEF RowsFrom
    <3>3. Len(RowsFrom(q, k + 1)) = 0
      BY <1>1, <3>2, LenProperties
    <3> QED
      BY <1>1, <3>3, EmptySeq
  <2>3. w = RowsFrom(q, k)
    <3>1. w \o RowsFrom(q, k + 1) = w
      BY <2>2, ConcatEmptySeq
    <3> QED
      BY <1>4, <2>1, <3>1
  <2>4. (R \o w) \o X = R \o (w \o X)
    BY ConcatAssociative
  <2> QED
    BY <1>3, <2>1, <2>3, <2>4
<1> QED
    BY <1>3, <1>5, <1>6 DEF e

\* Without rows a text adds nothing.
LEMMA NoRowsOf ==
    ASSUME NEW q \in Sqls, RowCount[q] = 0, NEW X \in Seq(RowRec)
    PROVE  RowsOf(q) \o X = X
<1>1. RowsOf(q) \in Seq(RowRec) /\ Len(RowsOf(q)) = 0
    BY RowsAre
<1>2. RowsOf(q) = <<>>
    BY <1>1, EmptySeq
<1> QED
    BY <1>2, ConcatEmptySeq

\* The first part of a sequence begins it.
LEMMA PartBegins ==
    ASSUME NEW V, NEW s \in Seq(V), NEW t \in Seq(V)
    PROVE  Begins(s, s \o t)
<1>1. /\ s \o t \in Seq(V) /\ Len(s \o t) = Len(s) + Len(t) /\ Len(s) \in Nat /\ Len(t) \in Nat
      /\ \A i \in 1..(Len(s) + Len(t)) : (s \o t)[i] = IF i <= Len(s) THEN s[i] ELSE t[i - Len(s)]
    BY ConcatProperties, LenProperties
<1>2. PICK u \in Seq(V) : u = s \o t
    BY <1>1
<1>3. \A i \in 1..Len(s) : u[i] = s[i] /\ s[i] \in V
    BY <1>1, <1>2, ElementOfSeq
<1>4. /\ SubSeq(u, 1, Len(s)) \in Seq(V)
      /\ Len(SubSeq(u, 1, Len(s))) = Len(s)
      /\ \A i \in 1..Len(s) : SubSeq(u, 1, Len(s))[i] = u[i]
  <2>1. \A i \in 1..Len(s) : u[i] \in V
    BY <1>3
  <2>2. /\ SubSeq(u, 1, Len(s)) \in Seq(V)
        /\ Len(SubSeq(u, 1, Len(s))) = IF 1 <= Len(s) THEN Len(s) - 1 + 1 ELSE 0
        /\ \A i \in 1..(Len(s) - 1 + 1) : SubSeq(u, 1, Len(s))[i] = u[1 + i - 1]
    BY <1>1, <2>1, SubSeqProperties
  <2> QED
    BY <1>1, <2>2
<1>5. s = SubSeq(u, 1, Len(s))
    BY <1>3, <1>4, SeqEqual
<1> QED
    BY <1>1, <1>2, <1>5 DEF Begins

-----------------------------------------------------------------------------
(* How far a reader is *)

\* The text a cursor is at, and the row its statement is on.
TextOf(c) == stmt[cur[c].stmt].sql
PosOf(c)  == stmt[cur[c].stmt].pos

\* A statement whose step failed has been prepared: its text is for good.
FailedBorn == \A s \in Stmts : stmt[s].failed => stmt[s].st # "unborn"

Started(c) == read[c].sql # None /\ read[c].err = "no"

\* The cursor is at a text that its script goes through.
OnScript(c) ==
    /\ TextOf(c) \in Sqls
    /\ cur[c].next = Rest[TextOf(c)]
    /\ Texts[TextOf(c)] \subseteq Texts[read[c].sql]

ScriptOK(c) == Started(c) => OnScript(c)

\* What was read, and what is still to be read: of the row the statement is on
\* and after it, of all the rows of the statement, of those of the texts after it.
AtRow(c) ==
    /\ PosOf(c) \in 1..RowCount[TextOf(c)]
    /\ read[c].rows \o (RowsFrom(TextOf(c), PosOf(c)) \o After(TextOf(c))) = Script[read[c].sql]

AtStart(c) ==
    /\ PosOf(c) = 0
    /\ read[c].rows \o (RowsOf(TextOf(c)) \o After(TextOf(c))) = Script[read[c].sql]

AtEnd(c) == read[c].rows \o After(TextOf(c)) = Script[read[c].sql]

Over(c) == read[c].rows = Script[read[c].sql]

\* Before the first step of its iterator, between its steps and at its end.
Opening(c) ==
    it[c].st \in {"none", "new"} =>
        /\ Busy(c) => AtStart(c) /\ cur[c].exhausted
        /\ ~Busy(c) /\ cur[c].exhausted => Over(c)
        /\ ~Busy(c) /\ ~cur[c].exhausted => AtRow(c)

Midway(c) ==
    it[c].st = "mid" =>
        /\ ~cur[c].exhausted
        /\ it[c].ret = "row" => AtRow(c) /\ (Busy(c) => it[c].row = PosOf(c))
        /\ it[c].ret = "done" /\ Busy(c) => AtStart(c)
        /\ it[c].ret = "done" /\ ~Busy(c) => AtEnd(c)
        /\ it[c].ret = "step" => Begins(read[c].rows, Script[read[c].sql])

Ending(c) ==
    /\ read[c].ended => it[c].st = "dead"
    /\ it[c].st = "dead" => Over(c)

ReadOK(c) == read[c].sql # None /\ Untroubled(c) => Opening(c) /\ Midway(c) /\ Ending(c)

\* A second iterator that starts where the first one has nothing more to step.
Restarts(c) == it[c].st = "mid" /\ it[c].ret # "row" /\ it'[c].st = "new"

FollowsScript == \A c \in Cursors : ScriptOK(c)

\* What a step does: to the statements,
StmtsGo ==
    \A x \in Stmts :
        /\ stmt[x].st # "unborn" => stmt'[x].st # "unborn" /\ stmt'[x].sql = stmt[x].sql
        /\ stmt[x].failed => stmt'[x].failed
        /\ stmt'[x].failed => stmt'[x].st # "unborn"

\* to the cursors it is not a step of,
Untouched(d) ==
    /\ cur'[d] = cur[d] /\ it'[d] = it[d] /\ read'[d] = read[d]
    /\ Busy(d)' <=> Busy(d)
    /\ \A x \in Stmts : ~stmt[x].failed /\ Holds(d, x) => stmt'[x] = stmt[x]

\* and to its own.
Advances(c) ==
    /\ ScriptOK(c)'
    /\ ReadOK(c) /\ ~Restarts(c) => ReadOK(c)'

Moved(c) == StmtsGo /\ (\A d \in Cursors \ {c} : Untouched(d)) /\ Advances(c)

-----------------------------------------------------------------------------
(* Statements of a step *)

\* A statement of its own,
LEMMA MoveHeld ==
    ASSUME IInv, FailedBorn, NEW c \in Cursors, NEW s \in Stmts, Holds(c, s),
           NEW r, stmt' = [stmt EXCEPT ![s] = r],
           r.st = stmt[s].st, r.sql = stmt[s].sql, stmt[s].failed => r.failed
    PROVE  /\ StmtsGo
           /\ \A d \in Cursors \ {c}, x \in Stmts :
                 ~stmt[x].failed /\ Holds(d, x) => stmt'[x] = stmt[x]
           /\ stmt'[s] = r
<1>1. stmt \in [Stmts -> StmtRec] /\ stmt[s].st = "live"
    BY DEF IInv, TypeOK, HeldInUse
<1>2. stmt'[s] = r /\ \A x \in Stmts : x # s => stmt'[x] = stmt[x]
    BY <1>1
<1>3. StmtsGo
    BY <1>1, <1>2 DEF StmtsGo, FailedBorn
<1>4. ASSUME NEW d \in Cursors \ {c}, ~stmt[s].failed, Holds(d, s) PROVE FALSE
    BY <1>4 DEF IInv, StatementPrivate
<1> QED
    BY <1>2, <1>3, <1>4

\* one it gets from the cache or makes,
LEMMA MoveGet ==
    ASSUME IInv, FailedBorn, NEW q \in Sqls, NEW s \in Stmts, Get(q, s), stmt' = Dirty(q, s)
    PROVE  /\ StmtsGo
           /\ \A d \in Cursors, x \in Stmts :
                 ~stmt[x].failed /\ Holds(d, x) => stmt'[x] = stmt[x]
           /\ stmt'[s].sql = q /\ stmt'[s].pos = 0
<1>. DEFINE r == [stmt[s] EXCEPT !.st = "live", !.sql = q, !.use = TRUE, !.pos = 0]
<1>1. stmt \in [Stmts -> StmtRec] /\ stmt[s] \in StmtRec
    BY DEF IInv, TypeOK
<1>2. r.st = "live" /\ r.sql = q /\ r.pos = 0 /\ r.failed = stmt[s].failed
    BY <1>1 DEF StmtRec
<1>3. stmt' = [stmt EXCEPT ![s] = r]
    BY DEF Dirty
<1>. HIDE DEF r
<1>4. stmt'[s] = r /\ \A x \in Stmts : x # s => stmt'[x] = stmt[x]
    BY <1>1, <1>3
<1>5. stmt[s].st # "unborn" => stmt[s].sql = q /\ ~stmt[s].use
    BY DEF Get, Cached, Fresh
<1>6. StmtsGo
    BY <1>2, <1>4, <1>5 DEF StmtsGo, FailedBorn
<1>7. ASSUME NEW d \in Cursors, ~stmt[s].failed, Holds(d, s) PROVE FALSE
  <2>1. stmt[s].st = "live" /\ stmt[s].use
    BY <1>7 DEF IInv, HeldInUse
  <2> QED
    BY <1>5, <2>1
<1> QED
    BY <1>2, <1>4, <1>6, <1>7

\* or none.
LEMMA MoveNone ==
    ASSUME FailedBorn, UNCHANGED stmt
    PROVE  /\ StmtsGo
           /\ \A d \in Cursors, x \in Stmts :
                 ~stmt[x].failed /\ Holds(d, x) => stmt'[x] = stmt[x]
BY DEF StmtsGo, FailedBorn

\* Stepping and dropping change the position, the flag and the failure.
LEMMA SteppedIs ==
    ASSUME IInv, NEW s \in Stmts, NEW o
    PROVE  \E r : /\ Stepped(s, o) = [stmt EXCEPT ![s] = r]
                  /\ r.st = stmt[s].st /\ r.sql = stmt[s].sql /\ r.failed = stmt[s].failed
                  /\ r.pos = PosAfter(s, o)
<1>1. stmt \in [Stmts -> StmtRec] /\ stmt[s] \in StmtRec
    BY DEF IInv, TypeOK
<1>. DEFINE r == [stmt[s] EXCEPT !.pos = PosAfter(s, o)]
<1>2. /\ r.st = stmt[s].st /\ r.sql = stmt[s].sql /\ r.failed = stmt[s].failed
      /\ r.pos = PosAfter(s, o)
    BY <1>1 DEF StmtRec
<1>3. Stepped(s, o) = [stmt EXCEPT ![s] = r]
    BY <1>1 DEF Stepped
<1>. HIDE DEF r
<1> QED
    BY <1>2, <1>3

LEMMA DroppedIs ==
    ASSUME IInv, NEW s \in Stmts
    PROVE  \E r : /\ Dropped(s) = [stmt EXCEPT ![s] = r]
                  /\ r.st = stmt[s].st /\ r.sql = stmt[s].sql /\ r.failed
<1>1. stmt \in [Stmts -> StmtRec] /\ stmt[s] \in StmtRec
    BY DEF IInv, TypeOK
<1>. DEFINE r == [stmt[s] EXCEPT !.pos = 0, !.use = FALSE, !.failed = TRUE]
<1>2. r.st = stmt[s].st /\ r.sql = stmt[s].sql /\ r.failed
    BY <1>1 DEF StmtRec
<1>3. Dropped(s) = [stmt EXCEPT ![s] = r]
    BY <1>1 DEF Dropped
<1>. HIDE DEF r
<1> QED
    BY <1>2, <1>3

\* The outcomes of a step, by the row the statement is on.
LEMMA Outcomes ==
    ASSUME NEW s \in Stmts, NEW o \in StepOutcomes(s)
    PROVE  /\ o \in {"row", "done", "step"}
           /\ o = "row" => stmt[s].pos < RowCount[stmt[s].sql] /\ PosAfter(s, o) = stmt[s].pos + 1
           /\ o = "done" => ~(stmt[s].pos < RowCount[stmt[s].sql])
           /\ o # "row" => PosAfter(s, o) = 0
<1>1. o = "step" \/ o = IF stmt[s].pos < RowCount[stmt[s].sql] THEN "row" ELSE "done"
    BY DEF StepOutcomes
<1> QED
    BY <1>1 DEF PosAfter

-----------------------------------------------------------------------------
(* The stack of a step *)

LEMMA PushBusy ==
    ASSUME IInv, NEW c \in Cursors, NEW op, Push(Frame(op, c))
    PROVE  Busy(c)' /\ \A d \in Cursors \ {c} : Busy(d)' <=> Busy(d)
<1>1. Frame(op, c).cur = c /\ stack \in Seq(FrameRec) /\ Len(stack) \in Nat
    BY DEF Frame, IInv, TypeOK
<1>2. PICK f : f = Frame(op, c)
    OBVIOUS
<1>3. /\ Len(stack') = Len(stack) + 1 /\ stack'[Len(stack) + 1] = f
      /\ \A i \in 1..Len(stack) : stack'[i] = stack[i]
    BY <1>1, <1>2 DEF Push
<1>4. 1..Len(stack') = 1..Len(stack) \cup {Len(stack) + 1}
    BY <1>1, <1>3
<1> QED
    BY <1>1, <1>2, <1>3, <1>4 DEF Busy

LEMMA PopBusy ==
    ASSUME IInv, stack # <<>>, NEW c \in Cursors, c = Top.cur, Pop
    PROVE  ~Busy(c)' /\ \A d \in Cursors \ {c} : Busy(d)' <=> Busy(d)
<1>0. Frames
    BY Parts
<1>1. /\ Len(stack) \in Nat \ {0} /\ stack \in Seq(FrameRec)
      /\ \A i \in 1..(Len(stack) - 1) : stack[i].cur # c
    BY <1>0, TopFacts DEF Frames
<1>2. PICK n \in Nat : Len(stack) = n + 1 /\ n = Len(stack) - 1
  <2>1. Len(stack) - 1 \in Nat /\ Len(stack) = (Len(stack) - 1) + 1
    BY <1>1
  <2> QED
    BY <2>1
<1>3. Len(stack') = n /\ \A i \in 1..n : stack'[i] = stack[i]
  <2>1. /\ SubSeq(stack, 1, n) \in Seq(FrameRec) /\ Len(SubSeq(stack, 1, n)) = n
        /\ \A i \in 1..n : SubSeq(stack, 1, n)[i] = stack[i]
    BY <1>1, <1>2
  <2> QED
    BY <1>2, <2>1 DEF Pop
<1>4. 1..Len(stack) = 1..n \cup {n + 1} /\ stack[n + 1].cur = c
    BY <1>2 DEF Top
<1> QED
    BY <1>1, <1>2, <1>3, <1>4 DEF Busy

LEMMA SwapBusy ==
    ASSUME IInv, stack # <<>>, NEW c \in Cursors, c = Top.cur,
           NEW op, Swap(Frame(op, c)) \/ UNCHANGED stack
    PROVE  Busy(c) /\ Busy(c)' /\ \A d \in Cursors \ {c} : Busy(d)' <=> Busy(d)
<1>0. Frames
    BY Parts
<1>1. Len(stack) \in Nat \ {0} /\ stack \in Seq(FrameRec)
    BY <1>0, TopFacts DEF Frames
<1>2. Frame(op, c).cur = c /\ stack[Len(stack)].cur = c
    BY DEF Frame, Top
<1>3. PICK f : f = Frame(op, c)
    OBVIOUS
<1>4. Len(stack') = Len(stack) /\ \A i \in 1..Len(stack) : stack'[i].cur = stack[i].cur
  <2>1. CASE Swap(f)
    <3>1. stack' = [stack EXCEPT ![Len(stack)] = f]
      BY <2>1 DEF Swap
    <3>2. DOMAIN stack = 1..Len(stack) /\ DOMAIN stack' = DOMAIN stack
      BY <1>1, <3>1
    <3>3. Len(stack') = Len(stack)
      BY <1>1, <3>1
    <3>4. \A i \in 1..Len(stack) : stack'[i] = IF i = Len(stack) THEN f ELSE stack[i]
      BY <3>1, <3>2
    <3> QED
      BY <1>2, <1>3, <3>3, <3>4
  <2> QED
    BY <1>3, <2>1
<1> QED
    BY <1>1, <1>2, <1>4 DEF Busy

-----------------------------------------------------------------------------
(* The readers a step is not of *)

\* A read that is untroubled after a step was so before.
LEMMA UntroubledBefore ==
    ASSUME FailedBorn, StmtsGo, NEW d, read'[d].sql = read[d].sql, read'[d].err = read[d].err,
           Untroubled(d)'
    PROVE  Untroubled(d)
<1> SUFFICES ASSUME NEW s \in Stmts, stmt[s].failed
             PROVE  stmt[s].sql \notin Texts[read[d].sql]
    BY DEF Untroubled
<1>1. stmt'[s].failed /\ stmt'[s].sql = stmt[s].sql
    BY DEF FailedBorn, StmtsGo
<1> QED
    BY <1>1 DEF Untroubled

\* What is known of a reader.
LEMMA ReaderFacts ==
    ASSUME IInv, NEW c \in Cursors, ScriptOK(c), Started(c)
    PROVE  /\ cur[c].st = "open" /\ cur[c].stmt \in Stmts /\ Holds(c, cur[c].stmt)
           /\ read[c].sql \in Sqls /\ read[c].rows \in Seq(RowRec)
           /\ TextOf(c) \in Sqls /\ PosOf(c) \in Nat /\ cur[c].next = Rest[TextOf(c)]
           /\ TextOf(c) \in Texts[read[c].sql]
           /\ Rest[TextOf(c)] # None =>
                 Rest[TextOf(c)] \in Sqls /\ Texts[Rest[TextOf(c)]] \subseteq Texts[read[c].sql]
<1>1. HasStmt(c)
    BY DEF IInv, ReadersOK, Reading, Started
<1>2. read[c] \in ReadRec /\ stmt[cur[c].stmt] \in StmtRec
    BY <1>1 DEF IInv, TypeOK, HasStmt
<1>3. OnScript(c)
    BY DEF ScriptOK
<1>4. Texts[TextOf(c)] = {TextOf(c)} \cup
          (IF Rest[TextOf(c)] = None THEN {} ELSE Texts[Rest[TextOf(c)]])
    BY <1>3, TextsIs DEF OnScript
<1>5. Rest[TextOf(c)] \in Sqls \cup {None}
    BY <1>3, ConstantsOK DEF OnScript
<1> QED
    BY <1>1, <1>2, <1>3, <1>4, <1>5 DEF HasStmt, Holds, Started, ReadRec, StmtRec, OnScript, PosOf

\* A reader the step is not of is where it was.
LEMMA OtherReads ==
    ASSUME IInv, FailedBorn, StmtsGo, NEW d \in Cursors, Untouched(d), ScriptOK(d)
    PROVE  ScriptOK(d)' /\ (ReadOK(d) => ReadOK(d)')
<1>1. /\ cur'[d] = cur[d] /\ it'[d] = it[d] /\ read'[d] = read[d]
      /\ Busy(d)' <=> Busy(d)
    BY DEF Untouched
<1>2. CASE ~Started(d)
  <2>1. ~Started(d)'
    BY <1>1, <1>2 DEF Started
  <2> QED
    BY <1>2, <2>1 DEF Started, ScriptOK, ReadOK, Untroubled
<1>3. CASE Started(d)
  <2>1. /\ cur[d].stmt \in Stmts /\ Holds(d, cur[d].stmt) /\ OnScript(d)
        /\ TextOf(d) \in Texts[read[d].sql]
    BY <1>3, ReaderFacts DEF ScriptOK
  <2>2. stmt[cur[d].stmt].st # "unborn"
    BY <2>1 DEF IInv, HeldInUse
  <2>3. TextOf(d)' = TextOf(d)
    BY <1>1, <2>1, <2>2 DEF StmtsGo, TextOf
  <2>4. OnScript(d)'
    BY <1>1, <2>1, <2>3 DEF OnScript
  <2>5. ASSUME ReadOK(d), Untroubled(d)', read'[d].sql # None
        PROVE  (Opening(d) /\ Midway(d) /\ Ending(d))'
    <3>1. Untroubled(d)
      BY <1>1, <2>5, UntroubledBefore
    <3>2. Opening(d) /\ Midway(d) /\ Ending(d)
      BY <1>1, <2>5, <3>1 DEF ReadOK
    <3>3. ~stmt[cur[d].stmt].failed
      BY <2>1, <3>1 DEF Untroubled, TextOf
    <3>4. PosOf(d)' = PosOf(d)
      BY <1>1, <2>1, <3>3 DEF Untouched, PosOf
    <3>5. /\ AtRow(d)' <=> AtRow(d)
          /\ AtStart(d)' <=> AtStart(d)
          /\ AtEnd(d)' <=> AtEnd(d)
          /\ Over(d)' <=> Over(d)
      BY <1>1, <2>3, <3>4 DEF AtRow, AtStart, AtEnd, Over
    <3>6. Opening(d)'
      BY <1>1, <3>2, <3>5 DEF Opening
    <3>7. Midway(d)'
      BY <1>1, <3>2, <3>4, <3>5 DEF Midway
    <3>8. Ending(d)'
      BY <1>1, <3>2, <3>5 DEF Ending
    <3> QED
      BY <3>6, <3>7, <3>8
  <2> QED
    BY <2>4, <2>5 DEF ScriptOK, ReadOK
<1> QED
    BY <1>2, <1>3

-----------------------------------------------------------------------------
(* The reader a step is of *)

\* A step in parts.
LEMMA MovedBy ==
    ASSUME NEW c \in Cursors, Others(c), StmtsGo, Advances(c),
           \A d \in Cursors \ {c}, x \in Stmts :
              ~stmt[x].failed /\ Holds(d, x) => stmt'[x] = stmt[x],
           \A d \in Cursors \ {c} : Busy(d)' <=> Busy(d)
    PROVE  Moved(c)
BY DEF Moved, Untouched, Others

\* An error, or the end of the cursor, ends the read.
LEMMA ReadOver ==
    ASSUME NEW c, read'[c].err # "no" \/ read'[c].sql = None
    PROVE  Advances(c)
BY DEF Advances, ScriptOK, ReadOK, Started, Untroubled

\* A read that goes on.
LEMMA ReadGoesOn ==
    ASSUME FailedBorn, StmtsGo, NEW c, ScriptOK(c),
           read'[c].sql = read[c].sql, read'[c].err = read[c].err,
           Started(c) /\ OnScript(c) => OnScript(c)',
           Started(c) /\ OnScript(c) /\ Untroubled(c) /\ Opening(c) /\ Midway(c) /\ Ending(c)
              /\ ~Restarts(c) => (Opening(c) /\ Midway(c) /\ Ending(c))'
    PROVE  Advances(c)
<1>1. Started(c)' <=> Started(c)
    BY DEF Started
<1>2. ScriptOK(c)'
    BY <1>1 DEF ScriptOK
<1>3. ASSUME ReadOK(c), ~Restarts(c), read'[c].sql # None, Untroubled(c)'
      PROVE  (Opening(c) /\ Midway(c) /\ Ending(c))'
  <2>1. Untroubled(c)
    BY <1>3, UntroubledBefore
  <2>2. Started(c) /\ OnScript(c)
    BY <1>3, <2>1 DEF Started, Untroubled, ScriptOK
  <2> QED
    BY <1>3, <2>1, <2>2 DEF ReadOK
<1>4. ReadOK(c) /\ ~Restarts(c) => ReadOK(c)'
  <2> SUFFICES ASSUME ReadOK(c), ~Restarts(c), read'[c].sql # None, Untroubled(c)'
               PROVE  (Opening(c) /\ Midway(c) /\ Ending(c))'
    BY DEF ReadOK
  <2> QED
    BY <1>3
<1> QED
    BY <1>2, <1>4 DEF Advances

\* The next statement of a script is at the start of what is left of the text.
LEMMA NextText ==
    ASSUME IInv, FailedBorn, NEW c \in Cursors, cur[c].st = "open",
           cur[c].next # None, NextStatement(c)
    PROVE  /\ StmtsGo
           /\ \A d \in Cursors, x \in Stmts :
                 ~stmt[x].failed /\ Holds(d, x) => stmt'[x] = stmt[x]
           /\ \A d \in Cursors \ {c} : cur'[d] = cur[d]
           /\ cur'[c].exhausted = cur[c].exhausted
           /\ Started(c) /\ ScriptOK(c) =>
                 /\ TextOf(c)' = Rest[TextOf(c)] /\ TextOf(c)' \in Sqls /\ PosOf(c)' = 0
                 /\ cur'[c].next = Rest[TextOf(c)']
                 /\ Texts[TextOf(c)'] \subseteq Texts[read[c].sql]
                 /\ RowsOf(TextOf(c)') \o After(TextOf(c)') = After(TextOf(c))
<1>1. cur \in [Cursors -> CurRec] /\ cur[c] \in CurRec
    BY DEF IInv, TypeOK
<1>2. PICK q \in Sqls : q = cur[c].next
    BY <1>1 DEF CurRec
<1>3. PICK s \in Stmts :
         Get(q, s) /\ stmt' = Dirty(q, s)
         /\ cur' = [cur EXCEPT ![c] = [@ EXCEPT !.stmt = s, !.next = Rest[q]]]
    BY <1>2 DEF NextStatement
<1>4. /\ cur'[c].stmt = s /\ cur'[c].next = Rest[q] /\ cur'[c].exhausted = cur[c].exhausted
      /\ \A d \in Cursors \ {c} : cur'[d] = cur[d]
    BY <1>1, <1>3 DEF CurRec
<1>5. /\ StmtsGo
      /\ \A d \in Cursors, x \in Stmts :
            ~stmt[x].failed /\ Holds(d, x) => stmt'[x] = stmt[x]
      /\ stmt'[s].sql = q /\ stmt'[s].pos = 0
    BY <1>3, MoveGet
<1>6. TextOf(c)' = q /\ PosOf(c)' = 0
    BY <1>4, <1>5 DEF TextOf, PosOf
<1>7. ASSUME Started(c), ScriptOK(c)
      PROVE  /\ q = Rest[TextOf(c)] /\ Texts[q] \subseteq Texts[read[c].sql]
             /\ RowsOf(q) \o After(q) = After(TextOf(c))
  <2>1. /\ q = Rest[TextOf(c)] /\ q # None /\ Texts[q] \subseteq Texts[read[c].sql]
        /\ TextOf(c) \in Sqls
    BY <1>2, <1>7, ReaderFacts
  <2> QED
    BY <2>1, ScriptIs DEF After
<1> QED
    BY <1>4, <1>5, <1>6, <1>7

-----------------------------------------------------------------------------
(* Cursor.execute *)

LEMMA ExecuteUnpreparedMoves ==
    ASSUME IInv, FailedBorn, NEW c \in Cursors, NEW q \in Given, ExecuteUnprepared(c, q)
    PROVE  Moved(c)
<1>1. /\ cur' = [cur EXCEPT ![c].locked = TRUE] /\ it' = [it EXCEPT ![c] = NoIter]
      /\ read' = [read EXCEPT ![c] = [Unread EXCEPT !.sql = q, !.err = "prepare"]]
      /\ UNCHANGED stmt /\ UNCHANGED stack
    BY DEF ExecuteUnprepared
<1>2. Cells
    BY Parts
<1>3. Others(c) /\ read'[c].err = "prepare"
    BY <1>1, <1>2 DEF Others, Cells, Unread
<1>4. \A d \in Cursors \ {c} : Busy(d)' <=> Busy(d)
    BY <1>1 DEF Busy
<1> QED
    BY <1>1, <1>3, <1>4, MoveNone, ReadOver, MovedBy

LEMMA ExecuteUnboundMoves ==
    ASSUME IInv, FailedBorn, NEW c \in Cursors, NEW q \in Given, ExecuteUnbound(c, q)
    PROVE  Moved(c)
<1>1. /\ it' = [it EXCEPT ![c] = NoIter]
      /\ read' = [read EXCEPT ![c] = [Unread EXCEPT !.sql = q, !.err = "bind"]]
      /\ UNCHANGED stack
    BY DEF ExecuteUnbound
<1>2. PICK s \in Stmts :
         /\ Get(q, s) /\ stmt' = Dirty(q, s)
         /\ cur' = [cur EXCEPT ![c] = [@ EXCEPT !.stmt = s, !.next = Rest[q],
                                               !.exhausted = TRUE]]
    BY DEF ExecuteUnbound
<1>3. Cells /\ q \in Sqls
    BY Parts, ConstantsOK
<1>4. Others(c) /\ read'[c].err = "bind"
    BY <1>1, <1>2, <1>3 DEF Others, Cells, Unread
<1>5. \A d \in Cursors \ {c} : Busy(d)' <=> Busy(d)
    BY <1>1 DEF Busy
<1>6. Advances(c)
    BY <1>4, ReadOver
<1> QED
    BY <1>2, <1>3, <1>4, <1>5, <1>6, MoveGet, MovedBy

LEMMA ExecuteMoves ==
    ASSUME IInv, FailedBorn, NEW c \in Cursors, NEW q \in Given, Execute(c, q)
    PROVE  Moved(c)
<1>1. /\ it' = [it EXCEPT ![c] = NoIter] /\ Push(Frame("execute", c))
      /\ read' = [read EXCEPT ![c] = [Unread EXCEPT !.sql = q]]
    BY DEF Execute
<1>2. PICK s \in Stmts :
         /\ Get(q, s) /\ stmt' = Dirty(q, s)
         /\ cur' = [cur EXCEPT ![c] = [@ EXCEPT !.stmt = s, !.next = Rest[q],
                                               !.exhausted = TRUE, !.locked = TRUE]]
    BY DEF Execute
<1>3. Cells /\ q \in Sqls /\ cur[c] \in CurRec
    BY Parts, ConstantsOK DEF Cells
<1>4. /\ Others(c) /\ it'[c].st = "none"
      /\ read'[c].sql = q /\ read'[c].rows = <<>> /\ ~read'[c].ended
      /\ cur'[c].stmt = s /\ cur'[c].next = Rest[q] /\ cur'[c].exhausted
    BY <1>1, <1>2, <1>3 DEF Others, Cells, Unread, NoIter, CurRec
<1>5. Busy(c)' /\ \A d \in Cursors \ {c} : Busy(d)' <=> Busy(d)
    BY <1>1, PushBusy
<1>6. /\ StmtsGo
      /\ \A d \in Cursors, x \in Stmts :
            ~stmt[x].failed /\ Holds(d, x) => stmt'[x] = stmt[x]
      /\ stmt'[s].sql = q /\ stmt'[s].pos = 0
    BY <1>2, <1>3, MoveGet
<1>7. TextOf(c)' = q /\ PosOf(c)' = 0
    BY <1>4, <1>6 DEF TextOf, PosOf
<1>8. OnScript(c)'
    BY <1>3, <1>4, <1>7 DEF OnScript
<1>9. AtStart(c)'
  <2>1. Script[q] \in Seq(RowRec) /\ Script[q] = RowsOf(q) \o After(q)
    BY <1>3, ScriptIs
  <2>2. <<>> \o Script[q] = Script[q]
    BY <2>1, ConcatEmptySeq
  <2> QED
    BY <1>4, <1>7, <2>1, <2>2 DEF AtStart
<1>10. (Opening(c) /\ Midway(c) /\ Ending(c))'
    BY <1>4, <1>5, <1>9 DEF Opening, Midway, Ending
<1>11. Advances(c)
    BY <1>8, <1>10 DEF Advances, ScriptOK, ReadOK
<1> QED
    BY <1>4, <1>5, <1>6, <1>11, MovedBy

LEMMA ExecuteFailedMoves ==
    ASSUME IInv, FailedBorn, ExecuteFailed
    PROVE  Moved(Top.cur)
<1>0. PICK c \in Cursors : c = Top.cur
    BY ReturnFacts DEF ExecuteFailed
<1>1. /\ Cells /\ stack # <<>> /\ cur[c].st = "open" /\ cur[c].stmt \in Stmts
    BY <1>0, ReturnFacts DEF ExecuteFailed
<1>2. PICK s \in Stmts : s = cur[c].stmt
    BY <1>1
<1>3. /\ stmt' = Dropped(s) /\ cur' = [cur EXCEPT ![c].locked = FALSE]
      /\ read' = [read EXCEPT ![c].err = "step"] /\ Pop /\ UNCHANGED it
    BY <1>0, <1>2 DEF ExecuteFailed, Raised
<1>4. Others(c) /\ read'[c].err = "step"
    BY <1>1, <1>3 DEF Others, Cells, ReadRec
<1>5. PICK r : /\ Dropped(s) = [stmt EXCEPT ![s] = r]
               /\ r.st = stmt[s].st /\ r.sql = stmt[s].sql /\ r.failed
    BY DroppedIs
<1>6. Holds(c, s) /\ stmt' = [stmt EXCEPT ![s] = r]
    BY <1>1, <1>2, <1>3, <1>5 DEF Holds
<1>7. /\ StmtsGo
      /\ \A d \in Cursors \ {c}, x \in Stmts :
            ~stmt[x].failed /\ Holds(d, x) => stmt'[x] = stmt[x]
    BY <1>5, <1>6, MoveHeld
<1>8. \A d \in Cursors \ {c} : Busy(d)' <=> Busy(d)
    BY <1>0, <1>1, <1>3, PopBusy
<1>9. Advances(c)
    BY <1>4, ReadOver
<1> QED
    BY <1>0, <1>4, <1>7, <1>8, <1>9, MovedBy

\* What a step that returns with a row or at the end does to the statements.
LEMMA SteppedMoves ==
    ASSUME IInv, FailedBorn, NEW c \in Cursors, cur[c].st = "open",
           NEW s \in Stmts, s = cur[c].stmt, NEW o \in StepOutcomes(s), stmt' = Stepped(s, o),
           cur'[c].stmt = s
    PROVE  /\ StmtsGo
           /\ \A d \in Cursors \ {c}, x \in Stmts :
                 ~stmt[x].failed /\ Holds(d, x) => stmt'[x] = stmt[x]
           /\ TextOf(c)' = TextOf(c) /\ PosOf(c)' = PosAfter(s, o)
           /\ o = "row" => PosOf(c) < RowCount[TextOf(c)] /\ PosOf(c)' = PosOf(c) + 1
           /\ o = "done" => ~(PosOf(c) < RowCount[TextOf(c)])
<1>1. PICK r : /\ Stepped(s, o) = [stmt EXCEPT ![s] = r]
               /\ r.st = stmt[s].st /\ r.sql = stmt[s].sql /\ r.failed = stmt[s].failed
               /\ r.pos = PosAfter(s, o)
    BY SteppedIs
<1>2. /\ Holds(c, s) /\ stmt' = [stmt EXCEPT ![s] = r]
      /\ r.st = stmt[s].st /\ r.sql = stmt[s].sql /\ (stmt[s].failed => r.failed)
    BY <1>1 DEF Holds
<1>3. /\ StmtsGo
      /\ \A d \in Cursors \ {c}, x \in Stmts :
            ~stmt[x].failed /\ Holds(d, x) => stmt'[x] = stmt[x]
      /\ stmt'[s] = r
    BY <1>2, MoveHeld
<1> QED
    BY <1>1, <1>3, Outcomes DEF TextOf, PosOf

LEMMA ExecuteRowMoves ==
    ASSUME IInv, FailedBorn, FollowsScript, ExecuteRow
    PROVE  Moved(Top.cur)
<1>0. PICK c \in Cursors : c = Top.cur
    BY ReturnFacts DEF ExecuteRow
<1>1. /\ Cells /\ stack # <<>> /\ cur[c].st = "open" /\ cur[c].stmt \in Stmts
      /\ it[c].st = "none" /\ cur[c] \in CurRec /\ Busy(c) /\ ScriptOK(c)
    BY <1>0, ReturnFacts, TopFacts DEF ExecuteRow, Fits, FollowsScript
<1>2. PICK s \in Stmts : s = cur[c].stmt
    BY <1>1
<1>3. /\ "row" \in StepOutcomes(s) /\ stmt' = Stepped(s, "row")
      /\ cur' = [cur EXCEPT ![c].exhausted = FALSE, ![c].locked = FALSE]
      /\ Pop /\ UNCHANGED it /\ UNCHANGED read
    BY <1>0, <1>2 DEF ExecuteRow
<1>4. Others(c) /\ cur'[c].stmt = s /\ cur'[c].next = cur[c].next /\ ~cur'[c].exhausted
    BY <1>1, <1>2, <1>3 DEF Others, Cells, CurRec
<1>5. ~Busy(c)' /\ \A d \in Cursors \ {c} : Busy(d)' <=> Busy(d)
    BY <1>0, <1>1, <1>3, PopBusy
<1>6. /\ StmtsGo
      /\ \A d \in Cursors \ {c}, x \in Stmts :
            ~stmt[x].failed /\ Holds(d, x) => stmt'[x] = stmt[x]
      /\ TextOf(c)' = TextOf(c)
      /\ PosOf(c) < RowCount[TextOf(c)] /\ PosOf(c)' = PosOf(c) + 1
    BY <1>1, <1>2, <1>3, <1>4, SteppedMoves
<1>7. OnScript(c) => OnScript(c)'
    BY <1>3, <1>4, <1>6 DEF OnScript
<1>8. ASSUME Started(c), OnScript(c), Opening(c), Ending(c)
      PROVE  (Opening(c) /\ Midway(c) /\ Ending(c))'
  <2>1. AtStart(c) /\ ~read[c].ended
    BY <1>1, <1>8 DEF Opening, Ending
  <2>2. PosOf(c) = 0 /\ TextOf(c) \in Sqls /\ RowCount[TextOf(c)] \in Nat
        /\ RowsOf(TextOf(c)) = RowsFrom(TextOf(c), 1)
    BY <1>8, <2>1, RowsAre DEF AtStart, OnScript
  <2>3. AtRow(c)'
    <3>1. PosOf(c)' = 1 /\ 1 \in 1..RowCount[TextOf(c)]
      BY <1>6, <2>2
    <3>2. read[c].rows \o (RowsFrom(TextOf(c), 1) \o After(TextOf(c))) = Script[read[c].sql]
      BY <2>1, <2>2 DEF AtStart
    <3> QED
      BY <1>3, <1>6, <3>1, <3>2 DEF AtRow
  <2> QED
    BY <1>1, <1>3, <1>4, <1>5, <2>1, <2>3 DEF Opening, Midway, Ending
<1>9. Advances(c)
    BY <1>1, <1>3, <1>6, <1>7, <1>8, ReadGoesOn
<1> QED
    BY <1>0, <1>4, <1>5, <1>6, <1>9, MovedBy

\* A statement that yields no row, of a text that ends with it.
LEMMA NothingLeft ==
    ASSUME IInv, NEW c \in Cursors, Started(c), ScriptOK(c), cur[c].next = None,
           AtEnd(c) \/ (AtStart(c) /\ ~(PosOf(c) < RowCount[TextOf(c)]))
    PROVE  Over(c)
<1>1. TextOf(c) \in Sqls /\ Rest[TextOf(c)] = None /\ read[c].rows \in Seq(RowRec)
    BY ReaderFacts
<1>2. After(TextOf(c)) = <<>> /\ After(TextOf(c)) \in Seq(RowRec) /\ RowCount[TextOf(c)] \in Nat
    BY <1>1, ScriptIs, RowsAre DEF After
<1>3. read[c].rows \o After(TextOf(c)) = read[c].rows
    BY <1>1, <1>2, ConcatEmptySeq
<1>4. CASE AtStart(c) /\ ~(PosOf(c) < RowCount[TextOf(c)])
  <2>1. RowCount[TextOf(c)] = 0
    BY <1>2, <1>4 DEF AtStart
  <2>2. RowsOf(TextOf(c)) \o After(TextOf(c)) = After(TextOf(c))
    BY <1>1, <1>2, <2>1, NoRowsOf
  <2> QED
    BY <1>3, <1>4, <2>2 DEF AtStart, Over
<1> QED
    BY <1>3, <1>4 DEF AtEnd, Over

LEMMA ExecuteDoneMoves ==
    ASSUME IInv, FailedBorn, FollowsScript, ExecuteDone
    PROVE  Moved(Top.cur)
<1>0. PICK c \in Cursors : c = Top.cur
    BY ReturnFacts DEF ExecuteDone
<1>1. /\ Cells /\ stack # <<>> /\ cur[c].st = "open" /\ cur[c].stmt \in Stmts
      /\ it[c].st = "none" /\ cur[c] \in CurRec /\ Busy(c) /\ ScriptOK(c)
    BY <1>0, ReturnFacts, TopFacts DEF ExecuteDone, Fits, FollowsScript
<1>2. PICK s \in Stmts : s = cur[c].stmt
    BY <1>1
<1>3. /\ "done" \in StepOutcomes(s) /\ stmt' = Stepped(s, "done") /\ cur[c].next = None
      /\ cur' = [cur EXCEPT ![c].locked = FALSE]
      /\ Pop /\ UNCHANGED it /\ UNCHANGED read
    BY <1>0, <1>2 DEF ExecuteDone
<1>4. /\ Others(c) /\ cur'[c].stmt = s /\ cur'[c].next = cur[c].next
      /\ cur'[c].exhausted = cur[c].exhausted
    BY <1>1, <1>2, <1>3 DEF Others, Cells, CurRec
<1>5. ~Busy(c)' /\ \A d \in Cursors \ {c} : Busy(d)' <=> Busy(d)
    BY <1>0, <1>1, <1>3, PopBusy
<1>6. /\ StmtsGo
      /\ \A d \in Cursors \ {c}, x \in Stmts :
            ~stmt[x].failed /\ Holds(d, x) => stmt'[x] = stmt[x]
      /\ TextOf(c)' = TextOf(c) /\ ~(PosOf(c) < RowCount[TextOf(c)])
    BY <1>1, <1>2, <1>3, <1>4, SteppedMoves
<1>7. OnScript(c) => OnScript(c)'
    BY <1>3, <1>4, <1>6 DEF OnScript
<1>8. ASSUME Started(c), OnScript(c), Opening(c), Ending(c)
      PROVE  (Opening(c) /\ Midway(c) /\ Ending(c))'
  <2>1. AtStart(c) /\ cur[c].exhausted /\ ~read[c].ended
    BY <1>1, <1>8 DEF Opening, Ending
  <2>2. Over(c)
    BY <1>1, <1>3, <1>6, <1>8, <2>1, NothingLeft
  <2>3. Over(c)'
    BY <1>3, <2>2 DEF Over
  <2> QED
    BY <1>1, <1>3, <1>4, <1>5, <2>1, <2>3 DEF Opening, Midway, Ending
<1>9. Advances(c)
    BY <1>1, <1>3, <1>6, <1>7, <1>8, ReadGoesOn
<1> QED
    BY <1>0, <1>4, <1>5, <1>6, <1>9, MovedBy

\* A script goes on with what is left of the text.
LEMMA ScriptGoesOn ==
    ASSUME IInv, NEW c \in Cursors, Started(c), ScriptOK(c), UNCHANGED read,
           TextOf(c)' \in Sqls, PosOf(c)' = 0,
           RowsOf(TextOf(c)') \o After(TextOf(c)') = After(TextOf(c)),
           AtEnd(c) \/ (AtStart(c) /\ ~(PosOf(c) < RowCount[TextOf(c)]))
    PROVE  AtStart(c)'
<1>1. TextOf(c) \in Sqls /\ read[c].rows \in Seq(RowRec)
    BY ReaderFacts
<1>2. After(TextOf(c)) \in Seq(RowRec) /\ RowCount[TextOf(c)] \in Nat
    BY <1>1, ScriptIs, RowsAre
<1>3. AtEnd(c)
  <2>1. CASE AtStart(c) /\ ~(PosOf(c) < RowCount[TextOf(c)])
    <3>1. RowCount[TextOf(c)] = 0
      BY <1>2, <2>1 DEF AtStart
    <3>2. RowsOf(TextOf(c)) \o After(TextOf(c)) = After(TextOf(c))
      BY <1>1, <1>2, <3>1, NoRowsOf
    <3> QED
      BY <2>1, <3>2 DEF AtStart, AtEnd
  <2> QED
    BY <2>1
<1> QED
    BY <1>3 DEF AtStart, AtEnd

LEMMA ExecuteNextMoves ==
    ASSUME IInv, FailedBorn, FollowsScript, ExecuteNext
    PROVE  Moved(Top.cur)
<1>0. PICK c \in Cursors : c = Top.cur
    BY ReturnFacts DEF ExecuteNext
<1>1. /\ Cells /\ stack # <<>> /\ cur[c].st = "open" /\ cur[c].stmt \in Stmts
      /\ it[c].st = "none" /\ Busy(c) /\ ScriptOK(c)
    BY <1>0, ReturnFacts, TopFacts DEF ExecuteNext, Fits, FollowsScript
<1>2. PICK s \in Stmts : s = cur[c].stmt
    BY <1>1
<1>3. /\ "done" \in StepOutcomes(s) /\ cur[c].next # None /\ NextStatement(c)
      /\ UNCHANGED it /\ UNCHANGED stack /\ UNCHANGED read
    BY <1>0, <1>2, Zenon DEF ExecuteNext
<1>4. /\ StmtsGo
      /\ \A d \in Cursors, x \in Stmts :
            ~stmt[x].failed /\ Holds(d, x) => stmt'[x] = stmt[x]
      /\ \A d \in Cursors \ {c} : cur'[d] = cur[d]
      /\ cur'[c].exhausted = cur[c].exhausted
      /\ Started(c) /\ ScriptOK(c) =>
            /\ TextOf(c)' = Rest[TextOf(c)] /\ TextOf(c)' \in Sqls /\ PosOf(c)' = 0
            /\ cur'[c].next = Rest[TextOf(c)']
            /\ Texts[TextOf(c)'] \subseteq Texts[read[c].sql]
            /\ RowsOf(TextOf(c)') \o After(TextOf(c)') = After(TextOf(c))
    BY <1>1, <1>3, NextText
<1>5. Others(c)
    BY <1>3, <1>4 DEF Others
<1>6. Busy(c)' /\ \A d \in Cursors \ {c} : Busy(d)' <=> Busy(d)
    BY <1>1, <1>3 DEF Busy
<1>7. Started(c) => OnScript(c)'
    BY <1>1, <1>3, <1>4 DEF OnScript
<1>8. ASSUME Started(c), Opening(c), Ending(c)
      PROVE  (Opening(c) /\ Midway(c) /\ Ending(c))'
  <2>1. AtStart(c) /\ cur[c].exhausted /\ ~read[c].ended
    BY <1>1, <1>8 DEF Opening, Ending
  <2>2. ~(PosOf(c) < RowCount[TextOf(c)])
    BY <1>2, <1>3, Outcomes DEF PosOf, TextOf
  <2>3. AtStart(c)'
    BY <1>1, <1>3, <1>4, <1>8, <2>1, <2>2, ScriptGoesOn
  <2> QED
    BY <1>1, <1>3, <1>4, <1>6, <2>1, <2>3 DEF Opening, Midway, Ending
<1>9. Advances(c)
    BY <1>1, <1>3, <1>4, <1>7, <1>8, ReadGoesOn
<1> QED
    BY <1>0, <1>4, <1>5, <1>6, <1>9, MovedBy

\* A text that cannot be gone on with.
LEMMA NextFails ==
    ASSUME IInv, FailedBorn, NEW c \in Cursors, cur[c].st = "open", cur[c].next # None,
           NextStatement(c) \/ (UNCHANGED stmt /\ \A d \in Cursors \ {c} : cur'[d] = cur[d])
    PROVE  /\ StmtsGo
           /\ \A d \in Cursors, x \in Stmts :
                 ~stmt[x].failed /\ Holds(d, x) => stmt'[x] = stmt[x]
           /\ \A d \in Cursors \ {c} : cur'[d] = cur[d]
BY MoveNone, NextText

LEMMA ExecuteNextFailedMoves ==
    ASSUME IInv, FailedBorn, ExecuteNextFailed
    PROVE  Moved(Top.cur)
<1>0. PICK c \in Cursors : c = Top.cur
    BY ReturnFacts DEF ExecuteNextFailed
<1>1. /\ Cells /\ stack # <<>> /\ cur[c] \in CurRec /\ cur[c].st = "open"
    BY <1>0, ReturnFacts DEF ExecuteNextFailed
<1>2. /\ cur[c].next # None /\ Pop /\ UNCHANGED it
      /\ read' = [read EXCEPT ![c].err = "step"]
    BY <1>0 DEF ExecuteNextFailed, Raised
<1>3. /\ StmtsGo
      /\ \A d \in Cursors, x \in Stmts :
            ~stmt[x].failed /\ Holds(d, x) => stmt'[x] = stmt[x]
      /\ \A d \in Cursors \ {c} : cur'[d] = cur[d]
  <2>1. CASE UNCHANGED stmt /\ cur' = [cur EXCEPT ![c].locked = FALSE]
    BY <1>1, <1>2, <2>1, NextFails DEF Cells
  <2>2. CASE \E r \in Stmts :
               /\ Get(cur[c].next, r)
               /\ stmt' = Dirty(cur[c].next, r)
               /\ cur' = [cur EXCEPT ![c].stmt = r, ![c].next = Rest[cur[c].next],
                                     ![c].locked = FALSE]
    <3>1. PICK q \in Sqls : q = cur[c].next
      BY <1>1, <1>2 DEF CurRec
    <3>2. PICK r \in Stmts :
               /\ Get(q, r) /\ stmt' = Dirty(q, r)
               /\ cur' = [cur EXCEPT ![c].stmt = r, ![c].next = Rest[q], ![c].locked = FALSE]
      BY <2>2, <3>1
    <3> QED
      BY <1>1, <3>2, MoveGet DEF Cells
  <2> QED
    BY <1>0, <2>1, <2>2, Zenon DEF ExecuteNextFailed
<1>4. Others(c) /\ read'[c].err = "step"
    BY <1>1, <1>2, <1>3 DEF Others, Cells, ReadRec
<1>5. \A d \in Cursors \ {c} : Busy(d)' <=> Busy(d)
    BY <1>0, <1>1, <1>2, PopBusy
<1>6. Advances(c)
    BY <1>4, ReadOver
<1> QED
    BY <1>0, <1>3, <1>4, <1>5, <1>6, MovedBy

-----------------------------------------------------------------------------
(* Cursor.__iter__ *)

LEMMA StartIterMoves ==
    ASSUME IInv, FailedBorn, FollowsScript, NEW c \in Cursors, StartIter(c)
    PROVE  Moved(c)
<1>1. /\ Cells /\ ~Busy(c) /\ ScriptOK(c)
    BY IdleFacts DEF StartIter, FollowsScript
<1>2. /\ it[c].st \in {"none", "mid"}
      /\ it' = [it EXCEPT ![c] = [NoIter EXCEPT !.st = "new"]]
      /\ UNCHANGED stmt /\ UNCHANGED cur /\ UNCHANGED stack /\ UNCHANGED read
    BY DEF StartIter
<1>3. Others(c) /\ it'[c].st = "new"
    BY <1>1, <1>2, RecordTypes DEF Others, Cells
<1>4. \A d \in Cursors : Busy(d)' <=> Busy(d)
    BY <1>2 DEF Busy
<1>5. StmtsGo /\ \A d \in Cursors, x \in Stmts :
            ~stmt[x].failed /\ Holds(d, x) => stmt'[x] = stmt[x]
    BY <1>2, MoveNone
<1>6. OnScript(c) => OnScript(c)'
    BY <1>2 DEF OnScript, TextOf
<1>7. ASSUME Opening(c), Midway(c), Ending(c), ~Restarts(c)
      PROVE  (Opening(c) /\ Midway(c) /\ Ending(c))'
  <2>1. /\ cur[c].exhausted => Over(c)
        /\ ~cur[c].exhausted => AtRow(c)
        /\ ~read[c].ended
    BY <1>1, <1>2, <1>3, <1>7 DEF Opening, Midway, Ending, Restarts
  <2>2. (Over(c)' <=> Over(c)) /\ (AtRow(c)' <=> AtRow(c))
    BY <1>2 DEF Over, AtRow, TextOf, PosOf
  <2> QED
    BY <1>1, <1>2, <1>3, <1>4, <2>1, <2>2 DEF Opening, Midway, Ending
<1>8. Advances(c)
    BY <1>1, <1>2, <1>5, <1>6, <1>7, ReadGoesOn
<1> QED
    BY <1>3, <1>4, <1>5, <1>8, MovedBy

\* The generator takes the row its statement is on.
LEMMA TakesRow ==
    ASSUME IInv, FailedBorn, FollowsScript, NEW c \in Cursors, ~Busy(c), NEW s, NEW n,
           Take(c, s, n), n = PosOf(c), Push(Frame("row", c)),
           UNCHANGED stmt, UNCHANGED cur, UNCHANGED read,
           (it[c].st = "new" /\ ~cur[c].exhausted) \/ (it[c].st = "mid" /\ it[c].ret = "row")
    PROVE  Moved(c)
<1>1. Cells /\ ScriptOK(c)
    BY Parts DEF FollowsScript
<1>2. /\ Others(c) /\ it'[c].st = "mid" /\ it'[c].ret = "row" /\ it'[c].row = n
    BY <1>1 DEF Others, Cells, Take
<1>3. Busy(c)' /\ \A d \in Cursors \ {c} : Busy(d)' <=> Busy(d)
    BY PushBusy
<1>5. StmtsGo /\ \A d \in Cursors, x \in Stmts :
            ~stmt[x].failed /\ Holds(d, x) => stmt'[x] = stmt[x]
    BY MoveNone
<1>6. OnScript(c) => OnScript(c)'
    BY DEF OnScript, TextOf
<1>7. ASSUME Opening(c), Midway(c), Ending(c)
      PROVE  (Opening(c) /\ Midway(c) /\ Ending(c))'
  <2>1. AtRow(c) /\ ~cur[c].exhausted /\ ~read[c].ended
    BY <1>7 DEF Opening, Midway, Ending
  <2>2. AtRow(c)' /\ PosOf(c)' = PosOf(c)
    BY <2>1 DEF AtRow, TextOf, PosOf
  <2> QED
    BY <1>2, <1>3, <2>1, <2>2 DEF Opening, Midway, Ending
<1>8. Advances(c)
    BY <1>1, <1>5, <1>6, <1>7, ReadGoesOn
<1> QED
    BY <1>2, <1>3, <1>5, <1>8, MovedBy

LEMMA BeginRowsMoves ==
    ASSUME IInv, FailedBorn, FollowsScript, NEW c \in Cursors, BeginRows(c)
    PROVE  Moved(c)
<1>1. ~Busy(c)
    BY IdleFacts DEF BeginRows
<1>2. /\ Take(c, cur[c].stmt, PosOf(c)) /\ Push(Frame("row", c))
      /\ UNCHANGED stmt /\ UNCHANGED cur /\ UNCHANGED read
      /\ it[c].st = "new" /\ ~cur[c].exhausted
    BY DEF BeginRows, PosOf
<1> QED
    BY <1>1, <1>2, TakesRow

LEMMA NextRowMoves ==
    ASSUME IInv, FailedBorn, FollowsScript, NEW c \in Cursors, NextRow(c)
    PROVE  Moved(c)
<1>1. ~Busy(c) /\ it[c].stmt = cur[c].stmt
    BY IdleFacts DEF NextRow, Reading
<1>2. /\ Take(c, it[c].stmt, PosOf(c)) /\ Push(Frame("row", c))
      /\ UNCHANGED stmt /\ UNCHANGED cur /\ UNCHANGED read
      /\ it[c].st = "mid" /\ it[c].ret = "row"
    BY <1>1 DEF NextRow, PosOf
<1> QED
    BY <1>1, <1>2, TakesRow

\* The iteration is over: every row has been read.
LEMMA Stops ==
    ASSUME IInv, FailedBorn, FollowsScript, NEW c \in Cursors, Others(c),
           StopIteration(c), StmtsGo, TextOf(c)' = TextOf(c), cur'[c].next = cur[c].next,
           \A d \in Cursors \ {c}, x \in Stmts :
              ~stmt[x].failed /\ Holds(d, x) => stmt'[x] = stmt[x],
           \A d \in Cursors \ {c} : Busy(d)' <=> Busy(d),
           Started(c) /\ Opening(c) /\ Midway(c) => Over(c)
    PROVE  Moved(c)
<1>1. Cells /\ ScriptOK(c)
    BY Parts DEF FollowsScript
<1>2. /\ it'[c].st = "dead" /\ read'[c].sql = read[c].sql /\ read'[c].err = read[c].err
      /\ read'[c].rows = read[c].rows
  <2>1. it \in [Cursors -> IterRec] /\ it' = [it EXCEPT ![c] = DeadIter]
    BY <1>1 DEF StopIteration, Cells
  <2>2. it'[c].st = "dead"
    BY <2>1, RecordTypes
  <2>3. /\ read \in [Cursors -> ReadRec] /\ read[c] \in ReadRec
        /\ read' = [read EXCEPT ![c].ended = TRUE]
    BY <1>1 DEF StopIteration, Cells
  <2>4. /\ read'[c].sql = read[c].sql /\ read'[c].err = read[c].err
        /\ read'[c].rows = read[c].rows
    BY <2>3 DEF ReadRec
  <2> QED
    BY <2>2, <2>4
<1>3. OnScript(c) => OnScript(c)'
    BY <1>2 DEF OnScript
<1>4. Over(c) => Over(c)'
    BY <1>2 DEF Over
<1>5. ASSUME Started(c), Opening(c), Midway(c)
      PROVE  (Opening(c) /\ Midway(c) /\ Ending(c))'
    BY <1>2, <1>4, <1>5 DEF Opening, Midway, Ending
<1>6. Advances(c)
    BY <1>1, <1>2, <1>3, <1>5, ReadGoesOn
<1> QED
    BY <1>6, MovedBy

LEMMA NoRowsMoves ==
    ASSUME IInv, FailedBorn, FollowsScript, NEW c \in Cursors, NoRows(c)
    PROVE  Moved(c)
<1>1. Cells /\ ~Busy(c) /\ cur[c] \in CurRec
    BY IdleFacts DEF NoRows
<1>2. /\ it[c].st = "new" /\ cur[c].exhausted /\ StopIteration(c)
      /\ cur' = [cur EXCEPT ![c].locked = FALSE] /\ UNCHANGED stmt /\ UNCHANGED stack
    BY DEF NoRows
<1>3. Others(c) /\ cur'[c].stmt = cur[c].stmt /\ cur'[c].next = cur[c].next
    BY <1>1, <1>2 DEF Others, Cells, StopIteration, CurRec
<1>4. TextOf(c)' = TextOf(c) /\ \A d \in Cursors \ {c} : Busy(d)' <=> Busy(d)
    BY <1>2, <1>3 DEF TextOf, Busy
<1>5. Opening(c) => Over(c)
    BY <1>1, <1>2 DEF Opening
<1>6. StmtsGo /\ \A d \in Cursors, x \in Stmts :
            ~stmt[x].failed /\ Holds(d, x) => stmt'[x] = stmt[x]
    BY <1>2, MoveNone
<1> QED
    BY <1>2, <1>3, <1>4, <1>5, <1>6, Stops

LEMMA LastRowMoves ==
    ASSUME IInv, FailedBorn, FollowsScript, NEW c \in Cursors, LastRow(c)
    PROVE  Moved(c)
<1>1. Cells /\ ~Busy(c) /\ cur[c] \in CurRec /\ ScriptOK(c)
    BY IdleFacts DEF LastRow, FollowsScript
<1>2. /\ it[c].st = "mid" /\ it[c].ret = "done" /\ cur[c].next = None /\ StopIteration(c)
      /\ cur' = [cur EXCEPT ![c].exhausted = TRUE, ![c].locked = FALSE]
      /\ UNCHANGED stmt /\ UNCHANGED stack
    BY DEF LastRow
<1>3. Others(c) /\ cur'[c].stmt = cur[c].stmt /\ cur'[c].next = cur[c].next
    BY <1>1, <1>2 DEF Others, Cells, StopIteration, CurRec
<1>4. TextOf(c)' = TextOf(c) /\ \A d \in Cursors \ {c} : Busy(d)' <=> Busy(d)
    BY <1>2, <1>3 DEF TextOf, Busy
<1>5. ASSUME Started(c), Midway(c) PROVE Over(c)
  <2>1. AtEnd(c)
    BY <1>1, <1>2, <1>5 DEF Midway
  <2> QED
    BY <1>1, <1>2, <1>5, <2>1, NothingLeft
<1>6. StmtsGo /\ \A d \in Cursors, x \in Stmts :
            ~stmt[x].failed /\ Holds(d, x) => stmt'[x] = stmt[x]
    BY <1>2, MoveNone
<1> QED
    BY <1>2, <1>3, <1>4, <1>5, <1>6, Stops

LEMMA RestDoneMoves ==
    ASSUME IInv, FailedBorn, FollowsScript, RestDone
    PROVE  Moved(Top.cur)
<1>0. PICK c \in Cursors : c = Top.cur
    BY ReturnFacts DEF RestDone
<1>1. /\ Cells /\ stack # <<>> /\ cur[c].st = "open" /\ cur[c].stmt \in Stmts
      /\ it[c].st = "mid" /\ it[c].ret = "done" /\ cur[c] \in CurRec /\ Busy(c) /\ ScriptOK(c)
    BY <1>0, ReturnFacts, TopFacts DEF RestDone, Fits, FollowsScript
<1>2. PICK s \in Stmts : s = cur[c].stmt
    BY <1>1
<1>3. /\ "done" \in StepOutcomes(s) /\ stmt' = Stepped(s, "done") /\ cur[c].next = None
      /\ cur' = [cur EXCEPT ![c].locked = FALSE]
      /\ Pop /\ StopIteration(c)
    BY <1>0, <1>2 DEF RestDone
<1>4. Others(c) /\ cur'[c].stmt = s /\ cur'[c].next = cur[c].next
    BY <1>1, <1>2, <1>3 DEF Others, Cells, CurRec, StopIteration
<1>5. \A d \in Cursors \ {c} : Busy(d)' <=> Busy(d)
    BY <1>0, <1>1, <1>3, PopBusy
<1>6. /\ StmtsGo
      /\ \A d \in Cursors \ {c}, x \in Stmts :
            ~stmt[x].failed /\ Holds(d, x) => stmt'[x] = stmt[x]
      /\ TextOf(c)' = TextOf(c) /\ ~(PosOf(c) < RowCount[TextOf(c)])
    BY <1>1, <1>2, <1>3, <1>4, SteppedMoves
<1>7. ASSUME Started(c), Midway(c) PROVE Over(c)
  <2>1. AtStart(c)
    BY <1>1, <1>7 DEF Midway
  <2> QED
    BY <1>1, <1>3, <1>6, <1>7, <2>1, NothingLeft
<1> QED
    BY <1>0, <1>3, <1>4, <1>5, <1>6, <1>7, Stops

LEMMA RowReturnMoves ==
    ASSUME IInv, FailedBorn, FollowsScript, RowReturn
    PROVE  Moved(Top.cur)
<1>0. PICK c \in Cursors : c = Top.cur
    BY ReturnFacts DEF RowReturn
<1>1. /\ Cells /\ stack # <<>> /\ cur[c].st = "open" /\ cur[c].stmt \in Stmts
      /\ it[c].st = "mid" /\ it[c].ret = "row" /\ Busy(c) /\ ScriptOK(c)
      /\ it[c].stmt = cur[c].stmt /\ read[c] \in ReadRec
    BY <1>0, ReturnFacts, TopFacts DEF RowReturn, Fits, FollowsScript, Reading
<1>2. PICK s \in Stmts : s = cur[c].stmt
    BY <1>1
<1>. DEFINE e == [sql |-> TextOf(c), row |-> it[c].row]
            R == IF Untroubled(c) THEN Append(read[c].rows, e) ELSE <<>>
<1>3. PICK o \in StepOutcomes(s) : stmt' = Stepped(s, o) /\ it' = [it EXCEPT ![c].ret = o]
    BY <1>0, <1>1, <1>2, Zenon DEF RowReturn
<1>4. read' = [read EXCEPT ![c].rows = R] /\ Pop /\ UNCHANGED cur
    BY <1>0, <1>1, <1>2 DEF RowReturn, TextOf
<1>. HIDE DEF R
<1>5. /\ Others(c) /\ it'[c].st = "mid" /\ it'[c].ret = o
      /\ read'[c].sql = read[c].sql /\ read'[c].err = read[c].err
      /\ read'[c].ended = read[c].ended /\ read'[c].rows = R
    BY <1>1, <1>3, <1>4 DEF Others, Cells, IterRec, ReadRec
<1>6. ~Busy(c)' /\ \A d \in Cursors \ {c} : Busy(d)' <=> Busy(d)
    BY <1>0, <1>1, <1>4, PopBusy
<1>7. /\ StmtsGo
      /\ \A d \in Cursors \ {c}, x \in Stmts :
            ~stmt[x].failed /\ Holds(d, x) => stmt'[x] = stmt[x]
      /\ TextOf(c)' = TextOf(c)
      /\ o = "row" => PosOf(c) < RowCount[TextOf(c)] /\ PosOf(c)' = PosOf(c) + 1
      /\ o = "done" => ~(PosOf(c) < RowCount[TextOf(c)])
    BY <1>1, <1>2, <1>3, <1>4, SteppedMoves
<1>8. OnScript(c) => OnScript(c)'
    BY <1>4, <1>5, <1>7 DEF OnScript
<1>9. ASSUME Started(c), Untroubled(c), Midway(c), Ending(c)
      PROVE  (Opening(c) /\ Midway(c) /\ Ending(c))'
  <2>1. AtRow(c) /\ it[c].row = PosOf(c) /\ ~cur[c].exhausted /\ ~read[c].ended
    BY <1>1, <1>9 DEF Midway, Ending
  <2>2. PICK q \in Sqls : q = TextOf(c)
    BY <1>1, <1>9, ReaderFacts
  <2>3. PICK k \in 1..RowCount[q] : k = PosOf(c)
    BY <2>1, <2>2 DEF AtRow
  <2>4. PICK p \in Seq(RowRec) : p = read[c].rows
    BY <1>1 DEF ReadRec
  <2>5. PICK X \in Seq(RowRec) : X = After(q)
    BY ScriptIs
  <2>6. R = Append(p, [sql |-> q, row |-> k])
    BY <1>9, <2>1, <2>2, <2>3, <2>4 DEF R
  <2>7. p \o (RowsFrom(q, k) \o X) = Script[read[c].sql]
    BY <2>1, <2>2, <2>3, <2>4, <2>5 DEF AtRow
  <2>8. /\ R \in Seq(RowRec)
        /\ k < RowCount[q] => R \o (RowsFrom(q, k + 1) \o X) = Script[read[c].sql]
        /\ k = RowCount[q] => R \o X = Script[read[c].sql]
    BY <2>6, <2>7, RowTaken
  <2>9. RowCount[q] \in Nat /\ k \in Nat /\ (k < RowCount[q] \/ k = RowCount[q])
    <3>1. RowCount[q] \in Nat
      BY RowsAre
    <3> QED
      BY <3>1
  <2>10. ASSUME o = "row" PROVE AtRow(c)'
    <3>1. k < RowCount[q] /\ PosOf(c)' = k + 1 /\ k + 1 \in 1..RowCount[q]
      BY <1>7, <2>2, <2>3, <2>9, <2>10
    <3> QED
      BY <1>5, <1>7, <2>2, <2>5, <2>8, <3>1 DEF AtRow
  <2>11. ASSUME o = "done" PROVE AtEnd(c)'
    <3>1. k = RowCount[q]
      BY <1>7, <2>2, <2>3, <2>9, <2>11
    <3> QED
      BY <1>5, <1>7, <2>2, <2>5, <2>8, <3>1 DEF AtEnd
  <2>12. Begins(R, Script[read[c].sql])
    <3>1. CASE k < RowCount[q]
      <4>1. k + 1 \in 1..(RowCount[q] + 1)
        BY <2>9
      <4>2. PICK Y \in Seq(RowRec) : Y = RowsFrom(q, k + 1) \o X
        <5>1. RowsFrom(q, k + 1) \in Seq(RowRec)
          BY <4>1, RowsAre
        <5> QED
          BY <5>1, ConcatProperties
      <4>3. Begins(R, R \o Y)
        BY <2>8, PartBegins
      <4> QED
        BY <2>8, <3>1, <4>2, <4>3
    <3>2. CASE k = RowCount[q]
      <4>1. Begins(R, R \o X)
        BY <2>8, PartBegins
      <4> QED
        BY <2>8, <3>2, <4>1
    <3> QED
      BY <2>9, <3>1, <3>2
  <2>13. Midway(c)'
    BY <1>4, <1>5, <1>6, <2>1, <2>10, <2>11, <2>12 DEF Midway
  <2> QED
    BY <1>5, <2>1, <2>13 DEF Opening, Ending
<1>10. Advances(c)
    BY <1>1, <1>5, <1>7, <1>8, <1>9, ReadGoesOn
<1> QED
    BY <1>0, <1>5, <1>6, <1>7, <1>10, MovedBy

LEMMA RowFailedMoves ==
    ASSUME IInv, FailedBorn, NEW c \in Cursors, RowFailed(c)
    PROVE  Moved(c)
<1>1. /\ Cells /\ cur[c].st = "open" /\ cur[c].stmt \in Stmts
    BY IdleFacts DEF RowFailed, Reading, HasStmt
<1>2. PICK s \in Stmts : s = cur[c].stmt
    BY <1>1
<1>3. /\ stmt' = Dropped(s) /\ it' = [it EXCEPT ![c] = DeadIter]
      /\ read' = [read EXCEPT ![c].err = "step"] /\ UNCHANGED cur /\ UNCHANGED stack
    BY <1>2 DEF RowFailed, Raised
<1>4. Others(c) /\ read'[c].err = "step"
    BY <1>1, <1>3 DEF Others, Cells, ReadRec
<1>5. PICK r : /\ Dropped(s) = [stmt EXCEPT ![s] = r]
               /\ r.st = stmt[s].st /\ r.sql = stmt[s].sql /\ r.failed
    BY DroppedIs
<1>6. Holds(c, s) /\ stmt' = [stmt EXCEPT ![s] = r]
    BY <1>1, <1>2, <1>3, <1>5 DEF Holds
<1>7. /\ StmtsGo
      /\ \A d \in Cursors \ {c}, x \in Stmts :
            ~stmt[x].failed /\ Holds(d, x) => stmt'[x] = stmt[x]
    BY <1>5, <1>6, MoveHeld
<1>8. \A d \in Cursors \ {c} : Busy(d)' <=> Busy(d)
    BY <1>3 DEF Busy
<1>9. Advances(c)
    BY <1>4, ReadOver
<1> QED
    BY <1>4, <1>7, <1>8, <1>9, MovedBy

LEMMA RestBeginMoves ==
    ASSUME IInv, FailedBorn, FollowsScript, NEW c \in Cursors, RestBegin(c)
    PROVE  Moved(c)
<1>1. /\ Cells /\ ~Busy(c) /\ cur[c].st = "open" /\ ScriptOK(c)
    BY IdleFacts DEF RestBegin, FollowsScript
<1>2. /\ it[c].st = "mid" /\ it[c].ret = "done" /\ cur[c].next # None
      /\ NextStatement(c) /\ Push(Frame("rest", c)) /\ UNCHANGED it /\ UNCHANGED read
    BY DEF RestBegin
<1>4. /\ StmtsGo
      /\ \A d \in Cursors, x \in Stmts :
            ~stmt[x].failed /\ Holds(d, x) => stmt'[x] = stmt[x]
      /\ \A d \in Cursors \ {c} : cur'[d] = cur[d]
      /\ cur'[c].exhausted = cur[c].exhausted
      /\ Started(c) /\ ScriptOK(c) =>
            /\ TextOf(c)' = Rest[TextOf(c)] /\ TextOf(c)' \in Sqls /\ PosOf(c)' = 0
            /\ cur'[c].next = Rest[TextOf(c)']
            /\ Texts[TextOf(c)'] \subseteq Texts[read[c].sql]
            /\ RowsOf(TextOf(c)') \o After(TextOf(c)') = After(TextOf(c))
    BY <1>1, <1>2, NextText
<1>5. Others(c)
    BY <1>2, <1>4 DEF Others
<1>6. Busy(c)' /\ \A d \in Cursors \ {c} : Busy(d)' <=> Busy(d)
    BY <1>2, PushBusy
<1>7. Started(c) => OnScript(c)'
    BY <1>1, <1>2, <1>4 DEF OnScript
<1>8. ASSUME Started(c), Midway(c), Ending(c)
      PROVE  (Opening(c) /\ Midway(c) /\ Ending(c))'
  <2>1. AtEnd(c) /\ ~cur[c].exhausted /\ ~read[c].ended
    BY <1>1, <1>2, <1>8 DEF Midway, Ending
  <2>2. AtStart(c)'
    BY <1>1, <1>2, <1>4, <1>8, <2>1, ScriptGoesOn
  <2> QED
    BY <1>2, <1>4, <1>6, <2>1, <2>2 DEF Opening, Midway, Ending
<1>9. Advances(c)
    BY <1>1, <1>2, <1>4, <1>7, <1>8, ReadGoesOn
<1> QED
    BY <1>4, <1>5, <1>6, <1>9, MovedBy

LEMMA RestFailedMoves ==
    ASSUME IInv, FailedBorn, NEW c \in Cursors, RestFailed(c)
    PROVE  Moved(c)
<1>1. Cells /\ cur[c].st = "open" /\ cur[c].next # None
    BY IdleFacts DEF RestFailed
<1>2. /\ it' = [it EXCEPT ![c] = DeadIter] /\ read' = [read EXCEPT ![c].err = "step"]
      /\ UNCHANGED stack
    BY DEF RestFailed, Raised
<1>3. NextStatement(c) \/ (UNCHANGED stmt /\ \A d \in Cursors \ {c} : cur'[d] = cur[d])
    BY Zenon DEF RestFailed
<1>4. /\ StmtsGo
      /\ \A d \in Cursors, x \in Stmts :
            ~stmt[x].failed /\ Holds(d, x) => stmt'[x] = stmt[x]
      /\ \A d \in Cursors \ {c} : cur'[d] = cur[d]
    BY <1>1, <1>3, NextFails
<1>5. Others(c) /\ read'[c].err = "step"
    BY <1>1, <1>2, <1>4 DEF Others, Cells, ReadRec
<1>6. \A d \in Cursors \ {c} : Busy(d)' <=> Busy(d)
    BY <1>2 DEF Busy
<1>7. Advances(c)
    BY <1>5, ReadOver
<1> QED
    BY <1>4, <1>5, <1>6, <1>7, MovedBy

LEMMA RestRowMoves ==
    ASSUME IInv, FailedBorn, FollowsScript, RestRow
    PROVE  Moved(Top.cur)
<1>0. PICK c \in Cursors : c = Top.cur
    BY ReturnFacts DEF RestRow
<1>1. /\ Cells /\ stack # <<>> /\ cur[c].st = "open" /\ cur[c].stmt \in Stmts
      /\ it[c].st = "mid" /\ it[c].ret = "done" /\ Busy(c) /\ ScriptOK(c)
    BY <1>0, ReturnFacts, TopFacts DEF RestRow, Fits, FollowsScript
<1>2. PICK s \in Stmts : s = cur[c].stmt
    BY <1>1
<1>3. PICK o \in StepOutcomes(s) \ {"done"} :
         /\ stmt' = Stepped(s, o)
         /\ Take(c, s, PosAfter(s, o))
         /\ IF o = "step" THEN Raised(c, "step") ELSE UNCHANGED read
    BY <1>0, <1>2, Zenon DEF RestRow
<1>4. Swap(Frame("row", c)) /\ UNCHANGED cur
    BY <1>0 DEF RestRow
<1>5. /\ it'[c].st = "mid" /\ it'[c].ret = "row" /\ it'[c].row = PosAfter(s, o)
      /\ \A d \in Cursors \ {c} : it'[d] = it[d]
    BY <1>1, <1>3 DEF Cells, Take
<1>6. Busy(c)' /\ \A d \in Cursors \ {c} : Busy(d)' <=> Busy(d)
    BY <1>0, <1>1, <1>4, SwapBusy
<1>7. /\ StmtsGo
      /\ \A d \in Cursors \ {c}, x \in Stmts :
            ~stmt[x].failed /\ Holds(d, x) => stmt'[x] = stmt[x]
      /\ TextOf(c)' = TextOf(c) /\ PosOf(c)' = PosAfter(s, o)
      /\ o = "row" => PosOf(c) < RowCount[TextOf(c)] /\ PosOf(c)' = PosOf(c) + 1
    BY <1>1, <1>2, <1>3, <1>4, SteppedMoves
<1>8. CASE o = "step"
  <2>1. read' = [read EXCEPT ![c].err = "step"]
    BY <1>3, <1>8 DEF Raised
  <2>2. Others(c) /\ read'[c].err = "step"
    BY <1>1, <1>4, <1>5, <2>1 DEF Others, Cells, ReadRec
  <2>3. Advances(c)
    BY <2>2, ReadOver
  <2> QED
    BY <1>0, <1>6, <1>7, <2>2, <2>3, MovedBy
<1>9. CASE o # "step"
  <2>1. o = "row" /\ UNCHANGED read
    BY <1>3, <1>9, Outcomes
  <2>2. Others(c)
    BY <1>4, <1>5, <2>1 DEF Others
  <2>3. OnScript(c) => OnScript(c)'
    BY <1>4, <1>7, <2>1 DEF OnScript
  <2>4. ASSUME Started(c), Midway(c), Ending(c)
        PROVE  (Opening(c) /\ Midway(c) /\ Ending(c))'
    <3>1. AtStart(c) /\ ~cur[c].exhausted /\ ~read[c].ended
      BY <1>1, <2>4 DEF Midway, Ending
    <3>2. /\ TextOf(c) \in Sqls /\ PosOf(c) = 0 /\ RowCount[TextOf(c)] \in Nat
          /\ RowsOf(TextOf(c)) = RowsFrom(TextOf(c), 1)
      BY <1>1, <2>4, <3>1, ReaderFacts, RowsAre DEF AtStart
    <3>3. PosOf(c)' = 1 /\ 1 \in 1..RowCount[TextOf(c)]
      BY <1>7, <2>1, <3>2
    <3>4. read[c].rows \o (RowsFrom(TextOf(c), 1) \o After(TextOf(c))) = Script[read[c].sql]
      BY <3>1, <3>2 DEF AtStart
    <3>5. AtRow(c)'
      BY <1>7, <2>1, <3>3, <3>4 DEF AtRow
    <3> QED
      BY <1>4, <1>5, <1>6, <1>7, <2>1, <3>1, <3>5 DEF Opening, Midway, Ending
  <2>5. Advances(c)
    BY <1>1, <1>7, <2>1, <2>3, <2>4, ReadGoesOn
  <2> QED
    BY <1>0, <1>6, <1>7, <2>2, <2>5, MovedBy
<1> QED
    BY <1>8, <1>9

LEMMA RestNextMoves ==
    ASSUME IInv, FailedBorn, FollowsScript, RestNext
    PROVE  Moved(Top.cur)
<1>0. PICK c \in Cursors : c = Top.cur
    BY ReturnFacts DEF RestNext
<1>1. /\ Cells /\ stack # <<>> /\ cur[c].st = "open" /\ cur[c].stmt \in Stmts
      /\ it[c].st = "mid" /\ it[c].ret = "done" /\ Busy(c) /\ ScriptOK(c)
    BY <1>0, ReturnFacts, TopFacts DEF RestNext, Fits, FollowsScript
<1>2. PICK s \in Stmts : s = cur[c].stmt
    BY <1>1
<1>3. /\ "done" \in StepOutcomes(s) /\ cur[c].next # None /\ NextStatement(c)
      /\ UNCHANGED it /\ UNCHANGED stack /\ UNCHANGED read
    BY <1>0, <1>2, Zenon DEF RestNext
<1>4. /\ StmtsGo
      /\ \A d \in Cursors, x \in Stmts :
            ~stmt[x].failed /\ Holds(d, x) => stmt'[x] = stmt[x]
      /\ \A d \in Cursors \ {c} : cur'[d] = cur[d]
      /\ cur'[c].exhausted = cur[c].exhausted
      /\ Started(c) /\ ScriptOK(c) =>
            /\ TextOf(c)' = Rest[TextOf(c)] /\ TextOf(c)' \in Sqls /\ PosOf(c)' = 0
            /\ cur'[c].next = Rest[TextOf(c)']
            /\ Texts[TextOf(c)'] \subseteq Texts[read[c].sql]
            /\ RowsOf(TextOf(c)') \o After(TextOf(c)') = After(TextOf(c))
    BY <1>1, <1>3, NextText
<1>5. Others(c)
    BY <1>3, <1>4 DEF Others
<1>6. Busy(c)' /\ \A d \in Cursors \ {c} : Busy(d)' <=> Busy(d)
    BY <1>1, <1>3 DEF Busy
<1>7. Started(c) => OnScript(c)'
    BY <1>1, <1>3, <1>4 DEF OnScript
<1>8. ASSUME Started(c), Midway(c), Ending(c)
      PROVE  (Opening(c) /\ Midway(c) /\ Ending(c))'
  <2>1. AtStart(c) /\ ~cur[c].exhausted /\ ~read[c].ended
    BY <1>1, <1>8 DEF Midway, Ending
  <2>2. ~(PosOf(c) < RowCount[TextOf(c)])
    BY <1>2, <1>3, Outcomes DEF PosOf, TextOf
  <2>3. AtStart(c)'
    BY <1>1, <1>3, <1>4, <1>8, <2>1, <2>2, ScriptGoesOn
  <2> QED
    BY <1>1, <1>3, <1>4, <1>6, <2>1, <2>3 DEF Opening, Midway, Ending
<1>9. Advances(c)
    BY <1>1, <1>3, <1>4, <1>7, <1>8, ReadGoesOn
<1> QED
    BY <1>0, <1>4, <1>5, <1>6, <1>9, MovedBy

LEMMA RestNextFailedMoves ==
    ASSUME IInv, FailedBorn, RestNextFailed
    PROVE  Moved(Top.cur)
<1>0. PICK c \in Cursors : c = Top.cur
    BY ReturnFacts DEF RestNextFailed
<1>1. /\ Cells /\ stack # <<>> /\ cur[c].st = "open"
    BY <1>0, ReturnFacts DEF RestNextFailed
<1>2. /\ cur[c].next # None /\ Pop /\ it' = [it EXCEPT ![c] = DeadIter]
      /\ read' = [read EXCEPT ![c].err = "step"]
    BY <1>0 DEF RestNextFailed, Raised
<1>3. NextStatement(c) \/ (UNCHANGED stmt /\ \A d \in Cursors \ {c} : cur'[d] = cur[d])
    BY <1>0, Zenon DEF RestNextFailed
<1>4. /\ StmtsGo
      /\ \A d \in Cursors, x \in Stmts :
            ~stmt[x].failed /\ Holds(d, x) => stmt'[x] = stmt[x]
      /\ \A d \in Cursors \ {c} : cur'[d] = cur[d]
    BY <1>1, <1>2, <1>3, NextFails
<1>5. Others(c) /\ read'[c].err = "step"
    BY <1>1, <1>2, <1>4 DEF Others, Cells, ReadRec
<1>6. \A d \in Cursors \ {c} : Busy(d)' <=> Busy(d)
    BY <1>0, <1>1, <1>2, PopBusy
<1>7. Advances(c)
    BY <1>5, ReadOver
<1> QED
    BY <1>0, <1>4, <1>5, <1>6, <1>7, MovedBy

-----------------------------------------------------------------------------
(* The end of a cursor *)

LEMMA GoneMoves ==
    ASSUME IInv, FailedBorn, NEW c \in Cursors, Close(c) \/ Forget(c)
    PROVE  Moved(c)
<1>1. Cells /\ cur[c] \in CurRec /\ cur[c].st = "open"
    BY IdleFacts DEF Close, Forget
<1>2. /\ cur' = [cur EXCEPT ![c] = [NewCur EXCEPT !.st = "closed"]]
      /\ it' = [it EXCEPT ![c] = NoIter] /\ read' = [read EXCEPT ![c] = Unread]
      /\ UNCHANGED stack
    BY DEF Close, Forget
<1>3. Others(c) /\ read'[c].sql = None
    BY <1>1, <1>2 DEF Others, Cells, Unread
<1>4. /\ StmtsGo
      /\ \A d \in Cursors \ {c}, x \in Stmts :
            ~stmt[x].failed /\ Holds(d, x) => stmt'[x] = stmt[x]
  <2>1. CASE UNCHANGED stmt
    BY <2>1, MoveNone
  <2>2. CASE ~UNCHANGED stmt
    <3>1. cur[c].stmt # None /\ stmt' = [stmt EXCEPT ![cur[c].stmt].pos = 0, ![cur[c].stmt].use = FALSE]
      BY <2>2 DEF Close, Forget
    <3>2. PICK s \in Stmts : s = cur[c].stmt
      BY <1>1, <3>1 DEF CurRec
    <3>3. stmt' = [stmt EXCEPT ![s].pos = 0, ![s].use = FALSE]
      BY <3>1, <3>2
    <3>4. stmt \in [Stmts -> StmtRec] /\ stmt[s] \in StmtRec
      BY DEF IInv, TypeOK
    <3>. DEFINE r == [stmt[s] EXCEPT !.pos = 0, !.use = FALSE]
    <3>5. r.st = stmt[s].st /\ r.sql = stmt[s].sql /\ r.failed = stmt[s].failed
      BY <3>4 DEF StmtRec
    <3>6. stmt' = [stmt EXCEPT ![s] = r]
      BY <3>3, <3>4
    <3>7. Holds(c, s)
      BY <1>1, <3>2 DEF Holds
    <3>. HIDE DEF r
    <3> QED
      BY <3>5, <3>6, <3>7, MoveHeld
  <2> QED
    BY <2>1, <2>2
<1>5. \A d \in Cursors \ {c} : Busy(d)' <=> Busy(d)
    BY <1>2 DEF Busy
<1>6. Advances(c)
    BY <1>3, ReadOver
<1> QED
    BY <1>3, <1>4, <1>5, <1>6, MovedBy

\* A step of no cursor.
LEMMA CollectMoves ==
    ASSUME IInv, FailedBorn, (\E s \in Stmts : Collect(s)) \/ UNCHANGED vars
    PROVE  StmtsGo /\ \A d \in Cursors : Untouched(d)
<1>1. UNCHANGED cur /\ UNCHANGED it /\ UNCHANGED stack /\ UNCHANGED read
    BY DEF Collect, vars
<1>2. \A d \in Cursors : Busy(d)' <=> Busy(d)
    BY <1>1 DEF Busy
<1>3. StmtsGo /\ \A d \in Cursors, x \in Stmts :
            ~stmt[x].failed /\ Holds(d, x) => stmt'[x] = stmt[x]
  <2>1. CASE UNCHANGED stmt
    BY <2>1, MoveNone
  <2>2. CASE \E s \in Stmts : Collect(s)
    <3>1. PICK s \in Stmts : Collect(s)
      BY <2>2
    <3>2. stmt \in [Stmts -> StmtRec] /\ stmt[s] \in StmtRec
      BY DEF IInv, TypeOK
    <3>. DEFINE r == [stmt[s] EXCEPT !.st = "gone", !.pos = 0]
    <3>3. r.st = "gone" /\ r.sql = stmt[s].sql /\ r.failed = stmt[s].failed
      BY <3>2 DEF StmtRec
    <3>4. stmt' = [stmt EXCEPT ![s] = r]
      BY <3>1 DEF Collect
    <3>. HIDE DEF r
    <3>5. stmt'[s] = r /\ \A x \in Stmts : x # s => stmt'[x] = stmt[x]
      BY <3>2, <3>4
    <3>6. \A d \in Cursors : ~Holds(d, s)
      BY <3>1 DEF Collect
    <3>7. StmtsGo
      BY <3>3, <3>5 DEF StmtsGo, FailedBorn
    <3> QED
      BY <3>5, <3>6, <3>7
  <2> QED
    BY <2>1, <2>2 DEF vars
<1> QED
    BY <1>1, <1>2, <1>3 DEF Untouched

-----------------------------------------------------------------------------
(* What readers get *)

\* A step that returns is one of the cursor of the newest frame.
LEMMA ReturnMoves ==
    ASSUME IInv, FailedBorn, FollowsScript, Return
    PROVE  Top.cur \in Cursors /\ Moved(Top.cur)
<1>1. Moved(Top.cur)
    BY ExecuteFailedMoves, ExecuteRowMoves, ExecuteDoneMoves, ExecuteNextMoves,
       ExecuteNextFailedMoves, RowReturnMoves, RestRowMoves, RestNextMoves,
       RestNextFailedMoves, RestDoneMoves DEF Return
<1>2. \E op : Returning(op)
    BY Zenon DEF Return, ExecuteFailed, ExecuteRow, ExecuteDone, ExecuteNext,
       ExecuteNextFailed, RowReturn, RestRow, RestNext, RestNextFailed, RestDone
<1> QED
    BY <1>1, <1>2, ReturnFacts

LEMMA ResumeMoves ==
    ASSUME IInv, FailedBorn, FollowsScript, NEW c \in Cursors, Resume(c)
    PROVE  Moved(c)
BY BeginRowsMoves, NoRowsMoves, NextRowMoves, LastRowMoves, RowFailedMoves,
   RestBeginMoves, RestFailedMoves DEF Resume

\* Every step is of one cursor or of none.
LEMMA EveryStepMoves ==
    ASSUME IInv, FailedBorn, FollowsScript, [Next]_vars
    PROVE  (\E c \in Cursors : Moved(c)) \/ (StmtsGo /\ \A d \in Cursors : Untouched(d))
<1>1. CASE Call
  <2>1. ASSUME NEW c \in Cursors, NEW q \in Given,
               ExecuteUnprepared(c, q) \/ ExecuteUnbound(c, q) \/ Execute(c, q)
        PROVE  Moved(c)
    BY <2>1, ExecuteUnpreparedMoves, ExecuteUnboundMoves, ExecuteMoves
  <2>2. ASSUME NEW c \in Cursors, StartIter(c) \/ Close(c) \/ Forget(c)
        PROVE  Moved(c)
    BY <2>2, StartIterMoves, GoneMoves
  <2> QED
    BY <1>1, <2>1, <2>2, ResumeMoves DEF Call
<1>2. CASE Return
    BY <1>2, ReturnMoves
<1>3. CASE (\E s \in Stmts : Collect(s)) \/ UNCHANGED vars
    BY <1>3, CollectMoves
<1> QED
    BY <1>1, <1>2, <1>3 DEF Next

\* A reader follows its script from step to step,
LEMMA StepFollows ==
    ASSUME IInv, FailedBorn, FollowsScript, [Next]_vars
    PROVE  FailedBorn' /\ FollowsScript'
<1>1. CASE \E c \in Cursors : Moved(c)
  <2>1. PICK c \in Cursors : Moved(c)
    BY <1>1
  <2>2. StmtsGo /\ ScriptOK(c)' /\ \A d \in Cursors \ {c} : Untouched(d)
    BY <2>1 DEF Moved, Advances
  <2>3. ASSUME NEW d \in Cursors \ {c} PROVE ScriptOK(d)'
    BY <2>2, OtherReads DEF FollowsScript
  <2> QED
    BY <2>2, <2>3 DEF StmtsGo, FailedBorn, FollowsScript
<1>2. CASE StmtsGo /\ \A d \in Cursors : Untouched(d)
  <2>1. ASSUME NEW d \in Cursors PROVE ScriptOK(d)'
    BY <1>2, OtherReads DEF FollowsScript
  <2> QED
    BY <1>2, <2>1 DEF StmtsGo, FailedBorn, FollowsScript
<1> QED
    BY <1>1, <1>2, EveryStepMoves

\* and what it got and what is left to get stay the rows of the script, unless
\* it starts over.
LEMMA StepReads ==
    ASSUME IInv, FailedBorn, FollowsScript, [Next]_vars,
           NEW c \in Cursors, ReadOK(c), ~Restarts(c)
    PROVE  ReadOK(c)'
<1>1. CASE \E d \in Cursors : Moved(d)
  <2>1. PICK d \in Cursors : Moved(d)
    BY <1>1
  <2>2. CASE d = c
    BY <2>1, <2>2 DEF Moved, Advances
  <2>3. CASE d # c
    <3>1. StmtsGo /\ Untouched(c) /\ ScriptOK(c)
      BY <2>1, <2>3 DEF Moved, FollowsScript
    <3> QED
      BY <3>1, OtherReads
  <2> QED
    BY <2>2, <2>3
<1>2. CASE StmtsGo /\ \A d \in Cursors : Untouched(d)
    BY <1>2, OtherReads DEF FollowsScript
<1> QED
    BY <1>1, <1>2, EveryStepMoves

\* A reader that has no second iterator does not start over.
LEMMA OneIterator ==
    ASSUME IInv, [Next]_vars, NEW c \in Cursors \ Rereaders
    PROVE  ~Restarts(c)
<1> SUFFICES ASSUME it[c].st = "mid", it'[c].st = "new" PROVE FALSE
    BY DEF Restarts
<1>0. it \in [Cursors -> IterRec]
    BY DEF IInv, TypeOK
<1>1. ASSUME NEW d \in Cursors, NEW q \in Given,
             ExecuteUnprepared(d, q) \/ ExecuteUnbound(d, q) \/ Execute(d, q)
      PROVE  FALSE
  <2>1. it' = [it EXCEPT ![d] = NoIter]
    BY <1>1 DEF ExecuteUnprepared, ExecuteUnbound, Execute
  <2> QED
    BY <1>0, <2>1 DEF NoIter
<1>2. ASSUME NEW d \in Cursors, StartIter(d) PROVE FALSE
    BY <1>0, <1>2 DEF StartIter
<1>3. ASSUME NEW d \in Cursors, BeginRows(d) \/ NoRows(d) \/ NextRow(d) \/ LastRow(d)
             \/ RowFailed(d) \/ RestBegin(d) \/ RestFailed(d)
      PROVE  FALSE
    BY <1>0, <1>3 DEF BeginRows, NoRows, NextRow, LastRow, RowFailed, RestBegin, RestFailed,
       Take, StopIteration, DeadIter, NoIter
<1>4. ASSUME NEW d \in Cursors, Close(d) \/ Forget(d) PROVE FALSE
    BY <1>0, <1>4 DEF Close, Forget, NoIter
<1>5. ASSUME ExecuteFailed \/ ExecuteRow \/ ExecuteDone \/ ExecuteNext \/ ExecuteNextFailed
             \/ RestNext
      PROVE  FALSE
    BY <1>5, Zenon DEF ExecuteFailed, ExecuteRow, ExecuteDone, ExecuteNext, ExecuteNextFailed,
       RestNext
<1>6. ASSUME RowReturn \/ RestRow \/ RestNextFailed \/ RestDone PROVE FALSE
  <2>1. CASE RowReturn
    <3>1. PICK o : it' = [it EXCEPT ![Top.cur].ret = o]
      BY <2>1 DEF RowReturn
    <3> QED
      BY <1>0, <3>1 DEF IterRec
  <2>2. CASE RestRow
    <3>1. PICK n : Take(Top.cur, cur[Top.cur].stmt, n)
      BY <2>2 DEF RestRow
    <3> QED
      BY <1>0, <3>1 DEF Take
  <2>3. CASE RestNextFailed \/ RestDone
    BY <1>0, <2>3 DEF RestNextFailed, RestDone, StopIteration, DeadIter, NoIter
  <2> QED
    BY <1>6, <2>1, <2>2, <2>3
<1>7. ASSUME (\E s \in Stmts : Collect(s)) \/ UNCHANGED vars PROVE FALSE
    BY <1>7 DEF Collect, vars
<1> QED
    BY <1>1, <1>2, <1>3, <1>4, <1>5, <1>6, <1>7 DEF Next, Call, Resume, Return

\* What the invariant says of the rows a reader has got.
LEMMA ReadIs ==
    ASSUME IInv, NEW c \in Cursors, ScriptOK(c), ReadOK(c), read[c].sql # None, Untroubled(c)
    PROVE  /\ Begins(read[c].rows, Script[read[c].sql])
           /\ read[c].ended => read[c].rows = Script[read[c].sql]
<1>1. Opening(c) /\ Midway(c) /\ Ending(c) /\ Started(c)
    BY DEF ReadOK, Started, Untroubled
<1>2. /\ read[c].rows \in Seq(RowRec) /\ TextOf(c) \in Sqls /\ it[c] \in IterRec
    BY <1>1, ReaderFacts DEF IInv, TypeOK
<1>3. PICK p \in Seq(RowRec) : p = read[c].rows
    BY <1>2
<1>4. PICK X \in Seq(RowRec) : X = After(TextOf(c))
    BY <1>2, ScriptIs
<1>5. RowCount[TextOf(c)] \in Nat /\ RowsOf(TextOf(c)) \in Seq(RowRec)
    BY <1>2, RowsAre
<1>6. AtRow(c) => Begins(p, Script[read[c].sql])
  <2> SUFFICES ASSUME AtRow(c) PROVE Begins(p, Script[read[c].sql])
    OBVIOUS
  <2>1. PosOf(c) \in 1..(RowCount[TextOf(c)] + 1)
    BY <1>5 DEF AtRow
  <2>2. RowsFrom(TextOf(c), PosOf(c)) \in Seq(RowRec)
    BY <1>2, <2>1, RowsAre
  <2>3. PICK Y \in Seq(RowRec) : Y = RowsFrom(TextOf(c), PosOf(c)) \o X
    BY <2>2, ConcatProperties
  <2>4. Begins(p, p \o Y)
    BY PartBegins
  <2> QED
    BY <1>3, <1>4, <2>3, <2>4 DEF AtRow
<1>7. AtStart(c) => Begins(p, Script[read[c].sql])
  <2>1. PICK Y \in Seq(RowRec) : Y = RowsOf(TextOf(c)) \o X
    BY <1>5, ConcatProperties
  <2>2. Begins(p, p \o Y)
    BY PartBegins
  <2> QED
    BY <1>3, <1>4, <2>1, <2>2 DEF AtStart
<1>8. AtEnd(c) => Begins(p, Script[read[c].sql])
  <2>1. Begins(p, p \o X)
    BY PartBegins
  <2> QED
    BY <1>3, <1>4, <2>1 DEF AtEnd
<1>9. Over(c) => Begins(p, Script[read[c].sql])
  <2>1. PICK e \in Seq(RowRec) : e = <<>>
    BY EmptySeq
  <2>2. Begins(p, p \o e) /\ p \o e = p
    BY <2>1, PartBegins, ConcatEmptySeq
  <2> QED
    BY <1>3, <2>2 DEF Over
<1>10. read[c].ended => Over(c)
    BY <1>1 DEF Ending
<1>11. it[c].st \in {"none", "new", "mid", "dead"} /\ it[c].ret \in {"row", "done", "step"}
    BY <1>2 DEF IterRec
<1>12. Begins(p, Script[read[c].sql])
  <2>1. CASE it[c].st \in {"none", "new"}
    BY <1>1, <1>6, <1>7, <1>9, <2>1 DEF Opening
  <2>2. CASE it[c].st = "mid"
    BY <1>1, <1>3, <1>6, <1>7, <1>8, <1>11, <2>2 DEF Midway
  <2>3. CASE it[c].st = "dead"
    BY <1>1, <1>9, <2>3 DEF Ending
  <2> QED
    BY <1>11, <2>1, <2>2, <2>3
<1> QED
    BY <1>3, <1>10, <1>12 DEF Over

LEMMA InitReads == Init => FailedBorn /\ FollowsScript /\ \A c \in Cursors : ReadOK(c)
BY DEF Init, FailedBorn, FollowsScript, ScriptOK, Started, ReadOK, NoStmt, Unread

LEMMA Following == Spec => [](IInv /\ FailedBorn /\ FollowsScript)
<1>1. Init => FailedBorn /\ FollowsScript
    BY InitReads
<1>2. IInv /\ FailedBorn /\ FollowsScript /\ [Next]_vars => FailedBorn' /\ FollowsScript'
    BY StepFollows
<1> QED
    BY <1>1, <1>2, Invariance, PTL DEF Spec

\* Whatever other cursors do meanwhile, a cursor iterated once per execute
\* delivers the rows of its script once each and in order, and all of them by the
\* time its iteration ends: statements are shared by text and fetched a row
\* ahead, but no other cursor moves the one a reader is on.
THEOREM ScriptsRead ==
    ASSUME Rereaders = {}
    PROVE  Spec => []ReadsScript
<1>. DEFINE Inv == IInv /\ FailedBorn /\ FollowsScript
            AllRead == \A c \in Cursors : ReadOK(c)
<1>1. Init => AllRead
    BY InitReads
<1>2. ASSUME Inv, AllRead, [Next]_vars
      PROVE  AllRead'
  <2>1. ASSUME NEW c \in Cursors PROVE ReadOK(c)'
    <3>1. ~Restarts(c)
      BY <1>2, OneIterator
    <3> QED
      BY <1>2, <3>1, StepReads
  <2> QED
    BY <2>1
<1>3. Inv /\ AllRead => ReadsScript
  <2> SUFFICES ASSUME Inv, AllRead, NEW c \in Cursors, read[c].sql # None, Untroubled(c)
               PROVE  /\ Begins(read[c].rows, Script[read[c].sql])
                      /\ read[c].ended => read[c].rows = Script[read[c].sql]
    BY DEF ReadsScript
  <2> QED
    BY ReadIs DEF FollowsScript
<1>4. Spec => []Inv
    BY Following
<1>. HIDE DEF Inv, AllRead
<1> QED
    BY <1>1, <1>2, <1>3, <1>4, PTL DEF Spec
=============================================================================
