-------------------------- MODULE VirtualTable_proofs --------------------------
(***************************************************************************)
(* Type correctness of VirtualTable, the ownership of cursor slots and of  *)
(* generators, the rows a scan reads, and that without exceptions the      *)
(* callbacks implement TableScan, for every set of tables, cursors and     *)
(* generators, every number of rows and every depth of nesting.            *)
(***************************************************************************)
EXTENDS VirtualTable, SequenceTheorems, TLAPS

\* The inductive invariant: the slot of a cursor is right because callbacks nest.
IInv == TypeOK /\ SlotOwner /\ FramesOK

-----------------------------------------------------------------------------
(* The stack *)

\* Calling a table function adds one frame on top and changes no other.
LEMMA PushFacts ==
    ASSUME stack \in Seq(FrameRec), NEW f \in FrameRec, Push(f)
    PROVE  /\ stack' \in Seq(FrameRec)
           /\ Len(stack) \in Nat /\ Len(stack') = Len(stack) + 1
           /\ stack'[Len(stack) + 1] = f
           /\ \A i \in 1..Len(stack) : stack'[i] = stack[i]
BY DEF Push

\* Returning removes the top frame and changes no other.
LEMMA PopFacts ==
    ASSUME stack \in Seq(FrameRec), stack # <<>>, Pop
    PROVE  /\ stack' \in Seq(FrameRec)
           /\ Len(stack) \in Nat \ {0} /\ Len(stack') = Len(stack) - 1
           /\ Top \in FrameRec
           /\ \A i \in 1..(Len(stack) - 1) : stack'[i] = stack[i]
<1>1. Len(stack) \in Nat \ {0}
    BY EmptySeq
<1>2. PICK n \in Nat : n = Len(stack) - 1
    BY <1>1
<1>3. /\ SubSeq(stack, 1, n) \in Seq(FrameRec)
      /\ Len(SubSeq(stack, 1, n)) = n
      /\ \A i \in 1..n : SubSeq(stack, 1, n)[i] = stack[i]
    BY <1>1, <1>2
<1>4. stack' = SubSeq(stack, 1, n)
    BY <1>2 DEF Pop
<1>5. Top \in FrameRec
    BY <1>1 DEF Top
<1> QED
    BY <1>1, <1>2, <1>3, <1>4, <1>5

\* A callback that resumes another generator changes its own frame only.
LEMMA SwapFacts ==
    ASSUME stack \in Seq(FrameRec), stack # <<>>, NEW f \in FrameRec, Swap(f)
    PROVE  /\ stack' \in Seq(FrameRec)
           /\ Len(stack) \in Nat \ {0} /\ Len(stack') = Len(stack)
           /\ Top \in FrameRec
           /\ stack'[Len(stack)] = f
           /\ \A i \in 1..(Len(stack) - 1) : stack'[i] = stack[i]
<1>1. Len(stack) \in Nat \ {0}
    BY EmptySeq
<1> QED
    BY <1>1 DEF Swap, Top

-----------------------------------------------------------------------------
(* Steps that leave the slots alone and open or close no cursor.            *)

\* SQLite holds the same cursors, on the same tables and in the same slots.
SameCursors ==
    \A c \in Cursors : /\ handle'[c].st = handle[c].st
                       /\ handle'[c].tab = handle[c].tab
                       /\ handle'[c].slot = handle[c].slot

\* What FramesOK asks of one frame, whatever the others are.
FrameFits(f) ==
    /\ f.op \in TableOps => f.cur = None
    /\ f.op = "open" => f.cur \in Cursors /\ handle[f.cur].st = "fresh"
    /\ f.op \in CursorOps => /\ f.cur \in Cursors
                             /\ handle[f.cur].st = "open"
                             /\ handle[f.cur].tab = f.tab

\* Where a new query may start, no table function is being cleaned up.
LEMMA NothingClosing ==
    ASSUME TypeOK, FramesOK, MayCall
    PROVE  \A i \in 1..Len(stack) : stack[i].op # "close"
<1> SUFFICES ASSUME NEW i \in 1..Len(stack), stack[i].op = "close"
             PROVE  FALSE
    OBVIOUS
<1>1. stack \in Seq(FrameRec) /\ stack # <<>> /\ Len(stack) \in Nat \ {0}
    BY DEF TypeOK
<1>2. Top.op # "close"
    BY <1>1 DEF MayCall
<1>3. i < Len(stack) => stack[Len(stack)].op = "close"
    BY <1>1 DEF FramesOK
<1> QED
    BY <1>1, <1>2, <1>3 DEF Top

\* Slots and frames stay right when no frame moves.
LEMMA StayOK ==
    ASSUME IInv, SameCursors, UNCHANGED <<slots, stack>>
    PROVE  SlotOwner' /\ FramesOK'
<1>1. SlotOwner'
    BY DEF IInv, SlotOwner, SameCursors, Closing
<1>2. FramesOK'
    BY DEF IInv, FramesOK, SameCursors, CursorOps
<1> QED
    BY <1>1, <1>2

\* They stay right when a table function is called.
LEMMA PushOK ==
    ASSUME IInv, SameCursors, UNCHANGED slots, MayCall,
           NEW f \in FrameRec, Push(f), FrameFits(f), f.op # "close",
           f.cur = None \/ ~Busy(f.cur)
    PROVE  SlotOwner' /\ FramesOK'
<1>1. /\ stack' \in Seq(FrameRec)
      /\ Len(stack) \in Nat /\ Len(stack') = Len(stack) + 1
      /\ stack'[Len(stack) + 1] = f
      /\ \A i \in 1..Len(stack) : stack'[i] = stack[i]
    BY PushFacts DEF IInv, TypeOK
<1>2. \A i \in 1..Len(stack) : stack[i].op # "close"
    BY NothingClosing DEF IInv
<1>3. \A i \in 1..Len(stack') : stack'[i].op # "close"
    BY <1>1, <1>2
<1>4. SlotOwner'
  <2>1. \A c \in Cursors : ~Closing(c) /\ ~Closing(c)'
    BY <1>2, <1>3 DEF Closing
  <2> QED
    BY <2>1 DEF IInv, SlotOwner, SameCursors
<1>5. \A i \in 1..Len(stack) : f.cur = None \/ stack[i].cur # f.cur
    BY DEF Busy
<1>6. FramesOK'
    BY <1>1, <1>3, <1>5 DEF IInv, FramesOK, FrameFits, SameCursors
<1> QED
    BY <1>4, <1>6

\* They stay right when a table function returns, unless it was being closed.
LEMMA PopOK ==
    ASSUME IInv, SameCursors, UNCHANGED slots,
           stack # <<>>, Pop, Top.op # "close"
    PROVE  SlotOwner' /\ FramesOK'
<1>1. /\ stack' \in Seq(FrameRec)
      /\ Len(stack) \in Nat \ {0} /\ Len(stack') = Len(stack) - 1
      /\ \A i \in 1..(Len(stack) - 1) : stack'[i] = stack[i]
    BY PopFacts DEF IInv, TypeOK
<1>2. \A c \in Cursors : Closing(c) => Closing(c)'
    BY <1>1 DEF Closing, Top
<1>3. SlotOwner'
    BY <1>2 DEF IInv, SlotOwner, SameCursors
<1>4. FramesOK'
    BY <1>1 DEF IInv, FramesOK, SameCursors
<1> QED
    BY <1>3, <1>4

\* They stay right when a callback resumes a second generator.
LEMMA SwapOK ==
    ASSUME IInv, SameCursors, UNCHANGED slots,
           stack # <<>>, Top.op # "close",
           NEW f \in FrameRec, Swap(f), FrameFits(f), f.op # "close",
           f.cur = Top.cur
    PROVE  SlotOwner' /\ FramesOK'
<1>1. /\ stack' \in Seq(FrameRec)
      /\ Len(stack) \in Nat \ {0} /\ Len(stack') = Len(stack)
      /\ stack'[Len(stack)] = f
      /\ \A i \in 1..(Len(stack) - 1) : stack'[i] = stack[i]
    BY SwapFacts DEF IInv, TypeOK
<1>2. \A c \in Cursors : Closing(c) => Closing(c)'
    BY <1>1 DEF Closing, Top
<1>3. SlotOwner'
    BY <1>2 DEF IInv, SlotOwner, SameCursors
<1>4. \A i \in 1..Len(stack) : stack'[i].cur = stack[i].cur
    BY <1>1 DEF Top
<1>5. FramesOK'
    BY <1>1, <1>4 DEF IInv, FramesOK, FrameFits, SameCursors, Top
<1> QED
    BY <1>3, <1>5

-----------------------------------------------------------------------------
(* Steps that open and close cursors.                                       *)

\* The top frame is well typed and its cursor is in the state it needs.
LEMMA TopFacts ==
    ASSUME IInv, stack # <<>>
    PROVE  /\ Len(stack) \in Nat \ {0}
           /\ Top \in FrameRec /\ FrameFits(Top)
           /\ \A i \in 1..(Len(stack) - 1) :
                 /\ stack[i].cur = None \/ stack[i].cur # Top.cur
                 /\ stack[i].op = "close" => Top.op = "close"
<1>1. Len(stack) \in Nat \ {0}
    BY EmptySeq DEF IInv, TypeOK
<1>2. Top \in FrameRec
    BY <1>1 DEF Top, IInv, TypeOK
<1>3. FrameFits(Top)
    BY <1>1 DEF Top, IInv, FramesOK, FrameFits
<1>4. \A i \in 1..(Len(stack) - 1) :
          /\ stack[i].cur = None \/ stack[i].cur # Top.cur
          /\ stack[i].op = "close" => Top.op = "close"
    BY <1>1 DEF Top, IInv, FramesOK
<1> QED
    BY <1>1, <1>2, <1>3, <1>4

\* A cursor SQLite holds is answered by its own instance.
LEMMA OwnInstance ==
    ASSUME IInv, NEW c \in Cursors, handle[c].st = "open"
    PROVE  InstOf(c) = c /\ handle[c].slot \in 1..Len(slots)
BY DEF IInv, SlotOwner, InstOf

\* A fresh cursor put in the first free slot displaces no open cursor.
LEMMA PlaceOK ==
    ASSUME IInv, NEW t \in Tables, NEW c \in Cursors, NEW g \in Gens,
           handle[c].st = "fresh", Place(t, c, g),
           \A i \in 1..Len(stack) : stack[i].op # "close",
           stack' \in Seq(FrameRec), Len(stack') <= Len(stack),
           \A i \in 1..Len(stack') : stack'[i] = stack[i] /\ stack[i].cur # c
    PROVE  /\ slots' \in Seq(SlotRec) /\ handle' \in [Cursors -> HandleRec]
           /\ inst' \in [Cursors -> InstRec] /\ cursors' \in [Tables -> Seq(Cursors)]
           /\ SlotOwner' /\ FramesOK'
<1>1. PICK i \in 1..(Len(slots) + 1) :
        /\ FirstFree(i)
        /\ slots' = IF i > Len(slots)
                    THEN Append(slots, [cur |-> c, inst |-> c, tab |-> t])
                    ELSE [slots EXCEPT ![i] = [cur |-> c, inst |-> c, tab |-> t]]
        /\ handle' = [handle EXCEPT ![c] =
                [st |-> "open", tab |-> t, slot |-> i, scan |-> "idle"]]
    BY DEF Place
<1>. DEFINE s == [cur |-> c, inst |-> c, tab |-> t]
<1>2. s \in SlotRec /\ slots \in Seq(SlotRec) /\ Len(slots) \in Nat
    BY DEF SlotRec, IInv, TypeOK
<1>3. /\ slots' \in Seq(SlotRec)
      /\ i \in 1..Len(slots') /\ slots'[i] = s
      /\ Len(slots) <= Len(slots')
      /\ \A j \in 1..Len(slots) : j # i => slots'[j] = slots[j]
  <2>. HIDE DEF s
  <2>1. CASE i > Len(slots)
    BY <1>1, <1>2, <2>1 DEF s
  <2>2. CASE i <= Len(slots)
    BY <1>1, <1>2, <2>2 DEF s
  <2> QED
    BY <1>1, <1>2, <2>1, <2>2
<1>4. handle' \in [Cursors -> HandleRec]
    BY <1>1, <1>2 DEF HandleRec, IInv, TypeOK
<1>5. inst' \in [Cursors -> InstRec]
    BY DEF Place, InstRec, NoInst, IInv, TypeOK
<1>6. cursors' \in [Tables -> Seq(Cursors)]
    BY DEF Place, IInv, TypeOK
<1>12. /\ Len(stack) \in Nat /\ Len(stack') \in Nat
      /\ \A j \in 1..Len(stack') : j \in 1..Len(stack) /\ stack'[j] = stack[j]
    BY DEF IInv, TypeOK
<1>7. \A d \in Cursors : ~Closing(d) /\ ~Closing(d)'
    BY <1>12 DEF Closing
<1>8. \A d \in Cursors : d # c => handle'[d] = handle[d]
    BY <1>1 DEF IInv, TypeOK
<1>9. handle'[c] = [st |-> "open", tab |-> t, slot |-> i, scan |-> "idle"]
    BY <1>1 DEF IInv, TypeOK
<1>10. SlotOwner'
  <2> SUFFICES ASSUME NEW d \in Cursors, handle'[d].st = "open"
               PROVE  /\ handle'[d].slot \in 1..Len(slots')
                      /\ slots'[handle'[d].slot].inst = d
                      /\ slots'[handle'[d].slot].tab = handle'[d].tab
                      /\ slots'[handle'[d].slot].cur = d
    BY DEF SlotOwner
  <2>1. CASE d = c
    BY <1>3, <1>9, <2>1
  <2>2. CASE d # c
    <3>1. /\ handle[d].slot \in 1..Len(slots)
          /\ slots[handle[d].slot].inst = d
          /\ slots[handle[d].slot].tab = handle[d].tab
          /\ slots[handle[d].slot].cur = d
      BY <1>7, <1>8, <2>2 DEF IInv, SlotOwner
    <3>2. handle[d].slot # i
      BY <1>1, <3>1, ConstantsOK DEF FirstFree
    <3>3. slots'[handle[d].slot] = slots[handle[d].slot]
      BY <1>3, <3>1, <3>2
    <3>4. handle'[d].slot = handle[d].slot /\ handle'[d].tab = handle[d].tab
      BY <1>8, <2>2
    <3>5. handle[d].slot \in 1..Len(slots')
      BY <1>2, <1>3, <3>1
    <3> QED
      BY <3>1, <3>3, <3>4, <3>5
  <2> QED
    BY <2>1, <2>2
<1>13. \A j \in 1..Len(stack') : stack'[j].cur \in Cursors =>
            handle'[stack'[j].cur] = handle[stack'[j].cur]
    BY <1>8, <1>12
<1>11. FramesOK'
    BY <1>12, <1>13 DEF IInv, FramesOK
<1> QED
    BY <1>3, <1>4, <1>5, <1>6, <1>10, <1>11

\* xClose empties its own slot and no other, and its frame ends with it.
LEMMA ReleaseOK ==
    ASSUME IInv, NEW c \in Cursors, handle[c].st = "open",
           handle' = [handle EXCEPT ![c].st = "closed"],
           NEW r \in SlotRec,
           slots' = [slots EXCEPT ![handle[c].slot] = r] \/ UNCHANGED slots,
           stack' \in Seq(FrameRec), Len(stack') <= Len(stack),
           \A i \in 1..Len(stack') : stack'[i] = stack[i] /\ stack[i].cur # c,
           \A i \in 1..Len(stack) : i \notin 1..Len(stack') => stack[i].cur = c
    PROVE  slots' \in Seq(SlotRec) /\ SlotOwner' /\ FramesOK'
<1>1. slots \in Seq(SlotRec) /\ handle \in [Cursors -> HandleRec]
    BY DEF IInv, TypeOK
<1>2. handle[c].slot \in 1..Len(slots) /\ slots[handle[c].slot].inst = c
    BY DEF IInv, SlotOwner
<1>3. PICK n \in 1..Len(slots) : n = handle[c].slot
    BY <1>2
<1>4. /\ slots' \in Seq(SlotRec) /\ Len(slots') = Len(slots)
      /\ \A j \in 1..Len(slots) : j # n => slots'[j] = slots[j]
  <2>1. CASE slots' = [slots EXCEPT ![n] = r]
    BY <1>1, <2>1
  <2>2. CASE slots' = slots
    BY <1>1, <2>2
  <2> QED
    BY <1>3, <2>1, <2>2
<1>5. \A d \in Cursors : d # c => handle'[d] = handle[d]
    BY <1>1
<1>6. handle'[c].st = "closed"
    BY <1>1 DEF HandleRec
<1>7. \A d \in Cursors : d # c /\ Closing(d) => Closing(d)'
    BY DEF Closing
<1>8. SlotOwner'
  <2> SUFFICES ASSUME NEW d \in Cursors, handle'[d].st = "open"
               PROVE  /\ handle'[d].slot \in 1..Len(slots')
                      /\ slots'[handle'[d].slot].inst = d
                      /\ slots'[handle'[d].slot].tab = handle'[d].tab
                      /\ ~Closing(d)' => slots'[handle'[d].slot].cur = d
    BY DEF SlotOwner
  <2>1. d # c /\ handle'[d] = handle[d]
    BY <1>5, <1>6
  <2>2. /\ handle[d].slot \in 1..Len(slots)
        /\ slots[handle[d].slot].inst = d
        /\ slots[handle[d].slot].tab = handle[d].tab
        /\ ~Closing(d) => slots[handle[d].slot].cur = d
    BY <2>1 DEF IInv, SlotOwner
  <2>3. handle[d].slot # n
    BY <1>2, <1>3, <2>1, <2>2
  <2> QED
    BY <1>4, <1>7, <2>1, <2>2, <2>3
<1>9. /\ Len(stack) \in Nat /\ Len(stack') \in Nat
      /\ \A j \in 1..Len(stack') : j \in 1..Len(stack) /\ stack'[j] = stack[j]
  <2>1. stack \in Seq(FrameRec)
    BY DEF IInv, TypeOK
  <2> QED
    BY <2>1
<1>10. \A j \in 1..Len(stack') : stack'[j].cur \in Cursors =>
            handle'[stack'[j].cur] = handle[stack'[j].cur]
    BY <1>5, <1>9
<1>11. FramesOK
    BY DEF IInv
<1>12. FramesOK'
  <2> SUFFICES ASSUME NEW i \in 1..Len(stack')
               PROVE  /\ stack'[i].op \in TableOps => stack'[i].cur = None
                      /\ stack'[i].op = "open" =>
                            /\ stack'[i].cur \in Cursors
                            /\ handle'[stack'[i].cur].st = "fresh"
                      /\ stack'[i].op \in CursorOps =>
                            /\ stack'[i].cur \in Cursors
                            /\ handle'[stack'[i].cur].st = "open"
                            /\ handle'[stack'[i].cur].tab = stack'[i].tab
                      /\ \A j \in 1..Len(stack') :
                            /\ i # j => stack'[i].cur = None \/ stack'[i].cur # stack'[j].cur
                            /\ i < j /\ stack'[i].op = "close" => stack'[j].op = "close"
    BY DEF FramesOK
  <2>1. i \in 1..Len(stack) /\ stack'[i] = stack[i]
    BY <1>9
  <2>2. stack[i].cur \in Cursors => handle'[stack[i].cur] = handle[stack[i].cur]
    BY <1>10, <2>1
  <2>3. \A j \in 1..Len(stack') :
            /\ i # j => stack'[i].cur = None \/ stack'[i].cur # stack'[j].cur
            /\ i < j /\ stack'[i].op = "close" => stack'[j].op = "close"
    BY <1>9, <1>11, <2>1 DEF FramesOK
  <2> QED
    BY <1>11, <2>1, <2>2, <2>3 DEF FramesOK
<1> QED
    BY <1>4, <1>8, <1>12

\* xClose frees the slot while the instance in it is still being closed.
LEMMA CloseOK ==
    ASSUME IInv, NEW c \in Cursors, Close(c)
    PROVE  IInv'
<1>. DEFINE g == inst[InstOf(c)].openIter
           f == Frame("close", handle[c].tab, c, g)
<1>1. /\ InstOf(c) = c /\ handle[c].slot \in 1..Len(slots)
      /\ handle[c].st = "open" /\ handle[c].tab \in Tables
    BY OwnInstance DEF Close, Ready, IInv, TypeOK
<1>2. TypeOK /\ g \in Gens /\ gen[g] \in GenRec
    BY <1>1 DEF Close, Suspended, IInv, TypeOK, InstRec
<1>3. PICK n \in 1..Len(slots) : n = handle[c].slot
    BY <1>1
<1>4. slots[n] \in SlotRec /\ slots[n].inst = c /\ slots[n].tab = handle[c].tab
    BY <1>1, <1>3 DEF IInv, TypeOK, SlotOwner
<1>5. f \in FrameRec
    BY <1>1, <1>2, <1>4 DEF FrameRec, Frame, CursorOps
<1>6. /\ stack' \in Seq(FrameRec)
      /\ Len(stack) \in Nat /\ Len(stack') = Len(stack) + 1
      /\ stack'[Len(stack) + 1] = f
      /\ \A i \in 1..Len(stack) : stack'[i] = stack[i]
    BY <1>2, <1>5, PushFacts DEF Close, TypeOK
<1>7. slots' = [slots EXCEPT ![n].cur = None]
    BY <1>3 DEF Close
<1>8. /\ slots' \in Seq(SlotRec) /\ Len(slots') = Len(slots)
      /\ \A j \in 1..Len(slots) : j # n => slots'[j] = slots[j]
      /\ slots'[n].inst = c /\ slots'[n].tab = handle[c].tab
  <2>1. [slots[n] EXCEPT !.cur = None] \in SlotRec
    BY <1>4 DEF SlotRec
  <2>2. slots' = [slots EXCEPT ![n] = [slots[n] EXCEPT !.cur = None]]
    BY <1>7
  <2>3. slots \in Seq(SlotRec)
    BY <1>2 DEF TypeOK
  <2>4. slots'[n] = [slots[n] EXCEPT !.cur = None]
    BY <2>2, <2>3
  <2>5. slots'[n].inst = c /\ slots'[n].tab = handle[c].tab
    BY <1>4, <2>4 DEF SlotRec
  <2>. DEFINE e == [slots[n] EXCEPT !.cur = None]
  <2>6. slots' = [slots EXCEPT ![n] = e] /\ e \in SlotRec
    BY <2>1, <2>2
  <2>. HIDE DEF e
  <2>7. /\ slots' \in Seq(SlotRec) /\ Len(slots') = Len(slots)
        /\ \A j \in 1..Len(slots) : j # n => slots'[j] = slots[j]
    BY <2>3, <2>6
  <2> QED
    BY <2>5, <2>7
<1>9. gen' \in [Gens -> GenRec]
    BY <1>2 DEF Close, TypeOK, GenRec, GenStates
<1>10. TypeOK'
    BY <1>2, <1>6, <1>8, <1>9 DEF Close, TypeOK
<1>11. \A d \in Cursors : Closing(d) => Closing(d)'
    BY <1>6 DEF Closing
<1>12. Closing(c)'
    BY <1>6 DEF Closing, Frame
<1>13. SlotOwner'
  <2> SUFFICES ASSUME NEW d \in Cursors, handle[d].st = "open"
               PROVE  /\ handle[d].slot \in 1..Len(slots')
                      /\ slots'[handle[d].slot].inst = d
                      /\ slots'[handle[d].slot].tab = handle[d].tab
                      /\ ~Closing(d)' => slots'[handle[d].slot].cur = d
    BY DEF SlotOwner, Close
  <2>1. /\ handle[d].slot \in 1..Len(slots)
        /\ slots[handle[d].slot].inst = d
        /\ slots[handle[d].slot].tab = handle[d].tab
        /\ ~Closing(d) => slots[handle[d].slot].cur = d
    BY DEF IInv, SlotOwner
  <2>2. CASE d = c
    BY <1>3, <1>8, <1>12, <2>2
  <2>3. CASE d # c
    <3>1. handle[d].slot # n
      BY <1>4, <2>1, <2>3
    <3> QED
      BY <1>8, <1>11, <2>1, <3>1
  <2> QED
    BY <2>2, <2>3
<1>14. \A i \in 1..Len(stack) : stack[i].cur # c
    BY DEF Close, Ready, Busy
<1>15. FramesOK'
  <2>1. handle' = handle
    BY DEF Close
  <2>2. f.op = "close" /\ f.cur = c /\ f.tab = handle[c].tab
    BY DEF Frame
  <2>3. f.op \notin TableOps /\ f.op # "open"
    BY <2>2 DEF TableOps
  <2>. HIDE DEF f
  <2>4. c # None
    BY ConstantsOK
  <2> QED
    BY <1>1, <1>6, <1>14, <2>1, <2>2, <2>3, <2>4 DEF IInv, FramesOK
<1> QED
    BY <1>10, <1>13, <1>15 DEF IInv

-----------------------------------------------------------------------------
(* Types of the records the actions build.                                  *)

\* What a resumed or closed generator becomes is a generator record.
LEMMA GenTypes ==
    ASSUME TypeOK, NEW g \in Gens
    PROVE  /\ gen[g] \in GenRec
           /\ \A o : Settled(g, o) \in GenRec
           /\ Closed(g) \in GenRec
           /\ [gen[g] EXCEPT !.st = "running"] \in GenRec
           /\ [gen[g] EXCEPT !.pos = @ + 1] \in GenRec
           /\ \A t \in Tables : Started(t) \in GenRec
<1>1. gen[g] \in [st : GenStates, tab : Tables \cup {None}, pos : Nat]
    BY DEF TypeOK, GenRec
<1>2. \A o : Settled(g, o) \in GenRec
  <2> TAKE o
  <2>1. CASE o = "yield"
    BY <1>1, <2>1 DEF Settled, GenRec, GenStates
  <2>2. CASE o # "yield"
    <3>1. Settled(g, o) = [gen[g] EXCEPT !.st = IF o = "stop" THEN "done" ELSE "failed"]
      BY <2>2 DEF Settled
    <3>2. (IF o = "stop" THEN "done" ELSE "failed") \in GenStates
      BY DEF GenStates
    <3> QED
      BY <1>1, <3>1, <3>2 DEF GenRec
  <2> QED
    BY <2>1, <2>2
<1> QED
    BY <1>1, <1>2 DEF Closed, Started, GenRec, GenStates

\* What a callback makes of an instance is an instance record.
LEMMA InstTypes ==
    ASSUME TypeOK, NEW c \in Cursors
    PROVE  /\ inst[c] \in InstRec
           /\ \A g \in Gens : RowOf(c, g) \in InstRec
           /\ Exhausted(c) \in InstRec
           /\ [Exhausted(c) EXCEPT !.firsttime = FALSE] \in InstRec
           /\ [inst[c] EXCEPT !.openIter = None] \in InstRec
<1>1. inst[c] \in [openIter : Gens \cup {None}, iterNext : Gens \cup {None},
                  firsttime : BOOLEAN, row : Nat, eof : BOOLEAN]
    BY DEF TypeOK, InstRec
<1>2. inst[c] \in InstRec /\ [inst[c] EXCEPT !.openIter = None] \in InstRec
    BY <1>1 DEF InstRec
<1>3. \A g \in Gens : RowOf(c, g) \in InstRec
  <2> TAKE g \in Gens
  <2>1. gen[g].pos \in Nat
    BY DEF TypeOK, GenRec
  <2> QED
    BY <1>1, <2>1 DEF RowOf, InstRec
<1>4. Exhausted(c) \in [openIter : Gens \cup {None}, iterNext : Gens \cup {None},
                       firsttime : BOOLEAN, row : Nat, eof : BOOLEAN]
    BY <1>1 DEF Exhausted
<1>5. [Exhausted(c) EXCEPT !.firsttime = FALSE] \in InstRec
    BY <1>4 DEF InstRec
<1> QED
    BY <1>2, <1>3, <1>4, <1>5 DEF InstRec

\* Starting or continuing a scan keeps the type of the instances.
LEMMA ScanInst ==
    ASSUME TypeOK, NEW c \in Cursors, NEW g \in Gens,
           \/ inst' = [inst EXCEPT ![c].firsttime = FALSE, ![c].eof = FALSE]
           \/ inst' = [inst EXCEPT ![c].eof = FALSE]
           \/ StartOver(c, g)
    PROVE  inst' \in [Cursors -> InstRec]
<1>1. inst[c] \in [openIter : Gens \cup {None}, iterNext : Gens \cup {None},
                  firsttime : BOOLEAN, row : Nat, eof : BOOLEAN]
    BY DEF TypeOK, InstRec
<1>2. PICK r : inst' = [inst EXCEPT ![c] = r] /\ r \in InstRec
  <2>1. CASE inst' = [inst EXCEPT ![c].firsttime = FALSE, ![c].eof = FALSE]
    <3>. DEFINE r == [inst[c] EXCEPT !.firsttime = FALSE, !.eof = FALSE]
    <3>1. r \in InstRec
      BY <1>1 DEF InstRec
    <3>2. inst' = [inst EXCEPT ![c] = r]
      BY <2>1 DEF TypeOK
    <3> QED
      BY <3>1, <3>2
  <2>2. CASE inst' = [inst EXCEPT ![c].eof = FALSE]
    <3>. DEFINE r == [inst[c] EXCEPT !.eof = FALSE]
    <3>1. r \in InstRec
      BY <1>1 DEF InstRec
    <3>2. inst' = [inst EXCEPT ![c] = r]
      BY <2>2 DEF TypeOK
    <3> QED
      BY <3>1, <3>2
  <2>3. CASE StartOver(c, g)
    <3>. DEFINE r == [inst[c] EXCEPT !.openIter = g, !.iterNext = g, !.eof = FALSE]
    <3>1. r \in InstRec
      BY <1>1 DEF InstRec
    <3>2. inst' = [inst EXCEPT ![c] = r]
      BY <2>3 DEF StartOver, TypeOK
    <3> QED
      BY <3>1, <3>2
  <2> QED
    BY <2>1, <2>2, <2>3
<1> QED
    BY <1>2 DEF TypeOK

\* Neither a scan's progress nor the end of a cursor disturbs SQLite's handles.
LEMMA HandleTypes ==
    ASSUME TypeOK, NEW c \in Cursors
    PROVE  /\ \A v \in {"idle", "row", "eof", "failed"} :
                handle' = [handle EXCEPT ![c].scan = v] =>
                    handle' \in [Cursors -> HandleRec] /\ SameCursors
           /\ \A v \in {"null", "closed"} :
                handle' = [handle EXCEPT ![c].st = v] =>
                    /\ handle' \in [Cursors -> HandleRec]
                    /\ \A d \in Cursors : handle'[d].st = "open" => handle'[d].tab \in Tables
<1>1. handle[c] \in [st : {"fresh", "open", "null", "closed"}, tab : Tables \cup {None},
                    slot : Nat, scan : {"idle", "row", "eof", "failed"}]
    BY DEF TypeOK, HandleRec
<1>2. ASSUME NEW v \in {"idle", "row", "eof", "failed"},
             handle' = [handle EXCEPT ![c].scan = v]
      PROVE  handle' \in [Cursors -> HandleRec] /\ SameCursors
  <2>. DEFINE r == [handle[c] EXCEPT !.scan = v]
  <2>1. r \in HandleRec /\ r.st = handle[c].st /\ r.tab = handle[c].tab /\ r.slot = handle[c].slot
    BY <1>1 DEF HandleRec
  <2>2. handle' = [handle EXCEPT ![c] = r]
    BY <1>2
  <2>. HIDE DEF r
  <2> QED
    BY <2>1, <2>2 DEF TypeOK, SameCursors
<1>3. ASSUME NEW v \in {"null", "closed"}, handle' = [handle EXCEPT ![c].st = v]
      PROVE  /\ handle' \in [Cursors -> HandleRec]
             /\ \A d \in Cursors : handle'[d].st = "open" => handle'[d].tab \in Tables
  <2>. DEFINE r == [handle[c] EXCEPT !.st = v]
  <2>1. r \in HandleRec /\ r.st # "open"
    BY <1>1 DEF HandleRec
  <2>2. handle' = [handle EXCEPT ![c] = r]
    BY <1>3
  <2>. HIDE DEF r
  <2> QED
    BY <2>1, <2>2 DEF TypeOK
<1> QED
    BY <1>2, <1>3

\* Answering a cursor keeps the types and SQLite's cursors.
LEMMA AnswerOK ==
    ASSUME TypeOK, NEW c \in Cursors, NEW r \in InstRec, Answer(c, c, r)
    PROVE  /\ inst' \in [Cursors -> InstRec] /\ handle' \in [Cursors -> HandleRec]
           /\ got' \in [Cursors -> Seq(Nat)] /\ SameCursors
<1>1. r.row \in Nat
    BY DEF InstRec
<1>2. \A d \in Cursors : handle[d] \in HandleRec
    BY DEF TypeOK
<1>3. handle' = [handle EXCEPT ![c].scan = IF r.eof THEN "eof" ELSE "row"]
    BY DEF Answer
<1>4. handle' \in [Cursors -> HandleRec] /\ SameCursors
    BY <1>3, HandleTypes
<1>5. got' \in [Cursors -> Seq(Nat)]
    BY <1>1 DEF Answer, TypeOK
<1> QED
    BY <1>4, <1>5 DEF Answer, TypeOK

\* So does reporting an error.
LEMMA FailOK ==
    ASSUME TypeOK, NEW c \in Cursors, Fail(c)
    PROVE  handle' \in [Cursors -> HandleRec] /\ SameCursors
<1>1. \A d \in Cursors : handle[d] \in HandleRec
    BY DEF TypeOK
<1> QED
    BY <1>1 DEF Fail, TypeOK, HandleRec, SameCursors

\* LTable.Disconnect keeps the types.
LEMMA DisconnectTypes ==
    ASSUME TypeOK, NEW t \in Tables, NEW g \in Gens, DisconnectAll(t, g)
    PROVE  /\ gen' \in [Gens -> GenRec] /\ inst' \in [Cursors -> InstRec]
           /\ cursors' \in [Tables -> Seq(Cursors)]
<1>1. \A h \in Gens : /\ gen[h] \in GenRec /\ Closed(h) \in GenRec
                      /\ Settled(h, "interrupt") \in GenRec
    BY GenTypes
<1>2. \A c \in Cursors : /\ inst[c] \in InstRec
                         /\ [inst[c] EXCEPT !.openIter = None] \in InstRec
    BY InstTypes
<1>3. gen' \in [Gens -> GenRec]
    BY <1>1 DEF DisconnectAll
<1>4. inst' \in [Cursors -> InstRec]
    BY <1>2 DEF DisconnectAll
<1>5. cursors' \in [Tables -> Seq(Cursors)]
    BY DEF DisconnectAll, TypeOK
<1> QED
    BY <1>3, <1>4, <1>5

\* Cursors that stay the same keep their tables.
LEMMA SameTables ==
    ASSUME TypeOK, SameCursors
    PROVE  \A c \in Cursors : handle'[c].st = "open" => handle'[c].tab \in Tables
BY DEF TypeOK, SameCursors

-----------------------------------------------------------------------------
(* The invariant is inductive: one lemma per group of callbacks.            *)

\* The first state satisfies the invariant.
LEMMA InitOK == Init => IInv
BY ConstantsOK DEF Init, IInv, TypeOK, SlotOwner, FramesOK, GenRec, GenStates, HandleRec,
   InstRec, NoGen, NoHandle, NoInst

\* xCreate
LEMMA CreateOK ==
    ASSUME IInv, NEW t \in Tables, Create(t)
    PROVE  IInv'
<1>1. PICK g \in Gens : /\ gen' = [gen EXCEPT ![g] = Started(t)]
                       /\ Push(Frame("create", t, None, g))
    BY DEF Create
<1>. DEFINE f == Frame("create", t, None, g)
<1>2. f \in FrameRec /\ FrameFits(f) /\ f.op # "close" /\ f.cur = None
    BY DEF Frame, FrameRec, FrameFits, TableOps, CursorOps
<1>. HIDE DEF f
<1>3. SameCursors /\ UNCHANGED slots
    BY DEF Create, SameCursors
<1>4. Push(f) /\ MayCall
    BY <1>1 DEF f, Create
<1>5. SlotOwner' /\ FramesOK'
    BY <1>2, <1>3, <1>4, PushOK
<1>6. stack' \in Seq(FrameRec)
    BY <1>2, <1>4, PushFacts DEF IInv, TypeOK
<1>7. gen' \in [Gens -> GenRec]
    BY <1>1, GenTypes DEF IInv, TypeOK
<1>8. TypeOK'
    BY <1>6, <1>7 DEF Create, IInv, TypeOK
<1> QED
    BY <1>5, <1>8 DEF IInv

\* xCreate tries once more after an AbortError.
LEMMA CreateRetryOK ==
    ASSUME IInv, CreateRetry
    PROVE  IInv'
<1>1. Top \in FrameRec /\ FrameFits(Top) /\ stack # <<>> /\ Top.op = "create"
    BY TopFacts DEF CreateRetry, Returning
<1>2. PICK g \in Gens : /\ gen' = [gen EXCEPT ![Top.gen] = Settled(Top.gen, "abort"),
                                            ![g] = Started(Top.tab)]
                       /\ Swap(Frame("recreate", Top.tab, None, g))
    BY DEF CreateRetry
<1>. DEFINE f == Frame("recreate", Top.tab, None, g)
<1>3. f \in FrameRec /\ FrameFits(f) /\ f.op # "close" /\ f.cur = Top.cur
    BY <1>1 DEF Frame, FrameRec, FrameFits, TableOps, CursorOps
<1>. HIDE DEF f
<1>4. SameCursors /\ UNCHANGED slots
    BY DEF CreateRetry, SameCursors
<1>5. Swap(f)
    BY <1>2 DEF f
<1>6. SlotOwner' /\ FramesOK'
    BY <1>1, <1>3, <1>4, <1>5, SwapOK
<1>7. stack' \in Seq(FrameRec)
    BY <1>1, <1>3, <1>5, SwapFacts DEF IInv, TypeOK
<1>8. Top.gen \in Gens /\ Top.tab \in Tables
    BY <1>1 DEF FrameRec
<1>9. gen' \in [Gens -> GenRec]
    BY <1>2, <1>8, GenTypes DEF IInv, TypeOK
<1>10. TypeOK'
    BY <1>7, <1>9 DEF CreateRetry, IInv, TypeOK
<1> QED
    BY <1>6, <1>10 DEF IInv

\* xCreate returns, with the table or without.
LEMMA CreateReturnOK ==
    ASSUME IInv, CreateReturn
    PROVE  IInv'
<1>1. /\ Top \in FrameRec /\ stack # <<>> /\ Top.op # "close"
      /\ Top.gen \in Gens /\ Top.tab \in Tables
    BY TopFacts DEF CreateReturn, Returning, FrameRec
<1>2. SameCursors /\ UNCHANGED slots /\ Pop
    BY DEF CreateReturn, SameCursors
<1>3. SlotOwner' /\ FramesOK'
    BY <1>1, <1>2, PopOK
<1>4. stack' \in Seq(FrameRec)
    BY <1>1, <1>2, PopFacts DEF IInv, TypeOK
<1>5. PICK o :
        /\ gen' = [gen EXCEPT ![Top.gen] = Settled(Top.gen, o)]
        /\ IF o = "yield"
           THEN /\ tables' = tables \cup {Top.tab}
                /\ openedIter' = [openedIter EXCEPT ![Top.tab] = Top.gen]
                /\ cursors' = [cursors EXCEPT ![Top.tab] = <<>>]
           ELSE UNCHANGED <<tables, openedIter, cursors>>
    BY DEF CreateReturn
<1>6. /\ gen' \in [Gens -> GenRec]
      /\ tables' \subseteq Tables
      /\ openedIter' \in [Tables -> Gens \cup {None}]
      /\ cursors' \in [Tables -> Seq(Cursors)]
  <2>1. gen' \in [Gens -> GenRec]
    BY <1>1, <1>5, GenTypes DEF IInv, TypeOK
  <2>2. CASE o = "yield"
    <3>1. cursors' = [cursors EXCEPT ![Top.tab] = <<>>] /\ <<>> \in Seq(Cursors)
      BY <1>5, <2>2
    <3> QED
      BY <1>1, <1>5, <2>1, <2>2, <3>1 DEF IInv, TypeOK
  <2>3. CASE o # "yield"
    BY <1>5, <2>1, <2>3 DEF IInv, TypeOK
  <2> QED
    BY <2>2, <2>3
<1>7. TypeOK'
    BY <1>4, <1>6 DEF CreateReturn, IInv, TypeOK
<1> QED
    BY <1>3, <1>7 DEF IInv

\* xOpen
LEMMA OpenFirstOK ==
    ASSUME IInv, NEW t \in Tables, NEW c \in Cursors, OpenFirst(t, c)
    PROVE  IInv'
<1>1. openedIter[t] \in Gens
    BY DEF OpenFirst, IInv, TypeOK
<1>2. /\ handle[c].st = "fresh" /\ Place(t, c, openedIter[t]) /\ UNCHANGED stack
      /\ \A i \in 1..Len(stack) : stack[i].cur # c
    BY DEF OpenFirst, MayOpen, Busy
<1>3. \A i \in 1..Len(stack) : stack[i].op # "close"
    BY NothingClosing DEF OpenFirst, MayOpen, IInv
<1>4. stack' \in Seq(FrameRec) /\ Len(stack') <= Len(stack)
    BY <1>2 DEF IInv, TypeOK
<1>5. /\ slots' \in Seq(SlotRec) /\ handle' \in [Cursors -> HandleRec]
      /\ inst' \in [Cursors -> InstRec] /\ cursors' \in [Tables -> Seq(Cursors)]
      /\ SlotOwner' /\ FramesOK'
    BY <1>1, <1>2, <1>3, <1>4, PlaceOK
<1>6. \A d \in Cursors : handle'[d].st = "open" => handle'[d].tab \in Tables
    BY <1>2 DEF Place, IInv, TypeOK
<1>7. TypeOK'
    BY <1>4, <1>5, <1>6 DEF OpenFirst, IInv, TypeOK
<1> QED
    BY <1>5, <1>7 DEF IInv

\* xOpen calls the table function for a later cursor.
LEMMA OpenAgainOK ==
    ASSUME IInv, NEW t \in Tables, NEW c \in Cursors, OpenAgain(t, c)
    PROVE  IInv'
<1>1. PICK g \in Gens : /\ gen' = [gen EXCEPT ![g] = Started(t)]
                       /\ Push(Frame("open", t, c, g))
    BY DEF OpenAgain
<1>. DEFINE f == Frame("open", t, c, g)
<1>2. f \in FrameRec /\ FrameFits(f) /\ f.op # "close" /\ f.cur = c
    BY DEF OpenAgain, MayOpen, Frame, FrameRec, FrameFits, TableOps, CursorOps
<1>. HIDE DEF f
<1>3. /\ SameCursors /\ UNCHANGED slots
      /\ Push(f) /\ MayCall /\ ~Busy(f.cur)
    BY <1>1, <1>2 DEF f, OpenAgain, MayOpen, SameCursors
<1>4. SlotOwner' /\ FramesOK'
    BY <1>2, <1>3, PushOK
<1>5. stack' \in Seq(FrameRec)
    BY <1>2, <1>3, PushFacts DEF IInv, TypeOK
<1>6. gen' \in [Gens -> GenRec]
    BY <1>1, GenTypes DEF IInv, TypeOK
<1>7. TypeOK'
    BY <1>5, <1>6 DEF OpenAgain, IInv, TypeOK
<1> QED
    BY <1>4, <1>7 DEF IInv

\* xOpen returns, with the cursor or without.
LEMMA OpenReturnOK ==
    ASSUME IInv, OpenReturn
    PROVE  IInv'
<1>. DEFINE c == Top.cur
           t == Top.tab
           g == Top.gen
<1>1. stack # <<>> /\ Top.op = "open" /\ Pop
    BY DEF OpenReturn, Returning
<1>2. /\ c \in Cursors /\ t \in Tables /\ g \in Gens /\ handle[c].st = "fresh"
      /\ \A i \in 1..(Len(stack) - 1) : stack[i].cur # c /\ stack[i].op # "close"
    BY <1>1, TopFacts, ConstantsOK DEF FrameFits, FrameRec
<1>3. /\ stack' \in Seq(FrameRec)
      /\ Len(stack) \in Nat \ {0} /\ Len(stack') = Len(stack) - 1
      /\ \A i \in 1..(Len(stack) - 1) : stack'[i] = stack[i]
    BY <1>1, PopFacts DEF IInv, TypeOK
<1>4. \A i \in 1..Len(stack) : stack[i].op # "close"
    BY <1>1, <1>2, <1>3 DEF Top
<1>5. PICK o : /\ gen' = [gen EXCEPT ![g] = Settled(g, o)]
               /\ IF o = "yield"
                  THEN Place(t, c, g)
                  ELSE /\ handle' = [handle EXCEPT ![c].st = "null"]
                       /\ UNCHANGED <<cursors, inst, slots>>
    BY DEF OpenReturn
<1>6. gen' \in [Gens -> GenRec]
    BY <1>2, <1>5, GenTypes DEF IInv, TypeOK
<1>7. /\ slots' \in Seq(SlotRec) /\ handle' \in [Cursors -> HandleRec]
      /\ inst' \in [Cursors -> InstRec] /\ cursors' \in [Tables -> Seq(Cursors)]
      /\ \A d \in Cursors : handle'[d].st = "open" => handle'[d].tab \in Tables
      /\ SlotOwner' /\ FramesOK'
  <2>1. CASE o = "yield"
    <3>1. Place(t, c, g)
      BY <1>5, <2>1
    <3>2. /\ slots' \in Seq(SlotRec) /\ handle' \in [Cursors -> HandleRec]
          /\ inst' \in [Cursors -> InstRec] /\ cursors' \in [Tables -> Seq(Cursors)]
          /\ SlotOwner' /\ FramesOK'
      BY <1>2, <1>3, <1>4, <3>1, PlaceOK
    <3>3. \A d \in Cursors : handle'[d].st = "open" => handle'[d].tab \in Tables
      BY <1>2, <3>1 DEF Place, IInv, TypeOK
    <3> QED
      BY <3>2, <3>3
  <2>2. CASE o # "yield"
    <3>1. handle' = [handle EXCEPT ![c].st = "null"] /\ UNCHANGED <<cursors, inst, slots>>
      BY <1>5, <2>2
    <3>2. handle \in [Cursors -> HandleRec]
      BY DEF IInv, TypeOK
    <3>3. /\ handle' \in [Cursors -> HandleRec] /\ handle'[c].st = "null"
          /\ \A d \in Cursors : d # c => handle'[d] = handle[d]
      BY <1>2, <3>1, <3>2 DEF HandleRec
    <3>4. \A d \in Cursors : Closing(d) => Closing(d)'
      BY <1>4 DEF Closing
    <3>5. SlotOwner'
      BY <3>1, <3>3, <3>4 DEF IInv, SlotOwner
    <3>6. \A j \in 1..Len(stack') : /\ j \in 1..Len(stack) /\ stack'[j] = stack[j]
                                     /\ stack'[j].cur # c
      BY <1>2, <1>3
    <3>7. FramesOK'
      BY <3>3, <3>6 DEF IInv, FramesOK
    <3> QED
      BY <3>1, <3>3, <3>5, <3>7 DEF IInv, TypeOK
  <2> QED
    BY <2>1, <2>2
<1>8. TypeOK'
    BY <1>3, <1>6, <1>7 DEF OpenReturn, IInv, TypeOK
<1> QED
    BY <1>7, <1>8 DEF IInv

-----------------------------------------------------------------------------
(* xFilter and xNext *)

\* Calling the generator of an idle cursor.
LEMMA ScanCallOK ==
    ASSUME IInv, NEW c \in Cursors, MayCall, Ready(c),
           NEW op \in CursorOps, op # "close", NEW g \in Gens,
           Push(Frame(op, handle[c].tab, c, g)), UNCHANGED <<slots, handle>>
    PROVE  stack' \in Seq(FrameRec) /\ SlotOwner' /\ FramesOK'
<1>. DEFINE f == Frame(op, handle[c].tab, c, g)
<1>1. handle[c].st = "open" /\ handle[c].tab \in Tables /\ ~Busy(c)
    BY DEF Ready, IInv, TypeOK
<1>2. f \in FrameRec /\ FrameFits(f) /\ f.op # "close" /\ f.cur = c
    BY <1>1 DEF Frame, FrameRec, FrameFits, TableOps, CursorOps
<1>. HIDE DEF f
<1>3. SameCursors /\ UNCHANGED slots /\ Push(f) /\ ~Busy(f.cur)
    BY <1>1, <1>2 DEF f, SameCursors
<1>4. SlotOwner' /\ FramesOK'
    BY <1>2, <1>3, PushOK
<1>5. stack' \in Seq(FrameRec)
    BY <1>2, <1>3, PushFacts DEF IInv, TypeOK
<1> QED
    BY <1>4, <1>5

\* The first xFilter of a cursor resumes its generator.
LEMMA FilterFirstOK ==
    ASSUME IInv, NEW c \in Cursors, FilterFirst(c)
    PROVE  IInv'
<1>. DEFINE g == inst[c].iterNext
<1>1. InstOf(c) = c /\ MayCall /\ Ready(c)
    BY OwnInstance DEF FilterFirst, MayFilter, Ready
<1>2. /\ g \in Gens
      /\ inst' = [inst EXCEPT ![c].firsttime = FALSE, ![c].eof = FALSE]
      /\ gen' = [gen EXCEPT ![g].st = "running"]
      /\ got' = [got EXCEPT ![c] = <<>>]
      /\ Push(Frame("filter", handle[c].tab, c, g))
      /\ UNCHANGED <<tables, openedIter, cursors, slots, handle>>
    BY <1>1 DEF FilterFirst, Suspended, IInv, TypeOK, InstRec
<1>. HIDE DEF g
<1>3. stack' \in Seq(FrameRec) /\ SlotOwner' /\ FramesOK'
  <2>1. "filter" \in CursorOps /\ "filter" # "close"
    BY DEF CursorOps
  <2> QED
    BY <1>1, <1>2, <2>1, ScanCallOK
<1>4. inst' \in [Cursors -> InstRec]
    BY <1>2, ScanInst DEF IInv
<1>5. gen' \in [Gens -> GenRec]
    BY <1>2, GenTypes DEF IInv, TypeOK
<1>6. TypeOK'
    BY <1>2, <1>3, <1>4, <1>5 DEF IInv, TypeOK
<1> QED
    BY <1>3, <1>6 DEF IInv

\* The first xFilter finds the generator closed.
LEMMA FilterClosedOK ==
    ASSUME IInv, NEW c \in Cursors, FilterClosed(c)
    PROVE  IInv'
<1>1. InstOf(c) = c /\ TypeOK
    BY OwnInstance DEF FilterClosed, MayFilter, Ready, IInv
<1>2. /\ inst' = [inst EXCEPT ![c] = [Exhausted(c) EXCEPT !.firsttime = FALSE]]
      /\ handle' = [handle EXCEPT ![c].scan = "eof"]
      /\ got' = [got EXCEPT ![c] = <<>>]
      /\ UNCHANGED <<tables, openedIter, cursors, gen, slots, stack>>
    BY <1>1 DEF FilterClosed
<1>3. inst' \in [Cursors -> InstRec]
    BY <1>1, <1>2, InstTypes DEF TypeOK
<1>4. handle' \in [Cursors -> HandleRec] /\ SameCursors
    BY <1>1, <1>2, HandleTypes
<1>5. SlotOwner' /\ FramesOK'
    BY <1>2, <1>4, StayOK
<1>6. TypeOK'
    BY <1>1, <1>2, <1>3, <1>4, SameTables DEF TypeOK
<1> QED
    BY <1>5, <1>6 DEF IInv

\* A later xFilter closes the generator of the previous scan.
LEMMA FilterAgainOK ==
    ASSUME IInv, NEW c \in Cursors, FilterAgain(c)
    PROVE  IInv'
<1>. DEFINE g == inst[c].openIter
<1>1. InstOf(c) = c /\ MayCall /\ Ready(c)
    BY OwnInstance DEF FilterAgain, MayFilter, Ready
<1>2. /\ g \in Gens
      /\ inst' = [inst EXCEPT ![c].eof = FALSE]
      /\ gen' = [gen EXCEPT ![g].st = "running"]
      /\ got' = [got EXCEPT ![c] = <<>>]
      /\ Push(Frame("reclose", handle[c].tab, c, g))
      /\ UNCHANGED <<tables, openedIter, cursors, slots, handle>>
    BY <1>1 DEF FilterAgain, Suspended, IInv, TypeOK, InstRec
<1>. HIDE DEF g
<1>3. stack' \in Seq(FrameRec) /\ SlotOwner' /\ FramesOK'
  <2>1. "reclose" \in CursorOps /\ "reclose" # "close"
    BY DEF CursorOps
  <2> QED
    BY <1>1, <1>2, <2>1, ScanCallOK
<1>4. inst' \in [Cursors -> InstRec]
    BY <1>2, ScanInst DEF IInv
<1>5. gen' \in [Gens -> GenRec]
    BY <1>2, GenTypes DEF IInv, TypeOK
<1>6. TypeOK'
    BY <1>2, <1>3, <1>4, <1>5 DEF IInv, TypeOK
<1> QED
    BY <1>3, <1>6 DEF IInv

\* A later xFilter starts a new generator.
LEMMA FilterRestartOK ==
    ASSUME IInv, NEW c \in Cursors, FilterRestart(c)
    PROVE  IInv'
<1>1. InstOf(c) = c /\ MayCall /\ Ready(c)
    BY OwnInstance DEF FilterRestart, MayFilter, Ready
<1>2. PICK g \in Gens :
        /\ gen' = [gen EXCEPT ![g] = Started(handle[c].tab)]
        /\ StartOver(c, g)
        /\ Push(Frame("skip", handle[c].tab, c, g))
    BY <1>1 DEF FilterRestart
<1>3. /\ got' = [got EXCEPT ![c] = <<>>]
      /\ UNCHANGED <<tables, openedIter, cursors, slots, handle>>
    BY DEF FilterRestart
<1>4. stack' \in Seq(FrameRec) /\ SlotOwner' /\ FramesOK'
  <2>1. "skip" \in CursorOps /\ "skip" # "close"
    BY DEF CursorOps
  <2> QED
    BY <1>1, <1>2, <1>3, <2>1, ScanCallOK
<1>5. inst' \in [Cursors -> InstRec]
    BY <1>2, ScanInst DEF IInv
<1>6. handle[c].tab \in Tables
    BY <1>1 DEF Ready, IInv, TypeOK
<1>7. gen' \in [Gens -> GenRec]
    BY <1>2, <1>6, GenTypes DEF IInv, TypeOK
<1>8. got' \in [Cursors -> Seq(Nat)]
    BY <1>3 DEF IInv, TypeOK
<1>9. TypeOK'
    BY <1>3, <1>4, <1>5, <1>7, <1>8 DEF IInv, TypeOK
<1> QED
    BY <1>4, <1>9 DEF IInv

\* xNext resumes the generator.
LEMMA NextCallOK ==
    ASSUME IInv, NEW c \in Cursors, Next_(c)
    PROVE  IInv'
<1>. DEFINE g == inst[c].iterNext
<1>1. InstOf(c) = c /\ MayCall /\ Ready(c)
    BY OwnInstance DEF Next_, MayStep, Ready
<1>2. /\ g \in Gens
      /\ gen' = [gen EXCEPT ![g].st = "running"]
      /\ Push(Frame("next", handle[c].tab, c, g))
      /\ UNCHANGED <<tables, openedIter, cursors, slots, handle, inst, got>>
    BY <1>1 DEF Next_, Suspended, IInv, TypeOK, InstRec
<1>. HIDE DEF g
<1>3. stack' \in Seq(FrameRec) /\ SlotOwner' /\ FramesOK'
  <2>1. "next" \in CursorOps /\ "next" # "close"
    BY DEF CursorOps
  <2> QED
    BY <1>1, <1>2, <2>1, ScanCallOK
<1>4. gen' \in [Gens -> GenRec]
    BY <1>2, GenTypes DEF IInv, TypeOK
<1>5. TypeOK'
    BY <1>2, <1>3, <1>4 DEF IInv, TypeOK
<1> QED
    BY <1>3, <1>5 DEF IInv

\* xNext finds the generator exhausted.
LEMMA NextFinishedOK ==
    ASSUME IInv, NEW c \in Cursors, NextFinished(c)
    PROVE  IInv'
<1>1. InstOf(c) = c /\ TypeOK
    BY OwnInstance DEF NextFinished, MayStep, Ready, IInv
<1>2. Exhausted(c) \in InstRec /\ Answer(c, c, Exhausted(c))
    BY <1>1, InstTypes DEF NextFinished
<1>3. UNCHANGED <<tables, openedIter, cursors, gen, slots, stack>>
    BY DEF NextFinished
<1>4. /\ inst' \in [Cursors -> InstRec] /\ handle' \in [Cursors -> HandleRec]
      /\ got' \in [Cursors -> Seq(Nat)] /\ SameCursors
    BY <1>1, <1>2, AnswerOK
<1>5. SlotOwner' /\ FramesOK'
    BY <1>3, <1>4, StayOK
<1>6. TypeOK'
    BY <1>1, <1>3, <1>4, SameTables DEF TypeOK
<1> QED
    BY <1>5, <1>6 DEF IInv

\* What the frame of a cursor's callback is about.
LEMMA CursorFrame ==
    ASSUME IInv, stack # <<>>, Top.op \in CursorOps
    PROVE  /\ Top.cur \in Cursors /\ Top.gen \in Gens /\ Top.tab \in Tables
           /\ handle[Top.cur].st = "open" /\ handle[Top.cur].tab = Top.tab
           /\ InstOf(Top.cur) = Top.cur
BY TopFacts, OwnInstance DEF FrameFits, FrameRec

\* xNext returns.
LEMMA NextReturnOK ==
    ASSUME IInv, NextReturn
    PROVE  IInv'
<1>. DEFINE c == Top.cur
           g == Top.gen
<1>1. /\ stack # <<>> /\ Top.op = "next" /\ Top.op # "close" /\ Pop
      /\ UNCHANGED <<tables, openedIter, cursors, slots>>
    BY DEF NextReturn, Returning
<1>2. c \in Cursors /\ g \in Gens /\ InstOf(c) = c /\ TypeOK
    BY <1>1, CursorFrame DEF CursorOps, IInv
<1>3. PICK o \in Outcomes(g) :
        /\ gen' = [gen EXCEPT ![g] = Settled(g, o)]
        /\ IF o = "interrupt"
           THEN Fail(c) /\ UNCHANGED <<inst, got>>
           ELSE Answer(c, c, CASE o = "yield" -> RowOf(c, g)
                               [] o = "stop"  -> Exhausted(c)
                               [] o = "error" -> inst[c])
    BY <1>2 DEF NextReturn
<1>4. o \in {"yield", "stop", "error", "interrupt"}
    BY ConstantsOK DEF Outcomes
<1>5. /\ inst[c] \in InstRec /\ RowOf(c, g) \in InstRec /\ Exhausted(c) \in InstRec
    BY <1>2, InstTypes
<1>6. /\ inst' \in [Cursors -> InstRec] /\ handle' \in [Cursors -> HandleRec]
      /\ got' \in [Cursors -> Seq(Nat)] /\ SameCursors
  <2>1. CASE o = "interrupt"
    BY <1>2, <1>3, <2>1, FailOK DEF TypeOK
  <2>2. CASE o # "interrupt"
    <3>1. PICK r \in InstRec : Answer(c, c, r)
      BY <1>3, <1>4, <1>5, <2>2
    <3> QED
      BY <1>2, <3>1, AnswerOK
  <2> QED
    BY <2>1, <2>2
<1>7. SlotOwner' /\ FramesOK'
    BY <1>1, <1>6, PopOK
<1>8. stack' \in Seq(FrameRec)
    BY <1>1, <1>2, PopFacts DEF TypeOK
<1>9. gen' \in [Gens -> GenRec]
    BY <1>2, <1>3, GenTypes DEF TypeOK
<1>10. TypeOK'
    BY <1>1, <1>2, <1>6, <1>8, <1>9, SameTables DEF TypeOK
<1> QED
    BY <1>7, <1>10 DEF IInv

\* xFilter has closed the previous generator.
LEMMA RecloseReturnOK ==
    ASSUME IInv, RecloseReturn
    PROVE  IInv'
<1>. DEFINE c == Top.cur
           g == Top.gen
           t == Top.tab
<1>1. /\ stack # <<>> /\ Top.op = "reclose" /\ Top.op # "close"
      /\ UNCHANGED <<tables, openedIter, slots, got>>
    BY DEF RecloseReturn, Returning
<1>2. /\ c \in Cursors /\ g \in Gens /\ t \in Tables /\ InstOf(c) = c /\ TypeOK
      /\ handle[c].st = "open" /\ handle[c].tab = t
    BY <1>1, CursorFrame DEF CursorOps, IInv
<1>3. CASE \E h \in Gens : /\ gen' = [gen EXCEPT ![g] = Closed(g), ![h] = Started(t)]
                          /\ StartOver(c, h)
                          /\ Swap(Frame("skip", t, c, h))
                          /\ UNCHANGED <<cursors, handle>>
  <2>1. PICK h \in Gens : /\ gen' = [gen EXCEPT ![g] = Closed(g), ![h] = Started(t)]
                         /\ StartOver(c, h)
                         /\ Swap(Frame("skip", t, c, h))
                         /\ UNCHANGED <<cursors, handle>>
    BY <1>3
  <2>. DEFINE f == Frame("skip", t, c, h)
  <2>2. f \in FrameRec /\ FrameFits(f) /\ f.op # "close" /\ f.cur = Top.cur
    BY <1>2 DEF Frame, FrameRec, FrameFits, TableOps, CursorOps
  <2>. HIDE DEF f
  <2>3. SameCursors /\ UNCHANGED slots /\ Swap(f)
    BY <1>1, <2>1 DEF f, SameCursors
  <2>4. SlotOwner' /\ FramesOK'
    BY <1>1, <2>2, <2>3, SwapOK
  <2>5. stack' \in Seq(FrameRec)
    BY <1>1, <1>2, <2>2, <2>3, SwapFacts DEF TypeOK
  <2>6. gen' \in [Gens -> GenRec]
    BY <1>2, <2>1, GenTypes DEF TypeOK
  <2>7. inst' \in [Cursors -> InstRec]
    BY <1>2, <2>1, ScanInst
  <2>8. TypeOK'
    BY <1>1, <1>2, <2>1, <2>5, <2>6, <2>7 DEF TypeOK
  <2> QED
    BY <2>4, <2>8 DEF IInv
<1>4. CASE /\ Fail(c) /\ Pop
           /\ \/ gen' = [gen EXCEPT ![g] = Closed(g)] /\ UNCHANGED <<inst, cursors>>
              \/ DisconnectAll(t, g)
  <2>1. handle' \in [Cursors -> HandleRec] /\ SameCursors
    BY <1>2, <1>4, FailOK
  <2>2. SlotOwner' /\ FramesOK'
    BY <1>1, <1>4, <2>1, PopOK
  <2>3. stack' \in Seq(FrameRec)
    BY <1>1, <1>2, <1>4, PopFacts DEF TypeOK
  <2>4. /\ gen' \in [Gens -> GenRec] /\ inst' \in [Cursors -> InstRec]
        /\ cursors' \in [Tables -> Seq(Cursors)]
    <3>1. CASE gen' = [gen EXCEPT ![g] = Closed(g)] /\ UNCHANGED <<inst, cursors>>
      BY <1>2, <3>1, GenTypes DEF TypeOK
    <3>2. CASE DisconnectAll(t, g)
      BY <1>2, <3>2, DisconnectTypes
    <3> QED
      BY <1>4, <3>1, <3>2
  <2>5. TypeOK'
    BY <1>1, <1>2, <2>1, <2>3, <2>4, SameTables DEF TypeOK
  <2> QED
    BY <2>2, <2>5 DEF IInv
<1> QED
    BY <1>2, <1>3, <1>4 DEF RecloseReturn

\* xFilter has dropped the schema row.
LEMMA SkipReturnOK ==
    ASSUME IInv, SkipReturn
    PROVE  IInv'
<1>. DEFINE c == Top.cur
           g == Top.gen
           t == Top.tab
<1>1. /\ stack # <<>> /\ Top.op = "skip" /\ Top.op # "close"
      /\ UNCHANGED <<tables, openedIter, slots, got>>
    BY DEF SkipReturn, Returning
<1>2. /\ c \in Cursors /\ g \in Gens /\ t \in Tables /\ InstOf(c) = c /\ TypeOK
      /\ handle[c].st = "open" /\ handle[c].tab = t
    BY <1>1, CursorFrame DEF CursorOps, IInv
<1>3. CASE /\ gen' = [gen EXCEPT ![g].pos = @ + 1]
           /\ Swap(Frame("filter", t, c, g))
           /\ UNCHANGED <<inst, cursors, handle>>
  <2>. DEFINE f == Frame("filter", t, c, g)
  <2>1. f \in FrameRec /\ FrameFits(f) /\ f.op # "close" /\ f.cur = Top.cur
    BY <1>2 DEF Frame, FrameRec, FrameFits, TableOps, CursorOps
  <2>. HIDE DEF f
  <2>2. SameCursors /\ UNCHANGED slots /\ Swap(f)
    BY <1>1, <1>3 DEF f, SameCursors
  <2>3. SlotOwner' /\ FramesOK'
    BY <1>1, <2>1, <2>2, SwapOK
  <2>4. stack' \in Seq(FrameRec)
    BY <1>1, <1>2, <2>1, <2>2, SwapFacts DEF TypeOK
  <2>5. gen' \in [Gens -> GenRec]
    BY <1>2, <1>3, GenTypes DEF TypeOK
  <2>6. TypeOK'
    BY <1>1, <1>2, <1>3, <2>4, <2>5 DEF TypeOK
  <2> QED
    BY <2>3, <2>6 DEF IInv
<1>4. CASE /\ Fail(c) /\ Pop
           /\ \/ gen' = [gen EXCEPT ![g] = Settled(g, "error")] /\ UNCHANGED <<inst, cursors>>
              \/ DisconnectAll(t, g)
  <2>1. handle' \in [Cursors -> HandleRec] /\ SameCursors
    BY <1>2, <1>4, FailOK
  <2>2. SlotOwner' /\ FramesOK'
    BY <1>1, <1>4, <2>1, PopOK
  <2>3. stack' \in Seq(FrameRec)
    BY <1>1, <1>2, <1>4, PopFacts DEF TypeOK
  <2>4. /\ gen' \in [Gens -> GenRec] /\ inst' \in [Cursors -> InstRec]
        /\ cursors' \in [Tables -> Seq(Cursors)]
    <3>1. CASE gen' = [gen EXCEPT ![g] = Settled(g, "error")] /\ UNCHANGED <<inst, cursors>>
      BY <1>2, <3>1, GenTypes DEF TypeOK
    <3>2. CASE DisconnectAll(t, g)
      BY <1>2, <3>2, DisconnectTypes
    <3> QED
      BY <1>4, <3>1, <3>2
  <2>5. TypeOK'
    BY <1>1, <1>2, <2>1, <2>3, <2>4, SameTables DEF TypeOK
  <2> QED
    BY <2>2, <2>5 DEF IInv
<1> QED
    BY <1>2, <1>3, <1>4 DEF SkipReturn

\* xFilter returns.
LEMMA FilterReturnOK ==
    ASSUME IInv, FilterReturn
    PROVE  IInv'
<1>. DEFINE c == Top.cur
           g == Top.gen
           t == Top.tab
<1>1. /\ stack # <<>> /\ Top.op = "filter" /\ Top.op # "close" /\ Pop
      /\ UNCHANGED <<tables, openedIter, slots>>
    BY DEF FilterReturn, Returning
<1>2. c \in Cursors /\ g \in Gens /\ t \in Tables /\ InstOf(c) = c /\ TypeOK
    BY <1>1, CursorFrame DEF CursorOps, IInv
<1>3. /\ gen' \in [Gens -> GenRec] /\ inst' \in [Cursors -> InstRec]
      /\ cursors' \in [Tables -> Seq(Cursors)] /\ handle' \in [Cursors -> HandleRec]
      /\ got' \in [Cursors -> Seq(Nat)] /\ SameCursors
  <2>1. CASE \E o, r : /\ gen' = [gen EXCEPT ![g] = Settled(g, o)]
                      /\ r \in {RowOf(c, g), Exhausted(c)} /\ Answer(c, c, r)
                      /\ UNCHANGED cursors
    <3>1. PICK o, r : /\ gen' = [gen EXCEPT ![g] = Settled(g, o)]
                      /\ r \in {RowOf(c, g), Exhausted(c)} /\ Answer(c, c, r)
                      /\ UNCHANGED cursors
      BY <2>1
    <3>2. r \in InstRec /\ Settled(g, o) \in GenRec
      BY <1>2, <3>1, InstTypes, GenTypes
    <3>3. /\ inst' \in [Cursors -> InstRec] /\ handle' \in [Cursors -> HandleRec]
          /\ got' \in [Cursors -> Seq(Nat)] /\ SameCursors
      BY <1>2, <3>1, <3>2, AnswerOK
    <3> QED
      BY <1>2, <3>1, <3>2, <3>3 DEF TypeOK
  <2>2. CASE /\ gen' = [gen EXCEPT ![g] = Settled(g, "error")]
             /\ Fail(c) /\ UNCHANGED <<inst, cursors, got>>
    BY <1>2, <2>2, FailOK, GenTypes DEF TypeOK
  <2>3. CASE DisconnectAll(t, g) /\ Fail(c) /\ UNCHANGED got
    BY <1>2, <2>3, FailOK, DisconnectTypes DEF TypeOK
  <2> QED
    BY <1>2, <2>1, <2>2, <2>3 DEF FilterReturn
<1>4. SlotOwner' /\ FramesOK'
    BY <1>1, <1>3, PopOK
<1>5. stack' \in Seq(FrameRec)
    BY <1>1, <1>2, PopFacts DEF TypeOK
<1>6. TypeOK'
    BY <1>1, <1>2, <1>3, <1>5, SameTables DEF TypeOK
<1> QED
    BY <1>4, <1>6 DEF IInv

-----------------------------------------------------------------------------
(* xClose, xDestroy and xDisconnect *)

\* xClose finds nothing to close.
LEMMA CloseFinishedOK ==
    ASSUME IInv, NEW c \in Cursors, CloseFinished(c)
    PROVE  IInv'
<1>1. /\ InstOf(c) = c /\ handle[c].st = "open" /\ TypeOK
      /\ \A i \in 1..Len(stack) : stack[i].cur # c
    BY OwnInstance DEF CloseFinished, Ready, Busy, IInv
<1>. DEFINE r == [cur |-> None, inst |-> None, tab |-> None]
<1>2. /\ slots' = [slots EXCEPT ![handle[c].slot] = r]
      /\ inst' = [inst EXCEPT ![c].openIter = None]
      /\ handle' = [handle EXCEPT ![c].st = "closed"]
      /\ UNCHANGED <<tables, openedIter, cursors, gen, stack, got>>
    BY <1>1 DEF CloseFinished
<1>3. r \in SlotRec
    BY DEF SlotRec
<1>4. stack' \in Seq(FrameRec) /\ Len(stack') <= Len(stack)
    BY <1>1, <1>2 DEF TypeOK
<1>. HIDE DEF r
<1>5. slots' \in Seq(SlotRec) /\ SlotOwner' /\ FramesOK'
    BY <1>1, <1>2, <1>3, <1>4, ReleaseOK
<1>6. /\ handle' \in [Cursors -> HandleRec]
      /\ \A d \in Cursors : handle'[d].st = "open" => handle'[d].tab \in Tables
    BY <1>1, <1>2, HandleTypes
<1>7. inst' \in [Cursors -> InstRec]
    BY <1>1, <1>2, InstTypes DEF TypeOK
<1>8. TypeOK'
    BY <1>1, <1>2, <1>4, <1>5, <1>6, <1>7 DEF TypeOK
<1> QED
    BY <1>5, <1>8 DEF IInv

\* xClose returns.
LEMMA CloseReturnOK ==
    ASSUME IInv, CloseReturn
    PROVE  IInv'
<1>. DEFINE c == Top.cur
           g == Top.gen
           n == handle[c].slot
<1>1. /\ stack # <<>> /\ Top.op = "close" /\ Pop
      /\ handle' = [handle EXCEPT ![c].st = "closed"]
      /\ UNCHANGED <<tables, openedIter, cursors, got>>
    BY DEF CloseReturn, Returning
<1>2. /\ c \in Cursors /\ g \in Gens /\ InstOf(c) = c /\ TypeOK
      /\ handle[c].st = "open" /\ n \in 1..Len(slots) /\ c # None
    BY <1>1, CursorFrame, OwnInstance, ConstantsOK DEF CursorOps, IInv
<1>3. /\ gen' = [gen EXCEPT ![g] = Closed(g)]
      /\ \/ /\ slots' = [slots EXCEPT ![n].inst = None, ![n].tab = None]
            /\ inst' = [inst EXCEPT ![c].openIter = None]
         \/ UNCHANGED <<slots, inst>>
    BY <1>2 DEF CloseReturn
<1>4. /\ stack' \in Seq(FrameRec)
      /\ Len(stack) \in Nat \ {0} /\ Len(stack') = Len(stack) - 1
      /\ \A i \in 1..(Len(stack) - 1) : stack'[i] = stack[i]
    BY <1>1, <1>2, PopFacts DEF TypeOK
<1>5. /\ \A i \in 1..Len(stack') : stack'[i] = stack[i] /\ stack[i].cur # c
      /\ \A i \in 1..Len(stack) : i \notin 1..Len(stack') => stack[i].cur = c
  <2>1. \A i \in 1..(Len(stack) - 1) : stack[i].cur = None \/ stack[i].cur # Top.cur
    BY <1>1, TopFacts
  <2>2. \A i \in 1..Len(stack) : i \notin 1..Len(stack') => i = Len(stack)
    BY <1>4
  <2> QED
    BY <1>2, <1>4, <2>1, <2>2 DEF Top
<1>6. PICK r \in SlotRec : slots' = [slots EXCEPT ![n] = r] \/ UNCHANGED slots
  <2>. DEFINE e == [slots[n] EXCEPT !.inst = None, !.tab = None]
  <2>1. slots[n] \in SlotRec
    BY <1>2 DEF TypeOK
  <2>2. e \in SlotRec
    BY <2>1 DEF SlotRec
  <2>3. [slots EXCEPT ![n].inst = None, ![n].tab = None] = [slots EXCEPT ![n] = e]
    BY <1>2 DEF TypeOK
  <2> QED
    BY <1>3, <2>2, <2>3
<1>7. slots' \in Seq(SlotRec) /\ SlotOwner' /\ FramesOK'
  <2>1. Len(stack') <= Len(stack)
    BY <1>4
  <2>. HIDE DEF c
  <2> QED
    BY <1>1, <1>2, <1>4, <1>5, <1>6, <2>1, ReleaseOK
<1>8. /\ handle' \in [Cursors -> HandleRec]
      /\ \A d \in Cursors : handle'[d].st = "open" => handle'[d].tab \in Tables
    BY <1>1, <1>2, HandleTypes
<1>9. inst' \in [Cursors -> InstRec] /\ gen' \in [Gens -> GenRec]
    BY <1>2, <1>3, InstTypes, GenTypes DEF TypeOK
<1>10. TypeOK'
    BY <1>1, <1>2, <1>4, <1>7, <1>8, <1>9 DEF TypeOK
<1> QED
    BY <1>7, <1>10 DEF IInv

\* xDestroy and xDisconnect touch no slot and no frame.
LEMMA DestroyOK ==
    ASSUME IInv, NEW t \in Tables, Destroy(t) \/ Disconnect(t)
    PROVE  IInv'
<1>1. TypeOK /\ UNCHANGED <<slots, handle, stack, got>>
    BY DEF Destroy, Disconnect, IInv
<1>2. SameCursors
    BY <1>1 DEF SameCursors
<1>3. SlotOwner' /\ FramesOK'
    BY <1>1, <1>2, StayOK
<1>4. /\ tables' \subseteq Tables
      /\ openedIter' \in [Tables -> Gens \cup {None}]
      /\ cursors' \in [Tables -> Seq(Cursors)]
  <2>1. /\ tables' = tables \ {t}
        /\ openedIter' = [openedIter EXCEPT ![t] = None]
        /\ cursors' = [cursors EXCEPT ![t] = <<>>]
    BY DEF Destroy, Disconnect
  <2> QED
    BY <1>1, <2>1 DEF TypeOK
<1>5. gen' \in [Gens -> GenRec] /\ inst' \in [Cursors -> InstRec]
  <2>1. CASE Destroy(t)
    BY <1>1, <2>1, GenTypes, InstTypes DEF Destroy
  <2>2. CASE Disconnect(t)
    BY <1>1, <2>2 DEF Disconnect, TypeOK
  <2> QED
    BY <2>1, <2>2
<1>6. TypeOK'
    BY <1>1, <1>4, <1>5 DEF TypeOK
<1> QED
    BY <1>3, <1>6 DEF IInv

\* Every step keeps the invariant.
LEMMA NextOK == IInv /\ [Next]_vars => IInv'
<1> SUFFICES ASSUME IInv, [Next]_vars
             PROVE  IInv'
    OBVIOUS
<1>1. CASE UNCHANGED vars
  <2>1. SameCursors /\ UNCHANGED <<slots, stack>>
    BY <1>1 DEF vars, SameCursors
  <2>2. SlotOwner' /\ FramesOK'
    BY <2>1, StayOK
  <2>3. TypeOK'
    BY <1>1 DEF vars, IInv, TypeOK
  <2> QED
    BY <2>2, <2>3 DEF IInv
<1>2. CASE Call
    BY <1>2, CreateOK, DestroyOK, OpenFirstOK, OpenAgainOK, FilterFirstOK, FilterClosedOK,
       FilterAgainOK, FilterRestartOK, NextCallOK, NextFinishedOK, CloseOK, CloseFinishedOK
       DEF Call
<1>3. CASE Return
    BY <1>3, CreateRetryOK, CreateReturnOK, OpenReturnOK, RecloseReturnOK, SkipReturnOK,
       FilterReturnOK, NextReturnOK, CloseReturnOK DEF Return
<1> QED
    BY <1>1, <1>2, <1>3 DEF Next

\* The invariant holds in every reachable state.
LEMMA Invariance == Spec => []IInv
BY InitOK, NextOK, PTL DEF Spec

\* The bookkeeping of the callbacks keeps its shape, whatever the tables, the
\* nesting and the exceptions.
THEOREM TypeCorrect == Spec => []TypeOK
<1>1. IInv => TypeOK
    BY DEF IInv
<1> QED
    BY <1>1, Invariance, PTL

\* xOpen, xClose and the slots they share never mix up two cursors: an open
\* cursor is answered by the instance that was made for it.
THEOREM SlotsOwned == Spec => []SlotOwner
<1>1. IInv => SlotOwner
    BY DEF IInv
<1> QED
    BY <1>1, Invariance, PTL

-----------------------------------------------------------------------------
(* Who holds a generator.  Between two callbacks a generator that can still  *)
(* run is held by one cursor, or by the table whose schema it gave; while it *)
(* runs, exactly one frame waits for it.                                     *)

\* The callbacks that run a generator nobody holds yet.
NewOps == TableOps \cup {"open"}

\* No generator is held twice.
HoldersUnique ==
    /\ \A c, d \in Cursors :
          inst[c].openIter = inst[d].openIter /\ inst[c].openIter # None => c = d
    /\ \A t, u \in Tables :
          openedIter[t] = openedIter[u] /\ openedIter[t] # None => t = u
    /\ \A t \in Tables, c \in Cursors :
          openedIter[t] = inst[c].openIter => openedIter[t] = None

\* What is held was made by VTiter.
HeldStarted ==
    /\ \A c \in Cursors : inst[c].openIter # None => gen[inst[c].openIter].st # "unborn"
    /\ \A c \in Cursors : inst[c].iterNext # None => gen[inst[c].iterNext].st # "unborn"
    /\ \A t \in Tables : openedIter[t] # None => gen[openedIter[t]].st # "unborn"

\* The generator of a frame runs, for nobody yet or for the frame's cursor.
FrameGen(f) ==
    /\ gen[f.gen].st = "running"
    /\ f.op \in NewOps => /\ gen[f.gen].pos = 0
                          /\ \A c \in Cursors : inst[c].openIter # f.gen
                          /\ \A t \in Tables : openedIter[t] # f.gen
    /\ f.op \in CursorOps => inst[f.cur].openIter = f.gen

\* Each frame waits for a generator of its own.
FramesHold ==
    /\ \A i \in 1..Len(stack) : FrameGen(stack[i])
    /\ \A i, j \in 1..Len(stack) : stack[i].gen = stack[j].gen => i = j

\* A running generator has a frame waiting for it.
RunningWaits ==
    \A g \in Gens : gen[g].st = "running" => \E i \in 1..Len(stack) : stack[i].gen = g

\* The generator a cursor holds is the one its next method resumes ...
HeldIsNext ==
    \A c \in Cursors : inst[c].openIter # None => inst[c].openIter = inst[c].iterNext

\* ... and the next method of a generator given up finds it exhausted.
NextIsHeld ==
    \A c \in Cursors, g \in Gens :
        inst[c].iterNext = g /\ CanRun(g) => inst[c].openIter = g

\* LTable.cursors lists cursors xOpen gave out for this table.
MadeFor ==
    \A t \in Tables : \A j \in 1..Len(cursors[t]) :
        handle[cursors[t][j]].tab = t /\ handle[cursors[t][j]].st # "fresh"

\* Together they are inductive, given IInv.
Held ==
    /\ HoldersUnique /\ HeldStarted /\ FramesHold /\ RunningWaits
    /\ HeldIsNext /\ NextIsHeld /\ MadeFor /\ NoScanLeft

\* The step hands no generator on and gives none up.
SameHolders ==
    /\ \A c \in Cursors : /\ inst'[c].openIter = inst[c].openIter
                          /\ inst'[c].iterNext = inst[c].iterNext
    /\ openedIter' = openedIter

\* The types the proofs below use.
LEMMA HeldTypes ==
    ASSUME IInv
    PROVE  /\ gen \in [Gens -> GenRec]
           /\ Len(stack) \in Nat
           /\ \A i \in 1..Len(stack) : stack[i] \in FrameRec /\ stack[i].gen \in Gens
           /\ \A c \in Cursors : /\ inst[c].openIter \in Gens \cup {None}
                                 /\ inst[c].iterNext \in Gens \cup {None}
           /\ \A t \in Tables : openedIter[t] \in Gens \cup {None}
           /\ \A t \in Tables : Len(cursors[t]) \in Nat /\ cursors[t] \in Seq(Cursors)
           /\ None \notin Gens /\ None \notin Cursors
<1>1. TypeOK
    BY DEF IInv
<1>2. \A i \in 1..Len(stack) : stack[i] \in FrameRec /\ stack[i].gen \in Gens
  <2>1. \A i \in 1..Len(stack) : stack[i] \in FrameRec
    BY <1>1 DEF TypeOK
  <2> QED
    BY <2>1 DEF FrameRec
<1>3. \A c \in Cursors : /\ inst[c].openIter \in Gens \cup {None}
                         /\ inst[c].iterNext \in Gens \cup {None}
    BY <1>1 DEF TypeOK, InstRec
<1> QED
    BY <1>1, <1>2, <1>3, ConstantsOK DEF TypeOK

\* The list of a table's cursors stays right while handles only move on.
LEMMA MadeForKept ==
    ASSUME IInv, MadeFor,
           \A t \in Tables : cursors'[t] = cursors[t] \/ cursors'[t] = <<>>,
           \A c \in Cursors : handle[c].st # "fresh" =>
                handle'[c].st # "fresh" /\ handle'[c].tab = handle[c].tab
    PROVE  MadeFor'
<1> SUFFICES ASSUME NEW t \in Tables, NEW j \in 1..Len(cursors'[t])
             PROVE  handle'[cursors'[t][j]].tab = t /\ handle'[cursors'[t][j]].st # "fresh"
    BY DEF MadeFor
<1>1. cursors'[t] = cursors[t]
    BY SMT
<1>2. cursors[t][j] \in Cursors
    BY <1>1, HeldTypes
<1> QED
    BY <1>1, <1>2 DEF MadeFor

\* A callback that resumes the generator its cursor holds.
LEMMA ResumeHeld ==
    ASSUME IInv, Held, NEW c \in Cursors, NEW g \in Gens,
           inst[c].openIter = g, gen[g].st = "suspended",
           NEW op \in CursorOps, NEW t \in Tables, Push(Frame(op, t, c, g)),
           gen' = [gen EXCEPT ![g].st = "running"],
           SameHolders, SameCursors, UNCHANGED cursors
    PROVE  Held'
<1>. DEFINE f == Frame(op, t, c, g)
<1>1. f \in FrameRec /\ f.op = op /\ f.cur = c /\ f.gen = g /\ f.op \notin NewOps
    BY DEF Frame, FrameRec, NewOps, CursorOps, TableOps
<1>2. Push(f)
    OBVIOUS
<1>. HIDE DEF f
<1>3. /\ Len(stack) \in Nat /\ Len(stack') = Len(stack) + 1
      /\ stack'[Len(stack) + 1] = f
      /\ \A i \in 1..Len(stack) : stack'[i] = stack[i]
    BY <1>1, <1>2, PushFacts DEF IInv, TypeOK
<1>4. /\ gen'[g].st = "running"
      /\ \A h \in Gens : gen'[h].pos = gen[h].pos
      /\ \A h \in Gens : h # g => gen'[h] = gen[h]
    BY HeldTypes DEF GenRec
<1>5. /\ HoldersUnique /\ HeldStarted /\ FramesHold /\ RunningWaits
      /\ HeldIsNext /\ NextIsHeld /\ MadeFor /\ NoScanLeft
    BY DEF Held
<1>6. \A i \in 1..Len(stack) : stack[i].gen \in Gens /\ stack[i].gen # g
    BY <1>5, HeldTypes DEF FramesHold, FrameGen
<1>7. HoldersUnique' /\ HeldIsNext'
    BY <1>5 DEF HoldersUnique, HeldIsNext, SameHolders
<1>8. HeldStarted'
    BY <1>4, <1>5, HeldTypes DEF HeldStarted, SameHolders
<1>9. FramesHold'
  <2>1. \A i, j \in 1..Len(stack') : stack'[i].gen = stack'[j].gen => i = j
    BY <1>1, <1>3, <1>5, <1>6 DEF FramesHold
  <2>2. ASSUME NEW i \in 1..Len(stack')
        PROVE  FrameGen(stack[i])'
    <3>1. CASE i \in 1..Len(stack)
      <4>1. stack'[i] = stack[i] /\ FrameGen(stack[i]) /\ gen'[stack[i].gen] = gen[stack[i].gen]
        BY <1>3, <1>4, <1>5, <1>6, <3>1 DEF FramesHold
      <4>2. stack[i].op \in CursorOps => stack[i].cur \in Cursors
        BY <3>1 DEF IInv, FramesOK
      <4> QED
        BY <4>1, <4>2 DEF FrameGen, SameHolders
    <3>2. CASE i = Len(stack) + 1
      BY <1>1, <1>3, <1>4, <3>2 DEF FrameGen, SameHolders
    <3> QED
      BY <1>3, <3>1, <3>2
  <2> QED
    BY <2>1, <2>2 DEF FramesHold
<1>10. RunningWaits'
    BY <1>1, <1>3, <1>4, <1>5 DEF RunningWaits
<1>11. NextIsHeld'
    BY <1>4, <1>5 DEF NextIsHeld, SameHolders, CanRun
<1>12. NoScanLeft'
    BY <1>4, <1>5, HeldTypes DEF NoScanLeft, SameHolders, SameCursors, Suspended
<1>13. MadeFor'
    BY <1>5, MadeForKept DEF SameCursors
<1> QED
    BY <1>7, <1>8, <1>9, <1>10, <1>11, <1>12, <1>13 DEF Held

\* What the parts of Held say about the frames.
LEMMA FrameFacts ==
    ASSUME IInv, Held
    PROVE  /\ \A i \in 1..Len(stack) : FrameGen(stack[i]) /\ stack[i].gen \in Gens
           /\ \A i, j \in 1..Len(stack) : stack[i].gen = stack[j].gen => i = j
           /\ \A i \in 1..Len(stack) : stack[i].op \in CursorOps => stack[i].cur \in Cursors
BY HeldTypes DEF Held, FramesHold, IInv, FramesOK

\* A cursor no callback waits for holds no running generator.
LEMMA IdleGen ==
    ASSUME IInv, Held, NEW c \in Cursors, inst[c].openIter # None,
           \A i \in 1..Len(stack) : stack[i].cur # c
    PROVE  gen[inst[c].openIter].st # "running"
<1> SUFFICES ASSUME gen[inst[c].openIter].st = "running"
             PROVE  FALSE
    OBVIOUS
<1>1. inst[c].openIter \in Gens
    BY HeldTypes
<1>2. PICK i \in 1..Len(stack) : stack[i].gen = inst[c].openIter
    BY <1>1 DEF Held, RunningWaits
<1>3. /\ FrameGen(stack[i])
      /\ stack[i].op \in CursorOps => stack[i].cur \in Cursors
      /\ stack[i].op \in NewOps \cup CursorOps
    BY FrameFacts, HeldTypes DEF FrameRec, NewOps
<1>4. CASE stack[i].op \in NewOps
    BY <1>2, <1>3, <1>4 DEF FrameGen
<1>5. CASE stack[i].op \in CursorOps
    BY <1>2, <1>3, <1>5 DEF FrameGen, Held, HoldersUnique
<1> QED
    BY <1>3, <1>4, <1>5

\* A callback that starts a generator for nobody yet.
LEMMA StartNew ==
    ASSUME IInv, Held, NEW g \in Gens, gen[g].st = "unborn",
           NEW op \in NewOps, NEW t \in Tables, NEW c \in Cursors \cup {None},
           Push(Frame(op, t, c, g)), gen' = [gen EXCEPT ![g] = Started(t)],
           SameHolders, SameCursors, UNCHANGED cursors
    PROVE  Held'
<1>. DEFINE f == Frame(op, t, c, g)
<1>1. f \in FrameRec /\ f.op = op /\ f.gen = g /\ f.op \notin CursorOps
    BY DEF Frame, FrameRec, NewOps, CursorOps, TableOps
<1>2. Push(f)
    OBVIOUS
<1>. HIDE DEF f
<1>3. /\ Len(stack) \in Nat /\ Len(stack') = Len(stack) + 1
      /\ stack'[Len(stack) + 1] = f
      /\ \A i \in 1..Len(stack) : stack'[i] = stack[i]
    BY <1>1, <1>2, PushFacts DEF IInv, TypeOK
<1>4. /\ gen'[g].st = "running" /\ gen'[g].pos = 0
      /\ \A h \in Gens : h # g => gen'[h] = gen[h]
    BY HeldTypes DEF Started
<1>5. /\ HoldersUnique /\ HeldStarted /\ FramesHold /\ RunningWaits
      /\ HeldIsNext /\ NextIsHeld /\ MadeFor /\ NoScanLeft
    BY DEF Held
<1>6. \A i \in 1..Len(stack) : stack[i].gen \in Gens /\ stack[i].gen # g
    BY FrameFacts DEF FrameGen
<1>7. HoldersUnique' /\ HeldIsNext'
    BY <1>5 DEF HoldersUnique, HeldIsNext, SameHolders
<1>14. /\ \A d \in Cursors : inst[d].openIter # g /\ inst[d].iterNext # g
       /\ \A u \in Tables : openedIter[u] # g
    BY <1>5, HeldTypes DEF HeldStarted
<1>8. HeldStarted'
    BY <1>4, <1>5, <1>14, HeldTypes DEF HeldStarted, SameHolders
<1>9. FramesHold'
  <2>1. \A i, j \in 1..Len(stack') : stack'[i].gen = stack'[j].gen => i = j
    BY <1>1, <1>3, <1>5, <1>6 DEF FramesHold
  <2>2. ASSUME NEW i \in 1..Len(stack')
        PROVE  FrameGen(stack[i])'
    <3>1. CASE i \in 1..Len(stack)
      <4>1. stack'[i] = stack[i] /\ FrameGen(stack[i]) /\ gen'[stack[i].gen] = gen[stack[i].gen]
        BY <1>3, <1>4, <1>5, <1>6, <3>1 DEF FramesHold
      <4>2. stack[i].op \in CursorOps => stack[i].cur \in Cursors
        BY <3>1, FrameFacts
      <4> QED
        BY <4>1, <4>2 DEF FrameGen, SameHolders
    <3>2. CASE i = Len(stack) + 1
      BY <1>1, <1>3, <1>4, <1>14, <3>2 DEF FrameGen, SameHolders
    <3> QED
      BY <1>3, <3>1, <3>2
  <2> QED
    BY <2>1, <2>2 DEF FramesHold
<1>10. RunningWaits'
    BY <1>1, <1>3, <1>4, <1>5 DEF RunningWaits
<1>11. NextIsHeld'
    BY <1>4, <1>5, <1>14 DEF NextIsHeld, SameHolders, CanRun
<1>12. NoScanLeft'
    BY <1>4, <1>5, <1>14, HeldTypes DEF NoScanLeft, SameHolders, SameCursors, Suspended
<1>13. MadeFor'
    BY <1>5, MadeForKept DEF SameCursors
<1> QED
    BY <1>7, <1>8, <1>9, <1>10, <1>11, <1>12, <1>13 DEF Held

\* A callback that goes on with the same generator: the schema row is dropped.
LEMMA GoOn ==
    ASSUME IInv, Held, stack # <<>>, Top.op = "skip",
           Swap(Frame("filter", Top.tab, Top.cur, Top.gen)),
           gen' = [gen EXCEPT ![Top.gen].pos = @ + 1],
           UNCHANGED <<inst, openedIter, cursors, handle>>
    PROVE  Held'
<1>. DEFINE f == Frame("filter", Top.tab, Top.cur, Top.gen)
<1>1. /\ Top \in FrameRec /\ Top.gen \in Gens /\ Len(stack) \in Nat \ {0}
      /\ FrameGen(Top) /\ Top.cur \in Cursors
    BY TopFacts, FrameFacts DEF FrameRec, Top, CursorOps
<1>2. /\ f \in FrameRec /\ f.op = "filter" /\ f.cur = Top.cur /\ f.gen = Top.gen
      /\ f.op \notin NewOps
    BY <1>1 DEF Frame, FrameRec, NewOps, CursorOps, TableOps
<1>3. Swap(f)
    OBVIOUS
<1>. HIDE DEF f
<1>4. /\ Len(stack') = Len(stack) /\ stack'[Len(stack)] = f
      /\ \A i \in 1..(Len(stack) - 1) : stack'[i] = stack[i]
    BY <1>2, <1>3, SwapFacts DEF IInv, TypeOK
<1>5. /\ \A h \in Gens : gen'[h].st = gen[h].st
      /\ \A h \in Gens : h # Top.gen => gen'[h] = gen[h]
    BY <1>1, HeldTypes DEF GenRec
<1>6. /\ HoldersUnique /\ HeldStarted /\ FramesHold /\ RunningWaits
      /\ HeldIsNext /\ NextIsHeld /\ MadeFor /\ NoScanLeft
    BY DEF Held
<1>7. HoldersUnique' /\ HeldIsNext' /\ MadeFor'
    BY <1>6 DEF HoldersUnique, HeldIsNext, MadeFor
<1>8. HeldStarted'
    BY <1>5, <1>6, HeldTypes DEF HeldStarted
<1>9. \A i \in 1..Len(stack) : stack'[i].gen = stack[i].gen
    BY <1>1, <1>2, <1>4 DEF Top
<1>10. FramesHold'
  <2>1. \A i, j \in 1..Len(stack') : stack'[i].gen = stack'[j].gen => i = j
    BY <1>4, <1>6, <1>9 DEF FramesHold
  <2>2. ASSUME NEW i \in 1..Len(stack')
        PROVE  FrameGen(stack[i])'
    <3>1. CASE i \in 1..(Len(stack) - 1)
      <4>1. stack[i].gen # Top.gen
        BY <1>1, <1>4, <1>6, <3>1 DEF FramesHold, Top
      <4>2. /\ stack'[i] = stack[i] /\ FrameGen(stack[i])
            /\ gen'[stack[i].gen] = gen[stack[i].gen]
        BY <1>1, <1>4, <1>5, <4>1, <3>1, FrameFacts
      <4> QED
        BY <4>2 DEF FrameGen
    <3>2. CASE i = Len(stack)
      <4>1. Top.op \in CursorOps /\ "filter" \in CursorOps
        BY DEF CursorOps
      <4>2. gen'[Top.gen].st = "running" /\ inst'[Top.cur].openIter = Top.gen
        BY <1>1, <1>5, <4>1 DEF FrameGen
      <4> QED
        BY <1>2, <1>4, <3>2, <4>2 DEF FrameGen
    <3> QED
      BY <1>1, <1>4, <3>1, <3>2
  <2> QED
    BY <2>1, <2>2 DEF FramesHold
<1>11. RunningWaits'
    BY <1>4, <1>5, <1>6, <1>9 DEF RunningWaits
<1>12. NextIsHeld'
    BY <1>5, <1>6 DEF NextIsHeld, CanRun
<1>13. NoScanLeft'
  <2>1. gen[Top.gen].st # "suspended"
    BY <1>1 DEF FrameGen
  <2> QED
    BY <1>5, <1>6, <2>1, HeldTypes DEF NoScanLeft, Suspended
<1> QED
    BY <1>7, <1>8, <1>10, <1>11, <1>12, <1>13 DEF Held

\* A cursor gives up a generator that cannot run any more.
LEMMA GiveUp ==
    ASSUME IInv, Held, NEW c \in Cursors,
           \A i \in 1..Len(stack) : stack[i].cur # c,
           ~Suspended(inst[c].iterNext) \/ ~Suspended(inst[c].openIter),
           inst'[c].openIter = None, inst'[c].iterNext = inst[c].iterNext,
           \A d \in Cursors : d # c => inst'[d].openIter = inst[d].openIter
                                       /\ inst'[d].iterNext = inst[d].iterNext,
           \A d \in Cursors : d # c => handle'[d].st = handle[d].st,
           \A d \in Cursors : handle[d].st # "fresh" =>
                handle'[d].st # "fresh" /\ handle'[d].tab = handle[d].tab,
           UNCHANGED <<openedIter, cursors, gen, stack>>
    PROVE  Held'
<1>1. /\ HoldersUnique /\ HeldStarted /\ FramesHold /\ RunningWaits
      /\ HeldIsNext /\ NextIsHeld /\ MadeFor /\ NoScanLeft
    BY DEF Held
<1>2. inst[c].openIter # None => ~CanRun(inst[c].openIter)
    BY <1>1, IdleGen DEF HeldIsNext, Suspended, CanRun
<1>3. HoldersUnique' /\ HeldIsNext'
    BY <1>1 DEF HoldersUnique, HeldIsNext
<1>4. HeldStarted' /\ RunningWaits'
    BY <1>1 DEF HeldStarted, RunningWaits
<1>5. FramesHold'
  <2>1. ASSUME NEW i \in 1..Len(stack)
        PROVE  FrameGen(stack[i])'
    <3>1. /\ FrameGen(stack[i]) /\ stack[i].gen \in Gens /\ stack[i].cur # c
          /\ stack[i].op \in CursorOps => stack[i].cur \in Cursors
      BY FrameFacts
    <3>2. stack[i].gen # None
      BY <3>1, HeldTypes
    <3> QED
      BY <3>1, <3>2 DEF FrameGen
  <2> QED
    BY <1>1, <2>1 DEF FramesHold
<1>6. NextIsHeld'
  <2> SUFFICES ASSUME NEW d \in Cursors, NEW g \in Gens,
                      inst'[d].iterNext = g, CanRun(g)
               PROVE  inst'[d].openIter = g
    BY DEF NextIsHeld, CanRun
  <2>1. inst[d].iterNext = g
    BY SMT
  <2>2. inst[d].openIter = g
    BY <1>1, <2>1 DEF NextIsHeld
  <2>3. g # None
    BY HeldTypes
  <2> QED
    BY <1>2, <2>2, <2>3
<1>7. NoScanLeft'
  <2>1. ASSUME NEW g \in Gens, gen[g].st = "suspended", gen[g].pos > 1
        PROVE  \E d \in Cursors : handle'[d].st = "open" /\ inst'[d].openIter = g
    <3>1. PICK d \in Cursors : handle[d].st = "open" /\ inst[d].openIter = g
      BY <1>1, <2>1 DEF NoScanLeft
    <3>2. d # c
      BY <1>2, <2>1, <3>1, HeldTypes DEF CanRun
    <3> QED
      BY <3>1, <3>2
  <2>2. ASSUME NEW d \in Cursors, Suspended(inst'[d].openIter)
        PROVE  handle'[d].st = "open"
    BY <1>1, <2>2 DEF NoScanLeft, Suspended
  <2> QED
    BY <2>1, <2>2 DEF NoScanLeft, Suspended
<1>8. MadeFor'
    BY <1>1, MadeForKept
<1> QED
    BY <1>3, <1>4, <1>5, <1>6, <1>7, <1>8 DEF Held

\* A callback returns: its generator ended, or is suspended for its cursor.
LEMMA LetGo ==
    ASSUME IInv, Held, stack # <<>>, Pop,
           NEW r \in GenRec, gen' = [gen EXCEPT ![Top.gen] = r],
           \/ r.st \in {"done", "failed", "closed"}
           \/ r.st = "suspended" /\ Top.op \in CursorOps,
           \A d \in Cursors : inst'[d].iterNext = inst[d].iterNext,
           \A d \in Cursors :
                \/ inst'[d].openIter = inst[d].openIter
                \/ /\ inst'[d].openIter = None
                   /\ d = Top.cur /\ Top.op \in CursorOps /\ r.st # "suspended",
           \A d \in Cursors : handle[d].st = "open" =>
                \/ handle'[d].st = "open"
                \/ d = Top.cur /\ Top.op \in CursorOps /\ r.st # "suspended",
           \A d \in Cursors : handle[d].st # "fresh" =>
                handle'[d].st # "fresh" /\ handle'[d].tab = handle[d].tab,
           UNCHANGED <<openedIter, cursors>>
    PROVE  Held'
<1>. DEFINE g == Top.gen
<1>1. /\ Len(stack) \in Nat \ {0} /\ g \in Gens /\ g # None /\ FrameGen(Top)
      /\ Top.op \in CursorOps => Top.cur \in Cursors /\ handle[Top.cur].st = "open"
    BY TopFacts, FrameFacts, HeldTypes DEF FrameFits, Top
<1>2. /\ Len(stack') = Len(stack) - 1
      /\ \A i \in 1..(Len(stack) - 1) : stack'[i] = stack[i]
    BY PopFacts DEF IInv, TypeOK
<1>3. /\ \A i \in 1..(Len(stack) - 1) : stack[i].gen # g
      /\ g = stack[Len(stack)].gen
    BY <1>1, FrameFacts DEF Top
<1>4. /\ gen'[g] = r /\ gen[g].st = "running"
      /\ \A h \in Gens : h # g => gen'[h] = gen[h]
    BY <1>1, HeldTypes DEF FrameGen
<1>5. /\ HoldersUnique /\ HeldStarted /\ FramesHold /\ RunningWaits
      /\ HeldIsNext /\ NextIsHeld /\ MadeFor /\ NoScanLeft
    BY DEF Held
<1>6. Top.op \in CursorOps => inst[Top.cur].openIter = g
    BY <1>1 DEF FrameGen
<1>. HIDE DEF g
<1>7. HoldersUnique'
    BY <1>5 DEF HoldersUnique
<1>8. HeldIsNext'
    BY <1>5 DEF HeldIsNext
<1>9. HeldStarted'
    BY <1>4, <1>5, HeldTypes DEF HeldStarted
<1>10. FramesHold'
  <2>1. \A i, j \in 1..Len(stack') : stack'[i].gen = stack'[j].gen => i = j
    BY <1>1, <1>2, <1>5 DEF FramesHold
  <2>2. ASSUME NEW i \in 1..Len(stack')
        PROVE  FrameGen(stack[i])'
    <3>1. i \in 1..(Len(stack) - 1) /\ i \in 1..Len(stack)
      BY <1>1, <1>2
    <3>2. /\ stack'[i] = stack[i] /\ FrameGen(stack[i]) /\ stack[i].gen # g
          /\ gen'[stack[i].gen] = gen[stack[i].gen] /\ stack[i].gen # None
          /\ stack[i].op \in CursorOps => stack[i].cur \in Cursors
      BY <1>2, <1>3, <1>4, <3>1, FrameFacts, HeldTypes
    <3>3. stack[i].op \in CursorOps => inst'[stack[i].cur].openIter = stack[i].gen
      BY <1>6, <3>2 DEF FrameGen
    <3> QED
      BY <3>2, <3>3 DEF FrameGen
  <2> QED
    BY <2>1, <2>2 DEF FramesHold
<1>11. RunningWaits'
  <2> SUFFICES ASSUME NEW h \in Gens, gen'[h].st = "running"
               PROVE  \E i \in 1..Len(stack') : stack'[i].gen = h
    BY DEF RunningWaits
  <2>1. h # g /\ gen[h].st = "running"
    BY <1>4
  <2>2. PICK i \in 1..Len(stack) : stack[i].gen = h
    BY <1>5, <2>1 DEF RunningWaits
  <2>3. i \in 1..Len(stack') /\ stack'[i] = stack[i]
    BY <1>1, <1>2, <1>3, <2>1, <2>2
  <2> QED
    BY <2>2, <2>3
<1>12. NextIsHeld'
  <2> SUFFICES ASSUME NEW d \in Cursors, NEW h \in Gens,
                      inst'[d].iterNext = h, CanRun(h)'
               PROVE  inst'[d].openIter = h
    BY DEF NextIsHeld
  <2>1. inst[d].iterNext = h /\ CanRun(h)
    BY <1>4 DEF CanRun
  <2>2. inst[d].openIter = h
    BY <1>5, <2>1 DEF NextIsHeld
  <2>3. h = g => r.st = "suspended"
    BY <1>4 DEF CanRun
  <2> QED
    BY <1>6, <2>2, <2>3
<1>13. NoScanLeft'
  <2>1. ASSUME NEW h \in Gens, gen'[h].st = "suspended", gen'[h].pos > 1
        PROVE  \E d \in Cursors : handle'[d].st = "open" /\ inst'[d].openIter = h
    <3>1. CASE h = g
      <4>1. Top.op \in CursorOps /\ r.st = "suspended"
        BY <1>4, <2>1, <3>1
      <4>2. Top.cur \in Cursors /\ inst'[Top.cur].openIter = g /\ handle'[Top.cur].st = "open"
        BY <1>1, <1>6, <4>1
      <4> QED
        BY <3>1, <4>2
    <3>2. CASE h # g
      <4>1. PICK d \in Cursors : handle[d].st = "open" /\ inst[d].openIter = h
        BY <1>4, <1>5, <2>1, <3>2 DEF NoScanLeft
      <4>2. ~(d = Top.cur /\ Top.op \in CursorOps)
        BY <1>6, <3>2, <4>1
      <4> QED
        BY <4>1, <4>2
    <3> QED
      BY <3>1, <3>2
  <2>2. ASSUME NEW d \in Cursors, Suspended(inst[d].openIter)'
        PROVE  handle'[d].st = "open"
    <3>1. inst'[d].openIter = inst[d].openIter /\ inst[d].openIter \in Gens
      BY <2>2, HeldTypes DEF Suspended
    <3>2. CASE inst[d].openIter = g
      <4>1. r.st = "suspended" /\ Top.op \in CursorOps
        BY <1>4, <2>2, <3>1, <3>2 DEF Suspended
      <4>2. d = Top.cur
        BY <1>1, <1>5, <1>6, <3>2, <4>1, HeldTypes DEF HoldersUnique
      <4> QED
        BY <1>1, <4>1, <4>2
    <3>3. CASE inst[d].openIter # g
      <4>1. Suspended(inst[d].openIter)
        BY <1>4, <2>2, <3>1, <3>3 DEF Suspended
      <4>2. handle[d].st = "open"
        BY <1>5, <4>1 DEF NoScanLeft
      <4> QED
        BY <1>6, <3>3, <4>2
    <3> QED
      BY <3>2, <3>3
  <2> QED
    BY <2>1, <2>2 DEF NoScanLeft
<1>14. MadeFor'
    BY <1>5, MadeForKept
<1> QED
    BY <1>7, <1>8, <1>9, <1>10, <1>11, <1>12, <1>13, <1>14 DEF Held

\* LTable.Disconnect, called in a callback whose generator ended.
LEMMA DisconnectHeld ==
    ASSUME IInv, Held, stack # <<>>, Pop, Top.op \in CursorOps,
           NEW t \in Tables, DisconnectAll(t, Top.gen),
           SameCursors, UNCHANGED openedIter
    PROVE  Held'
<1>. DEFINE g == Top.gen
           cs == cursors[t]
<1>1. /\ Len(stack) \in Nat \ {0} /\ g \in Gens /\ g # None /\ FrameGen(Top)
    BY TopFacts, FrameFacts, HeldTypes DEF Top
<1>2. /\ Len(stack') = Len(stack) - 1
      /\ \A i \in 1..(Len(stack) - 1) : stack'[i] = stack[i]
    BY PopFacts DEF IInv, TypeOK
<1>3. /\ \A i \in 1..(Len(stack) - 1) : stack[i].gen # g
      /\ g = stack[Len(stack)].gen
    BY <1>1, FrameFacts DEF Top
<1>4. PICK k \in 0..Len(cs) :
        /\ \A j \in 1..k : inst[cs[j]].openIter = g \/ ~Running(inst[cs[j]].openIter)
        /\ gen' = [h \in Gens |->
              IF h = g THEN Settled(h, "interrupt")
              ELSE IF /\ Suspended(h)
                      /\ \/ h \in {inst[cs[j]].openIter : j \in 1..k}
                         \/ k < Len(cs) /\ h = inst[cs[k + 1]].openIter
              THEN Closed(h)
              ELSE gen[h]]
        /\ inst' = [c \in Cursors |->
              IF \E j \in 1..k : cs[j] = c THEN [inst[c] EXCEPT !.openIter = None]
              ELSE inst[c]]
        /\ cursors' = [cursors EXCEPT ![t] = IF k = Len(cs) THEN <<>> ELSE @]
    BY DEF DisconnectAll
<1>5. /\ HoldersUnique /\ HeldStarted /\ FramesHold /\ RunningWaits
      /\ HeldIsNext /\ NextIsHeld /\ MadeFor /\ NoScanLeft
    BY DEF Held
<1>6. \A h \in Gens : gen[h] \in GenRec
    BY HeldTypes
<1>7. ASSUME NEW h \in Gens
      PROVE  \/ gen'[h] = gen[h] /\ h # g
             \/ gen'[h].st = "failed" /\ gen[h].st = "running" /\ h = g
             \/ gen'[h].st = "closed" /\ gen[h].st = "suspended" /\ h # g
  <2>1. Settled(h, "interrupt").st = "failed" /\ Closed(h).st = "closed"
    BY <1>6 DEF Settled, Closed, GenRec
  <2>2. gen[g].st = "running"
    BY <1>1 DEF FrameGen
  <2> QED
    BY <1>4, <2>1, <2>2 DEF Suspended
<1>8. ASSUME NEW c \in Cursors
      PROVE  /\ inst'[c].iterNext = inst[c].iterNext
             /\ \/ inst'[c].openIter = inst[c].openIter
                \/ /\ inst'[c].openIter = None
                   /\ \E j \in 1..k : cs[j] = c
  <2>1. inst[c] \in InstRec
    BY DEF IInv, TypeOK
  <2> QED
    BY <1>4, <2>1 DEF InstRec
<1>9. ASSUME NEW c \in Cursors, NEW h \in Gens, inst[c].openIter = h, CanRun(h)'
      PROVE  inst'[c].openIter = h
  <2> SUFFICES ASSUME \E j \in 1..k : cs[j] = c
               PROVE  FALSE
    BY <1>8, <1>9
  <2>1. PICK j \in 1..k : cs[j] = c
    OBVIOUS
  <2>2. h # g /\ gen'[h] = gen[h] /\ CanRun(h)
    BY <1>7, <1>9 DEF CanRun
  <2>3. ~Running(h) /\ h # None
    BY <1>4, <1>9, <2>1, <2>2, HeldTypes
  <2>4. Suspended(h)
    BY <2>2, <2>3 DEF Running, CanRun, Suspended
  <2>5. gen'[h] = Closed(h)
    BY <1>4, <1>9, <2>1, <2>2, <2>4
  <2> QED
    BY <1>6, <2>2, <2>4, <2>5 DEF Closed, Suspended, GenRec
<1>. HIDE DEF g, cs
<1>10. HoldersUnique'
    BY <1>5, <1>8 DEF HoldersUnique
<1>11. HeldIsNext'
    BY <1>5, <1>8 DEF HeldIsNext
<1>12. HeldStarted'
  <2>1. \A h \in Gens : gen[h].st # "unborn" => gen'[h].st # "unborn"
    BY <1>7
  <2> QED
    BY <1>5, <1>8, <2>1, HeldTypes DEF HeldStarted
<1>13. FramesHold'
  <2>1. \A i, j \in 1..Len(stack') : stack'[i].gen = stack'[j].gen => i = j
    BY <1>1, <1>2, <1>5 DEF FramesHold
  <2>2. ASSUME NEW i \in 1..Len(stack')
        PROVE  FrameGen(stack[i])'
    <3>1. i \in 1..(Len(stack) - 1) /\ i \in 1..Len(stack)
      BY <1>1, <1>2
    <3>2. /\ stack'[i] = stack[i] /\ FrameGen(stack[i]) /\ stack[i].gen # g
          /\ stack[i].gen \in Gens /\ stack[i].gen # None
          /\ stack[i].op \in CursorOps => stack[i].cur \in Cursors
      BY <1>2, <1>3, <3>1, FrameFacts, HeldTypes
    <3>3. gen'[stack[i].gen] = gen[stack[i].gen] /\ gen[stack[i].gen].st = "running"
      BY <1>7, <3>2 DEF FrameGen
    <3>4. stack[i].op \in CursorOps => inst'[stack[i].cur].openIter = stack[i].gen
      BY <1>9, <3>2, <3>3 DEF FrameGen, CanRun
    <3>5. \A c \in Cursors : inst[c].openIter # stack[i].gen => inst'[c].openIter # stack[i].gen
      BY <1>8, <3>2
    <3> QED
      BY <3>2, <3>3, <3>4, <3>5 DEF FrameGen
  <2> QED
    BY <2>1, <2>2 DEF FramesHold
<1>14. RunningWaits'
  <2> SUFFICES ASSUME NEW h \in Gens, gen'[h].st = "running"
               PROVE  \E i \in 1..Len(stack') : stack'[i].gen = h
    BY DEF RunningWaits
  <2>1. h # g /\ gen[h].st = "running"
    BY <1>7
  <2>2. PICK i \in 1..Len(stack) : stack[i].gen = h
    BY <1>5, <2>1 DEF RunningWaits
  <2>3. i \in 1..Len(stack') /\ stack'[i] = stack[i]
    BY <1>1, <1>2, <1>3, <2>1, <2>2
  <2> QED
    BY <2>2, <2>3
<1>15. NextIsHeld'
  <2> SUFFICES ASSUME NEW d \in Cursors, NEW h \in Gens,
                      inst'[d].iterNext = h, CanRun(h)'
               PROVE  inst'[d].openIter = h
    BY DEF NextIsHeld
  <2>1. inst[d].iterNext = h /\ CanRun(h)
    BY <1>7, <1>8 DEF CanRun
  <2>2. inst[d].openIter = h
    BY <1>5, <2>1 DEF NextIsHeld
  <2> QED
    BY <1>9, <2>2
<1>16. NoScanLeft'
  <2>1. ASSUME NEW h \in Gens, gen'[h].st = "suspended", gen'[h].pos > 1
        PROVE  \E d \in Cursors : handle'[d].st = "open" /\ inst'[d].openIter = h
    <3>1. gen'[h] = gen[h]
      BY <1>7, <2>1
    <3>2. PICK d \in Cursors : handle[d].st = "open" /\ inst[d].openIter = h
      BY <1>5, <2>1, <3>1 DEF NoScanLeft
    <3>3. inst'[d].openIter = h
      BY <1>9, <2>1, <3>2 DEF CanRun
    <3> QED
      BY <3>2, <3>3 DEF SameCursors
  <2>2. ASSUME NEW d \in Cursors, Suspended(inst[d].openIter)'
        PROVE  handle'[d].st = "open"
    <3>1. inst'[d].openIter = inst[d].openIter /\ inst[d].openIter \in Gens
      BY <1>8, <2>2, HeldTypes DEF Suspended
    <3>2. Suspended(inst[d].openIter)
      BY <1>7, <2>2, <3>1 DEF Suspended
    <3> QED
      BY <1>5, <3>2 DEF NoScanLeft, SameCursors
  <2> QED
    BY <2>1, <2>2 DEF NoScanLeft
<1>17. MadeFor'
  <2>1. \A u \in Tables : cursors'[u] = cursors[u] \/ cursors'[u] = <<>>
    BY <1>4 DEF IInv, TypeOK
  <2> QED
    BY <1>5, <2>1, MadeForKept DEF SameCursors
<1> QED
    BY <1>10, <1>11, <1>12, <1>13, <1>14, <1>15, <1>16, <1>17 DEF Held

\* xCreate starts another generator after an AbortError of the first.
LEMMA RetryHeld ==
    ASSUME IInv, Held, CreateRetry
    PROVE  Held'
<1>1. /\ stack # <<>> /\ Top.op = "create" /\ Top.op \in NewOps /\ Top.op \notin CursorOps
      /\ UNCHANGED <<openedIter, cursors, handle, inst>>
    BY DEF CreateRetry, Returning, NewOps, TableOps, CursorOps
<1>2. PICK h \in Gens : /\ gen[h].st = "unborn"
                       /\ gen' = [gen EXCEPT ![Top.gen] = Settled(Top.gen, "abort"),
                                            ![h] = Started(Top.tab)]
                       /\ Swap(Frame("recreate", Top.tab, None, h))
    BY DEF CreateRetry, Fresh
<1>. DEFINE f == Frame("recreate", Top.tab, None, h)
           g == Top.gen
<1>3. /\ Len(stack) \in Nat \ {0} /\ g \in Gens /\ FrameGen(Top) /\ Top.tab \in Tables
      /\ g = stack[Len(stack)].gen
    BY <1>1, TopFacts, FrameFacts DEF Top, FrameRec
<1>4. f \in FrameRec /\ f.gen = h /\ f.op \in NewOps /\ f.op \notin CursorOps
    BY <1>3 DEF Frame, FrameRec, NewOps, CursorOps, TableOps
<1>5. Swap(f)
    BY <1>2
<1>6. gen[h].st = "unborn" /\ gen[g].st = "running" /\ h # g
    BY <1>2, <1>3 DEF FrameGen
<1>7. /\ gen'[g].st = "failed" /\ gen'[h].st = "running" /\ gen'[h].pos = 0
      /\ \A x \in Gens : x # g /\ x # h => gen'[x] = gen[x]
  <2>1. gen[g] \in GenRec
    BY <1>3, HeldTypes
  <2>2. Settled(g, "abort").st = "failed"
    BY <2>1 DEF Settled, GenRec
  <2>. HIDE DEF g
  <2> QED
    BY <1>2, <1>3, <1>6, <2>2, HeldTypes DEF Started, g
<1>. HIDE DEF f
<1>8. /\ Len(stack') = Len(stack) /\ stack'[Len(stack)] = f
      /\ \A i \in 1..(Len(stack) - 1) : stack'[i] = stack[i]
    BY <1>1, <1>4, <1>5, SwapFacts DEF IInv, TypeOK
<1>9. /\ HoldersUnique /\ HeldStarted /\ FramesHold /\ RunningWaits
      /\ HeldIsNext /\ NextIsHeld /\ MadeFor /\ NoScanLeft
    BY DEF Held
<1>10. /\ \A d \in Cursors : inst[d].openIter # h /\ inst[d].iterNext # h
       /\ \A u \in Tables : openedIter[u] # h
    BY <1>2, <1>9, HeldTypes DEF HeldStarted
<1>11. /\ \A d \in Cursors : inst[d].openIter # g
       /\ \A u \in Tables : openedIter[u] # g
    BY <1>1, <1>3 DEF FrameGen
<1>12. \A i \in 1..(Len(stack) - 1) :
            /\ stack[i].gen \in Gens /\ stack[i].gen # g /\ stack[i].gen # h
            /\ FrameGen(stack[i]) /\ gen'[stack[i].gen] = gen[stack[i].gen]
  <2>1. \A i \in 1..(Len(stack) - 1) :
            /\ i \in 1..Len(stack) /\ i # Len(stack)
            /\ stack[i].gen \in Gens /\ FrameGen(stack[i])
    BY <1>3, FrameFacts
  <2>2. \A i \in 1..(Len(stack) - 1) : stack[i].gen # g
    BY <1>3, <2>1, FrameFacts
  <2>3. \A i \in 1..(Len(stack) - 1) : stack[i].gen # h
    BY <1>6, <2>1 DEF FrameGen
  <2> QED
    BY <1>7, <2>1, <2>2, <2>3
<1>. HIDE DEF g
<1>13. HoldersUnique' /\ HeldIsNext' /\ MadeFor'
    BY <1>1, <1>9 DEF HoldersUnique, HeldIsNext, MadeFor
<1>14. HeldStarted'
    BY <1>1, <1>7, <1>9, HeldTypes DEF HeldStarted
<1>15. FramesHold'
  <2>1. \A i, j \in 1..Len(stack') : stack'[i].gen = stack'[j].gen => i = j
    BY <1>3, <1>4, <1>8, <1>9, <1>12 DEF FramesHold
  <2>2. ASSUME NEW i \in 1..Len(stack')
        PROVE  FrameGen(stack[i])'
    <3>1. CASE i \in 1..(Len(stack) - 1)
      BY <1>1, <1>8, <1>12, <3>1 DEF FrameGen
    <3>2. CASE i = Len(stack)
      BY <1>1, <1>4, <1>7, <1>8, <1>10, <3>2 DEF FrameGen
    <3> QED
      BY <1>3, <1>8, <3>1, <3>2
  <2> QED
    BY <2>1, <2>2 DEF FramesHold
<1>16. RunningWaits'
  <2> SUFFICES ASSUME NEW x \in Gens, gen'[x].st = "running"
               PROVE  \E i \in 1..Len(stack') : stack'[i].gen = x
    BY DEF RunningWaits
  <2>1. CASE x = h
    BY <1>3, <1>4, <1>8, <2>1
  <2>2. CASE x # h
    <3>1. x # g /\ gen[x].st = "running"
      BY <1>7, <2>2
    <3>2. PICK i \in 1..Len(stack) : stack[i].gen = x
      BY <1>9, <3>1 DEF RunningWaits
    <3> QED
      BY <1>3, <1>8, <3>1, <3>2
  <2> QED
    BY <2>1, <2>2
<1>17. NextIsHeld'
  <2> SUFFICES ASSUME NEW d \in Cursors, NEW x \in Gens,
                      inst[d].iterNext = x, CanRun(x)'
               PROVE  inst[d].openIter = x
    BY <1>1 DEF NextIsHeld
  <2>1. x # h
    BY <1>10
  <2>2. CanRun(x)
    BY <1>7, <2>1 DEF CanRun
  <2> QED
    BY <1>9, <2>2 DEF NextIsHeld
<1>18. NoScanLeft'
  <2>1. ASSUME NEW x \in Gens, gen'[x].st = "suspended"
        PROVE  gen'[x] = gen[x]
    BY <1>7, <2>1
  <2> QED
    BY <1>1, <1>9, <2>1, HeldTypes DEF NoScanLeft, Suspended
<1> QED
    BY <1>13, <1>14, <1>15, <1>16, <1>17, <1>18 DEF Held

\* A new scan: a fresh generator becomes the cursor's, and skips its schema.
LEMMA StartFor ==
    ASSUME IInv, Held, NEW c \in Cursors, NEW h \in Gens, NEW t \in Tables,
           gen[h].st = "unborn", StartOver(c, h),
           \/ /\ Push(Frame("skip", t, c, h))
              /\ gen' = [gen EXCEPT ![h] = Started(t)]
              /\ handle[c].st = "open"
              /\ ~Suspended(inst[c].openIter)
              /\ \A i \in 1..Len(stack) : stack[i].cur # c
           \/ /\ stack # <<>> /\ Top.op = "reclose" /\ Top.cur = c
              /\ Swap(Frame("skip", t, c, h))
              /\ gen' = [gen EXCEPT ![Top.gen] = Closed(Top.gen), ![h] = Started(t)],
           UNCHANGED <<openedIter, cursors, handle>>
    PROVE  Held'
<1>. DEFINE f == Frame("skip", t, c, h)
           n == Len(stack')
<1>15. PICK old \in Gens \cup {None} : old = inst[c].openIter
    BY HeldTypes
<1>1. f \in FrameRec /\ f.gen = h /\ f.cur = c /\ f.op \in CursorOps /\ f.op \notin NewOps
    BY DEF Frame, FrameRec, NewOps, CursorOps, TableOps
<1>2. /\ HoldersUnique /\ HeldStarted /\ FramesHold /\ RunningWaits
      /\ HeldIsNext /\ NextIsHeld /\ MadeFor /\ NoScanLeft
    BY DEF Held
<1>3. /\ \A d \in Cursors : inst[d].openIter # h /\ inst[d].iterNext # h
      /\ \A u \in Tables : openedIter[u] # h
      /\ h # None
    BY <1>2, HeldTypes DEF HeldStarted
<1>4. /\ inst'[c].openIter = h /\ inst'[c].iterNext = h
      /\ \A d \in Cursors : d # c => inst'[d] = inst[d]
  <2>1. inst[c] \in InstRec /\ inst \in [Cursors -> InstRec]
    BY DEF IInv, TypeOK
  <2> QED
    BY <2>1 DEF StartOver, InstRec
<1>5. /\ n \in Nat \ {0} /\ stack'[n] = f /\ n - 1 <= Len(stack)
      /\ \A i \in 1..(n - 1) : /\ i \in 1..Len(stack) /\ stack'[i] = stack[i]
                               /\ stack[i].cur # c /\ stack[i].gen # old
      /\ gen'[h].st = "running" /\ gen'[h].pos = 0
      /\ \A x \in Gens : x # h => gen'[x] = gen[x] \/ (x = old /\ gen'[x].st = "closed")
      /\ old # None => ~CanRun(old)'
      /\ \A x \in Gens : gen[x].st = "running" /\ x # old =>
            \E i \in 1..(n - 1) : stack[i].gen = x
  <2>1. CASE /\ Push(f)
             /\ gen' = [gen EXCEPT ![h] = Started(t)]
             /\ ~Suspended(inst[c].openIter)
             /\ \A i \in 1..Len(stack) : stack[i].cur # c
    <3>1. /\ Len(stack) \in Nat /\ n = Len(stack) + 1
          /\ stack'[Len(stack) + 1] = f
          /\ \A i \in 1..Len(stack) : stack'[i] = stack[i]
      BY <1>1, <2>1, PushFacts DEF IInv, TypeOK
    <3>2. gen'[h].st = "running" /\ gen'[h].pos = 0 /\ \A x \in Gens : x # h => gen'[x] = gen[x]
      BY <2>1, HeldTypes DEF Started
    <3>3. old # None => ~CanRun(old)
      BY <1>15, <2>1, IdleGen DEF CanRun, Suspended
    <3>4. old # None => old \in Gens /\ old # h
      BY <1>3, <1>15, HeldTypes
    <3>5. old # None => ~CanRun(old)'
      BY <3>2, <3>3, <3>4 DEF CanRun
    <3>6. \A i \in 1..Len(stack) : stack[i].gen # old
      BY <3>3, FrameFacts, HeldTypes DEF FrameGen, CanRun
    <3>7. \A x \in Gens : gen[x].st = "running" => \E i \in 1..Len(stack) : stack[i].gen = x
      BY <1>2 DEF RunningWaits
    <3>8. Len(stack) = n - 1 /\ n \in Nat \ {0}
      BY <3>1
    <3>. HIDE DEF f, n
    <3> QED
      BY <1>15, <2>1, <3>1, <3>2, <3>5, <3>6, <3>7, <3>8
  <2>2. CASE /\ stack # <<>> /\ Top.op = "reclose" /\ Top.cur = c
             /\ Swap(f)
             /\ gen' = [gen EXCEPT ![Top.gen] = Closed(Top.gen), ![h] = Started(t)]
    <3>1. /\ Len(stack) \in Nat \ {0} /\ n = Len(stack)
          /\ stack'[Len(stack)] = f
          /\ \A i \in 1..(Len(stack) - 1) : stack'[i] = stack[i]
      BY <1>1, <2>2, SwapFacts DEF IInv, TypeOK
    <3>2. Top = stack[Len(stack)] /\ Top.gen = old /\ old \in Gens /\ gen[old].st = "running"
      BY <1>15, <2>2, <3>1, FrameFacts DEF Top, FrameGen, CursorOps
    <3>3. gen'[old].st = "closed" /\ old # h
      <4>1. gen[old] \in GenRec /\ old # h
        BY <1>3, <1>15, <3>2, HeldTypes
      <4>2. gen'[old] = Closed(old)
        BY <2>2, <3>2, <4>1, HeldTypes
      <4> QED
        BY <4>1, <4>2 DEF Closed, GenRec
    <3>4. /\ gen'[h].st = "running" /\ gen'[h].pos = 0
          /\ \A x \in Gens : x # h /\ x # old => gen'[x] = gen[x]
      BY <2>2, <3>2, HeldTypes DEF Started
    <3>5. \A i \in 1..(Len(stack) - 1) : stack[i].cur # c /\ stack[i].gen # old
      <4>1. \A i \in 1..(Len(stack) - 1) : stack[i].gen # old
        BY <3>1, <3>2, FrameFacts
      <4>2. c # None
        BY HeldTypes
      <4> QED
        BY <2>2, <4>1, <4>2, TopFacts
    <3>6. ASSUME NEW x \in Gens, gen[x].st = "running", x # old
          PROVE  \E i \in 1..(n - 1) : stack[i].gen = x
      <4>1. PICK i \in 1..Len(stack) : stack[i].gen = x
        BY <1>2, <3>6 DEF RunningWaits
      <4> QED
        BY <3>1, <3>2, <3>6, <4>1
    <3>7. ~CanRun(old)'
      BY <3>3 DEF CanRun
    <3>. HIDE DEF f, n
    <3>8. \A x \in Gens : x # h =>
             gen'[x] = gen[x] \/ (x = old /\ gen'[x].st = "closed")
      BY <3>3, <3>4
    <3>9. \A i \in 1..(n - 1) : /\ i \in 1..Len(stack) /\ stack'[i] = stack[i]
                                /\ stack[i].cur # c /\ stack[i].gen # old
      BY <3>1, <3>5
    <3> QED
      BY <3>1, <3>4, <3>6, <3>7, <3>8, <3>9
  <2> QED
    BY <2>1, <2>2 DEF f
<1>. HIDE DEF f, n
<1>6. \A i \in 1..(n - 1) : /\ FrameGen(stack[i]) /\ gen'[stack[i].gen] = gen[stack[i].gen]
                            /\ stack[i].gen \in Gens /\ stack[i].gen # h
                            /\ stack[i].op \in CursorOps => stack[i].cur \in Cursors
    BY <1>5, FrameFacts DEF FrameGen
<1>16. /\ n \in Nat \ {0} /\ stack'[n] = f
       /\ \A i \in 1..(n - 1) : /\ i \in 1..Len(stack) /\ stack'[i] = stack[i]
                                /\ stack[i].cur # c
    BY <1>5
<1>7. HoldersUnique'
    BY <1>2, <1>3, <1>4 DEF HoldersUnique
<1>8. HeldIsNext'
    BY <1>2, <1>4 DEF HeldIsNext
<1>9. HeldStarted'
  <2>1. \A x \in Gens : x = h \/ gen[x].st # "unborn" => gen'[x].st # "unborn"
    BY <1>5
  <2>2. /\ \A d \in Cursors : inst'[d].openIter # None => gen'[inst'[d].openIter].st # "unborn"
        /\ \A d \in Cursors : inst'[d].iterNext # None => gen'[inst'[d].iterNext].st # "unborn"
    <3> SUFFICES ASSUME NEW d \in Cursors
                 PROVE  /\ inst'[d].openIter # None => gen'[inst'[d].openIter].st # "unborn"
                        /\ inst'[d].iterNext # None => gen'[inst'[d].iterNext].st # "unborn"
      OBVIOUS
    <3>2. CASE d = c
      BY <1>4, <2>1, <3>2
    <3>3. CASE d # c
      <4>1. inst'[d] = inst[d]
        BY <1>4, <3>3
      <4> QED
        BY <1>2, <2>1, <4>1, HeldTypes DEF HeldStarted
    <3> QED
      BY <3>2, <3>3
  <2>3. \A u \in Tables : openedIter[u] # None => gen'[openedIter[u]].st # "unborn"
    BY <1>2, <2>1, HeldTypes DEF HeldStarted
  <2> QED
    BY <2>2, <2>3 DEF HeldStarted
<1>10. FramesHold'
  <2>1. \A i, j \in 1..n : stack'[i].gen = stack'[j].gen => i = j
    <3> SUFFICES ASSUME NEW i \in 1..n, NEW j \in 1..n, stack'[i].gen = stack'[j].gen
                 PROVE  i = j
      OBVIOUS
    <3>1. /\ i = n \/ i \in 1..(n - 1)
          /\ j = n \/ j \in 1..(n - 1)
      BY <1>16
    <3>2. ~(i = n /\ j \in 1..(n - 1)) /\ ~(j = n /\ i \in 1..(n - 1))
      BY <1>1, <1>6, <1>16
    <3>3. i \in 1..(n - 1) /\ j \in 1..(n - 1) => i = j
      BY <1>16, FrameFacts
    <3> QED
      BY <3>1, <3>2, <3>3
  <2>2. ASSUME NEW i \in 1..n
        PROVE  FrameGen(stack[i])'
    <3>1. CASE i \in 1..(n - 1)
      <4>1. /\ stack'[i] = stack[i] /\ stack[i].cur # c
            /\ FrameGen(stack[i]) /\ gen'[stack[i].gen] = gen[stack[i].gen]
            /\ stack[i].gen # h
            /\ stack[i].op \in CursorOps => stack[i].cur \in Cursors
        BY <1>6, <1>16, <3>1
      <4>2. /\ \A d \in Cursors : inst[d].openIter # stack[i].gen
                                 => inst'[d].openIter # stack[i].gen
            /\ stack[i].op \in CursorOps => inst'[stack[i].cur] = inst[stack[i].cur]
        BY <1>4, <4>1
      <4> QED
        BY <4>1, <4>2 DEF FrameGen
    <3>2. CASE i = n
      BY <1>1, <1>4, <1>5, <3>2 DEF FrameGen
    <3> QED
      BY <1>5, <3>1, <3>2
  <2> QED
    BY <2>1, <2>2 DEF FramesHold, n
<1>11. RunningWaits'
  <2> SUFFICES ASSUME NEW x \in Gens, gen'[x].st = "running"
               PROVE  \E i \in 1..n : stack'[i].gen = x
    BY DEF RunningWaits, n
  <2>1. CASE x = h
    BY <1>1, <1>5, <2>1
  <2>2. CASE x # h
    <3>1. gen[x].st = "running" /\ (old # None => x # old)
      BY <1>5, <2>2 DEF CanRun
    <3>2. x # old
      BY <3>1, HeldTypes
    <3>3. PICK i \in 1..(n - 1) : stack[i].gen = x
      BY <1>5, <3>1, <3>2
    <3> QED
      BY <1>5, <3>3
  <2> QED
    BY <2>1, <2>2
<1>12. NextIsHeld'
  <2> SUFFICES ASSUME NEW d \in Cursors, NEW x \in Gens,
                      inst'[d].iterNext = x, CanRun(x)'
               PROVE  inst'[d].openIter = x
    BY DEF NextIsHeld
  <2>1. CASE d = c
    BY <1>4, <2>1
  <2>2. CASE d # c
    <3>1. inst[d].iterNext = x /\ x # h
      BY <1>3, <1>4, <2>2
    <3>2. CanRun(x)
      BY <1>5, <3>1 DEF CanRun
    <3> QED
      BY <1>2, <1>4, <2>2, <3>1, <3>2 DEF NextIsHeld
  <2> QED
    BY <2>1, <2>2
<1>13. NoScanLeft'
  <2>1. ASSUME NEW x \in Gens, gen'[x].st = "suspended"
        PROVE  gen'[x] = gen[x] /\ x # old /\ x # h
    <3>1. x # h /\ gen'[x] = gen[x]
      BY <1>5, <2>1
    <3> QED
      BY <1>5, <2>1, <3>1, HeldTypes DEF CanRun
  <2>2. ASSUME NEW x \in Gens, gen'[x].st = "suspended", gen'[x].pos > 1
        PROVE  \E d \in Cursors : handle'[d].st = "open" /\ inst'[d].openIter = x
    <3>1. PICK d \in Cursors : handle[d].st = "open" /\ inst[d].openIter = x
      BY <1>2, <2>1, <2>2 DEF NoScanLeft
    <3> QED
      BY <1>4, <1>15, <2>1, <2>2, <3>1
  <2>3. ASSUME NEW d \in Cursors, Suspended(inst[d].openIter)'
        PROVE  handle'[d].st = "open"
    <3>1. d # c
      BY <1>4, <1>5, <2>3 DEF Suspended
    <3>2. Suspended(inst[d].openIter)
      BY <1>4, <2>1, <2>3, <3>1, HeldTypes DEF Suspended
    <3> QED
      BY <1>2, <3>2 DEF NoScanLeft
  <2> QED
    BY <2>2, <2>3 DEF NoScanLeft
<1>14. MadeFor'
    BY <1>2, MadeForKept
<1> QED
    BY <1>7, <1>8, <1>9, <1>10, <1>11, <1>12, <1>13, <1>14 DEF Held

\* A generator that gives its schema is suspended at its first item.
LEMMA SchemaGiven ==
    ASSUME IInv, NEW g \in Gens, gen[g].pos = 0,
           gen' = [gen EXCEPT ![g] = Settled(g, "yield")]
    PROVE  /\ gen'[g].st = "suspended" /\ gen'[g].pos = 1
           /\ \A x \in Gens : x # g => gen'[x] = gen[x]
BY HeldTypes DEF Settled

\* xCreate keeps the generator it read the schema from, for the first cursor.
LEMMA CreatedHeld ==
    ASSUME IInv, Held, stack # <<>>, Top.op \in TableOps, Pop,
           gen' = [gen EXCEPT ![Top.gen] = Settled(Top.gen, "yield")],
           openedIter' = [openedIter EXCEPT ![Top.tab] = Top.gen],
           cursors' = [cursors EXCEPT ![Top.tab] = <<>>],
           UNCHANGED <<handle, inst>>
    PROVE  Held'
<1>1. PICK g \in Gens, t \in Tables : g = Top.gen /\ t = Top.tab
    BY TopFacts DEF FrameRec
<1>2. /\ Len(stack) \in Nat \ {0} /\ FrameGen(Top) /\ g # None
      /\ Top = stack[Len(stack)] /\ Top.op \in NewOps
    BY <1>1, TopFacts, FrameFacts, HeldTypes DEF Top, NewOps
<1>3. /\ gen[g].st = "running" /\ gen[g].pos = 0
      /\ \A d \in Cursors : inst[d].openIter # g
      /\ \A u \in Tables : openedIter[u] # g
    BY <1>1, <1>2 DEF FrameGen
<1>4. /\ gen'[g].st = "suspended" /\ gen'[g].pos = 1
      /\ \A x \in Gens : x # g => gen'[x] = gen[x]
    BY <1>1, <1>3, SchemaGiven
<1>5. /\ openedIter'[t] = g
      /\ \A u \in Tables : u # t => openedIter'[u] = openedIter[u]
      /\ \A u \in Tables : cursors'[u] = cursors[u] \/ cursors'[u] = <<>>
    BY <1>1 DEF IInv, TypeOK
<1>6. /\ Len(stack') = Len(stack) - 1
      /\ \A i \in 1..(Len(stack) - 1) : stack'[i] = stack[i]
    BY PopFacts DEF IInv, TypeOK
<1>7. /\ HoldersUnique /\ HeldStarted /\ FramesHold /\ RunningWaits
      /\ HeldIsNext /\ NextIsHeld /\ MadeFor /\ NoScanLeft
    BY DEF Held
<1>8. HoldersUnique' /\ HeldIsNext'
    BY <1>3, <1>5, <1>7 DEF HoldersUnique, HeldIsNext
<1>9. HeldStarted'
  <2>1. \A x \in Gens : gen[x].st # "unborn" \/ x = g => gen'[x].st # "unborn"
    BY <1>4
  <2> QED
    BY <1>5, <1>7, <2>1, HeldTypes DEF HeldStarted
<1>10. FramesHold'
  <2>1. \A i, j \in 1..Len(stack') : stack'[i].gen = stack'[j].gen => i = j
    BY <1>2, <1>6, <1>7 DEF FramesHold
  <2>2. ASSUME NEW i \in 1..Len(stack')
        PROVE  FrameGen(stack[i])'
    <3>1. i \in 1..Len(stack) /\ i # Len(stack) /\ stack'[i] = stack[i]
      BY <1>2, <1>6
    <3>2. FrameGen(stack[i]) /\ stack[i].gen \in Gens /\ stack[i].gen # g
      BY <1>1, <1>2, <3>1, FrameFacts
    <3>3. \A u \in Tables : openedIter[u] # stack[i].gen => openedIter'[u] # stack[i].gen
      BY <1>5, <3>2
    <3> QED
      BY <1>4, <3>1, <3>2, <3>3 DEF FrameGen
  <2> QED
    BY <2>1, <2>2 DEF FramesHold
<1>11. RunningWaits'
  <2> SUFFICES ASSUME NEW x \in Gens, gen'[x].st = "running"
               PROVE  \E i \in 1..Len(stack') : stack'[i].gen = x
    BY DEF RunningWaits
  <2>1. x # g /\ gen[x].st = "running"
    BY <1>4
  <2>2. PICK i \in 1..Len(stack) : stack[i].gen = x
    BY <1>7, <2>1 DEF RunningWaits
  <2> QED
    BY <1>1, <1>2, <1>6, <2>1, <2>2
<1>12. NextIsHeld'
    BY <1>3, <1>4, <1>7 DEF NextIsHeld, CanRun
<1>13. NoScanLeft'
  <2>1. \A x \in Gens : gen'[x].st = "suspended" /\ gen'[x].pos > 1 => gen'[x] = gen[x]
    BY <1>4
  <2>2. \A d \in Cursors : Suspended(inst[d].openIter)' => Suspended(inst[d].openIter)
    BY <1>3, <1>4, HeldTypes DEF Suspended
  <2> QED
    BY <1>7, <2>1, <2>2 DEF NoScanLeft
<1>14. MadeFor'
    BY <1>5, <1>7, MadeForKept
<1> QED
    BY <1>8, <1>9, <1>10, <1>11, <1>12, <1>13, <1>14 DEF Held

\* What xOpen changes once it has the instance.
LEMMA PlaceFacts ==
    ASSUME IInv, NEW t \in Tables, NEW c \in Cursors, NEW g \in Gens, Place(t, c, g)
    PROVE  /\ inst'[c].openIter = g /\ inst'[c].iterNext = g
           /\ handle'[c].st = "open" /\ handle'[c].tab = t
           /\ \A d \in Cursors : d # c => inst'[d] = inst[d] /\ handle'[d] = handle[d]
           /\ MadeFor /\ handle[c].st = "fresh" => MadeFor'
<1>1. inst \in [Cursors -> InstRec] /\ handle \in [Cursors -> HandleRec]
    BY DEF IInv, TypeOK
<1>2. PICK i : handle' = [handle EXCEPT ![c] =
                    [st |-> "open", tab |-> t, slot |-> i, scan |-> "idle"]]
    BY DEF Place
<1>3. /\ handle'[c].st = "open" /\ handle'[c].tab = t
      /\ \A d \in Cursors : d # c => handle'[d] = handle[d]
    BY <1>1, <1>2
<1>4. /\ inst'[c].openIter = g /\ inst'[c].iterNext = g
      /\ \A d \in Cursors : d # c => inst'[d] = inst[d]
    BY <1>1 DEF Place, NoInst
<1>5. ASSUME MadeFor, handle[c].st = "fresh"
      PROVE  MadeFor'
  <2> SUFFICES ASSUME NEW u \in Tables, NEW j \in 1..Len(cursors'[u])
               PROVE  handle'[cursors'[u][j]].tab = u /\ handle'[cursors'[u][j]].st # "fresh"
    BY DEF MadeFor
  <2>1. cursors' = [cursors EXCEPT ![t] = Append(@, c)] /\ cursors \in [Tables -> Seq(Cursors)]
    BY DEF Place, IInv, TypeOK
  <2>2. \/ j \in 1..Len(cursors[u]) /\ cursors'[u][j] = cursors[u][j]
        \/ u = t /\ cursors'[u][j] = c
    <3>1. CASE u = t
      <4>1. cursors'[u] = Append(cursors[u], c) /\ cursors[u] \in Seq(Cursors)
        BY <2>1, <3>1
      <4> QED
        BY <3>1, <4>1
    <3>2. CASE u # t
      BY <2>1, <3>2
    <3> QED
      BY <3>1, <3>2
  <2>3. CASE u = t /\ cursors'[u][j] = c
    BY <1>3, <2>3
  <2>4. CASE j \in 1..Len(cursors[u]) /\ cursors'[u][j] = cursors[u][j]
    <3>1. cursors[u][j] \in Cursors
      BY <2>4, HeldTypes
    <3>2. handle[cursors[u][j]].tab = u /\ handle[cursors[u][j]].st # "fresh"
      BY <1>5, <2>4 DEF MadeFor
    <3> QED
      BY <1>3, <1>5, <2>4, <3>1, <3>2
  <2> QED
    BY <2>2, <2>3, <2>4
<1> QED
    BY <1>3, <1>4, <1>5

\* xOpen gives a new cursor a generator nobody held: the one of the schema,
\* or the one made for it.
LEMMA OpenedHeld ==
    ASSUME IInv, Held, NEW c \in Cursors, NEW t \in Tables, NEW g \in Gens,
           handle[c].st = "fresh", Place(t, c, g),
           \/ /\ openedIter[t] = g
              /\ openedIter' = [openedIter EXCEPT ![t] = None]
              /\ \A i \in 1..Len(stack) : stack[i].cur # c
              /\ UNCHANGED <<gen, stack>>
           \/ /\ stack # <<>> /\ Top.op = "open" /\ Top.cur = c /\ Top.gen = g /\ Pop
              /\ gen' = [gen EXCEPT ![g] = Settled(g, "yield")]
              /\ UNCHANGED openedIter
    PROVE  Held'
<1>1. /\ inst'[c].openIter = g /\ inst'[c].iterNext = g
      /\ handle'[c].st = "open" /\ handle'[c].tab = t
      /\ \A d \in Cursors : d # c => inst'[d] = inst[d] /\ handle'[d] = handle[d]
      /\ MadeFor /\ handle[c].st = "fresh" => MadeFor'
    BY PlaceFacts
<1>2. /\ HoldersUnique /\ HeldStarted /\ FramesHold /\ RunningWaits
      /\ HeldIsNext /\ NextIsHeld /\ MadeFor /\ NoScanLeft
    BY DEF Held
<1>3. PICK n \in Nat : n = Len(stack')
  <2>1. CASE UNCHANGED stack
    BY <2>1, HeldTypes
  <2>2. CASE stack # <<>> /\ Pop
    BY <2>2, PopFacts DEF IInv, TypeOK
  <2> QED
    BY <2>1, <2>2
<1>4. /\ \A i \in 1..n :
            /\ i \in 1..Len(stack) /\ stack'[i] = stack[i]
            /\ stack[i].cur # c /\ stack[i].gen # g
      /\ \A x \in Gens : gen[x].st = "running" /\ x # g =>
            \E i \in 1..n : stack[i].gen = x
      /\ \A x \in Gens : x # g => gen'[x] = gen[x]
      /\ gen'[g].st \notin {"unborn", "running"}
      /\ gen'[g].pos > 1 => gen'[g] = gen[g]
      /\ \A d \in Cursors : inst[d].openIter # g
      /\ \A u \in Tables : openedIter'[u] # g
      /\ \A u \in Tables : openedIter'[u] = openedIter[u] \/ openedIter'[u] = None
  <2>1. CASE /\ openedIter[t] = g
             /\ openedIter' = [openedIter EXCEPT ![t] = None]
             /\ \A i \in 1..Len(stack) : stack[i].cur # c
             /\ UNCHANGED <<gen, stack>>
    <3>1. \A d \in Cursors : inst[d].openIter # g
      BY <1>2, <2>1, HeldTypes DEF HoldersUnique
    <3>2. \A i \in 1..Len(stack) : stack[i].gen # g
      <4> SUFFICES ASSUME NEW i \in 1..Len(stack), stack[i].gen = g
                   PROVE  FALSE
        OBVIOUS
      <4>1. /\ FrameGen(stack[i]) /\ stack[i].op \in NewOps \cup CursorOps
            /\ stack[i].op \in CursorOps => stack[i].cur \in Cursors
        BY FrameFacts, HeldTypes DEF FrameRec, NewOps
      <4> QED
        BY <2>1, <3>1, <4>1 DEF FrameGen
    <3>3. gen[g].st # "unborn" /\ gen[g].st # "running"
      BY <1>2, <2>1, <3>2, HeldTypes DEF HeldStarted, RunningWaits
    <3>4. /\ \A u \in Tables : openedIter'[u] # g
          /\ \A u \in Tables : openedIter'[u] = openedIter[u] \/ openedIter'[u] = None
      BY <1>2, <2>1, HeldTypes DEF HoldersUnique, IInv, TypeOK
    <3>5. \A x \in Gens : gen[x].st = "running" => \E i \in 1..n : stack[i].gen = x
      BY <1>2, <1>3, <2>1 DEF RunningWaits
    <3> QED
      BY <1>3, <2>1, <3>1, <3>2, <3>3, <3>4, <3>5
  <2>2. CASE /\ stack # <<>> /\ Top.op = "open" /\ Top.cur = c /\ Top.gen = g /\ Pop
             /\ gen' = [gen EXCEPT ![g] = Settled(g, "yield")]
             /\ UNCHANGED openedIter
    <3>1. /\ Len(stack) \in Nat \ {0} /\ n = Len(stack) - 1
          /\ \A i \in 1..(Len(stack) - 1) : stack'[i] = stack[i]
      BY <1>3, <2>2, PopFacts DEF IInv, TypeOK
    <3>2. /\ Top = stack[Len(stack)] /\ FrameGen(Top) /\ Top.op \in NewOps
      BY <2>2, <3>1, FrameFacts DEF Top, NewOps
    <3>3. /\ gen[g].pos = 0
          /\ \A d \in Cursors : inst[d].openIter # g
          /\ \A u \in Tables : openedIter[u] # g
      BY <2>2, <3>2 DEF FrameGen
    <3>4. /\ gen'[g].st = "suspended" /\ gen'[g].pos = 1
          /\ \A x \in Gens : x # g => gen'[x] = gen[x]
      BY <2>2, <3>3, SchemaGiven
    <3>5. c # None
      BY HeldTypes
    <3>6. \A i \in 1..n :
            /\ i \in 1..Len(stack) /\ stack'[i] = stack[i]
            /\ stack[i].cur # c /\ stack[i].gen # g
      <4>1. \A i \in 1..n : i \in 1..Len(stack) /\ i # Len(stack)
        BY <3>1
      <4>2. \A i \in 1..n : stack[i].cur # c
        BY <2>2, <3>1, <3>5, TopFacts
      <4>3. \A i \in 1..n : stack[i].gen # g
        BY <2>2, <3>1, <3>2, <4>1, FrameFacts
      <4> QED
        BY <3>1, <4>1, <4>2, <4>3
    <3>7. ASSUME NEW x \in Gens, gen[x].st = "running", x # g
          PROVE  \E i \in 1..n : stack[i].gen = x
      <4>1. PICK i \in 1..Len(stack) : stack[i].gen = x
        BY <1>2, <3>7 DEF RunningWaits
      <4> QED
        BY <2>2, <3>1, <3>2, <3>7, <4>1
    <3> QED
      BY <2>2, <3>3, <3>4, <3>6, <3>7
  <2> QED
    BY <2>1, <2>2
<1>5. HoldersUnique'
  <2>1. \A a, b \in Cursors :
            inst'[a].openIter = inst'[b].openIter /\ inst'[a].openIter # None => a = b
    BY <1>1, <1>2, <1>4 DEF HoldersUnique
  <2>2. \A u, v \in Tables :
            openedIter'[u] = openedIter'[v] /\ openedIter'[u] # None => u = v
    BY <1>2, <1>4 DEF HoldersUnique
  <2>3. \A u \in Tables, a \in Cursors :
            openedIter'[u] = inst'[a].openIter => openedIter'[u] = None
    BY <1>1, <1>2, <1>4 DEF HoldersUnique
  <2> QED
    BY <2>1, <2>2, <2>3 DEF HoldersUnique
<1>6. HeldIsNext'
    BY <1>1, <1>2 DEF HeldIsNext
<1>7. HeldStarted'
  <2>1. \A x \in Gens : gen[x].st # "unborn" \/ x = g => gen'[x].st # "unborn"
    BY <1>4
  <2> QED
    BY <1>1, <1>2, <1>4, <2>1, HeldTypes DEF HeldStarted
<1>8. FramesHold'
  <2>1. \A i, j \in 1..n : stack'[i].gen = stack'[j].gen => i = j
    BY <1>4, FrameFacts
  <2>2. ASSUME NEW i \in 1..n
        PROVE  FrameGen(stack[i])'
    <3>1. /\ stack'[i] = stack[i] /\ stack[i].cur # c /\ FrameGen(stack[i])
          /\ stack[i].gen \in Gens /\ stack[i].gen # g /\ stack[i].gen # None
          /\ stack[i].op \in CursorOps => stack[i].cur \in Cursors
      BY <1>4, FrameFacts, HeldTypes
    <3>2. /\ gen'[stack[i].gen] = gen[stack[i].gen]
          /\ \A d \in Cursors : inst[d].openIter # stack[i].gen
                                => inst'[d].openIter # stack[i].gen
          /\ \A u \in Tables : openedIter[u] # stack[i].gen
                               => openedIter'[u] # stack[i].gen
          /\ stack[i].op \in CursorOps => inst'[stack[i].cur] = inst[stack[i].cur]
      BY <1>1, <1>4, <3>1
    <3> QED
      BY <3>1, <3>2 DEF FrameGen
  <2> QED
    BY <1>3, <2>1, <2>2 DEF FramesHold
<1>9. RunningWaits'
  <2> SUFFICES ASSUME NEW x \in Gens, gen'[x].st = "running"
               PROVE  \E i \in 1..n : stack'[i].gen = x
    BY <1>3 DEF RunningWaits
  <2>1. x # g /\ gen[x].st = "running"
    BY <1>4
  <2>2. PICK i \in 1..n : stack[i].gen = x
    BY <1>4, <2>1
  <2> QED
    BY <1>4, <2>2
<1>10. NextIsHeld'
  <2> SUFFICES ASSUME NEW d \in Cursors, NEW x \in Gens,
                      inst'[d].iterNext = x, CanRun(x)'
               PROVE  inst'[d].openIter = x
    BY DEF NextIsHeld
  <2>1. CASE d = c
    BY <1>1, <2>1
  <2>2. CASE d # c
    <3>1. inst[d].iterNext = x
      BY <1>1, <2>2
    <3>2. CanRun(g) => x # g
      BY <1>2, <1>4, <3>1 DEF NextIsHeld
    <3>3. CASE x # g
      <4>1. CanRun(x)
        BY <1>4, <3>3 DEF CanRun
      <4> QED
        BY <1>1, <1>2, <2>2, <3>1, <4>1 DEF NextIsHeld
    <3>4. CASE x = g /\ ~CanRun(g)
      <4>1. gen' = gen \/ (gen[g].st = "running")
        BY FrameFacts, HeldTypes DEF FrameGen, Top
      <4> QED
        BY <3>4, <4>1 DEF CanRun
    <3> QED
      BY <3>2, <3>3, <3>4
  <2> QED
    BY <2>1, <2>2
<1>11. NoScanLeft'
  <2>1. ASSUME NEW x \in Gens, gen'[x].st = "suspended", gen'[x].pos > 1
        PROVE  \E d \in Cursors : handle'[d].st = "open" /\ inst'[d].openIter = x
    <3>1. gen'[x] = gen[x]
      BY <1>4, <2>1
    <3>2. PICK d \in Cursors : handle[d].st = "open" /\ inst[d].openIter = x
      BY <1>2, <2>1, <3>1 DEF NoScanLeft
    <3>3. d # c
      BY <3>2
    <3> QED
      BY <1>1, <3>2, <3>3
  <2>2. ASSUME NEW d \in Cursors, Suspended(inst[d].openIter)'
        PROVE  handle'[d].st = "open"
    <3>1. CASE d = c
      BY <1>1, <3>1
    <3>2. CASE d # c
      <4>1. inst'[d] = inst[d] /\ handle'[d] = handle[d] /\ inst[d].openIter # g
        BY <1>1, <1>4, <3>2
      <4>2. Suspended(inst[d].openIter)
        BY <1>4, <2>2, <4>1, HeldTypes DEF Suspended
      <4> QED
        BY <1>2, <4>1, <4>2 DEF NoScanLeft
    <3> QED
      BY <3>1, <3>2
  <2> QED
    BY <2>1, <2>2 DEF NoScanLeft
<1>12. MadeFor'
    BY <1>1, <1>2
<1> QED
    BY <1>5, <1>6, <1>7, <1>8, <1>9, <1>10, <1>11, <1>12 DEF Held

\* xDestroy and xDisconnect find nothing running: no cursor of the table is open.
LEMMA DropHeld ==
    ASSUME IInv, Held, NEW t \in Tables, Destroy(t) \/ Disconnect(t)
    PROVE  Held'
<1>1. /\ HoldersUnique /\ HeldStarted /\ FramesHold /\ RunningWaits
      /\ HeldIsNext /\ NextIsHeld /\ MadeFor /\ NoScanLeft
    BY DEF Held
<1>2. /\ ~InUse(t) /\ UNCHANGED <<handle, stack>>
      /\ openedIter' = [openedIter EXCEPT ![t] = None]
      /\ cursors' = [cursors EXCEPT ![t] = <<>>]
    BY DEF Destroy, Disconnect
<1>3. /\ \A u \in Tables : openedIter'[u] = openedIter[u] \/ openedIter'[u] = None
      /\ \A u \in Tables : cursors'[u] = cursors[u] \/ cursors'[u] = <<>>
    BY <1>2 DEF IInv, TypeOK
<1>. DEFINE mine == {cursors[t][j] : j \in 1..Len(cursors[t])}
<1>4. ASSUME NEW c \in mine
      PROVE  c \in Cursors /\ handle[c].tab = t /\ handle[c].st # "open"
  <2>1. PICK j \in 1..Len(cursors[t]) : c = cursors[t][j]
    OBVIOUS
  <2>2. c \in Cursors
    BY <2>1, HeldTypes
  <2>3. handle[c].tab = t
    BY <1>1, <2>1 DEF MadeFor
  <2> QED
    BY <1>2, <2>2, <2>3 DEF InUse
<1>5. ASSUME NEW c \in mine, inst[c].openIter # None
      PROVE  ~CanRun(inst[c].openIter)
  <2>1. c \in Cursors /\ handle[c].tab = t /\ handle[c].st # "open"
    BY <1>4
  <2>2. ~Suspended(inst[c].openIter)
    BY <1>1, <2>1 DEF NoScanLeft
  <2>3. \A i \in 1..Len(stack) : stack[i].cur # c \/ stack[i].op \notin CursorOps
    BY <2>1 DEF IInv, FramesOK
  <2>4. gen[inst[c].openIter].st # "running"
    <3> SUFFICES ASSUME gen[inst[c].openIter].st = "running"
                 PROVE  FALSE
      OBVIOUS
    <3>1. inst[c].openIter \in Gens
      BY <1>5, <2>1, HeldTypes
    <3>2. PICK i \in 1..Len(stack) : stack[i].gen = inst[c].openIter
      BY <1>1, <3>1 DEF RunningWaits
    <3>3. /\ FrameGen(stack[i]) /\ stack[i].op \in NewOps \cup CursorOps
          /\ stack[i].op \in CursorOps => stack[i].cur \in Cursors
      BY FrameFacts, HeldTypes DEF FrameRec, NewOps
    <3>4. stack[i].op \in CursorOps
      BY <2>1, <3>2, <3>3 DEF FrameGen
    <3>5. stack[i].cur = c
      BY <1>1, <1>5, <2>1, <3>2, <3>3, <3>4 DEF FrameGen, HoldersUnique
    <3> QED
      BY <2>3, <3>4, <3>5
  <2> QED
    BY <1>5, <2>2, <2>4 DEF CanRun, Suspended
<1>6. /\ \A c \in Cursors :
            /\ inst'[c].iterNext = inst[c].iterNext
            /\ \/ inst'[c].openIter = inst[c].openIter
               \/ inst'[c].openIter = None /\ c \in mine
      /\ \A g \in Gens : gen'[g] = gen[g]
  <2>1. CASE Destroy(t)
    <3>1. /\ inst' = [c \in Cursors |->
                 IF c \in mine THEN [inst[c] EXCEPT !.openIter = None] ELSE inst[c]]
          /\ gen' = [g \in Gens |->
                 IF Suspended(g) /\ \E c \in mine : inst[c].openIter = g
                 THEN Closed(g) ELSE gen[g]]
      BY <2>1 DEF Destroy
    <3>2. \A g \in Gens : Suspended(g) => ~\E c \in mine : inst[c].openIter = g
      BY <1>5 DEF Suspended, CanRun
    <3>3. \A c \in Cursors : inst[c] \in InstRec
      BY DEF IInv, TypeOK
    <3>. HIDE DEF mine
    <3>4. \A c \in Cursors :
            /\ inst'[c].iterNext = inst[c].iterNext
            /\ \/ inst'[c].openIter = inst[c].openIter
               \/ inst'[c].openIter = None /\ c \in mine
      BY <3>1, <3>3 DEF InstRec
    <3> QED
      BY <3>1, <3>2, <3>4
  <2>2. CASE Disconnect(t)
    BY <2>2 DEF Disconnect
  <2> QED
    BY <2>1, <2>2
<1>7. ASSUME NEW c \in Cursors, NEW g \in Gens, inst[c].openIter = g, CanRun(g)
      PROVE  inst'[c].openIter = g
    BY <1>5, <1>6, <1>7, HeldTypes
<1>. HIDE DEF mine
<1>8. HoldersUnique' /\ HeldIsNext'
    BY <1>1, <1>3, <1>6 DEF HoldersUnique, HeldIsNext
<1>9. HeldStarted'
    BY <1>1, <1>3, <1>6, HeldTypes DEF HeldStarted
<1>10. FramesHold'
  <2>1. ASSUME NEW i \in 1..Len(stack)
        PROVE  FrameGen(stack[i])'
    <3>1. /\ FrameGen(stack[i]) /\ stack[i].gen \in Gens /\ stack[i].gen # None
          /\ stack[i].op \in CursorOps => stack[i].cur \in Cursors
      BY FrameFacts, HeldTypes
    <3>2. stack[i].op \in CursorOps => inst'[stack[i].cur].openIter = stack[i].gen
      BY <1>7, <3>1 DEF FrameGen, CanRun
    <3>3. /\ \A c \in Cursors : inst[c].openIter # stack[i].gen
                                => inst'[c].openIter # stack[i].gen
          /\ \A u \in Tables : openedIter[u] # stack[i].gen
                               => openedIter'[u] # stack[i].gen
      BY <1>3, <1>6, <3>1
    <3> QED
      BY <1>2, <1>6, <3>1, <3>2, <3>3 DEF FrameGen
  <2> QED
    BY <1>1, <1>2, <2>1 DEF FramesHold
<1>11. RunningWaits'
    BY <1>1, <1>2, <1>6 DEF RunningWaits
<1>12. NextIsHeld'
    BY <1>1, <1>6, <1>7 DEF NextIsHeld, CanRun
<1>13. NoScanLeft'
  <2>1. ASSUME NEW g \in Gens, gen[g].st = "suspended", gen[g].pos > 1
        PROVE  \E c \in Cursors : handle[c].st = "open" /\ inst'[c].openIter = g
    BY <1>1, <1>7, <2>1 DEF NoScanLeft, CanRun
  <2>2. ASSUME NEW c \in Cursors, Suspended(inst[c].openIter)'
        PROVE  handle[c].st = "open"
    BY <1>1, <1>6, <2>2, HeldTypes DEF NoScanLeft, Suspended
  <2> QED
    BY <1>2, <1>6, <2>1, <2>2 DEF NoScanLeft
<1>14. MadeFor'
    BY <1>1, <1>2, <1>3, MadeForKept
<1> QED
    BY <1>8, <1>9, <1>10, <1>11, <1>12, <1>13, <1>14 DEF Held

-----------------------------------------------------------------------------
(* Held is inductive: the callbacks, one by one.                            *)

\* Nobody holds anything at first.
LEMMA InitHeld == Init => Held
BY ConstantsOK DEF Init, Held, HoldersUnique, HeldStarted, FramesHold, RunningWaits,
   HeldIsNext, NextIsHeld, MadeFor, NoScanLeft, CanRun, Suspended, NoGen, NoHandle, NoInst

\* Starting a scan's call, or failing it, leaves the holders and cursors alone.
LEMMA CallKeeps ==
    ASSUME IInv, NEW c \in Cursors,
           \/ inst' = [inst EXCEPT ![c].firsttime = FALSE, ![c].eof = FALSE]
           \/ inst' = [inst EXCEPT ![c].eof = FALSE]
           \/ UNCHANGED inst,
           UNCHANGED <<openedIter, handle>>
    PROVE  SameHolders /\ SameCursors
<1>1. inst \in [Cursors -> InstRec]
    BY DEF IInv, TypeOK
<1>2. \A d \in Cursors : /\ inst'[d].openIter = inst[d].openIter
                        /\ inst'[d].iterNext = inst[d].iterNext
    BY <1>1 DEF InstRec
<1> QED
    BY <1>2 DEF SameHolders, SameCursors

\* The cursor of a call is open, idle, and answered by its own instance.
LEMMA CalledCursor ==
    ASSUME IInv, NEW c \in Cursors, Ready(c)
    PROVE  /\ handle[c].st = "open" /\ handle[c].tab \in Tables /\ InstOf(c) = c
           /\ \A i \in 1..Len(stack) : stack[i].cur # c
BY OwnInstance DEF Ready, Busy, IInv, TypeOK

\* The calls of xFilter, xNext and xClose that resume a generator.
LEMMA CallsHeld ==
    ASSUME IInv, Held, NEW c \in Cursors,
           FilterFirst(c) \/ FilterAgain(c) \/ Next_(c) \/ Close(c)
    PROVE  Held'
<1>1. Ready(c)
    BY DEF FilterFirst, FilterAgain, Next_, Close, MayFilter, MayStep
<1>2. /\ handle[c].st = "open" /\ handle[c].tab \in Tables /\ InstOf(c) = c
    BY <1>1, CalledCursor
<1>3. PICK t \in Tables : t = handle[c].tab
    BY <1>2
<1>4. /\ UNCHANGED <<openedIter, cursors, handle>>
      /\ \/ inst' = [inst EXCEPT ![c].firsttime = FALSE, ![c].eof = FALSE]
         \/ inst' = [inst EXCEPT ![c].eof = FALSE]
         \/ UNCHANGED inst
    BY <1>2 DEF FilterFirst, FilterAgain, Next_, Close
<1>5. SameHolders /\ SameCursors
    BY <1>4, CallKeeps
<1>6. PICK g, op :
        /\ g = inst[c].openIter \/ g = inst[c].iterNext
        /\ Suspended(g) /\ op \in CursorOps
        /\ gen' = [gen EXCEPT ![g].st = "running"]
        /\ Push(Frame(op, t, c, g))
  <2>1. CASE FilterFirst(c)
    BY <1>2, <1>3, <2>1 DEF FilterFirst, CursorOps
  <2>2. CASE FilterAgain(c)
    BY <1>2, <1>3, <2>2 DEF FilterAgain, CursorOps
  <2>3. CASE Next_(c)
    BY <1>2, <1>3, <2>3 DEF Next_, CursorOps
  <2>4. CASE Close(c)
    BY <1>2, <1>3, <2>4 DEF Close, CursorOps
  <2> QED
    BY <2>1, <2>2, <2>3, <2>4
<1>7. g \in Gens /\ gen[g].st = "suspended"
    BY <1>6, HeldTypes DEF Suspended
<1>8. inst[c].openIter = g
    BY <1>6, <1>7 DEF Held, NextIsHeld, CanRun
<1> QED
    BY <1>4, <1>5, <1>6, <1>7, <1>8, ResumeHeld

\* The calls of xFilter, xNext and xClose that find the generator finished.
LEMMA FinishedHeld ==
    ASSUME IInv, Held, NEW c \in Cursors,
           FilterClosed(c) \/ NextFinished(c) \/ CloseFinished(c)
    PROVE  Held'
<1>1. Ready(c)
    BY DEF FilterClosed, NextFinished, CloseFinished, MayFilter, MayStep
<1>2. /\ handle[c].st = "open" /\ InstOf(c) = c
      /\ \A i \in 1..Len(stack) : stack[i].cur # c
    BY <1>1, CalledCursor
<1>3. /\ ~Suspended(inst[c].iterNext) \/ ~Suspended(inst[c].openIter)
      /\ UNCHANGED <<openedIter, cursors, gen, stack>>
    BY <1>2 DEF FilterClosed, NextFinished, CloseFinished
<1>4. inst \in [Cursors -> InstRec] /\ handle \in [Cursors -> HandleRec]
    BY DEF IInv, TypeOK
<1>5. \/ inst' = [inst EXCEPT ![c] = [Exhausted(c) EXCEPT !.firsttime = FALSE]]
      \/ inst' = [inst EXCEPT ![c] = Exhausted(c)]
      \/ inst' = [inst EXCEPT ![c].openIter = None]
    BY <1>2 DEF FilterClosed, NextFinished, CloseFinished, Answer
<1>6. /\ inst'[c].openIter = None /\ inst'[c].iterNext = inst[c].iterNext
      /\ \A d \in Cursors : d # c => inst'[d] = inst[d]
  <2>1. PICK r : /\ inst' = [inst EXCEPT ![c] = r]
                 /\ r.openIter = None /\ r.iterNext = inst[c].iterNext
    <3>1. inst[c] \in InstRec
      BY <1>4
    <3>2. /\ [Exhausted(c) EXCEPT !.firsttime = FALSE].openIter = None
          /\ [Exhausted(c) EXCEPT !.firsttime = FALSE].iterNext = inst[c].iterNext
          /\ Exhausted(c).openIter = None /\ Exhausted(c).iterNext = inst[c].iterNext
          /\ [inst[c] EXCEPT !.openIter = None].openIter = None
          /\ [inst[c] EXCEPT !.openIter = None].iterNext = inst[c].iterNext
      BY <3>1 DEF Exhausted, InstRec
    <3> QED
      BY <1>5, <3>2
  <2> QED
    BY <1>4, <2>1
<1>7. \/ \E v : handle' = [handle EXCEPT ![c].scan = v]
      \/ handle' = [handle EXCEPT ![c].st = "closed"]
    BY DEF FilterClosed, NextFinished, CloseFinished, Answer
<1>8. /\ \A d \in Cursors : d # c => handle'[d] = handle[d]
      /\ handle'[c].st # "fresh" /\ handle'[c].tab = handle[c].tab
    BY <1>2, <1>4, <1>7 DEF HandleRec
<1>9. /\ \A d \in Cursors : d # c => inst'[d].openIter = inst[d].openIter
                                     /\ inst'[d].iterNext = inst[d].iterNext
      /\ \A d \in Cursors : d # c => handle'[d].st = handle[d].st
      /\ \A d \in Cursors : handle[d].st # "fresh" =>
            handle'[d].st # "fresh" /\ handle'[d].tab = handle[d].tab
    BY <1>6, <1>8
<1> QED
    BY <1>2, <1>3, <1>6, <1>9, GiveUp

\* xCreate starts the generator that gives the schema.
LEMMA CreateHeld ==
    ASSUME IInv, Held, NEW t \in Tables, Create(t)
    PROVE  Held'
<1>1. PICK g \in Gens : /\ gen[g].st = "unborn"
                       /\ gen' = [gen EXCEPT ![g] = Started(t)]
                       /\ Push(Frame("create", t, None, g))
    BY DEF Create, Fresh
<1>2. SameHolders /\ SameCursors /\ UNCHANGED cursors
    BY DEF Create, SameHolders, SameCursors
<1>3. "create" \in NewOps
    BY DEF NewOps, TableOps
<1> QED
    BY <1>1, <1>2, <1>3, StartNew

\* xOpen hands out the generator of the schema.
LEMMA OpenFirstHeld ==
    ASSUME IInv, Held, NEW t \in Tables, NEW c \in Cursors, OpenFirst(t, c)
    PROVE  Held'
<1>1. /\ handle[c].st = "fresh" /\ Place(t, c, openedIter[t])
      /\ openedIter' = [openedIter EXCEPT ![t] = None]
      /\ \A i \in 1..Len(stack) : stack[i].cur # c
      /\ UNCHANGED <<gen, stack>> /\ openedIter[t] \in Gens
    BY HeldTypes DEF OpenFirst, MayOpen, Busy
<1> QED
    BY <1>1, OpenedHeld

\* xOpen starts a generator of its own for a later cursor.
LEMMA OpenAgainHeld ==
    ASSUME IInv, Held, NEW t \in Tables, NEW c \in Cursors, OpenAgain(t, c)
    PROVE  Held'
<1>1. PICK g \in Gens : /\ gen[g].st = "unborn"
                       /\ gen' = [gen EXCEPT ![g] = Started(t)]
                       /\ Push(Frame("open", t, c, g))
    BY DEF OpenAgain, Fresh
<1>2. SameHolders /\ SameCursors /\ UNCHANGED cursors
    BY DEF OpenAgain, SameHolders, SameCursors
<1>3. "open" \in NewOps
    BY DEF NewOps
<1> QED
    BY <1>1, <1>2, <1>3, StartNew

\* xFilter starts a generator for a new scan.
LEMMA RestartHeld ==
    ASSUME IInv, Held, NEW c \in Cursors, FilterRestart(c)
    PROVE  Held'
<1>1. Ready(c)
    BY DEF FilterRestart, MayFilter
<1>2. /\ handle[c].st = "open" /\ handle[c].tab \in Tables /\ InstOf(c) = c
      /\ \A i \in 1..Len(stack) : stack[i].cur # c
    BY <1>1, CalledCursor
<1>3. PICK u \in Tables : u = handle[c].tab
    BY <1>2
<1>4. PICK g \in Gens : /\ gen[g].st = "unborn"
                       /\ gen' = [gen EXCEPT ![g] = Started(u)]
                       /\ StartOver(c, g)
                       /\ Push(Frame("skip", u, c, g))
    BY <1>2, <1>3 DEF FilterRestart, Fresh
<1>5. ~Suspended(inst[c].openIter) /\ UNCHANGED <<openedIter, cursors, handle>>
    BY <1>2 DEF FilterRestart
<1> QED
    BY <1>2, <1>4, <1>5, StartFor

\* How a generator ends a resumption.
LEMMA SettledState ==
    ASSUME IInv, NEW g \in Gens, NEW o
    PROVE  /\ Settled(g, o) \in GenRec /\ Closed(g) \in GenRec
           /\ o = "yield" => Settled(g, o).st = "suspended"
           /\ o # "yield" => Settled(g, o).st \in {"done", "failed"}
           /\ Closed(g).st = "closed"
<1>1. gen[g] \in GenRec /\ Settled(g, o) \in GenRec /\ Closed(g) \in GenRec
    BY GenTypes DEF IInv
<1>2. o = "yield" => Settled(g, o).st = "suspended"
    BY DEF Settled
<1>3. o # "yield" => Settled(g, o).st \in {"done", "failed"}
    BY <1>1 DEF Settled, GenRec
<1>4. Closed(g).st = "closed"
    BY <1>1 DEF Closed, GenRec
<1> QED
    BY <1>1, <1>2, <1>3, <1>4

\* xCreate returns.
LEMMA CreateReturnHeld ==
    ASSUME IInv, Held, CreateReturn
    PROVE  Held'
<1>1. /\ stack # <<>> /\ Top.op \in TableOps /\ Pop /\ UNCHANGED <<handle, inst>>
      /\ Top.gen \in Gens
    BY TopFacts DEF CreateReturn, Returning, TableOps, FrameRec
<1>2. PICK o :
        /\ gen' = [gen EXCEPT ![Top.gen] = Settled(Top.gen, o)]
        /\ o = "yield" => /\ openedIter' = [openedIter EXCEPT ![Top.tab] = Top.gen]
                          /\ cursors' = [cursors EXCEPT ![Top.tab] = <<>>]
        /\ o # "yield" => UNCHANGED <<openedIter, cursors>>
    BY DEF CreateReturn
<1>3. CASE o = "yield"
    BY <1>1, <1>2, <1>3, CreatedHeld
<1>4. CASE o # "yield"
  <2>1. PICK r \in GenRec : r = Settled(Top.gen, o) /\ r.st \in {"done", "failed"}
    BY <1>1, <1>4, SettledState
  <2> QED
    BY <1>1, <1>2, <1>4, <2>1, LetGo
<1> QED
    BY <1>3, <1>4

\* xOpen returns.
LEMMA OpenReturnHeld ==
    ASSUME IInv, Held, OpenReturn
    PROVE  Held'
<1>1. stack # <<>> /\ Top.op = "open" /\ Pop /\ UNCHANGED openedIter
    BY DEF OpenReturn, Returning
<1>2. PICK c \in Cursors, t \in Tables, g \in Gens :
        c = Top.cur /\ t = Top.tab /\ g = Top.gen /\ handle[c].st = "fresh"
    BY <1>1, TopFacts DEF FrameFits, FrameRec
<1>3. PICK o :
        /\ gen' = [gen EXCEPT ![g] = Settled(g, o)]
        /\ o = "yield" => Place(t, c, g)
        /\ o # "yield" => /\ handle' = [handle EXCEPT ![c].st = "null"]
                          /\ UNCHANGED <<cursors, inst>>
    BY <1>2 DEF OpenReturn
<1>4. CASE o = "yield"
  <2>1. Place(t, c, g) /\ gen' = [gen EXCEPT ![g] = Settled(g, "yield")]
    BY <1>3, <1>4
  <2> QED
    BY <1>1, <1>2, <2>1, OpenedHeld
<1>5. CASE o # "yield"
  <2>1. PICK r \in GenRec : r = Settled(g, o) /\ r.st \in {"done", "failed"}
    BY <1>5, SettledState
  <2>2. /\ \A d \in Cursors : handle[d].st = "open" => handle'[d].st = "open"
        /\ \A d \in Cursors : handle[d].st # "fresh" =>
              handle'[d].st # "fresh" /\ handle'[d].tab = handle[d].tab
    BY <1>2, <1>3, <1>5 DEF IInv, TypeOK
  <2>3. /\ UNCHANGED <<cursors, inst, openedIter>>
        /\ gen' = [gen EXCEPT ![Top.gen] = r]
    BY <1>1, <1>2, <1>3, <1>5, <2>1
  <2> QED
    BY <1>1, <2>1, <2>2, <2>3, LetGo
<1> QED
    BY <1>4, <1>5

\* A callback of a cursor returns with an answer, or reports an error.
LEMMA AnswerHeld ==
    ASSUME IInv, Held, stack # <<>>, Top.op \in CursorOps, Pop,
           NEW c \in Cursors, c = Top.cur, NEW g \in Gens, g = Top.gen,
           UNCHANGED <<openedIter, cursors>>,
           NEW r \in GenRec, gen' = [gen EXCEPT ![g] = r],
           r.st \in {"done", "failed", "closed", "suspended"},
           SameCursors,
           \/ UNCHANGED inst
           \/ inst' = [inst EXCEPT ![c] = RowOf(c, g)]
           \/ inst' = [inst EXCEPT ![c] = Exhausted(c)] /\ r.st # "suspended"
    PROVE  Held'
<1>1. inst \in [Cursors -> InstRec] /\ inst[c] \in InstRec
    BY DEF IInv, TypeOK
<1>5. /\ RowOf(c, g).openIter = inst[c].openIter /\ RowOf(c, g).iterNext = inst[c].iterNext
      /\ Exhausted(c).openIter = None /\ Exhausted(c).iterNext = inst[c].iterNext
    BY <1>1 DEF InstRec, RowOf, Exhausted
<1>2. \A d \in Cursors : inst'[d].iterNext = inst[d].iterNext
    BY <1>1, <1>5
<1>3. \A d \in Cursors :
            \/ inst'[d].openIter = inst[d].openIter
            \/ inst'[d].openIter = None /\ d = c /\ r.st # "suspended"
    BY <1>1, <1>5
<1>4. /\ \A d \in Cursors : handle[d].st = "open" => handle'[d].st = "open"
      /\ \A d \in Cursors : handle[d].st # "fresh" =>
            handle'[d].st # "fresh" /\ handle'[d].tab = handle[d].tab
    BY DEF SameCursors
<1> QED
    BY <1>2, <1>3, <1>4, LetGo

\* xNext returns.
LEMMA NextReturnHeld ==
    ASSUME IInv, Held, NextReturn
    PROVE  Held'
<1>1. /\ stack # <<>> /\ Top.op \in CursorOps /\ Pop
      /\ UNCHANGED <<openedIter, cursors>>
    BY DEF NextReturn, Returning, CursorOps
<1>2. PICK c \in Cursors, g \in Gens : c = Top.cur /\ g = Top.gen /\ InstOf(c) = c
    BY <1>1, CursorFrame
<1>3. PICK o \in Outcomes(g) :
        /\ gen' = [gen EXCEPT ![g] = Settled(g, o)]
        /\ IF o = "interrupt"
           THEN Fail(c) /\ UNCHANGED <<inst, got>>
           ELSE Answer(c, c, CASE o = "yield" -> RowOf(c, g)
                               [] o = "stop"  -> Exhausted(c)
                               [] o = "error" -> inst[c])
    BY <1>2 DEF NextReturn
<1>4. o \in {"yield", "stop", "error", "interrupt"}
    BY ConstantsOK DEF Outcomes
<1>5. PICK r \in GenRec : /\ r = Settled(g, o)
                          /\ r.st \in {"done", "failed", "closed", "suspended"}
                          /\ o = "stop" => r.st # "suspended"
    BY SettledState
<1>6. \/ UNCHANGED inst
      \/ inst' = [inst EXCEPT ![c] = RowOf(c, g)]
      \/ inst' = [inst EXCEPT ![c] = Exhausted(c)] /\ o = "stop"
  <2>1. CASE o = "error"
    <3>1. inst' = [inst EXCEPT ![c] = inst[c]] /\ inst \in [Cursors -> InstRec]
      BY <1>3, <2>1 DEF Answer, IInv, TypeOK
    <3> QED
      BY <3>1
  <2>2. CASE o # "error"
    BY <1>3, <1>4, <2>2 DEF Answer
  <2> QED
    BY <2>1, <2>2
<1>7. SameCursors
  <2>1. PICK v \in {"idle", "row", "eof", "failed"} : handle' = [handle EXCEPT ![c].scan = v]
    BY <1>3 DEF Fail, Answer
  <2> QED
    BY <2>1, HandleTypes DEF IInv
<1> QED
    BY <1>1, <1>2, <1>3, <1>5, <1>6, <1>7, AnswerHeld

\* xFilter returns.
LEMMA FilterReturnHeld ==
    ASSUME IInv, Held, FilterReturn
    PROVE  Held'
<1>1. /\ stack # <<>> /\ Top.op \in CursorOps /\ Pop /\ UNCHANGED openedIter
    BY DEF FilterReturn, Returning, CursorOps
<1>2. PICK c \in Cursors, g \in Gens, t \in Tables :
        c = Top.cur /\ g = Top.gen /\ t = Top.tab /\ InstOf(c) = c
    BY <1>1, CursorFrame
<1>3. \/ \E o \in {"yield", "stop"} :
            /\ gen' = [gen EXCEPT ![g] = Settled(g, o)]
            /\ Answer(c, c, IF o = "yield" THEN RowOf(c, g) ELSE Exhausted(c))
            /\ UNCHANGED cursors
      \/ /\ gen' = [gen EXCEPT ![g] = Settled(g, "error")]
         /\ Fail(c) /\ UNCHANGED <<inst, cursors>>
      \/ DisconnectAll(t, g) /\ Fail(c)
    BY <1>2 DEF FilterReturn
<1>4. SameCursors
  <2>1. PICK v \in {"idle", "row", "eof", "failed"} : handle' = [handle EXCEPT ![c].scan = v]
    BY <1>3 DEF Fail, Answer
  <2> QED
    BY <2>1, HandleTypes DEF IInv
<1>5. CASE \E o \in {"yield", "stop"} :
            /\ gen' = [gen EXCEPT ![g] = Settled(g, o)]
            /\ Answer(c, c, IF o = "yield" THEN RowOf(c, g) ELSE Exhausted(c))
            /\ UNCHANGED cursors
  <2>1. PICK o \in {"yield", "stop"} :
            /\ gen' = [gen EXCEPT ![g] = Settled(g, o)]
            /\ Answer(c, c, IF o = "yield" THEN RowOf(c, g) ELSE Exhausted(c))
            /\ UNCHANGED cursors
    BY <1>5
  <2>2. PICK r \in GenRec : /\ r = Settled(g, o)
                            /\ r.st \in {"done", "failed", "closed", "suspended"}
                            /\ o = "stop" => r.st # "suspended"
    BY SettledState
  <2>3. \/ inst' = [inst EXCEPT ![c] = RowOf(c, g)]
        \/ inst' = [inst EXCEPT ![c] = Exhausted(c)] /\ o = "stop"
    BY <2>1 DEF Answer
  <2> QED
    BY <1>1, <1>2, <1>4, <2>1, <2>2, <2>3, AnswerHeld
<1>6. CASE /\ gen' = [gen EXCEPT ![g] = Settled(g, "error")]
           /\ Fail(c) /\ UNCHANGED <<inst, cursors>>
  <2>1. PICK r \in GenRec : r = Settled(g, "error") /\ r.st \in {"done", "failed"}
    BY SettledState
  <2> QED
    BY <1>1, <1>2, <1>4, <1>6, <2>1, AnswerHeld
<1>7. CASE DisconnectAll(t, g) /\ Fail(c)
    BY <1>1, <1>2, <1>4, <1>7, DisconnectHeld
<1> QED
    BY <1>3, <1>5, <1>6, <1>7

\* xFilter has closed the previous generator.
LEMMA RecloseReturnHeld ==
    ASSUME IInv, Held, RecloseReturn
    PROVE  Held'
<1>1. /\ stack # <<>> /\ Top.op = "reclose" /\ Top.op \in CursorOps
      /\ UNCHANGED openedIter
    BY DEF RecloseReturn, Returning, CursorOps
<1>2. PICK c \in Cursors, g \in Gens, t \in Tables :
        c = Top.cur /\ g = Top.gen /\ t = Top.tab /\ InstOf(c) = c
    BY <1>1, CursorFrame
<1>3. \/ /\ \E h \in Gens :
              /\ Fresh(h)
              /\ gen' = [gen EXCEPT ![g] = Closed(g), ![h] = Started(t)]
              /\ StartOver(c, h)
              /\ Swap(Frame("skip", t, c, h))
         /\ UNCHANGED <<cursors, handle>>
      \/ /\ gen' = [gen EXCEPT ![g] = Closed(g)]
         /\ Fail(c) /\ Pop /\ UNCHANGED <<inst, cursors>>
      \/ DisconnectAll(t, g) /\ Fail(c) /\ Pop
    BY <1>2 DEF RecloseReturn
<1>4. Fail(c) => SameCursors
    BY FailOK DEF IInv
<1>5. CASE /\ \E h \in Gens :
                /\ Fresh(h)
                /\ gen' = [gen EXCEPT ![g] = Closed(g), ![h] = Started(t)]
                /\ StartOver(c, h)
                /\ Swap(Frame("skip", t, c, h))
           /\ UNCHANGED <<cursors, handle>>
    BY <1>1, <1>2, <1>5, StartFor DEF Fresh
<1>6. CASE /\ gen' = [gen EXCEPT ![g] = Closed(g)]
           /\ Fail(c) /\ Pop /\ UNCHANGED <<inst, cursors>>
  <2>1. PICK r \in GenRec : r = Closed(g) /\ r.st = "closed"
    BY SettledState
  <2> QED
    BY <1>1, <1>2, <1>4, <1>6, <2>1, AnswerHeld
<1>7. CASE DisconnectAll(t, g) /\ Fail(c) /\ Pop
    BY <1>1, <1>2, <1>4, <1>7, DisconnectHeld
<1> QED
    BY <1>3, <1>5, <1>6, <1>7

\* xFilter has dropped the schema row.
LEMMA SkipReturnHeld ==
    ASSUME IInv, Held, SkipReturn
    PROVE  Held'
<1>1. /\ stack # <<>> /\ Top.op = "skip" /\ Top.op \in CursorOps
      /\ UNCHANGED openedIter
    BY DEF SkipReturn, Returning, CursorOps
<1>2. PICK c \in Cursors, g \in Gens, t \in Tables :
        c = Top.cur /\ g = Top.gen /\ t = Top.tab /\ InstOf(c) = c
    BY <1>1, CursorFrame
<1>3. \/ /\ gen' = [gen EXCEPT ![Top.gen].pos = @ + 1]
         /\ Swap(Frame("filter", Top.tab, Top.cur, Top.gen))
         /\ UNCHANGED <<inst, cursors, handle>>
      \/ /\ gen' = [gen EXCEPT ![g] = Settled(g, "error")]
         /\ Fail(c) /\ Pop /\ UNCHANGED <<inst, cursors>>
      \/ DisconnectAll(t, g) /\ Fail(c) /\ Pop
    BY <1>2 DEF SkipReturn
<1>4. Fail(c) => SameCursors
    BY FailOK DEF IInv
<1>5. CASE /\ gen' = [gen EXCEPT ![Top.gen].pos = @ + 1]
           /\ Swap(Frame("filter", Top.tab, Top.cur, Top.gen))
           /\ UNCHANGED <<inst, cursors, handle>>
    BY <1>1, <1>5, GoOn
<1>6. CASE /\ gen' = [gen EXCEPT ![g] = Settled(g, "error")]
           /\ Fail(c) /\ Pop /\ UNCHANGED <<inst, cursors>>
  <2>1. PICK r \in GenRec : r = Settled(g, "error") /\ r.st \in {"done", "failed"}
    BY SettledState
  <2> QED
    BY <1>1, <1>2, <1>4, <1>6, <2>1, AnswerHeld
<1>7. CASE DisconnectAll(t, g) /\ Fail(c) /\ Pop
    BY <1>1, <1>2, <1>4, <1>7, DisconnectHeld
<1> QED
    BY <1>3, <1>5, <1>6, <1>7

\* xClose returns.
LEMMA CloseReturnHeld ==
    ASSUME IInv, Held, CloseReturn
    PROVE  Held'
<1>1. /\ stack # <<>> /\ Top.op \in CursorOps /\ Pop
      /\ UNCHANGED <<openedIter, cursors>>
    BY DEF CloseReturn, Returning, CursorOps
<1>2. PICK c \in Cursors, g \in Gens :
        c = Top.cur /\ g = Top.gen /\ InstOf(c) = c /\ handle[c].st = "open"
    BY <1>1, CursorFrame
<1>3. /\ gen' = [gen EXCEPT ![g] = Closed(g)]
      /\ UNCHANGED inst \/ inst' = [inst EXCEPT ![c].openIter = None]
      /\ handle' = [handle EXCEPT ![c].st = "closed"]
    BY <1>2 DEF CloseReturn
<1>4. PICK r \in GenRec : r = Closed(g) /\ r.st = "closed"
    BY SettledState
<1>5. inst \in [Cursors -> InstRec] /\ handle \in [Cursors -> HandleRec]
    BY DEF IInv, TypeOK
<1>6. /\ \A d \in Cursors : inst'[d].iterNext = inst[d].iterNext
      /\ \A d \in Cursors :
            inst'[d].openIter = inst[d].openIter \/ (inst'[d].openIter = None /\ d = c)
    BY <1>3, <1>5 DEF InstRec
<1>7. /\ \A d \in Cursors : d # c => handle'[d] = handle[d]
      /\ handle'[c].st = "closed" /\ handle'[c].tab = handle[c].tab
    BY <1>3, <1>5 DEF HandleRec
<1>8. /\ \A d \in Cursors :
            \/ inst'[d].openIter = inst[d].openIter
            \/ /\ inst'[d].openIter = None
               /\ d = Top.cur /\ Top.op \in CursorOps /\ r.st # "suspended"
      /\ \A d \in Cursors : handle[d].st = "open" =>
            \/ handle'[d].st = "open"
            \/ d = Top.cur /\ Top.op \in CursorOps /\ r.st # "suspended"
      /\ \A d \in Cursors : handle[d].st # "fresh" =>
            handle'[d].st # "fresh" /\ handle'[d].tab = handle[d].tab
    BY <1>1, <1>2, <1>4, <1>6, <1>7
<1>9. gen' = [gen EXCEPT ![Top.gen] = r] /\ r.st \in {"done", "failed", "closed"}
    BY <1>2, <1>3, <1>4
<1> QED
    BY <1>1, <1>6, <1>8, <1>9, LetGo

\* Every step keeps the holders.
LEMMA HeldNext == IInv /\ Held /\ [Next]_vars => Held'
<1> SUFFICES ASSUME IInv, Held, [Next]_vars
             PROVE  Held'
    OBVIOUS
<1>1. CASE UNCHANGED vars
    BY <1>1 DEF vars, Held, HoldersUnique, HeldStarted, FramesHold, FrameGen, RunningWaits,
       HeldIsNext, NextIsHeld, MadeFor, NoScanLeft, CanRun, Suspended
<1>2. CASE Call
    BY <1>2, CreateHeld, DropHeld, OpenFirstHeld, OpenAgainHeld, RestartHeld,
       CallsHeld, FinishedHeld DEF Call
<1>3. CASE Return
    BY <1>3, RetryHeld, CreateReturnHeld, OpenReturnHeld, RecloseReturnHeld, SkipReturnHeld,
       FilterReturnHeld, NextReturnHeld, CloseReturnHeld DEF Return
<1> QED
    BY <1>1, <1>2, <1>3 DEF Next

\* Who holds a generator is known in every reachable state.
LEMMA HeldInvariance == Spec => []Held
BY InitOK, InitHeld, NextOK, HeldNext, PTL DEF Spec

\* A generator that can still run is never shared: not by two cursors, not by a
\* cursor and the table whose schema it gave, whatever the callbacks nest and
\* whichever of them fail.
THEOREM HoldersNeverShared == Spec => []OneHolder
<1>1. IInv /\ Held => OneHolder
  <2> SUFFICES ASSUME IInv, Held, NEW g \in Gens, CanRun(g)
               PROVE  /\ \A c, d \in Cursors :
                            inst[c].openIter = g /\ inst[d].openIter = g => c = d
                      /\ \A t \in tables : openedIter[t] = g =>
                            \A c \in Cursors : inst[c].openIter # g
                      /\ \A t, u \in tables : openedIter[t] = g /\ openedIter[u] = g => t = u
    BY DEF OneHolder
  <2>1. g # None /\ tables \subseteq Tables
    BY HeldTypes DEF IInv, TypeOK
  <2> QED
    BY <2>1 DEF Held, HoldersUnique
<1> QED
    BY <1>1, Invariance, HeldInvariance, PTL

\* A generator in the middle of its rows belongs to a cursor SQLite holds open,
\* so dropping a table never runs a table function's clean-up code.
THEOREM ScansNeverLeft == Spec => []NoScanLeft
<1>1. Held => NoScanLeft
    BY DEF Held
<1> QED
    BY <1>1, HeldInvariance, PTL

-----------------------------------------------------------------------------
(* What a scan delivers.  A callback answers one cursor; the lemmas below    *)
(* say what the step leaves alone, so that each action is looked at for the  *)
(* one cursor it answers.                                                    *)

\* The rows read so far are the table's first rows, in order ...
Plain(s) == \A k \in 1..Len(s) : s[k] = k

\* ... but for the last one, which repeats the one before.
LastTwice(s) ==
    /\ Len(s) > 1 /\ s[Len(s)] = Len(s) - 1
    /\ \A k \in 1..(Len(s) - 1) : s[k] = k

\* A generator closed under its cursor by LTable.Disconnect.
Shut(g) == gen[g].st = "closed" /\ "interrupt" \in Faults

\* A scan that is on a row: the generator is one row ahead of SQLite, or it
\* answers no more.
OnRow(c) ==
    LET g == inst[c].iterNext  n == Len(got[c]) IN
    /\ ~inst[c].eof /\ n > 0
    /\ \/ /\ Plain(got[c]) /\ inst[c].row = n
          /\ Shut(g) \/ (CanRun(g) /\ gen[g].pos = n + 1 /\ n <= RowCount[handle[c].tab])
       \/ /\ LastTwice(got[c]) /\ inst[c].row = n - 1
          /\ gen[g].st = "failed" /\ "error" \in Faults

\* A scan that is over, as ShortScanExplained has it.
AtEnd(c) ==
    LET g == inst[c].iterNext IN
    \/ Plain(got[c]) /\ Len(got[c]) = RowCount[handle[c].tab]
    \/ LastTwice(got[c]) /\ gen[g].st = "failed"
    \/ Shut(g)

\* An open cursor's scan, between the callbacks that answer it.
ScanState(c) ==
    LET g == inst[c].iterNext IN
    /\ g \in Gens /\ gen[g].tab = handle[c].tab
    /\ handle[c].scan \in {"idle", "eof"} => inst[c].row = 0
    /\ handle[c].scan = "failed" => Faults # {}
    /\ inst[c].firsttime => /\ handle[c].scan = "idle" /\ got[c] = <<>>
                            /\ Shut(g) \/ (CanRun(g) /\ gen[g].pos = 1)
    /\ ~inst[c].firsttime /\ ~Filtering(c) =>
          \/ handle[c].scan = "row" /\ OnRow(c)
          \/ handle[c].scan = "eof" /\ AtEnd(c)
          \/ handle[c].scan = "failed"

ScansOK ==
    \A c \in Cursors : /\ handle[c].st = "open" => ScanState(c)
                       /\ handle[c].st = "fresh" => got[c] = <<>>

\* A frame's generator is of the frame's table, and where its callback needs it.
FrameScan(f) ==
    /\ gen[f.gen].tab = f.tab
    /\ f.op = "skip" => gen[f.gen].pos = 0
    /\ f.op = "filter" => gen[f.gen].pos = 1
    /\ f.op = "next" => handle[f.cur].scan = "row" /\ ~inst[f.cur].firsttime
    /\ f.op \in {"reclose", "skip", "filter"} =>
          /\ got[f.cur] = <<>> /\ ~inst[f.cur].firsttime
          /\ handle[f.cur].scan # "failed"

FramesScan == \A i \in 1..Len(stack) : FrameScan(stack[i])

\* The generator Create read the schema from waits behind its schema row.
SchemaRead ==
    \A t \in Tables : openedIter[t] # None =>
        gen[openedIter[t]] = [st |-> "suspended", tab |-> t, pos |-> 1]

\* Together they are inductive, given IInv and Held.
Reading == ScansOK /\ FramesScan /\ SchemaRead /\ RowsInOrder

\* The step answers cursor k at most, none when k is None.
OthersKept(k) ==
    \A c \in Cursors : c # k =>
        /\ handle'[c] = handle[c] /\ got'[c] = got[c]
        /\ inst'[c].iterNext = inst[c].iterNext /\ inst'[c].row = inst[c].row
        /\ inst'[c].eof = inst[c].eof /\ inst'[c].firsttime = inst[c].firsttime

\* The first n callbacks go on waiting, the step adds one more at most, and
\* the callbacks that come or go are those of cursor k.
StackKept(k, n) ==
    /\ n \in Nat /\ n <= Len(stack) /\ n <= Len(stack') /\ Len(stack') <= n + 1
    /\ Len(stack) <= n + 1
    /\ \A i \in 1..n : stack'[i] = stack[i]
    /\ n < Len(stack) => stack[n + 1].cur \in {k, None}
    /\ n < Len(stack') => stack'[n + 1].cur \in {k, None}

\* Generators that others hold: only LTable.Disconnect closes them.
GensKept(k, n) ==
    \A g \in Gens :
        \/ gen'[g] = gen[g]
        \/ gen[g].st = "unborn"
        \/ /\ gen[g].st = "suspended" /\ gen'[g] = Closed(g) /\ "interrupt" \in Faults
           /\ \E c \in Cursors : inst[c].openIter = g
        \/ /\ CanRun(g)
           /\ \E c \in Cursors : inst[c].openIter = g /\ (c = k \/ handle[c].st # "open")
        \/ n < Len(stack) /\ stack[n + 1].gen = g /\ stack[n + 1].op \in NewOps

\* The callbacks of the other cursors, as Filtering sees them.
LEMMA FilteringKept ==
    ASSUME IInv, NEW k, NEW n, StackKept(k, n), NEW c \in Cursors, c # k
    PROVE  Filtering(c)' <=> Filtering(c)
<1>1. Len(stack) \in Nat /\ c # None /\ n \in Nat
    BY HeldTypes DEF StackKept
<1>2. /\ \A i \in 1..n : stack'[i] = stack[i]
      /\ \A i \in 1..Len(stack) : stack[i].cur = c => i \in 1..n
      /\ \A i \in 1..Len(stack') : stack'[i].cur = c => i \in 1..n
      /\ n <= Len(stack) /\ n <= Len(stack')
  <2>1. Len(stack) <= n + 1 /\ Len(stack') <= n + 1
    BY DEF StackKept
  <2>2. ASSUME NEW i \in 1..Len(stack), stack[i].cur = c
        PROVE  i \in 1..n
    BY <1>1, <2>1, <2>2 DEF StackKept
  <2>3. ASSUME NEW i \in 1..Len(stack'), stack'[i].cur = c
        PROVE  i \in 1..n
    BY <1>1, <2>1, <2>3 DEF StackKept
  <2> QED
    BY <2>2, <2>3 DEF StackKept
<1>3. ASSUME Filtering(c)' PROVE Filtering(c)
  <2>1. PICK i \in 1..Len(stack') :
            stack'[i].cur = c /\ stack'[i].op \in {"reclose", "skip", "filter"}
    BY <1>3 DEF Filtering
  <2>2. i \in 1..n /\ stack[i] = stack'[i] /\ i \in 1..Len(stack)
    BY <1>1, <1>2, <2>1
  <2> QED
    BY <2>1, <2>2 DEF Filtering
<1>4. ASSUME Filtering(c) PROVE Filtering(c)'
  <2>1. PICK i \in 1..Len(stack) :
            stack[i].cur = c /\ stack[i].op \in {"reclose", "skip", "filter"}
    BY <1>4 DEF Filtering
  <2>2. i \in 1..n /\ stack[i] = stack'[i] /\ i \in 1..Len(stack')
    BY <1>1, <1>2, <2>1
  <2> QED
    BY <2>1, <2>2 DEF Filtering
<1> QED
    BY <1>3, <1>4

\* The generator an open cursor reads is not touched by another's callback,
\* unless it is closed.
LEMMA OwnGenKept ==
    ASSUME IInv, Held, NEW k, NEW n \in Nat, GensKept(k, n), NEW c \in Cursors, c # k,
           handle[c].st = "open", NEW g \in Gens, inst[c].iterNext = g
    PROVE  \/ gen'[g] = gen[g]
           \/ /\ gen[g].st = "suspended" /\ gen'[g].st = "closed" /\ gen'[g].tab = gen[g].tab
              /\ "interrupt" \in Faults
<1>1. gen[g].st # "unborn" /\ g # None
    BY HeldTypes DEF Held, HeldStarted
<1>2. CanRun(g) => inst[c].openIter = g
    BY DEF Held, NextIsHeld
<1>3. gen'[g] = Closed(g) => gen'[g].st = "closed" /\ gen'[g].tab = gen[g].tab
    BY HeldTypes DEF Closed, GenRec
<1>4. CASE /\ CanRun(g)
           /\ \E d \in Cursors : inst[d].openIter = g /\ (d = k \/ handle[d].st # "open")
    BY <1>1, <1>2, <1>4 DEF Held, HoldersUnique
<1>5. CASE n < Len(stack) /\ stack[n + 1].gen = g /\ stack[n + 1].op \in NewOps
  <2>1. n + 1 \in 1..Len(stack)
    BY <1>5, HeldTypes
  <2>2. FrameGen(stack[n + 1])
    BY <2>1, FrameFacts
  <2> QED
    BY <1>2, <1>5, <2>2 DEF FrameGen, CanRun
<1> QED
    BY <1>1, <1>3, <1>4, <1>5 DEF GensKept

\* The scans of the other cursors stay as they are.
LEMMA OthersScan ==
    ASSUME IInv, Held, ScansOK, NEW k, NEW n, OthersKept(k), StackKept(k, n), GensKept(k, n),
           NEW c \in Cursors, c # k, handle'[c].st = "open"
    PROVE  ScanState(c)'
<1>1. /\ handle'[c] = handle[c] /\ got'[c] = got[c]
      /\ inst'[c].iterNext = inst[c].iterNext /\ inst'[c].row = inst[c].row
      /\ inst'[c].eof = inst[c].eof /\ inst'[c].firsttime = inst[c].firsttime
    BY DEF OthersKept
<1>2. ScanState(c) /\ handle[c].st = "open"
    BY <1>1 DEF ScansOK
<1>3. PICK g \in Gens : g = inst[c].iterNext
    BY <1>2 DEF ScanState
<1>4. Filtering(c)' <=> Filtering(c)
    BY FilteringKept
<1>5. \/ gen'[g] = gen[g]
      \/ /\ gen[g].st = "suspended" /\ gen'[g].st = "closed" /\ gen'[g].tab = gen[g].tab
         /\ "interrupt" \in Faults
    BY <1>2, <1>3, OwnGenKept DEF StackKept
<1>6. inst'[c].iterNext = g
    BY <1>1, <1>3
<1>7. CASE gen'[g] = gen[g]
  <2>1. OnRow(c) => OnRow(c)'
    BY <1>1, <1>3, <1>6, <1>7 DEF OnRow, Shut, CanRun
  <2>2. AtEnd(c) => AtEnd(c)'
    BY <1>1, <1>3, <1>6, <1>7 DEF AtEnd, Shut
  <2> QED
    BY <1>1, <1>2, <1>3, <1>4, <1>6, <1>7, <2>1, <2>2 DEF ScanState, Shut, CanRun
<1>8. CASE /\ gen[g].st = "suspended" /\ gen'[g].st = "closed" /\ gen'[g].tab = gen[g].tab
           /\ "interrupt" \in Faults
  <2>1. Shut(g)'
    BY <1>8 DEF Shut
  <2>2. OnRow(c) => OnRow(c)'
    BY <1>1, <1>3, <1>6, <1>8, <2>1 DEF OnRow
  <2>3. AtEnd(c)'
    BY <1>6, <2>1 DEF AtEnd
  <2> QED
    BY <1>1, <1>2, <1>3, <1>4, <1>6, <1>8, <2>1, <2>2, <2>3 DEF ScanState
<1> QED
    BY <1>5, <1>7, <1>8

\* The frames that stay find what they need.
LEMMA OthersFrames ==
    ASSUME IInv, Held, FramesScan, NEW k, NEW n,
           OthersKept(k), StackKept(k, n), GensKept(k, n),
           \A i \in 1..n : stack[i].cur # k \/ k = None
    PROVE  \A i \in 1..n : FrameScan(stack[i])'
<1> SUFFICES ASSUME NEW i \in 1..n
             PROVE  FrameScan(stack[i])'
    OBVIOUS
<1>1. i \in 1..Len(stack) /\ stack'[i] = stack[i] /\ n \in Nat
    BY HeldTypes DEF StackKept
<1>2. PICK f \in FrameRec : f = stack[i] /\ f.gen \in Gens
    BY <1>1, HeldTypes
<1>3. FrameScan(f) /\ FrameGen(f)
    BY <1>1, <1>2, FrameFacts DEF FramesScan
<1>4. /\ f.op \in TableOps \cup {"open"} \cup CursorOps
      /\ f.op \in CursorOps => f.cur \in Cursors /\ handle[f.cur].st = "open" /\ f.cur # k
    BY <1>1, <1>2, HeldTypes DEF IInv, FramesOK, FrameRec
<1>5. gen'[f.gen] = gen[f.gen]
  <2>1. CASE \E c \in Cursors : inst[c].openIter = f.gen /\ (c = k \/ handle[c].st # "open")
    <3>1. f.op \in CursorOps
      BY <1>3, <1>4, <2>1 DEF FrameGen, NewOps
    <3>2. inst[f.cur].openIter = f.gen /\ f.gen # None
      BY <1>2, <1>3, <3>1, HeldTypes DEF FrameGen
    <3> QED
      BY <1>4, <2>1, <3>1, <3>2 DEF Held, HoldersUnique
  <2>2. CASE n < Len(stack) /\ stack[n + 1].gen = f.gen
    <3>1. n + 1 \in 1..Len(stack) /\ n + 1 # i
      BY <1>1, <2>2, HeldTypes
    <3> QED
      BY <1>1, <1>2, <2>2, <3>1, FrameFacts
  <2> QED
    BY <1>2, <1>3, <2>1, <2>2 DEF GensKept, FrameGen
<1>6. f.op \in CursorOps => /\ handle'[f.cur] = handle[f.cur] /\ got'[f.cur] = got[f.cur]
                            /\ inst'[f.cur].firsttime = inst[f.cur].firsttime
    BY <1>4 DEF OthersKept
<1>7. f.op \in {"skip", "filter", "next", "reclose"} => f.op \in CursorOps
    BY DEF CursorOps
<1>8. stack'[i] = f
    BY <1>1, <1>2
<1> QED
    BY <1>3, <1>5, <1>6, <1>7, <1>8 DEF FrameScan

\* A step keeps Reading when it is right for the cursor it answers, for the
\* callback it adds and for the generators waiting behind their schema row.
LEMMA StepReads ==
    ASSUME IInv, Held, Reading, IInv', NEW k \in Cursors \cup {None}, NEW n,
           OthersKept(k), StackKept(k, n), GensKept(k, n),
           \A i \in 1..n : stack[i].cur # k \/ k = None,
           n < Len(stack') => FrameScan(stack[n + 1])',
           SchemaRead',
           k # None =>
              /\ handle'[k].st = "open" => ScanState(k)'
              /\ handle'[k].st = "fresh" => got'[k] = <<>>
              /\ Plain(got'[k]) \/ LastTwice(got'[k])
    PROVE  Reading'
<1>1. ScansOK'
  <2> SUFFICES ASSUME NEW c \in Cursors
               PROVE  /\ handle'[c].st = "open" => ScanState(c)'
                      /\ handle'[c].st = "fresh" => got'[c] = <<>>
    BY DEF ScansOK
  <2>1. CASE c = k
    BY <2>1, HeldTypes
  <2>2. CASE c # k
    <3>1. handle'[c].st = "open" => ScanState(c)'
      BY <2>2, OthersScan DEF Reading
    <3>2. handle'[c].st = "fresh" => got'[c] = <<>>
      BY <2>2 DEF Reading, ScansOK, OthersKept
    <3> QED
      BY <3>1, <3>2
  <2> QED
    BY <2>1, <2>2
<1>2. FramesScan'
  <2>1. \A i \in 1..n : FrameScan(stack[i])'
    BY OthersFrames DEF Reading
  <2>2. Len(stack') \in Nat /\ n \in Nat /\ Len(stack') <= n + 1
    BY EmptySeq DEF StackKept, IInv, TypeOK
  <2> SUFFICES ASSUME NEW i \in 1..Len(stack')
               PROVE  FrameScan(stack[i])'
    BY DEF FramesScan
  <2>3. i \in 1..n \/ (i = n + 1 /\ n < Len(stack'))
    BY <2>2
  <2> QED
    BY <2>1, <2>3
<1>3. RowsInOrder'
  <2> SUFFICES ASSUME NEW c \in Cursors, NEW j \in 1..Len(got'[c])
               PROVE  \/ got'[c][j] = j
                      \/ j > 1 /\ j = Len(got'[c]) /\ got'[c][j] = j - 1
    BY DEF RowsInOrder
  <2>1. CASE c = k
    <3>1. PICK s \in Seq(Nat) : s = got'[c]
      BY DEF IInv, TypeOK
    <3>2. Plain(s) \/ LastTwice(s)
      BY <2>1, <3>1, HeldTypes
    <3>3. j \in 1..Len(s) /\ Len(s) \in Nat
      BY <3>1
    <3>4. s[j] = j \/ (j > 1 /\ j = Len(s) /\ s[j] = j - 1)
      BY <3>2, <3>3 DEF Plain, LastTwice
    <3> QED
      BY <3>1, <3>4
  <2>2. CASE c # k
    BY <2>2 DEF Reading, RowsInOrder, OthersKept
  <2> QED
    BY <2>1, <2>2
<1> QED
    BY <1>1, <1>2, <1>3 DEF Reading

\* A generator waiting behind its schema row is nobody's else.
LEMMA SchemaKept ==
    ASSUME IInv, Held, SchemaRead, NEW k, NEW n, StackKept(k, n), GensKept(k, n),
           \A t \in Tables : openedIter'[t] \in {openedIter[t], None}
    PROVE  SchemaRead'
<1> SUFFICES ASSUME NEW t \in Tables, openedIter'[t] # None
             PROVE  gen'[openedIter'[t]] = [st |-> "suspended", tab |-> t, pos |-> 1]
    BY DEF SchemaRead
<1>1. PICK g \in Gens : g = openedIter[t] /\ g # None
    BY HeldTypes
<1>2. openedIter'[t] = g
    BY <1>1
<1>3. gen[g] = [st |-> "suspended", tab |-> t, pos |-> 1]
    BY <1>1 DEF SchemaRead
<1>4. \A c \in Cursors : inst[c].openIter # g
    BY <1>1 DEF Held, HoldersUnique
<1>5. CASE n < Len(stack) /\ stack[n + 1].gen = g
  <2>1. n + 1 \in 1..Len(stack)
    BY <1>5, HeldTypes DEF StackKept
  <2>2. gen[g].st = "running"
    BY <1>5, <2>1, FrameFacts DEF FrameGen
  <2> QED
    BY <1>3, <2>2
<1> QED
    BY <1>2, <1>3, <1>4, <1>5 DEF GensKept

\* What a step may do to the row of the cursor it answers.
RowPrivate(c) ==
    handle[c].st = "open" /\ inst'[c].row # inst[c].row =>
        got'[c] # got[c] \/ handle'[c].scan # handle[c].scan

\* What it may do to a cursor's scan, as TableScan has it.
Moves(c) ==
    \/ Phase(c)' = Phase(c) /\ got'[c] = got[c] /\ handle'[c].tab = handle[c].tab
    \/ /\ Phase(c) = "unused" /\ Phase(c)' = "idle"
       /\ got'[c] = got[c] /\ handle'[c].tab \in Tables
    \/ /\ Phase(c) \in {"idle", "row", "eof"} /\ Phase(c)' = "idle"
       /\ got'[c] = <<>> /\ handle'[c].tab = handle[c].tab
    \/ /\ Phase(c) \in {"idle", "row"} /\ Phase(c)' = "row"
       /\ Len(got[c]) < RowCount[handle[c].tab]
       /\ got'[c] = Append(got[c], Len(got[c]) + 1) /\ handle'[c].tab = handle[c].tab
    \/ /\ Phase(c) \in {"idle", "row"} /\ Phase(c)' = "eof"
       /\ Len(got[c]) = RowCount[handle[c].tab]
       /\ got'[c] = got[c] /\ handle'[c].tab = handle[c].tab
    \/ /\ Phase(c) \in {"idle", "row", "eof"} /\ Phase(c)' = "closed"
       /\ got'[c] = got[c] /\ handle'[c].tab = handle[c].tab

\* The step answers cursor k and no other, and k's scan moves on.
OneScan(k) ==
    /\ OthersKept(k) /\ \E n : StackKept(k, n)
    /\ k # None => RowPrivate(k) /\ (Faults = {} => Moves(k))

\* The callbacks a scan begins with.
FilterOps == {"reclose", "skip", "filter"}

\* The stack when a callback of a cursor that waits for nothing starts.
LEMMA CallStack ==
    ASSUME IInv, NEW c \in Cursors, \A i \in 1..Len(stack) : stack[i].cur # c,
           NEW f \in FrameRec, f.cur = c, Push(f)
    PROVE  \E n \in Nat :
              /\ StackKept(c, n) /\ n = Len(stack) /\ n < Len(stack')
              /\ stack'[n + 1] = f
              /\ \A i \in 1..n : stack[i].cur # c
              /\ ~Filtering(c) /\ (Filtering(c)' <=> f.op \in FilterOps)
<1>1. /\ Len(stack) \in Nat /\ Len(stack') = Len(stack) + 1
      /\ stack'[Len(stack) + 1] = f
      /\ \A i \in 1..Len(stack) : stack'[i] = stack[i]
    BY PushFacts DEF IInv, TypeOK
<1>2. PICK n \in Nat : n = Len(stack)
    BY <1>1
<1>3. StackKept(c, n)
    BY <1>1, <1>2 DEF StackKept
<1>4. ~Filtering(c)
    BY DEF Filtering
<1>5. Filtering(c)' <=> f.op \in FilterOps
  <2>1. \A i \in 1..Len(stack') : stack'[i].cur = c <=> i = n + 1
    BY <1>1, <1>2
  <2>2. n + 1 \in 1..Len(stack') /\ stack'[n + 1] = f
    BY <1>1, <1>2
  <2> QED
    BY <2>1, <2>2 DEF Filtering, FilterOps
<1> QED
    BY <1>1, <1>2, <1>3, <1>4, <1>5

\* A number above zero has one before it.
LEMMA OneLess == \A m \in Nat \ {0} : \E n \in Nat : n = m - 1
OBVIOUS

\* The stack when a callback of a cursor returns ...
LEMMA ReturnStack ==
    ASSUME IInv, stack # <<>>, NEW c \in Cursors, Top.cur = c, Pop
    PROVE  \E n \in Nat :
              /\ StackKept(c, n) /\ n < Len(stack) /\ ~(n < Len(stack'))
              /\ stack[n + 1] = Top
              /\ \A i \in 1..n : stack[i].cur # c
              /\ ~Filtering(c)' /\ (Filtering(c) <=> Top.op \in FilterOps)
<1>1. /\ Len(stack) \in Nat \ {0} /\ Len(stack') = Len(stack) - 1
      /\ \A i \in 1..(Len(stack) - 1) : stack'[i] = stack[i]
    BY PopFacts DEF IInv, TypeOK
<1>2. PICK n \in Nat : n = Len(stack) - 1
    BY <1>1, OneLess
<1>3. stack[n + 1] = Top /\ n + 1 = Len(stack)
    BY <1>1, <1>2 DEF Top
<1>4. \A i \in 1..n : stack[i].cur # c
    BY <1>2, <1>3, TopFacts, HeldTypes
<1>5. StackKept(c, n)
    BY <1>1, <1>2, <1>3 DEF StackKept
<1>6. ~Filtering(c)'
    BY <1>1, <1>2, <1>4 DEF Filtering
<1>7. Filtering(c) <=> Top.op \in FilterOps
  <2>1. \A i \in 1..Len(stack) : stack[i].cur = c <=> i = n + 1
    BY <1>1, <1>2, <1>3, <1>4
  <2> QED
    BY <1>1, <1>3, <2>1 DEF Filtering, FilterOps
<1> QED
    BY <1>1, <1>2, <1>3, <1>4, <1>5, <1>6, <1>7

\* ... or resumes another generator.
LEMMA SwapStack ==
    ASSUME IInv, stack # <<>>, NEW c \in Cursors, Top.cur = c,
           NEW f \in FrameRec, f.cur = c, Swap(f)
    PROVE  \E n \in Nat :
              /\ StackKept(c, n) /\ n < Len(stack) /\ n < Len(stack')
              /\ stack[n + 1] = Top /\ stack'[n + 1] = f
              /\ \A i \in 1..n : stack[i].cur # c
              /\ (Filtering(c) <=> Top.op \in FilterOps)
              /\ (Filtering(c)' <=> f.op \in FilterOps)
<1>1. /\ Len(stack) \in Nat \ {0} /\ Len(stack') = Len(stack)
      /\ stack'[Len(stack)] = f
      /\ \A i \in 1..(Len(stack) - 1) : stack'[i] = stack[i]
    BY SwapFacts DEF IInv, TypeOK
<1>2. PICK n \in Nat : n = Len(stack) - 1
    BY <1>1, OneLess
<1>3. stack[n + 1] = Top /\ n + 1 = Len(stack) /\ stack'[n + 1] = f
    BY <1>1, <1>2 DEF Top
<1>4. \A i \in 1..n : stack[i].cur # c
    BY <1>2, <1>3, TopFacts, HeldTypes
<1>5. StackKept(c, n)
    BY <1>1, <1>2, <1>3 DEF StackKept
<1>6. Filtering(c)' <=> f.op \in FilterOps
  <2>1. \A i \in 1..Len(stack') : stack'[i].cur = c <=> i = n + 1
    BY <1>1, <1>2, <1>3, <1>4
  <2> QED
    BY <1>1, <1>3, <2>1 DEF Filtering, FilterOps
<1>7. Filtering(c) <=> Top.op \in FilterOps
  <2>1. \A i \in 1..Len(stack) : stack[i].cur = c <=> i = n + 1
    BY <1>1, <1>2, <1>3, <1>4
  <2> QED
    BY <1>1, <1>3, <2>1 DEF Filtering, FilterOps
<1> QED
    BY <1>1, <1>2, <1>3, <1>4, <1>5, <1>6, <1>7

\* The stack when nothing waits or returns.
LEMMA StillStack ==
    ASSUME IInv, NEW k, UNCHANGED stack
    PROVE  /\ StackKept(k, Len(stack)) /\ ~(Len(stack) < Len(stack'))
           /\ \A c \in Cursors : Filtering(c)' <=> Filtering(c)
BY HeldTypes DEF StackKept, Filtering

\* What SQLite has after an answer.
LEMMA Answered ==
    ASSUME IInv, NEW c \in Cursors, NEW r \in InstRec, Answer(c, c, r),
           r.iterNext = inst[c].iterNext
    PROVE  /\ OthersKept(c) /\ inst'[c] = r
           /\ handle'[c].st = handle[c].st /\ handle'[c].tab = handle[c].tab
           /\ handle'[c].scan = (IF r.eof THEN "eof" ELSE "row")
           /\ got'[c] = IF r.eof THEN got[c] ELSE Append(got[c], r.row)
<1>1. /\ inst \in [Cursors -> InstRec] /\ handle \in [Cursors -> HandleRec]
      /\ got \in [Cursors -> Seq(Nat)]
    BY DEF IInv, TypeOK
<1>2. /\ inst' = [inst EXCEPT ![c] = r]
      /\ handle' = [handle EXCEPT ![c].scan = IF r.eof THEN "eof" ELSE "row"]
      /\ got' = [got EXCEPT ![c] = IF r.eof THEN @ ELSE Append(@, r.row)]
    BY DEF Answer
<1>3. /\ handle'[c].st = handle[c].st /\ handle'[c].tab = handle[c].tab
      /\ handle'[c].scan = (IF r.eof THEN "eof" ELSE "row")
      /\ \A d \in Cursors : d # c => handle'[d] = handle[d]
    BY <1>1, <1>2 DEF HandleRec
<1>4. /\ inst'[c] = r /\ got'[c] = IF r.eof THEN got[c] ELSE Append(got[c], r.row)
      /\ \A d \in Cursors : d # c => inst'[d] = inst[d] /\ got'[d] = got[d]
    BY <1>1, <1>2
<1> QED
    BY <1>3, <1>4 DEF OthersKept

\* What SQLite has after an error.
LEMMA FailedScan ==
    ASSUME IInv, NEW c \in Cursors, Fail(c)
    PROVE  /\ handle'[c].st = handle[c].st /\ handle'[c].tab = handle[c].tab
           /\ handle'[c].scan = "failed"
           /\ \A d \in Cursors : d # c => handle'[d] = handle[d]
BY DEF Fail, IInv, TypeOK, HandleRec

\* A callback that resumes the generator its cursor holds.
LEMMA ResumeGens ==
    ASSUME IInv, NEW c \in Cursors, NEW g \in Gens, NEW n, inst[c].openIter = g,
           gen[g].st = "suspended", gen' = [gen EXCEPT ![g].st = "running"]
    PROVE  /\ GensKept(c, n) /\ gen'[g].tab = gen[g].tab /\ gen'[g].pos = gen[g].pos
           /\ gen'[g].st = "running"
<1>1. gen \in [Gens -> GenRec]
    BY HeldTypes
<1>2. gen'[g].tab = gen[g].tab /\ gen'[g].pos = gen[g].pos /\ gen'[g].st = "running"
    BY <1>1 DEF GenRec
<1>3. \A h \in Gens : h # g => gen'[h] = gen[h]
    BY <1>1
<1> QED
    BY <1>2, <1>3 DEF GensKept, CanRun

\* A frame is what it is made of.
LEMMA FrameParts ==
    ASSUME NEW op \in TableOps \cup {"open"} \cup CursorOps, NEW t \in Tables,
           NEW c \in Cursors \cup {None}, NEW g \in Gens
    PROVE  /\ Frame(op, t, c, g) \in FrameRec
           /\ Frame(op, t, c, g).op = op /\ Frame(op, t, c, g).tab = t
           /\ Frame(op, t, c, g).cur = c /\ Frame(op, t, c, g).gen = g
BY DEF Frame, FrameRec

\* What a cursor has read, in the two forms the proofs need.
LEMMA ReadSoFar ==
    ASSUME IInv, Reading, NEW c \in Cursors
    PROVE  Plain(got[c]) \/ LastTwice(got[c])
<1>1. PICK s \in Seq(Nat) : s = got[c]
    BY DEF IInv, TypeOK
<1>2. Len(s) \in Nat /\ \A j \in 1..Len(s) : s[j] = j \/ (j > 1 /\ j = Len(s) /\ s[j] = j - 1)
    BY <1>1 DEF Reading, RowsInOrder
<1>3. Plain(s) \/ LastTwice(s)
    BY <1>2 DEF Plain, LastTwice
<1> QED
    BY <1>1, <1>3

\* A call whose frame waits for the generator its cursor holds: what is left to
\* show is about the cursor and the new frame.
LEMMA ResumeReads ==
    ASSUME IInv, Held, Reading, IInv', NEW c \in Cursors, Ready(c),
           NEW op \in CursorOps, NEW g \in Gens, inst[c].openIter = g, Suspended(g),
           Push(Frame(op, handle[c].tab, c, g)), gen' = [gen EXCEPT ![g].st = "running"],
           UNCHANGED <<openedIter, handle>>,
           \A d \in Cursors : d # c => inst'[d] = inst[d] /\ got'[d] = got[d],
           inst'[c].iterNext = inst[c].iterNext, inst'[c].row = inst[c].row,
           got'[c] = <<>> \/ (got'[c] = got[c] /\ op \notin FilterOps),
           \/ op \in {"next", "close"} /\ inst'[c].firsttime = inst[c].firsttime
                /\ inst'[c].eof = inst[c].eof /\ got'[c] = got[c]
                /\ (op = "next" => handle[c].scan = "row" /\ ~inst[c].firsttime)
           \/ /\ op \in FilterOps /\ ~inst'[c].firsttime /\ got'[c] = <<>>
              /\ handle[c].scan # "failed"
              /\ op = "filter" => gen[g].pos = 1
              /\ op # "skip"
    PROVE  Reading' /\ OneScan(c)
<1>1. /\ handle[c].st = "open" /\ handle[c].tab \in Tables
      /\ \A i \in 1..Len(stack) : stack[i].cur # c
    BY CalledCursor
<1>2. PICK t \in Tables : t = handle[c].tab
    BY <1>1
<1>3. PICK f \in FrameRec : f = Frame(op, t, c, g)
    BY <1>2, FrameParts
<1>4. f.op = op /\ f.tab = t /\ f.cur = c /\ f.gen = g /\ Push(f)
    BY <1>2, <1>3, FrameParts
<1>5. PICK n \in Nat :
          /\ StackKept(c, n) /\ n = Len(stack) /\ n < Len(stack')
          /\ stack'[n + 1] = f
          /\ \A i \in 1..n : stack[i].cur # c
          /\ ~Filtering(c) /\ (Filtering(c)' <=> f.op \in FilterOps)
    BY <1>1, <1>4, CallStack
<1>6. /\ GensKept(c, n) /\ gen'[g].tab = gen[g].tab /\ gen'[g].pos = gen[g].pos
      /\ gen'[g].st = "running" /\ gen[g].st = "suspended"
    BY ResumeGens DEF Suspended
<1>7. OthersKept(c)
    BY DEF OthersKept
<1>8. ScanState(c) /\ SchemaRead /\ inst[c].iterNext = g
    BY <1>1, HeldTypes DEF Reading, ScansOK, Held, HeldIsNext
<1>9. SchemaRead'
    BY <1>5, <1>6, <1>8, SchemaKept
<1>10. FrameScan(stack[n + 1])'
    BY <1>2, <1>4, <1>5, <1>6, <1>8 DEF FrameScan, ScanState, FilterOps
<1>11. ScanState(c)'
  <2>1. CASE op \in FilterOps /\ ~inst'[c].firsttime
    BY <1>4, <1>5, <1>6, <1>8, <2>1 DEF ScanState
  <2>2. CASE /\ op \in {"next", "close"} /\ inst'[c].firsttime = inst[c].firsttime
             /\ inst'[c].eof = inst[c].eof /\ got'[c] = got[c]
    <3>1. OnRow(c) => OnRow(c)'
      BY <1>6, <1>8, <2>2 DEF OnRow, Shut, CanRun
    <3>2. AtEnd(c) => AtEnd(c)'
      BY <1>6, <1>8, <2>2 DEF AtEnd, Shut
    <3> QED
      BY <1>5, <1>6, <1>8, <2>2, <3>1, <3>2 DEF ScanState, Shut, CanRun
  <2> QED
    BY <2>1, <2>2
<1>12. Plain(got'[c]) \/ LastTwice(got'[c])
  <2>1. CASE got'[c] = <<>>
    BY <2>1 DEF Plain
  <2>2. CASE got'[c] = got[c]
    BY <2>2, ReadSoFar
  <2> QED
    BY <2>1, <2>2
<1>13. Reading'
    BY <1>1, <1>5, <1>6, <1>7, <1>9, <1>10, <1>11, <1>12, StepReads
<1>14. RowPrivate(c)
    BY DEF RowPrivate
<1>15. Faults = {} => Moves(c)
  <2>1. handle[c].scan \in {"idle", "row", "eof", "failed"}
    BY DEF IInv, TypeOK, HandleRec
  <2>2. Faults = {} => handle[c].scan # "failed"
    BY <1>8 DEF ScanState
  <2>3. Phase(c) = handle[c].scan
    BY <1>1, <1>5 DEF Phase
  <2>4. Phase(c)' = IF op \in FilterOps THEN "idle" ELSE handle[c].scan
    BY <1>1, <1>4, <1>5 DEF Phase
  <2>5. op \in FilterOps => got'[c] = <<>>
    OBVIOUS
  <2>6. op \notin FilterOps => got'[c] = got[c]
    OBVIOUS
  <2> QED
    BY <2>1, <2>2, <2>3, <2>4, <2>5, <2>6 DEF Moves
<1> QED
    BY <1>5, <1>7, <1>13, <1>14, <1>15, HeldTypes DEF OneScan

\* xFilter, xNext and xClose resume the generator the cursor holds.
LEMMA CallsRead ==
    ASSUME IInv, Held, Reading, IInv', NEW c \in Cursors,
           FilterFirst(c) \/ FilterAgain(c) \/ Next_(c) \/ Close(c)
    PROVE  Reading' /\ OneScan(c)
<1>1. Ready(c)
    BY DEF FilterFirst, FilterAgain, Next_, Close, MayFilter, MayStep
<1>2. /\ handle[c].st = "open" /\ handle[c].tab \in Tables /\ InstOf(c) = c
    BY <1>1, CalledCursor
<1>3. inst \in [Cursors -> InstRec] /\ got \in [Cursors -> Seq(Nat)]
    BY DEF IInv, TypeOK
<1>4. ScanState(c)
    BY <1>2 DEF Reading, ScansOK
<1>5. ASSUME NEW g, Suspended(g), g = inst[c].iterNext \/ g = inst[c].openIter
      PROVE  g \in Gens /\ inst[c].openIter = g
    BY <1>5, HeldTypes DEF Suspended, Held, NextIsHeld, CanRun
<1>6. CASE FilterFirst(c)
  <2>1. PICK g : g = inst[c].iterNext
    OBVIOUS
  <2>2. /\ inst[c].firsttime /\ Suspended(g) /\ handle[c].scan # "failed"
        /\ inst' = [inst EXCEPT ![c].firsttime = FALSE, ![c].eof = FALSE]
        /\ gen' = [gen EXCEPT ![g].st = "running"]
        /\ got' = [got EXCEPT ![c] = <<>>]
        /\ Push(Frame("filter", handle[c].tab, c, g))
        /\ UNCHANGED <<openedIter, handle>>
    BY <1>2, <1>6, <2>1 DEF FilterFirst, MayFilter
  <2>3. g \in Gens /\ inst[c].openIter = g /\ gen[g].pos = 1
    BY <1>4, <1>5, <2>1, <2>2 DEF ScanState, Shut, Suspended
  <2>4. /\ \A d \in Cursors : d # c => inst'[d] = inst[d] /\ got'[d] = got[d]
        /\ inst'[c].iterNext = inst[c].iterNext /\ inst'[c].row = inst[c].row
        /\ ~inst'[c].firsttime /\ got'[c] = <<>>
    BY <1>3, <2>2 DEF InstRec
  <2> QED
    BY <1>1, <2>2, <2>3, <2>4, ResumeReads DEF CursorOps, FilterOps
<1>7. CASE FilterAgain(c)
  <2>1. PICK g : g = inst[c].openIter
    OBVIOUS
  <2>2. /\ ~inst[c].firsttime /\ Suspended(g) /\ handle[c].scan # "failed"
        /\ inst' = [inst EXCEPT ![c].eof = FALSE]
        /\ gen' = [gen EXCEPT ![g].st = "running"]
        /\ got' = [got EXCEPT ![c] = <<>>]
        /\ Push(Frame("reclose", handle[c].tab, c, g))
        /\ UNCHANGED <<openedIter, handle>>
    BY <1>2, <1>7, <2>1 DEF FilterAgain, MayFilter
  <2>3. g \in Gens /\ inst[c].openIter = g
    BY <1>5, <2>1, <2>2
  <2>4. /\ \A d \in Cursors : d # c => inst'[d] = inst[d] /\ got'[d] = got[d]
        /\ inst'[c].iterNext = inst[c].iterNext /\ inst'[c].row = inst[c].row
        /\ ~inst'[c].firsttime /\ got'[c] = <<>>
    BY <1>3, <2>2 DEF InstRec
  <2> QED
    BY <1>1, <2>2, <2>3, <2>4, ResumeReads DEF CursorOps, FilterOps
<1>8. CASE Next_(c)
  <2>1. PICK g : g = inst[c].iterNext
    OBVIOUS
  <2>2. /\ Suspended(g) /\ handle[c].scan = "row"
        /\ gen' = [gen EXCEPT ![g].st = "running"]
        /\ Push(Frame("next", handle[c].tab, c, g))
        /\ UNCHANGED <<openedIter, handle, inst, got>>
    BY <1>2, <1>8, <2>1 DEF Next_, MayStep
  <2>3. g \in Gens /\ inst[c].openIter = g /\ ~inst[c].firsttime
    BY <1>4, <1>5, <2>1, <2>2 DEF ScanState
  <2> QED
    BY <1>1, <2>2, <2>3, ResumeReads DEF CursorOps, FilterOps
<1>9. CASE Close(c)
  <2>1. PICK g : g = inst[c].openIter
    OBVIOUS
  <2>2. /\ Suspended(g)
        /\ gen' = [gen EXCEPT ![g].st = "running"]
        /\ Push(Frame("close", handle[c].tab, c, g))
        /\ UNCHANGED <<openedIter, handle, inst, got>>
    BY <1>2, <1>9, <2>1 DEF Close
  <2>3. g \in Gens /\ inst[c].openIter = g
    BY <1>5, <2>1, <2>2
  <2> QED
    BY <1>1, <2>2, <2>3, ResumeReads DEF CursorOps, FilterOps
<1> QED
    BY <1>6, <1>7, <1>8, <1>9

\* Closing one generator and starting another touches nobody else's.
LEMMA StartGens ==
    ASSUME IInv, NEW c \in Cursors, NEW n \in Nat,
           NEW h \in Gens, gen[h].st = "unborn", NEW t \in Tables,
           \A g \in Gens \ {h} : gen'[g] = gen[g] \/ (CanRun(g) /\ inst[c].openIter = g),
           gen'[h] = Started(t)
    PROVE  /\ GensKept(c, n) /\ gen'[h].tab = t /\ gen'[h].pos = 0 /\ gen'[h].st = "running"
BY DEF GensKept, Started

\* What StartOver makes of the instance.
LEMMA StartedOver ==
    ASSUME IInv, NEW c \in Cursors, NEW g \in Gens, StartOver(c, g)
    PROVE  /\ \A d \in Cursors : d # c => inst'[d] = inst[d]
           /\ inst'[c].openIter = g /\ inst'[c].iterNext = g /\ inst'[c].row = inst[c].row
           /\ inst'[c].firsttime = inst[c].firsttime
<1>1. inst \in [Cursors -> InstRec]
    BY DEF IInv, TypeOK
<1> QED
    BY <1>1 DEF StartOver, InstRec

\* A scan starts over with a generator of its own: the frame on top is now
\* the one that skips the schema row.
LEMMA SkipReads ==
    ASSUME IInv, Held, Reading, IInv', NEW c \in Cursors, NEW n \in Nat,
           NEW t \in Tables, NEW h \in Gens, gen[h].st = "unborn",
           handle[c].st = "open", handle[c].tab = t, handle[c].scan # "failed",
           ~inst[c].firsttime, StartOver(c, h),
           gen'[h] = Started(t),
           \A g \in Gens \ {h} : gen'[g] = gen[g] \/ (CanRun(g) /\ inst[c].openIter = g),
           UNCHANGED <<openedIter, handle>>,
           got' = [got EXCEPT ![c] = <<>>],
           StackKept(c, n), n < Len(stack'), stack'[n + 1] = Frame("skip", t, c, h),
           \A i \in 1..n : stack[i].cur # c,
           Filtering(c)'
    PROVE  Reading' /\ OneScan(c)
<1>1. GensKept(c, n) /\ gen'[h].tab = t /\ gen'[h].pos = 0 /\ gen'[h].st = "running"
    BY StartGens
<1>2. /\ \A d \in Cursors : d # c => inst'[d] = inst[d]
      /\ inst'[c].openIter = h /\ inst'[c].iterNext = h /\ inst'[c].row = inst[c].row
      /\ inst'[c].firsttime = inst[c].firsttime
    BY StartedOver
<1>3. got'[c] = <<>> /\ \A d \in Cursors : d # c => got'[d] = got[d]
    BY DEF IInv, TypeOK
<1>4. OthersKept(c)
    BY <1>2, <1>3 DEF OthersKept
<1>5. ScanState(c) /\ SchemaRead
    BY DEF Reading, ScansOK
<1>6. SchemaRead'
    BY <1>1, <1>5, SchemaKept
<1>7. PICK f \in FrameRec :
          f = Frame("skip", t, c, h) /\ f.op = "skip" /\ f.tab = t /\ f.cur = c /\ f.gen = h
  <2>1. "skip" \in TableOps \cup {"open"} \cup CursorOps
    BY DEF CursorOps
  <2> QED
    BY <2>1, FrameParts
<1>8. FrameScan(stack[n + 1])'
    BY <1>1, <1>2, <1>3, <1>7 DEF FrameScan
<1>9. ScanState(c)'
    BY <1>1, <1>2, <1>3, <1>5 DEF ScanState
<1>10. Plain(got'[c])
    BY <1>3 DEF Plain
<1>11. Reading'
    BY <1>1, <1>4, <1>6, <1>8, <1>9, <1>10, StepReads
<1>12. RowPrivate(c)
    BY <1>2 DEF RowPrivate
<1>13. Faults = {} => Moves(c)
  <2>1. handle[c].scan \in {"idle", "row", "eof"}
    BY DEF IInv, TypeOK, HandleRec
  <2>2. Phase(c) \in {"idle", "row", "eof"} /\ Phase(c)' = "idle"
    BY <2>1 DEF Phase
  <2> QED
    BY <1>3, <2>2 DEF Moves
<1> QED
    BY <1>4, <1>11, <1>12, <1>13 DEF OneScan

\* xFilter starts a generator for a new scan.
LEMMA RestartReads ==
    ASSUME IInv, Held, Reading, IInv', NEW c \in Cursors, FilterRestart(c)
    PROVE  Reading' /\ OneScan(c)
<1>1. Ready(c) /\ handle[c].scan # "failed"
    BY DEF FilterRestart, MayFilter
<1>2. /\ handle[c].st = "open" /\ handle[c].tab \in Tables /\ InstOf(c) = c
      /\ \A i \in 1..Len(stack) : stack[i].cur # c
    BY <1>1, CalledCursor
<1>3. PICK t \in Tables : t = handle[c].tab
    BY <1>2
<1>4. PICK h \in Gens : /\ gen[h].st = "unborn"
                       /\ gen' = [gen EXCEPT ![h] = Started(t)]
                       /\ StartOver(c, h)
                       /\ Push(Frame("skip", t, c, h))
    BY <1>2, <1>3 DEF FilterRestart, Fresh
<1>5. /\ ~inst[c].firsttime /\ UNCHANGED <<openedIter, handle>>
      /\ got' = [got EXCEPT ![c] = <<>>]
    BY <1>2 DEF FilterRestart
<1>6. PICK f \in FrameRec :
          f = Frame("skip", t, c, h) /\ f.op = "skip" /\ f.tab = t /\ f.cur = c /\ f.gen = h
  <2>1. "skip" \in TableOps \cup {"open"} \cup CursorOps
    BY DEF CursorOps
  <2> QED
    BY <2>1, FrameParts
<1>7. PICK n \in Nat :
          /\ StackKept(c, n) /\ n < Len(stack') /\ stack'[n + 1] = f
          /\ \A i \in 1..n : stack[i].cur # c
          /\ Filtering(c)'
  <2>1. Push(f)
    BY <1>4, <1>6
  <2> QED
    BY <1>2, <1>6, <2>1, CallStack DEF FilterOps
<1>8. gen'[h] = Started(t) /\ \A g \in Gens \ {h} : gen'[g] = gen[g]
    BY <1>4, HeldTypes
<1> QED
    BY <1>1, <1>2, <1>3, <1>4, <1>5, <1>6, <1>7, <1>8, SkipReads

\* The calls of xFilter, xNext and xClose that find the generator finished.
LEMMA FinishedRead ==
    ASSUME IInv, Held, Reading, IInv', NEW c \in Cursors,
           FilterClosed(c) \/ NextFinished(c) \/ CloseFinished(c)
    PROVE  Reading' /\ OneScan(c)
<1>1. Ready(c)
    BY DEF FilterClosed, NextFinished, CloseFinished, MayFilter, MayStep
<1>2. /\ handle[c].st = "open" /\ InstOf(c) = c
      /\ \A i \in 1..Len(stack) : stack[i].cur # c
    BY <1>1, CalledCursor
<1>3. /\ inst \in [Cursors -> InstRec] /\ handle \in [Cursors -> HandleRec]
      /\ got \in [Cursors -> Seq(Nat)]
    BY DEF IInv, TypeOK
<1>4. /\ UNCHANGED <<openedIter, gen, stack>>
    BY DEF FilterClosed, NextFinished, CloseFinished
<1>5. PICK n \in Nat :
        /\ StackKept(c, n) /\ ~(n < Len(stack')) /\ n = Len(stack)
        /\ \A d \in Cursors : Filtering(d)' <=> Filtering(d)
    BY <1>4, StillStack, HeldTypes
<1>6. GensKept(c, n)
    BY <1>4 DEF GensKept
<1>7. ScanState(c) /\ SchemaRead /\ ~Filtering(c) /\ ~Filtering(c)'
    BY <1>2, <1>5 DEF Reading, ScansOK, Filtering
<1>8. SchemaRead'
    BY <1>4, <1>5, <1>6, <1>7, SchemaKept
<1>9. PICK g \in Gens : g = inst[c].iterNext
    BY <1>7 DEF ScanState
<1>10. gen[g].st # "running"
    BY <1>2, <1>9, IdleGen, HeldTypes DEF Held, NextIsHeld, CanRun
<1>11. ~Suspended(g) => ~CanRun(g)
    BY <1>9, <1>10, HeldTypes DEF Suspended, CanRun
<1>12. CASE FilterClosed(c)
  <2>1. /\ inst[c].firsttime /\ ~Suspended(g)
        /\ inst' = [inst EXCEPT ![c] = [Exhausted(c) EXCEPT !.firsttime = FALSE]]
        /\ handle' = [handle EXCEPT ![c].scan = "eof"]
        /\ got' = [got EXCEPT ![c] = <<>>]
    BY <1>2, <1>9, <1>12 DEF FilterClosed
  <2>2. Shut(g) /\ inst[c].row = 0
    BY <1>7, <1>9, <1>11, <2>1 DEF ScanState
  <2>3. PICK r : /\ r = [Exhausted(c) EXCEPT !.firsttime = FALSE]
                 /\ r.iterNext = g /\ r.row = 0 /\ ~r.firsttime
    <3>1. inst[c] \in InstRec
      BY <1>3
    <3>2. /\ [Exhausted(c) EXCEPT !.firsttime = FALSE].iterNext = g
          /\ [Exhausted(c) EXCEPT !.firsttime = FALSE].row = 0
          /\ ~[Exhausted(c) EXCEPT !.firsttime = FALSE].firsttime
      BY <1>9, <3>1 DEF Exhausted, InstRec
    <3> QED
      BY <3>2
  <2>4. /\ inst'[c].iterNext = g /\ inst'[c].row = 0 /\ ~inst'[c].firsttime
        /\ \A d \in Cursors : d # c => inst'[d] = inst[d]
    BY <1>3, <2>1, <2>3
  <2>5. /\ handle'[c].st = "open" /\ handle'[c].tab = handle[c].tab /\ handle'[c].scan = "eof"
        /\ \A d \in Cursors : d # c => handle'[d] = handle[d]
        /\ got'[c] = <<>> /\ \A d \in Cursors : d # c => got'[d] = got[d]
    BY <1>2, <1>3, <2>1 DEF HandleRec
  <2>6. OthersKept(c)
    BY <2>4, <2>5 DEF OthersKept
  <2>7. ScanState(c)'
    BY <1>4, <1>7, <1>9, <2>2, <2>4, <2>5 DEF ScanState, AtEnd, Shut
  <2>8. Plain(got'[c])
    BY <2>5 DEF Plain
  <2>9. Reading'
    BY <1>2, <1>5, <1>6, <1>8, <2>5, <2>6, <2>7, <2>8, StepReads
  <2>10. RowPrivate(c)
    BY <2>2, <2>4 DEF RowPrivate
  <2>11. Faults # {}
    BY <2>2 DEF Shut
  <2> QED
    BY <1>5, <2>6, <2>9, <2>10, <2>11 DEF OneScan
<1>13. CASE NextFinished(c)
  <2>1. handle[c].scan = "row" /\ ~Suspended(g) /\ Answer(c, c, Exhausted(c))
    BY <1>2, <1>9, <1>13 DEF NextFinished, MayStep
  <2>2. ~inst[c].firsttime /\ OnRow(c)
    BY <1>7, <2>1 DEF ScanState
  <2>3. PICK r \in InstRec : /\ r = Exhausted(c) /\ r.eof
                             /\ r.iterNext = g /\ r.row = 0 /\ ~r.firsttime
    BY <1>3, <1>9, <2>2, InstTypes DEF IInv, Exhausted, InstRec
  <2>4. /\ OthersKept(c) /\ inst'[c] = r
        /\ handle'[c].st = "open" /\ handle'[c].tab = handle[c].tab
        /\ handle'[c].scan = "eof" /\ got'[c] = got[c]
    BY <1>2, <1>9, <2>1, <2>3, Answered
  <2>5. Shut(g) \/ (LastTwice(got[c]) /\ gen[g].st = "failed" /\ "error" \in Faults)
    BY <1>9, <1>11, <2>1, <2>2 DEF OnRow
  <2>6. ScanState(c)'
    BY <1>4, <1>7, <1>9, <2>3, <2>4, <2>5 DEF ScanState, AtEnd, Shut
  <2>7. Plain(got'[c]) \/ LastTwice(got'[c])
    BY <2>4, ReadSoFar
  <2>8. Reading'
    BY <1>2, <1>5, <1>6, <1>8, <2>4, <2>6, <2>7, StepReads
  <2>9. RowPrivate(c)
    BY <2>1, <2>4 DEF RowPrivate
  <2>10. Faults # {}
    BY <2>5 DEF Shut
  <2> QED
    BY <1>5, <2>4, <2>8, <2>9, <2>10 DEF OneScan
<1>14. CASE CloseFinished(c)
  <2>1. /\ inst' = [inst EXCEPT ![c].openIter = None]
        /\ handle' = [handle EXCEPT ![c].st = "closed"]
        /\ UNCHANGED got
    BY <1>2, <1>14 DEF CloseFinished
  <2>2. /\ inst'[c].row = inst[c].row /\ \A d \in Cursors : d # c => inst'[d] = inst[d]
        /\ handle'[c].st = "closed" /\ handle'[c].tab = handle[c].tab
        /\ handle'[c].scan = handle[c].scan
        /\ \A d \in Cursors : d # c => handle'[d] = handle[d]
    BY <1>3, <2>1 DEF InstRec, HandleRec
  <2>3. OthersKept(c)
    BY <2>1, <2>2 DEF OthersKept
  <2>4. Plain(got'[c]) \/ LastTwice(got'[c])
    BY <2>1, ReadSoFar
  <2>5. Reading'
    BY <1>2, <1>5, <1>6, <1>8, <2>2, <2>3, <2>4, StepReads
  <2>6. RowPrivate(c)
    BY <2>2 DEF RowPrivate
  <2>7. Faults = {} => Moves(c)
    <3>1. handle[c].scan \in {"idle", "row", "eof", "failed"}
      BY <1>3 DEF HandleRec
    <3>2. Faults = {} => Phase(c) \in {"idle", "row", "eof"}
      BY <1>2, <1>7, <3>1 DEF ScanState, Phase
    <3>3. Phase(c)' = "closed"
      BY <2>2 DEF Phase
    <3> QED
      BY <2>1, <2>2, <3>2, <3>3 DEF Moves
  <2> QED
    BY <1>5, <2>3, <2>5, <2>6, <2>7 DEF OneScan
<1> QED
    BY <1>12, <1>13, <1>14

\* What LTable.Disconnect leaves alone: it closes suspended generators of its
\* own instances, and drops them there.
LEMMA Disconnected ==
    ASSUME IInv, MadeFor, NEW t \in Tables, NEW g \in Gens, DisconnectAll(t, g),
           "interrupt" \in Faults
    PROVE  /\ \A d \in Cursors :
                 /\ inst'[d].iterNext = inst[d].iterNext /\ inst'[d].row = inst[d].row
                 /\ inst'[d].eof = inst[d].eof /\ inst'[d].firsttime = inst[d].firsttime
           /\ gen'[g] = Settled(g, "interrupt")
           /\ \A h \in Gens \ {g} :
                 \/ gen'[h] = gen[h]
                 \/ /\ gen[h].st = "suspended" /\ gen'[h] = Closed(h)
                    /\ \E c \in Cursors : inst[c].openIter = h
<1>. DEFINE cs == cursors[t]
<1>1. inst \in [Cursors -> InstRec] /\ Len(cs) \in Nat /\ cs \in Seq(Cursors)
    BY HeldTypes DEF IInv, TypeOK
<1>2. PICK k \in 0..Len(cs) :
        /\ gen' = [h \in Gens |->
              IF h = g THEN Settled(h, "interrupt")
              ELSE IF /\ Suspended(h)
                      /\ \/ h \in {inst[cs[j]].openIter : j \in 1..k}
                         \/ k < Len(cs) /\ h = inst[cs[k + 1]].openIter
              THEN Closed(h)
              ELSE gen[h]]
        /\ inst' = [c \in Cursors |->
              IF \E j \in 1..k : cs[j] = c THEN [inst[c] EXCEPT !.openIter = None]
              ELSE inst[c]]
    BY DEF DisconnectAll
<1>3. ASSUME NEW d \in Cursors
      PROVE  /\ inst'[d].iterNext = inst[d].iterNext /\ inst'[d].row = inst[d].row
             /\ inst'[d].eof = inst[d].eof /\ inst'[d].firsttime = inst[d].firsttime
  <2>1. inst'[d] = inst[d] \/ inst'[d] = [inst[d] EXCEPT !.openIter = None]
    BY <1>2
  <2>2. inst[d] \in InstRec
    BY <1>1
  <2> QED
    BY <2>1, <2>2 DEF InstRec
<1>4. gen'[g] = Settled(g, "interrupt")
    BY <1>2
<1>5. ASSUME NEW h \in Gens \ {g}
      PROVE  \/ gen'[h] = gen[h]
             \/ /\ gen[h].st = "suspended" /\ gen'[h] = Closed(h)
                /\ \E c \in Cursors : inst[c].openIter = h
  <2>1. CASE /\ Suspended(h)
             /\ \/ h \in {inst[cs[j]].openIter : j \in 1..k}
                \/ k < Len(cs) /\ h = inst[cs[k + 1]].openIter
    <3>1. gen'[h] = Closed(h) /\ gen[h].st = "suspended"
      BY <1>2, <2>1 DEF Suspended
    <3>2. PICK j \in 1..Len(cs) : h = inst[cs[j]].openIter
      BY <1>1, <2>1
    <3>3. cs[j] \in Cursors
      BY <1>1
    <3> QED
      BY <3>1, <3>2, <3>3
  <2>2. CASE ~(/\ Suspended(h)
               /\ \/ h \in {inst[cs[j]].openIter : j \in 1..k}
                  \/ k < Len(cs) /\ h = inst[cs[k + 1]].openIter)
    BY <1>2, <2>2
  <2> QED
    BY <2>1, <2>2
<1> QED
    BY <1>3, <1>4, <1>5

\* A callback of a cursor reports an error to SQLite.
LEMMA FailReads ==
    ASSUME IInv, Held, Reading, IInv', stack # <<>>, Top.op \in CursorOps \ {"close"}, Pop,
           NEW c \in Cursors, c = Top.cur, NEW g \in Gens, g = Top.gen,
           NEW t \in Tables, Fail(c), UNCHANGED <<openedIter, got>>,
           \/ /\ UNCHANGED inst /\ "error" \in Faults
              /\ \/ gen' = [gen EXCEPT ![g] = Closed(g)]
                 \/ \E o : gen' = [gen EXCEPT ![g] = Settled(g, o)]
           \/ UNCHANGED inst /\ "interrupt" \in Faults
                /\ \E o : gen' = [gen EXCEPT ![g] = Settled(g, o)]
           \/ DisconnectAll(t, g) /\ "interrupt" \in Faults
    PROVE  Reading' /\ OneScan(c)
<1>1. PICK n \in Nat :
          /\ StackKept(c, n) /\ n < Len(stack) /\ ~(n < Len(stack'))
          /\ \A i \in 1..n : stack[i].cur # c
    BY ReturnStack
<1>2. /\ handle'[c].st = handle[c].st /\ handle'[c].tab = handle[c].tab
      /\ handle'[c].scan = "failed"
      /\ \A d \in Cursors : d # c => handle'[d] = handle[d]
    BY FailedScan
<1>3. /\ Len(stack) \in 1..Len(stack) /\ Top = stack[Len(stack)]
      /\ handle[c].st = "open"
    BY TopFacts DEF Top, FrameFits
<1>4. /\ gen[g].st = "running" /\ inst[c].openIter = g /\ inst[c].iterNext = g
  <2>1. FrameGen(Top)
    BY <1>3, FrameFacts
  <2> QED
    BY <2>1, HeldTypes DEF FrameGen, Held, HeldIsNext
<1>5. ScanState(c) /\ SchemaRead
    BY <1>3 DEF Reading, ScansOK
<1>6. \A o : Settled(g, o).tab = gen[g].tab
    BY HeldTypes DEF Settled, GenRec
<1>7. Closed(g).tab = gen[g].tab
    BY HeldTypes DEF Closed, GenRec
<1>8. /\ \A d \in Cursors :
            /\ inst'[d].iterNext = inst[d].iterNext /\ inst'[d].row = inst[d].row
            /\ inst'[d].eof = inst[d].eof /\ inst'[d].firsttime = inst[d].firsttime
      /\ gen'[g].tab = gen[g].tab
      /\ \A h \in Gens \ {g} :
            \/ gen'[h] = gen[h]
            \/ /\ gen[h].st = "suspended" /\ gen'[h] = Closed(h) /\ "interrupt" \in Faults
               /\ \E d \in Cursors : inst[d].openIter = h
  <2>1. CASE UNCHANGED inst /\ gen' = [gen EXCEPT ![g] = Closed(g)]
    BY <1>7, <2>1, HeldTypes
  <2>2. CASE UNCHANGED inst /\ \E o : gen' = [gen EXCEPT ![g] = Settled(g, o)]
    BY <1>6, <2>2, HeldTypes
  <2>3. CASE DisconnectAll(t, g) /\ "interrupt" \in Faults
    BY <1>6, <2>3, Disconnected DEF Held
  <2> QED
    BY <2>1, <2>2, <2>3
<1>9. OthersKept(c)
    BY <1>2, <1>8 DEF OthersKept
<1>10. GensKept(c, n)
    BY <1>4, <1>8 DEF GensKept, CanRun
<1>11. SchemaRead'
    BY <1>1, <1>5, <1>10, SchemaKept
<1>12. Faults # {}
    OBVIOUS
<1>13. ScanState(c)'
  <2>1. ~inst'[c].firsttime
    <3>1. FrameScan(Top)
      BY <1>3 DEF Reading, FramesScan
    <3>2. ~inst[c].firsttime
      BY <3>1 DEF FrameScan, CursorOps
    <3> QED
      BY <1>8, <3>2
  <2> QED
    BY <1>2, <1>4, <1>5, <1>8, <1>12, <2>1 DEF ScanState
<1>14. Plain(got'[c]) \/ LastTwice(got'[c])
    BY ReadSoFar
<1>15. Reading'
    BY <1>1, <1>2, <1>3, <1>9, <1>10, <1>11, <1>13, <1>14, StepReads
<1>16. RowPrivate(c)
    BY <1>8 DEF RowPrivate
<1> QED
    BY <1>1, <1>9, <1>12, <1>15, <1>16 DEF OneScan

\* The scan a generator's answer finds: the generator is one row ahead.
LEMMA AnswerFinds ==
    ASSUME IInv, Held, Reading, stack # <<>>, Top.op \in {"next", "filter"},
           NEW c \in Cursors, c = Top.cur, NEW g \in Gens, g = Top.gen,
           Filtering(c) <=> Top.op \in FilterOps
    PROVE  /\ handle[c].st = "open" /\ handle[c].tab \in Tables /\ ~inst[c].firsttime
           /\ gen[g].st = "running" /\ inst[c].openIter = g /\ inst[c].iterNext = g
           /\ gen[g].tab = handle[c].tab
           /\ Plain(got[c]) /\ gen[g].pos = Len(got[c]) + 1
           /\ Len(got[c]) \in Nat /\ Len(got[c]) <= RowCount[handle[c].tab]
           /\ Top.op = "next" => /\ inst[c].row = Len(got[c]) /\ Len(got[c]) > 0
                                 /\ ~inst[c].eof /\ handle[c].scan = "row"
           /\ Phase(c) \in {"idle", "row"}
<1>1. /\ Len(stack) \in 1..Len(stack) /\ Top = stack[Len(stack)] /\ Top.op \in CursorOps
      /\ handle[c].st = "open" /\ handle[c].tab \in Tables
    BY TopFacts DEF Top, FrameFits, CursorOps, IInv, TypeOK
<1>2. FrameScan(Top) /\ FrameGen(Top)
    BY <1>1, FrameFacts DEF Reading, FramesScan
<1>3. /\ gen[g].st = "running" /\ inst[c].openIter = g /\ inst[c].iterNext = g
    BY <1>1, <1>2, HeldTypes DEF FrameGen, Held, HeldIsNext
<1>4. ScanState(c)
    BY <1>1 DEF Reading, ScansOK
<1>5. ~inst[c].firsttime
    BY <1>2 DEF FrameScan
<1>6. RowCount[handle[c].tab] \in Nat
    BY <1>1, ConstantsOK
<1>7. PICK s \in Seq(Nat) : s = got[c] /\ Len(s) \in Nat
    BY DEF IInv, TypeOK
<1>8. CASE Top.op = "filter"
  <2>1. got[c] = <<>> /\ gen[g].pos = 1
    BY <1>2, <1>8 DEF FrameScan
  <2>2. Filtering(c)
    BY <1>8 DEF FilterOps
  <2>3. Phase(c) = "idle"
    BY <1>1, <2>2 DEF Phase
  <2> QED
    BY <1>1, <1>3, <1>4, <1>5, <1>6, <1>8, <2>1, <2>3 DEF ScanState, Plain
<1>9. CASE Top.op = "next"
  <2>1. handle[c].scan = "row" /\ ~Filtering(c)
    BY <1>2, <1>9 DEF FrameScan, FilterOps
  <2>2. OnRow(c)
    BY <1>4, <1>5, <2>1 DEF ScanState
  <2>3. Phase(c) = "row"
    BY <1>1, <2>1 DEF Phase
  <2>4. /\ ~inst[c].eof /\ Len(got[c]) > 0 /\ Plain(got[c]) /\ inst[c].row = Len(got[c])
        /\ gen[g].pos = Len(got[c]) + 1 /\ Len(got[c]) <= RowCount[handle[c].tab]
    BY <1>3, <2>2 DEF OnRow, Shut
  <2> QED
    BY <1>1, <1>3, <1>4, <1>5, <1>7, <1>9, <2>1, <2>3, <2>4 DEF ScanState
<1> QED
    BY <1>8, <1>9

\* One more row, or the same row again, at the end of what was read.
LEMMA ReadMore ==
    ASSUME NEW s \in Seq(Nat), Plain(s)
    PROVE  /\ Plain(Append(s, Len(s) + 1)) /\ Len(Append(s, Len(s) + 1)) = Len(s) + 1
           /\ Len(s) > 0 => LastTwice(Append(s, Len(s)))
           /\ Len(Append(s, Len(s))) = Len(s) + 1
           /\ \A x \in Nat : Append(s, x) # s
BY DEF Plain, LastTwice

\* What the generator's answer makes of it.
LEMMA AnswerMakes ==
    ASSUME IInv, NEW c \in Cursors, NEW g \in Gens
    PROVE  /\ RowOf(c, g) \in InstRec /\ Exhausted(c) \in InstRec /\ inst[c] \in InstRec
           /\ RowOf(c, g).row = gen[g].pos /\ ~RowOf(c, g).eof
           /\ RowOf(c, g).iterNext = inst[c].iterNext
           /\ RowOf(c, g).firsttime = inst[c].firsttime
           /\ Exhausted(c).row = 0 /\ Exhausted(c).eof
           /\ Exhausted(c).iterNext = inst[c].iterNext
           /\ Exhausted(c).firsttime = inst[c].firsttime
           /\ Settled(g, "yield").st = "suspended" /\ Settled(g, "yield").pos = gen[g].pos + 1
           /\ Settled(g, "error").st = "failed"
           /\ \A o : Settled(g, o).tab = gen[g].tab
<1>1. inst[c] \in InstRec /\ gen[g] \in GenRec
    BY DEF IInv, TypeOK
<1>2. RowOf(c, g) \in InstRec /\ Exhausted(c) \in InstRec
    BY InstTypes DEF IInv
<1>3. /\ RowOf(c, g).row = gen[g].pos /\ ~RowOf(c, g).eof
      /\ RowOf(c, g).iterNext = inst[c].iterNext
      /\ RowOf(c, g).firsttime = inst[c].firsttime
    BY <1>1 DEF RowOf, InstRec
<1>4. /\ Exhausted(c).row = 0 /\ Exhausted(c).eof
      /\ Exhausted(c).iterNext = inst[c].iterNext
      /\ Exhausted(c).firsttime = inst[c].firsttime
    BY <1>1 DEF Exhausted, InstRec
<1>5. /\ Settled(g, "yield").st = "suspended" /\ Settled(g, "yield").pos = gen[g].pos + 1
      /\ Settled(g, "error").st = "failed"
      /\ \A o : Settled(g, o).tab = gen[g].tab
    BY <1>1 DEF Settled, GenRec
<1> QED
    BY <1>1, <1>2, <1>3, <1>4, <1>5

\* xFilter or xNext returns with an answer.
LEMMA AnswerReads ==
    ASSUME IInv, Held, Reading, IInv', stack # <<>>, Top.op \in {"next", "filter"}, Pop,
           NEW c \in Cursors, c = Top.cur, NEW g \in Gens, g = Top.gen,
           NEW o \in Outcomes(g), NEW r,
           gen' = [gen EXCEPT ![g] = Settled(g, o)], Answer(c, c, r),
           \/ o = "yield" /\ r = RowOf(c, g)
           \/ o = "stop" /\ r = Exhausted(c)
           \/ o = "error" /\ r = inst[c] /\ Top.op = "next",
           UNCHANGED openedIter
    PROVE  Reading' /\ OneScan(c)
<1>1. PICK n \in Nat :
          /\ StackKept(c, n) /\ n < Len(stack) /\ ~(n < Len(stack'))
          /\ \A i \in 1..n : stack[i].cur # c
          /\ ~Filtering(c)' /\ (Filtering(c) <=> Top.op \in FilterOps)
    BY ReturnStack
<1>2. /\ handle[c].st = "open" /\ handle[c].tab \in Tables /\ ~inst[c].firsttime
      /\ gen[g].st = "running" /\ inst[c].openIter = g /\ inst[c].iterNext = g
      /\ gen[g].tab = handle[c].tab
      /\ Plain(got[c]) /\ gen[g].pos = Len(got[c]) + 1
      /\ Len(got[c]) \in Nat /\ Len(got[c]) <= RowCount[handle[c].tab]
      /\ Top.op = "next" => /\ inst[c].row = Len(got[c]) /\ Len(got[c]) > 0
                            /\ ~inst[c].eof /\ handle[c].scan = "row"
      /\ Phase(c) \in {"idle", "row"}
    BY <1>1, AnswerFinds
<1>3. r \in InstRec /\ r.iterNext = g /\ ~r.firsttime
    BY <1>2, AnswerMakes
<1>4. /\ OthersKept(c) /\ inst'[c] = r
      /\ handle'[c].st = handle[c].st /\ handle'[c].tab = handle[c].tab
      /\ handle'[c].scan = (IF r.eof THEN "eof" ELSE "row")
      /\ got'[c] = IF r.eof THEN got[c] ELSE Append(got[c], r.row)
    BY <1>2, <1>3, Answered
<1>5. PICK s \in Seq(Nat) : s = got[c]
    BY DEF IInv, TypeOK
<1>6. /\ gen'[g] = Settled(g, o) /\ gen'[g].tab = handle[c].tab
      /\ \A h \in Gens \ {g} : gen'[h] = gen[h]
    BY <1>2, AnswerMakes, HeldTypes
<1>7. GensKept(c, n)
    BY <1>2, <1>6 DEF GensKept, CanRun
<1>8. SchemaRead'
    BY <1>1, <1>7, SchemaKept DEF Reading
<1>9. RowCount[handle[c].tab] \in Nat /\ o \in {"yield", "stop", "error", "interrupt"}
    BY <1>2, ConstantsOK DEF Outcomes
<1>10. Phase(c)' = handle'[c].scan
    BY <1>1, <1>2, <1>4 DEF Phase
<1>11. SUFFICES /\ ScanState(c)' /\ (Plain(got'[c]) \/ LastTwice(got'[c]))
                /\ RowPrivate(c) /\ (Faults = {} => Moves(c))
  <2>1. ASSUME ScanState(c)', Plain(got'[c]) \/ LastTwice(got'[c])
        PROVE  Reading'
    BY <1>1, <1>2, <1>4, <1>7, <1>8, <2>1, StepReads
  <2> QED
    BY <1>1, <1>4, <2>1 DEF OneScan
<1>12. CASE o = "yield"
  <2>1. gen[g].pos <= RowCount[handle[c].tab]
    BY <1>2, <1>12, ConstantsOK DEF Outcomes
  <2>2. r = RowOf(c, g) /\ r.row = Len(s) + 1 /\ ~r.eof
    BY <1>2, <1>5, <1>12, AnswerMakes
  <2>3. /\ got'[c] = Append(s, Len(s) + 1) /\ Plain(got'[c]) /\ Len(got'[c]) = Len(s) + 1
        /\ got'[c] # got[c] /\ handle'[c].scan = "row"
    BY <1>2, <1>4, <1>5, <2>2, ReadMore
  <2>4. gen'[g].st = "suspended" /\ gen'[g].pos = Len(s) + 2
    BY <1>2, <1>5, <1>6, <1>12, AnswerMakes
  <2>5. OnRow(c)'
    BY <1>2, <1>3, <1>4, <1>5, <2>1, <2>2, <2>3, <2>4 DEF OnRow, CanRun
  <2>6. ScanState(c)'
    BY <1>3, <1>4, <1>6, <2>3, <2>5 DEF ScanState
  <2>7. Moves(c)
    <3>1. /\ Phase(c) \in {"idle", "row"} /\ Phase(c)' = "row"
          /\ Len(got[c]) < RowCount[handle[c].tab]
      BY <1>2, <1>9, <1>10, <2>1, <2>3
    <3>2. got'[c] = Append(got[c], Len(got[c]) + 1) /\ handle'[c].tab = handle[c].tab
      BY <1>4, <1>5, <2>3
    <3> QED
      BY <3>1, <3>2 DEF Moves
  <2> QED
    BY <2>3, <2>6, <2>7 DEF RowPrivate
<1>13. CASE o = "stop"
  <2>1. Len(got[c]) = RowCount[handle[c].tab]
    BY <1>2, <1>9, <1>13, ConstantsOK DEF Outcomes
  <2>2. r = Exhausted(c) /\ r.row = 0 /\ r.eof
    BY <1>13, AnswerMakes
  <2>3. got'[c] = got[c] /\ handle'[c].scan = "eof"
    BY <1>4, <2>2
  <2>4. AtEnd(c)'
    BY <1>2, <1>4, <2>1, <2>3 DEF AtEnd
  <2>5. ScanState(c)'
    BY <1>3, <1>4, <1>6, <2>2, <2>3, <2>4 DEF ScanState
  <2>6. RowPrivate(c)
    BY <1>2, <1>4, <2>2, <2>3 DEF RowPrivate, Reading, ScansOK, ScanState
  <2>7. Moves(c)
    BY <1>2, <1>4, <1>10, <2>1, <2>3 DEF Moves
  <2> QED
    BY <1>2, <2>3, <2>5, <2>6, <2>7
<1>14. CASE o = "error"
  <2>1. "error" \in Faults
    BY <1>14 DEF Outcomes
  <2>2. r = inst[c] /\ r.row = Len(s) /\ Len(s) > 0 /\ ~r.eof
    BY <1>2, <1>5, <1>14
  <2>3. /\ got'[c] = Append(s, Len(s)) /\ LastTwice(got'[c]) /\ Len(got'[c]) = Len(s) + 1
        /\ handle'[c].scan = "row"
    BY <1>2, <1>4, <1>5, <2>2, ReadMore
  <2>4. gen'[g].st = "failed"
    BY <1>6, <1>14, AnswerMakes
  <2>5. OnRow(c)'
    BY <1>2, <1>3, <1>4, <1>5, <2>1, <2>2, <2>3, <2>4 DEF OnRow
  <2>6. ScanState(c)'
    BY <1>3, <1>4, <1>6, <2>3, <2>5 DEF ScanState
  <2>7. RowPrivate(c)
    BY <1>4, <2>2 DEF RowPrivate
  <2> QED
    BY <2>1, <2>3, <2>6, <2>7
<1> QED
    BY <1>12, <1>13, <1>14

\* xNext returns.
LEMMA NextReturnReads ==
    ASSUME IInv, Held, Reading, IInv', NextReturn
    PROVE  \E c \in Cursors : Reading' /\ OneScan(c)
<1>1. /\ stack # <<>> /\ Top.op = "next" /\ Top.op \in CursorOps \ {"close"} /\ Pop
      /\ UNCHANGED <<openedIter, cursors>>
    BY DEF NextReturn, Returning, CursorOps
<1>2. PICK c \in Cursors, g \in Gens, t \in Tables :
        c = Top.cur /\ g = Top.gen /\ t = Top.tab /\ InstOf(c) = c
    BY <1>1, CursorFrame
<1>3. PICK o \in Outcomes(g) :
        /\ gen' = [gen EXCEPT ![g] = Settled(g, o)]
        /\ IF o = "interrupt"
           THEN Fail(c) /\ UNCHANGED <<inst, got>>
           ELSE Answer(c, c, CASE o = "yield" -> RowOf(c, g)
                               [] o = "stop"  -> Exhausted(c)
                               [] o = "error" -> inst[c])
    BY <1>2 DEF NextReturn
<1>4. o \in {"yield", "stop", "error", "interrupt"}
    BY ConstantsOK DEF Outcomes
<1>5. CASE o = "interrupt"
  <2>1. "interrupt" \in Faults
    BY <1>5 DEF Outcomes
  <2> QED
    BY <1>1, <1>2, <1>3, <1>5, <2>1, FailReads
<1>6. CASE o # "interrupt"
  <2>1. PICK r : /\ Answer(c, c, r)
                 /\ \/ o = "yield" /\ r = RowOf(c, g)
                    \/ o = "stop" /\ r = Exhausted(c)
                    \/ o = "error" /\ r = inst[c]
    BY <1>3, <1>4, <1>6
  <2> QED
    BY <1>1, <1>2, <1>3, <2>1, AnswerReads
<1> QED
    BY <1>5, <1>6

\* xFilter returns.
LEMMA FilterReturnReads ==
    ASSUME IInv, Held, Reading, IInv', FilterReturn
    PROVE  \E c \in Cursors : Reading' /\ OneScan(c)
<1>1. /\ stack # <<>> /\ Top.op = "filter" /\ Top.op \in CursorOps \ {"close"} /\ Pop
      /\ UNCHANGED openedIter
    BY DEF FilterReturn, Returning, CursorOps
<1>2. PICK c \in Cursors, g \in Gens, t \in Tables :
        c = Top.cur /\ g = Top.gen /\ t = Top.tab /\ InstOf(c) = c
    BY <1>1, CursorFrame
<1>3. PICK o \in Outcomes(g) :
        \/ /\ o \in {"yield", "stop"}
           /\ gen' = [gen EXCEPT ![g] = Settled(g, o)]
           /\ Answer(c, c, IF o = "yield" THEN RowOf(c, g) ELSE Exhausted(c))
        \/ /\ o = "error"
           /\ gen' = [gen EXCEPT ![g] = Settled(g, o)]
           /\ Fail(c) /\ UNCHANGED <<inst, got>>
        \/ /\ o = "interrupt"
           /\ DisconnectAll(t, g)
           /\ Fail(c) /\ UNCHANGED got
    BY <1>2 DEF FilterReturn
<1>4. o \in {"error", "interrupt"} => o \in Faults
    BY DEF Outcomes
<1>5. CASE /\ o \in {"yield", "stop"}
           /\ gen' = [gen EXCEPT ![g] = Settled(g, o)]
           /\ Answer(c, c, IF o = "yield" THEN RowOf(c, g) ELSE Exhausted(c))
  <2>1. PICK r : /\ Answer(c, c, r)
                 /\ \/ o = "yield" /\ r = RowOf(c, g)
                    \/ o = "stop" /\ r = Exhausted(c)
    BY <1>5
  <2> QED
    BY <1>1, <1>2, <1>5, <2>1, AnswerReads
<1>6. CASE /\ o = "error"
           /\ gen' = [gen EXCEPT ![g] = Settled(g, o)]
           /\ Fail(c) /\ UNCHANGED <<inst, got>>
    BY <1>1, <1>2, <1>4, <1>6, FailReads
<1>7. CASE /\ o = "interrupt"
           /\ DisconnectAll(t, g)
           /\ Fail(c) /\ UNCHANGED got
    BY <1>1, <1>2, <1>4, <1>7, FailReads
<1> QED
    BY <1>3, <1>5, <1>6, <1>7

\* xFilter has dropped the schema row.
LEMMA SkipReturnReads ==
    ASSUME IInv, Held, Reading, IInv', SkipReturn
    PROVE  \E c \in Cursors : Reading' /\ OneScan(c)
<1>1. /\ stack # <<>> /\ Top.op = "skip" /\ Top.op \in CursorOps \ {"close"}
      /\ UNCHANGED <<openedIter, got>>
    BY DEF SkipReturn, Returning, CursorOps
<1>2. PICK c \in Cursors, g \in Gens, t \in Tables :
        c = Top.cur /\ g = Top.gen /\ t = Top.tab /\ InstOf(c) = c /\ handle[c].st = "open"
    BY <1>1, CursorFrame
<1>3. PICK o \in Outcomes(g) :
        \/ /\ gen' = [gen EXCEPT ![g].pos = @ + 1]
           /\ Swap(Frame("filter", t, c, g))
           /\ UNCHANGED <<inst, cursors, handle>>
        \/ /\ o = "error"
           /\ gen' = [gen EXCEPT ![g] = Settled(g, o)]
           /\ Fail(c) /\ Pop /\ UNCHANGED <<inst, cursors>>
        \/ /\ o = "interrupt"
           /\ DisconnectAll(t, g) /\ Fail(c) /\ Pop
    BY <1>2 DEF SkipReturn
<1>4. o \in {"error", "interrupt"} => o \in Faults
    BY DEF Outcomes
<1>5. CASE /\ gen' = [gen EXCEPT ![g].pos = @ + 1]
           /\ Swap(Frame("filter", t, c, g))
           /\ UNCHANGED <<inst, cursors, handle>>
  <2>1. PICK f \in FrameRec :
          f = Frame("filter", t, c, g) /\ f.op = "filter" /\ f.tab = t /\ f.cur = c /\ f.gen = g
    <3>1. "filter" \in TableOps \cup {"open"} \cup CursorOps
      BY DEF CursorOps
    <3> QED
      BY <3>1, FrameParts
  <2>2. PICK n \in Nat :
          /\ StackKept(c, n) /\ n < Len(stack) /\ n < Len(stack')
          /\ stack'[n + 1] = f
          /\ \A i \in 1..n : stack[i].cur # c
          /\ Filtering(c) /\ Filtering(c)'
    <3>1. Swap(f)
      BY <1>5, <2>1
    <3> QED
      BY <1>1, <1>2, <2>1, <3>1, SwapStack DEF FilterOps
  <2>3. Top = stack[Len(stack)] /\ Len(stack) \in 1..Len(stack)
    BY <1>1, TopFacts DEF Top
  <2>4. FrameScan(Top) /\ FrameGen(Top)
    BY <2>3, FrameFacts DEF Reading, FramesScan
  <2>5. gen[g].pos = 0 /\ gen[g].tab = t /\ inst[c].openIter = g /\ gen[g].st = "running"
    BY <1>1, <1>2, <2>4 DEF FrameScan, FrameGen
  <2>6. gen'[g].pos = 1 /\ gen'[g].tab = t /\ \A h \in Gens \ {g} : gen'[h] = gen[h]
    BY <1>5, <2>5, HeldTypes DEF GenRec
  <2>7. GensKept(c, n) /\ OthersKept(c)
    BY <1>1, <1>5, <2>5, <2>6 DEF GensKept, OthersKept, CanRun
  <2>8. SchemaRead'
    BY <1>1, <2>2, <2>7, SchemaKept DEF Reading
  <2>9. FrameScan(stack[n + 1])'
    BY <1>1, <1>2, <1>5, <2>1, <2>2, <2>4, <2>6 DEF FrameScan
  <2>10. ScanState(c)'
    <3>1. ScanState(c) /\ ~inst[c].firsttime /\ inst[c].iterNext = g
      BY <1>1, <1>2, <2>4, <2>5, HeldTypes
         DEF Reading, ScansOK, FrameScan, Held, HeldIsNext
    <3> QED
      BY <1>1, <1>5, <2>2, <2>5, <2>6, <3>1 DEF ScanState
  <2>11. Plain(got'[c]) \/ LastTwice(got'[c])
    BY <1>1, ReadSoFar
  <2>12. Reading'
    BY <1>2, <1>5, <2>2, <2>7, <2>8, <2>9, <2>10, <2>11, StepReads
  <2>13. RowPrivate(c)
    BY <1>5 DEF RowPrivate
  <2>14. Phase(c) = Phase(c)'
    BY <1>5, <2>2 DEF Phase
  <2> QED
    BY <1>1, <1>5, <2>2, <2>7, <2>12, <2>13, <2>14 DEF OneScan, Moves
<1>6. CASE /\ o = "error"
           /\ gen' = [gen EXCEPT ![g] = Settled(g, o)]
           /\ Fail(c) /\ Pop /\ UNCHANGED <<inst, cursors>>
    BY <1>1, <1>2, <1>4, <1>6, FailReads
<1>7. CASE /\ o = "interrupt"
           /\ DisconnectAll(t, g) /\ Fail(c) /\ Pop
    BY <1>1, <1>2, <1>4, <1>7, FailReads
<1> QED
    BY <1>3, <1>5, <1>6, <1>7

\* xFilter has closed the previous generator.
LEMMA RecloseReturnReads ==
    ASSUME IInv, Held, Reading, IInv', RecloseReturn
    PROVE  \E c \in Cursors : Reading' /\ OneScan(c)
<1>1. /\ stack # <<>> /\ Top.op = "reclose" /\ Top.op \in CursorOps \ {"close"}
      /\ UNCHANGED <<openedIter, got>>
    BY DEF RecloseReturn, Returning, CursorOps
<1>2. PICK c \in Cursors, g \in Gens, t \in Tables :
        /\ c = Top.cur /\ g = Top.gen /\ t = Top.tab /\ InstOf(c) = c
        /\ handle[c].st = "open" /\ handle[c].tab = t
    BY <1>1, CursorFrame
<1>3. PICK o \in CloseOutcomes :
        \/ /\ \E h \in Gens :
                /\ Fresh(h)
                /\ gen' = [gen EXCEPT ![g] = Closed(g), ![h] = Started(t)]
                /\ StartOver(c, h)
                /\ Swap(Frame("skip", t, c, h))
           /\ UNCHANGED <<cursors, handle>>
        \/ /\ o = "error"
           /\ gen' = [gen EXCEPT ![g] = Closed(g)]
           /\ Fail(c) /\ Pop /\ UNCHANGED <<inst, cursors>>
        \/ /\ o = "interrupt"
           /\ DisconnectAll(t, g) /\ Fail(c) /\ Pop
    BY <1>2 DEF RecloseReturn
<1>4. o \in {"error", "interrupt"} => o \in Faults
    BY DEF CloseOutcomes
<1>5. CASE /\ \E h \in Gens :
                /\ Fresh(h)
                /\ gen' = [gen EXCEPT ![g] = Closed(g), ![h] = Started(t)]
                /\ StartOver(c, h)
                /\ Swap(Frame("skip", t, c, h))
           /\ UNCHANGED <<cursors, handle>>
  <2>1. PICK h \in Gens :
            /\ gen[h].st = "unborn"
            /\ gen' = [gen EXCEPT ![g] = Closed(g), ![h] = Started(t)]
            /\ StartOver(c, h)
            /\ Swap(Frame("skip", t, c, h))
    BY <1>5 DEF Fresh
  <2>2. PICK f \in FrameRec :
          f = Frame("skip", t, c, h) /\ f.op = "skip" /\ f.tab = t /\ f.cur = c /\ f.gen = h
    <3>1. "skip" \in TableOps \cup {"open"} \cup CursorOps
      BY DEF CursorOps
    <3> QED
      BY <3>1, FrameParts
  <2>3. PICK n \in Nat :
          /\ StackKept(c, n) /\ n < Len(stack) /\ n < Len(stack')
          /\ stack'[n + 1] = f
          /\ \A i \in 1..n : stack[i].cur # c
          /\ Filtering(c)'
    <3>1. Swap(f)
      BY <2>1, <2>2
    <3> QED
      BY <1>1, <1>2, <2>2, <3>1, SwapStack DEF FilterOps
  <2>4. Top = stack[Len(stack)] /\ Len(stack) \in 1..Len(stack)
    BY <1>1, TopFacts DEF Top
  <2>5. FrameScan(Top) /\ FrameGen(Top)
    BY <2>4, FrameFacts DEF Reading, FramesScan
  <2>6. /\ inst[c].openIter = g /\ gen[g].st = "running"
        /\ got[c] = <<>> /\ ~inst[c].firsttime /\ handle[c].scan # "failed"
    BY <1>1, <1>2, <2>5 DEF FrameScan, FrameGen
  <2>7. /\ gen'[h] = Started(t)
        /\ \A x \in Gens \ {h} : gen'[x] = gen[x] \/ (CanRun(x) /\ inst[c].openIter = x)
    <3>1. gen \in [Gens -> GenRec] /\ CanRun(g)
      BY <2>6, HeldTypes DEF CanRun
    <3> QED
      BY <2>1, <2>6, <3>1
  <2>8. got' = [got EXCEPT ![c] = <<>>]
    BY <1>1, <2>6 DEF IInv, TypeOK
  <2>9. stack'[n + 1] = Frame("skip", t, c, h) /\ UNCHANGED <<openedIter, handle>>
    BY <1>1, <1>5, <2>2, <2>3
  <2> QED
    BY <1>2, <2>1, <2>3, <2>6, <2>7, <2>8, <2>9, SkipReads
<1>6. CASE /\ o = "error"
           /\ gen' = [gen EXCEPT ![g] = Closed(g)]
           /\ Fail(c) /\ Pop /\ UNCHANGED <<inst, cursors>>
    BY <1>1, <1>2, <1>4, <1>6, FailReads
<1>7. CASE /\ o = "interrupt"
           /\ DisconnectAll(t, g) /\ Fail(c) /\ Pop
    BY <1>1, <1>2, <1>4, <1>7, FailReads
<1> QED
    BY <1>3, <1>5, <1>6, <1>7

\* xClose returns.
LEMMA CloseReturnReads ==
    ASSUME IInv, Held, Reading, IInv', CloseReturn
    PROVE  \E c \in Cursors : Reading' /\ OneScan(c)
<1>1. /\ stack # <<>> /\ Top.op = "close" /\ Top.op \in CursorOps /\ Pop
      /\ UNCHANGED <<openedIter, got>>
    BY DEF CloseReturn, Returning, CursorOps
<1>2. PICK c \in Cursors, g \in Gens :
        c = Top.cur /\ g = Top.gen /\ InstOf(c) = c /\ handle[c].st = "open"
    BY <1>1, CursorFrame
<1>3. /\ gen' = [gen EXCEPT ![g] = Closed(g)]
      /\ UNCHANGED inst \/ inst' = [inst EXCEPT ![c].openIter = None]
      /\ handle' = [handle EXCEPT ![c].st = "closed"]
    BY <1>2 DEF CloseReturn
<1>4. PICK n \in Nat :
          /\ StackKept(c, n) /\ n < Len(stack) /\ ~(n < Len(stack'))
          /\ \A i \in 1..n : stack[i].cur # c
          /\ ~Filtering(c)
    BY <1>1, <1>2, ReturnStack DEF FilterOps
<1>5. Top = stack[Len(stack)] /\ Len(stack) \in 1..Len(stack)
    BY <1>1, TopFacts DEF Top
<1>6. gen[g].st = "running" /\ inst[c].openIter = g
    BY <1>1, <1>2, <1>5, FrameFacts DEF FrameGen
<1>7. GensKept(c, n)
  <2>1. \A h \in Gens \ {g} : gen'[h] = gen[h]
    BY <1>3, HeldTypes
  <2> QED
    BY <1>6, <2>1 DEF GensKept, CanRun
<1>8. inst \in [Cursors -> InstRec] /\ handle \in [Cursors -> HandleRec]
    BY DEF IInv, TypeOK
<1>9. \A d \in Cursors :
            /\ inst'[d].iterNext = inst[d].iterNext /\ inst'[d].row = inst[d].row
            /\ inst'[d].eof = inst[d].eof /\ inst'[d].firsttime = inst[d].firsttime
    BY <1>3, <1>8 DEF InstRec
<1>10. /\ handle'[c].st = "closed" /\ handle'[c].tab = handle[c].tab
       /\ \A d \in Cursors : d # c => handle'[d] = handle[d]
    BY <1>3, <1>8 DEF HandleRec
<1>11. OthersKept(c)
    BY <1>1, <1>9, <1>10 DEF OthersKept
<1>12. SchemaRead'
    BY <1>1, <1>4, <1>7, SchemaKept DEF Reading
<1>13. Plain(got'[c]) \/ LastTwice(got'[c])
    BY <1>1, ReadSoFar
<1>14. Reading'
    BY <1>4, <1>7, <1>10, <1>11, <1>12, <1>13, StepReads
<1>15. RowPrivate(c)
    BY <1>9 DEF RowPrivate
<1>16. Faults = {} => Moves(c)
  <2>1. handle[c].scan \in {"idle", "row", "eof", "failed"}
    BY <1>8 DEF HandleRec
  <2>2. Faults = {} => Phase(c) \in {"idle", "row", "eof"}
    BY <1>2, <1>4, <2>1 DEF ScanState, Phase, Reading, ScansOK
  <2>3. Phase(c)' = "closed"
    BY <1>10 DEF Phase
  <2> QED
    BY <1>1, <1>10, <2>2, <2>3 DEF Moves
<1> QED
    BY <1>4, <1>11, <1>14, <1>15, <1>16 DEF OneScan

\* The stack when a callback of a table starts, returns or starts again.
LEMMA TableStack ==
    ASSUME IInv
    PROVE  /\ \A f \in FrameRec : f.cur = None /\ Push(f) =>
                \E n \in Nat : StackKept(None, n) /\ n < Len(stack') /\ stack'[n + 1] = f
           /\ stack # <<>> /\ Top.cur = None /\ Pop =>
                \E n \in Nat : /\ StackKept(None, n) /\ ~(n < Len(stack'))
                               /\ n < Len(stack) /\ stack[n + 1] = Top
           /\ \A f \in FrameRec : stack # <<>> /\ Top.cur = None /\ f.cur = None /\ Swap(f) =>
                \E n \in Nat : /\ StackKept(None, n) /\ n < Len(stack') /\ stack'[n + 1] = f
                               /\ n < Len(stack) /\ stack[n + 1] = Top
<1>1. ASSUME NEW f \in FrameRec, f.cur = None, Push(f)
      PROVE  \E n \in Nat : StackKept(None, n) /\ n < Len(stack') /\ stack'[n + 1] = f
  <2>1. /\ Len(stack) \in Nat /\ Len(stack') = Len(stack) + 1
        /\ stack'[Len(stack) + 1] = f
        /\ \A i \in 1..Len(stack) : stack'[i] = stack[i]
    BY <1>1, PushFacts DEF IInv, TypeOK
  <2>2. PICK n \in Nat : n = Len(stack)
    BY <2>1
  <2> QED
    BY <1>1, <2>1, <2>2 DEF StackKept
<1>2. ASSUME stack # <<>>, Top.cur = None, Pop
      PROVE  \E n \in Nat : /\ StackKept(None, n) /\ ~(n < Len(stack'))
                            /\ n < Len(stack) /\ stack[n + 1] = Top
  <2>1. /\ Len(stack) \in Nat \ {0} /\ Len(stack') = Len(stack) - 1
        /\ \A i \in 1..(Len(stack) - 1) : stack'[i] = stack[i]
    BY <1>2, PopFacts DEF IInv, TypeOK
  <2>2. PICK n \in Nat : n = Len(stack) - 1
    BY <2>1, OneLess
  <2>3. stack[n + 1] = Top /\ n + 1 = Len(stack)
    BY <2>1, <2>2 DEF Top
  <2>4. StackKept(None, n)
    BY <1>2, <2>1, <2>2, <2>3 DEF StackKept
  <2> QED
    BY <2>1, <2>2, <2>3, <2>4
<1>3. ASSUME NEW f \in FrameRec, stack # <<>>, Top.cur = None, f.cur = None, Swap(f)
      PROVE  \E n \in Nat : /\ StackKept(None, n) /\ n < Len(stack') /\ stack'[n + 1] = f
                            /\ n < Len(stack) /\ stack[n + 1] = Top
  <2>1. /\ Len(stack) \in Nat \ {0} /\ Len(stack') = Len(stack)
        /\ stack'[Len(stack)] = f
        /\ \A i \in 1..(Len(stack) - 1) : stack'[i] = stack[i]
    BY <1>3, SwapFacts DEF IInv, TypeOK
  <2>2. PICK n \in Nat : n = Len(stack) - 1
    BY <2>1, OneLess
  <2>3. stack[n + 1] = Top /\ n + 1 = Len(stack) /\ stack'[n + 1] = f
    BY <2>1, <2>2 DEF Top
  <2>4. n <= Len(stack) /\ Len(stack) <= n + 1 /\ n < Len(stack)
    BY <2>1, <2>2
  <2>5. StackKept(None, n)
    BY <1>3, <2>1, <2>2, <2>3, <2>4 DEF StackKept
  <2> QED
    BY <2>1, <2>3, <2>4, <2>5
<1> QED
    BY <1>1, <1>2, <1>3

\* A callback of a table, taken apart.
LEMMA TableFrameParts ==
    ASSUME NEW op \in TableOps, NEW t \in Tables, NEW g \in Gens
    PROVE  \E f \in FrameRec : /\ f = Frame(op, t, None, g)
                              /\ f.op = op /\ f.tab = t /\ f.cur = None /\ f.gen = g
<1>1. Frame(op, t, None, g) \in FrameRec
    BY DEF Frame, FrameRec
<1>2. /\ Frame(op, t, None, g).op = op /\ Frame(op, t, None, g).tab = t
      /\ Frame(op, t, None, g).cur = None /\ Frame(op, t, None, g).gen = g
    BY DEF Frame
<1> QED
    BY <1>1, <1>2

\* The table's own callback on top of the stack.
LEMMA TableFrame ==
    ASSUME IInv, Held, Reading, stack # <<>>, Top.op \in TableOps
    PROVE  /\ Top.cur = None /\ Top.gen \in Gens /\ Top.tab \in Tables
           /\ Top.op \in NewOps /\ gen[Top.gen].st = "running"
           /\ gen[Top.gen].tab = Top.tab /\ gen[Top.gen].pos = 0
           /\ \A t \in Tables : openedIter[t] # Top.gen
<1>1. /\ Top = stack[Len(stack)] /\ Len(stack) \in 1..Len(stack)
      /\ Top \in FrameRec /\ FrameFits(Top)
    BY TopFacts DEF Top
<1>2. FrameScan(Top) /\ FrameGen(Top)
    BY <1>1, FrameFacts DEF Reading, FramesScan
<1>3. Top.op \in NewOps
    BY DEF NewOps
<1> QED
    BY <1>1, <1>2, <1>3 DEF FrameScan, FrameGen, FrameFits, FrameRec

\* xCreate and xDestroy answer no cursor.
LEMMA TablesRead ==
    ASSUME IInv, Held, Reading, IInv',
           \/ \E t \in Tables : Create(t) \/ Destroy(t) \/ Disconnect(t)
           \/ CreateRetry \/ CreateReturn \/ UNCHANGED vars
    PROVE  Reading' /\ OneScan(None)
<1>1. inst \in [Cursors -> InstRec]
    BY DEF IInv, TypeOK
<1>2. SchemaRead
    BY DEF Reading
<1>3. ASSUME UNCHANGED <<handle, got>>,
             \A d \in Cursors : inst'[d] = inst[d] \/ inst'[d] = [inst[d] EXCEPT !.openIter = None],
             NEW n \in Nat, StackKept(None, n), GensKept(None, n), SchemaRead',
             n < Len(stack') => FrameScan(stack[n + 1])'
      PROVE  Reading' /\ OneScan(None)
  <2>1. OthersKept(None)
    <3> SUFFICES ASSUME NEW d \in Cursors
                 PROVE  /\ inst'[d].iterNext = inst[d].iterNext /\ inst'[d].row = inst[d].row
                        /\ inst'[d].eof = inst[d].eof /\ inst'[d].firsttime = inst[d].firsttime
      BY <1>3 DEF OthersKept
    <3>1. inst[d] \in InstRec
      BY <1>1
    <3> QED
      BY <1>3, <3>1 DEF InstRec
  <2> QED
    BY <1>3, <2>1, StepReads DEF OneScan
<1>4. ASSUME NEW t \in Tables, Create(t)
      PROVE  Reading' /\ OneScan(None)
  <2>1. PICK g \in Gens : /\ gen[g].st = "unborn"
                         /\ gen' = [gen EXCEPT ![g] = Started(t)]
                         /\ Push(Frame("create", t, None, g))
    BY <1>4 DEF Create, Fresh
  <2>2. PICK f \in FrameRec :
          f = Frame("create", t, None, g) /\ f.op = "create" /\ f.tab = t /\ f.cur = None /\ f.gen = g
    <3>1. "create" \in TableOps
      BY DEF TableOps
    <3> QED
      BY <3>1, TableFrameParts
  <2>3. PICK n \in Nat : StackKept(None, n) /\ n < Len(stack') /\ stack'[n + 1] = f
    BY <2>1, <2>2, TableStack
  <2>4. gen'[g].tab = t /\ \A h \in Gens \ {g} : gen'[h] = gen[h]
    BY <2>1, HeldTypes DEF Started
  <2>5. GensKept(None, n)
    BY <2>1, <2>4 DEF GensKept
  <2>6. UNCHANGED <<handle, got, inst, openedIter>>
    BY <1>4 DEF Create
  <2>7. SchemaRead'
    BY <1>2, <2>3, <2>5, <2>6, SchemaKept
  <2>8. FrameScan(stack[n + 1])'
    BY <2>2, <2>3, <2>4 DEF FrameScan
  <2> QED
    BY <1>3, <2>3, <2>5, <2>6, <2>7, <2>8
<1>5. CASE CreateRetry
  <2>1. stack # <<>> /\ Top.op \in TableOps /\ UNCHANGED <<handle, got, inst, openedIter>>
    BY <1>5 DEF CreateRetry, Returning, TableOps
  <2>2. PICK t \in Tables, x \in Gens :
          /\ t = Top.tab /\ x = Top.gen /\ Top.cur = None /\ Top.op \in NewOps
          /\ gen[x].st = "running"
    BY <2>1, TableFrame
  <2>3. PICK g \in Gens : /\ gen[g].st = "unborn"
                         /\ gen' = [gen EXCEPT ![x] = Settled(x, "abort"), ![g] = Started(t)]
                         /\ Swap(Frame("recreate", t, None, g))
    BY <1>5, <2>2 DEF CreateRetry, Fresh
  <2>4. PICK f \in FrameRec :
          f = Frame("recreate", t, None, g) /\ f.op = "recreate" /\ f.tab = t /\ f.cur = None /\ f.gen = g
    <3>1. "recreate" \in TableOps
      BY DEF TableOps
    <3> QED
      BY <3>1, TableFrameParts
  <2>5. PICK n \in Nat : /\ StackKept(None, n) /\ n < Len(stack') /\ stack'[n + 1] = f
                         /\ n < Len(stack) /\ stack[n + 1] = Top
    BY <2>1, <2>2, <2>3, <2>4, TableStack
  <2>6. gen'[g].tab = t /\ \A h \in Gens \ {g, x} : gen'[h] = gen[h]
    BY <2>3, HeldTypes DEF Started
  <2>7. GensKept(None, n)
    BY <2>2, <2>3, <2>5, <2>6 DEF GensKept
  <2>8. SchemaRead'
    BY <1>2, <2>1, <2>5, <2>7, SchemaKept
  <2>9. FrameScan(stack[n + 1])'
    BY <2>4, <2>5, <2>6 DEF FrameScan
  <2> QED
    BY <1>3, <2>1, <2>5, <2>7, <2>8, <2>9
<1>6. CASE CreateReturn
  <2>1. stack # <<>> /\ Top.op \in TableOps /\ UNCHANGED <<handle, got, inst>> /\ Pop
    BY <1>6 DEF CreateReturn, Returning, TableOps
  <2>2. PICK t \in Tables, x \in Gens :
          /\ t = Top.tab /\ x = Top.gen /\ Top.cur = None /\ Top.op \in NewOps
          /\ gen[x].st = "running" /\ gen[x].tab = t /\ gen[x].pos = 0
          /\ \A u \in Tables : openedIter[u] # x
    BY <2>1, TableFrame
  <2>3. PICK o : /\ gen' = [gen EXCEPT ![x] = Settled(x, o)]
                 /\ o = "yield" => openedIter' = [openedIter EXCEPT ![t] = x]
                 /\ o # "yield" => UNCHANGED openedIter
    BY <1>6, <2>2 DEF CreateReturn
  <2>4. PICK n \in Nat : /\ StackKept(None, n) /\ ~(n < Len(stack'))
                         /\ n < Len(stack) /\ stack[n + 1] = Top
    BY <2>1, <2>2, TableStack
  <2>5. gen'[x] = Settled(x, o) /\ \A h \in Gens \ {x} : gen'[h] = gen[h]
    BY <2>3, HeldTypes
  <2>6. GensKept(None, n)
    BY <2>2, <2>4, <2>5 DEF GensKept
  <2>7. SchemaRead'
    <3>1. CASE o # "yield"
      BY <1>2, <2>3, <2>4, <2>6, <3>1, SchemaKept
    <3>2. CASE o = "yield"
      <4>1. Settled(x, o) = [st |-> "suspended", tab |-> t, pos |-> 1]
        BY <2>2, <3>2 DEF Settled
      <4>2. /\ openedIter'[t] = x
            /\ \A u \in Tables : u # t => openedIter'[u] = openedIter[u]
        BY <2>3, <3>2 DEF IInv, TypeOK
      <4> SUFFICES ASSUME NEW u \in Tables, openedIter'[u] # None
                   PROVE  gen'[openedIter'[u]] = [st |-> "suspended", tab |-> u, pos |-> 1]
        BY DEF SchemaRead
      <4>3. CASE u = t
        BY <2>5, <4>1, <4>2, <4>3
      <4>4. CASE u # t
        <5>1. PICK y \in Gens : y = openedIter[u] /\ openedIter'[u] = y /\ y # x
          BY <2>2, <4>2, <4>4, HeldTypes
        <5> QED
          BY <1>2, <2>5, <5>1 DEF SchemaRead
      <4> QED
        BY <4>3, <4>4
    <3> QED
      BY <3>1, <3>2
  <2> QED
    BY <1>3, <2>1, <2>4, <2>6, <2>7
<1>7. ASSUME NEW t \in Tables, Destroy(t)
      PROVE  Reading' /\ OneScan(None)
  <2>. DEFINE mine == {cursors[t][j] : j \in 1..Len(cursors[t])}
  <2>1. /\ ~InUse(t) /\ UNCHANGED <<handle, got, stack>>
        /\ openedIter' = [openedIter EXCEPT ![t] = None]
        /\ inst' = [c \in Cursors |->
               IF c \in mine THEN [inst[c] EXCEPT !.openIter = None] ELSE inst[c]]
        /\ gen' = [g \in Gens |->
               IF Suspended(g) /\ \E c \in mine : inst[c].openIter = g
               THEN Closed(g) ELSE gen[g]]
    BY <1>7 DEF Destroy
  <2>2. \A c \in mine : c \in Cursors /\ handle[c].st # "open"
    <3> SUFFICES ASSUME NEW j \in 1..Len(cursors[t])
                 PROVE  cursors[t][j] \in Cursors /\ handle[cursors[t][j]].st # "open"
      OBVIOUS
    <3>1. cursors[t][j] \in Cursors
      BY HeldTypes
    <3>2. handle[cursors[t][j]].tab = t
      BY DEF Held, MadeFor
    <3> QED
      BY <2>1, <3>1, <3>2 DEF InUse
  <2>. HIDE DEF mine
  <2>3. StackKept(None, Len(stack)) /\ ~(Len(stack) < Len(stack')) /\ Len(stack) \in Nat
    BY <2>1, StillStack, HeldTypes
  <2>4. GensKept(None, Len(stack))
    <3> SUFFICES ASSUME NEW g \in Gens, gen'[g] # gen[g]
                 PROVE  /\ CanRun(g)
                        /\ \E c \in Cursors : inst[c].openIter = g /\ handle[c].st # "open"
      BY DEF GensKept
    <3> QED
      BY <2>1, <2>2 DEF Suspended, CanRun
  <2>5. \A u \in Tables : openedIter'[u] \in {openedIter[u], None}
    BY <2>1 DEF IInv, TypeOK
  <2>6. SchemaRead'
    BY <1>2, <2>3, <2>4, <2>5, SchemaKept
  <2>7. \A d \in Cursors : inst'[d] = inst[d] \/ inst'[d] = [inst[d] EXCEPT !.openIter = None]
    BY <2>1
  <2> QED
    BY <1>3, <2>1, <2>3, <2>4, <2>6, <2>7
<1>8. ASSUME \/ \E t \in Tables : Disconnect(t)
             \/ UNCHANGED vars
      PROVE  Reading' /\ OneScan(None)
  <2>1. /\ UNCHANGED <<handle, got, stack, inst, gen>>
        /\ \A u \in Tables : openedIter'[u] \in {openedIter[u], None}
    BY <1>8 DEF Disconnect, vars, IInv, TypeOK
  <2>2. StackKept(None, Len(stack)) /\ ~(Len(stack) < Len(stack')) /\ Len(stack) \in Nat
    BY <2>1, StillStack, HeldTypes
  <2>3. GensKept(None, Len(stack))
    BY <2>1 DEF GensKept
  <2>4. SchemaRead'
    BY <1>2, <2>1, <2>2, <2>3, SchemaKept
  <2> QED
    BY <1>3, <2>1, <2>2, <2>3, <2>4
<1> QED
    BY <1>4, <1>5, <1>6, <1>7, <1>8

\* xOpen has an instance: it is the new cursor's, before its first row.
LEMMA PlacedReads ==
    ASSUME IInv, Held, Reading, IInv', NEW c \in Cursors, NEW t \in Tables, NEW g \in Gens,
           handle[c].st = "fresh", Place(t, c, g), UNCHANGED got,
           gen'[g] = [st |-> "suspended", tab |-> t, pos |-> 1],
           NEW n \in Nat, StackKept(c, n), GensKept(c, n), ~(n < Len(stack')),
           \A i \in 1..n : stack[i].cur # c, ~Filtering(c)',
           SchemaRead'
    PROVE  Reading' /\ OneScan(c)
<1>1. inst \in [Cursors -> InstRec] /\ handle \in [Cursors -> HandleRec]
    BY DEF IInv, TypeOK
<1>2. PICK i : handle' = [handle EXCEPT ![c] =
                    [st |-> "open", tab |-> t, slot |-> i, scan |-> "idle"]]
    BY DEF Place
<1>3. /\ handle'[c].st = "open" /\ handle'[c].tab = t /\ handle'[c].scan = "idle"
      /\ \A d \in Cursors : d # c => handle'[d] = handle[d]
    BY <1>1, <1>2
<1>4. /\ inst'[c].iterNext = g /\ inst'[c].row = 0 /\ inst'[c].firsttime
      /\ \A d \in Cursors : d # c => inst'[d] = inst[d]
    BY <1>1 DEF Place, NoInst
<1>5. got[c] = <<>> /\ got'[c] = <<>>
    BY DEF Reading, ScansOK
<1>6. OthersKept(c)
    BY <1>3, <1>4 DEF OthersKept
<1>7. ScanState(c)'
    BY <1>3, <1>4, <1>5 DEF ScanState, CanRun
<1>8. Plain(got'[c])
    BY <1>5 DEF Plain
<1>9. Reading'
    BY <1>3, <1>6, <1>7, <1>8, StepReads
<1>10. RowPrivate(c)
    BY DEF RowPrivate
<1>11. Phase(c) = "unused" /\ Phase(c)' = "idle"
    BY <1>3 DEF Phase
<1>12. Moves(c)
    BY <1>3, <1>11 DEF Moves
<1> QED
    BY <1>6, <1>9, <1>10, <1>12 DEF OneScan

\* xOpen
LEMMA OpensRead ==
    ASSUME IInv, Held, Reading, IInv',
           \/ \E t \in Tables, c \in Cursors : OpenFirst(t, c) \/ OpenAgain(t, c)
           \/ OpenReturn
    PROVE  \E c \in Cursors : Reading' /\ OneScan(c)
<1>1. ASSUME NEW t \in Tables, NEW c \in Cursors, OpenFirst(t, c)
      PROVE  Reading' /\ OneScan(c)
  <2>1. PICK g \in Gens : g = openedIter[t] /\ g # None
    BY <1>1, HeldTypes DEF OpenFirst
  <2>2. /\ handle[c].st = "fresh" /\ Place(t, c, g)
        /\ openedIter' = [openedIter EXCEPT ![t] = None]
        /\ \A i \in 1..Len(stack) : stack[i].cur # c
        /\ UNCHANGED <<gen, stack, got>>
    BY <1>1, <2>1 DEF OpenFirst, MayOpen, Busy
  <2>3. PICK n \in Nat : n = Len(stack)
    BY HeldTypes
  <2>4. /\ StackKept(c, n) /\ ~(n < Len(stack'))
        /\ Filtering(c)' <=> Filtering(c)
    BY <2>2, <2>3, StillStack
  <2>5. GensKept(c, n)
    BY <2>2 DEF GensKept
  <2>6. SchemaRead'
    <3>1. \A u \in Tables : openedIter'[u] \in {openedIter[u], None}
      BY <2>2 DEF IInv, TypeOK
    <3> QED
      BY <2>4, <2>5, <3>1, SchemaKept DEF Reading
  <2>7. gen'[g] = [st |-> "suspended", tab |-> t, pos |-> 1]
    BY <2>1, <2>2 DEF Reading, SchemaRead
  <2>8. ~Filtering(c)'
    BY <2>2, <2>4 DEF Filtering
  <2> QED
    BY <2>2, <2>3, <2>4, <2>5, <2>6, <2>7, <2>8, PlacedReads
<1>2. ASSUME NEW t \in Tables, NEW c \in Cursors, OpenAgain(t, c)
      PROVE  Reading' /\ OneScan(c)
  <2>1. /\ handle[c].st = "fresh"
        /\ \A i \in 1..Len(stack) : stack[i].cur # c
        /\ UNCHANGED <<openedIter, handle, inst, got>>
    BY <1>2 DEF OpenAgain, MayOpen, Busy
  <2>2. PICK g \in Gens : /\ gen[g].st = "unborn"
                         /\ gen' = [gen EXCEPT ![g] = Started(t)]
                         /\ Push(Frame("open", t, c, g))
    BY <1>2 DEF OpenAgain, Fresh
  <2>3. PICK f \in FrameRec :
          f = Frame("open", t, c, g) /\ f.op = "open" /\ f.tab = t /\ f.cur = c /\ f.gen = g
    BY FrameParts
  <2>4. PICK n \in Nat :
          /\ StackKept(c, n) /\ n < Len(stack') /\ stack'[n + 1] = f
          /\ \A i \in 1..n : stack[i].cur # c
    <3>1. Push(f)
      BY <2>2, <2>3
    <3> QED
      BY <2>1, <2>3, <3>1, CallStack
  <2>5. gen'[g].tab = t /\ \A h \in Gens \ {g} : gen'[h] = gen[h]
    BY <2>2, HeldTypes DEF Started
  <2>6. GensKept(c, n) /\ OthersKept(c)
    BY <2>1, <2>2, <2>5 DEF GensKept, OthersKept
  <2>7. SchemaRead'
    BY <2>1, <2>4, <2>6, SchemaKept DEF Reading
  <2>8. FrameScan(stack[n + 1])'
    BY <2>3, <2>4, <2>5 DEF FrameScan
  <2>9. got'[c] = <<>> /\ Plain(got'[c])
    BY <2>1 DEF Reading, ScansOK, Plain
  <2>10. Reading'
    BY <2>1, <2>4, <2>6, <2>7, <2>8, <2>9, StepReads
  <2>11. RowPrivate(c) /\ Moves(c)
    BY <2>1 DEF RowPrivate, Moves, Phase
  <2> QED
    BY <2>4, <2>6, <2>10, <2>11 DEF OneScan
<1>3. ASSUME OpenReturn
      PROVE  \E c \in Cursors : Reading' /\ OneScan(c)
  <2>1. stack # <<>> /\ Top.op = "open" /\ Pop /\ UNCHANGED <<openedIter, got>>
    BY <1>3 DEF OpenReturn, Returning
  <2>2. PICK c \in Cursors, t \in Tables, g \in Gens :
          c = Top.cur /\ t = Top.tab /\ g = Top.gen /\ handle[c].st = "fresh"
    BY <2>1, TopFacts DEF FrameFits, FrameRec
  <2>3. PICK o \in Outcomes(g) :
          /\ gen' = [gen EXCEPT ![g] = Settled(g, o)]
          /\ o = "yield" => Place(t, c, g)
          /\ o # "yield" => /\ handle' = [handle EXCEPT ![c].st = "null"]
                            /\ UNCHANGED <<cursors, inst>>
    BY <1>3, <2>2 DEF OpenReturn
  <2>4. PICK n \in Nat :
          /\ StackKept(c, n) /\ n < Len(stack) /\ ~(n < Len(stack'))
          /\ stack[n + 1] = Top /\ \A i \in 1..n : stack[i].cur # c
          /\ ~Filtering(c)' /\ (Filtering(c) <=> Top.op \in FilterOps)
    BY <2>1, <2>2, ReturnStack
  <2>5. Top = stack[Len(stack)] /\ Len(stack) \in 1..Len(stack)
    BY <2>1, TopFacts DEF Top
  <2>6. FrameScan(Top) /\ FrameGen(Top) /\ Top.op \in NewOps
    BY <2>1, <2>5, FrameFacts DEF Reading, FramesScan, NewOps
  <2>7. gen[g].pos = 0 /\ gen[g].tab = t
    BY <2>2, <2>6 DEF FrameScan, FrameGen
  <2>8. gen'[g] = Settled(g, o) /\ \A h \in Gens \ {g} : gen'[h] = gen[h]
    BY <2>3, HeldTypes
  <2>9. GensKept(c, n)
    BY <2>2, <2>4, <2>6, <2>8 DEF GensKept
  <2>10. SchemaRead'
    BY <2>1, <2>4, <2>9, SchemaKept DEF Reading
  <2>11. CASE o = "yield"
    <3>1. gen'[g] = [st |-> "suspended", tab |-> t, pos |-> 1]
      BY <2>7, <2>8, <2>11 DEF Settled
    <3>2. Place(t, c, g)
      BY <2>3, <2>11
    <3> QED
      BY <2>1, <2>2, <2>4, <2>9, <2>10, <3>1, <3>2, PlacedReads
  <2>12. CASE o # "yield"
    <3>1. /\ handle'[c].st = "null" /\ \A d \in Cursors : d # c => handle'[d] = handle[d]
          /\ UNCHANGED inst
      BY <2>3, <2>12 DEF IInv, TypeOK, HandleRec
    <3>2. OthersKept(c)
      BY <2>1, <3>1 DEF OthersKept
    <3>3. Plain(got'[c])
      BY <2>1, <2>2 DEF Reading, ScansOK, Plain
    <3>4. Reading'
      BY <2>4, <2>9, <2>10, <3>1, <3>2, <3>3, StepReads
    <3>5. RowPrivate(c)
      BY <3>1 DEF RowPrivate
    <3>6. Faults # {}
      <4>1. RowCount[t] \in Nat
        BY ConstantsOK
      <4> QED
        BY <2>7, <2>12, <4>1 DEF Outcomes
    <3> QED
      BY <2>4, <3>2, <3>4, <3>5, <3>6 DEF OneScan
  <2> QED
    BY <2>11, <2>12
<1> QED
  <2>1. CASE OpenReturn
    BY <1>3, <2>1
  <2>2. CASE \E t \in Tables, c \in Cursors : OpenFirst(t, c) \/ OpenAgain(t, c)
    <3>1. PICK t \in Tables, c \in Cursors : OpenFirst(t, c) \/ OpenAgain(t, c)
      BY <2>2
    <3> QED
      BY <1>1, <1>2, <3>1
  <2> QED
    BY <2>1, <2>2

\* The first state has read nothing.
LEMMA InitReads == Init => Reading
BY DEF Init, Reading, ScansOK, ScanState, FramesScan, SchemaRead, RowsInOrder, NoHandle

\* Every step keeps Reading and answers one cursor at most.
LEMMA ReadingNext ==
    ASSUME IInv, Held, Reading, [Next]_vars
    PROVE  Reading' /\ \E k \in Cursors \cup {None} : OneScan(k)
<1>1. IInv'
    BY NextOK
<1>2. CASE Call
  <2>1. CASE \E t \in Tables : Create(t) \/ Destroy(t) \/ Disconnect(t)
    BY <1>1, <2>1, TablesRead
  <2>2. CASE \E t \in Tables, c \in Cursors : OpenFirst(t, c) \/ OpenAgain(t, c)
    BY <1>1, <2>2, OpensRead
  <2>3. ASSUME NEW c \in Cursors,
               \/ FilterFirst(c) \/ FilterClosed(c) \/ FilterAgain(c) \/ FilterRestart(c)
               \/ Next_(c) \/ NextFinished(c)
               \/ Close(c) \/ CloseFinished(c)
        PROVE  Reading' /\ OneScan(c)
    BY <1>1, <2>3, CallsRead, RestartReads, FinishedRead
  <2> QED
    BY <1>2, <2>1, <2>2, <2>3 DEF Call
<1>3. CASE Return
  <2>1. CASE CreateRetry \/ CreateReturn
    BY <1>1, <2>1, TablesRead
  <2>2. CASE OpenReturn
    BY <1>1, <2>2, OpensRead
  <2>3. CASE RecloseReturn \/ SkipReturn \/ FilterReturn \/ NextReturn \/ CloseReturn
    BY <1>1, <2>3, RecloseReturnReads, SkipReturnReads, FilterReturnReads, NextReturnReads,
       CloseReturnReads
  <2> QED
    BY <1>3, <2>1, <2>2, <2>3 DEF Return
<1>4. CASE UNCHANGED vars
    BY <1>1, <1>4, TablesRead
<1> QED
    BY <1>2, <1>3, <1>4 DEF Next

\* What the scans have read is known in every reachable state.
LEMMA ReadingInvariance == Spec => []Reading
<1>1. Init => Reading
    BY InitReads
<1>2. IInv /\ Held /\ Reading /\ [Next]_vars => Reading'
    BY ReadingNext
<1> QED
    BY <1>1, <1>2, Invariance, HeldInvariance, PTL DEF Spec

\* No scan skips or repeats a row, but for the last one SQLite reads.
THEOREM RowsReadInOrder == Spec => []RowsInOrder
<1>1. Reading => RowsInOrder
    BY DEF Reading
<1> QED
    BY <1>1, ReadingInvariance, PTL

\* A scan that is over has read its table, or tells why not.
LEMMA EndExplained == IInv /\ Reading => ShortScanExplained
<1> SUFFICES ASSUME IInv, Reading, NEW c \in Cursors, Ready(c), handle[c].scan = "eof"
             PROVE  \/ Len(got[c]) = RowCount[handle[c].tab] /\ ~Repeated(got[c])
                    \/ Repeated(got[c]) /\ gen[inst[c].iterNext].st = "failed"
                    \/ gen[inst[c].iterNext].st = "closed" /\ "interrupt" \in Faults
    BY DEF ShortScanExplained
<1>1. ~Filtering(c) /\ handle[c].st = "open"
    BY DEF Filtering, Ready, Busy
<1>2. AtEnd(c)
    BY <1>1 DEF Reading, ScansOK, ScanState
<1>3. PICK s \in Seq(Nat) : s = got[c]
    BY DEF IInv, TypeOK
<1>4. Plain(s) => ~Repeated(s)
  <2> SUFFICES ASSUME Plain(s), Len(s) > 1
               PROVE  s[Len(s)] # s[Len(s) - 1]
    BY DEF Repeated
  <2>1. Len(s) \in 1..Len(s) /\ Len(s) - 1 \in 1..Len(s)
    BY <1>3
  <2> QED
    BY <2>1 DEF Plain
<1>5. LastTwice(s) => Repeated(s)
  <2> SUFFICES ASSUME LastTwice(s)
               PROVE  Len(s) > 1 /\ s[Len(s)] = s[Len(s) - 1]
    BY DEF Repeated
  <2>1. Len(s) > 1 /\ s[Len(s)] = Len(s) - 1
    BY DEF LastTwice
  <2>2. Len(s) - 1 \in 1..(Len(s) - 1)
    BY <1>3, <2>1
  <2> QED
    BY <2>1, <2>2 DEF LastTwice
<1> QED
    BY <1>2, <1>3, <1>4, <1>5 DEF AtEnd, Shut

\* A scan that ends early repeated a row or lost its generator to an
\* interrupted scan of the same table.
THEOREM ShortScansExplained == Spec => []ShortScanExplained
BY EndExplained, Invariance, ReadingInvariance, PTL

\* A cursor whose row the step changes is the one it answers.
LEMMA RowsArePrivateNext ==
    ASSUME IInv, Held, Reading, Next
    PROVE  \A c \in Cursors : handle[c].st = "open" /\ inst[c].row' # inst[c].row =>
              got[c]' # got[c] \/ handle[c].scan' # handle[c].scan
<1>1. PICK k \in Cursors \cup {None} : OneScan(k)
    BY ReadingNext
<1> SUFFICES ASSUME NEW c \in Cursors, handle[c].st = "open", inst'[c].row # inst[c].row
             PROVE  got'[c] # got[c] \/ handle'[c].scan # handle[c].scan
    OBVIOUS
<1>2. c = k /\ c # None
    BY <1>1, HeldTypes DEF OneScan, OthersKept
<1> QED
    BY <1>1, <1>2 DEF OneScan, RowPrivate

\* A callback moves no other cursor's current row.
THEOREM RowsStayPrivate == Spec => RowsArePrivate
<1>1. IInv /\ Held /\ Reading /\ [Next]_vars =>
        [\A c \in Cursors : handle[c].st = "open" /\ inst[c].row' # inst[c].row =>
            got[c]' # got[c] \/ handle[c].scan' # handle[c].scan]_vars
    BY RowsArePrivateNext
<1> QED
    BY <1>1, Invariance, HeldInvariance, ReadingInvariance, PTL DEF Spec, RowsArePrivate

\* The first state is TableScan's.
LEMMA ScanInit == Init => Scan!Init
BY DEF Init, Scan!Init, NoHandle, Phase

\* Without exceptions every callback is a step of TableScan's, for the cursor
\* it answers, or none.
LEMMA ScanStep ==
    ASSUME Faults = {}, IInv, Held, Reading, [Next]_vars
    PROVE  [Scan!Next]_(Scan!vars)
<1>. DEFINE tb == [c \in Cursors |-> handle[c].tab]
            ph == [c \in Cursors |-> Phase(c)]
<1>1. PICK k \in Cursors \cup {None} : OneScan(k)
    BY ReadingNext
<1>2. PICK n : StackKept(k, n)
    BY <1>1 DEF OneScan
<1>3. ASSUME NEW c \in Cursors, c # k
      PROVE  tb'[c] = tb[c] /\ ph'[c] = ph[c] /\ got'[c] = got[c]
  <2>1. handle'[c] = handle[c] /\ got'[c] = got[c]
    BY <1>1, <1>3 DEF OneScan, OthersKept
  <2>2. Filtering(c)' <=> Filtering(c)
    BY <1>2, <1>3, FilteringKept
  <2>3. Phase(c)' = Phase(c)
    BY <2>1, <2>2 DEF Phase
  <2> QED
    BY <2>1, <2>3
<1>4. got \in [Cursors -> Seq(Nat)] /\ got' \in [Cursors -> Seq(Nat)]
    BY NextOK DEF IInv, TypeOK
<1>5. CASE k = None
  <2>1. \A c \in Cursors : tb'[c] = tb[c] /\ ph'[c] = ph[c] /\ got'[c] = got[c]
    BY <1>3, <1>5, HeldTypes
  <2>2. tb' = tb /\ ph' = ph /\ got' = got
    BY <1>4, <2>1
  <2> QED
    BY <2>2 DEF Scan!vars
<1>6. CASE k # None
  <2>1. k \in Cursors /\ Moves(k)
    BY <1>1, <1>6 DEF OneScan
  <2>2. tb[k] = handle[k].tab /\ tb'[k] = handle'[k].tab /\ ph[k] = Phase(k) /\ ph'[k] = Phase(k)'
    BY <2>1
  <2>3. \A a : (tb'[k] = a => tb' = [tb EXCEPT ![k] = a])
                  /\ (ph'[k] = a => ph' = [ph EXCEPT ![k] = a])
                  /\ (got'[k] = a => got' = [got EXCEPT ![k] = a])
    BY <1>3, <1>4, <2>1
  <2>4. /\ tb'[k] = tb[k] => tb' = tb
        /\ ph'[k] = ph[k] => ph' = ph
        /\ got'[k] = got[k] => got' = got
    BY <1>3, <1>4, <2>1
  <2>. HIDE DEF tb, ph
  <2>5. CASE Phase(k)' = Phase(k) /\ got'[k] = got[k] /\ handle'[k].tab = handle[k].tab
    BY <2>2, <2>4, <2>5 DEF Scan!vars, tb, ph
  <2>6. CASE /\ Phase(k) = "unused" /\ Phase(k)' = "idle"
             /\ got'[k] = got[k] /\ handle'[k].tab \in Tables
    <3>1. Scan!Open(handle'[k].tab, k)
      BY <2>2, <2>3, <2>4, <2>6 DEF Scan!Open, tb, ph
    <3> QED
      BY <2>1, <2>6, <3>1 DEF Scan!Next
  <2>7. CASE /\ Phase(k) \in {"idle", "row", "eof"} /\ Phase(k)' = "idle"
             /\ got'[k] = <<>> /\ handle'[k].tab = handle[k].tab
    <3>1. Scan!Rewind(k)
      BY <2>2, <2>3, <2>4, <2>7 DEF Scan!Rewind, tb, ph
    <3> QED
      BY <2>1, <3>1 DEF Scan!Next
  <2>8. CASE /\ Phase(k) \in {"idle", "row"} /\ Phase(k)' = "row"
             /\ Len(got[k]) < RowCount[handle[k].tab]
             /\ got'[k] = Append(got[k], Len(got[k]) + 1) /\ handle'[k].tab = handle[k].tab
    <3>1. Scan!Read(k)
      BY <2>2, <2>3, <2>4, <2>8 DEF Scan!Read, tb, ph
    <3> QED
      BY <2>1, <3>1 DEF Scan!Next
  <2>9. CASE /\ Phase(k) \in {"idle", "row"} /\ Phase(k)' = "eof"
             /\ Len(got[k]) = RowCount[handle[k].tab]
             /\ got'[k] = got[k] /\ handle'[k].tab = handle[k].tab
    <3>1. Scan!Finish(k)
      BY <2>2, <2>3, <2>4, <2>9 DEF Scan!Finish, tb, ph
    <3> QED
      BY <2>1, <3>1 DEF Scan!Next
  <2>10. CASE /\ Phase(k) \in {"idle", "row", "eof"} /\ Phase(k)' = "closed"
              /\ got'[k] = got[k] /\ handle'[k].tab = handle[k].tab
    <3>1. Scan!Close(k)
      BY <2>2, <2>3, <2>4, <2>10 DEF Scan!Close, tb, ph
    <3> QED
      BY <2>1, <3>1 DEF Scan!Next
  <2> QED
    BY <2>1, <2>5, <2>6, <2>7, <2>8, <2>9, <2>10 DEF Moves
<1> QED
    BY <1>5, <1>6

\* Without exceptions the callbacks over the generators are isolated iterators:
\* each open cursor reads the rows of its table as if it were alone.
THEOREM ScansAreIterators ==
    ASSUME Faults = {}
    PROVE  Spec => ImplementsTableScan
<1>1. Init => Scan!Init
    BY ScanInit
<1>2. IInv /\ Held /\ Reading /\ [Next]_vars => [Scan!Next]_(Scan!vars)
    BY ScanStep
<1> QED
    BY <1>1, <1>2, Invariance, HeldInvariance, ReadingInvariance, PTL
    DEF Spec, ImplementsTableScan, Scan!Spec
=============================================================================
