----------------------------- MODULE RecycleProofs -----------------------------
(***************************************************************************)
(* For every element type and every ring size: the cursors stay in range,  *)
(* no slot between them is unfilled, and the ring is a bounded FIFO queue. *)
(***************************************************************************)
EXTENDS Recycle, TLAPS

\* Advancing a cursor (recycle.h:82, :92, :136) is a step that wraps at Size.
LEMMA NextSlotWraps ==
  ASSUME NEW i \in Slots
  PROVE  /\ NextSlot(i) = IF i + 1 = Size THEN 0 ELSE i + 1
         /\ NextSlot(i) \in Slots
  BY SizeAssumption, SMT DEF Slots, NextSlot

\* Between the cursors lie fewer than Size elements, and their slots are slots.
LEMMA CountInRange ==
  ASSUME start \in Slots, end \in Slots
  PROVE  /\ Count \in 0..(Size - 1)
         /\ \A i \in 1..(Count + 1) : SlotOf(i) \in Slots
         /\ SlotOf(1) = start
         /\ SlotOf(Count + 1) = end
  BY SizeAssumption, SMT DEF Slots, Count, SlotOf

\* Different positions between the cursors are different slots, and none of the
\* held ones is the slot the next Push fills.
LEMMA SlotsDistinct ==
  ASSUME start \in Slots, end \in Slots,
         NEW i \in 1..(Count + 1), NEW j \in 1..(Count + 1), i # j
  PROVE  SlotOf(i) # SlotOf(j)
  BY SizeAssumption, SMT DEF Slots, Count, SlotOf

LEMMA FullIsCount ==
  ASSUME start \in Slots, end \in Slots
  PROVE  /\ Full <=> Count = Size - 1
         /\ Empty <=> Count = 0
  <1>1. NextSlot(end) = IF end + 1 = Size THEN 0 ELSE end + 1
    BY NextSlotWraps
  <1> QED
    BY <1>1, SizeAssumption, SMT DEF Slots, Full, Empty, Count


\* Push leaves the held slots where they are and adds the one end_ was on.
LEMMA PushMoves ==
  ASSUME TypeOK, ~Full, end' = NextSlot(end), start' = start
  PROVE  /\ end' \in Slots
         /\ Count' = Count + 1
         /\ \A i \in 1..(Count + 1) : SlotOf(i)' = SlotOf(i)
  <1>1. end' = IF end + 1 = Size THEN 0 ELSE end + 1
    BY NextSlotWraps DEF TypeOK
  <1>2. Count # Size - 1
    BY FullIsCount DEF TypeOK
  <1> QED
    BY <1>1, <1>2, SizeAssumption, SMT DEF TypeOK, Slots, Count, SlotOf

\* Moving start_ to the slot of position n + 1 removes the n oldest positions.
LEMMA DropMoves ==
  ASSUME TypeOK, NEW n \in 0..Count, start' = SlotOf(n + 1), end' = end
  PROVE  /\ start' \in Slots
         /\ Count' = Count - n
         /\ \A i \in 1..(Count - n) : SlotOf(i)' = SlotOf(i + n)
  BY SizeAssumption, SMT DEF TypeOK, Slots, Count, SlotOf

\* Pop is a move of start_ by one position.
LEMMA PopDropsOne ==
  ASSUME TypeOK, ~Empty
  PROVE  /\ 1 \in 0..Count
         /\ NextSlot(start) = SlotOf(2)
  <1>1. NextSlot(start) = IF start + 1 = Size THEN 0 ELSE start + 1
    BY NextSlotWraps DEF TypeOK
  <1> QED
    BY <1>1, SizeAssumption, SMT DEF TypeOK, Slots, Count, SlotOf, Empty

--------------------------------------------------------------------------------
IInv == TypeOK /\ HeldSlotsAreFilled

LEMMA InitIInv == Init => IInv
  BY SizeAssumption, SMT
  DEF Init, IInv, TypeOK, HeldSlotsAreFilled, Slots, Count, SlotOf, Result

LEMMA PushIInv ==
  ASSUME IInv, NEW d \in Data, Push(d)
  PROVE  IInv'
  <1> USE DEF IInv
  <1>1. CASE Full /\ ret' = Result("Full", NoData)
                  /\ UNCHANGED <<holder, start, end>>
    BY <1>1 DEF TypeOK, HeldSlotsAreFilled, Result, Slots, Count, SlotOf
  <1>2. CASE /\ ~Full
             /\ holder' = [holder EXCEPT ![end] = d]
             /\ end' = NextSlot(end)
             /\ ret' = Result("OK", NoData)
             /\ UNCHANGED start
    <2>1. /\ end' \in Slots
          /\ Count' = Count + 1
          /\ \A i \in 1..(Count + 1) : SlotOf(i)' = SlotOf(i)
      BY <1>2, PushMoves
    <2>2. TypeOK'
      BY <1>2, <2>1 DEF TypeOK, Result, Slots
    <2>3. ASSUME NEW i \in 1..(Count + 1)
          PROVE  holder'[SlotOf(i)'] \in Data
      <3>1. Count \in Nat /\ SlotOf(i) \in Slots /\ SlotOf(Count + 1) = end
        BY CountInRange, SizeAssumption DEF TypeOK
      <3>2. CASE i = Count + 1
        BY <3>1, <3>2, <2>1, <1>2 DEF TypeOK
      <3>3. CASE i # Count + 1
        <4>1. i \in 1..Count
          BY <3>1, <3>3
        <4>2. holder[SlotOf(i)] \in Data
          BY <4>1 DEF HeldSlotsAreFilled
        <4> QED
          BY <3>1, <4>2, <2>1, <1>2 DEF TypeOK
      <3> QED
        BY <3>2, <3>3
    <2> QED
      BY <2>1, <2>2, <2>3 DEF HeldSlotsAreFilled
  <1> QED
    BY <1>1, <1>2 DEF Push

\* What Pop and EraseUntil share: dropping the n oldest.
LEMMA DropIInv ==
  ASSUME IInv, NEW n \in 0..Count, start' = SlotOf(n + 1),
         UNCHANGED <<holder, end>>
  PROVE  HeldSlotsAreFilled' /\ start' \in Slots
  <1>1. /\ start' \in Slots
        /\ Count' = Count - n
        /\ \A i \in 1..(Count - n) : SlotOf(i)' = SlotOf(i + n)
    BY DropMoves DEF IInv
  <1>2. Count \in Nat
    BY CountInRange, SizeAssumption DEF IInv, TypeOK
  <1>3. ASSUME NEW i \in 1..(Count - n)
        PROVE  holder[SlotOf(i + n)] \in Data
    <2>1. i + n \in 1..Count
      BY <1>2
    <2> QED
      BY <2>1 DEF IInv, HeldSlotsAreFilled
  <1> QED
    BY <1>1, <1>3 DEF HeldSlotsAreFilled

LEMMA PopIInv ==
  ASSUME IInv, Pop
  PROVE  IInv'
  <1>1. CASE Empty /\ ret' = Result("Empty", NoData)
                   /\ UNCHANGED <<holder, start, end>>
    BY <1>1 DEF IInv, TypeOK, HeldSlotsAreFilled, Result, Slots, Count, SlotOf
  <1>2. CASE /\ ~Empty
             /\ ret' = Result("OK", holder[start])
             /\ start' = NextSlot(start)
             /\ UNCHANGED <<holder, end>>
    <2>1. 1 \in 0..Count /\ start' = SlotOf(1 + 1)
      BY <1>2, PopDropsOne DEF IInv
    <2>2. HeldSlotsAreFilled' /\ start' \in Slots
      BY <2>1, <1>2, DropIInv
    <2> QED
      BY <1>2, <2>2 DEF IInv, TypeOK, Result, Slots
  <1> QED
    BY <1>1, <1>2 DEF Pop

LEMMA NextIInv == IInv /\ [Next]_vars => IInv'
  <1> SUFFICES ASSUME IInv, [Next]_vars
               PROVE  IInv'
    OBVIOUS
  <1>1. ASSUME NEW d \in Data, Push(d) PROVE IInv'
    BY <1>1, PushIInv
  <1>2. CASE Pop
    BY <1>2, PopIInv
  <1>3. ASSUME NEW n \in 0..Count, EraseUntil(n) PROVE IInv'
    <2>1. HeldSlotsAreFilled' /\ start' \in Slots
      BY <1>3, DropIInv DEF EraseUntil
    <2> QED
      BY <1>3, <2>1 DEF EraseUntil, IInv, TypeOK, Result, Slots
  <1>4. CASE UNCHANGED vars
    BY <1>4 DEF vars, IInv, TypeOK, HeldSlotsAreFilled, Slots, Count, SlotOf
  <1> QED
    BY <1>1, <1>2, <1>3, <1>4 DEF Next

\* The cursors stay inside the vector for every size (recycle.h:77-94).
THEOREM TypeCorrect == Spec => []TypeOK
  <1>1. IInv => TypeOK
    BY DEF IInv
  <1> QED
    BY <1>1, InitIInv, NextIInv, PTL DEF Spec

\* Pop never hands out a slot no Push filled (recycle.h:86-94): the reader
\* Upstream::OnServerRead dereferences is one PushRequest stored.
THEOREM HeldAreFilled == Spec => []HeldSlotsAreFilled
  <1>1. IInv => HeldSlotsAreFilled
    BY DEF IInv
  <1> QED
    BY <1>1, InitIInv, NextIInv, PTL DEF Spec


--------------------------------------------------------------------------------
LEMMA ContentsIsSequence ==
  ASSUME IInv
  PROVE  /\ Count \in Nat
         /\ Contents \in Seq(Data)
         /\ Len(Contents) = Count
         /\ \A i \in 1..Count : Contents[i] = holder[SlotOf(i)]
  <1>1. Count \in Nat
    BY CountInRange, SizeAssumption DEF IInv, TypeOK
  <1> QED
    BY <1>1 DEF IInv, HeldSlotsAreFilled, Contents

\* Two sequences of the same length that agree everywhere are the same.
LEMMA SameSequence ==
  ASSUME NEW s \in Seq(Data), NEW t \in Seq(Data), Len(s) = Len(t),
         \A i \in 1..Len(s) : s[i] = t[i]
  PROVE  s = t
  OBVIOUS

LEMMA PushRefines ==
  ASSUME IInv, NEW d \in Data, Push(d)
  PROVE  Fifo!Push(d)
  <1> USE DEF IInv
  <1>0. Count \in Nat /\ Contents \in Seq(Data) /\ Len(Contents) = Count
    BY ContentsIsSequence
  <1>1. CASE Full /\ ret' = Result("Full", NoData)
                  /\ UNCHANGED <<holder, start, end>>
    <2>1. Contents' = Contents
      BY <1>1 DEF Contents, Count, SlotOf
    <2>2. Count = Size - 1
      BY <1>1, FullIsCount DEF TypeOK
    <2> QED
      BY <1>0, <1>1, <2>1, <2>2, SizeAssumption DEF Fifo!Push, Fifo!Result, Result
  <1>2. CASE /\ ~Full
             /\ holder' = [holder EXCEPT ![end] = d]
             /\ end' = NextSlot(end)
             /\ ret' = Result("OK", NoData)
             /\ UNCHANGED start
    <2>1. /\ Count' = Count + 1
          /\ \A i \in 1..(Count + 1) : SlotOf(i)' = SlotOf(i)
      BY <1>2, PushMoves
    <2>2. Count < Size - 1
      BY <1>0, <1>2, FullIsCount, CountInRange, SizeAssumption DEF TypeOK
    <2>3. /\ IInv'
          /\ Contents' \in Seq(Data) /\ Len(Contents') = Count + 1
          /\ \A i \in 1..(Count + 1) : Contents'[i] = holder'[SlotOf(i)]
      <3>1. HeldSlotsAreFilled' /\ IInv'
        BY PushIInv
      <3>2. Contents' = [i \in 1..(Count + 1) |-> holder'[SlotOf(i)]]
        BY <2>1 DEF Contents
      <3>3. \A i \in 1..(Count + 1) : holder'[SlotOf(i)] \in Data
        BY <3>1, <2>1 DEF HeldSlotsAreFilled
      <3> QED
        BY <1>0, <3>1, <3>2, <3>3
    <2>4. ASSUME NEW i \in 1..(Count + 1)
          PROVE  Contents'[i] = Append(Contents, d)[i]
      <3>1. SlotOf(i) \in Slots /\ SlotOf(Count + 1) = end
        BY CountInRange, SizeAssumption DEF TypeOK
      <3>2. CASE i = Count + 1
        BY <1>0, <1>2, <2>3, <3>1, <3>2 DEF TypeOK
      <3>3. CASE i # Count + 1
        <4>1. i \in 1..Count /\ Count + 1 \in 1..(Count + 1)
          BY <1>0, <3>3
        <4>2. SlotOf(i) # end
          BY <3>1, <3>3, <4>1, SlotsDistinct DEF TypeOK
        <4>3. Append(Contents, d)[i] = holder[SlotOf(i)]
          BY <1>0, <4>1, ContentsIsSequence
        <4> QED
          BY <1>2, <2>3, <3>1, <4>2, <4>3 DEF TypeOK
      <3> QED
        BY <3>2, <3>3
    <2>5. Append(Contents, d) \in Seq(Data) /\ Len(Append(Contents, d)) = Count + 1
      BY <1>0
    <2>6. Contents' = Append(Contents, d)
      BY <2>3, <2>4, <2>5, SameSequence
    <2> QED
      BY <1>0, <1>2, <2>2, <2>6 DEF Fifo!Push, Fifo!Result, Result
  <1> QED
    BY <1>1, <1>2 DEF Push

\* Dropping the n oldest positions of the ring drops them from its contents.
LEMMA DropRefines ==
  ASSUME IInv, NEW n \in 0..Count, start' = SlotOf(n + 1),
         UNCHANGED <<holder, end>>
  PROVE  Contents' = SubSeq(Contents, n + 1, Len(Contents))
  <1>1. /\ Count' = Count - n
        /\ \A i \in 1..(Count - n) : SlotOf(i)' = SlotOf(i + n)
    BY DropMoves DEF IInv
  <1>2. /\ Count \in Nat /\ Contents \in Seq(Data) /\ Len(Contents) = Count
        /\ \A i \in 1..Count : Contents[i] = holder[SlotOf(i)]
    BY ContentsIsSequence
  <1>3. /\ Contents' \in Seq(Data) /\ Len(Contents') = Count - n
        /\ \A i \in 1..(Count - n) : Contents'[i] = holder[SlotOf(i + n)]
    <2>1. HeldSlotsAreFilled'
      BY DropIInv
    <2> QED
      BY <1>1, <1>2, <2>1 DEF Contents, HeldSlotsAreFilled
  <1> DEFINE rest == SubSeq(Contents, n + 1, Len(Contents))
  <1>4. /\ rest \in Seq(Data) /\ Len(rest) = Count - n
        /\ \A i \in 1..(Count - n) : rest[i] = Contents[i + n]
    BY <1>2
  <1>5. ASSUME NEW i \in 1..(Count - n)
        PROVE  Contents'[i] = rest[i]
    <2>1. i + n \in 1..Count
      BY <1>2
    <2> QED
      BY <1>2, <1>3, <1>4, <2>1
  <1> HIDE DEF rest
  <1>6. Contents' = rest
    BY <1>3, <1>4, <1>5, SameSequence
  <1> QED
    BY <1>6 DEF rest

LEMMA PopRefines ==
  ASSUME IInv, Pop
  PROVE  Fifo!Pop
  <1>0. /\ Count \in Nat /\ Contents \in Seq(Data) /\ Len(Contents) = Count
        /\ \A i \in 1..Count : Contents[i] = holder[SlotOf(i)]
    BY ContentsIsSequence
  <1>1. CASE Empty /\ ret' = Result("Empty", NoData)
                   /\ UNCHANGED <<holder, start, end>>
    <2>1. Contents' = Contents
      BY <1>1 DEF Contents, Count, SlotOf
    <2>2. Count = 0
      BY <1>1, FullIsCount DEF IInv, TypeOK
    <2> QED
      BY <1>0, <1>1, <2>1, <2>2 DEF Fifo!Pop, Fifo!Result, Result
  <1>2. CASE /\ ~Empty
             /\ ret' = Result("OK", holder[start])
             /\ start' = NextSlot(start)
             /\ UNCHANGED <<holder, end>>
    <2>1. 1 \in 0..Count /\ start' = SlotOf(1 + 1)
      BY <1>2, PopDropsOne DEF IInv
    <2>2. Contents' = SubSeq(Contents, 1 + 1, Len(Contents))
      BY <1>2, <2>1, DropRefines
    <2>3. Contents # <<>> /\ Contents' = Tail(Contents)
      BY <1>0, <2>1, <2>2
    <2>4. SlotOf(1) = start
      BY CountInRange DEF IInv, TypeOK
    <2>5. Head(Contents) = holder[start]
      BY <1>0, <2>1, <2>4
    <2> QED
      BY <1>2, <2>3, <2>5 DEF Fifo!Pop, Fifo!Result, Result
  <1> QED
    BY <1>1, <1>2 DEF Pop

\* For every element type and ring size the ring is a bounded first-in-first-out
\* queue of Size - 1 elements (recycle.h:77-94, EraseUntil recycle.h:71-75).
THEOREM RingIsFifo == Spec => FifoSpec
  <1>1. Init => Fifo!Init
    BY SizeAssumption, SMT DEF Init, Fifo!Init, Contents, Count, Result, Fifo!Result
  <1>2. IInv /\ [Next]_vars => [Fifo!Next]_Fifo!vars
    <2> SUFFICES ASSUME IInv, [Next]_vars
                 PROVE  [Fifo!Next]_Fifo!vars
      OBVIOUS
    <2>1. ASSUME NEW d \in Data, Push(d) PROVE Fifo!Next
      BY <2>1, PushRefines DEF Fifo!Next
    <2>2. CASE Pop
      BY <2>2, PopRefines DEF Fifo!Next
    <2>3. ASSUME NEW n \in 0..Count, EraseUntil(n) PROVE Fifo!Next
      <3>1. Contents' = SubSeq(Contents, n + 1, Len(Contents))
        BY <2>3, DropRefines DEF EraseUntil
      <3>2. n \in 0..Len(Contents)
        BY ContentsIsSequence
      <3>3. Fifo!Drop(n)
        BY <2>3, <3>1 DEF EraseUntil, Fifo!Drop, Fifo!Result, Result
      <3> QED
        BY <3>2, <3>3 DEF Fifo!Next
    <2>4. CASE UNCHANGED vars
      BY <2>4 DEF vars, Fifo!vars, Contents, Count, SlotOf
    <2> QED
      BY <2>1, <2>2, <2>3, <2>4 DEF Next
  <1> QED
    BY <1>1, <1>2, InitIInv, NextIInv, PTL DEF Spec, FifoSpec, Fifo!Spec

================================================================================
