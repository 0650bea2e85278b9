-------------------------------- MODULE Recycle --------------------------------
(***************************************************************************)
(* Recycle<T> of recycle.h: a ring over a vector of Size slots with the    *)
(* cursors start_ and end_.  The slot before start_ is never filled, so    *)
(* Size - 1 elements fit.  Upstream::cmdQueue_ is a Recycle<ReaderPair> of *)
(* ConnSendBufferCount slots.                                              *)
(***************************************************************************)
EXTENDS Naturals, Sequences

CONSTANTS Data,      \* the element type T
          NoData,    \* a value-initialised T: what resize() puts in every slot
          Size       \* holder_.size()

\* holder_.size() = 0 makes every Push a division by zero.
ASSUME SizeAssumption == Size \in Nat \ {0}
ASSUME RingDataAssumption == NoData \notin Data

VARIABLES holder,   \* holder_
          start,    \* start_: the oldest element
          end,      \* end_: the slot the next Push fills
          ret       \* what the last call returned

vars == <<holder, start, end, ret>>

Slots == 0..(Size - 1)

\* Fault: the cursor does not wrap around.
NextSlotUnwrapped(i) == i + 1

\* (i + 1) % holder_.size(), also Iterator<T>::Next.
NextSlot(i) == (i + 1) % Size

Empty == start = end

\* Fault: the cursor is compared before it is advanced.
FullUnadvanced == end = start

Full == NextSlot(end) = start

Result(err, data) == [err |-> err, data |-> data]

TypeOK == /\ holder \in [Slots -> Data \union {NoData}]
          /\ start \in Slots
          /\ end \in Slots
          /\ ret \in [err : {"OK", "Full", "Empty"}, data : Data \union {NoData}]

\* How many elements lie between the cursors.
Count == IF start <= end THEN end - start ELSE (end + Size) - start

\* The slot of the i-th oldest element, i \in 1..Count; Count + 1 is end itself.
SlotOf(i) == IF start + i <= Size THEN (start + i) - 1 ELSE (start + i) - (Size + 1)

Init == /\ holder = [i \in Slots |-> NoData]
        /\ start = 0
        /\ end = 0
        /\ ret = Result("OK", NoData)

Push(d) == \/ /\ Full
              /\ ret' = Result("Full", NoData)
              /\ UNCHANGED <<holder, start, end>>
           \/ /\ ~Full
              /\ holder' = [holder EXCEPT ![end] = d]
              /\ end' = NextSlot(end)
              /\ ret' = Result("OK", NoData)
              /\ UNCHANGED start

Pop == \/ /\ Empty
          /\ ret' = Result("Empty", NoData)
          /\ UNCHANGED <<holder, start, end>>
       \/ /\ ~Empty
          /\ ret' = Result("OK", holder[start])
          /\ start' = NextSlot(start)
          /\ UNCHANGED <<holder, end>>

\* Fault: the element at the iterator is erased as well.
EraseThrough(n) == /\ start' = NextSlot(SlotOf(n + 1))
                   /\ ret' = Result("OK", NoData)
                   /\ UNCHANGED <<holder, end>>

\* EraseUntil(it) for an iterator that FromBegin put on start_ and Next moved
\* n times, at most until Eof.
EraseUntil(n) == /\ start' = SlotOf(n + 1)
                 /\ ret' = Result("OK", NoData)
                 /\ UNCHANGED <<holder, end>>

Next == \/ \E d \in Data : Push(d)
        \/ Pop
        \/ \E n \in 0..Count : EraseUntil(n)

Spec == Init /\ [][Next]_vars

--------------------------------------------------------------------------------
(* What the ring holds, oldest first: the refinement mapping. *)
Contents == [i \in 1..Count |-> holder[SlotOf(i)]]

Fifo == INSTANCE BoundedFifo WITH q <- Contents, Capacity <- Size - 1

\* The ring is a bounded first-in-first-out queue of Size - 1 elements: wrapping
\* around never drops, repeats, reorders or overwrites an element still held
\* (recycle.h Push, Pop, EraseUntil), and Full / Empty are told apart.
FifoSpec == Fifo!Spec

\* No slot between the cursors is one that was never filled, so Pop never hands
\* out a value-initialised ReaderPair, whose reader is nullptr (recycle.h:86-94,
\* upstream.cpp:216 dereferences it unchecked).
HeldSlotsAreFilled == \A i \in 1..Count : holder[SlotOf(i)] \in Data
================================================================================
