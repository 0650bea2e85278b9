------------------------------ MODULE BoundedFifo ------------------------------
(***************************************************************************)
(* What a user of Recycle<T> (recycle.h) may rely on: a first-in-first-out *)
(* queue that refuses a Push when Capacity elements are held and refuses a *)
(* Pop when none is.  Upstream uses it as cmdQueue_, the record of which   *)
(* reader waits for the next reply.  Recycle.tla is shown to implement it. *)
(***************************************************************************)
EXTENDS Naturals, Sequences

CONSTANTS Data,      \* the element type T
          NoData,    \* "no element was handed out"
          Capacity   \* how many elements can be held

VARIABLES q,     \* the elements held, oldest first
          ret    \* what the last call returned: its error and the popped element

vars == <<q, ret>>

Errors == {"OK", "Full", "Empty"}

Result(err, data) == [err |-> err, data |-> data]

TypeOK == /\ q \in Seq(Data)
          /\ Len(q) <= Capacity
          /\ ret \in [err : Errors, data : Data \union {NoData}]

Init == /\ q = <<>>
        /\ ret = Result("OK", NoData)

Push(d) == \/ /\ Len(q) < Capacity
              /\ q' = Append(q, d)
              /\ ret' = Result("OK", NoData)
           \/ /\ Len(q) >= Capacity
              /\ ret' = Result("Full", NoData)
              /\ UNCHANGED q

Pop == \/ /\ q # <<>>
          /\ q' = Tail(q)
          /\ ret' = Result("OK", Head(q))
       \/ /\ q = <<>>
          /\ ret' = Result("Empty", NoData)
          /\ UNCHANGED q

\* Drop the n oldest elements at once.
Drop(n) == /\ q' = SubSeq(q, n + 1, Len(q))
           /\ ret' = Result("OK", NoData)

Next == \/ \E d \in Data : Push(d)
        \/ Pop
        \/ \E n \in 0..Len(q) : Drop(n)

Spec == Init /\ [][Next]_vars

================================================================================
