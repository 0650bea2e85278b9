---------------------------------- MODULE Buffer ----------------------------------
(***************************************************************************)
(* Buffer (buffer.cpp) on the reference-counted blocks of mem_alloc.cpp:   *)
(* several Buffers may look at ranges of one block, and the block goes     *)
(* when the last of them does.                                             *)
(*                                                                         *)
(* There are no variables: a heap h is the state of every block, and an    *)
(* operation on a Buffer b is an operator from a heap and a Buffer to what *)
(* they become.  Temporaries that a call creates and destroys leave the    *)
(* counts as they were and do not appear.  Allocations succeed.            *)
(***************************************************************************)
EXTENDS Naturals, Sequences, FiniteSets

CONSTANTS Blocks,   \* bound: how many blocks there are at a time
          Null      \* data_ of a Buffer without a block

ASSUME BlocksAssumption == Blocks # {} /\ Null \notin Blocks

\* A byte that was allocated and not written.
Junk == <<"junk", 0>>

NoBlock == [refs |-> 0, bytes |-> <<>>]

EmptyHeap == [d \in Blocks |-> NoBlock]

EmptyBuffer == [data |-> Null, size |-> 0, offset |-> 0]

Capacity(h, b) == IF b.data = Null THEN 0 ELSE Len(h[b.data].bytes)

Size(b) == b.size - b.offset

FreeSize(h, b) == IF b.data = Null THEN 0 ELSE Capacity(h, b) - b.size

\* What a reader of the Buffer sees.
Contents(h, b) ==
  IF b.data = Null THEN <<>> ELSE SubSeq(h[b.data].bytes, b.offset + 1, b.size)

\* memcpy to position at of a block.
Overwrite(bytes, at, data) ==
  [i \in 1..Len(bytes) |->
     IF i \in (at + 1)..(at + Len(data)) THEN data[i - at] ELSE bytes[i]]

--------------------------------------------------------------------------------
(* mem_alloc *)

\* The block malloc returns: which one it is makes no difference.
Unallocated(h) == CHOOSE d \in Blocks : h[d].refs = 0

AllocRef(h, d, size) ==
  [h EXCEPT ![d] = [refs |-> 1, bytes |-> [i \in 1..size |-> Junk]]]

IncrRef(h, d) == [h EXCEPT ![d].refs = @ + 1]

\* Fault: a block is freed while one Buffer still looks at it.
DescRefEarly(h, d) ==
  IF h[d].refs <= 2 THEN [h EXCEPT ![d] = NoBlock] ELSE [h EXCEPT ![d].refs = @ - 1]

DescRef(h, d) ==
  IF h[d].refs = 1 THEN [h EXCEPT ![d] = NoBlock] ELSE [h EXCEPT ![d].refs = @ - 1]

--------------------------------------------------------------------------------
(* Buffer *)

\* ~Buffer
Destroyed(h, b) == IF b.data = Null THEN h ELSE DescRef(h, b.data)

\* Clear keeps a block that is the Buffer's own.
Clear(h, b) ==
  IF b.data # Null /\ h[b.data].refs > 1
  THEN [heap |-> DescRef(h, b.data), buf |-> EmptyBuffer]
  ELSE [heap |-> h, buf |-> [data |-> b.data, size |-> 0, offset |-> 0]]

SmallerOf(i, j) == IF i < j THEN i ELSE j

\* Offset( start, -back ): start bytes fewer in front, back fewer at the end.
Offset(b, start, back) ==
  LET size == IF b.size > back THEN b.size - back ELSE 0 IN
  [data |-> b.data, size |-> size, offset |-> SmallerOf(b.offset + start, size)]

\* AppendCapacity moves the bytes to the front of their own block.  memcpy is called
\* with overlapping ranges if they are more than what was dropped in front of them.
Compacted(h, b) ==
  [heap |-> [h EXCEPT ![b.data].bytes = Overwrite(@, 0, Contents(h, b))],
   buf |-> [data |-> b.data, size |-> Size(b), offset |-> 0],
   overlap |-> Size(b) > b.offset]

\* Fault: the offset is kept although the bytes move to the front of the new block.
ReallocatedKeepsOffset(h, b, capacity) ==
  LET d == Unallocated(h)
      new == AllocRef(h, d, capacity) IN
  [heap |-> DescRef([new EXCEPT ![d].bytes = Overwrite(@, 0, Contents(h, b))], b.data),
   buf |-> [data |-> d, size |-> b.size, offset |-> b.offset],
   overlap |-> FALSE]

\* AppendCapacity moves the bytes to a block of their own.
Reallocated(h, b, capacity) ==
  LET d == Unallocated(h)
      new == AllocRef(h, d, capacity) IN
  [heap |-> DescRef([new EXCEPT ![d].bytes = Overwrite(@, 0, Contents(h, b))], b.data),
   buf |-> [data |-> d, size |-> Size(b), offset |-> 0],
   overlap |-> FALSE]

Allocated(h, capacity) ==
  LET d == Unallocated(h) IN
  [heap |-> AllocRef(h, d, capacity),
   buf |-> [data |-> d, size |-> 0, offset |-> 0],
   overlap |-> FALSE]

Kept(h, b) == [heap |-> h, buf |-> b, overlap |-> FALSE]

\* Fault: a block is compacted whoever else looks at it.
AppendCapacityMovesShared(h, b, size) ==
  LET need == size + b.size
      short == need - Capacity(h, b) IN
  IF need <= Capacity(h, b) THEN Kept(h, b)
  ELSE IF b.data = Null THEN Allocated(h, need)
  ELSE IF b.offset >= short THEN Compacted(h, b)
  ELSE Reallocated(h, b, need - b.offset)

\* Makes room for size more bytes.
AppendCapacity(h, b, size) ==
  LET need == size + b.size
      short == need - Capacity(h, b) IN
  IF need <= Capacity(h, b) THEN Kept(h, b)
  ELSE IF b.data = Null THEN Allocated(h, need)
  ELSE IF h[b.data].refs = 1 /\ b.offset >= short THEN Compacted(h, b)
  ELSE Reallocated(h, b, need - b.offset)

\* What read() or memcpy puts behind the last byte of m's Buffer, and AppendSize.
Filled(m, data) ==
  [m EXCEPT !.heap[m.buf.data].bytes = Overwrite(@, m.buf.size, data),
            !.buf.size = @ + Len(data)]

\* Append( const char*, size_t ), given the bytes.
AppendBytes(h, b, data) == Filled(AppendCapacity(h, b, Len(data)), data)

\* Append( const Buffer&, size_t ): size 0 stands for all of it, and a Buffer without
\* a block shares that of src.
AppendBuffer(h, b, src, size) ==
  LET n == IF size = 0 THEN Size(src) ELSE size IN
  IF b.data = Null
  THEN [heap |-> IncrRef(h, src.data),
        buf |-> [data |-> src.data, size |-> src.offset + n, offset |-> src.offset],
        overlap |-> FALSE]
  ELSE IF b.data = src.data
  THEN [heap |-> h, buf |-> [b EXCEPT !.size = @ + n], overlap |-> FALSE]
  ELSE AppendBytes(h, b, SubSeq(Contents(h, src), 1, n))

--------------------------------------------------------------------------------
(* What the Buffers bufs, and nobody else, make of a heap that is used right. *)

InBounds(h, b) ==
  /\ b.data \in Blocks \union {Null}
  /\ b.offset <= b.size
  /\ b.size <= Capacity(h, b)

\* bufs is the sequence of all Buffers there are.
Counted(h, bufs) ==
  /\ \A i \in 1..Len(bufs) : InBounds(h, bufs[i])
  /\ \A d \in Blocks :
       h[d].refs = Cardinality({i \in 1..Len(bufs) : bufs[i].data = d})
================================================================================
