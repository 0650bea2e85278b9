---------------------------- MODULE ClientBytesProofs ----------------------------
(***************************************************************************)
(* Theorems about ClientBytes.tla, for every set of streams, every size of *)
(* the read buffer and every number of blocks: the memory of a session is  *)
(* accounted for (IInv), no byte of an argument is dropped, repeated or    *)
(* overtaken (StandInv), the arguments pushed are those that were sent     *)
(* (ExactInv), and for plain commands the bytes implement ClientStream.tla *)
(* (StreamInv).  Each invariant contains the one before it.  The lemmas    *)
(* are in the order of the code: the parsers of one request, a turn of     *)
(* OnClientRead's loop, the loop, a read.                                  *)
(***************************************************************************)
EXTENDS ClientBytes, OperatorProofs

--------------------------------------------------------------------------------
(* What a client sends is a sequence of bytes, and so is what is read of it. *)

LEMMA BytesTyped ==
  ASSUME NEW s \in Streams
  PROVE  Bytes[s] \in Seq(Byte) /\ Length(s) \in Nat
  <1>1. /\ s \in Seq(Command)
        /\ \A c \in 1..Len(s) :
             s[c].args \in Seq(Nat) /\ s[c].gap \in Nat /\ Len(s[c].args) \in Nat
    <2>1. s \in Seq(Command)
      BY StreamsAssumption
    <2>2. \A c \in 1..Len(s) : s[c] \in Command
      BY <2>1
    <2>3. \A x \in Command : x.args \in Seq(Nat) /\ x.gap \in Nat /\ Len(x.args) \in Nat
      BY DEF Command
    <2> QED BY <2>1, <2>2, <2>3
  <1>2. Cr \in Byte /\ Lf \in Byte /\ Sp \in Byte /\ <<>> \in Seq(Byte)
    BY DEF Cr, Lf, Sp, Byte, Kinds
  <1>3. ASSUME NEW c \in 1..Len(s), NEW i \in 1..Len(s[c].args)
        PROVE  Argument(s, c, i) \in Seq(Byte)
    <2>1. s[c].args[i] \in Nat /\ c \in Nat /\ i \in Nat
      BY <1>1
    <2>2. \A k \in 1..s[c].args[i] : 100 * c + 10 * i + k \in Nat
      BY <2>1
    <2> DEFINE len == s[c].args[i]
    <2>3. \A k \in 1..len : <<"byte", 100 * c + 10 * i + k>> \in Byte
      <3>1. \A n \in Nat : <<"byte", n>> \in Byte
        BY DEF Byte, Kinds
      <3> QED BY <2>2, <3>1
    <2> HIDE DEF len
    <2> DEFINE byte(k) == <<"byte", 100 * c + 10 * i + k>>
    <2>4. len \in Nat /\ \A k \in 1..len : byte(k) \in Byte
      BY <2>1, <2>3 DEF len
    <2>5. Argument(s, c, i) = [k \in 1..len |-> byte(k)]
      BY DEF Argument, len
    <2> HIDE DEF byte
    <2>6. [k \in 1..len |-> byte(k)] \in Seq(Byte)
      BY <2>4
    <2> QED BY <2>5, <2>6
  <1>4. ASSUME NEW c \in 1..Len(s), NEW i \in 1..Len(s[c].args)
        PROVE  Part(s, c, i) \in Seq(Byte)
    <2>1. <<"$", s[c].args[i]>> \in Byte
      <3>1. \A n \in Nat : <<"$", n>> \in Byte
        BY DEF Byte, Kinds
      <3>2. s[c].args[i] \in Nat
        BY <1>1
      <3> QED BY <3>1, <3>2
    <2>2. <<<<"$", s[c].args[i]>>, Lf>> \in Seq(Byte) /\ <<Cr, Lf>> \in Seq(Byte)
      BY <1>2, <2>1
    <2>3. [k \in 1..s[c].gap |-> Sp] \in Seq(Byte)
      <3>1. \A n \in Nat : [k \in 1..n |-> Sp] \in Seq(Byte)
        BY <1>2
      <3> QED BY <1>1, <3>1, Zenon
    <2>4. Argument(s, c, i) \in Seq(Byte)
      BY <1>3
    <2> QED BY <2>2, <2>3, <2>4 DEF Part
  <1>5. ASSUME NEW c \in 1..Len(s) PROVE Encoded(s, c) \in Seq(Byte)
    <2>1. Header(s, c) \in Seq(Byte)
      <3>1. \A n \in Nat : <<"*", n>> \in Byte
        BY DEF Byte, Kinds
      <3>2. <<<<"*", Len(s[c].args)>>, Lf>> \in Seq(Byte)
        BY <1>1, <1>2, <3>1
      <3> QED BY <1>2, <3>2 DEF Header
    <2>2. [i \in 1..Len(s[c].args) |-> Part(s, c, i)] \in Seq(Seq(Byte))
      BY <1>1, <1>4
    <2>3. FlattenSeq([i \in 1..Len(s[c].args) |-> Part(s, c, i)]) \in Seq(Byte)
      BY <2>2, FlattenFacts, Zenon
    <2> QED BY <2>1, <2>3 DEF Encoded
  <1>6. [c \in 1..Len(s) |-> Encoded(s, c)] \in Seq(Seq(Byte))
    BY <1>1, <1>5
  <1>7. FlattenSeq([c \in 1..Len(s) |-> Encoded(s, c)]) \in Seq(Byte)
    BY <1>6, FlattenFacts, Zenon
  <1> QED BY <1>7 DEF Bytes, Length

LEMMA DroppedSteps ==
  ASSUME NEW B, NEW h \in Memory(B), NEW args \in Seq(Pointer)
  PROVE  \E f : /\ Dropped(h, args) = f[Len(args)] /\ f[0] = h
                /\ \A k \in 1..Len(args) : f[k] = Destroyed(f[k - 1], args[k])
  <1> DEFINE n == Len(args)
             X == [Blocks -> [refs : Int, bytes : Seq(B)]]
             Right(f) == f = [k \in 0..n |-> IF k = 0 THEN h
                                             ELSE Destroyed(f[k - 1], args[k])]
             after == CHOOSE f : Right(f)
             G == [x \in (1..n) \X X |-> Destroyed(x[2], args[x[1]])]
  <1>1. Dropped(h, args) = after[n]
    BY DEF Dropped
  <1>2. n \in Nat /\ \A k \in 1..n : args[k] \in Pointer
    OBVIOUS
  <1>3. h \in X
    BY DEF Memory, Block
  <1>4. ASSUME NEW m \in X, NEW a \in Pointer PROVE Destroyed(m, a) \in X
    <2>1. CASE a.data = Null
      BY <2>1 DEF Destroyed
    <2>2. CASE a.data # Null
      <3>1. a.data \in Blocks /\ NoBlock \in [refs : Int, bytes : Seq(B)]
        BY <2>2 DEF Pointer, NoBlock
      <3>2. [m[a.data] EXCEPT !.refs = @ - 1] \in [refs : Int, bytes : Seq(B)]
        BY <3>1
      <3> QED BY <2>2, <3>1, <3>2 DEF Destroyed, DescRef
    <2> QED BY <2>1, <2>2
  <1> HIDE DEF X
  <1>5. G \in [(1..n) \X X -> X]
    BY <1>2, <1>4
  <1>6. \A k \in 1..n, m \in X : G[<<k, m>>] = Destroyed(m, args[k])
    OBVIOUS
  <1> HIDE DEF G, n
  <1>7. PICK f \in [0..n -> X] : StepsBy(f, h, n, G)
    <2>1. n \in Nat /\ h \in X /\ G \in [(1..n) \X X -> X]
      BY <1>2, <1>3, <1>5
    <2> QED BY <2>1, Stepped, Zenon
  <1>8. Right(f)
    <2>1. \A k \in 1..n : k - 1 \in 0..n
      BY <1>2
    <2>2. \A k \in 1..n : f[k] = Destroyed(f[k - 1], args[k])
      BY <1>6, <1>7, <2>1, Zenon DEF StepsBy
    <2>3. \A k \in 0..n : f[k] = IF k = 0 THEN h ELSE Destroyed(f[k - 1], args[k])
      BY <1>2, <1>7, <2>2 DEF StepsBy
    <2> QED BY <1>7, <2>3
  <1>9. Right(after)
    BY <1>8, Zenon
  <1> HIDE DEF after
  <1>10. after[0] = h /\ \A k \in 1..n : after[k] = Destroyed(after[k - 1], args[k])
    BY <1>2, <1>9
  <1> QED BY <1>1, <1>10 DEF n

\* What was one reference for the input and for each argument is one for the input.
LEMMA DroppedSound ==
  ASSUME NEW B, NEW h, NEW args, NEW b, Sound(B, h, args, b)
  PROVE  Sound(B, Dropped(h, args), <<>>, b)
  <1> DEFINE n == Len(args)
             W == {x \in (0..n) \X Memory(B) : Undropped(B, args, b, x[1], x[2])}
  <1>1. args \in Seq(Pointer) /\ h \in Memory(B) /\ n \in Nat
    BY DEF Sound, Shared
  <1>2. PICK f : /\ Dropped(h, args) = f[n] /\ f[0] = h
                 /\ \A k \in 1..n : f[k] = Destroyed(f[k - 1], args[k])
    BY <1>1, DroppedSteps
  <1>3. <<0, f[0]>> \in W
    <2>1. HeldByFrom(args, 0) = HeldBy(args)
      BY <1>1, HeldFromFacts DEF HeldByFrom, HeldBy
    <2>2. Undropped(B, args, b, 0, h)
      BY <1>1, <2>1 DEF Sound, Undropped
    <2> QED BY <1>1, <1>2, <2>2
  <1>4. ASSUME NEW k \in 1..n, <<k - 1, f[k - 1]>> \in W PROVE <<k, f[k]>> \in W
    <2>1. Undropped(B, args, b, k - 1, f[k - 1])
      BY <1>4
    <2>2. Undropped(B, args, b, k, Destroyed(f[k - 1], args[k]))
      BY <1>1, <2>1, DropStep
    <2>3. Undropped(B, args, b, k, f[k])
      BY <1>2, <2>2
    <2>4. f[k] \in Memory(B) /\ k \in 0..n
      BY <1>1, <2>3 DEF Undropped, Shared
    <2> QED BY <2>3, <2>4
  <1> HIDE DEF W
  <1>5. <<n, f[n]>> \in W
    BY <1>1, <1>3, <1>4, StepInvariance
  <1>6. Undropped(B, args, b, n, Dropped(h, args))
    BY <1>2, <1>5 DEF W
  <1>7. HeldByFrom(args, n) = HeldBy(<<>>)
    BY <1>1, HeldFromFacts, HeldNone DEF HeldByFrom, HeldBy
  <1>8. Shared(B, Dropped(h, args), b, HeldBy(<<>>))
    BY <1>6, <1>7 DEF Undropped
  <1> QED BY <1>8 DEF Sound

LEMMA InitialSound ==
  ASSUME NEW B, Junk \in B
  PROVE  Sound(B, InitialBuffer.heap, <<>>, InitialBuffer.buf)
         /\ InitialBuffer.buf.data # Null
         /\ Size(InitialBuffer.buf) = 0
         /\ Contents(InitialBuffer.heap, InitialBuffer.buf) = <<>>
  <1> DEFINE w == HeldBy(<<>>)
  <1>1. EmptyHeap \in Memory(B)
    BY DEF EmptyHeap, NoBlock, Memory, Block
  <1>2. EmptyBuffer \in Pointer /\ EmptyBuffer.data = Null
    BY DEF EmptyBuffer, Pointer
  <1>3. w \in [Blocks -> Nat] /\ \A d \in Blocks : w[d] = 0
    BY HeldNone DEF HeldBy
  <1>4. InBounds(EmptyHeap, EmptyBuffer)
    BY DEF InBounds, EmptyBuffer, Capacity
  <1>5. \A d \in Blocks : EmptyHeap[d].refs = w[d] + Points(EmptyBuffer, d)
    BY <1>2, <1>3, BlocksAssumption DEF EmptyHeap, NoBlock, Points
  <1>6. Shared(B, EmptyHeap, EmptyBuffer, w)
    BY <1>1, <1>2, <1>3, <1>4, <1>5 DEF Shared
  <1>7. \E d \in Blocks : EmptyHeap[d].refs = 0
    BY BlocksAssumption DEF EmptyHeap, NoBlock
  <1>8. InitSize \in Nat /\ InitSize > 0
    BY BufferSizesAssumption
  <1> HIDE DEF w
  <1>9. RoomMade(B, EmptyHeap, EmptyBuffer, w, InitSize, InitialBuffer)
    BY <1>6, <1>7, <1>8, AppendCapacityFacts DEF InitialBuffer
  <1>10. Shared(B, InitialBuffer.heap, InitialBuffer.buf, w) /\ InitialBuffer.buf.data # Null
    BY <1>8, <1>9 DEF RoomMade
  <1>11. /\ Size(InitialBuffer.buf) = 0
         /\ Contents(InitialBuffer.heap, InitialBuffer.buf) = <<>>
    BY <1>2, <1>9 DEF RoomMade, Size, Contents, EmptyBuffer
  <1> QED BY <1>10, <1>11 DEF Sound, w

LEMMA PushSane ==
  ASSUME NEW d \in Blocks, NEW r, Sane(d, r)
  PROVE  Sane(d, Push(r))
  <1> DEFINE shown == [i \in 1..Len(r.argv) |-> Contents(r.heap, r.argv[i])]
             more == Append(r.pushed, shown)
             h == Dropped(r.heap, r.argv)
             q == [r EXCEPT !.pushed = more, !.heap = h, !.argv = <<>>, !.room = r.room - 1]
             x == [r EXCEPT !.stop = "refused"]
  <1>1. /\ r \in Parse /\ r.argv \in Seq(Pointer) /\ r.room \in Nat
        /\ r.pushed \in Seq(Seq(Seq(Byte))) /\ r.at <= Size(r.input)
        /\ Sound(Byte, r.heap, r.argv, r.input) /\ r.input.data # Null
        /\ r.heap[d].refs = 0
    BY ParseFields DEF Sane
  <1>2. CASE r.room = 0
    <2>1. Push(r) = x
      BY <1>2 DEF Push
    <2>2. x \in Parse /\ x.heap = r.heap /\ x.input = r.input /\ x.argv = r.argv
          /\ x.at = r.at
      BY <1>1 DEF Parse
    <2> HIDE DEF x
    <2> QED BY <1>1, <2>1, <2>2, SameBytes
  <1>3. CASE r.room # 0
    <2>1. Push(r) = q
      BY <1>1, <1>3 DEF Push, Parse
    <2>2. shown \in Seq(Seq(Byte))
      <3>1. \A i \in 1..Len(r.argv) : Contents(r.heap, r.argv[i]) \in Seq(Byte)
        BY <1>1, ShownFacts
      <3>2. Len(r.argv) \in Nat
        BY <1>1
      <3> QED BY <3>1, <3>2
    <2> HIDE DEF shown
    <2>3. more \in Seq(Seq(Seq(Byte)))
      BY <1>1, <2>2
    <2>4. Sound(Byte, h, <<>>, r.input)
      BY <1>1, DroppedSound
    <2> HIDE DEF more, h
    <2>5. h \in Memory(Byte) /\ <<>> \in Seq(Pointer) /\ r.room - 1 \in Nat
      BY <1>1, <1>3, <2>4 DEF Sound, Shared
    <2>6. h[d].refs = 0
      <3>1. Shared(Byte, r.heap, r.input, HeldBy(r.argv)) /\ Shared(Byte, h, r.input, HeldBy(<<>>))
        BY <1>1, <2>4 DEF Sound
      <3>2. HeldBy(<<>>)[d] = 0
        BY HeldNone DEF HeldBy
      <3> QED BY <1>1, <3>1, <3>2, StaysFree
    <2>7. q \in Parse /\ q.heap = h /\ q.input = r.input /\ q.argv = <<>> /\ q.at = r.at
      BY <1>1, <2>3, <2>5, Zenon DEF Parse
    <2> HIDE DEF q
    <2> QED BY <1>1, <2>1, <2>4, <2>6, <2>7 DEF Sane
  <1> QED BY <1>2, <1>3

LEMMA AfterParseSane ==
  ASSUME NEW d \in Blocks, NEW p, Sane(d, p)
  PROVE  Sane(d, AfterParse(p))
  <1> DEFINE q == Push(p)
             x == [q EXCEPT !.parser = NewParser]
             y == [p EXCEPT !.stop = p.err, !.err = "OK"]
  <1>1. Sane(d, q)
    BY PushSane
  <1> HIDE DEF q
  <1>2. /\ p \in Parse /\ p.err \in Errors /\ p.at <= Size(p.input) /\ "OK" \in Errors
        /\ q \in Parse /\ q.at <= Size(q.input)
    BY <1>1, ParseFields DEF Sane, Errors
  <1>3. NewParser \in Fields
    BY DEF NewParser, Fields
  <1>4. Sane(d, x)
    <2>1. x \in Parse /\ x.heap = q.heap /\ x.input = q.input /\ x.argv = q.argv
          /\ x.at = q.at
      BY <1>2, <1>3, Zenon DEF Parse
    <2> HIDE DEF x
    <2> QED BY <1>1, <1>2, <2>1, SameBytes
  <1>5. Sane(d, y)
    <2>1. y \in Parse /\ y.heap = p.heap /\ y.input = p.input /\ y.argv = p.argv
          /\ y.at = p.at
      BY <1>2, Zenon DEF Parse
    <2> HIDE DEF y
    <2> QED BY <1>2, <2>1, SameBytes
  <1>6. AfterParse(p) = y \/ AfterParse(p) = q \/ AfterParse(p) = x
    BY DEF AfterParse, Settled, q
  <1> QED BY <1>1, <1>4, <1>5, <1>6

LEMMA NextCommandSane ==
  ASSUME NEW d \in Blocks, NEW r, Sane(d, r)
  PROVE  Sane(d, NextCommand(r))
  <1>1. Sane(d, ParseRequest(r))
    BY ParseRequestSane
  <1>2. Sane(d, AfterParse(ParseRequest(r)))
    BY <1>1, AfterParseSane
  <1> QED BY <1>2 DEF NextCommand

\* The loop of OnClientRead, turn by turn.
LEMMA CommandsTurns ==
  ASSUME NEW d \in Blocks, NEW r, Sane(d, r), NEW n, n = Size(r.input) + 2
  PROVE  n \in Nat /\ \E f : /\ Commands(r) = f[n] /\ f[0] = r
                             /\ \A k \in 1..n : f[k] = NextCommand(f[k - 1])
  <1> DEFINE V == {q \in Parse : Sane(d, q)}
             Right(f) == f = [k \in 0..n |-> IF k = 0 THEN r ELSE NextCommand(f[k - 1])]
             turn == CHOOSE f : Right(f)
             G == [x \in (1..n) \X V |-> NextCommand(x[2])]
  <1>1. Commands(r) = turn[n]
    BY DEF Commands
  <1>2. n \in Nat /\ r \in V
    <2>1. n \in Nat
      BY UnreadFacts
    <2>2. r \in V
      BY DEF Sane
    <2> QED BY <2>1, <2>2
  <1>3. ASSUME NEW q \in V PROVE NextCommand(q) \in V
    <2>1. Sane(d, q)
      OBVIOUS
    <2>2. Sane(d, NextCommand(q))
      BY <2>1, NextCommandSane
    <2> QED BY <2>2 DEF Sane
  <1> HIDE DEF V
  <1>4. G \in [(1..n) \X V -> V] /\ \A k \in 1..n, q \in V : G[<<k, q>>] = NextCommand(q)
    BY <1>3
  <1> HIDE DEF G
  <1>5. PICK f \in [0..n -> V] : StepsBy(f, r, n, G)
    BY <1>2, <1>4, Stepped, Zenon
  <1>6. Right(f)
    <2>1. \A k \in 1..n : k - 1 \in 0..n
      BY <1>2
    <2>2. \A k \in 1..n : f[k] = NextCommand(f[k - 1])
      BY <1>4, <1>5, <2>1, Zenon DEF StepsBy
    <2>3. \A k \in 0..n : f[k] = IF k = 0 THEN r ELSE NextCommand(f[k - 1])
      BY <1>2, <1>5, <2>2 DEF StepsBy
    <2> QED BY <1>5, <2>3
  <1>7. Right(turn)
    BY <1>6, Zenon
  <1> HIDE DEF turn
  <1>8. turn[0] = r /\ \A k \in 1..n : turn[k] = NextCommand(turn[k - 1])
    BY <1>2, <1>7
  <1> QED BY <1>1, <1>2, <1>8

LEMMA CommandsSane ==
  ASSUME NEW d \in Blocks, NEW r, Sane(d, r)
  PROVE  Sane(d, Commands(r))
  <1> DEFINE n == Size(r.input) + 2
             V == {q \in Parse : Sane(d, q)}
  <1>1. n \in Nat
    BY UnreadFacts
  <1> HIDE DEF n
  <1>2. PICK f : /\ Commands(r) = f[n] /\ f[0] = r
                 /\ \A k \in 1..n : f[k] = NextCommand(f[k - 1])
    BY CommandsTurns DEF n
  <1>3. f[0] \in V
    BY <1>2 DEF Sane
  <1>4. ASSUME NEW k \in 1..n, f[k - 1] \in V PROVE f[k] \in V
    <2>1. Sane(d, f[k - 1])
      BY <1>4
    <2>2. Sane(d, NextCommand(f[k - 1]))
      BY <2>1, NextCommandSane
    <2> QED BY <1>2, <2>2 DEF Sane
  <1> HIDE DEF V
  <1>5. \A k \in 0..n : f[k] \in V
    BY <1>1, <1>3, <1>4, Invariance, Zenon
  <1>6. f[n] \in V
    BY <1>1, <1>5
  <1> QED BY <1>2, <1>6 DEF V

--------------------------------------------------------------------------------
(* The invariant about the memory. *)

\* What is inductive: the block of the input is never given up, it has a reference for
\* the input and for each argument, and every range lies inside its block.
IInv ==
  /\ TypeOK
  /\ pushed \in Seq(Seq(Seq(Byte)))
  /\ Sound(Byte, heap, argv, input)
  /\ input.data # Null

LEMMA InitInvariant == Init => IInv
  <1> SUFFICES ASSUME Init PROVE IInv
    OBVIOUS
  <1>1. Sound(Byte, heap, argv, input) /\ input.data # Null
    <2>1. Junk \in Byte
      BY DEF Junk, Byte, Kinds
    <2> QED BY <2>1, InitialSound DEF Init
  <1>2. parser \in Fields
    BY DEF Init, NewParser, Fields
  <1>3. pushed \in Seq(Seq(Seq(Byte)))
    BY DEF Init
  <1>4. taken \in 0..Length(stream) /\ stream \in Streams
    BY BytesTyped DEF Init
  <1>5. /\ DOMAIN heap = Blocks /\ InBounds(heap, input)
        /\ \A i \in 1..Len(argv) : InBounds(heap, argv[i])
    BY <1>1 DEF Sound, Shared, Memory
  <1>6. /\ reading \in BOOLEAN /\ failed \in BOOLEAN /\ lost \in {"no", "atoi", "memcpy"}
        /\ disturbed \subseteq {"cut", "refused", "joined", "spaces"}
    BY Zenon DEF Init
  <1> QED BY <1>1, <1>2, <1>3, <1>4, <1>5, <1>6 DEF IInv, TypeOK, Fields

\* What was read lies behind what was there, and the arguments see none of it.
LEMMA ReadSound ==
  ASSUME IInv, NEW d \in Blocks, heap[d].refs = 0,
         NEW data \in Seq(Byte), Len(data) <= FreeSize(heap, input),
         NEW m, m = Filled(Kept(heap, input), data)
  PROVE  /\ Sound(Byte, m.heap, argv, m.buf) /\ m.buf.data # Null
         /\ m.heap[d].refs = 0
  <1> DEFINE w == HeldBy(argv)
             k == [heap |-> heap, buf |-> input, overlap |-> FALSE]
  <1>1. /\ Shared(Byte, heap, input, w) /\ input.data # Null
        /\ Sound(Byte, heap, argv, input)
    BY DEF IInv, Sound
  <1>2. m = Filled(k, data)
    BY DEF Kept
  <1> HIDE DEF w
  <1>3. /\ Shared(Byte, m.heap, m.buf, w) /\ Spared(heap, m.heap, w)
        /\ m.buf.data = input.data
    BY <1>1, <1>2, FilledFacts
  <1>4. Sound(Byte, m.heap, argv, m.buf)
    BY <1>1, <1>3, SoundKept DEF w
  <1>5. w[d] = 0
    BY <1>1 DEF Shared, Points
  <1>6. m.heap[d].refs = 0
    BY <1>1, <1>3, <1>5, StaysFree
  <1> QED BY <1>1, <1>3, <1>4, <1>6

LEMMA HandledSane ==
  ASSUME IInv, NEW d \in Blocks, NEW m, Sound(Byte, m.heap, argv, m.buf),
         m.buf.data # Null, m.heap[d].refs = 0, NEW room \in Nat
  PROVE  Sane(d, Handled(m, room))
  <1> DEFINE start == [heap |-> m.heap, input |-> m.buf, at |-> 0, parser |-> parser,
                       argv |-> argv, err |-> "OK", pushed |-> pushed, room |-> room,
                       stop |-> "no"]
             first == IF argv = <<>> THEN start ELSE Push(start)
  <1>1. parser \in Fields /\ pushed \in Seq(Seq(Seq(Byte)))
    BY DEF IInv, TypeOK, Fields
  <1>2. /\ m.heap \in Memory(Byte) /\ m.buf \in Pointer /\ argv \in Seq(Pointer)
        /\ Shared(Byte, m.heap, m.buf, HeldBy(argv))
    BY DEF Sound, Shared
  <1>3. "OK" \in Errors
    BY DEF Errors
  <1>4. start \in Parse
    BY <1>1, <1>2, <1>3 DEF Parse
  <1>5. start.at <= Size(start.input)
    <2>1. Size(m.buf) \in Nat
      BY <1>2, SharedFacts
    <2> QED BY <2>1
  <1>6. Sane(d, start)
    BY <1>4, <1>5 DEF Sane
  <1> HIDE DEF start
  <1>7. Sane(d, first)
    BY <1>6, PushSane
  <1>8. Handled(m, room) = Commands(first)
    BY DEF Handled, start
  <1> HIDE DEF first
  <1> QED BY <1>7, <1>8, CommandsSane

\* Room is made without touching what an argument looks into.
LEMMA GrownSound ==
  ASSUME NEW d \in Blocks, NEW r, Sane(d, r)
  PROVE  Sound(Byte, Grown(r).heap, r.argv, Grown(r).buf) /\ Grown(r).buf.data # Null
  <1> DEFINE w == HeldBy(r.argv)
             g == AppendCapacity(r.heap, r.input, MinSize)
  <1>1. /\ Sound(Byte, r.heap, r.argv, r.input) /\ r.input.data # Null
        /\ Shared(Byte, r.heap, r.input, w) /\ \E e \in Blocks : r.heap[e].refs = 0
    BY DEF Sane, Sound
  <1>2. MinSize \in Nat
    BY BufferSizesAssumption
  <1>3. CASE Grown(r) = Kept(r.heap, r.input)
    BY <1>1, <1>3 DEF Kept
  <1>4. CASE Grown(r) = g
    <2> HIDE DEF w
    <2>1. RoomMade(Byte, r.heap, r.input, w, MinSize, g)
      BY <1>1, <1>2, AppendCapacityFacts
    <2> HIDE DEF g
    <2>2. Shared(Byte, g.heap, g.buf, w) /\ Spared(r.heap, g.heap, w) /\ g.buf.data # Null
      BY <1>1, <2>1 DEF RoomMade, Spared
    <2>3. Sound(Byte, g.heap, r.argv, g.buf)
      BY <1>1, <2>2, SoundKept DEF w
    <2> QED BY <1>4, <2>2, <2>3
  <1> QED BY <1>3, <1>4 DEF Grown

LEMMA OnReadableInvariant ==
  ASSUME IInv, NEW n \in 0..SmallerOf(FreeSize(heap, input), Length(stream) - taken),
         NEW room \in 0..MaxRoom, OnReadable(n, room)
  PROVE  IInv'
  <1> DEFINE data == SubSeq(Bytes[stream], taken + 1, taken + n)
             m == Filled(Kept(heap, input), data)
             r == Handled(m, room)
             g == Grown(r)
  <1>1. /\ stream \in Streams /\ taken \in Nat /\ taken <= Length(stream)
        /\ Bytes[stream] \in Seq(Byte) /\ Length(stream) = Len(Bytes[stream])
        /\ Length(stream) \in Nat
    BY BytesTyped DEF IInv, TypeOK, Length
  <1>2. /\ n \in Nat /\ n <= FreeSize(heap, input) /\ taken + n <= Length(stream)
        /\ room \in Nat
    <2>1. FreeSize(heap, input) \in Nat
      <3>1. Shared(Byte, heap, input, HeldBy(argv))
        BY DEF IInv, Sound
      <3> QED BY <3>1, SharedFacts
    <2> QED BY <1>1, <2>1, ClientBoundsAssumption DEF SmallerOf
  <1>3. data \in Seq(Byte) /\ Len(data) = n
    <2> DEFINE all == Bytes[stream]
    <2>1. \A i \in (taken + 1)..(taken + n) : all[i] \in Byte
      BY <1>1, <1>2
    <2> HIDE DEF all
    <2>2. /\ taken + 1 \in Int /\ taken + n \in Int
          /\ \A i \in (taken + 1)..(taken + n) : all[i] \in Byte
      BY <1>1, <1>2, <2>1
    <2>3. /\ SubSeq(all, taken + 1, taken + n) \in Seq(Byte)
          /\ Len(SubSeq(all, taken + 1, taken + n)) =
               IF taken + 1 <= taken + n THEN (taken + n) - (taken + 1) + 1 ELSE 0
      BY <2>2, SubSeqProperties
    <2> QED BY <1>1, <1>2, <2>3 DEF all
  <1>4. PICK d \in Blocks : heap[d].refs = 0
    BY DEF OnReadable, BlockLeft
  <1>5. /\ Leaves(n, r, g) /\ lost = "no"
    BY DEF OnReadable, ReadInto
  <1> HIDE DEF data
  <1>6. /\ Sound(Byte, m.heap, argv, m.buf) /\ m.buf.data # Null /\ m.heap[d].refs = 0
    BY <1>2, <1>3, <1>4, ReadSound
  <1> HIDE DEF m
  <1>7. Sane(d, r)
    BY <1>2, <1>6, HandledSane
  <1> HIDE DEF r
  <1>8. Sound(Byte, g.heap, r.argv, g.buf) /\ g.buf.data # Null
    BY <1>7, GrownSound
  <1>9. r.parser \in Fields /\ r.pushed \in Seq(Seq(Seq(Byte)))
    BY <1>7, ParseFields DEF Sane
  <1> HIDE DEF g
  <1>10. (Sound(Byte, heap, argv, input) /\ input.data # Null)'
    BY <1>5, <1>8 DEF Leaves
  <1>11. (parser \in Fields /\ pushed \in Seq(Seq(Seq(Byte))))'
    BY <1>5, <1>9 DEF Leaves
  <1>12. (stream \in Streams /\ taken \in 0..Length(stream))'
    BY <1>1, <1>2, <1>5 DEF Leaves
  <1>13. (/\ DOMAIN heap = Blocks /\ InBounds(heap, input)
          /\ \A i \in 1..Len(argv) : InBounds(heap, argv[i]))'
    BY <1>10 DEF Sound, Shared, Memory
  <1>14. (reading \in BOOLEAN /\ failed \in BOOLEAN /\ lost \in {"no", "atoi", "memcpy"})'
    BY <1>5 DEF Leaves
  <1>15. (disturbed \subseteq {"cut", "refused", "joined", "spaces"})'
    BY <1>5 DEF Leaves, IInv, TypeOK
  <1> QED BY <1>10, <1>11, <1>12, <1>13, <1>14, <1>15 DEF IInv, TypeOK, Fields

LEMMA StepInvariant == IInv /\ [Next]_vars => IInv'
  <1> SUFFICES ASSUME IInv, [Next]_vars PROVE IInv'
    OBVIOUS
  <1>1. CASE \E n \in 0..SmallerOf(FreeSize(heap, input), Length(stream) - taken),
                room \in 0..MaxRoom : OnReadable(n, room)
    BY <1>1, OnReadableInvariant
  <1>2. CASE OnServerWrite
    BY <1>2 DEF OnServerWrite, IInv, TypeOK, Sound, Shared, HeldBy, Held, InBounds, Capacity
  <1>3. CASE UNCHANGED vars
    BY <1>3 DEF vars, IInv, TypeOK
  <1> QED BY <1>1, <1>2, <1>3 DEF Next

LEMMA Invariant == Spec => []IInv
  BY InitInvariant, StepInvariant, PTL DEF Spec

--------------------------------------------------------------------------------
(* What is data in a sequence of bytes, where the parts of a stream lie in it, and what
   the parser sees of it. *)

Picked(x) == [i \in 1..Len(x) |-> IF x[i][1] = "byte" THEN <<x[i]>> ELSE <<>>]

LEMMA PickedFacts ==
  ASSUME NEW x \in Seq(Byte)
  PROVE  /\ Picked(x) \in Seq(Seq(Byte)) /\ Len(Picked(x)) = Len(x) /\ Len(x) \in Nat
         /\ Data(x) = FlattenSeq(Picked(x)) /\ Data(x) \in Seq(Byte)
  <1>1. Len(x) \in Nat /\ \A i \in 1..Len(x) : x[i] \in Byte
    OBVIOUS
  <1>2. ASSUME NEW i \in 1..Len(x)
        PROVE  (IF x[i][1] = "byte" THEN <<x[i]>> ELSE <<>>) \in Seq(Byte)
    <2>1. <<x[i]>> \in Seq(Byte) /\ <<>> \in Seq(Byte)
      BY <1>1
    <2> QED BY <2>1
  <1>3. Picked(x) \in Seq(Seq(Byte)) /\ Len(Picked(x)) = Len(x)
    BY <1>1, <1>2 DEF Picked
  <1>4. Data(x) = FlattenSeq(Picked(x))
    BY DEF Data, Picked
  <1> QED BY <1>1, <1>3, <1>4, FlattenFacts

DataJoins(x, y) ==
  /\ Data(x \o y) = Data(x) \o Data(y)
  /\ Data(x) \in Seq(Byte) /\ Data(y) \in Seq(Byte)

LEMMA DataJoin ==
  ASSUME NEW x \in Seq(Byte), NEW y \in Seq(Byte)
  PROVE  DataJoins(x, y)
  <1> DEFINE z == x \o y
  <1>1. /\ z \in Seq(Byte) /\ Len(z) = Len(x) + Len(y) /\ Len(x) \in Nat /\ Len(y) \in Nat
        /\ \A i \in 1..Len(x) : z[i] = x[i]
        /\ \A i \in 1..Len(y) : z[Len(x) + i] = y[i]
    OBVIOUS
  <1> HIDE DEF z
  <1>2. /\ Picked(x) \in Seq(Seq(Byte)) /\ Picked(y) \in Seq(Seq(Byte))
        /\ Len(Picked(x)) = Len(x) /\ Len(Picked(y)) = Len(y)
        /\ Picked(z) \in Seq(Seq(Byte)) /\ Len(Picked(z)) = Len(z)
        /\ Data(x) = FlattenSeq(Picked(x)) /\ Data(y) = FlattenSeq(Picked(y))
        /\ Data(z) = FlattenSeq(Picked(z))
        /\ Data(x) \in Seq(Byte) /\ Data(y) \in Seq(Byte)
    BY <1>1, PickedFacts
  <1>3. Picked(z) = Picked(x) \o Picked(y)
    <2> DEFINE a == Picked(x)
               b == Picked(y)
               g == Picked(z)
    <2>1. \A i \in 1..Len(z) : \/ i \in 1..Len(x)
                              \/ (i - Len(x) \in 1..Len(y) /\ i = Len(x) + (i - Len(x)))
      BY <1>1
    <2>2. \A i \in 1..Len(x) : i \in 1..Len(z) /\ g[i] = a[i]
      BY <1>1 DEF Picked
    <2>3. \A i \in 1..Len(y) : Len(x) + i \in 1..Len(z) /\ g[Len(x) + i] = b[i]
      BY <1>1 DEF Picked
    <2>4. a \in Seq(Seq(Byte)) /\ b \in Seq(Seq(Byte)) /\ g \in Seq(Seq(Byte))
          /\ Len(a) = Len(x) /\ Len(b) = Len(y) /\ Len(g) = Len(z)
      BY <1>2
    <2> HIDE DEF a, b, g
    <2> DEFINE e == a \o b
    <2>5. JoinElements(Seq(Byte), a, b, e)
      BY <2>4, JoinFacts
    <2> HIDE DEF e
    <2>6. /\ e \in Seq(Seq(Byte)) /\ Len(e) = Len(g)
          /\ \A i \in 1..Len(x) : e[i] = a[i]
          /\ \A i \in 1..Len(y) : e[Len(x) + i] = b[i]
      BY <1>1, <2>4, <2>5 DEF JoinElements
    <2>7. \A i \in 1..Len(g) : g[i] = e[i]
      <3> SUFFICES ASSUME NEW i \in 1..Len(g) PROVE g[i] = e[i]
        OBVIOUS
      <3>1. i \in 1..Len(z)
        BY <2>4
      <3>2. CASE i \in 1..Len(x)
        BY <2>2, <2>6, <3>2
      <3>3. CASE i - Len(x) \in 1..Len(y) /\ i = Len(x) + (i - Len(x))
        <4> DEFINE j == i - Len(x)
        <4>1. j \in 1..Len(y) /\ i = Len(x) + j
          BY <3>3
        <4> HIDE DEF j
        <4>2. g[Len(x) + j] = b[j] /\ e[Len(x) + j] = b[j]
          BY <2>3, <2>6, <4>1
        <4> QED BY <4>1, <4>2
      <3> QED BY <2>1, <3>1, <3>2, <3>3
    <2>8. g = e
      BY <2>4, <2>6, <2>7, SameSeq
    <2> QED BY <2>8 DEF a, b, g, e
  <1>4. Joins(Byte, Picked(x), Picked(y))
    BY <1>2, FlatJoin
  <1> QED BY <1>2, <1>3, <1>4 DEF Joins, DataJoins, z

LEMMA NoData ==
  ASSUME NEW x \in Seq(Byte), \A i \in 1..Len(x) : x[i][1] # "byte"
  PROVE  Data(x) = <<>>
  <1> DEFINE n == Len(x)
             y == Picked(x)
             T == {k \in Nat : k <= n => Flat(y, k) = <<>>}
  <1>1. n \in Nat /\ y \in Seq(Seq(Byte)) /\ Len(y) = n /\ Data(x) = FlattenSeq(y)
    BY PickedFacts
  <1>2. \A i \in 1..n : y[i] = <<>>
    BY DEF Picked
  <1> HIDE DEF n, y
  <1>3. y \in [1..n -> Seq(Byte)] /\ Flat(y, n) = FlattenSeq(y)
    BY <1>1, FlatWhole
  <1>4. Flat(y, 0) = <<>> /\ \A k \in 1..n : Flat(y, k) = Flat(y, k - 1) \o y[k]
    BY <1>1, <1>3, FlatFacts, Zenon
  <1>5. 0 \in T
    BY <1>4
  <1>6. ASSUME NEW k \in Nat, k \in T PROVE k + 1 \in T
    <2> SUFFICES ASSUME k + 1 <= n PROVE Flat(y, k + 1) = <<>>
      OBVIOUS
    <2>1. k + 1 \in 1..n /\ (k + 1) - 1 = k /\ k <= n
      BY <1>1
    <2>2. Flat(y, k) = <<>> /\ y[k + 1] = <<>>
      BY <1>2, <1>6, <2>1
    <2>3. <<>> \o <<>> = <<>>
      OBVIOUS
    <2> QED BY <1>4, <2>1, <2>2, <2>3, Zenon
  <1> HIDE DEF T
  <1>7. n \in T
    BY <1>1, <1>5, <1>6, SetInduction, Zenon
  <1>8. n <= n
    BY <1>1
  <1> QED BY <1>1, <1>3, <1>7, <1>8 DEF T

LEMMA CommandFacts ==
  ASSUME NEW s \in Streams
  PROVE  /\ Len(s) \in Nat
         /\ \A c \in 1..Len(s) :
              /\ s[c].form \in {"multibulk", "inline"} /\ s[c].gap \in Nat
              /\ s[c].args \in Seq(Nat) /\ Len(s[c].args) \in Nat
              /\ \A i \in 1..Len(s[c].args) : s[c].args[i] \in Nat
              /\ s[c].form = "inline" =>
                   /\ s[c].gap > 0 /\ Len(s[c].args) > 0
                   /\ \A i \in 1..Len(s[c].args) : s[c].args[i] > 0
  <1>1. s \in Seq(Command)
    BY StreamsAssumption
  <1>2. Len(s) \in Nat /\ \A c \in 1..Len(s) : s[c] \in Command
    BY <1>1
  <1>3. ASSUME NEW c \in 1..Len(s)
        PROVE  /\ s[c].form \in {"multibulk", "inline"} /\ s[c].gap \in Nat
               /\ s[c].args \in Seq(Nat)
               /\ s[c].form = "inline" =>
                    /\ s[c].gap > 0 /\ s[c].args # <<>>
                    /\ \A i \in 1..Len(s[c].args) : s[c].args[i] > 0
    BY <1>2 DEF Command
  <1>4. \A a \in Seq(Nat) : /\ Len(a) \in Nat /\ \A i \in 1..Len(a) : a[i] \in Nat
                            /\ a # <<>> => Len(a) > 0
    OBVIOUS
  <1> QED BY <1>2, <1>3, <1>4

\* An argument is as long as it says and has nothing but data.
DataOf(a, n) == /\ a \in Seq(Byte) /\ Len(a) = n /\ n \in Nat
                /\ \A k \in 1..n : a[k][1] = "byte"

LEMMA ArgumentFacts ==
  ASSUME NEW s \in Streams, NEW c \in 1..Len(s), NEW i \in 1..Len(s[c].args)
  PROVE  DataOf(Argument(s, c, i), s[c].args[i])
  <1> DEFINE n == s[c].args[i]
             byte(k) == <<"byte", 100 * c + 10 * i + k>>
             a == Argument(s, c, i)
  <1>1. n \in Nat /\ c \in Nat /\ i \in Nat
    BY CommandFacts
  <1>2. a = [k \in 1..n |-> byte(k)]
    BY DEF Argument
  <1>3. \A k \in 1..n : 100 * c + 10 * i + k \in Nat
    BY <1>1
  <1>4. \A k \in 1..n : byte(k) \in Byte /\ byte(k)[1] = "byte"
    BY <1>3, ByteFacts, Zenon
  <1> HIDE DEF byte, n, a
  <1>5. a \in Seq(Byte) /\ Len(a) = n /\ \A k \in 1..n : a[k] = byte(k)
    BY <1>1, <1>2, <1>4
  <1>6. DataOf(a, n)
    BY <1>1, <1>4, <1>5 DEF DataOf
  <1> QED BY <1>6 DEF a, n

\* What is in front of the next argument: the argument a of n bytes, and its end.
MultibulkPart(e, a, n) ==
  /\ e \in Seq(Byte) /\ Len(e) = n + 4
  /\ e[1] = <<"$", n>> /\ e[2] = Lf
  /\ \A j \in 1..n : e[2 + j] = a[j]
  /\ e[n + 3] = Cr /\ e[n + 4] = Lf

LEMMA MultibulkPartFacts ==
  ASSUME NEW s \in Streams, NEW c \in 1..Len(s), NEW i \in 1..Len(s[c].args),
         s[c].form = "multibulk"
  PROVE  MultibulkPart(Part(s, c, i), Argument(s, c, i), s[c].args[i])
  <1> DEFINE n == s[c].args[i]
             a == Argument(s, c, i)
             line == <<<<"$", n>>, Lf>>
             end == <<Cr, Lf>>
             e == Part(s, c, i)
             front == line \o a
  <1>1. n \in Nat
    BY CommandFacts
  <1>2. line \in Seq(Byte) /\ Len(line) = 2 /\ line[1] = <<"$", n>> /\ line[2] = Lf
    <2>1. <<"$", n>> \in Byte /\ Lf \in Byte
      BY <1>1, ByteFacts, Zenon
    <2> QED BY <2>1, ByteFacts
  <1>3. end \in Seq(Byte) /\ Len(end) = 2 /\ end[1] = Cr /\ end[2] = Lf
    BY ByteFacts
  <1>4. a \in Seq(Byte) /\ Len(a) = n
    BY ArgumentFacts DEF DataOf
  <1>5. e = front \o end
    BY DEF Part
  <1>6. JoinElements(Byte, line, a, front)
    BY <1>2, <1>4, JoinFacts, Zenon
  <1>7. JoinElements(Byte, front, end, e)
    BY <1>3, <1>5, <1>6, JoinFacts DEF JoinElements
  <1> HIDE DEF front, line, end, a, n, e
  <1>8. Len(front) = n + 2 /\ Len(e) = n + 4 /\ e \in Seq(Byte)
    BY <1>1, <1>2, <1>3, <1>4, <1>6, <1>7 DEF JoinElements
  <1>9. ASSUME NEW j \in 1..n PROVE e[2 + j] = a[j]
    <2>1. 2 + j \in 1..Len(front)
      BY <1>1, <1>8
    <2>2. front[2 + j] = a[j]
      BY <1>2, <1>4, <1>6 DEF JoinElements
    <2> QED BY <1>7, <2>1, <2>2 DEF JoinElements
  <1>10. e[1] = <<"$", n>> /\ e[2] = Lf
    <2>1. 1 \in 1..Len(front) /\ 2 \in 1..Len(front) /\ 1 \in 1..Len(line) /\ 2 \in 1..Len(line)
      BY <1>1, <1>2, <1>8
    <2> QED BY <1>2, <1>6, <1>7, <2>1 DEF JoinElements
  <1>11. e[n + 3] = Cr /\ e[n + 4] = Lf
    <2>1. 1 \in 1..Len(end) /\ 2 \in 1..Len(end)
      BY <1>3
    <2>2. e[Len(front) + 1] = Cr /\ e[Len(front) + 2] = Lf
      BY <1>3, <1>7, <2>1 DEF JoinElements
    <2>3. Len(front) + 1 = n + 3 /\ Len(front) + 2 = n + 4
      BY <1>1, <1>8
    <2> QED BY <2>2, <2>3
  <1>12. MultibulkPart(e, a, n)
    BY <1>8, <1>9, <1>10, <1>11 DEF MultibulkPart
  <1> QED BY <1>12 DEF e, a, n

\* A word, and the spaces or the end of line behind it.
InlinePart(e, a, n, last, gap) ==
  /\ e \in Seq(Byte) /\ n > 0 /\ gap > 0
  /\ \A j \in 1..n : e[j] = a[j]
  /\ last => Len(e) = n + 2 /\ e[n + 1] = Cr /\ e[n + 2] = Lf
  /\ ~last => Len(e) = n + gap /\ \A j \in 1..gap : e[n + j] = Sp

LEMMA InlinePartFacts ==
  ASSUME NEW s \in Streams, NEW c \in 1..Len(s), NEW i \in 1..Len(s[c].args),
         s[c].form = "inline"
  PROVE  InlinePart(Part(s, c, i), Argument(s, c, i), s[c].args[i], i = Len(s[c].args),
                    s[c].gap)
  <1> DEFINE n == s[c].args[i]
             g == s[c].gap
             a == Argument(s, c, i)
             m == Len(s[c].args)
             spaces == [k \in 1..g |-> Sp]
             end == IF i = m THEN <<Cr, Lf>> ELSE spaces
             e == Part(s, c, i)
  <1>1. n \in Nat /\ n > 0 /\ g \in Nat /\ g > 0
    BY CommandFacts
  <1>2. a \in Seq(Byte) /\ Len(a) = n
    BY ArgumentFacts DEF DataOf
  <1>3. e = a \o end
    BY DEF Part
  <1>4. spaces \in Seq(Byte) /\ Len(spaces) = g /\ \A j \in 1..g : spaces[j] = Sp
    <2>1. \A k \in Nat : /\ [j \in 1..k |-> Sp] \in Seq(Byte) /\ Len([j \in 1..k |-> Sp]) = k
                         /\ \A j \in 1..k : [x \in 1..k |-> Sp][j] = Sp
      BY ByteFacts
    <2> QED BY <1>1, <2>1
  <1>5. /\ end \in Seq(Byte)
        /\ i = m => Len(end) = 2 /\ end[1] = Cr /\ end[2] = Lf
        /\ i # m => Len(end) = g /\ \A j \in 1..g : end[j] = Sp
    <2>1. <<Cr, Lf>> \in Seq(Byte) /\ Len(<<Cr, Lf>>) = 2 /\ <<Cr, Lf>>[1] = Cr
          /\ <<Cr, Lf>>[2] = Lf
      BY ByteFacts
    <2> HIDE DEF spaces, m
    <2> QED BY <1>4, <2>1
  <1> HIDE DEF n, g, a, m, spaces, end, e
  <1>6. JoinElements(Byte, a, end, e)
    BY <1>2, <1>3, <1>5, JoinFacts
  <1>7. e \in Seq(Byte) /\ Len(e) = n + Len(end) /\ \A j \in 1..n : e[j] = a[j]
    BY <1>2, <1>6, Zenon DEF JoinElements
  <1>8. \A j \in 1..Len(end) : e[n + j] = end[j]
    BY <1>2, <1>6 DEF JoinElements
  <1>9. i = m => Len(e) = n + 2 /\ e[n + 1] = Cr /\ e[n + 2] = Lf
    <2> SUFFICES ASSUME i = m PROVE Len(e) = n + 2 /\ e[n + 1] = Cr /\ e[n + 2] = Lf
      OBVIOUS
    <2>1. Len(end) = 2 /\ end[1] = Cr /\ end[2] = Lf
      BY <1>5, Zenon
    <2>2. 1 \in 1..Len(end) /\ 2 \in 1..Len(end)
      BY <2>1
    <2> QED BY <1>7, <1>8, <2>1, <2>2
  <1>10. i # m => Len(e) = n + g /\ \A j \in 1..g : e[n + j] = Sp
    BY <1>5, <1>7, <1>8
  <1>11. InlinePart(e, a, n, i = m, g)
    BY <1>1, <1>7, <1>9, <1>10 DEF InlinePart
  <1> QED BY <1>11 DEF e, a, n, m, g

LEMMA PartTyped ==
  ASSUME NEW s \in Streams, NEW c \in 1..Len(s), NEW i \in 1..Len(s[c].args)
  PROVE  Part(s, c, i) \in Seq(Byte)
  <1>1. s[c].form = "multibulk" \/ s[c].form = "inline"
    BY CommandFacts
  <1> QED BY <1>1, MultibulkPartFacts, InlinePartFacts DEF MultibulkPart, InlinePart

LEMMA HeaderFacts ==
  ASSUME NEW s \in Streams, NEW c \in 1..Len(s), NEW h, h = Header(s, c)
  PROVE  /\ h \in Seq(Byte)
         /\ s[c].form = "inline" => Len(h) = 0
         /\ s[c].form = "multibulk" => /\ Len(h) = 2 /\ h[1] = <<"*", Len(s[c].args)>>
                                       /\ h[2] = Lf
  <1>1. Len(s[c].args) \in Nat
    BY CommandFacts
  <1>2. <<"*", Len(s[c].args)>> \in Byte /\ Lf \in Byte
    BY <1>1, ByteFacts, Zenon
  <1> DEFINE x == <<"*", Len(s[c].args)>>
  <1>3. <<x, Lf>> \in Seq(Byte) /\ Len(<<x, Lf>>) = 2 /\ <<x, Lf>>[1] = x /\ <<x, Lf>>[2] = Lf
    BY <1>2, ByteFacts
  <1>4. <<>> \in Seq(Byte) /\ Len(<<>>) = 0
    OBVIOUS
  <1>5. h = IF s[c].form = "inline" THEN <<>> ELSE <<x, Lf>>
    BY DEF Header
  <1> HIDE DEF x
  <1>6. CASE s[c].form = "inline"
    BY <1>4, <1>5, <1>6
  <1>7. CASE s[c].form # "inline"
    <2>1. h = <<x, Lf>>
      BY <1>5, <1>7
    <2> QED BY <1>3, <1>7, <2>1 DEF x
  <1> QED BY <1>6, <1>7

\* The header and the arguments of a command lie in it one behind the other.
Composed(s, c, r, from, n) ==
  /\ r \in Seq(Byte) /\ n \in Nat /\ Len(r) \in Nat
  /\ \A i \in 0..n : /\ ArgEnd(s, c, i) \in Int /\ ArgEnd(s, c, i) - from \in Nat
                     /\ ArgEnd(s, c, i) - from <= Len(r)
  /\ ArgEnd(s, c, 0) - from = IF s[c].form = "inline" THEN 0 ELSE 2
  /\ ArgEnd(s, c, n) - from = Len(r)
  /\ s[c].form = "multibulk" => Len(r) >= 2 /\ r[1] = <<"*", n>> /\ r[2] = Lf
  /\ \A i \in 1..n :
       /\ ArgEnd(s, c, i) - from = (ArgEnd(s, c, i - 1) - from) + Len(Part(s, c, i))
       /\ \A j \in 1..Len(Part(s, c, i)) :
            r[(ArgEnd(s, c, i - 1) - from) + j] = Part(s, c, i)[j]

LEMMA ComposedFacts ==
  ASSUME NEW s \in Streams, NEW c \in 1..Len(s), NEW from, from = CommandEnd[s][c - 1],
         from \in Nat
  PROVE  Composed(s, c, Encoded(s, c), from, Len(s[c].args))
  <1> DEFINE n == Len(s[c].args)
             E == [j \in 1..n |-> Part(s, c, j)]
             h == Header(s, c)
             r == Encoded(s, c)
             b(i) == ArgEnd(s, c, i) - from
             w(i) == Len(E[i])
  <1>1. n \in Nat /\ E \in [1..n -> Seq(Byte)] /\ \A i \in 1..n : E[i] = Part(s, c, i)
    BY CommandFacts, PartTyped
  <1>2. /\ h \in Seq(Byte) /\ Len(h) \in Nat
        /\ s[c].form = "inline" => Len(h) = 0
        /\ s[c].form = "multibulk" => Len(h) = 2 /\ h[1] = <<"*", n>> /\ h[2] = Lf
    <2>1. /\ h \in Seq(Byte)
          /\ s[c].form = "inline" => Len(h) = 0
          /\ s[c].form = "multibulk" => Len(h) = 2 /\ h[1] = <<"*", n>> /\ h[2] = Lf
      BY HeaderFacts
    <2> QED BY <2>1
  <1>3. ASSUME NEW i \in 0..n
        PROVE  ArgEnd(s, c, i) = from + Len(h) + Len(Flat(E, i))
    <2>1. [j \in 1..i |-> Part(s, c, j)] = [j \in 1..i |-> E[j]]
      BY <1>1
    <2> QED BY <2>1, Zenon DEF ArgEnd, Flat
  <1>4. r = h \o Flat(E, n)
    <2>1. [j \in 1..n |-> Part(s, c, j)] = [j \in 1..n |-> E[j]]
      OBVIOUS
    <2> QED BY <2>1, Zenon DEF Encoded, Flat
  <1>5. s[c].form = "multibulk" \/ s[c].form = "inline"
    BY CommandFacts
  <1> HIDE DEF n, E, h, r
  <1>6. Flat(E, 0) = <<>> /\ Flat(E, n) \in Seq(Byte)
    <2>1. Flat(E, 0) = <<>> /\ \A k \in 0..n : Flat(E, k) \in Seq(Byte)
      BY <1>1, FlatFacts, Zenon
    <2>2. n \in 0..n
      BY <1>1
    <2> QED BY <2>1, <2>2
  <1>7. LaidOut(E, n)
    BY <1>1, FlatPlaces
  <1>8. JoinElements(Byte, h, Flat(E, n), r)
    BY <1>2, <1>4, <1>6, JoinFacts
  <1> DEFINE f(i) == Len(Flat(E, i))
             x == Len(h)
             l == Len(r)
  <1>9. /\ \A i \in 0..n : f(i) \in Nat /\ f(i) <= f(n)
        /\ \A i \in 1..n : w(i) \in Nat /\ f(i) = f(i - 1) + w(i)
        /\ \A i \in 1..n : \A j \in 1..w(i) : Flat(E, n)[f(i - 1) + j] = E[i][j]
        /\ f(0) = 0
    <2>1. n \in 0..n /\ (\A i \in 0..n : i <= n) /\ (\A i \in 1..n : i \in 0..n /\ i - 1 \in 0..n)
      BY <1>1
    <2>2. \A i \in 1..n : w(i) \in Nat
      BY <1>1
    <2>3. f(0) = 0
      BY <1>6
    <2> QED BY <1>7, <2>1, <2>2, <2>3, Zenon DEF LaidOut
  <1>10. /\ r \in Seq(Byte) /\ l = x + f(n) /\ x \in Nat /\ f(n) \in Nat
         /\ \A j \in 1..x : r[j] = h[j]
         /\ \A j \in 1..f(n) : r[x + j] = Flat(E, n)[j]
    BY <1>8, Zenon DEF JoinElements
  <1>11. \A i \in 0..n : ArgEnd(s, c, i) = from + x + f(i)
    BY <1>3
  <1> HIDE DEF f, x, l
  <1>12. \A i \in 0..n : b(i) = x + f(i)
    <2> SUFFICES ASSUME NEW i \in 0..n PROVE b(i) = x + f(i)
      OBVIOUS
    <2>1. f(i) \in Nat /\ ArgEnd(s, c, i) = from + x + f(i)
      BY <1>9, <1>11
    <2>2. x \in Nat
      BY <1>10
    <2> QED BY <2>1, <2>2
  <1> HIDE DEF b, w
  <1>13. \A i \in 0..n : b(i) \in Nat /\ b(i) <= l /\ ArgEnd(s, c, i) \in Int
    <2> SUFFICES ASSUME NEW i \in 0..n PROVE b(i) \in Nat /\ b(i) <= l /\ ArgEnd(s, c, i) \in Int
      OBVIOUS
    <2> DEFINE y == f(i)
               z == b(i)
               m == f(n)
               e == ArgEnd(s, c, i)
    <2>1. y \in Nat /\ y <= m /\ z = x + y /\ e = from + x + y
      BY <1>9, <1>11, <1>12
    <2>2. m \in Nat /\ x \in Nat /\ l = x + m
      BY <1>10
    <2> HIDE DEF y, z, m, e
    <2>3. z \in Nat /\ z <= l /\ e \in Int
      BY <2>1, <2>2
    <2> QED BY <2>3 DEF z, e
  <1>14. b(0) = x /\ b(n) = l
    <2>1. 0 \in 0..n /\ n \in 0..n
      BY <1>1
    <2>2. b(0) = x + f(0) /\ b(n) = x + f(n)
      BY <1>12, <2>1
    <2> QED BY <1>9, <1>10, <2>2
  <1>15. ASSUME NEW i \in 1..n
         PROVE  b(i) = b(i - 1) + w(i) /\ \A j \in 1..w(i) : r[b(i - 1) + j] = E[i][j]
    <2> DEFINE y == f(i - 1)
               z == f(i)
               v == w(i)
    <2>1. i \in 0..n /\ i - 1 \in 0..n
      BY <1>1
    <2>2. /\ y \in Nat /\ z \in Nat /\ v \in Nat /\ z = y + v /\ z <= f(n)
          /\ b(i) = x + z /\ b(i - 1) = x + y
      BY <1>9, <1>12, <2>1
    <2>3. \A j \in 1..v : Flat(E, n)[y + j] = E[i][j]
      BY <1>9, Zenon
    <2> HIDE DEF y, z, v
    <2>4. b(i) = b(i - 1) + v
      BY <1>10, <2>2
    <2>5. ASSUME NEW j \in 1..v PROVE r[b(i - 1) + j] = E[i][j]
      <3> DEFINE k == y + j
      <3>1. k \in 1..f(n) /\ b(i - 1) + j = x + k
        BY <1>10, <2>2
      <3>2. Flat(E, n)[k] = E[i][j]
        BY <2>3
      <3> HIDE DEF k
      <3> QED BY <1>10, <3>1, <3>2
    <2> QED BY <2>4, <2>5 DEF v
  <1>16. s[c].form = "multibulk" => l >= 2 /\ r[1] = <<"*", n>> /\ r[2] = Lf
    <2> SUFFICES ASSUME s[c].form = "multibulk"
                 PROVE  l >= 2 /\ r[1] = <<"*", n>> /\ r[2] = Lf
      OBVIOUS
    <2>1. x = 2 /\ h[1] = <<"*", n>> /\ h[2] = Lf
      BY <1>2 DEF x
    <2>2. 1 \in 1..x /\ 2 \in 1..x
      BY <2>1
    <2> QED BY <1>10, <2>1, <2>2
  <1>17. b(0) = IF s[c].form = "inline" THEN 0 ELSE 2
    <2>1. x = IF s[c].form = "inline" THEN 0 ELSE 2
      BY <1>2, <1>5 DEF x
    <2> QED BY <1>14, <2>1
  <1>18. l \in Nat
    BY <1>10
  <1>19. \A i \in 1..n : /\ b(i) = b(i - 1) + Len(Part(s, c, i))
                         /\ \A j \in 1..Len(Part(s, c, i)) :
                              r[b(i - 1) + j] = Part(s, c, i)[j]
    BY <1>1, <1>15 DEF w
  <1>20. Composed(s, c, r, from, n)
    BY <1>1, <1>10, <1>13, <1>14, <1>16, <1>17, <1>18, <1>19, Zenon DEF Composed, b, l
  <1> QED BY <1>20 DEF r, n

\* The commands lie in the stream one behind the other.
InOrder(s, all, end, n) ==
  /\ n \in Nat
  /\ all \in Seq(Byte) /\ end[0] = 0 /\ end[n] = Len(all) /\ Len(all) \in Nat
  /\ \A c \in 0..n : end[c] \in Nat /\ end[c] <= Len(all)
  /\ \A c, d \in 0..n : c <= d => end[c] <= end[d]
  /\ \A c \in 1..n :
       /\ end[c] = end[c - 1] + Len(Encoded(s, c))
       /\ \A j \in 1..Len(Encoded(s, c)) : all[end[c - 1] + j] = Encoded(s, c)[j]

LEMMA EncodedTyped ==
  ASSUME NEW s \in Streams, NEW c \in 1..Len(s)
  PROVE  Encoded(s, c) \in Seq(Byte)
  <1> DEFINE n == Len(s[c].args)
  <1>1. n \in Nat /\ \A i \in 1..n : Part(s, c, i) \in Seq(Byte)
    BY CommandFacts, PartTyped, Zenon
  <1> DEFINE E == [i \in 1..n |-> Part(s, c, i)]
  <1>2. E \in Seq(Seq(Byte))
    BY <1>1
  <1>3. Encoded(s, c) = Header(s, c) \o FlattenSeq(E)
    BY DEF Encoded
  <1> HIDE DEF E
  <1>4. FlattenSeq(E) \in Seq(Byte) /\ Header(s, c) \in Seq(Byte)
    BY <1>2, FlattenFacts, HeaderFacts
  <1> QED BY <1>3, <1>4

LEMMA StreamInOrder ==
  ASSUME NEW s \in Streams
  PROVE  InOrder(s, Bytes[s], CommandEnd[s], Len(s))
  <1> DEFINE n == Len(s)
             all == Bytes[s]
             end == CommandEnd[s]
             E == [c \in 1..n |-> Encoded(s, c)]
  <1>1. n \in Nat
    BY CommandFacts
  <1>2. E \in [1..n -> Seq(Byte)]
    BY EncodedTyped
  <1>3. \A k \in 0..n : [d \in 1..k |-> Encoded(s, d)] = [d \in 1..k |-> E[d]]
    BY <1>1
  <1>4. all = Flat(E, n)
    <2>1. all = FlattenSeq([c \in 1..n |-> Encoded(s, c)])
      BY DEF Bytes
    <2> QED BY <1>1, <1>3, <2>1 DEF Flat
  <1>5. \A c \in 0..n : end[c] = Len(Flat(E, c))
    <2>1. \A c \in 0..n : end[c] = Len(FlattenSeq([d \in 1..c |-> Encoded(s, d)]))
      BY DEF CommandEnd
    <2> QED BY <1>3, <2>1, Zenon DEF Flat
  <1>6. \A c \in 1..n : E[c] = Encoded(s, c)
    OBVIOUS
  <1> HIDE DEF E, n, all, end
  <1>7. /\ Flat(E, 0) = <<>> /\ \A k \in 0..n : Flat(E, k) \in Seq(Byte)
    BY <1>1, <1>2, FlatFacts, Zenon
  <1>8. LaidOut(E, n)
    BY <1>1, <1>2, FlatPlaces
  <1>9. 0 \in 0..n /\ n \in 0..n /\ \A c \in 0..n : c <= n
    BY <1>1
  <1>10. all \in Seq(Byte) /\ end[0] = 0 /\ end[n] = Len(all) /\ Len(all) \in Nat
    BY <1>4, <1>5, <1>7, <1>9
  <1>11. \A c, d \in 0..n : c <= d => end[c] <= end[d]
    BY <1>5, <1>8 DEF LaidOut
  <1>12. \A c \in 0..n : end[c] \in Nat /\ end[c] <= Len(all)
    <2>1. \A c \in 0..n : end[c] \in Nat
      BY <1>5, <1>8 DEF LaidOut
    <2> QED BY <1>9, <1>10, <1>11, <2>1
  <1>13. ASSUME NEW c \in 1..n
         PROVE  /\ end[c] = end[c - 1] + Len(E[c])
                /\ \A j \in 1..Len(E[c]) : all[end[c - 1] + j] = E[c][j]
    <2>1. c - 1 \in 0..n /\ c \in 0..n /\ c <= n
      BY <1>1
    <2>2. /\ Len(Flat(E, c)) = Len(Flat(E, c - 1)) + Len(E[c])
          /\ \A j \in 1..Len(E[c]) : Flat(E, n)[Len(Flat(E, c - 1)) + j] = E[c][j]
      BY <1>8, <1>9, <2>1, Zenon DEF LaidOut
    <2>3. end[c] = Len(Flat(E, c)) /\ end[c - 1] = Len(Flat(E, c - 1))
      BY <1>5, <2>1
    <2> QED BY <1>4, <2>2, <2>3
  <1>14. \A c \in 1..n : /\ end[c] = end[c - 1] + Len(Encoded(s, c))
                         /\ \A j \in 1..Len(Encoded(s, c)) :
                              all[end[c - 1] + j] = Encoded(s, c)[j]
    BY <1>6, <1>13
  <1>15. InOrder(s, all, end, n)
    BY <1>1, <1>10, <1>11, <1>12, <1>14 DEF InOrder
  <1> QED BY <1>15 DEF all, end, n

\* Where a command lies in the stream, and its arguments in it.
Places(s, c, all, from, to, n) ==
  /\ n \in Nat /\ from \in Nat /\ to \in Nat /\ from <= to /\ to <= Len(all)
  /\ \A i \in 0..n : /\ ArgEnd(s, c, i) \in Nat /\ ArgEnd(s, c, i) >= from
                     /\ ArgEnd(s, c, i) <= to
  /\ ArgEnd(s, c, 0) = from + (IF s[c].form = "inline" THEN 0 ELSE 2)
  /\ ArgEnd(s, c, n) = to
  /\ s[c].form = "multibulk" => /\ from + 2 <= to /\ all[from + 1] = <<"*", n>>
                                /\ all[from + 2] = Lf
  /\ \A i \in 1..n : /\ ArgEnd(s, c, i) = ArgEnd(s, c, i - 1) + Len(Part(s, c, i))
                     /\ \A j \in 1..Len(Part(s, c, i)) :
                          all[ArgEnd(s, c, i - 1) + j] = Part(s, c, i)[j]

LEMMA PlaceFacts ==
  ASSUME NEW s \in Streams, NEW c \in 1..Len(s)
  PROVE  Places(s, c, Bytes[s], CommandEnd[s][c - 1], CommandEnd[s][c], Len(s[c].args))
  <1> DEFINE all == Bytes[s]
             n == Len(s[c].args)
             from == CommandEnd[s][c - 1]
             to == CommandEnd[s][c]
             r == Encoded(s, c)
             p(i) == ArgEnd(s, c, i)
             w(i) == Len(Part(s, c, i))
             l == Len(r)
  <1>1. /\ from \in Nat /\ to \in Nat /\ from <= to /\ to <= Len(all)
        /\ to = from + l /\ \A j \in 1..l : all[from + j] = r[j]
    <2>1. c - 1 \in 0..Len(s) /\ c \in 0..Len(s) /\ c - 1 <= c
      BY CommandFacts
    <2> QED BY <2>1, StreamInOrder DEF InOrder
  <1>2. Composed(s, c, r, from, n)
    BY <1>1, ComposedFacts
  <1>3. \A i \in 1..n : w(i) \in Nat
    BY PartTyped
  <1>5. /\ n \in Nat /\ l \in Nat
        /\ \A i \in 0..n : p(i) - from \in Nat /\ p(i) - from <= l /\ p(i) \in Int
        /\ p(0) - from = IF s[c].form = "inline" THEN 0 ELSE 2
        /\ p(n) - from = l
        /\ s[c].form = "multibulk" => l >= 2 /\ r[1] = <<"*", n>> /\ r[2] = Lf
        /\ \A i \in 1..n :
             /\ p(i) - from = (p(i - 1) - from) + w(i)
             /\ \A j \in 1..w(i) : r[(p(i - 1) - from) + j] = Part(s, c, i)[j]
    BY <1>2 DEF Composed
  <1> HIDE DEF all, n, from, to, r, p, w, l
  <1>6. \A i \in 0..n : p(i) \in Nat /\ p(i) >= from /\ p(i) <= to
    <2> SUFFICES ASSUME NEW i \in 0..n PROVE p(i) \in Nat /\ p(i) >= from /\ p(i) <= to
      OBVIOUS
    <2>1. p(i) - from \in Nat /\ p(i) - from <= l /\ p(i) \in Int
      BY <1>5
    <2> QED BY <1>1, <1>5, <2>1
  <1>7. 0 \in 0..n /\ n \in 0..n /\ \A i \in 1..n : i \in 0..n /\ i - 1 \in 0..n
    BY <1>5
  <1>8. p(0) = from + (IF s[c].form = "inline" THEN 0 ELSE 2) /\ p(n) = to
    <2> DEFINE k == IF s[c].form = "inline" THEN 0 ELSE 2
               x == p(0)
               y == p(n)
    <2>1. x \in Nat /\ y \in Nat /\ k \in Nat
      BY <1>6, <1>7
    <2>2. x - from = k /\ y - from = l
      BY <1>5
    <2> HIDE DEF k, x, y
    <2>3. x = from + k /\ y = to
      BY <1>1, <1>5, <2>1, <2>2
    <2> QED BY <2>3 DEF k, x, y
  <1>9. s[c].form = "multibulk" => /\ from + 2 <= to /\ all[from + 1] = <<"*", n>>
                                   /\ all[from + 2] = Lf
    <2> SUFFICES ASSUME s[c].form = "multibulk"
                 PROVE  /\ from + 2 <= to /\ all[from + 1] = <<"*", n>>
                        /\ all[from + 2] = Lf
      OBVIOUS
    <2>1. l >= 2 /\ r[1] = <<"*", n>> /\ r[2] = Lf
      BY <1>5
    <2>2. 1 \in 1..l /\ 2 \in 1..l /\ from + 2 <= to
      BY <1>1, <1>5, <2>1
    <2> QED BY <1>1, <2>1, <2>2, Zenon
  <1>10. ASSUME NEW i \in 1..n
         PROVE  /\ p(i) = p(i - 1) + w(i)
                /\ \A j \in 1..w(i) : all[p(i - 1) + j] = Part(s, c, i)[j]
    <2> DEFINE x == p(i - 1)
               y == p(i)
               v == w(i)
    <2>1. /\ x \in Nat /\ x >= from /\ y \in Nat /\ y <= to /\ v \in Nat
          /\ y - from = (x - from) + v
      BY <1>3, <1>5, <1>6, <1>7, Zenon
    <2>2. \A j \in 1..v : r[(x - from) + j] = Part(s, c, i)[j]
      BY <1>5, Zenon
    <2> HIDE DEF x, y, v
    <2>3. y = x + v
      BY <1>1, <2>1
    <2>4. ASSUME NEW j \in 1..v PROVE all[x + j] = Part(s, c, i)[j]
      <3> DEFINE k == (x - from) + j
      <3>1. k \in 1..l /\ x + j = from + k
        BY <1>1, <1>5, <2>1, <2>3
      <3>2. r[k] = Part(s, c, i)[j]
        BY <2>2
      <3> HIDE DEF k
      <3> QED BY <1>1, <3>1, <3>2
    <2> QED BY <2>3, <2>4 DEF x, y, v
  <1>11. Places(s, c, all, from, to, n)
    BY <1>1, <1>5, <1>6, <1>8, <1>9, <1>10, Zenon DEF Places, p, w
  <1> QED BY <1>11 DEF all, from, to, n

\* A length line, an argument of a multibulk command and its end of line lie behind p.
MultiArgAt(B, a, p, q, v) ==
  /\ p \in Nat /\ v \in Nat /\ q = p + v + 4 /\ q <= Len(B)
  /\ B[p + 1] = <<"$", v>> /\ B[p + 2] = Lf
  /\ \A k \in 1..v : B[p + 2 + k] = a[k]
  /\ B[p + v + 3] = Cr /\ B[p + v + 4] = Lf

\* A word and what is behind it lie behind p.
InlineArgAt(B, a, p, q, v, last, gap) ==
  /\ p \in Nat /\ v \in Nat /\ v > 0 /\ gap \in Nat /\ gap > 0 /\ q \in Nat /\ q <= Len(B)
  /\ \A k \in 1..v : B[p + k] = a[k]
  /\ last => q = p + v + 2 /\ B[p + v + 1] = Cr /\ B[p + v + 2] = Lf
  /\ ~last => q = p + v + gap /\ \A j \in 1..gap : B[p + v + j] = Sp

LEMMA MultiArgFacts ==
  ASSUME NEW s \in Streams, NEW c \in 1..Len(s), s[c].form = "multibulk",
         NEW i \in 1..Len(s[c].args)
  PROVE  MultiArgAt(Bytes[s], Argument(s, c, i), ArgEnd(s, c, i - 1), ArgEnd(s, c, i),
                    s[c].args[i])
  <1> DEFINE B == Bytes[s]
             a == Argument(s, c, i)
             p == ArgEnd(s, c, i - 1)
             q == ArgEnd(s, c, i)
             v == s[c].args[i]
             e == Part(s, c, i)
             to == CommandEnd[s][c]
             n == Len(s[c].args)
  <1>1. Places(s, c, B, CommandEnd[s][c - 1], to, n)
    BY PlaceFacts
  <1>2. MultibulkPart(e, a, v) /\ v \in Nat
    BY MultibulkPartFacts, CommandFacts
  <1>3. n \in Nat /\ i - 1 \in 0..n /\ i \in 0..n
    BY <1>1 DEF Places
  <1>4. /\ p \in Nat /\ q \in Nat /\ q <= to /\ to <= Len(B) /\ to \in Nat
        /\ q = p + Len(e) /\ \A j \in 1..Len(e) : B[p + j] = e[j]
    BY <1>1, <1>3, Zenon DEF Places
  <1>5. Len(B) \in Nat
    BY BytesTyped DEF Length
  <1> HIDE DEF B, a, p, q, v, e, to, n
  <1>6. /\ Len(e) = v + 4 /\ e[1] = <<"$", v>> /\ e[2] = Lf
        /\ \A j \in 1..v : e[2 + j] = a[j]
        /\ e[v + 3] = Cr /\ e[v + 4] = Lf
    BY <1>2, Zenon DEF MultibulkPart
  <1>7. q = p + v + 4 /\ q <= Len(B)
    BY <1>2, <1>4, <1>5, <1>6
  <1>8. B[p + 1] = <<"$", v>> /\ B[p + 2] = Lf
    <2>1. 1 \in 1..Len(e) /\ 2 \in 1..Len(e)
      BY <1>2, <1>6
    <2> QED BY <1>4, <1>6, <2>1, Zenon
  <1>9. ASSUME NEW k \in 1..v PROVE B[p + 2 + k] = a[k]
    <2> DEFINE j == 2 + k
    <2>1. Len(e) = v + 4 /\ p \in Nat /\ v \in Nat
      BY <1>2, <1>4, <1>6, Zenon
    <2>2. j \in 1..Len(e) /\ p + 2 + k = p + j
      BY <2>1
    <2>3. e[j] = a[k]
      BY <1>6, Zenon
    <2> HIDE DEF j
    <2> QED BY <1>4, <2>2, <2>3, Zenon
  <1>10. B[p + v + 3] = Cr /\ B[p + v + 4] = Lf
    <2> DEFINE j == v + 3
               l == v + 4
    <2>0. Len(e) = v + 4 /\ p \in Nat /\ v \in Nat
      BY <1>2, <1>4, <1>6, Zenon
    <2>1. j \in 1..Len(e) /\ p + v + 3 = p + j /\ l \in 1..Len(e) /\ p + v + 4 = p + l
      BY <2>0
    <2>2. e[j] = Cr /\ e[l] = Lf
      BY <1>6, Zenon
    <2> HIDE DEF j, l
    <2> QED BY <1>4, <2>1, <2>2, Zenon
  <1>11. MultiArgAt(B, a, p, q, v)
    BY <1>2, <1>4, <1>7, <1>8, <1>9, <1>10, Zenon DEF MultiArgAt
  <1> QED BY <1>11 DEF B, a, p, q, v

LEMMA InlineArgFacts ==
  ASSUME NEW s \in Streams, NEW c \in 1..Len(s), s[c].form = "inline",
         NEW i \in 1..Len(s[c].args)
  PROVE  InlineArgAt(Bytes[s], Argument(s, c, i), ArgEnd(s, c, i - 1), ArgEnd(s, c, i),
                     s[c].args[i], i = Len(s[c].args), s[c].gap)
  <1> DEFINE B == Bytes[s]
             a == Argument(s, c, i)
             p == ArgEnd(s, c, i - 1)
             q == ArgEnd(s, c, i)
             v == s[c].args[i]
             e == Part(s, c, i)
             to == CommandEnd[s][c]
             n == Len(s[c].args)
             g == s[c].gap
  <1>1. Places(s, c, B, CommandEnd[s][c - 1], to, n)
    BY PlaceFacts
  <1>2. InlinePart(e, a, v, i = n, g) /\ v \in Nat /\ g \in Nat
    BY InlinePartFacts, CommandFacts
  <1>3. n \in Nat /\ i - 1 \in 0..n /\ i \in 0..n
    BY <1>1 DEF Places
  <1>4. /\ p \in Nat /\ q \in Nat /\ q <= to /\ to <= Len(B) /\ to \in Nat
        /\ q = p + Len(e) /\ \A j \in 1..Len(e) : B[p + j] = e[j]
    BY <1>1, <1>3, Zenon DEF Places
  <1>5. Len(B) \in Nat
    BY BytesTyped DEF Length
  <1> HIDE DEF B, a, p, q, v, e, to, n, g
  <1>6. /\ v > 0 /\ g > 0
        /\ \A j \in 1..v : e[j] = a[j]
        /\ i = n => Len(e) = v + 2 /\ e[v + 1] = Cr /\ e[v + 2] = Lf
        /\ i # n => Len(e) = v + g /\ \A j \in 1..g : e[v + j] = Sp
    BY <1>2 DEF InlinePart
  <1>7. q <= Len(B)
    BY <1>4, <1>5
  <1>8. Len(e) \in Nat /\ Len(e) >= v
    <2>1. CASE i = n
      BY <1>2, <1>6, <2>1
    <2>2. CASE i # n
      BY <1>2, <1>6, <2>2
    <2> QED BY <2>1, <2>2
  <1>9. ASSUME NEW k \in 1..v PROVE B[p + k] = a[k]
    <2>1. k \in 1..Len(e)
      BY <1>2, <1>8
    <2> QED BY <1>4, <1>6, <2>1
  <1>10. i = n => q = p + v + 2 /\ B[p + v + 1] = Cr /\ B[p + v + 2] = Lf
    <2> SUFFICES ASSUME i = n
                 PROVE  q = p + v + 2 /\ B[p + v + 1] = Cr /\ B[p + v + 2] = Lf
      OBVIOUS
    <2> DEFINE j == v + 1
               l == v + 2
    <2>1. j \in 1..Len(e) /\ p + v + 1 = p + j /\ l \in 1..Len(e) /\ p + v + 2 = p + l
      BY <1>2, <1>4, <1>6
    <2>2. e[j] = Cr /\ e[l] = Lf /\ q = p + v + 2
      BY <1>2, <1>4, <1>6
    <2> HIDE DEF j, l
    <2> QED BY <1>4, <2>1, <2>2, Zenon
  <1>11. i # n => q = p + v + g /\ \A j \in 1..g : B[p + v + j] = Sp
    <2> SUFFICES ASSUME i # n
                 PROVE  q = p + v + g /\ \A j \in 1..g : B[p + v + j] = Sp
      OBVIOUS
    <2>1. q = p + v + g
      BY <1>2, <1>4, <1>6
    <2>2. ASSUME NEW j \in 1..g PROVE B[p + v + j] = Sp
      <3> DEFINE l == v + j
      <3>1. l \in 1..Len(e) /\ p + v + j = p + l
        BY <1>2, <1>4, <1>6
      <3>2. e[l] = Sp
        BY <1>6
      <3> HIDE DEF l
      <3> QED BY <1>4, <3>1, <3>2, Zenon
    <2> QED BY <2>1, <2>2
  <1>12. InlineArgAt(B, a, p, q, v, i = n, g)
    BY <1>2, <1>4, <1>6, <1>7, <1>9, <1>10, <1>11, Zenon DEF InlineArgAt
  <1> QED BY <1>12 DEF B, a, p, q, v, n, g

\* Position q is in the header of command c, or in its i-th argument.
InHeader(s, c, q) == s[c].form = "multibulk"
                     /\ q \in {CommandEnd[s][c - 1] + 1, CommandEnd[s][c - 1] + 2}

InPart(s, c, i, q) == ArgEnd(s, c, i - 1) < q /\ q <= ArgEnd(s, c, i)

LEMMA Located ==
  ASSUME NEW s \in Streams, NEW q \in 1..Len(Bytes[s])
  PROVE  \E c \in 1..Len(s) :
            InHeader(s, c, q) \/ \E i \in 1..Len(s[c].args) : InPart(s, c, i, q)
  <1> DEFINE m == Len(s)
             end == CommandEnd[s]
             L == Len(Bytes[s])
             C == {c \in 0..m : q <= end[c]}
  <1>1. /\ m \in Nat /\ end[0] = 0 /\ end[m] = L /\ L \in Nat
        /\ \A c \in 0..m : end[c] \in Nat
    BY StreamInOrder DEF InOrder
  <1>2. C \subseteq Nat /\ m \in C
    BY <1>1
  <1>3. PICK c \in C : \A k \in C : c <= k
    BY <1>2, Least, Zenon
  <1>4. c \in 1..m /\ q <= end[c] /\ end[c - 1] < q /\ q \in Nat
    <2>1. c \in 0..m /\ q <= end[c] /\ q \in Nat /\ q > 0
      BY <1>1
    <2>2. c # 0
      BY <1>1, <2>1
    <2>3. c \in 1..m /\ c - 1 \in 0..m /\ ~(c <= c - 1)
      BY <1>1, <2>1, <2>2
    <2>4. ~(q <= end[c - 1])
      BY <1>3, <2>3
    <2>5. end[c - 1] \in Nat
      BY <1>1, <2>3
    <2> QED BY <2>1, <2>3, <2>4, <2>5
  <1> DEFINE n == Len(s[c].args)
             from == end[c - 1]
             to == end[c]
             p(i) == ArgEnd(s, c, i)
             I == {i \in 0..n : q <= p(i)}
  <1>5. /\ n \in Nat /\ from \in Nat /\ to \in Nat
        /\ \A i \in 0..n : p(i) \in Nat
        /\ p(0) = from + (IF s[c].form = "inline" THEN 0 ELSE 2)
        /\ p(n) = to
    <2>1. Places(s, c, Bytes[s], from, to, n)
      BY <1>4, PlaceFacts
    <2> QED BY <2>1 DEF Places
  <1>6. s[c].form = "multibulk" \/ s[c].form = "inline"
    BY <1>4, CommandFacts
  <1> HIDE DEF m, end, L, C, p, n
  <1>7. CASE q <= p(0)
    <2>1. s[c].form = "multibulk" /\ p(0) = from + 2
      BY <1>4, <1>5, <1>6, <1>7
    <2>2. q = from + 1 \/ q = from + 2
      <3>1. from \in Nat /\ q \in Nat /\ from < q
        BY <1>4, <1>5
      <3> QED BY <1>7, <2>1, <3>1
    <2>3. InHeader(s, c, q)
      BY <2>1, <2>2 DEF InHeader, from, end
    <2> QED BY <1>4, <2>3 DEF m
  <1>8. CASE ~(q <= p(0))
    <2>1. I \subseteq Nat /\ n \in I
      BY <1>4, <1>5
    <2>2. PICK i \in I : \A k \in I : i <= k
      BY <2>1, Least, Zenon
    <2>3. i \in 0..n /\ q <= p(i) /\ i # 0
      BY <1>8
    <2>4. i \in 1..n /\ i - 1 \in 0..n /\ ~(i <= i - 1)
      BY <1>5, <2>3
    <2>5. ~(q <= p(i - 1)) /\ p(i - 1) \in Nat
      BY <1>5, <2>2, <2>4
    <2>6. p(i - 1) < q
      BY <1>4, <2>5
    <2>7. InPart(s, c, i, q)
      BY <2>3, <2>6 DEF InPart, p
    <2> QED BY <1>4, <2>4, <2>7 DEF m, n
  <1> QED BY <1>7, <1>8

LEMMA KindFacts ==
  /\ Cr # Lf /\ Cr # Sp /\ Lf # Sp /\ Sp # Cr
  /\ Cr[1] = "cr" /\ Lf[1] = "lf" /\ Sp[1] = "sp"
  /\ Cr[1] # "byte" /\ Lf[1] # "byte" /\ Sp[1] # "byte"
  /\ \A b : b[1] = "byte" => b # Cr /\ b # Lf /\ b # Sp /\ b[1] # "*"
  /\ \A n : /\ <<"$", n>> # Cr /\ <<"$", n>> # Lf /\ <<"$", n>> # Sp
            /\ <<"*", n>> # Cr /\ <<"*", n>> # Lf /\ <<"*", n>> # Sp
            /\ <<"$", n>>[1] = "$" /\ <<"*", n>>[1] = "*"
            /\ <<"$", n>>[2] = n /\ <<"*", n>>[2] = n
  BY DEF Cr, Lf, Sp

\* Streams whose empty words are none: no word is followed by two spaces.
Single(s) == \A c \in 1..Len(s) : s[c].form = "inline" => s[c].gap <= 1

AllMulti(s) == \A c \in 1..Len(s) : s[c].form = "multibulk"

Regular(s) == Single(s) \/ AllMulti(s)

\* No byte b stands where it does not: what a byte says about its place.
Says(s, B, q) ==
  /\ B[q][1] = "*" => \E h \in 0..(Len(s) - 1) : /\ q = CommandEnd[s][h] + 1
                                                /\ s[h + 1].form = "multibulk"
  /\ Regular(s) /\ B[q] \in {Sp, Lf} =>
        /\ q - 1 \in 1..Len(B) /\ B[q - 1] \notin {Sp, Lf}

LEMMA HeaderSays ==
  ASSUME NEW s \in Streams, NEW c \in 1..Len(s), NEW q, InHeader(s, c, q)
  PROVE  Says(s, Bytes[s], q)
  <1> DEFINE B == Bytes[s]
             from == CommandEnd[s][c - 1]
             n == Len(s[c].args)
             m == Len(s)
  <1>1. Places(s, c, B, from, CommandEnd[s][c], n)
    BY PlaceFacts
  <1>2. s[c].form = "multibulk" /\ (q = from + 1 \/ q = from + 2)
    BY DEF InHeader
  <1>3. /\ from \in Nat /\ from + 2 <= CommandEnd[s][c] /\ CommandEnd[s][c] \in Nat
        /\ CommandEnd[s][c] <= Len(B) /\ B[from + 1] = <<"*", n>> /\ B[from + 2] = Lf
    BY <1>1, <1>2 DEF Places
  <1>4. Len(B) \in Nat /\ m \in Nat
    BY BytesTyped, CommandFacts DEF Length
  <1>5. c - 1 \in 0..(m - 1) /\ (c - 1) + 1 = c
    BY <1>4
  <1> HIDE DEF B, n, m
  <1>6. CASE q = from + 1
    <2>1. B[q] = <<"*", n>>
      BY <1>3, <1>6
    <2>2. B[q] \notin {Sp, Lf}
      BY <2>1, KindFacts
    <2>3. \E h \in 0..(m - 1) : q = CommandEnd[s][h] + 1 /\ s[h + 1].form = "multibulk"
      BY <1>2, <1>5, <1>6
    <2> QED BY <2>2, <2>3 DEF Says, B, m
  <1>7. CASE q = from + 2
    <2>1. B[q] = Lf /\ q - 1 = from + 1
      BY <1>3, <1>7
    <2>2. B[q][1] # "*"
      BY <2>1, KindFacts
    <2>3. q - 1 \in 1..Len(B)
      <3> DEFINE x == from
                 to == CommandEnd[s][c]
                 l == Len(B)
      <3>1. x \in Nat /\ x + 2 <= to /\ to <= l /\ to \in Nat /\ l \in Nat /\ q = x + 2
        BY <1>3, <1>4, <1>7
      <3> HIDE DEF x, to, l
      <3>2. q - 1 \in 1..l
        BY <3>1
      <3> QED BY <3>2 DEF l
    <2>4. B[q - 1] = <<"*", n>>
      BY <1>3, <2>1, Zenon
    <2>5. B[q - 1] \notin {Sp, Lf}
      BY <2>4, KindFacts
    <2> QED BY <2>2, <2>3, <2>5 DEF Says, B
  <1> QED BY <1>2, <1>6, <1>7

LEMMA MultiSays ==
  ASSUME NEW s \in Streams, NEW c \in 1..Len(s), s[c].form = "multibulk",
         NEW i \in 1..Len(s[c].args), NEW q, InPart(s, c, i, q), q \in Nat
  PROVE  Says(s, Bytes[s], q)
  <1> DEFINE B == Bytes[s]
             a == Argument(s, c, i)
             p == ArgEnd(s, c, i - 1)
             e == ArgEnd(s, c, i)
             v == s[c].args[i]
  <1>1. MultiArgAt(B, a, p, e, v)
    BY MultiArgFacts
  <1>2. DataOf(a, v)
    BY ArgumentFacts
  <1>3. p < q /\ q <= e
    BY DEF InPart
  <1>4. Len(B) \in Nat
    BY BytesTyped DEF Length
  <1> HIDE DEF B, a, p, e, v
  <1>5. /\ p \in Nat /\ v \in Nat /\ e = p + v + 4 /\ e <= Len(B)
        /\ B[p + 1] = <<"$", v>> /\ B[p + 2] = Lf
        /\ \A k \in 1..v : B[p + 2 + k] = a[k]
        /\ B[p + v + 3] = Cr /\ B[p + v + 4] = Lf
    BY <1>1 DEF MultiArgAt
  <1>12. /\ p \in Nat /\ v \in Nat /\ q \in Nat /\ p < q /\ q <= p + v + 4
    <2>1. p \in Nat /\ v \in Nat /\ e = p + v + 4
      BY <1>5, Zenon
    <2> QED BY <1>3, <2>1
  <1>6. \A k \in 1..v : a[k][1] = "byte"
    BY <1>2 DEF DataOf
  <1>7. CASE q = p + 1
    <2>1. B[q] = <<"$", v>>
      BY <1>5, <1>7, Zenon
    <2>2. B[q] \notin {Sp, Lf} /\ B[q][1] # "*"
      BY <2>1, KindFacts
    <2> QED BY <2>2 DEF Says, B
  <1>8. CASE q = p + 2
    <2>1. B[q] = Lf /\ q - 1 = p + 1 /\ q - 1 \in 1..Len(B)
      BY <1>3, <1>4, <1>5, <1>8
    <2>2. B[q - 1] = <<"$", v>>
      BY <1>5, <2>1, Zenon
    <2>3. B[q - 1] \notin {Sp, Lf} /\ B[q][1] # "*"
      BY <2>1, <2>2, KindFacts
    <2> QED BY <2>1, <2>3 DEF Says, B
  <1>9. CASE q = p + v + 3
    <2>1. B[q] = Cr
      BY <1>5, <1>9
    <2>2. B[q] \notin {Sp, Lf} /\ B[q][1] # "*"
      BY <2>1, KindFacts
    <2> QED BY <2>2 DEF Says, B
  <1>10. CASE q = p + v + 4
    <2>0. q - 1 = p + v + 3 /\ q - 1 \in 1..Len(B)
      <3>1. e = p + v + 4 /\ e <= Len(B)
        BY <1>5
      <3> QED BY <1>4, <1>10, <1>12, <3>1
    <2>1. B[q] = Lf /\ q - 1 = p + v + 3 /\ q - 1 \in 1..Len(B)
      BY <1>5, <1>10, <2>0
    <2>2. B[q - 1] = Cr
      BY <1>5, <2>1
    <2>3. B[q - 1] \notin {Sp, Lf} /\ B[q][1] # "*"
      BY <2>1, <2>2, KindFacts
    <2> QED BY <2>1, <2>3 DEF Says, B
  <1>11. CASE p + 2 < q /\ q < p + v + 3
    <2> DEFINE k == q - (p + 2)
    <2>1. k \in 1..v /\ p + 2 + k = q
      BY <1>12, <1>11
    <2> HIDE DEF k
    <2>2. B[q][1] = "byte"
      BY <1>5, <1>6, <2>1, Zenon
    <2>3. B[q] \notin {Sp, Lf} /\ B[q][1] # "*"
      BY <2>2, KindFacts
    <2> QED BY <2>3 DEF Says, B
  <1>13. \/ q = p + 1 \/ q = p + 2 \/ q = p + v + 3 \/ q = p + v + 4
         \/ (p + 2 < q /\ q < p + v + 3)
    BY <1>12
  <1> QED BY <1>7, <1>8, <1>9, <1>10, <1>11, <1>13

LEMMA InlineSays ==
  ASSUME NEW s \in Streams, NEW c \in 1..Len(s), s[c].form = "inline",
         NEW i \in 1..Len(s[c].args), NEW q, InPart(s, c, i, q), q \in Nat
  PROVE  Says(s, Bytes[s], q)
  <1> DEFINE B == Bytes[s]
             a == Argument(s, c, i)
             p == ArgEnd(s, c, i - 1)
             e == ArgEnd(s, c, i)
             v == s[c].args[i]
             g == s[c].gap
             n == Len(s[c].args)
             S == Regular(s)
  <1>1. InlineArgAt(B, a, p, e, v, i = n, g)
    BY InlineArgFacts
  <1>2. DataOf(a, v)
    BY ArgumentFacts
  <1>3. p < q /\ q <= e
    BY DEF InPart
  <1>5. Len(B) \in Nat
    BY BytesTyped DEF Length
  <1>6. S => g <= 1
    <2>1. s[c].form # "multibulk"
      OBVIOUS
    <2>2. s[c].form = "inline"
      BY <2>1, CommandFacts
    <2> QED BY <2>1, <2>2 DEF Regular, Single, AllMulti
  <1> HIDE DEF B, a, p, e, v, g, n, S
  <1>7. /\ p \in Nat /\ v \in Nat /\ v > 0 /\ g \in Nat /\ g > 0 /\ e \in Nat /\ e <= Len(B)
        /\ \A k \in 1..v : B[p + k] = a[k]
        /\ i = n => e = p + v + 2 /\ B[p + v + 1] = Cr /\ B[p + v + 2] = Lf
        /\ i # n => e = p + v + g /\ \A j \in 1..g : B[p + v + j] = Sp
    BY <1>1 DEF InlineArgAt
  <1>8. ASSUME NEW k \in 1..v PROVE B[p + k][1] = "byte" /\ B[p + k] \notin {Sp, Lf}
    <2>1. B[p + k][1] = "byte"
      BY <1>2, <1>7, Zenon DEF DataOf
    <2> QED BY <2>1, KindFacts
  <1>9. CASE q <= p + v
    <2> DEFINE k == q - p
    <2>0. p \in Nat /\ v \in Nat
      BY <1>7, Zenon
    <2>1. k \in 1..v /\ p + k = q
      BY <1>3, <1>9, <2>0
    <2> HIDE DEF k
    <2>2. B[q][1] = "byte" /\ B[q] \notin {Sp, Lf}
      BY <1>8, <2>1
    <2> QED BY <2>2, KindFacts DEF Says, B
  <1>11. B[p + v] \notin {Sp, Lf}
    <2>1. v \in 1..v
      BY <1>7
    <2> QED BY <1>8, <2>1
  <1>12. CASE i = n /\ ~(q <= p + v)
    <2>0. p \in Nat /\ v \in Nat /\ e = p + v + 2
      BY <1>7, <1>12, Zenon
    <2>1. q = p + v + 1 \/ q = p + v + 2
      BY <1>3, <1>12, <2>0
    <2>2. CASE q = p + v + 1
      <3>1. B[q] = Cr
        BY <1>7, <1>12, <2>2
      <3>2. B[q] \notin {Sp, Lf} /\ B[q][1] # "*"
        BY <3>1, KindFacts
      <3> QED BY <3>2 DEF Says, B
    <2>3. CASE q = p + v + 2
      <3>1. q - 1 \in 1..Len(B) /\ q - 1 = p + v + 1
        BY <1>3, <1>5, <1>7, <2>3
      <3>2. B[q] = Lf /\ B[q - 1] = Cr
        BY <1>7, <1>12, <2>3, <3>1
      <3>3. B[q - 1] \notin {Sp, Lf} /\ B[q][1] # "*"
        BY <3>2, KindFacts
      <3> QED BY <3>1, <3>3 DEF Says, B
    <2> QED BY <2>1, <2>2, <2>3
  <1>13. CASE i # n /\ ~(q <= p + v)
    <2> DEFINE j == q - (p + v)
    <2>1. j \in 1..g /\ p + v + j = q
      BY <1>3, <1>7, <1>13
    <2> HIDE DEF j
    <2>2. B[q] = Sp
      BY <1>7, <1>13, <2>1, Zenon
    <2>3. B[q][1] # "*"
      BY <2>2, KindFacts
    <2>4. S => q - 1 \in 1..Len(B) /\ B[q - 1] \notin {Sp, Lf}
      <3> SUFFICES ASSUME S PROVE q - 1 \in 1..Len(B) /\ B[q - 1] \notin {Sp, Lf}
        OBVIOUS
      <3>1. g = 1
        BY <1>6, <1>7
      <3>2. q - 1 = p + v /\ q - 1 \in 1..Len(B)
        BY <1>3, <1>5, <1>7, <1>13, <2>1, <3>1
      <3> QED BY <1>11, <3>2
    <2> QED BY <2>3, <2>4 DEF Says, B, S
  <1> QED BY <1>9, <1>12, <1>13

LEMMA BytesSay ==
  ASSUME NEW s \in Streams, NEW q \in 1..Len(Bytes[s])
  PROVE  Says(s, Bytes[s], q)
  <1>1. q \in Nat
    OBVIOUS
  <1>2. PICK c \in 1..Len(s) :
          InHeader(s, c, q) \/ \E i \in 1..Len(s[c].args) : InPart(s, c, i, q)
    BY Located
  <1>3. s[c].form = "multibulk" \/ s[c].form = "inline"
    BY CommandFacts
  <1> QED BY <1>1, <1>2, <1>3, HeaderSays, MultiSays, InlineSays

--------------------------------------------------------------------------------
(* What a parse sees of the stream, reads and shows, one step after the other. *)

LEMMA MultiLines ==
  ASSUME NEW s \in Streams, NEW c \in 1..Len(s), s[c].form = "multibulk",
         NEW i \in 0..Len(s[c].args)
  PROVE  ArgEnd(s, c, i) \in 1..Len(Bytes[s]) /\ Bytes[s][ArgEnd(s, c, i)] = Lf
  <1> DEFINE B == Bytes[s]
             n == Len(s[c].args)
             p == ArgEnd(s, c, i)
  <1>1. Places(s, c, B, CommandEnd[s][c - 1], CommandEnd[s][c], n)
    BY PlaceFacts
  <1>2. Len(B) \in Nat
    BY BytesTyped DEF Length
  <1>3. CASE i = 0
    <2>1. /\ ArgEnd(s, c, 0) = CommandEnd[s][c - 1] + 2
          /\ CommandEnd[s][c - 1] + 2 <= CommandEnd[s][c]
          /\ B[CommandEnd[s][c - 1] + 2] = Lf
          /\ CommandEnd[s][c - 1] \in Nat /\ CommandEnd[s][c] \in Nat
          /\ CommandEnd[s][c] <= Len(B)
      BY <1>1 DEF Places
    <2> QED BY <1>2, <1>3, <2>1
  <1>4. CASE i # 0
    <2>1. i \in 1..n
      BY <1>4
    <2>2. MultiArgAt(B, Argument(s, c, i), ArgEnd(s, c, i - 1), p, s[c].args[i])
      BY <2>1, MultiArgFacts
    <2> DEFINE x == ArgEnd(s, c, i - 1)
               v == s[c].args[i]
    <2>3. x \in Nat /\ v \in Nat /\ p = x + v + 4 /\ p <= Len(B) /\ B[x + v + 4] = Lf
      BY <2>2 DEF MultiArgAt
    <2> HIDE DEF x, v, p
    <2>4. p \in 1..Len(B) /\ B[p] = Lf
      BY <1>2, <2>3
    <2> QED BY <2>4 DEF p
  <1> QED BY <1>3, <1>4

LEMMA CommandLines ==
  ASSUME NEW s \in Streams, NEW c \in 1..Len(s)
  PROVE  /\ CommandEnd[s][c] \in 1..Len(Bytes[s]) /\ Bytes[s][CommandEnd[s][c]] = Lf
         /\ CommandEnd[s][c - 1] < CommandEnd[s][c]
  <1> DEFINE B == Bytes[s]
             n == Len(s[c].args)
             from == CommandEnd[s][c - 1]
             to == CommandEnd[s][c]
  <1>1. Places(s, c, B, from, to, n)
    BY PlaceFacts
  <1>2. ArgEnd(s, c, n) = to /\ n \in 0..n /\ n \in Nat /\ from \in Nat /\ to \in Nat
    BY <1>1 DEF Places
  <1>3. s[c].form = "multibulk" \/ s[c].form = "inline"
    BY CommandFacts
  <1>4. CASE s[c].form = "multibulk"
    <2>1. to \in 1..Len(B) /\ B[to] = Lf
      BY <1>2, <1>4, MultiLines
    <2>2. from + 2 <= to
      BY <1>1, <1>4 DEF Places
    <2> HIDE DEF from, to
    <2>3. from < to
      BY <1>2, <2>2
    <2> QED BY <2>1, <2>3 DEF from, to
  <1>5. CASE s[c].form = "inline"
    <2>1. n > 0 /\ n \in 1..n
      BY <1>2, <1>5, CommandFacts
    <2> DEFINE x == ArgEnd(s, c, n - 1)
               v == s[c].args[n]
    <2>2. InlineArgAt(B, Argument(s, c, n), x, to, v, n = n, s[c].gap)
      BY <1>2, <1>5, <2>1, InlineArgFacts
    <2>3. /\ x \in Nat /\ v \in Nat /\ to <= Len(B) /\ to = x + v + 2
          /\ B[x + v + 2] = Lf
      BY <2>2 DEF InlineArgAt
    <2>4. x >= from
      <3>1. n - 1 \in 0..n
        BY <1>2, <2>1
      <3> QED BY <1>1, <3>1, Zenon DEF Places
    <2>5. Len(B) \in Nat
      BY BytesTyped DEF Length
    <2> HIDE DEF x, v, from, to, B
    <2>6. to \in 1..Len(B) /\ B[to] = Lf /\ from < to
      BY <1>2, <2>3, <2>4, <2>5
    <2> QED BY <2>6 DEF from, to, B
  <1> QED BY <1>3, <1>4, <1>5

\* The input keeps its bytes when arguments go.
LEMMA DroppedBytes ==
  ASSUME NEW B, NEW h, NEW args, NEW b, Sound(B, h, args, b), b.data # Null
  PROVE  Dropped(h, args)[b.data].bytes = h[b.data].bytes
  <1> DEFINE n == Len(args)
             e == b.data
             same(m) == m[e].bytes = h[e].bytes
             W == {x \in (0..n) \X Memory(B) :
                     Undropped(B, args, b, x[1], x[2]) /\ same(x[2])}
  <1>1. args \in Seq(Pointer) /\ h \in Memory(B) /\ n \in Nat /\ e \in Blocks
    BY DEF Sound, Shared, Pointer
  <1>2. PICK f : /\ Dropped(h, args) = f[n] /\ f[0] = h
                 /\ \A k \in 1..n : f[k] = Destroyed(f[k - 1], args[k])
    BY <1>1, DroppedSteps
  <1>3. <<0, f[0]>> \in W
    <2>1. HeldByFrom(args, 0) = HeldBy(args)
      BY <1>1, HeldFromFacts DEF HeldByFrom, HeldBy
    <2>2. Undropped(B, args, b, 0, h)
      BY <1>1, <2>1 DEF Sound, Undropped
    <2> QED BY <1>1, <1>2, <2>2
  <1>4. ASSUME NEW k \in 1..n, <<k - 1, f[k - 1]>> \in W PROVE <<k, f[k]>> \in W
    <2> DEFINE m == f[k - 1]
               a == args[k]
               g == Destroyed(m, a)
    <2>1. Undropped(B, args, b, k - 1, m) /\ same(m)
      BY <1>4
    <2>2. Undropped(B, args, b, k, g)
      BY <1>1, <2>1, DropStep
    <2>3. g = f[k] /\ g \in Memory(B) /\ k \in 0..n
      BY <1>1, <1>2, <2>2 DEF Undropped, Shared
    <2>4. /\ m \in Memory(B) /\ m[e].refs = HeldByFrom(args, k - 1)[e] + Points(b, e)
          /\ a \in Pointer
      BY <1>1, <2>1 DEF Undropped, Shared
    <2>5. HeldFrom(args, k, e) \in Nat
          /\ HeldByFrom(args, k - 1)[e] = HeldFrom(args, k, e) + Points(a, e)
      <3>1. k \in 0..Len(args) /\ k - 1 \in 0..Len(args)
        BY <1>1
      <3> QED BY <1>1, <3>1, HeldFromFacts, HeldByFromFacts
    <2> HIDE DEF m, a, n, e
    <2>6. CASE a.data = e
      <3>1. Points(a, e) = 1 /\ Points(b, e) = 1
        BY <2>6 DEF Points, e
      <3>2. m[e].refs # 1
        BY <2>4, <2>5, <3>1
      <3>3. e # Null
        BY DEF e
      <3>4. g = [m EXCEPT ![e].refs = @ - 1]
        BY <2>6, <3>2, <3>3 DEF Destroyed, DescRef
      <3>5. g[e].bytes = m[e].bytes
        BY <1>1, <2>4, <3>4 DEF Memory, Block
      <3> QED BY <2>1, <2>2, <2>3, <3>5
    <2>7. CASE a.data # e
      <3>1. g[e] = m[e]
        <4>1. CASE a.data = Null
          BY <4>1 DEF Destroyed
        <4>2. CASE a.data # Null
          BY <1>1, <2>4, <2>7, <4>2 DEF Destroyed, DescRef, Memory
        <4> QED BY <4>1, <4>2
      <3> QED BY <2>1, <2>2, <2>3, <3>1
    <2> QED BY <2>6, <2>7
  <1> HIDE DEF W
  <1>5. <<n, f[n]>> \in W
    BY <1>1, <1>3, <1>4, StepInvariance
  <1> QED BY <1>2, <1>5 DEF W

\* A request that is pushed, and one that is refused.
Pushes(B, d, t, r, q) ==
  /\ View(B, d, t, q) /\ Pos(t, q) = Pos(t, r)
  /\ q.parser = r.parser /\ q.err = r.err
  /\ \/ /\ q.stop = "refused" /\ q.argv = r.argv /\ Shown(q) = Shown(r)
        /\ q.pushed = r.pushed /\ r.room = 0
     \/ /\ q.stop = r.stop /\ q.argv = <<>> /\ Shown(q) = <<>>
        /\ q.pushed = Append(r.pushed, Shown(r)) /\ r.room # 0 /\ q.room = r.room - 1

LEMMA PushFacts ==
  ASSUME NEW B, NEW d \in Blocks, NEW t, NEW r, View(B, d, t, r)
  PROVE  Pushes(B, d, t, r, Push(r))
  <1> DEFINE q == Push(r)
  <1>1. Sane(d, r) /\ Sane(d, q) /\ r \in Parse /\ q \in Parse /\ t \in Nat
    BY PushSane DEF View, Sane
  <1>2. /\ q.input = r.input /\ q.at = r.at /\ q.parser = r.parser /\ q.err = r.err
        /\ \/ /\ q.stop = "refused" /\ q.argv = r.argv /\ q.heap = r.heap
              /\ q.pushed = r.pushed /\ r.room = 0
           \/ /\ q.stop = r.stop /\ q.argv = <<>> /\ q.heap = Dropped(r.heap, r.argv)
              /\ q.pushed = Append(r.pushed, Shown(r)) /\ r.room # 0 /\ q.room = r.room - 1
    <2>1. CASE r.room = 0
      BY <1>1, <2>1 DEF Push, Parse
    <2>2. CASE r.room # 0
      BY <1>1, <2>2 DEF Push, Parse, Shown
    <2> QED BY <2>1, <2>2
  <1> HIDE DEF q
  <1>3. Contents(q.heap, q.input) = Contents(r.heap, r.input)
    <2>1. Sound(Byte, r.heap, r.argv, r.input) /\ r.input.data # Null
      BY <1>1 DEF Sane
    <2>2. Dropped(r.heap, r.argv)[r.input.data].bytes = r.heap[r.input.data].bytes
      BY <2>1, DroppedBytes
    <2>3. q.heap[r.input.data].bytes = r.heap[r.input.data].bytes
      BY <1>2, <2>2
    <2> QED BY <1>2, <2>3, SameContents
  <1>4. Under(q.argv, q.input)
    <2>1. CASE q.argv = r.argv
      BY <1>2, <2>1 DEF View, Under
    <2>2. CASE q.argv = <<>>
      BY <2>2 DEF Under
    <2> QED BY <1>2, <2>1, <2>2
  <1>5. View(B, d, t, q)
    BY <1>1, <1>2, <1>3, <1>4 DEF View
  <1>6. Pos(t, q) = Pos(t, r)
    <2>1. Pos(t, q) = (t - Size(q.input)) + q.at
      BY <1>5, ViewFacts
    <2>2. Pos(t, r) = (t - Size(r.input)) + r.at
      BY ViewFacts
    <2> QED BY <1>2, <2>1, <2>2
  <1>7. CASE /\ q.stop = "refused" /\ q.argv = r.argv /\ q.heap = r.heap
             /\ q.pushed = r.pushed /\ r.room = 0
    <2>1. Shown(q) = Shown(r)
      BY <1>7 DEF Shown
    <2> QED BY <1>2, <1>5, <1>6, <1>7, <2>1 DEF Pushes, q
  <1>8. CASE /\ q.stop = r.stop /\ q.argv = <<>> /\ q.pushed = Append(r.pushed, Shown(r))
             /\ r.room # 0 /\ q.room = r.room - 1
    <2>1. Shown(q) = <<>>
      BY <1>8 DEF Shown
    <2> QED BY <1>2, <1>5, <1>6, <1>8, <2>1 DEF Pushes, q
  <1> QED BY <1>2, <1>7, <1>8

\* It has the data of the first p bytes.
Total(B, p, g) == Data(FlattenSeq(g)) = Data(SubSeq(B, 1, p))

TotalKept(B, t, r, q) == Total(B, Pos(t, r), Given(r)) => Total(B, Pos(t, q), Given(q))

LEMMA TotalStep ==
  ASSUME NEW B, NEW d, NEW t, NEW r, View(B, d, t, r), NEW q, NEW k \in Nat,
         NEW new \in Seq(Seq(Byte)), Step(B, d, t, r, q, k, new), NEW m \in 0..k,
         FlattenSeq(new) = SubSeq(B, Pos(t, r) + 1, Pos(t, r) + m),
         \A j \in 1..k : m < j => B[Pos(t, r) + j][1] # "byte"
  PROVE  TotalKept(B, t, r, q)
  <1> DEFINE p == Pos(t, r)
             e == Pos(t, q)
             g == Given(r)
  <1>1. B \in Seq(Byte) /\ p \in Nat /\ p <= Len(B) /\ Len(B) \in Nat
    <2>1. Reads(B, t, r, p, Len(Unread(r)))
      BY ViewFacts
    <2> DEFINE n == Len(Unread(r))
    <2>2. p \in Nat /\ n \in Nat /\ p + n = t /\ t <= Len(B) /\ Len(B) \in Nat
      BY <2>1 DEF Reads
    <2> HIDE DEF p, n
    <2>3. p <= Len(B)
      BY <2>2
    <2> QED BY <2>2, <2>3 DEF View, p
  <1>2. e = p + k /\ e <= Len(B)
    <2>1. View(B, d, t, q) /\ e = p + k
      BY DEF Step
    <2>2. Reads(B, t, q, e, Len(Unread(q)))
      BY <2>1, ViewFacts
    <2> DEFINE n == Len(Unread(q))
    <2>3. e \in Nat /\ n \in Nat /\ e + n = t /\ t <= Len(B) /\ Len(B) \in Nat
      BY <2>2 DEF Reads
    <2>4. e = p + k
      BY <2>1
    <2> HIDE DEF e, n, p
    <2>5. e <= Len(B)
      BY <2>3
    <2> QED BY <2>4, <2>5
  <1>3. Given(q) = g \o new /\ g \in Seq(Seq(Byte))
    <2>1. Given(q) = g \o new
      BY GivenMore
    <2>2. Sane(d, r)
      BY DEF View
    <2> QED BY <2>1, <2>2, GivenTyped
  <1> HIDE DEF p, e, g
  <1> DEFINE x == SubSeq(B, 1, p)
             y == SubSeq(B, p + 1, p + m)
             z == SubSeq(B, p + m + 1, p + k)
             yz == SubSeq(B, p + 1, p + k)
  <1>4. SubSeq(B, 1, p + k) = x \o yz /\ x \in Seq(Byte) /\ yz \in Seq(Byte)
    <2> DEFINE l == p + k
    <2>1. l \in 0..Len(B) /\ 0 \in 0..l /\ p \in 0..(l - 0)
      BY <1>1, <1>2
    <2>2. /\ SubSeq(B, 0 + 1, l) = SubSeq(B, 0 + 1, 0 + p) \o SubSeq(B, 0 + p + 1, l)
          /\ SubSeq(B, 0 + 1, 0 + p) \in Seq(Byte)
          /\ SubSeq(B, 0 + p + 1, l) \in Seq(Byte)
      <3> HIDE DEF l
      <3> QED BY <1>1, <2>1, CutBehind
    <2>3. 0 + 1 = 1 /\ 0 + p = p /\ 0 + p + 1 = p + 1
      BY <1>1
    <2> QED BY <2>2, <2>3, Zenon
  <1>5. yz = y \o z /\ y \in Seq(Byte) /\ z \in Seq(Byte)
    <2> DEFINE l == p + k
    <2>1. l \in 0..Len(B) /\ p \in 0..l /\ m \in 0..(l - p)
      BY <1>1, <1>2
    <2> HIDE DEF l
    <2>2. /\ SubSeq(B, p + 1, l) = SubSeq(B, p + 1, p + m) \o SubSeq(B, p + m + 1, l)
          /\ SubSeq(B, p + 1, p + m) \in Seq(Byte) /\ SubSeq(B, p + m + 1, l) \in Seq(Byte)
      BY <1>1, <2>1, CutBehind
    <2> QED BY <2>2, Zenon DEF l
  <1>6. Data(z) = <<>>
    <2> DEFINE i == p + m
               l == p + k
               v == SubSeq(B, i + 1, l)
    <2>1. i \in Nat /\ l \in Nat /\ i <= l /\ l <= Len(B) /\ l - i = k - m
      BY <1>1, <1>2
    <2> HIDE DEF i, l
    <2>2. v \in Seq(Byte) /\ Len(v) = l - i /\ \A j \in 1..(l - i) : v[j] = B[i + j]
      BY <1>1, <2>1, CutElements
    <2>3. ASSUME NEW j \in 1..Len(v) PROVE v[j][1] # "byte"
      <3>1. m + j \in 1..k /\ m < m + j /\ i + j = p + (m + j) /\ j \in 1..(l - i)
        BY <1>1, <2>1, <2>2 DEF i
      <3>2. B[p + (m + j)][1] # "byte"
        BY <3>1 DEF p
      <3> QED BY <2>2, <3>1, <3>2, Zenon
    <2> HIDE DEF v
    <2>4. Data(v) = <<>>
      BY <2>2, <2>3, NoData
    <2>5. v = z
      BY DEF v, i, l
    <2> QED BY <2>4, <2>5
  <1> HIDE DEF x, y, z, yz
  <1>7. Data(SubSeq(B, 1, p + k)) = Data(x) \o Data(y)
    <2>1. DataJoins(x, yz) /\ DataJoins(y, z)
      BY <1>4, <1>5, DataJoin, Zenon
    <2>2. Data(yz) = Data(y) \o <<>> /\ Data(y) \in Seq(Byte)
      BY <1>5, <1>6, <2>1 DEF DataJoins
    <2>3. Data(yz) = Data(y)
      BY <2>2, ConcatEmptySeq
    <2> QED BY <1>4, <2>1, <2>3, Zenon DEF DataJoins
  <1>8. Data(FlattenSeq(Given(q))) = Data(FlattenSeq(g)) \o Data(y)
    <2>1. Joins(Byte, g, new)
      BY <1>3, FlatJoin
    <2>2. FlattenSeq(new) = y
      BY DEF y, p
    <2>3. DataJoins(FlattenSeq(g), y)
      BY <2>1, <2>2, DataJoin, Zenon DEF Joins
    <2> QED BY <1>3, <2>1, <2>2, <2>3, Zenon DEF Joins, DataJoins
  <1>9. Total(B, p, g) => Total(B, e, Given(q))
    BY <1>2, <1>7, <1>8 DEF Total, x
  <1> QED BY <1>9 DEF TotalKept, p, e, g

LEMMA SilentStep ==
  ASSUME NEW B, NEW d, NEW t, NEW r, View(B, d, t, r), NEW q, NEW k \in Nat,
         Step(B, d, t, r, q, k, <<>>),
         \A j \in 1..k : B[Pos(t, r) + j][1] # "byte"
  PROVE  TotalKept(B, t, r, q)
  <1> DEFINE new == <<>>
             p == Pos(t, r)
  <1>1. new \in Seq(Seq(Byte)) /\ FlattenSeq(new) = <<>> /\ 0 \in 0..k
    BY DEF FlattenSeq
  <1>2. SubSeq(B, p + 1, p + 0) = <<>>
    <2>1. /\ Reads(B, t, r, p, Len(Unread(r))) /\ B \in Seq(Byte)
      BY ViewFacts DEF View
    <2>2. p \in Nat /\ 0 \in Nat /\ 0 <= Len(Unread(r))
      BY <2>1 DEF Reads
    <2> DEFINE w == SubSeq(B, p + 1, p + 0)
               zero == 0
    <2>3. zero \in Nat /\ zero <= Len(Unread(r))
      BY <2>2
    <2> HIDE DEF p, zero
    <2>4. PartOf(B, r, p, zero, SubSeq(B, p + 1, p + zero))
      BY <2>1, <2>3, ReadPart
    <2>5. w \in Seq(Byte) /\ Len(w) = 0
      BY <2>4 DEF PartOf, zero
    <2> HIDE DEF w
    <2>6. w = <<>>
      BY <2>5
    <2> QED BY <2>6 DEF w
  <1>3. FlattenSeq(new) = SubSeq(B, Pos(t, r) + 1, Pos(t, r) + 0)
    BY <1>1, <1>2, Zenon
  <1> HIDE DEF new
  <1>4. Step(B, d, t, r, q, k, new)
    BY DEF new
  <1> QED BY <1>1, <1>3, <1>4, TotalStep, Zenon

LEMMA WordStep ==
  ASSUME NEW B, NEW d, NEW t, NEW r, View(B, d, t, r), NEW q, NEW k \in Nat, NEW m \in 0..k,
         Step(B, d, t, r, q, k, <<SubSeq(B, Pos(t, r) + 1, Pos(t, r) + m)>>),
         k <= Len(Unread(r)),
         \A j \in 1..k : m < j => B[Pos(t, r) + j][1] # "byte"
  PROVE  TotalKept(B, t, r, q)
  <1> DEFINE w == SubSeq(B, Pos(t, r) + 1, Pos(t, r) + m)
             new == <<w>>
  <1>1. w \in Seq(Byte)
    <2>1. /\ Reads(B, t, r, Pos(t, r), Len(Unread(r))) /\ B \in Seq(Byte)
      BY ViewFacts DEF View
    <2>2. m \in Nat /\ m <= Len(Unread(r))
      <3>1. Len(Unread(r)) \in Nat
        BY <2>1 DEF Reads
      <3> QED BY <3>1
    <2>3. PartOf(B, r, Pos(t, r), m, w)
      BY <2>1, <2>2, ReadPart
    <2> QED BY <2>3 DEF PartOf
  <1>2. FlattensMore(Byte, <<>>, w)
    <2>1. <<>> \in Seq(Seq(Byte))
      OBVIOUS
    <2> QED BY <1>1, <2>1, FlatMore, Zenon
  <1>3. new \in Seq(Seq(Byte)) /\ FlattenSeq(new) = w
    BY <1>2, Zenon DEF FlattensMore
  <1>4. Step(B, d, t, r, q, k, new)
    OBVIOUS
  <1>5. FlattenSeq(new) = SubSeq(B, Pos(t, r) + 1, Pos(t, r) + m)
    BY <1>3, Zenon
  <1> HIDE DEF new, w
  <1> QED BY <1>3, <1>4, <1>5, TotalStep, Zenon

Blank(ps) == ps.mlen = 0 /\ ps.mindex = 0 /\ ps.blen = 0

--------------------------------------------------------------------------------
(* The loop of the multibulk parser, argument by argument. *)

\* The parser ps, at position p, is in multibulk command c: behind an argument or the
\* header, or behind the length line of the next argument.
AtArg(s, p, c, ps) ==
  /\ c \in 1..Len(s) /\ s[c].form = "multibulk"
  /\ ps.type = "multibulk" /\ ps.mlen = Len(s[c].args) /\ ps.mlen > 0
  /\ ps.mindex \in 0..ps.mlen
  /\ \/ ps.blen = 0 /\ p = ArgEnd(s, c, ps.mindex)
     \/ /\ ps.mindex < ps.mlen /\ ps.blen = s[c].args[ps.mindex + 1]
        /\ p = ArgEnd(s, c, ps.mindex) + 2

\* What r and q have in common whatever is parsed in between.
SameRun(r, q) == q.pushed = r.pushed /\ q.room = r.room /\ q.stop = r.stop

LEMMA SilentFacts ==
  ASSUME NEW B, NEW d, NEW t, NEW r, View(B, d, t, r), NEW q, NEW k \in Nat,
         Step(B, d, t, r, q, k, <<>>)
  PROVE  View(B, d, t, q) /\ Pos(t, q) = Pos(t, r) + k /\ Given(q) = Given(r)
         /\ SameRun(r, q)
  <1> DEFINE new == <<>>
  <1>1. new \in Seq(Seq(Byte)) /\ Step(B, d, t, r, q, k, new)
    OBVIOUS
  <1>2. Given(r) \in Seq(Seq(Byte))
    <2>1. Sane(d, r)
      BY DEF View
    <2> QED BY <2>1, GivenTyped
  <1> HIDE DEF new
  <1>3. Given(q) = Given(r) \o new
    BY <1>1, GivenMore
  <1>4. Given(r) \o <<>> = Given(r)
    BY <1>2, ConcatEmptySeq
  <1> QED BY <1>3, <1>4 DEF Step, SameRun, new

LEMMA StillFacts ==
  ASSUME NEW B, NEW d, NEW t, NEW r, View(B, d, t, r), NEW q, Step(B, d, t, r, q, 0, <<>>)
  PROVE  View(B, d, t, q) /\ Pos(t, q) = Pos(t, r) /\ Given(q) = Given(r)
         /\ SameRun(r, q) /\ TotalKept(B, t, r, q)
  <1> DEFINE zero == 0
  <1>1. zero \in Nat /\ Step(B, d, t, r, q, zero, <<>>) /\ Pos(t, r) \in Nat
    BY ViewFacts DEF Reads
  <1> HIDE DEF zero
  <1>2. View(B, d, t, q) /\ Pos(t, q) = Pos(t, r) + zero /\ Given(q) = Given(r)
        /\ SameRun(r, q)
    BY <1>1, SilentFacts
  <1>3. Pos(t, q) = Pos(t, r)
    BY <1>1, <1>2 DEF zero
  <1> QED BY <1>2, <1>3 DEF TotalKept

\* The bytes that are there end in argument m + 1 of command c, and nothing is read behind
\* the m-th: only a length line that has no byte at all is out of bound.
Stalls(s, t, c, m, q) ==
  /\ q.err \in {"TryAgain", "OutOfBound"} /\ t < ArgEnd(s, c, m + 1)
  /\ q.err = "OutOfBound" <=> t = ArgEnd(s, c, m)

\* The length line of argument i of command c is read, or not all of it is there.
LengthRead(s, d, t, c, i, r, q) ==
  /\ View(Bytes[s], d, t, q) /\ Given(q) = Given(r) /\ SameRun(r, q)
  /\ TotalKept(Bytes[s], t, r, q)
  /\ \/ /\ q.err = "OK" /\ Pos(t, q) = ArgEnd(s, c, i - 1) + 2
        /\ q.parser = [r.parser EXCEPT !.blen = s[c].args[i]]
     \/ /\ q.err # "OK" /\ Pos(t, q) = Pos(t, r) /\ q.parser = r.parser
        /\ q.err = "unpredictable" \/ t < ArgEnd(s, c, i)
        /\ s[c].args[i] > 0 => Stalls(s, t, c, i - 1, q)

LEMMA LengthReadFacts ==
  ASSUME NEW s \in Streams, NEW c, NEW d, NEW t, NEW r, View(Bytes[s], d, t, r),
         r.err = "OK", AtArg(s, Pos(t, r), c, r.parser), r.parser.mindex < r.parser.mlen,
         NEW i, i = r.parser.mindex + 1
  PROVE  LengthRead(s, d, t, c, i, r, ArgLength(r))
  <1> DEFINE B == Bytes[s]
             q == ArgLength(r)
             v == s[c].args[i]
             U == Unread(r)
             line == LengthLine(U)
             e == ArgEnd(s, c, i - 1)
             p == Pos(t, r)
  <1>1. /\ c \in 1..Len(s) /\ s[c].form = "multibulk" /\ i \in 1..Len(s[c].args)
        /\ i - 1 = r.parser.mindex /\ r.parser.blen \in Nat /\ r.parser \in Fields
        /\ \/ r.parser.blen = 0 /\ p = e
           \/ r.parser.blen = v /\ p = e + 2
        /\ r \in Parse
    <2>1. r \in Parse /\ r.parser \in Fields /\ r.parser.mindex \in Nat
          /\ r.parser.blen \in Nat /\ r.parser.mlen \in Nat
      BY ParseFields DEF View, Sane
    <2> DEFINE m == r.parser.mindex
    <2>2. i = m + 1 /\ m < r.parser.mlen /\ m \in Nat
      BY <2>1
    <2>3. c \in 1..Len(s) /\ s[c].form = "multibulk" /\ r.parser.mlen = Len(s[c].args)
          /\ \/ r.parser.blen = 0 /\ p = ArgEnd(s, c, m)
             \/ r.parser.blen = s[c].args[m + 1] /\ p = ArgEnd(s, c, m) + 2
      BY DEF AtArg
    <2> HIDE DEF m, p
    <2>4. i - 1 = m /\ i \in 1..r.parser.mlen
      BY <2>1, <2>2
    <2> QED BY <2>1, <2>2, <2>3, <2>4 DEF m
  <1>2. MultiArgAt(B, Argument(s, c, i), e, ArgEnd(s, c, i), v)
    BY <1>1, MultiArgFacts
  <1>3. /\ Reads(B, t, r, p, Len(U)) /\ B \in Seq(Byte)
    BY ViewFacts DEF View
  <1> DEFINE n == Len(U)
  <1>4. /\ p \in Nat /\ n \in Nat /\ p + n = t /\ t <= Len(B) /\ Len(B) \in Nat
        /\ U \in Seq(Byte) /\ \A j \in 1..n : U[j] = B[p + j]
    BY <1>3 DEF Reads
  <1>5. /\ e \in Nat /\ v \in Nat /\ ArgEnd(s, c, i) = e + v + 4
        /\ B[e + 1] = <<"$", v>> /\ B[e + 2] = Lf
        /\ \A k \in 1..v : B[e + 2 + k] = Argument(s, c, i)[k]
        /\ B[e + v + 3] = Cr /\ B[e + v + 4] = Lf
    BY <1>2 DEF MultiArgAt
  <1> DEFINE to == ArgEnd(s, c, i)
  <1> HIDE DEF B, v, e, p, U, n, to, line
  <1>6. to = e + v + 4
    BY <1>5 DEF to
  <1>7. CASE r.parser.blen # 0
    <2>1. q = r
      BY <1>7 DEF ArgLength
    <2>2. r.parser.blen = v /\ p = e + 2
      BY <1>1, <1>7
    <2>3. r.parser = [r.parser EXCEPT !.blen = v]
      BY <1>1, <2>2 DEF Fields
    <2>4. SameRun(r, q) /\ TotalKept(B, t, r, q)
      BY <2>1 DEF SameRun, TotalKept
    <2> HIDE DEF q
    <2>5. View(Bytes[s], d, t, q) /\ Given(q) = Given(r) /\ q.err = "OK"
          /\ Pos(t, q) = ArgEnd(s, c, i - 1) + 2
          /\ q.parser = [r.parser EXCEPT !.blen = s[c].args[i]]
      BY <2>1, <2>2, <2>3 DEF p, e, v
    <2> QED BY <2>4, <2>5 DEF LengthRead, B, q
  <1>8. ASSUME r.parser.blen = 0, line.bytes = 0, line.value = 0, line.err # "OK",
               line.err = "unpredictable" \/ t < to,
               v > 0 => /\ line.err \in {"TryAgain", "OutOfBound"} /\ t < to
                        /\ line.err = "OutOfBound" <=> t = e
        PROVE  LengthRead(s, d, t, c, i, r, q)
    <2>1. /\ Step(B, d, t, r, q, 0, <<>>) /\ q.err = line.err
          /\ q.parser = [r.parser EXCEPT !.blen = 0]
      BY <1>8, LengthTaken DEF line, U, B
    <2>2. q.parser = r.parser
      BY <1>1, <1>8, <2>1 DEF Fields
    <2> HIDE DEF q
    <2>3. View(B, d, t, q) /\ Pos(t, q) = Pos(t, r) /\ Given(q) = Given(r)
          /\ SameRun(r, q) /\ TotalKept(B, t, r, q)
      BY <2>1, StillFacts DEF B
    <2>4. s[c].args[i] > 0 => Stalls(s, t, c, i - 1, q)
      <3>1. (i - 1) + 1 = i
        BY <1>1
      <3> QED BY <1>8, <2>1, <3>1 DEF Stalls, v, e, to
    <2> QED BY <1>8, <2>1, <2>2, <2>3, <2>4 DEF LengthRead, B, to
  <1>9. CASE r.parser.blen = 0 /\ p = e
    <2> DEFINE h == <<"$", v>>
    <2>1. h \in Headers \X Nat /\ h[2] = v
      BY <1>5 DEF Headers
    <2>2. n >= 1 => U[1] = h
      <3>1. n >= 1 => U[1] = B[p + 1]
        BY <1>4
      <3> QED BY <1>5, <1>9, <3>1
    <2>3. n >= 2 => U[2] = Lf
      BY <1>4, <1>5, <1>9
    <2> HIDE DEF h
    <2>4. /\ n = 0 => line = Fails("OutOfBound")
          /\ n = 1 => line = Fails("TryAgain")
          /\ n >= 2 => line = [err |-> "OK", bytes |-> 2, value |-> h[2]]
      <3>1. U \in Seq(Kinds \X Nat)
        BY <1>4 DEF Byte
      <3> QED BY <2>1, <2>2, <2>3, <3>1, LineFound, Zenon DEF n, line
    <2>5. CASE n < 2
      <3>1. n = 0 \/ n = 1
        BY <1>4, <2>5
      <3>2. line.bytes = 0 /\ line.value = 0 /\ line.err # "OK"
        BY <2>4, <3>1 DEF Fails
      <3>3. t < to
        BY <1>4, <1>5, <1>6, <1>9, <2>5
      <3>4. line.err \in {"TryAgain", "OutOfBound"} /\ (line.err = "OutOfBound" <=> t = e)
        BY <1>4, <1>9, <2>4, <3>1 DEF Fails
      <3> QED BY <1>8, <1>9, <3>2, <3>3, <3>4
    <2>6. CASE ~(n < 2)
      <3>1. line.err = "OK" /\ line.bytes = 2 /\ line.value = v
        BY <1>4, <2>1, <2>4, <2>6
      <3> DEFINE two == 2
      <3>2. /\ Step(B, d, t, r, q, two, <<>>) /\ q.err = "OK"
            /\ q.parser = [r.parser EXCEPT !.blen = v]
        BY <1>9, <3>1, LengthTaken DEF line, U, B
      <3> HIDE DEF q
      <3>3. two \in Nat /\ \A j \in 1..two : B[p + j][1] # "byte"
        <4>1. \A j \in 1..two : j = 1 \/ j = 2
          OBVIOUS
        <4>2. B[p + 1][1] # "byte" /\ B[p + 2][1] # "byte"
          BY <1>5, <1>9, KindFacts
        <4> QED BY <4>1, <4>2
      <3> HIDE DEF two
      <3>4. TotalKept(B, t, r, q)
        BY <3>2, <3>3, SilentStep DEF p, B
      <3>5. View(B, d, t, q) /\ Pos(t, q) = Pos(t, r) + two /\ Given(q) = Given(r)
            /\ SameRun(r, q)
        BY <3>2, <3>3, SilentFacts DEF B
      <3>6. Pos(t, q) = ArgEnd(s, c, i - 1) + 2
        BY <1>9, <3>5 DEF two, p, e
      <3> QED BY <3>2, <3>4, <3>5, <3>6 DEF LengthRead, B, v, q
    <2> QED BY <2>5, <2>6
  <1>10. CASE r.parser.blen = 0 /\ p # e
    <2>1. v = 0 /\ p = e + 2
      BY <1>1, <1>10
    <2>2. n >= 1 => U[1] = Cr
      <3>1. n >= 1 => U[1] = B[p + 1]
        BY <1>4
      <3>2. p + 1 = e + v + 3
        BY <1>4, <1>5, <2>1
      <3> QED BY <1>5, <3>1, <3>2
    <2>3. n >= 2 => U[2] = Lf
      BY <1>4, <1>5, <2>1
    <2>4. /\ n = 0 => line = Fails("OutOfBound")
          /\ n >= 1 => line = Fails("TryAgain") \/ line = Fails("unpredictable")
      <3>1. U \in Seq(Kinds \X Nat)
        BY <1>4 DEF Byte
      <3> QED BY <2>2, <3>1, NoLine, Zenon DEF n, line
    <2>5. line.bytes = 0 /\ line.value = 0 /\ line.err # "OK"
      BY <1>4, <2>4 DEF Fails
    <2>6. line.err = "unpredictable" \/ t < to
      <3>1. CASE n < 2
        BY <1>4, <1>5, <1>6, <2>1, <3>1
      <3>2. CASE ~(n < 2)
        <4>1. Find(U, Lf) # 0
          <5> DEFINE two == 2
          <5>1. U[two] = Lf /\ two \in 1..Len(U)
            BY <1>4, <2>3, <3>2 DEF n
          <5> HIDE DEF two
          <5>2. U[1] # Lf /\ \A j \in 1..Len(U) : j < two => j = 1
            BY <1>4, <2>2, <3>2, KindFacts DEF n, two
          <5>3. Find(U, Lf) = two
            BY <1>4, <5>1, <5>2, FindFirst
          <5> QED BY <5>3 DEF two
        <4>2. U # <<>>
          BY <1>4, <3>2 DEF n
        <4>3. line.err = "unpredictable" \/ line.err = "OK"
          BY <4>1, <4>2 DEF line, LengthLine, LineUpTo, Fails
        <4> QED BY <2>5, <4>3
      <3> QED BY <3>1, <3>2
    <2>7. ~(v > 0)
      BY <2>1
    <2> QED BY <1>8, <1>10, <2>5, <2>6, <2>7
  <1> QED BY <1>7, <1>9, <1>10

\* The arguments of the first h commands and i of the next.
Told(s, h, i) ==
  FlattenSeq([d \in 1..h |-> Arguments(s, d)]) \o [j \in 1..i |-> Argument(s, h + 1, j)]

ToldFacts(s, h, i, n) ==
  /\ Told(s, h, i) \in Seq(Seq(Byte))
  /\ i < n => Told(s, h, i) \o <<Argument(s, h + 1, i + 1)>> = Told(s, h, i + 1)
  /\ i = n => Told(s, h, i) = Told(s, h + 1, 0)

LEMMA ArgumentsTyped ==
  ASSUME NEW s \in Streams
  PROVE  /\ Len(s) \in Nat
         /\ [d \in 1..Len(s) |-> Arguments(s, d)] \in [1..Len(s) -> Seq(Seq(Byte))]
  <1>1. /\ Len(s) \in Nat /\ \A c \in 1..Len(s) : Len(s[c].args) \in Nat
    BY CommandFacts
  <1>2. \A c \in 1..Len(s) : \A i \in 1..Len(s[c].args) : Argument(s, c, i) \in Seq(Byte)
    BY ArgumentFacts DEF DataOf
  <1>3. \A c \in 1..Len(s) : Arguments(s, c) \in Seq(Seq(Byte))
    BY <1>1, <1>2 DEF Arguments
  <1> QED BY <1>1, <1>3

LEMMA FirstArguments ==
  ASSUME NEW s \in Streams, NEW h \in 0..Len(s)
  PROVE  /\ FlattenSeq([d \in 1..h |-> Arguments(s, d)]) \in Seq(Seq(Byte))
         /\ h < Len(s) => FlattenSeq([d \in 1..(h + 1) |-> Arguments(s, d)])
                            = FlattenSeq([d \in 1..h |-> Arguments(s, d)])
                                \o Arguments(s, h + 1)
         /\ FlattenSeq([d \in 1..0 |-> Arguments(s, d)]) = <<>>
  <1> DEFINE E == [d \in 1..Len(s) |-> Arguments(s, d)]
  <1>1. E \in [1..Len(s) -> Seq(Seq(Byte))] /\ Len(s) \in Nat
    BY ArgumentsTyped
  <1>2. /\ Flat(E, 0) = <<>> /\ \A k \in 0..Len(s) : Flat(E, k) \in Seq(Seq(Byte))
        /\ \A k \in 1..Len(s) : Flat(E, k) = Flat(E, k - 1) \o E[k]
    <2> HIDE DEF E
    <2> QED BY <1>1, FlatFacts, Zenon
  <1>3. \A k \in 0..Len(s) : Flat(E, k) = FlattenSeq([d \in 1..k |-> Arguments(s, d)])
    <2> SUFFICES ASSUME NEW k \in 0..Len(s)
                 PROVE  Flat(E, k) = FlattenSeq([d \in 1..k |-> Arguments(s, d)])
      OBVIOUS
    <2>1. [d \in 1..k |-> E[d]] = [d \in 1..k |-> Arguments(s, d)]
      <3>1. \A d \in 1..k : d \in 1..Len(s)
        BY <1>1
      <3> QED BY <3>1
    <2> QED BY <2>1, Zenon DEF Flat
  <1>4. h < Len(s) => /\ h + 1 \in 1..Len(s) /\ h + 1 \in 0..Len(s) /\ (h + 1) - 1 = h
                      /\ E[h + 1] = Arguments(s, h + 1)
    BY <1>1
  <1>5. 0 \in 0..Len(s)
    BY <1>1
  <1> HIDE DEF E
  <1>6. Flat(E, h) = FlattenSeq([d \in 1..h |-> Arguments(s, d)])
        /\ Flat(E, 0) = FlattenSeq([d \in 1..0 |-> Arguments(s, d)])
    BY <1>3, <1>5, Zenon
  <1>7. h < Len(s) => /\ Flat(E, h + 1) = FlattenSeq([d \in 1..(h + 1) |-> Arguments(s, d)])
                      /\ Flat(E, h + 1) = Flat(E, h) \o Arguments(s, h + 1)
    <2> SUFFICES ASSUME h < Len(s)
                 PROVE  /\ Flat(E, h + 1) = FlattenSeq([d \in 1..(h + 1) |-> Arguments(s, d)])
                        /\ Flat(E, h + 1) = Flat(E, h) \o Arguments(s, h + 1)
      OBVIOUS
    <2> DEFINE k == h + 1
    <2>1. k \in 1..Len(s) /\ k \in 0..Len(s) /\ k - 1 = h /\ E[k] = Arguments(s, k)
      BY <1>4
    <2> HIDE DEF k
    <2>2. Flat(E, k) = Flat(E, h) \o Arguments(s, k)
      BY <1>2, <2>1, Zenon
    <2>3. Flat(E, k) = FlattenSeq([d \in 1..k |-> Arguments(s, d)])
      BY <1>3, <2>1
    <2> QED BY <2>2, <2>3 DEF k
  <1> QED BY <1>2, <1>6, <1>7, Zenon

LEMMA ToldTyped ==
  ASSUME NEW s \in Streams, NEW h \in 0..(Len(s) - 1), NEW i \in 0..Len(s[h + 1].args)
  PROVE  ToldFacts(s, h, i, Len(s[h + 1].args))
  <1> DEFINE c == h + 1
             n == Len(s[c].args)
             x == FlattenSeq([d \in 1..h |-> Arguments(s, d)])
             y == [j \in 1..i |-> Argument(s, c, j)]
             a == Argument(s, c, i + 1)
             none == [j \in 1..0 |-> Argument(s, c + 1, j)]
  <1>1. Len(s) \in Nat /\ c \in 1..Len(s) /\ h \in 0..Len(s) /\ h < Len(s) /\ n \in Nat
    <2>1. Len(s) \in Nat
      BY CommandFacts
    <2>2. c \in 1..Len(s) /\ h \in 0..Len(s) /\ h < Len(s)
      BY <2>1
    <2> HIDE DEF c
    <2> QED BY <2>1, <2>2, CommandFacts
  <1>2. x \in Seq(Seq(Byte))
    BY <1>1, FirstArguments, Zenon
  <1>3. \A j \in 1..n : Argument(s, c, j) \in Seq(Byte)
    <2> HIDE DEF c
    <2> QED BY <1>1, ArgumentFacts DEF DataOf
  <1>4. i \in Nat /\ i <= n /\ n \in Nat
    BY <1>1
  <1> HIDE DEF c
  <1>5. y \in Seq(Seq(Byte)) /\ Len(y) = i /\ \A j \in 1..i : y[j] = Argument(s, c, j)
    <2> HIDE DEF n
    <2> QED BY <1>3, <1>4
  <1>6. Told(s, h, i) = x \o y
    BY DEF Told, c
  <1>7. ASSUME i < n PROVE Told(s, h, i) \o <<a>> = Told(s, h, i + 1)
    <2> DEFINE z == [j \in 1..(i + 1) |-> Argument(s, c, j)]
               one == <<a>>
    <2>1. a \in Seq(Byte)
      <3> HIDE DEF n
      <3> QED BY <1>3, <1>4, <1>7
    <2>2. one \in Seq(Seq(Byte)) /\ Len(one) = 1 /\ one[1] = a /\ 1 \in 1..Len(one)
      <3> HIDE DEF a
      <3> QED BY <2>1
    <2>3. z \in Seq(Seq(Byte)) /\ Len(z) = i + 1 /\ z[i + 1] = a
          /\ \A j \in 1..i : z[j] = Argument(s, c, j)
      <3> HIDE DEF n
      <3> QED BY <1>3, <1>4, <1>7
    <2> HIDE DEF x, y, z, one, a
    <2>4. y \o one = z
      <3>1. JoinElements(Seq(Byte), y, one, y \o one)
        BY <1>5, <2>2, JoinFacts
      <3>2. /\ y \o one \in Seq(Seq(Byte)) /\ Len(y \o one) = i + 1
            /\ \A j \in 1..i : (y \o one)[j] = Argument(s, c, j)
            /\ (y \o one)[i + 1] = a
        BY <1>5, <2>2, <3>1 DEF JoinElements
      <3> DEFINE u == y \o one
      <3> HIDE DEF u
      <3>3. \A j \in 1..Len(u) : u[j] = z[j]
        <4>1. \A j \in 1..(i + 1) : j \in 1..i \/ j = i + 1
          BY <1>4
        <4> QED BY <2>3, <3>2, <4>1, Zenon DEF u
      <3>4. u = z
        BY <2>3, <3>2, <3>3, SameSeq, Zenon DEF u
      <3> QED BY <3>4 DEF u
    <2>5. (x \o y) \o one = x \o (y \o one)
      <3> DEFINE S == Seq(Byte)
      <3>1. x \in Seq(S) /\ y \in Seq(S) /\ one \in Seq(S)
        BY <1>2, <1>5, <2>2
      <3> HIDE DEF S, x, y, one
      <3>2. Associates(S, x, y, one)
        BY <3>1, Associative
      <3> QED BY <3>2 DEF Associates
    <2>6. Told(s, h, i + 1) = x \o z
      BY DEF Told, c, x, z
    <2> QED BY <1>6, <2>4, <2>5, <2>6, Zenon DEF one
  <1>8. ASSUME i = n PROVE Told(s, h, i) = Told(s, c, 0)
    <2>1. y = Arguments(s, c)
      BY <1>8 DEF Arguments
    <2>2. FlattenSeq([d \in 1..c |-> Arguments(s, d)]) = x \o y
      BY <1>1, <2>1, FirstArguments, Zenon DEF c
    <2>3. none = <<>>
      OBVIOUS
    <2>4. x \o y \in Seq(Seq(Byte))
      BY <1>2, <1>5, Associative DEF Associates
    <2> HIDE DEF x, y, none
    <2>5. (x \o y) \o none = x \o y
      BY <2>3, <2>4, ConcatEmptySeq
    <2> QED BY <1>6, <2>2, <2>5, Zenon DEF Told, none
  <1> HIDE DEF x, y
  <1>9. x \o y \in Seq(Seq(Byte))
    BY <1>2, <1>5, Associative DEF Associates
  <1> QED BY <1>6, <1>7, <1>8, <1>9, Zenon DEF ToldFacts, c, n, a

\* What is known of all that was shown: w says whether its data, or all of it.
Tells(w, s, t, r, h, i) ==
  /\ "data" \in w => Total(Bytes[s], Pos(t, r), Given(r))
  /\ "exact" \in w => Given(r) = Told(s, h, i)

LEMMA TellsKept ==
  ASSUME NEW w, NEW s, NEW t, NEW r, NEW h, NEW i, Tells(w, s, t, r, h, i),
         NEW q, TotalKept(Bytes[s], t, r, q), Given(q) = Given(r)
  PROVE  Tells(w, s, t, q, h, i)
  BY DEF Tells, TotalKept

\* The parser of r is in multibulk command c.
MultiAt(w, s, d, t, c, r) ==
  /\ View(Bytes[s], d, t, r) /\ AtArg(s, Pos(t, r), c, r.parser)
  /\ Tells(w, s, t, r, c - 1, r.parser.mindex)

\* The command has arguments, none empty.
Full(s, c) == Len(s[c].args) > 0 /\ \A i \in 1..Len(s[c].args) : s[c].args[i] > 0

\* All arguments of the command were read.
Finished(ps) == ps.mlen # 0 /\ ps.mindex = ps.mlen

\* A parse that stopped where the bytes of command c end.
Missing(s, t, c, q) ==
  /\ q.err # "OK" /\ (q.err = "unpredictable" \/ t < CommandEnd[s][c])
  /\ Full(s, c) => Stalls(s, t, c, q.parser.mindex, q) /\ ~Finished(q.parser)

ArgGot(w, s, d, t, c, r, q) ==
  /\ MultiAt(w, s, d, t, c, q) /\ SameRun(r, q)
  /\ \/ q.err = "OK" /\ q.parser.mindex = r.parser.mindex + 1
     \/ q.parser.mindex = r.parser.mindex /\ Missing(s, t, c, q)

LEMMA ArgGotFacts ==
  ASSUME NEW w, NEW s \in Streams, NEW d \in Blocks, NEW t, NEW c, NEW r,
         MultiAt(w, s, d, t, c, r), r.err = "OK", r.parser.mindex < r.parser.mlen
  PROVE  ArgGot(w, s, d, t, c, r, NextArg(r))
  <1> DEFINE B == Bytes[s]
             m == r.parser.mindex
             i == m + 1
             l == ArgLength(r)
             q == NextArg(r)
             v == s[c].args[i]
             e == ArgEnd(s, c, i - 1)
             to == ArgEnd(s, c, i)
             a == Argument(s, c, i)
             n == Len(s[c].args)
  <1>1. /\ View(Bytes[s], d, t, r) /\ AtArg(s, Pos(t, r), c, r.parser)
        /\ Tells(w, s, t, r, c - 1, m) /\ r.parser \in Fields /\ m \in Nat /\ r \in Parse
    <2>1. View(Bytes[s], d, t, r)
      BY DEF MultiAt
    <2>2. r \in Parse
      BY <2>1 DEF View, Sane
    <2> QED BY <2>1, <2>2, ParseFields DEF MultiAt
  <1>2. /\ c \in 1..Len(s) /\ s[c].form = "multibulk" /\ r.parser.type = "multibulk"
        /\ r.parser.mlen = n /\ m \in 0..n /\ i \in 1..n /\ n \in Nat /\ c - 1 \in 0..(Len(s) - 1)
        /\ (c - 1) + 1 = c /\ i - 1 = m
    <2>1. /\ c \in 1..Len(s) /\ s[c].form = "multibulk" /\ r.parser.type = "multibulk"
          /\ r.parser.mlen = n /\ m \in 0..n
      BY <1>1 DEF AtArg
    <2>2. n \in Nat /\ Len(s) \in Nat
      BY <2>1, CommandFacts
    <2> QED BY <1>1, <2>1, <2>2
  <1>3. LengthRead(s, d, t, c, i, r, l)
    <2> HIDE DEF l
    <2> DEFINE j == i
    <2>1. j = r.parser.mindex + 1
      OBVIOUS
    <2> HIDE DEF j, m
    <2>2. LengthRead(s, d, t, c, j, r, ArgLength(r))
      BY <1>1, <2>1, LengthReadFacts
    <2> QED BY <2>2 DEF j, l
  <1>4. q = ArgFrom(l)
    BY DEF NextArg
  <1>5. /\ to \in Nat /\ to <= CommandEnd[s][c] /\ CommandEnd[s][c] \in Nat
        /\ ArgEnd(s, c, m) \in Nat /\ i \in 0..n
    <2>1. Places(s, c, B, CommandEnd[s][c - 1], CommandEnd[s][c], n)
      BY <1>2, PlaceFacts, Zenon
    <2>2. i \in 0..n
      BY <1>2
    <2> HIDE DEF i
    <2> QED BY <1>2, <2>1, <2>2, Zenon DEF Places
  <1>6. MultiArgAt(B, a, e, to, v)
    <2> HIDE DEF i
    <2> QED BY <1>2, MultiArgFacts
  <1>7. DataOf(a, v)
    <2> HIDE DEF i
    <2> QED BY <1>2, ArgumentFacts
  <1>8. ToldFacts(s, c - 1, m, n)
    <2> DEFINE h == c - 1
    <2>1. h \in 0..(Len(s) - 1) /\ h + 1 = c /\ m \in 0..n
      BY <1>2
    <2> HIDE DEF h, m, n
    <2>2. m \in 0..Len(s[h + 1].args)
      BY <2>1 DEF n
    <2>3. ToldFacts(s, h, m, Len(s[h + 1].args))
      BY <2>1, <2>2, ToldTyped
    <2> QED BY <2>1, <2>3 DEF h, n
  <1> HIDE DEF l, q, m, i, v, e, to, a, n
  <1>11. \A ps : ps.mindex = m /\ ps.mlen = n => ~Finished(ps)
    BY <1>2 DEF Finished
  <1>9. CASE l.err # "OK"
    <2>1. q = l
      BY <1>4, <1>9 DEF ArgFrom, ArgBytes
    <2>2. /\ View(B, d, t, l) /\ Given(l) = Given(r) /\ SameRun(r, l)
          /\ TotalKept(B, t, r, l) /\ Pos(t, l) = Pos(t, r) /\ l.parser = r.parser
          /\ l.err = "unpredictable" \/ t < to
          /\ s[c].args[i] > 0 => Stalls(s, t, c, i - 1, l)
      BY <1>3, <1>9 DEF LengthRead, to
    <2>3. Tells(w, s, t, l, c - 1, m)
      BY <1>1, <2>2, TellsKept
    <2>4. MultiAt(w, s, d, t, c, l)
      BY <1>1, <2>2, <2>3 DEF MultiAt, m
    <2>5. t \in Nat
      BY <1>1 DEF View
    <2>6. Missing(s, t, c, l)
      <3>1. Full(s, c) => Stalls(s, t, c, l.parser.mindex, l) /\ ~Finished(l.parser)
        BY <1>2, <2>2, <1>11 DEF Full, m, n
      <3> QED BY <1>5, <1>9, <2>2, <2>5, <3>1 DEF Missing
    <2>7. ArgGot(w, s, d, t, c, r, l)
      BY <2>2, <2>4, <2>6 DEF ArgGot
    <2> QED BY <2>1, <2>7 DEF q
  <1>10. CASE l.err = "OK"
    <2>1. /\ View(B, d, t, l) /\ Given(l) = Given(r) /\ SameRun(r, l)
          /\ TotalKept(B, t, r, l) /\ Pos(t, l) = e + 2
          /\ l.parser = [r.parser EXCEPT !.blen = v]
      BY <1>3, <1>10 DEF LengthRead, e, v
    <2>2. l.parser.blen = v /\ l.parser.mlen = n /\ l.parser.mindex = m
          /\ l.parser.type = "multibulk"
      BY <1>1, <1>2, <2>1, Zenon DEF Fields, m
    <2>3. ArgTaken(B, d, t, l, q, v)
      BY <1>4, <1>10, <2>1, <2>2, ArgTakenFacts, Zenon
    <2>4. Reads(B, t, l, e + 2, Len(Unread(l)))
      BY <2>1, ViewFacts
    <2> DEFINE u == Len(Unread(l))
               p == e + 2
    <2>5. /\ p \in Nat /\ u \in Nat /\ p + u = t /\ t <= Len(B) /\ Len(B) \in Nat
      BY <2>4 DEF Reads
    <2>6. /\ e \in Nat /\ v \in Nat /\ to = e + v + 4 /\ to <= Len(B)
          /\ \A k \in 1..v : B[e + 2 + k] = a[k]
          /\ B[e + v + 3] = Cr /\ B[e + v + 4] = Lf
      BY <1>6 DEF MultiArgAt
    <2>7. Tells(w, s, t, l, c - 1, m)
      BY <1>1, <2>1, TellsKept
    <2>8. e = ArgEnd(s, c, m)
      BY <1>2 DEF e
    <2>9. CASE u < v + 2
      <3>1. Step(B, d, t, l, q, 0, <<>>) /\ q.err = "TryAgain" /\ q.parser = l.parser
        BY <2>3, <2>5, <2>6, <2>9 DEF ArgTaken
      <3>2. View(B, d, t, q) /\ Pos(t, q) = Pos(t, l) /\ Given(q) = Given(l)
            /\ SameRun(l, q) /\ TotalKept(B, t, l, q)
        BY <2>1, <3>1, StillFacts
      <3>3. Tells(w, s, t, q, c - 1, m)
        BY <2>7, <3>2, TellsKept DEF B
      <3>4. AtArg(s, Pos(t, q), c, q.parser)
        <4>1. /\ q.parser.blen = s[c].args[m + 1] /\ q.parser.mlen = Len(s[c].args)
              /\ q.parser.mindex = m /\ q.parser.type = "multibulk"
              /\ Pos(t, q) = ArgEnd(s, c, m) + 2
          BY <2>1, <2>2, <2>8, <3>1, <3>2 DEF v, n, i
        <4>2. m < q.parser.mlen /\ q.parser.mlen > 0 /\ m \in 0..q.parser.mlen
          BY <1>2, <2>2, <3>1
        <4> QED BY <1>2, <4>1, <4>2 DEF AtArg
      <3>5. MultiAt(w, s, d, t, c, q)
        BY <2>2, <3>1, <3>2, <3>3, <3>4 DEF MultiAt, B
      <3>6. SameRun(r, q)
        BY <2>1, <3>2 DEF SameRun
      <3>7. Missing(s, t, c, q)
        <4>1. t < to /\ t # ArgEnd(s, c, m)
          BY <2>5, <2>6, <2>8, <2>9
        <4>2. Stalls(s, t, c, m, q)
          BY <3>1, <4>1 DEF Stalls, to, i
        <4>3. ~Finished(q.parser) /\ q.parser.mindex = m
          BY <1>11, <2>2, <3>1
        <4> QED BY <1>5, <2>5, <3>1, <4>1, <4>2, <4>3 DEF Missing
      <3>8. q.parser.mindex = r.parser.mindex
        BY <2>2, <3>1 DEF m
      <3> QED BY <3>5, <3>6, <3>7, <3>8 DEF ArgGot, q
    <2>10. CASE ~(u < v + 2)
      <3> DEFINE k == v + 2
                 new == <<SubSeq(B, Pos(t, l) + 1, Pos(t, l) + v)>>
      <3>1. /\ Step(B, d, t, l, q, k, new) /\ q.err = "OK"
            /\ q.parser = [l.parser EXCEPT !.blen = 0, !.mindex = l.parser.mindex + 1]
            /\ k <= u
        BY <2>3, <2>5, <2>6, <2>10 DEF ArgTaken
      <3>2. k \in Nat /\ v \in 0..k /\ k <= Len(Unread(l))
        BY <2>6, <3>1
      <3>3. \A j \in 1..k : v < j => B[Pos(t, l) + j][1] # "byte"
        <4> SUFFICES ASSUME NEW j \in 1..k, v < j PROVE B[p + j][1] # "byte"
          BY <2>1
        <4>1. (j = v + 1 /\ p + j = e + v + 3) \/ (j = v + 2 /\ p + j = e + v + 4)
          BY <2>6
        <4> HIDE DEF p
        <4> QED BY <2>6, <4>1, KindFacts
      <3>4. new = <<a>>
        <4> DEFINE x == SubSeq(B, p + 1, p + v)
        <4>1. PartOf(B, l, p, v, x)
          <5>1. Reads(B, t, l, p, u) /\ v \in Nat /\ v <= u /\ B \in Seq(Byte)
            <6>1. B \in Seq(Byte)
              BY <2>1 DEF View
            <6> QED BY <2>4, <2>5, <2>6, <3>1, <6>1
          <5> HIDE DEF p, u
          <5> QED BY <5>1, ReadPart
        <4>2. x \in Seq(Byte) /\ Len(x) = v /\ \A j \in 1..v : x[j] = B[p + j]
          BY <4>1 DEF PartOf
        <4> HIDE DEF x
        <4>3. a \in Seq(Byte) /\ Len(a) = v
          BY <1>7 DEF DataOf
        <4>4. x = a
          BY <2>6, <4>2, <4>3, SameSeq, Zenon
        <4> QED BY <2>1, <4>4 DEF x
      <3> HIDE DEF k
      <3>5. TotalKept(B, t, l, q)
        BY <2>1, <3>1, <3>2, <3>3, WordStep
      <3>6. Given(q) = Given(l) \o <<a>>
        <4> HIDE DEF new
        <4> DEFINE x == <<a>>
        <4>1. x \in Seq(Seq(Byte))
          BY <1>7 DEF DataOf
        <4> HIDE DEF x
        <4>2. new = x
          BY <3>4 DEF x
        <4>3. Given(q) = Given(l) \o x
          <5>1. Step(B, d, t, l, q, k, x) /\ View(B, d, t, l)
            BY <2>1, <3>1, <4>2
          <5> QED BY <4>1, <5>1, GivenMore
        <4> QED BY <4>3 DEF x
      <3>7. View(B, d, t, q) /\ Pos(t, q) = Pos(t, l) + k /\ SameRun(l, q)
        BY <3>1 DEF Step, SameRun
      <3>8. /\ q.parser.blen = 0 /\ q.parser.mindex = i /\ q.parser.mlen = n
            /\ q.parser.type = "multibulk"
        <4>1. l.parser \in Fields
          <5>1. l \in Parse
            BY <2>1 DEF View, Sane
          <5> QED BY <5>1, ParseFields
        <4> QED BY <2>2, <3>1, <4>1 DEF Fields, i
      <3>9. Pos(t, q) = to
        BY <2>1, <2>6, <3>7 DEF k
      <3>10. AtArg(s, Pos(t, q), c, q.parser)
        <4>1. i \in 0..n /\ n > 0
          BY <1>2
        <4>2. q.parser.mlen = Len(s[c].args)
          BY <3>8 DEF n
        <4>3. Pos(t, q) = ArgEnd(s, c, q.parser.mindex)
          BY <3>8, <3>9 DEF to
        <4> QED BY <1>2, <3>8, <4>1, <4>2, <4>3 DEF AtArg
      <3>11. Tells(w, s, t, q, c - 1, i)
        <4>1. m < n => Told(s, c - 1, m) \o <<Argument(s, c, m + 1)>> = Told(s, c - 1, m + 1)
          BY <1>2, <1>8, Zenon DEF ToldFacts
        <4>2. m < n
          BY <1>2
        <4>3. Told(s, c - 1, m) \o <<a>> = Told(s, c - 1, i)
          BY <4>1, <4>2 DEF a, i
        <4> QED BY <2>7, <3>5, <3>6, <4>3 DEF Tells, TotalKept, B
      <3>12. MultiAt(w, s, d, t, c, q)
        BY <3>7, <3>8, <3>10, <3>11 DEF MultiAt, B
      <3>13. SameRun(r, q)
        BY <2>1, <3>7 DEF SameRun
      <3> QED BY <3>1, <3>8, <3>12, <3>13 DEF ArgGot, q, i, m
    <2> QED BY <2>9, <2>10
  <1> QED BY <1>9, <1>10

ArgsDone(w, s, d, t, c, r, q) ==
  /\ MultiAt(w, s, d, t, c, q) /\ SameRun(r, q)
  /\ \/ q.err = "OK" /\ q.parser.mindex = q.parser.mlen
     \/ Missing(s, t, c, q)

LEMMA ArgsDoneFacts ==
  ASSUME NEW w, NEW s \in Streams, NEW d \in Blocks, NEW t, NEW c, NEW r,
         MultiAt(w, s, d, t, c, r), r.err = "OK"
  PROVE  ArgsDone(w, s, d, t, c, r, Args(r))
  <1> DEFINE n == Left(r)
             m == r.parser.mindex
             l == Len(s[c].args)
             Good(k, q) == /\ MultiAt(w, s, d, t, c, q) /\ SameRun(r, q)
                           /\ \/ q.err = "OK" /\ q.parser.mindex = m + k
                              \/ Missing(s, t, c, q)
             W == {x \in (0..n) \X Parse : Good(x[1], x[2])}
  <1>1. Sane(d, r) /\ r \in Parse
    BY DEF MultiAt, View, Sane
  <1>2. PICK f : /\ Args(r) = f[n] /\ f[0] = r
                 /\ \A k \in 1..n : f[k] = NextArg(f[k - 1])
    BY <1>1, ArgsTurns
  <1>3. \A q : MultiAt(w, s, d, t, c, q) => q.parser.mlen = l /\ q \in Parse
    BY DEF MultiAt, AtArg, View, Sane
  <1>4. /\ m \in Nat /\ l \in Nat /\ n \in Nat /\ m + n = l
    <2>1. r.parser.mlen = l /\ m \in 0..l
      BY DEF MultiAt, AtArg
    <2>2. m \in Nat /\ r.parser.mlen \in Nat
      BY <1>1, ParseFields
    <2> HIDE DEF m, l
    <2>3. n = IF l > m THEN l - m ELSE 0
      BY <2>1 DEF Left, m
    <2> HIDE DEF n
    <2> QED BY <2>1, <2>2, <2>3
  <1>5. Good(0, r)
    <2>1. SameRun(r, r)
      BY DEF SameRun
    <2> HIDE DEF m
    <2> QED BY <1>4, <2>1 DEF m
  <1> HIDE DEF m, l, n
  <1>6. <<0, f[0]>> \in W
    BY <1>1, <1>2, <1>4, <1>5
  <1>7. ASSUME NEW k \in 1..n, <<k - 1, f[k - 1]>> \in W PROVE <<k, f[k]>> \in W
    <2> DEFINE q == f[k - 1]
    <2>1. q \in Parse /\ MultiAt(w, s, d, t, c, q) /\ SameRun(r, q)
          /\ \/ q.err = "OK" /\ q.parser.mindex = m + (k - 1)
             \/ Missing(s, t, c, q)
      BY <1>7
    <2>2. f[k] = NextArg(q)
      BY <1>2
    <2> HIDE DEF q
    <2>3. Good(k, NextArg(q))
      <3>1. CASE q.err # "OK"
        <4>1. NextArg(q) = q
          BY <3>1 DEF NextArg
        <4> QED BY <2>1, <3>1, <4>1
      <3>2. CASE q.err = "OK"
        <4>1. q.parser.mindex = m + (k - 1)
          BY <2>1, <3>2 DEF Missing
        <4>2. q.parser.mindex < q.parser.mlen
          BY <1>3, <1>4, <2>1, <4>1
        <4>3. ArgGot(w, s, d, t, c, q, NextArg(q))
          BY <2>1, <3>2, <4>2, ArgGotFacts
        <4> DEFINE x == NextArg(q)
        <4> HIDE DEF x
        <4>4. MultiAt(w, s, d, t, c, x) /\ SameRun(q, x)
              /\ \/ x.err = "OK" /\ x.parser.mindex = q.parser.mindex + 1
                 \/ Missing(s, t, c, x)
          BY <4>3 DEF ArgGot, x
        <4>5. SameRun(r, x)
          BY <2>1, <4>4 DEF SameRun
        <4>6. q.parser.mindex + 1 = m + k
          BY <1>4, <4>1
        <4> QED BY <4>4, <4>5, <4>6 DEF x
      <3> QED BY <3>1, <3>2
    <2>4. f[k] \in Parse /\ k \in 0..n
      BY <1>3, <1>4, <2>2, <2>3
    <2> HIDE DEF Good
    <2> QED BY <2>2, <2>3, <2>4
  <1> HIDE DEF W
  <1>8. <<n, f[n]>> \in W
    BY <1>4, <1>6, <1>7, StepInvariance
  <1>9. Good(n, Args(r))
    BY <1>2, <1>8 DEF W
  <1> QED BY <1>3, <1>4, <1>9 DEF ArgsDone

\* The parser of r has nothing of a command, and stands where the h-th ends.
BlankAt(w, s, d, t, h, r) ==
  /\ h \in 0..Len(s) /\ View(Bytes[s], d, t, r) /\ Blank(r.parser)
  /\ Pos(t, r) = CommandEnd[s][h] /\ Tells(w, s, t, r, h, 0)

CountGot(s, d, t, h, r, q) ==
  /\ View(Bytes[s], d, t, q) /\ Given(q) = Given(r) /\ SameRun(r, q)
  /\ TotalKept(Bytes[s], t, r, q) /\ h < Len(s)
  /\ \/ /\ q.err = "OK" /\ s[h + 1].form = "multibulk"
        /\ Pos(t, q) = ArgEnd(s, h + 1, 0)
        /\ q.parser = [r.parser EXCEPT !.mlen = Len(s[h + 1].args)]
     \/ /\ q.err # "OK" /\ Pos(t, q) = Pos(t, r) /\ q.parser = r.parser
        /\ s[h + 1].form = "multibulk" => Missing(s, t, h + 1, q)

\* What lies behind the end of a command.
LEMMA NextByte ==
  ASSUME NEW s \in Streams, NEW h \in 0..Len(s), NEW d, NEW t, NEW r,
         View(Bytes[s], d, t, r), Pos(t, r) = CommandEnd[s][h], Unread(r) # <<>>
  PROVE  /\ h < Len(s) /\ h + 1 \in 1..Len(s) /\ h \in 0..(Len(s) - 1)
         /\ Len(Unread(r)) \in Nat /\ Len(Unread(r)) >= 1
         /\ s[h + 1].form = "multibulk" =>
              Unread(r)[1] = <<"*", Len(s[h + 1].args)>>
         /\ s[h + 1].form # "multibulk" => Unread(r)[1][1] = "byte"
  <1> DEFINE B == Bytes[s]
             U == Unread(r)
             p == CommandEnd[s][h]
             u == Len(U)
  <1>1. /\ p \in Nat /\ u \in Nat /\ p + u = t /\ t <= Len(B) /\ Len(B) \in Nat
        /\ U \in Seq(Byte) /\ \A i \in 1..u : U[i] = B[p + i]
    <2>1. Reads(B, t, r, p, u)
      BY ViewFacts
    <2> QED BY <2>1 DEF Reads
  <1>2. InOrder(s, B, CommandEnd[s], Len(s)) /\ Len(s) \in Nat
    BY StreamInOrder, CommandFacts
  <1>3. u >= 1
    <2>1. U # <<>>
      OBVIOUS
    <2> HIDE DEF U
    <2> QED BY <1>1, <2>1
  <1>4. h # Len(s)
    <2>1. CommandEnd[s][Len(s)] = Len(B)
      BY <1>2 DEF InOrder
    <2> HIDE DEF u, B
    <2> QED BY <1>1, <1>3, <2>1
  <1>5. h < Len(s) /\ h + 1 \in 1..Len(s) /\ h \in 0..(Len(s) - 1)
    BY <1>2, <1>4
  <1>6. 1 \in 1..u /\ U[1] = B[p + 1]
    <2> HIDE DEF u, U, B
    <2> QED BY <1>1, <1>3
  <1> DEFINE c == h + 1
             n == Len(s[c].args)
  <1>7. c \in 1..Len(s) /\ c - 1 = h
    BY <1>5
  <1> HIDE DEF c, B, U, p, u
  <1>8. Places(s, c, B, p, CommandEnd[s][c], n)
    <2>1. Places(s, c, Bytes[s], CommandEnd[s][c - 1], CommandEnd[s][c], n)
      BY <1>7, PlaceFacts
    <2> QED BY <1>7, <2>1 DEF B, p
  <1>9. s[c].form = "multibulk" => U[1] = <<"*", n>>
    BY <1>6, <1>8, Zenon DEF Places
  <1>10. ASSUME s[c].form # "multibulk" PROVE U[1][1] = "byte"
    <2>1. s[c].form = "inline" /\ n \in Nat /\ n > 0
      BY <1>7, <1>10, CommandFacts
    <2> DEFINE one == 1
    <2>2. one \in 1..n /\ one - 1 = 0
      BY <2>1
    <2> HIDE DEF one
    <2>3. InlineArgAt(Bytes[s], Argument(s, c, one), ArgEnd(s, c, one - 1), ArgEnd(s, c, one),
                      s[c].args[one], one = n, s[c].gap)
      BY <1>7, <2>1, <2>2, InlineArgFacts, Zenon
    <2>4. DataOf(Argument(s, c, one), s[c].args[one])
      BY <1>7, <2>2, ArgumentFacts, Zenon
    <2>5. ArgEnd(s, c, 0) = p + 0 /\ p \in Nat
      BY <1>8, <2>1 DEF Places
    <2> DEFINE v == s[c].args[one]
               a == Argument(s, c, one)
    <2>6. v \in Nat /\ v > 0 /\ \A k \in 1..v : B[ArgEnd(s, c, 0) + k] = a[k]
      BY <2>2, <2>3 DEF InlineArgAt, B
    <2> HIDE DEF v, a
    <2>7. 1 \in 1..v /\ ArgEnd(s, c, 0) + 1 = p + 1
      BY <2>5, <2>6
    <2>8. B[p + 1] = a[1]
      BY <2>6, <2>7
    <2>9. a[1][1] = "byte"
      BY <2>4, <2>7 DEF DataOf, a, v
    <2> QED BY <1>6, <2>8, <2>9
  <1> QED BY <1>1, <1>3, <1>5, <1>9, <1>10 DEF c, n, u, U

LEMMA CountGotFacts ==
  ASSUME NEW s \in Streams, NEW h \in 0..Len(s), NEW d, NEW t, NEW r,
         View(Bytes[s], d, t, r), Blank(r.parser), Pos(t, r) = CommandEnd[s][h],
         Unread(r) # <<>>
  PROVE  CountGot(s, d, t, h, r, RequestLength(r))
  <1> DEFINE B == Bytes[s]
             q == RequestLength(r)
             c == h + 1
             n == Len(s[c].args)
             U == Unread(r)
             u == Len(U)
             line == LengthLine(U)
             p == Pos(t, r)
             to == CommandEnd[s][c]
  <1>1. /\ h < Len(s) /\ c \in 1..Len(s) /\ h \in 0..(Len(s) - 1) /\ c - 1 = h
        /\ u \in Nat /\ u >= 1
        /\ s[c].form = "multibulk" => U[1] = <<"*", n>>
        /\ s[c].form # "multibulk" => U[1][1] = "byte"
    <2>1. /\ h < Len(s) /\ c \in 1..Len(s) /\ h \in 0..(Len(s) - 1)
          /\ u \in Nat /\ u >= 1
          /\ s[c].form = "multibulk" => U[1] = <<"*", n>>
          /\ s[c].form # "multibulk" => U[1][1] = "byte"
      BY NextByte, Zenon
    <2>2. c - 1 = h
      OBVIOUS
    <2> QED BY <2>1, <2>2
  <1>2. /\ p \in Nat /\ p + u = t /\ t <= Len(B) /\ Len(B) \in Nat
        /\ U \in Seq(Byte) /\ \A i \in 1..u : U[i] = B[p + i]
    <2>1. Reads(B, t, r, p, u)
      BY ViewFacts
    <2> QED BY <2>1, Zenon DEF Reads
  <1>3. Places(s, c, B, p, to, n)
    <2> HIDE DEF c
    <2>1. Places(s, c, Bytes[s], CommandEnd[s][c - 1], CommandEnd[s][c], Len(s[c].args))
      BY <1>1, PlaceFacts, Zenon
    <2> QED BY <1>1, <2>1
  <1>4. /\ n \in Nat /\ to \in Nat /\ r.parser.mlen = 0 /\ r.parser \in Fields
    <2>1. r \in Parse
      BY DEF View, Sane
    <2> QED BY <1>3, <2>1, ParseFields DEF Places, Blank
  <1> HIDE DEF c, n, U, u, line, p, to, B
  <1>5. ASSUME line.bytes = 0, line.value = 0, line.err # "OK",
               s[c].form = "multibulk" =>
                 t < to /\ t < ArgEnd(s, c, 0) /\ line.err = "TryAgain"
        PROVE  CountGot(s, d, t, h, r, q)
    <2>1. /\ Step(B, d, t, r, q, 0, <<>>) /\ q.err = line.err
          /\ q.parser = [r.parser EXCEPT !.mlen = 0]
      BY <1>4, <1>5, CountTaken DEF line, U, B
    <2>2. q.parser = r.parser
      BY <1>4, <2>1 DEF Fields
    <2> HIDE DEF q
    <2>3. View(B, d, t, q) /\ Pos(t, q) = Pos(t, r) /\ Given(q) = Given(r)
          /\ SameRun(r, q) /\ TotalKept(B, t, r, q)
      BY <2>1, StillFacts DEF B
    <2>4. s[c].form = "multibulk" => Missing(s, t, c, q)
      <3> SUFFICES ASSUME s[c].form = "multibulk" PROVE Missing(s, t, c, q)
        OBVIOUS
      <3>1. q.parser.mindex = 0 /\ q.parser.mlen = 0
        BY <1>4, <2>2 DEF Blank
      <3>2. ASSUME Full(s, c) PROVE Stalls(s, t, c, 0, q)
        <4>1. t < ArgEnd(s, c, 0) /\ q.err = "TryAgain"
          BY <1>5, <2>1
        <4>2. 1 \in 1..n /\ 0 \in 0..n /\ 1 \in 0..n /\ 1 - 1 = 0
          BY <1>4, <3>2 DEF Full, n
        <4>3. ArgEnd(s, c, 0) \in Nat /\ ArgEnd(s, c, 1) \in Nat
              /\ ArgEnd(s, c, 1) = ArgEnd(s, c, 0) + Len(Part(s, c, 1))
          BY <1>3, <4>2 DEF Places
        <4>4. Len(Part(s, c, 1)) \in Nat
          <5>1. Part(s, c, 1) \in Seq(Byte)
            BY <1>1, <4>2, PartTyped DEF n
          <5> QED BY <5>1
        <4>5. t \in Nat
          BY DEF View
        <4> DEFINE x == ArgEnd(s, c, 0)
                   y == ArgEnd(s, c, 1)
                   z == Len(Part(s, c, 1))
        <4>6. x \in Nat /\ y \in Nat /\ z \in Nat /\ y = x + z /\ t < x
          BY <4>1, <4>3, <4>4
        <4> HIDE DEF x, y, z
        <4>7. t < y /\ t # x
          BY <4>5, <4>6
        <4> QED BY <4>1, <4>7 DEF Stalls, x, y
      <3> QED BY <1>5, <2>1, <3>1, <3>2 DEF Missing, Finished, to
    <2> QED BY <1>1, <1>5, <2>1, <2>2, <2>3, <2>4 DEF CountGot, B, c, q
  <1>6. CASE s[c].form # "multibulk"
    <2>1. U[1][1] \notin Headers /\ U # <<>>
      BY <1>1, <1>6 DEF Headers, u
    <2>2. line = Fails("TryAgain") \/ line = Fails("unpredictable")
      BY <2>1 DEF line, LengthLine, LineUpTo
    <2>3. line.bytes = 0 /\ line.value = 0 /\ line.err # "OK"
      BY <2>2 DEF Fails
    <2> QED BY <1>5, <1>6, <2>3
  <1>7. CASE s[c].form = "multibulk"
    <2> DEFINE k == <<"*", n>>
    <2>1. k \in Headers \X Nat /\ k[2] = n /\ U[1] = k
      BY <1>1, <1>4, <1>7 DEF Headers
    <2> HIDE DEF k
    <2>2. B[p + 2] = Lf /\ p + 2 <= to /\ B[p + 1][1] = "*" /\ ArgEnd(s, c, 0) = p + 2
      <3>1. B[p + 1] = <<"*", n>>
        BY <1>3, <1>7, Zenon DEF Places
      <3>2. s[c].form # "inline"
        BY <1>7
      <3> QED BY <1>3, <1>7, <3>1, <3>2, KindFacts DEF Places
    <2>3. u >= 2 => U[2] = Lf
      <3> DEFINE i == 2
      <3>0. u >= 2 => i \in 1..u
        BY <1>1
      <3> HIDE DEF i
      <3>1. u >= 2 => U[i] = B[p + i]
        BY <1>2, <3>0, Zenon
      <3> QED BY <2>2, <3>1 DEF i
    <2>4. /\ u = 1 => line = Fails("TryAgain")
          /\ u >= 2 => line = [err |-> "OK", bytes |-> 2, value |-> k[2]]
      <3>1. U \in Seq(Kinds \X Nat)
        BY <1>2 DEF Byte
      <3> QED BY <2>1, <2>3, <3>1, LineFound, Zenon DEF u, line
    <2>5. CASE u < 2
      <3>1. line = Fails("TryAgain")
        BY <1>1, <2>4, <2>5
      <3>2. t < to /\ t < p + 2
        BY <1>1, <1>2, <1>4, <2>2, <2>5
      <3> QED BY <1>5, <2>2, <3>1, <3>2 DEF Fails
    <2>6. CASE ~(u < 2)
      <3>1. line.err = "OK" /\ line.bytes = 2 /\ line.value = n
        BY <1>1, <2>1, <2>4, <2>6
      <3> DEFINE two == 2
      <3>2. /\ Step(B, d, t, r, q, two, <<>>) /\ q.err = "OK"
            /\ q.parser = [r.parser EXCEPT !.mlen = n]
        BY <1>4, <3>1, CountTaken DEF line, U, B
      <3> HIDE DEF q
      <3>3. two \in Nat /\ \A j \in 1..two : B[p + j][1] # "byte"
        <4>1. \A j \in 1..two : j = 1 \/ j = 2
          OBVIOUS
        <4>2. B[p + 1][1] # "byte" /\ B[p + 2][1] # "byte"
          BY <2>2, KindFacts
        <4> QED BY <4>1, <4>2
      <3> HIDE DEF two
      <3>4. TotalKept(B, t, r, q)
        BY <3>2, <3>3, SilentStep DEF p, B
      <3>5. View(B, d, t, q) /\ Pos(t, q) = p + two /\ Given(q) = Given(r)
            /\ SameRun(r, q)
        BY <3>2, <3>3, SilentFacts DEF B, p
      <3>6. Pos(t, q) = ArgEnd(s, c, 0)
        BY <2>2, <3>5 DEF two
      <3> QED BY <1>1, <1>7, <3>2, <3>4, <3>5, <3>6 DEF CountGot, B, c, n, q
    <2> QED BY <2>5, <2>6
  <1> QED BY <1>6, <1>7

\* Command c is parsed as a multibulk request to its end.
MultiWhole(w, s, d, t, c, q) ==
  \/ MultiAt(w, s, d, t, c, q) /\ q.parser.mindex = q.parser.mlen
  \/ BlankAt(w, s, d, t, c, q) /\ c > 0 /\ s[c].form = "multibulk"
     /\ Len(s[c].args) = 0

\* As far as it is there, or what lies there is no multibulk command.
MultiPart(w, s, d, t, c, q) ==
  \/ MultiAt(w, s, d, t, c, q) /\ Missing(s, t, c, q)
  \/ /\ BlankAt(w, s, d, t, c - 1, q) /\ q.err # "OK"
     /\ s[c].form = "multibulk" => Missing(s, t, c, q)

MultiDone(w, s, d, t, c, r, q) ==
  /\ SameRun(r, q) /\ q.parser.type = "multibulk" /\ c \in 1..Len(s)
  /\ \/ q.err = "OK" /\ MultiWhole(w, s, d, t, c, q)
     \/ MultiPart(w, s, d, t, c, q)

LEMMA MultiContinues ==
  ASSUME NEW w, NEW s \in Streams, NEW d \in Blocks, NEW t, NEW c, NEW r,
         MultiAt(w, s, d, t, c, r), r.err = "OK"
  PROVE  MultiDone(w, s, d, t, c, r, MultibulkRequest(r))
  <1> DEFINE q == MultibulkRequest(r)
  <1>1. r.parser.mlen # 0
    <2>1. r.parser.mlen > 0 /\ r.parser.mlen \in Nat
      <3>1. r \in Parse
        BY DEF MultiAt, View, Sane
      <3> QED BY <3>1, ParseFields DEF MultiAt, AtArg
    <2> QED BY <2>1
  <1>2. q = Args(r)
    BY <1>1 DEF MultibulkRequest, RequestLength
  <1>3. ArgsDone(w, s, d, t, c, r, q)
    BY <1>2, ArgsDoneFacts
  <1> HIDE DEF q
  <1>4. q.parser.type = "multibulk" /\ c \in 1..Len(s)
    BY <1>3 DEF ArgsDone, MultiAt, AtArg
  <1>5. MultiDone(w, s, d, t, c, r, q)
    BY <1>3, <1>4 DEF ArgsDone, MultiDone, MultiWhole, MultiPart
  <1> QED BY <1>5 DEF q

LEMMA MultiBegins ==
  ASSUME NEW w, NEW s \in Streams, NEW d \in Blocks, NEW t, NEW h, NEW r,
         BlankAt(w, s, d, t, h, r), r.parser.type = "multibulk", Unread(r) # <<>>
  PROVE  h + 1 \in 1..Len(s) /\ MultiDone(w, s, d, t, h + 1, r, MultibulkRequest(r))
  <1> DEFINE c == h + 1
             l == RequestLength(r)
             q == MultibulkRequest(r)
             n == Len(s[c].args)
  <1>1. /\ h \in 0..Len(s) /\ View(Bytes[s], d, t, r) /\ Blank(r.parser)
        /\ Pos(t, r) = CommandEnd[s][h] /\ Tells(w, s, t, r, h, 0)
    BY DEF BlankAt
  <1>2. /\ c \in 1..Len(s) /\ h \in 0..(Len(s) - 1) /\ c - 1 = h /\ c > 0 /\ c \in 0..Len(s)
    <2>1. c \in 1..Len(s) /\ h \in 0..(Len(s) - 1)
      BY <1>1, NextByte, Zenon
    <2> QED BY <2>1
  <1>3. CountGot(s, d, t, h, r, l)
    BY <1>1, CountGotFacts
  <1>4. q = Args(l)
    BY DEF MultibulkRequest
  <1>5. /\ View(Bytes[s], d, t, l) /\ Given(l) = Given(r) /\ SameRun(r, l)
        /\ TotalKept(Bytes[s], t, r, l)
        /\ \/ /\ l.err = "OK" /\ s[c].form = "multibulk" /\ Pos(t, l) = ArgEnd(s, c, 0)
              /\ l.parser = [r.parser EXCEPT !.mlen = n]
           \/ /\ l.err # "OK" /\ Pos(t, l) = Pos(t, r) /\ l.parser = r.parser
              /\ s[c].form = "multibulk" => Missing(s, t, c, l)
    BY <1>3 DEF CountGot
  <1> HIDE DEF l, q
  <1>6. Tells(w, s, t, l, h, 0)
    BY <1>1, <1>5, TellsKept
  <1>7. Sane(d, l) /\ r \in Parse
    BY <1>1, <1>5 DEF View, Sane
  <1>8. r.parser \in Fields
    BY <1>7, ParseFields
  <1>9. CASE l.err # "OK"
    <2>1. /\ l.parser = r.parser /\ Pos(t, l) = Pos(t, r)
          /\ s[c].form = "multibulk" => Missing(s, t, c, l)
      BY <1>5, <1>9
    <2>2. q = l
      <3>1. l.parser.mlen = 0
        BY <1>1, <2>1 DEF Blank
      <3> QED BY <1>4, <1>7, <3>1, ArgsNone
    <2>3. BlankAt(w, s, d, t, c - 1, l)
      BY <1>1, <1>2, <1>5, <1>6, <2>1 DEF BlankAt
    <2>4. MultiPart(w, s, d, t, c, l)
      BY <1>9, <2>1, <2>3 DEF MultiPart
    <2>5. MultiDone(w, s, d, t, c, r, l)
      BY <1>2, <1>5, <2>1, <2>4 DEF MultiDone
    <2> QED BY <1>2, <2>2, <2>5 DEF q, c
  <1>10. CASE l.err = "OK"
    <2>1. /\ s[c].form = "multibulk" /\ Pos(t, l) = ArgEnd(s, c, 0)
          /\ l.parser = [r.parser EXCEPT !.mlen = n]
      BY <1>5, <1>10
    <2>2. Places(s, c, Bytes[s], CommandEnd[s][h], CommandEnd[s][c], n) /\ n \in Nat
      <3>1. Places(s, c, Bytes[s], CommandEnd[s][c - 1], CommandEnd[s][c], n)
        <4> HIDE DEF c
        <4> QED BY <1>2, PlaceFacts
      <3> QED BY <1>2, <3>1 DEF Places
    <2>3. l.parser.mlen = n /\ l.parser.mindex = 0 /\ l.parser.blen = 0
          /\ l.parser.type = "multibulk"
      BY <1>1, <1>8, <2>1 DEF Blank, Fields
    <2>4. CASE n = 0
      <3>1. q = l
        BY <1>4, <1>7, <2>3, <2>4, ArgsNone
      <3>2. Pos(t, l) = CommandEnd[s][c]
        BY <2>1, <2>2, <2>4 DEF Places
      <3>3. Tells(w, s, t, l, c, 0)
        <4>1. ToldFacts(s, h, 0, n)
          <5>1. 0 \in 0..n
            BY <2>2
          <5> QED BY <1>2, <5>1, ToldTyped
        <4>2. Told(s, h, 0) = Told(s, c, 0)
          BY <2>4, <4>1 DEF ToldFacts
        <4> HIDE DEF c
        <4> QED BY <1>6, <4>2 DEF Tells
      <3>4. BlankAt(w, s, d, t, c, l)
        BY <1>2, <1>5, <2>3, <2>4, <3>2, <3>3 DEF BlankAt, Blank
      <3>5. MultiDone(w, s, d, t, c, r, l)
        <4>1. MultiWhole(w, s, d, t, c, l)
          <5> HIDE DEF c
          <5> QED BY <1>2, <2>1, <2>4, <3>4 DEF MultiWhole, n
        <4> QED BY <1>2, <1>5, <1>10, <2>3, <4>1 DEF MultiDone
      <3> QED BY <1>2, <3>1, <3>5 DEF q, c
    <2>5. CASE n # 0
      <3>1. AtArg(s, Pos(t, l), c, l.parser)
        <4>1. n > 0 /\ 0 \in 0..n
          BY <2>2, <2>5
        <4> HIDE DEF c
        <4> QED BY <1>2, <2>1, <2>3, <4>1 DEF AtArg, n
      <3>2. MultiAt(w, s, d, t, c, l)
        BY <1>2, <1>5, <1>6, <2>3, <3>1 DEF MultiAt
      <3>3. ArgsDone(w, s, d, t, c, l, q)
        <4> HIDE DEF c
        <4> QED BY <1>4, <1>10, <3>2, ArgsDoneFacts
      <3>4. MultiAt(w, s, d, t, c, q) /\ SameRun(l, q)
            /\ \/ q.err = "OK" /\ q.parser.mindex = q.parser.mlen
               \/ Missing(s, t, c, q)
        BY <3>3 DEF ArgsDone
      <3>5. SameRun(r, q) /\ q.parser.type = "multibulk"
        BY <1>5, <3>4 DEF SameRun, MultiAt, AtArg
      <3>6. MultiDone(w, s, d, t, c, r, q)
        BY <1>2, <3>4, <3>5 DEF MultiDone, MultiWhole, MultiPart
      <3> QED BY <1>2, <3>6 DEF q, c
    <2> QED BY <2>4, <2>5
  <1> QED BY <1>9, <1>10

--------------------------------------------------------------------------------
(* The loop of the inline parser, word by word. *)

\* Where a word may begin.
Edge(s, p) == p = 0 \/ Bytes[s][p] \in {Sp, Lf}

\* No word is empty, in such streams.
LEMMA NoEmptyWord ==
  ASSUME NEW s \in Streams, Regular(s), NEW t, NEW r, NEW p, NEW n,
         Reads(Bytes[s], t, r, p, n), Edge(s, p)
  PROVE  SplitAt(Unread(r)) # 1
  <1> SUFFICES ASSUME SplitAt(Unread(r)) = 1 PROVE FALSE
    OBVIOUS
  <1> DEFINE B == Bytes[s]
             U == Unread(r)
             q == p + 1
  <1>1. /\ p \in Nat /\ n \in Nat /\ p + n = t /\ t <= Len(B) /\ Len(B) \in Nat
        /\ U \in Seq(Byte) /\ Len(U) = n /\ \A i \in 1..n : U[i] = B[p + i]
    BY DEF Reads
  <1> HIDE DEF B, U
  <1>2. 1 \in 1..n /\ U[1] \in {Sp, Lf}
    <2>1. Find(U, Sp) # 0 => Find(U, Sp) \in 1..Len(U) /\ U[Find(U, Sp)] = Sp
      BY <1>1, FindFacts
    <2>2. Find(U, Lf) # 0 => Find(U, Lf) \in 1..Len(U) /\ U[Find(U, Lf)] = Lf
      BY <1>1, FindFacts
    <2>3. SplitAt(U) = 1
      BY DEF U
    <2> QED BY <1>1, <2>1, <2>2, <2>3 DEF SplitAt
  <1>3. q \in 1..Len(B) /\ B[q] \in {Sp, Lf} /\ q - 1 = p
    BY <1>1, <1>2
  <1> HIDE DEF q
  <1>4. Says(s, B, q)
    BY <1>3, BytesSay DEF B
  <1>5. p \in 1..Len(B) /\ B[p] \notin {Sp, Lf}
    BY <1>3, <1>4 DEF Says
  <1>6. p # 0
    BY <1>5
  <1> QED BY <1>5, <1>6 DEF Edge, B

\* The bytes of inline command c, up to its end at most.
InlineIs(s, t, c) ==
  c \in 1..Len(s) /\ s[c].form = "inline" /\ t <= CommandEnd[s][c]

\* The i-th word of inline command c, found as the next e bytes.
WordIs(s, c, i, p, e) ==
  /\ WordLength(Bytes[s], p, e) = s[c].args[i] /\ p + e = ArgEnd(s, c, i)
  /\ Bytes[s][p + e] = Lf <=> i = Len(s[c].args)

LEMMA WordFound ==
  ASSUME NEW s \in Streams, Regular(s), NEW t, NEW c, InlineIs(s, t, c),
         NEW i \in 1..Len(s[c].args), NEW r, NEW p, p = ArgEnd(s, c, i - 1), NEW u,
         Reads(Bytes[s], t, r, p, u), NEW e, e = SplitAt(Unread(r)), e \in 1..u
  PROVE  WordIs(s, c, i, p, e)
  <1> DEFINE B == Bytes[s]
             U == Unread(r)
             v == s[c].args[i]
             n == Len(s[c].args)
             to == ArgEnd(s, c, i)
             end == CommandEnd[s][c]
             a == Argument(s, c, i)
             g == s[c].gap
  <1>1. c \in 1..Len(s) /\ s[c].form = "inline" /\ t <= end
    BY DEF InlineIs
  <1>2. /\ p \in Nat /\ u \in Nat /\ p + u = t /\ t <= Len(B) /\ Len(B) \in Nat
        /\ U \in Seq(Byte) /\ Len(U) = u /\ \A j \in 1..u : U[j] = B[p + j]
    BY DEF Reads
  <1>3. InlineArgAt(B, a, p, to, v, i = n, g)
    BY <1>1, InlineArgFacts
  <1>4. DataOf(a, v)
    BY <1>1, ArgumentFacts
  <1>5. g = 1
    <2>1. g \in Nat /\ g > 0
      BY <1>1, CommandFacts
    <2>2. g <= 1
      BY <1>1 DEF Regular, Single, AllMulti
    <2> HIDE DEF g
    <2> QED BY <2>1, <2>2
  <1>6. i = n => to = end
    BY <1>1, PlaceFacts DEF Places
  <1> HIDE DEF B, U, v, n, to, end, a, g
  <1>7. /\ v \in Nat /\ v > 0 /\ to \in Nat
        /\ \A k \in 1..v : B[p + k] = a[k]
        /\ i = n => to = p + v + 2 /\ B[p + v + 1] = Cr /\ B[p + v + 2] = Lf
        /\ i # n => to = p + v + g /\ \A j \in 1..g : B[p + v + j] = Sp
    BY <1>3 DEF InlineArgAt
  <1>8. \A j \in 1..u : j <= v => U[j] # Sp /\ U[j] # Lf
    <2> SUFFICES ASSUME NEW j \in 1..u, j <= v PROVE U[j] # Sp /\ U[j] # Lf
      OBVIOUS
    <2>1. j \in 1..v
      BY <1>7
    <2>2. U[j] = a[j]
      BY <1>2, <1>7, <2>1, Zenon
    <2>3. U[j][1] = "byte"
      BY <1>4, <2>1, <2>2 DEF DataOf
    <2> QED BY <2>3, KindFacts
  <1>9. /\ Find(U, Sp) # 0 => Find(U, Sp) \in 1..u /\ U[Find(U, Sp)] = Sp
        /\ Find(U, Lf) # 0 => Find(U, Lf) \in 1..u /\ U[Find(U, Lf)] = Lf
        /\ e = (IF Find(U, Sp) # 0 THEN Find(U, Sp) ELSE Find(U, Lf)) /\ e # 0
    <2>1. /\ Find(U, Sp) # 0 => Find(U, Sp) \in 1..Len(U) /\ U[Find(U, Sp)] = Sp
      BY <1>2, FindFacts
    <2>2. Find(U, Lf) # 0 => Find(U, Lf) \in 1..Len(U) /\ U[Find(U, Lf)] = Lf
      BY <1>2, FindFacts, Zenon
    <2>3. e = (IF Find(U, Sp) # 0 THEN Find(U, Sp) ELSE Find(U, Lf)) /\ e # 0
      BY DEF SplitAt, U
    <2> QED BY <1>2, <2>1, <2>2, <2>3
  <1>10. e \in 1..u /\ v < e /\ (U[e] = Sp \/ U[e] = Lf)
    <2>1. U[e] = Sp \/ U[e] = Lf
      BY <1>9
    <2>2. ~(e <= v)
      BY <1>8, <2>1
    <2> QED BY <1>2, <1>7, <2>1, <2>2
  <1>11. U[e] = B[p + e]
    BY <1>2, <1>10, Zenon
  <1>12. CASE i # n
    <2>1. B[p + v + 1] = Sp /\ to = p + v + 1
      <3>1. 1 \in 1..g
        BY <1>5
      <3> QED BY <1>5, <1>7, <1>12, <3>1
    <2> DEFINE k == v + 1
    <2>0. k \in 1..u /\ p + k = p + v + 1
      <3>1. p \in Nat /\ u \in Nat /\ v \in Nat /\ e \in 1..u /\ v < e
        BY <1>2, <1>7, <1>10
      <3> QED BY <3>1
    <2>2. k \in 1..u /\ U[k] = Sp /\ p + k = p + v + 1
      <3>1. U[k] = B[p + k]
        BY <1>2, <2>0, Zenon
      <3> QED BY <2>0, <2>1, <3>1
    <2>3. \A j \in 1..u : j < k => U[j] # Sp
      BY <1>7, <1>8
    <2> HIDE DEF k
    <2>4. Find(U, Sp) = k
      BY <1>2, <2>2, <2>3, FindFirst, Zenon
    <2>5. e = k
      BY <1>9, <2>2, <2>4
    <2>6. p + e = to /\ B[p + e] = Sp /\ e - 1 = v
      BY <1>7, <2>1, <2>2, <2>5 DEF k
    <2>7. B[p + e] # Lf
      BY <2>6, KindFacts
    <2>8. WordLength(B, p, e) = v
      BY <2>6, <2>7 DEF WordLength
    <2> QED BY <1>12, <2>6, <2>7, <2>8 DEF WordIs, B, v, to, n
  <1>13. CASE i = n
    <2>1. to = p + v + 2 /\ B[p + v + 1] = Cr /\ B[p + v + 2] = Lf /\ u <= v + 2
      BY <1>1, <1>2, <1>6, <1>7, <1>13
    <2>0. p \in Nat /\ u \in Nat /\ v \in Nat /\ e \in 1..u /\ v < e /\ u <= v + 2
      BY <1>2, <1>7, <1>10, <2>1
    <2>2. e = v + 1 \/ e = v + 2
      BY <2>0
    <2>3. e # v + 1
      <3> SUFFICES ASSUME e = v + 1 PROVE FALSE
        OBVIOUS
      <3>1. p + e = p + v + 1
        BY <1>2, <1>7
      <3>2. U[e] = Cr
        BY <1>11, <2>1, <3>1
      <3> QED BY <1>10, <3>2, KindFacts
    <2>4. p + e = to /\ B[p + e] = Lf /\ e - 2 = v /\ p + (e - 1) = p + v + 1
      <3>1. p + e = p + v + 2 /\ e - 2 = v /\ p + (e - 1) = p + v + 1
        BY <2>0, <2>2, <2>3
      <3> QED BY <2>1, <3>1
    <2>5. WordLength(B, p, e) = v
      BY <2>1, <2>4 DEF WordLength
    <2> QED BY <1>13, <2>4, <2>5 DEF WordIs, B, v, to, n
  <1> QED BY <1>12, <1>13

\* Where a word ends, if it does.
Splits(U, e) ==
  /\ e = 0 \/ (e \in 1..Len(U) /\ U[e] \in {Sp, Lf})
  /\ \A k \in 1..Len(U) : U[k] = Lf => e # 0

LEMMA SplitFacts ==
  ASSUME NEW U \in Seq(Byte)
  PROVE  Splits(U, SplitAt(U))
  <1>1. Find(U, Sp) # 0 => Find(U, Sp) \in 1..Len(U) /\ U[Find(U, Sp)] = Sp
    BY FindFacts
  <1>2. Find(U, Lf) # 0 => Find(U, Lf) \in 1..Len(U) /\ U[Find(U, Lf)] = Lf
    BY FindFacts
  <1>3. ASSUME NEW k \in 1..Len(U), U[k] = Lf PROVE Find(U, Lf) # 0
    <2>1. Find(U, Lf) \in 1..k
      BY <1>3, FindThere
    <2> QED BY <1>3, <2>1
  <1> QED BY <1>1, <1>2, <1>3 DEF SplitAt, Splits

\* A word is taken, or what is there of it left.
WordKept(s, d, t, r, q) ==
  /\ View(Bytes[s], d, t, q) /\ Edge(s, Pos(t, q)) /\ TotalKept(Bytes[s], t, r, q)
  /\ SameRun(r, q) /\ q.parser = r.parser
  /\ q.err = "OK" => Len(Unread(q)) < Len(Unread(r))

LEMMA WordKeptFacts ==
  ASSUME NEW s \in Streams, Regular(s), NEW d \in Blocks, NEW t, NEW r,
         View(Bytes[s], d, t, r), Edge(s, Pos(t, r)), r.err = "OK"
  PROVE  WordKept(s, d, t, r, NextWord(r))
  <1> DEFINE B == Bytes[s]
             U == Unread(r)
             u == Len(U)
             p == Pos(t, r)
             e == SplitAt(U)
             q == NextWord(r)
             m == WordLength(B, p, e)
  <1>1. Reads(B, t, r, p, u)
    BY ViewFacts
  <1>2. /\ p \in Nat /\ u \in Nat /\ p + u = t /\ t <= Len(B) /\ Len(B) \in Nat
        /\ U \in Seq(Byte) /\ Len(U) = u /\ \A i \in 1..u : U[i] = B[p + i]
    BY <1>1 DEF Reads
  <1>3. e # 1
    BY <1>1, NoEmptyWord
  <1>4. Splits(U, e)
    BY <1>2, SplitFacts
  <1>5. WordTaken(B, d, t, r, q, e)
    <2> HIDE DEF B, q
    <2> QED BY <1>3, WordTakenFacts DEF B, q
  <1> HIDE DEF B, U, u, p, e, q, m
  <1>6. ASSUME Step(B, d, t, r, q, 0, <<>>), q.err # "OK", q.parser = r.parser
        PROVE  WordKept(s, d, t, r, q)
    <2>1. View(B, d, t, q) /\ Pos(t, q) = Pos(t, r) /\ SameRun(r, q) /\ TotalKept(B, t, r, q)
      BY <1>6, StillFacts DEF B
    <2> QED BY <1>6, <2>1 DEF WordKept, B
  <1>7. ASSUME e \in 2..u, Step(B, d, t, r, q, e, <<SubSeq(B, p + 1, p + m)>>),
               q.parser = r.parser
        PROVE  WordKept(s, d, t, r, q)
    <2>1. U[e] \in {Sp, Lf} /\ e \in 1..u
      BY <1>2, <1>4, <1>7 DEF Splits
    <2>2. B[p + e] \in {Sp, Lf}
      BY <1>2, <2>1
    <2>3. m \in 0..e /\ \A j \in 1..e : m < j => B[p + j][1] # "byte"
      <3>1. CASE B[p + e] = Lf /\ B[p + (e - 1)] = Cr
        <4>1. m = e - 2
          BY <3>1 DEF m, WordLength
        <4>0. e \in Nat /\ e >= 2
          BY <1>2, <1>7
        <4>2. e \in Nat /\ m \in 0..e /\ \A j \in 1..e : m < j => j = e - 1 \/ j = e
          BY <4>0, <4>1
        <4> QED BY <3>1, <4>2, KindFacts
      <3>2. CASE ~(B[p + e] = Lf /\ B[p + (e - 1)] = Cr)
        <4>1. m = e - 1
          BY <3>2 DEF m, WordLength
        <4>0. e \in Nat /\ e >= 2
          BY <1>2, <1>7
        <4>2. e \in Nat /\ m \in 0..e /\ \A j \in 1..e : m < j => j = e
          BY <4>0, <4>1
        <4> QED BY <2>2, <4>2, KindFacts
      <3> QED BY <3>1, <3>2
    <2>4. e \in Nat /\ e <= Len(Unread(r))
      BY <1>2, <2>1 DEF U
    <2>5. TotalKept(B, t, r, q)
      <3>1. Step(B, d, t, r, q, e, <<SubSeq(B, Pos(t, r) + 1, Pos(t, r) + m)>>)
        BY <1>7 DEF p
      <3>2. \A j \in 1..e : m < j => B[Pos(t, r) + j][1] # "byte"
        BY <2>3 DEF p
      <3> QED BY <2>3, <2>4, <3>1, <3>2, WordStep, Zenon DEF B
    <2>6. View(B, d, t, q) /\ Pos(t, q) = p + e /\ SameRun(r, q)
      BY <1>7 DEF Step, SameRun, p
    <2>7. Edge(s, Pos(t, q))
      BY <2>2, <2>6 DEF Edge, B
    <2>8. Len(Unread(q)) < Len(Unread(r))
      <3> DEFINE v == Len(Unread(q))
                 x == Pos(t, q)
      <3>1. Reads(B, t, q, x, v)
        BY <2>6, ViewFacts
      <3>2. x \in Nat /\ v \in Nat /\ x + v = t
        BY <3>1 DEF Reads
      <3>3. x = p + e
        BY <2>6
      <3> HIDE DEF v, x
      <3>4. v < u
        BY <1>2, <1>7, <3>2, <3>3
      <3> QED BY <3>4 DEF u, v, U
    <2> QED BY <1>7, <2>5, <2>6, <2>7, <2>8 DEF WordKept, B
  <1> QED BY <1>2, <1>5, <1>6, <1>7 DEF WordTaken, m, p, U, u, q

\* The exact place in inline command c: behind its i-th word.
InlineThere(s, t, c, i, n, r) ==
  /\ i \in 0..n /\ Pos(t, r) = ArgEnd(s, c, i) /\ Given(r) = Told(s, c - 1, i)
  /\ r.err = "OK" => i < n
  /\ r.err = "complete" => i = n
  /\ r.err \notin {"OK", "complete"} => i < n /\ t < CommandEnd[s][c]

InlineExact(s, t, c, r) ==
  InlineIs(s, t, c) /\ \E i \in 0..Len(s[c].args) : InlineThere(s, t, c, i, Len(s[c].args), r)

LEMMA WordExact ==
  ASSUME NEW s \in Streams, Regular(s), NEW d \in Blocks, NEW t, NEW c, NEW r,
         View(Bytes[s], d, t, r), Edge(s, Pos(t, r)), r.err = "OK", InlineExact(s, t, c, r)
  PROVE  InlineExact(s, t, c, NextWord(r))
  <1> DEFINE B == Bytes[s]
             U == Unread(r)
             u == Len(U)
             p == Pos(t, r)
             e == SplitAt(U)
             q == NextWord(r)
             m == WordLength(B, p, e)
             n == Len(s[c].args)
             end == CommandEnd[s][c]
  <1>1. Reads(B, t, r, p, u)
    BY ViewFacts
  <1>2. /\ p \in Nat /\ u \in Nat /\ p + u = t /\ t <= Len(B) /\ Len(B) \in Nat
        /\ U \in Seq(Byte) /\ Len(U) = u /\ \A i \in 1..u : U[i] = B[p + i]
    BY <1>1 DEF Reads
  <1>3. e # 1
    BY <1>1, NoEmptyWord
  <1>4. Splits(U, e)
    BY <1>2, SplitFacts
  <1>5. WordTaken(B, d, t, r, q, e)
    <2> HIDE DEF B, q
    <2> QED BY <1>3, WordTakenFacts DEF B, q
  <1>6. InlineIs(s, t, c) /\ c \in 1..Len(s) /\ s[c].form = "inline" /\ t <= end /\ n \in Nat
    BY CommandFacts DEF InlineExact, InlineIs
  <1>7. PICK i \in 0..n : InlineThere(s, t, c, i, n, r)
    BY DEF InlineExact
  <1>8. i < n /\ p = ArgEnd(s, c, i) /\ Given(r) = Told(s, c - 1, i)
    BY <1>7 DEF InlineThere
  <1> DEFINE k == i + 1
  <1>9. k \in 1..n /\ k - 1 = i /\ k \in 0..n /\ i \in 0..n /\ i \in Nat
    BY <1>6, <1>8
  <1> HIDE DEF k
  <1>10. InlineArgAt(B, Argument(s, c, k), p, ArgEnd(s, c, k), s[c].args[k], k = n, s[c].gap)
    BY <1>6, <1>8, <1>9, InlineArgFacts
  <1>11. p < end
    <2> DEFINE v == s[c].args[k]
               g == s[c].gap
    <2>0. /\ p \in Nat /\ v \in Nat /\ v > 0 /\ g \in Nat /\ g > 0
          /\ ArgEnd(s, c, k) = p + v + 2 \/ ArgEnd(s, c, k) = p + v + g
      BY <1>10 DEF InlineArgAt
    <2> HIDE DEF v, g, p
    <2>1. ArgEnd(s, c, k) > p
      BY <2>0
    <2>2. ArgEnd(s, c, k) <= end /\ ArgEnd(s, c, k) \in Nat /\ end \in Nat
      BY <1>6, <1>9, PlaceFacts, Zenon DEF Places
    <2> QED BY <1>2, <2>1, <2>2
  <1> HIDE DEF B, U, u, p, e, q, m, n, end
  <1>12. ASSUME Step(B, d, t, r, q, 0, <<>>), q.err \notin {"OK", "complete"}, t < end
         PROVE  InlineExact(s, t, c, q)
    <2>1. Pos(t, q) = Pos(t, r) /\ Given(q) = Given(r)
      BY <1>12, StillFacts DEF B
    <2>2. InlineThere(s, t, c, i, n, q)
      BY <1>8, <1>9, <1>12, <2>1 DEF InlineThere, p, end
    <2> QED BY <1>6, <2>2 DEF InlineExact, n
  <1>13. ASSUME e \in 2..u, Step(B, d, t, r, q, e, <<SubSeq(B, p + 1, p + m)>>),
                q.err = IF B[p + e] = Lf THEN "complete" ELSE "OK"
         PROVE  InlineExact(s, t, c, q)
    <2>1. e \in 1..u /\ e \in Nat
      BY <1>2, <1>13
    <2>2. WordIs(s, c, k, p, e)
      <3>1. p = ArgEnd(s, c, k - 1)
        BY <1>8, <1>9
      <3>2. Reads(Bytes[s], t, r, p, u)
        BY <1>1 DEF B
      <3>3. e = SplitAt(Unread(r)) /\ k \in 1..Len(s[c].args)
        BY <1>9 DEF e, U, n
      <3> QED BY <1>6, <2>1, <3>1, <3>2, <3>3, WordFound
    <2>3. m = s[c].args[k] /\ p + e = ArgEnd(s, c, k) /\ (B[p + e] = Lf <=> k = n)
      BY <2>2 DEF WordIs, m, B, n
    <2> DEFINE a == Argument(s, c, k)
               y == SubSeq(B, p + 1, p + m)
    <2>4. DataOf(a, m)
      BY <1>6, <1>9, <2>3, ArgumentFacts DEF n
    <2>5. y = a
      <3>1. /\ a \in Seq(Byte) /\ Len(a) = m /\ m \in Nat
            /\ \A j \in 1..m : B[p + j] = a[j]
        BY <1>10, <2>3, <2>4 DEF DataOf, InlineArgAt
      <3>2. m <= u
        <4>1. B[p + e] = Lf \/ B[p + e] # Lf
          OBVIOUS
        <4>2. m = e - 1 \/ m = e - 2
          BY DEF m, WordLength
        <4> QED BY <1>2, <2>1, <4>2
      <3>3. B \in Seq(Byte)
        BY DEF View, B
      <3>4. PartOf(B, r, p, m, y)
        BY <1>1, <3>1, <3>2, <3>3, ReadPart
      <3>5. y \in Seq(Byte) /\ Len(y) = m /\ \A j \in 1..m : y[j] = B[p + j]
        BY <3>4 DEF PartOf
      <3> HIDE DEF a, y
      <3>6. Len(y) = Len(a) /\ \A j \in 1..Len(y) : y[j] = a[j]
        BY <3>1, <3>5
      <3> QED BY <3>1, <3>5, <3>6, SameSeq
    <2>6. Pos(t, q) = ArgEnd(s, c, k)
      BY <1>13, <2>3 DEF Step, p
    <2>7. Given(q) = Told(s, c - 1, k)
      <3> DEFINE h == c - 1
      <3>1. h + 1 = c /\ h \in 0..(Len(s) - 1)
        BY <1>6, CommandFacts
      <3> HIDE DEF h
      <3>2. ToldFacts(s, h, i, Len(s[h + 1].args))
        BY <1>9, <3>1, ToldTyped DEF n
      <3>3. Told(s, h, i) \o <<Argument(s, c, k)>> = Told(s, h, k)
        BY <1>8, <3>1, <3>2, Zenon DEF ToldFacts, n, k
      <3>0. y \in Seq(Byte)
        BY <2>4, <2>5, Zenon DEF DataOf
      <3> HIDE DEF y
      <3>4. <<y>> \in Seq(Seq(Byte))
        BY <3>0
      <3>5. Given(q) = Given(r) \o <<y>>
        <4>1. Step(B, d, t, r, q, e, <<y>>) /\ View(B, d, t, r)
          BY <1>13 DEF B, y
        <4> DEFINE new == <<y>>
        <4>2. new \in Seq(Seq(Byte)) /\ Step(B, d, t, r, q, e, new)
          BY <3>4, <4>1
        <4> HIDE DEF new
        <4>3. Given(q) = Given(r) \o new
          BY <4>1, <4>2, GivenMore
        <4> QED BY <4>3 DEF new
      <3> QED BY <1>8, <2>5, <3>3, <3>5 DEF h
    <2>8. InlineThere(s, t, c, k, n, q)
      BY <1>6, <1>9, <1>13, <2>3, <2>6, <2>7 DEF InlineThere
    <2> QED BY <1>6, <1>9, <2>8 DEF InlineExact, n
  <1>14. CASE u = 0 /\ Step(B, d, t, r, q, 0, <<>>) /\ q.err = "OutOfBound"
    <2>1. t < end
      BY <1>2, <1>11, <1>14
    <2> QED BY <1>12, <1>14, <2>1 DEF q
  <1>15. CASE u # 0 /\ e = 0 /\ Step(B, d, t, r, q, 0, <<>>) /\ q.err = "TryAgain"
    <2>1. t # end
      <3> SUFFICES ASSUME t = end PROVE FALSE
        OBVIOUS
      <3>1. B[t] = Lf
        BY <1>6, CommandLines DEF B, end
      <3>2. u \in 1..u /\ U[u] = Lf
        BY <1>2, <1>15, <3>1
      <3> QED BY <1>2, <1>4, <1>15, <3>2 DEF Splits
    <2>2. t < end
      <3>1. end \in Nat /\ t \in Nat
        <4>1. end \in 1..Len(Bytes[s])
          BY <1>6, CommandLines DEF end
        <4> QED BY <1>2, <4>1
      <3> QED BY <1>6, <2>1, <3>1
    <2> QED BY <1>12, <1>15, <2>2 DEF q
  <1> QED BY <1>2, <1>5, <1>13, <1>14, <1>15 DEF WordTaken, m, p, U, u, q

\* The parser of r is in inline command c, or takes what is there for one.
InlineAt(w, s, d, t, c, r) ==
  /\ View(Bytes[s], d, t, r) /\ Edge(s, Pos(t, r))
  /\ "data" \in w => Total(Bytes[s], Pos(t, r), Given(r))
  /\ "exact" \in w => InlineExact(s, t, c, r)

WordGot(w, s, d, t, c, r, q) ==
  /\ InlineAt(w, s, d, t, c, q) /\ SameRun(r, q) /\ q.parser = r.parser
  /\ q.err = "OK" => Len(Unread(q)) < Len(Unread(r))

LEMMA WordGotFacts ==
  ASSUME NEW w, NEW s \in Streams, Regular(s), NEW d \in Blocks, NEW t, NEW c, NEW r,
         InlineAt(w, s, d, t, c, r), r.err = "OK"
  PROVE  WordGot(w, s, d, t, c, r, NextWord(r))
  <1>1. View(Bytes[s], d, t, r) /\ Edge(s, Pos(t, r))
    BY DEF InlineAt
  <1>2. WordKept(s, d, t, r, NextWord(r))
    BY <1>1, WordKeptFacts
  <1>3. "exact" \in w => InlineExact(s, t, c, NextWord(r))
    BY <1>1, WordExact DEF InlineAt
  <1> DEFINE q == NextWord(r)
  <1> HIDE DEF q
  <1>4. WordKept(s, d, t, r, q) /\ ("exact" \in w => InlineExact(s, t, c, q))
    BY <1>2, <1>3 DEF q
  <1>5. "data" \in w => Total(Bytes[s], Pos(t, q), Given(q))
    BY <1>4 DEF InlineAt, WordKept, TotalKept
  <1>6. WordGot(w, s, d, t, c, r, q)
    BY <1>4, <1>5 DEF WordGot, InlineAt, WordKept
  <1> QED BY <1>6 DEF q

WordsDone(w, s, d, t, c, r, q) ==
  InlineAt(w, s, d, t, c, q) /\ SameRun(r, q) /\ q.parser = r.parser /\ q.err # "OK"

LEMMA WordsDoneFacts ==
  ASSUME NEW w, NEW s \in Streams, Regular(s), NEW d \in Blocks, NEW t, NEW c, NEW r,
         InlineAt(w, s, d, t, c, r), r.err = "OK"
  PROVE  WordsDone(w, s, d, t, c, r, Words(r))
  <1> DEFINE l == Len(Unread(r))
             n == l + 1
             Good(k, q) == /\ InlineAt(w, s, d, t, c, q) /\ SameRun(r, q)
                           /\ q.parser = r.parser
                           /\ q.err = "OK" => Len(Unread(q)) + k <= l
             W == {x \in (0..n) \X Parse : Good(x[1], x[2])}
  <1>1. Sane(d, r) /\ r \in Parse
    BY DEF InlineAt, View, Sane
  <1>2. l \in Nat /\ n \in Nat
    BY <1>1, UnreadFacts
  <1>a. n = Len(Unread(r)) + 1 /\ n = l + 1
    OBVIOUS
  <1> HIDE DEF n
  <1>3. PICK f : /\ Words(r) = f[n] /\ f[0] = r
                 /\ \A k \in 1..n : f[k] = NextWord(f[k - 1])
    BY <1>1, <1>a, WordsTurns
  <1>4. \A q : InlineAt(w, s, d, t, c, q) => q \in Parse /\ Len(Unread(q)) \in Nat
    <2> SUFFICES ASSUME NEW q, InlineAt(w, s, d, t, c, q)
                 PROVE  q \in Parse /\ Len(Unread(q)) \in Nat
      OBVIOUS
    <2>1. Sane(d, q)
      BY DEF InlineAt, View
    <2> QED BY <2>1, UnreadFacts DEF Sane
  <1>5. Good(0, r)
    <2>1. SameRun(r, r)
      BY DEF SameRun
    <2> QED BY <1>2, <2>1
  <1> HIDE DEF l
  <1>6. <<0, f[0]>> \in W
    BY <1>1, <1>2, <1>3, <1>5
  <1>7. ASSUME NEW k \in 1..n, <<k - 1, f[k - 1]>> \in W PROVE <<k, f[k]>> \in W
    <2> DEFINE q == f[k - 1]
               x == NextWord(q)
    <2>1. q \in Parse /\ InlineAt(w, s, d, t, c, q) /\ SameRun(r, q) /\ q.parser = r.parser
          /\ (q.err = "OK" => Len(Unread(q)) + (k - 1) <= l)
      BY <1>7
    <2>2. f[k] = x
      BY <1>3
    <2> HIDE DEF q
    <2>3. Good(k, x)
      <3>1. CASE q.err # "OK"
        <4>1. x = q
          BY <3>1 DEF NextWord
        <4> QED BY <2>1, <3>1, <4>1
      <3>2. CASE q.err = "OK"
        <4>1. WordGot(w, s, d, t, c, q, x)
          BY <2>1, <3>2, WordGotFacts
        <4> HIDE DEF x
        <4>2. InlineAt(w, s, d, t, c, x) /\ SameRun(q, x) /\ x.parser = q.parser
              /\ (x.err = "OK" => Len(Unread(x)) < Len(Unread(q)))
          BY <4>1 DEF WordGot
        <4>3. SameRun(r, x)
          BY <2>1, <4>2 DEF SameRun
        <4>4. x.err = "OK" => Len(Unread(x)) + k <= l
          <5> DEFINE i == Len(Unread(x))
                     j == Len(Unread(q))
          <5>1. i \in Nat /\ j \in Nat
            BY <1>4, <2>1, <4>2
          <5>2. x.err = "OK" => i < j
            BY <4>2
          <5>3. j + (k - 1) <= l
            BY <2>1, <3>2
          <5> HIDE DEF i, j
          <5>4. x.err = "OK" => i + k <= l
            BY <1>2, <5>1, <5>2, <5>3
          <5> QED BY <5>4 DEF i
        <4> QED BY <2>1, <4>2, <4>3, <4>4
      <3> QED BY <3>1, <3>2
    <2> HIDE DEF x, Good
    <2>4. f[k] \in Parse /\ k \in 0..n
      BY <1>2, <1>4, <2>2, <2>3 DEF Good
    <2> QED BY <2>2, <2>3, <2>4
  <1> HIDE DEF W
  <1>8. <<n, f[n]>> \in W
    BY <1>2, <1>6, <1>7, StepInvariance
  <1> DEFINE z == Words(r)
  <1> HIDE DEF z
  <1>9. Good(n, z)
    BY <1>3, <1>8 DEF W, z
  <1>10. z.err # "OK"
    <2> SUFFICES ASSUME z.err = "OK" PROVE FALSE
      OBVIOUS
    <2> DEFINE i == Len(Unread(z))
    <2>1. i \in Nat /\ i + n <= l
      BY <1>4, <1>9
    <2> HIDE DEF i
    <2> QED BY <1>2, <1>a, <2>1
  <1> QED BY <1>9, <1>10 DEF WordsDone, z

\* What a step that reads nothing leaves as it is.
Keeps(B, d, t, r, q) ==
  /\ View(B, d, t, q) /\ Pos(t, q) = Pos(t, r) /\ Given(q) = Given(r) /\ SameRun(r, q)
  /\ TotalKept(B, t, r, q)

LEMMA TypedFacts ==
  ASSUME NEW B, NEW d, NEW t, NEW r, View(B, d, t, r), NEW type \in {"multibulk", "inline"},
         NEW q, q = Typed(r, type)
  PROVE  /\ Keeps(B, d, t, r, q) /\ q.err = r.err /\ Unread(q) = Unread(r)
         /\ q.parser.type = IF r.parser.type = "none" THEN type ELSE r.parser.type
         /\ q.parser.mlen = r.parser.mlen /\ q.parser.mindex = r.parser.mindex
         /\ q.parser.blen = r.parser.blen
  <1> DEFINE p == [r.parser EXCEPT !.type = IF r.parser.type = "none" THEN type
                                            ELSE r.parser.type]
  <1>1. Sane(d, r) /\ r \in Parse /\ r.parser \in Fields /\ r.at \in Nat
        /\ r.at <= Size(r.input)
    BY ParseFields DEF View, Sane
  <1>2. q = [r EXCEPT !.parser = p]
    BY <1>1 DEF Typed, Parse
  <1>3. /\ p \in Fields /\ p.mlen = r.parser.mlen /\ p.mindex = r.parser.mindex
        /\ p.blen = r.parser.blen
        /\ p.type = IF r.parser.type = "none" THEN type ELSE r.parser.type
    BY <1>1 DEF Fields
  <1> HIDE DEF p
  <1>4. /\ q \in Parse /\ q.parser = p /\ q.err = r.err
        /\ q.heap = r.heap /\ q.input = r.input /\ q.argv = r.argv /\ q.pushed = r.pushed
        /\ q.room = r.room /\ q.stop = r.stop /\ q.at = r.at
    BY <1>1, <1>2, <1>3, Zenon DEF Parse
  <1>5. q.at = r.at + 0
    BY <1>1, <1>4
  <1>6. Sane(d, q)
    BY <1>1, <1>4, SameBytes
  <1>7. Step(B, d, t, r, q, 0, <<>>)
    BY <1>4, <1>5, <1>6, Skips
  <1>8. Unread(q) = Unread(r)
    BY <1>4 DEF Unread
  <1> QED BY <1>3, <1>4, <1>7, <1>8, StillFacts DEF Keeps

LEMMA ConsumedFacts ==
  ASSUME NEW B, NEW d, NEW t, NEW r, View(B, d, t, r), NEW q, q = Consumed(r)
  PROVE  Keeps(B, d, t, r, q) /\ q.parser = r.parser /\ q.err = r.err /\ q.at = 0
  <1>1. Step(B, d, t, r, q, 0, <<>>) /\ q.parser = r.parser /\ q.err = r.err
    BY Consumes
  <1>2. q.at = 0
    <2>1. r \in Parse
      BY DEF View, Sane
    <2> QED BY <2>1 DEF Consumed, Parse
  <1> QED BY <1>1, <1>2, StillFacts DEF Keeps

\* Nothing changes in where a parse stands when it reads nothing.
LEMMA MultiKept ==
  ASSUME NEW w, NEW s, NEW d, NEW t, NEW c, NEW r, MultiAt(w, s, d, t, c, r), NEW q,
         Keeps(Bytes[s], d, t, r, q), q.parser = r.parser
  PROVE  MultiAt(w, s, d, t, c, q)
  <1>1. Tells(w, s, t, q, c - 1, r.parser.mindex)
    BY TellsKept DEF Keeps, MultiAt
  <1> QED BY <1>1 DEF Keeps, MultiAt

LEMMA BlankKept ==
  ASSUME NEW w, NEW s, NEW d, NEW t, NEW h, NEW r, BlankAt(w, s, d, t, h, r), NEW q,
         Keeps(Bytes[s], d, t, r, q), Blank(q.parser)
  PROVE  BlankAt(w, s, d, t, h, q)
  <1>1. Tells(w, s, t, q, h, 0)
    BY TellsKept DEF Keeps, BlankAt
  <1> QED BY <1>1 DEF Keeps, BlankAt

LEMMA DoneKept ==
  ASSUME NEW w, NEW s, NEW d, NEW t, NEW c, NEW r, NEW q, MultiDone(w, s, d, t, c, r, q),
         NEW x, Keeps(Bytes[s], d, t, q, x), x.parser = q.parser, x.err = q.err
  PROVE  MultiDone(w, s, d, t, c, r, x)
  <1>1. SameRun(r, x) /\ x.parser.type = "multibulk" /\ c \in 1..Len(s)
    BY DEF MultiDone, Keeps, SameRun
  <1>2. MultiAt(w, s, d, t, c, q) => MultiAt(w, s, d, t, c, x)
    BY MultiKept
  <1>3. ASSUME NEW h, BlankAt(w, s, d, t, h, q) PROVE BlankAt(w, s, d, t, h, x)
    BY <1>3, BlankKept, Zenon DEF BlankAt
  <1>4. Missing(s, t, c, q) => Missing(s, t, c, x)
    BY DEF Missing, Stalls, Finished
  <1>5. MultiWhole(w, s, d, t, c, q) => MultiWhole(w, s, d, t, c, x)
    BY <1>2, <1>3 DEF MultiWhole
  <1>6. MultiPart(w, s, d, t, c, q) => MultiPart(w, s, d, t, c, x)
    BY <1>2, <1>3, <1>4 DEF MultiPart
  <1> QED BY <1>1, <1>5, <1>6 DEF MultiDone

--------------------------------------------------------------------------------
(* An inline request to its end, and ParseRequest. *)

\* The bytes up to the next line's end are parsed as an inline request.
InlineWhole(s, t, c, q) ==
  q.err = "OK" /\ Pos(t, q) = CommandEnd[s][c] /\ Given(q) = Told(s, c - 1, Len(s[c].args))

InlinePartly(s, t, c, q) ==
  /\ q.err # "OK" /\ t < CommandEnd[s][c]
  /\ \E i \in 0..(Len(s[c].args) - 1) :
        Pos(t, q) = ArgEnd(s, c, i) /\ Given(q) = Told(s, c - 1, i)

InlineDone(w, s, d, t, c, r, q) ==
  /\ View(Bytes[s], d, t, q) /\ Edge(s, Pos(t, q)) /\ SameRun(r, q) /\ q.parser = r.parser
  /\ "data" \in w => Total(Bytes[s], Pos(t, q), Given(q))
  /\ "exact" \in w => InlineWhole(s, t, c, q) \/ InlinePartly(s, t, c, q)

LEMMA InlineDoneFacts ==
  ASSUME NEW w, NEW s \in Streams, Regular(s), NEW d \in Blocks, NEW t, NEW c, NEW r,
         InlineAt(w, s, d, t, c, r), r.err = "OK"
  PROVE  InlineDone(w, s, d, t, c, r, InlineRequest(r))
  <1> DEFINE x == Words(r)
             e == IF x.err = "complete" THEN "OK" ELSE x.err
             q == InlineRequest(r)
  <1>1. WordsDone(w, s, d, t, c, r, x)
    BY WordsDoneFacts
  <1> HIDE DEF x
  <1>2. InlineAt(w, s, d, t, c, x) /\ SameRun(r, x) /\ x.parser = r.parser /\ x.err # "OK"
    BY <1>1 DEF WordsDone
  <1>3. View(Bytes[s], d, t, x) /\ x \in Parse /\ x.err \in Errors
    BY <1>2, ParseFields DEF InlineAt, View, Sane
  <1>4. e \in Errors
    BY <1>3 DEF Errors
  <1>5. q = [x EXCEPT !.err = e]
    BY DEF InlineRequest, x
  <1> HIDE DEF q, e
  <1>6. Step(Bytes[s], d, t, x, q, 0, <<>>) /\ q.err = e /\ q.parser = x.parser
    BY <1>3, <1>4, <1>5, ErrStep
  <1>7. Keeps(Bytes[s], d, t, x, q)
    BY <1>3, <1>6, StillFacts DEF Keeps
  <1>8. "exact" \in w => InlineWhole(s, t, c, q) \/ InlinePartly(s, t, c, q)
    <2> SUFFICES ASSUME "exact" \in w
                 PROVE  InlineWhole(s, t, c, q) \/ InlinePartly(s, t, c, q)
      OBVIOUS
    <2> DEFINE n == Len(s[c].args)
    <2>1. InlineIs(s, t, c) /\ \E i \in 0..n : InlineThere(s, t, c, i, n, x)
      BY <1>2 DEF InlineAt, InlineExact
    <2>2. n \in Nat /\ c \in 1..Len(s)
      BY <2>1, CommandFacts DEF InlineIs
    <2>3. PICK i \in 0..n : InlineThere(s, t, c, i, n, x)
      BY <2>1
    <2>4. ArgEnd(s, c, n) = CommandEnd[s][c]
      BY <2>2, PlaceFacts DEF Places
    <2> HIDE DEF n
    <2>5. Pos(t, q) = ArgEnd(s, c, i) /\ Given(q) = Told(s, c - 1, i)
      BY <1>7, <2>3 DEF InlineThere, Keeps
    <2>6. CASE x.err = "complete"
      <3>1. i = n /\ q.err = "OK"
        BY <1>6, <2>3, <2>6 DEF InlineThere, e
      <3> QED BY <2>4, <2>5, <3>1 DEF InlineWhole, n
    <2>7. CASE x.err # "complete"
      <3>1. i < n /\ t < CommandEnd[s][c] /\ q.err # "OK"
        BY <1>2, <1>6, <2>3, <2>7 DEF InlineThere, e
      <3>2. i \in 0..(n - 1)
        BY <2>2, <3>1
      <3> QED BY <2>5, <3>1, <3>2 DEF InlinePartly, n
    <2> QED BY <2>6, <2>7
  <1>9. InlineDone(w, s, d, t, c, r, q)
    <2>1. /\ View(Bytes[s], d, t, q) /\ Edge(s, Pos(t, q)) /\ SameRun(r, q)
          /\ q.parser = r.parser
      BY <1>2, <1>6, <1>7 DEF Keeps, InlineAt, SameRun
    <2>2. "data" \in w => Total(Bytes[s], Pos(t, q), Given(q))
      BY <1>2, <1>7 DEF Keeps, InlineAt, TotalKept
    <2> QED BY <1>8, <2>1, <2>2 DEF InlineDone
  <1> QED BY <1>9 DEF q

LEMMA InlineDoneKept ==
  ASSUME NEW w, NEW s, NEW d, NEW t, NEW c, NEW r, NEW q, InlineDone(w, s, d, t, c, r, q),
         NEW x, Keeps(Bytes[s], d, t, q, x), x.parser = q.parser, x.err = q.err
  PROVE  InlineDone(w, s, d, t, c, r, x)
  <1>1. /\ View(Bytes[s], d, t, x) /\ Edge(s, Pos(t, x)) /\ SameRun(r, x)
        /\ x.parser = r.parser
    BY DEF Keeps, InlineDone, SameRun
  <1>2. "data" \in w => Total(Bytes[s], Pos(t, x), Given(x))
    BY DEF Keeps, InlineDone, TotalKept
  <1>3. InlineWhole(s, t, c, q) => InlineWhole(s, t, c, x)
    BY DEF InlineWhole, Keeps
  <1>4. InlinePartly(s, t, c, q) => InlinePartly(s, t, c, x)
    BY DEF InlinePartly, Keeps
  <1> QED BY <1>1, <1>2, <1>3, <1>4 DEF InlineDone

\* A request that ended at its type: the steps between Typed and Consumed.
LEMMA MultiParsed ==
  ASSUME NEW w, NEW s \in Streams, NEW d \in Blocks, NEW t, NEW c, NEW r,
         r.parser.type = "multibulk",
         \/ MultiAt(w, s, d, t, c, r) /\ r.err = "OK"
         \/ BlankAt(w, s, d, t, c - 1, r) /\ Unread(r) # <<>> /\ c \in Int,
         NEW q, q = RequestParsed(r)
  PROVE  MultiDone(w, s, d, t, c, r, q) /\ q.at = 0
  <1> DEFINE x == MultibulkRequest(r)
  <1>1. MultiDone(w, s, d, t, c, r, x)
    <2>1. CASE MultiAt(w, s, d, t, c, r) /\ r.err = "OK"
      BY <2>1, MultiContinues
    <2>2. CASE BlankAt(w, s, d, t, c - 1, r) /\ Unread(r) # <<>> /\ c \in Int
      <3> DEFINE h == c - 1
      <3>1. BlankAt(w, s, d, t, h, r) /\ Unread(r) # <<>> /\ h + 1 = c
        BY <2>2
      <3> HIDE DEF h
      <3>2. MultiDone(w, s, d, t, h + 1, r, MultibulkRequest(r))
        BY <3>1, MultiBegins
      <3> QED BY <3>1, <3>2
    <2> QED BY <2>1, <2>2
  <1>2. q = Consumed(x)
    BY DEF RequestParsed
  <1> HIDE DEF x
  <1>3. View(Bytes[s], d, t, x)
    BY <1>1 DEF MultiDone, MultiWhole, MultiPart, MultiAt, BlankAt
  <1>4. Keeps(Bytes[s], d, t, x, q) /\ q.parser = x.parser /\ q.err = x.err /\ q.at = 0
    BY <1>2, <1>3, ConsumedFacts
  <1> QED BY <1>1, <1>4, DoneKept

LEMMA InlineParsed ==
  ASSUME NEW w, NEW s \in Streams, Regular(s), NEW d \in Blocks, NEW t, NEW c, NEW r,
         r.parser.type # "multibulk", InlineAt(w, s, d, t, c, r), r.err = "OK",
         NEW q, q = RequestParsed(r)
  PROVE  InlineDone(w, s, d, t, c, r, q) /\ q.at = 0
  <1> DEFINE x == InlineRequest(r)
  <1>1. InlineDone(w, s, d, t, c, r, x)
    BY InlineDoneFacts
  <1>2. q = Consumed(x)
    BY DEF RequestParsed
  <1> HIDE DEF x
  <1>3. View(Bytes[s], d, t, x)
    BY <1>1 DEF InlineDone
  <1>4. Keeps(Bytes[s], d, t, x, q) /\ q.parser = x.parser /\ q.err = x.err /\ q.at = 0
    BY <1>2, <1>3, ConsumedFacts
  <1> QED BY <1>1, <1>4, InlineDoneKept

--------------------------------------------------------------------------------
(* Where the parser stands between requests, whatever it took them for. *)

\* Where the parser ps can be, at position p, whatever the client sent and however it
\* came: behind a line or a word if it waits for a request or a word, in a multibulk
\* command or at its end otherwise.
Stands(s, p, ps) ==
  \/ ps.type # "multibulk" /\ Blank(ps) /\ Edge(s, p)
  \/ ps.type = "multibulk" /\ Blank(ps) /\ \E h \in 0..Len(s) : p = CommandEnd[s][h]
  \/ \E c \in 1..Len(s) : AtArg(s, p, c, ps)

Standing(s, d, t, r) ==
  /\ View(Bytes[s], d, t, r) /\ Stands(s, Pos(t, r), r.parser)
  /\ Total(Bytes[s], Pos(t, r), Given(r))

LEMMA EndEdge ==
  ASSUME NEW s \in Streams, NEW h \in 0..Len(s)
  PROVE  Edge(s, CommandEnd[s][h])
  <1>1. CASE h = 0
    <2>1. CommandEnd[s][0] = 0
      BY StreamInOrder DEF InOrder
    <2> QED BY <1>1, <2>1 DEF Edge
  <1>2. CASE h # 0
    <2>1. h \in 1..Len(s)
      BY <1>2, CommandFacts
    <2> QED BY <2>1, CommandLines DEF Edge
  <1> QED BY <1>1, <1>2

LEMMA StandsEdge ==
  ASSUME NEW s \in Streams, NEW p, NEW ps, Stands(s, p, ps)
  PROVE  Edge(s, p)
  <1>1. CASE ps.type # "multibulk" /\ Blank(ps) /\ Edge(s, p)
    BY <1>1
  <1>2. ASSUME NEW h \in 0..Len(s), p = CommandEnd[s][h] PROVE Edge(s, p)
    BY <1>2, EndEdge
  <1>3. ASSUME NEW c \in 1..Len(s), AtArg(s, p, c, ps) PROVE Edge(s, p)
    <2> DEFINE m == ps.mindex
               n == Len(s[c].args)
    <2>1. /\ s[c].form = "multibulk" /\ m \in 0..n /\ n \in Nat
          /\ p = ArgEnd(s, c, m) \/ (m < n /\ p = ArgEnd(s, c, m) + 2)
      BY <1>3, CommandFacts DEF AtArg
    <2> HIDE DEF m
    <2>2. CASE p = ArgEnd(s, c, m)
      BY <2>1, <2>2, MultiLines, Zenon DEF Edge
    <2>3. CASE m < n /\ p = ArgEnd(s, c, m) + 2
      <3> DEFINE i == m + 1
      <3>1. i \in 1..n /\ i - 1 = m
        BY <2>1, <2>3
      <3> HIDE DEF i
      <3>2. Bytes[s][ArgEnd(s, c, i - 1) + 2] = Lf
        BY <2>1, <3>1, MultiArgFacts DEF MultiArgAt
      <3> QED BY <2>3, <3>1, <3>2 DEF Edge
    <2> QED BY <2>1, <2>2, <2>3
  <1> QED BY <1>1, <1>2, <1>3 DEF Stands

LEMMA NewStands ==
  ASSUME NEW s, NEW p, Edge(s, p)
  PROVE  Stands(s, p, NewParser)
  BY DEF Stands, NewParser, Blank

LEMMA MultiStands ==
  ASSUME NEW s, NEW d, NEW t, NEW c, NEW r, NEW q, MultiDone({"data"}, s, d, t, c, r, q)
  PROVE  Standing(s, d, t, q) /\ SameRun(r, q)
  <1>1. SameRun(r, q) /\ q.parser.type = "multibulk"
    BY DEF MultiDone
  <1>2. ASSUME MultiAt({"data"}, s, d, t, c, q) PROVE Standing(s, d, t, q)
    BY <1>2 DEF MultiAt, Standing, Stands, AtArg, Tells
  <1>3. ASSUME NEW h, BlankAt({"data"}, s, d, t, h, q) PROVE Standing(s, d, t, q)
    <2>1. h \in 0..Len(s) /\ View(Bytes[s], d, t, q) /\ Blank(q.parser)
          /\ Pos(t, q) = CommandEnd[s][h] /\ Total(Bytes[s], Pos(t, q), Given(q))
      BY <1>3 DEF BlankAt, Tells
    <2> QED BY <1>1, <2>1 DEF Standing, Stands
  <1> QED BY <1>1, <1>2, <1>3 DEF MultiDone, MultiWhole, MultiPart

LEMMA ParseStands ==
  ASSUME NEW s \in Streams, Regular(s), NEW d \in Blocks, NEW t, NEW r, Standing(s, d, t, r),
         r.err = "OK", Unread(r) # <<>>, NEW q, q = ParseRequest(r)
  PROVE  Standing(s, d, t, q) /\ SameRun(r, q) /\ q.at = 0
  <1> DEFINE B == Bytes[s]
             first == Unread(r)[1]
             type == RequestType(first)
             x == Typed(r, type)
  <1>1. View(B, d, t, r) /\ Stands(s, Pos(t, r), r.parser) /\ Total(B, Pos(t, r), Given(r))
    BY DEF Standing
  <1>2. type \in {"multibulk", "inline"} /\ (type = "multibulk" => first[1] = "*")
    BY DEF RequestType
  <1>3. q = RequestParsed(x)
    BY DEF ParseRequest
  <1> HIDE DEF B, type
  <1>4. /\ Keeps(B, d, t, r, x) /\ x.err = r.err /\ Unread(x) = Unread(r)
        /\ x.parser.type = IF r.parser.type = "none" THEN type ELSE r.parser.type
        /\ x.parser.mlen = r.parser.mlen /\ x.parser.mindex = r.parser.mindex
        /\ x.parser.blen = r.parser.blen
    BY <1>1, <1>2, TypedFacts
  <1> HIDE DEF x
  <1>5. View(B, d, t, x) /\ Pos(t, x) = Pos(t, r) /\ Total(B, Pos(t, x), Given(x))
        /\ SameRun(r, x)
    BY <1>1, <1>4 DEF Keeps
  <1>6. SUFFICES Standing(s, d, t, q) /\ SameRun(x, q) /\ q.at = 0
    BY <1>5 DEF SameRun
  <1>7. CASE x.parser.type = "multibulk" /\ \E c \in 1..Len(s) : AtArg(s, Pos(t, r), c, r.parser)
    <2>1. PICK c \in 1..Len(s) : AtArg(s, Pos(t, r), c, r.parser)
      BY <1>7
    <2>2. AtArg(s, Pos(t, x), c, x.parser)
      BY <1>4, <1>5, <1>7, <2>1 DEF AtArg
    <2>3. MultiAt({"data"}, s, d, t, c, x) /\ x.err = "OK"
      BY <1>4, <1>5, <2>2 DEF MultiAt, Tells, B
    <2>4. MultiDone({"data"}, s, d, t, c, x, q) /\ q.at = 0
      BY <1>3, <1>7, <2>3, MultiParsed
    <2> QED BY <2>4, MultiStands
  <1>8. CASE x.parser.type = "multibulk" /\ ~\E c \in 1..Len(s) : AtArg(s, Pos(t, r), c, r.parser)
    <2>1. Blank(r.parser) /\ \E h \in 0..Len(s) : Pos(t, r) = CommandEnd[s][h]
      <3>1. CASE r.parser.type = "multibulk"
        BY <1>1, <1>8, <3>1 DEF Stands
      <3>2. CASE r.parser.type # "multibulk"
        <4>1. r.parser.type = "none" /\ type = "multibulk" /\ Blank(r.parser)
          BY <1>1, <1>4, <1>8, <3>2 DEF Stands
        <4> DEFINE p == Pos(t, r)
                   y == p + 1
                   n == Len(Unread(r))
        <4>2. Reads(B, t, r, p, n)
          BY <1>1, ViewFacts
        <4>3. /\ p \in Nat /\ n \in Nat /\ p + n = t /\ t <= Len(B) /\ Len(B) \in Nat
              /\ Unread(r) \in Seq(Byte) /\ \A i \in 1..n : Unread(r)[i] = B[p + i]
          BY <4>2 DEF Reads
        <4>4. n # 0
          <5>1. Unread(r) \in Seq(Byte) /\ Unread(r) # <<>>
            BY <4>3
          <5> QED BY <5>1
        <4> HIDE DEF p, n
        <4>5. 1 \in 1..n /\ y \in 1..Len(B) /\ B[y] = first
          BY <4>3, <4>4
        <4>6. Says(s, B, y)
          <5> HIDE DEF y
          <5> QED BY <4>5, BytesSay DEF B
        <4>7. PICK h \in 0..(Len(s) - 1) : y = CommandEnd[s][h] + 1
          BY <1>2, <4>1, <4>5, <4>6 DEF Says
        <4>8. h \in 0..Len(s) /\ CommandEnd[s][h] \in Nat
          BY CommandFacts, StreamInOrder DEF InOrder
        <4>9. p = CommandEnd[s][h]
          BY <4>3, <4>7, <4>8
        <4> QED BY <4>1, <4>8, <4>9 DEF p
      <3> QED BY <3>1, <3>2
    <2>2. PICK h \in 0..Len(s) : Pos(t, r) = CommandEnd[s][h]
      BY <2>1
    <2>3. BlankAt({"data"}, s, d, t, h, x) /\ Unread(x) # <<>>
      BY <1>4, <1>5, <2>1, <2>2 DEF BlankAt, Tells, Blank, B
    <2> DEFINE c == h + 1
    <2>4. h = c - 1 /\ c \in Int
      BY CommandFacts
    <2> HIDE DEF c
    <2>a. BlankAt({"data"}, s, d, t, c - 1, x)
      BY <2>3, <2>4
    <2>5. MultiDone({"data"}, s, d, t, c, x, q) /\ q.at = 0
      <3> DEFINE w == {"data"}
      <3>1. /\ BlankAt(w, s, d, t, c - 1, x) /\ Unread(x) # <<>> /\ c \in Int
            /\ x.parser.type = "multibulk"
        BY <1>8, <2>3, <2>4, <2>a
      <3> HIDE DEF w
      <3>2. MultiDone(w, s, d, t, c, x, q) /\ q.at = 0
        BY <1>3, <3>1, MultiParsed, Zenon
      <3> QED BY <3>2 DEF w
    <2> QED BY <2>5, MultiStands
  <1>9. CASE x.parser.type # "multibulk"
    <2>1. Blank(x.parser) /\ Edge(s, Pos(t, x))
      <3>1. r.parser.type # "multibulk"
        BY <1>4, <1>9
      <3>2. ~\E c \in 1..Len(s) : AtArg(s, Pos(t, r), c, r.parser)
        BY <3>1 DEF AtArg
      <3> QED BY <1>1, <1>4, <1>5, <3>1, <3>2 DEF Stands, Blank
    <2>2. InlineAt({"data"}, s, d, t, 0, x) /\ x.err = "OK"
      BY <1>4, <1>5, <2>1 DEF InlineAt, B
    <2>3. InlineDone({"data"}, s, d, t, 0, x, q) /\ q.at = 0
      BY <1>3, <1>9, <2>2, InlineParsed
    <2> QED BY <1>9, <2>1, <2>3 DEF InlineDone, Standing, Stands
  <1> QED BY <1>7, <1>8, <1>9

\* A request that is pushed was shown before.
LEMMA PushGiven ==
  ASSUME NEW B, NEW d \in Blocks, NEW t, NEW r, View(B, d, t, r), NEW q, q = Push(r)
  PROVE  Pushes(B, d, t, r, q) /\ Given(q) = Given(r) /\ q.at = r.at
  <1>1. Pushes(B, d, t, r, q)
    BY PushFacts
  <1>2. Sane(d, r) /\ r \in Parse
    BY DEF View, Sane
  <1>3. q.at = r.at
    BY <1>2 DEF Push, Parse
  <1> DEFINE x == r.pushed
             e == Shown(r)
  <1>4. x \in Seq(Seq(Seq(Byte))) /\ e \in Seq(Seq(Byte)) /\ FlattenSeq(x) \in Seq(Seq(Byte))
    BY <1>2, ParseFields, GivenTyped
  <1>5. Given(q) = Given(r)
    <2>1. CASE Shown(q) = e /\ q.pushed = x
      BY <2>1 DEF Given
    <2>2. CASE Shown(q) = <<>> /\ q.pushed = Append(x, e)
      <3> DEFINE S == Seq(Byte)
      <3>1. x \in Seq(Seq(S)) /\ e \in Seq(S) /\ FlattenSeq(x) \in Seq(S)
        BY <1>4
      <3> HIDE DEF S, x, e
      <3>2. FlattensMore(S, x, e)
        BY <3>1, FlatMore
      <3> DEFINE y == FlattenSeq(x)
                 z == FlattenSeq(Append(x, e))
      <3>3. z = y \o e /\ y \in Seq(S)
        BY <3>1, <3>2 DEF FlattensMore
      <3> HIDE DEF y, z
      <3>4. z \o <<>> = y \o e
        BY <3>1, <3>3
      <3> QED BY <2>2, <3>4 DEF Given, x, e, y, z
    <2> QED BY <1>1, <2>1, <2>2 DEF Pushes
  <1> QED BY <1>1, <1>3, <1>5

\* What follows a parse moves nothing.
AfterIs(B, d, t, p, q) ==
  /\ View(B, d, t, q) /\ Pos(t, q) = Pos(t, p) /\ Given(q) = Given(p) /\ q.at = p.at
  /\ q.err = "OK"
  /\ \/ /\ p.err # "OK" /\ q.stop = p.err /\ q.parser = p.parser
        /\ q.pushed = p.pushed
     \/ /\ p.err = "OK" /\ q.stop = "refused" /\ q.parser = p.parser
        /\ q.pushed = p.pushed /\ p.room = 0
     \/ /\ p.err = "OK" /\ q.stop = p.stop /\ q.stop # "refused" /\ q.parser = NewParser
        /\ q.argv = <<>> /\ q.pushed = Append(p.pushed, Shown(p))
        /\ p.room # 0 /\ q.room = p.room - 1

LEMMA AfterParseFacts ==
  ASSUME NEW B, NEW d \in Blocks, NEW t, NEW p, View(B, d, t, p), p.stop = "no",
         NEW q, q = AfterParse(p)
  PROVE  AfterIs(B, d, t, p, q)
  <1>1. Sane(d, p) /\ p \in Parse /\ p.err \in Errors /\ p.at \in Nat /\ p.at <= Size(p.input)
    BY ParseFields DEF View, Sane
  <1>2. CASE p.err # "OK"
    <2>1. q = [p EXCEPT !.stop = p.err, !.err = "OK"]
      BY <1>2 DEF AfterParse
    <2>2. /\ q.heap = p.heap /\ q.input = p.input /\ q.argv = p.argv /\ q.at = p.at
          /\ q.pushed = p.pushed /\ q.parser = p.parser /\ q.err = "OK" /\ q.stop = p.err
          /\ q \in Parse
      BY <1>1, <2>1, Zenon DEF Parse, Errors
    <2>3. Sane(d, q)
      BY <1>1, <2>2, SameBytes
    <2>4. Shown(q) = Shown(p) /\ Unread(q) = Unread(p)
      BY <2>2 DEF Shown, Unread
    <2>5. View(B, d, t, q) /\ Pos(t, q) = Pos(t, p) /\ Given(q) = Given(p)
      BY <2>2, <2>3, <2>4 DEF View, Pos, Given
    <2> QED BY <1>2, <2>2, <2>5 DEF AfterIs
  <1>3. CASE p.err = "OK"
    <2> DEFINE x == Push(p)
               y == [x EXCEPT !.parser = NewParser]
    <2>1. q = IF x.stop = "refused" THEN x ELSE y
      BY <1>3 DEF AfterParse, Settled
    <2>2. Pushes(B, d, t, p, x) /\ Given(x) = Given(p) /\ x.at = p.at
      BY PushGiven
    <2> HIDE DEF x
    <2>3. View(B, d, t, x) /\ Pos(t, x) = Pos(t, p) /\ x.parser = p.parser /\ x.err = "OK"
      BY <1>3, <2>2 DEF Pushes
    <2>4. CASE x.stop = "refused"
      BY <1>3, <2>1, <2>2, <2>3, <2>4 DEF AfterIs, Pushes
    <2>5. CASE x.stop # "refused"
      <3>1. Sane(d, x) /\ x \in Parse /\ x.at \in Nat /\ x.at <= Size(x.input)
        BY <2>3, ParseFields DEF View, Sane
      <3>2. NewParser \in Fields
        BY DEF NewParser, Fields
      <3>3. /\ y.heap = x.heap /\ y.input = x.input /\ y.argv = x.argv /\ y.at = x.at
            /\ y.room = x.room /\ y.pushed = x.pushed /\ y.parser = NewParser /\ y.err = x.err
            /\ y.stop = x.stop /\ y \in Parse
        BY <3>1, <3>2, Zenon DEF Parse
      <3> HIDE DEF y
      <3>4. Sane(d, y)
        BY <3>1, <3>3, SameBytes
      <3>5. Shown(y) = Shown(x) /\ Unread(y) = Unread(x)
        BY <3>3 DEF Shown, Unread
      <3>6. View(B, d, t, y) /\ Pos(t, y) = Pos(t, x) /\ Given(y) = Given(x)
        BY <2>3, <3>3, <3>4, <3>5 DEF View, Pos, Given
      <3>7. /\ x.stop = p.stop /\ x.argv = <<>>
            /\ x.pushed = Append(p.pushed, Shown(p)) /\ p.room # 0 /\ x.room = p.room - 1
        BY <2>2, <2>5 DEF Pushes
      <3> QED BY <1>3, <2>1, <2>2, <2>3, <2>5, <3>3, <3>6, <3>7 DEF AfterIs
    <2> QED BY <2>4, <2>5
  <1> QED BY <1>2, <1>3

--------------------------------------------------------------------------------
(* A turn of the loop of OnClientRead, the loop, and the input read into. *)

\* A turn of the loop begins and ends like this.
Turning(s, d, t, r) == Standing(s, d, t, r) /\ r.err = "OK" /\ r.at = 0

LEMMA TurnStands ==
  ASSUME NEW s \in Streams, Regular(s), NEW d \in Blocks, NEW t, NEW r, Turning(s, d, t, r)
  PROVE  Turning(s, d, t, NextCommand(r))
  <1>1. CASE r.stop # "no" \/ Size(r.input) = 0
    BY <1>1 DEF NextCommand
  <1>2. CASE r.stop = "no" /\ Size(r.input) # 0
    <2> DEFINE p == ParseRequest(r)
               q == AfterParse(p)
    <2>1. NextCommand(r) = q
      BY <1>2 DEF NextCommand
    <2>2. Unread(r) # <<>>
      <3>1. r.at + Len(Unread(r)) = Size(r.input) /\ Size(r.input) \in Nat /\ r.at = 0
        BY ViewFacts DEF Turning, Standing
      <3>2. Unread(r) = <<>> => Len(Unread(r)) = 0
        OBVIOUS
      <3> QED BY <1>2, <3>1, <3>2
    <2>3. Standing(s, d, t, p) /\ SameRun(r, p) /\ p.at = 0
      BY <2>2, ParseStands DEF Turning
    <2> HIDE DEF p
    <2>4. View(Bytes[s], d, t, p) /\ p.stop = "no"
      BY <1>2, <2>3 DEF Standing, SameRun
    <2>5. AfterIs(Bytes[s], d, t, p, q)
      BY <2>4, AfterParseFacts
    <2> HIDE DEF q
    <2>6. Edge(s, Pos(t, q))
      BY <2>3, <2>5, StandsEdge DEF Standing, AfterIs
    <2>7. Stands(s, Pos(t, q), q.parser)
      BY <2>3, <2>5, <2>6, NewStands DEF Standing, AfterIs
    <2> QED BY <2>1, <2>3, <2>5, <2>7 DEF Turning, Standing, AfterIs
  <1> QED BY <1>1, <1>2

LEMMA CommandsStand ==
  ASSUME NEW s \in Streams, Regular(s), NEW d \in Blocks, NEW t, NEW r, Turning(s, d, t, r)
  PROVE  Turning(s, d, t, Commands(r))
  <1> DEFINE n == Size(r.input) + 2
             V == {q \in Parse : Turning(s, d, t, q)}
  <1>1. Sane(d, r) /\ r \in Parse /\ n = Size(r.input) + 2
    BY DEF Turning, Standing, View, Sane
  <1> HIDE DEF n
  <1>2. n \in Nat /\ \E f : /\ Commands(r) = f[n] /\ f[0] = r
                            /\ \A k \in 1..n : f[k] = NextCommand(f[k - 1])
    BY <1>1, CommandsTurns
  <1>3. PICK f : /\ Commands(r) = f[n] /\ f[0] = r
                 /\ \A k \in 1..n : f[k] = NextCommand(f[k - 1])
    BY <1>2
  <1>4. ASSUME NEW q \in V PROVE NextCommand(q) \in V
    <2>1. Turning(s, d, t, NextCommand(q))
      BY TurnStands
    <2> QED BY <2>1 DEF Turning, Standing, View, Sane
  <1>5. f[0] \in V
    BY <1>1, <1>3
  <1>6. \A k \in 1..n : f[k - 1] \in V => f[k] \in V
    BY <1>3, <1>4
  <1> HIDE DEF V
  <1>7. \A k \in 0..n : f[k] \in V
    BY <1>2, <1>5, <1>6, Invariance
  <1>8. f[n] \in V
    BY <1>2, <1>7
  <1> QED BY <1>3, <1>8 DEF V

LEMMA GrownSees ==
  ASSUME NEW B, NEW d \in Blocks, NEW t, NEW r, View(B, d, t, r), r.at = 0,
         NEW g, g = Grown(r)
  PROVE  /\ Sees(B, t, g.heap, g.buf, r.argv) /\ Showing(g.heap, r.argv) = Shown(r)
         /\ t - Size(g.buf) = Pos(t, r)
  <1> DEFINE w == HeldBy(r.argv)
             h == r.heap
             b == r.input
             args == r.argv
             a == AppendCapacity(h, b, MinSize)
  <1>1. /\ Sane(d, r) /\ Sound(Byte, h, args, b) /\ b.data # Null /\ h[d].refs = 0
        /\ Under(args, b) /\ B \in Seq(Byte) /\ t \in Nat /\ t <= Len(B) /\ Size(b) <= t
        /\ Contents(h, b) = SubSeq(B, (t - Size(b)) + 1, t)
    BY DEF View, Sane
  <1>2. Pos(t, r) = t - Size(b)
    <2>1. Pos(t, r) = (t - Size(b)) + r.at /\ Size(b) \in Nat
      BY ViewFacts
    <2> QED BY <1>1, <2>1
  <1>3. CASE g = Kept(h, b)
    BY <1>1, <1>2, <1>3 DEF Kept, Sees, Showing, Shown
  <1>4. CASE g = a
    <2>1. Shared(Byte, h, b, w) /\ args \in Seq(Pointer) /\ MinSize \in Nat
          /\ \A i \in 1..Len(args) : InBounds(h, args[i])
      BY <1>1, BufferSizesAssumption DEF Sound
    <2> HIDE DEF w, h, b, args
    <2>2. b.data \in Blocks /\ w \in [Blocks -> Nat]
      <3>1. b.data \in Blocks
        BY <1>1, <2>1, SharedFacts
      <3> QED BY <2>1, <3>1 DEF Shared
    <2>3. RoomMade(Byte, h, b, w, MinSize, a)
      BY <1>1, <2>1, AppendCapacityFacts
    <2>4. w[b.data] > 0 => a.buf = b \/ (a.buf.data \in Blocks /\ w[a.buf.data] = 0)
      BY <1>1, <2>1, <2>2, RoomElsewhere
    <2> HIDE DEF a
    <2>5. /\ \A x \in Blocks : w[x] > 0 => a.heap[x].bytes = h[x].bytes
          /\ Size(a.buf) = Size(b) /\ Contents(a.heap, a.buf) = Contents(h, b)
          /\ a.buf.data = b.data \/ (a.buf.data \in Blocks /\ w[a.buf.data] = 0)
      BY <2>3 DEF RoomMade
    <2>6. ASSUME NEW i \in 1..Len(args), args[i].data \in Blocks
          PROVE  w[args[i].data] > 0
      <3>1. Held(args, args[i].data) > 0
        BY <2>1, HeldFacts
      <3> QED BY <2>1, <2>6, <3>1, HeldByFacts DEF w, args
    <2>7. Under(args, a.buf)
      <3> SUFFICES ASSUME NEW i \in 1..Len(args), args[i].data = a.buf.data
                   PROVE  args[i].size <= a.buf.size
        BY DEF Under
      <3>1. args[i].data \in Blocks
        BY <2>2, <2>5
      <3>2. w[a.buf.data] > 0
        BY <2>6, <3>1
      <3>3. ~(w[a.buf.data] = 0)
        BY <3>2
      <3>4. a.buf.data = b.data
        BY <2>5, <3>3
      <3>5. a.buf = b
        BY <2>4, <3>2, <3>3, <3>4
      <3> QED BY <1>1, <3>4, <3>5 DEF Under
    <2>8. Showing(a.heap, args) = Shown(r)
      <3>1. ASSUME NEW i \in 1..Len(args) PROVE Contents(a.heap, args[i]) = Contents(h, args[i])
        <4>1. args[i].data # Null => a.heap[args[i].data].bytes = h[args[i].data].bytes
          <5>1. args[i].data \in Blocks \union {Null}
            BY <2>1 DEF InBounds
          <5> QED BY <2>5, <2>6, <5>1
        <4> QED BY <4>1, SameContents
      <3> QED BY <3>1 DEF Showing, Shown, args, h
    <2> QED BY <1>1, <1>2, <1>4, <2>5, <2>7, <2>8 DEF Sees, args
  <1> QED BY <1>3, <1>4 DEF Grown

--------------------------------------------------------------------------------
(* A read: the state of the session before it, and after it. *)

\* A read begins with what is in the session.
Starting(B, d, t, p, given, r) ==
  /\ View(B, d, t, r) /\ Pos(t, r) = p /\ Given(r) = given /\ r.parser = parser
  /\ r.err = "OK" /\ r.at = 0

Began(B, d, t, p, given, m, room, r) ==
  /\ Starting(B, d, t, p, given, r) /\ Handled(m, room) = Commands(r)
  /\ \/ argv = <<>> /\ r.stop = "no" /\ r.pushed = pushed /\ r.room = room /\ r.argv = <<>>
     \/ argv # <<>> /\ r.stop = "refused" /\ r.pushed = pushed /\ room = 0 /\ r.argv = argv
     \/ /\ argv # <<>> /\ r.stop = "no" /\ room # 0 /\ r.room = room - 1 /\ r.argv = <<>>
        /\ r.pushed = Append(pushed, Showing(m.heap, argv))

LEMMA StartFacts ==
  ASSUME IInv, NEW d \in Blocks, NEW t, NEW B, NEW m, Sound(Byte, m.heap, argv, m.buf),
         m.buf.data # Null, m.heap[d].refs = 0, Sees(B, t, m.heap, m.buf, argv),
         NEW room \in Nat, NEW p, p = t - Size(m.buf),
         NEW given, given = FlattenSeq(pushed) \o Showing(m.heap, argv)
  PROVE  \E r : Began(B, d, t, p, given, m, room, r)
  <1> DEFINE start == [heap |-> m.heap, input |-> m.buf, at |-> 0, parser |-> parser,
                       argv |-> argv, err |-> "OK", pushed |-> pushed, room |-> room,
                       stop |-> "no"]
             first == IF argv = <<>> THEN start ELSE Push(start)
  <1>1. parser \in Fields /\ pushed \in Seq(Seq(Seq(Byte)))
    BY DEF IInv, TypeOK, Fields
  <1>2. /\ m.heap \in Memory(Byte) /\ m.buf \in Pointer /\ argv \in Seq(Pointer)
        /\ Shared(Byte, m.heap, m.buf, HeldBy(argv))
    BY DEF Sound, Shared
  <1>3. "OK" \in Errors
    BY DEF Errors
  <1>4. start \in Parse
    BY <1>1, <1>2, <1>3 DEF Parse
  <1>5. Size(m.buf) \in Nat
    BY <1>2, SharedFacts
  <1>6. /\ start.heap = m.heap /\ start.input = m.buf /\ start.at = 0
        /\ start.argv = argv /\ start.parser = parser /\ start.err = "OK"
        /\ start.pushed = pushed /\ start.stop = "no" /\ start.room = room
    OBVIOUS
  <1>a. Handled(m, room) = Commands(first)
    BY DEF Handled
  <1> HIDE DEF start
  <1>7. Sane(d, start)
    BY <1>4, <1>5, <1>6 DEF Sane
  <1>8. View(B, d, t, start)
    BY <1>6, <1>7 DEF View, Sees
  <1>9. Pos(t, start) = p
    <2>1. Pos(t, start) = (t - Size(m.buf)) + 0 /\ t \in Nat
      BY <1>6, <1>8, ViewFacts DEF Sees
    <2> QED BY <1>5, <2>1
  <1>10. Given(start) = given
    BY <1>6 DEF Given, Shown, Showing
  <1>11. CASE argv = <<>>
    <2>1. Starting(B, d, t, p, given, start)
      BY <1>6, <1>8, <1>9, <1>10 DEF Starting
    <2>2. Began(B, d, t, p, given, m, room, start)
      BY <1>6, <1>11, <1>a, <2>1 DEF Began
    <2> QED BY <2>2
  <1>12. CASE argv # <<>>
    <2> DEFINE q == Push(start)
    <2>1. Pushes(B, d, t, start, q) /\ Given(q) = Given(start) /\ q.at = start.at
      BY <1>8, PushGiven
    <2>2. first = q
      BY <1>12
    <2> HIDE DEF q
    <2>3. Starting(B, d, t, p, given, q)
      BY <1>6, <1>9, <1>10, <2>1 DEF Starting, Pushes
    <2>4. \/ q.stop = "refused" /\ q.pushed = pushed /\ room = 0 /\ q.argv = argv
          \/ /\ q.stop = "no" /\ room # 0 /\ q.room = room - 1 /\ q.argv = <<>>
             /\ q.pushed = Append(pushed, Showing(m.heap, argv))
      <3>1. Shown(start) = Showing(m.heap, argv)
        BY <1>6 DEF Shown, Showing
      <3> QED BY <1>6, <2>1, <3>1 DEF Pushes
    <2>5. Began(B, d, t, p, given, m, room, q)
      BY <1>12, <1>a, <2>2, <2>3, <2>4 DEF Began
    <2> QED BY <2>5
  <1> QED BY <1>11, <1>12

--------------------------------------------------------------------------------
(* The invariant about the order of the data. *)

Stood(s, t, h, b, args, ps, pu) ==
  /\ Sees(Bytes[s], t, h, b, args) /\ Stands(s, t - Size(b), ps)
  /\ Total(Bytes[s], t - Size(b), FlattenSeq(pu) \o Showing(h, args))

\* What is inductive: the parser stands between things that are no data, and what was
\* shown is the data in front of it.
StandInv ==
  /\ IInv
  /\ "spaces" \in disturbed <=> ~Single(stream)
  /\ Regular(stream) => Stood(stream, taken, heap, input, argv, parser, pushed)

LEMMA InitStands == Init => StandInv
  <1> SUFFICES ASSUME Init PROVE StandInv
    OBVIOUS
  <1> DEFINE B == Bytes[stream]
             x == <<>>
  <1>1. IInv /\ stream \in Streams /\ taken = 0 /\ argv = <<>> /\ pushed = <<>>
        /\ parser = NewParser
    BY InitInvariant DEF Init
  <1>2. "spaces" \in disturbed <=> ~Single(stream)
    <2>1. \A c \in 1..Len(stream) : stream[c].gap \in Nat
      BY <1>1, CommandFacts
    <2> QED BY <2>1 DEF Init, Single
  <1>3. B \in Seq(Byte) /\ Len(B) \in Nat
    BY <1>1, BytesTyped
  <1>4. Size(input) = 0 /\ Contents(heap, input) = <<>>
    <2>1. Junk \in Byte
      BY DEF Junk, Byte, Kinds
    <2> QED BY <2>1, InitialSound DEF Init
  <1> HIDE DEF B
  <1>5. SubSeq(B, 1, 0) = <<>>
    BY <1>3
  <1>6. Sees(B, taken, heap, input, argv)
    <2>1. Under(argv, input)
      BY <1>1 DEF Under
    <2> QED BY <1>1, <1>3, <1>4, <1>5, <2>1 DEF Sees
  <1>7. Stands(stream, taken - Size(input), parser)
    <2>1. Edge(stream, 0)
      BY DEF Edge
    <2> QED BY <1>1, <1>4, <2>1, NewStands
  <1>8. Total(B, taken - Size(input), FlattenSeq(pushed) \o Showing(heap, argv))
    <2>1. FlattenSeq(x) = <<>> /\ x \o x = x
      <3> DEFINE S == Seq(Byte)
      <3>0. x \in Seq(Seq(S)) /\ x \in Seq(S)
        OBVIOUS
      <3> HIDE DEF S
      <3>1. FlattensMore(S, x, x)
        BY <3>0, FlatMore, Zenon
      <3> QED BY <3>1 DEF FlattensMore
    <2>2. Showing(heap, argv) = <<>>
      BY <1>1 DEF Showing
    <2>3. taken - Size(input) = 0
      BY <1>1, <1>4
    <2>4. FlattenSeq(pushed) \o Showing(heap, argv) = x
      BY <1>1, <2>1, <2>2
    <2> HIDE DEF x
    <2>5. Total(B, 0, x)
      BY <1>5, <2>1, Zenon DEF Total, x
    <2> QED BY <2>3, <2>4, <2>5
  <1> QED BY <1>1, <1>2, <1>6, <1>7, <1>8 DEF StandInv, Stood, B

\* What is known of the step of a read.
Reading(n, d, m, r, g) ==
  /\ d \in Blocks
  /\ m.buf.data # Null /\ Sound(Byte, m.heap, argv, m.buf) /\ m.heap[d].refs = 0
  /\ Leaves(n, r, g) /\ g = Grown(r) /\ lost = "no"
  /\ n \in Nat /\ taken \in Nat /\ taken + n <= Len(Bytes[stream])
  /\ Bytes[stream] \in Seq(Byte) /\ stream \in Streams

LEMMA ReadingFacts ==
  ASSUME IInv, NEW n \in 0..SmallerOf(FreeSize(heap, input), Length(stream) - taken),
         NEW room \in 0..MaxRoom, OnReadable(n, room)
  PROVE  \E d, m, r, g :
           /\ Reading(n, d, m, r, g) /\ room \in Nat /\ r = Handled(m, room)
           /\ Sees(Bytes[stream], taken, heap, input, argv) =>
                /\ Sees(Bytes[stream], taken + n, m.heap, m.buf, argv)
                /\ Showing(m.heap, argv) = Showing(heap, argv)
                /\ (taken + n) - Size(m.buf) = taken - Size(input)
  <1> DEFINE B == Bytes[stream]
             data == SubSeq(B, taken + 1, taken + n)
             m == Filled(Kept(heap, input), data)
             r == Handled(m, room)
             g == Grown(r)
  <1>1. /\ stream \in Streams /\ taken \in Nat /\ taken <= Length(stream)
        /\ B \in Seq(Byte) /\ Length(stream) = Len(B) /\ Length(stream) \in Nat
    BY BytesTyped DEF IInv, TypeOK, Length
  <1>2. /\ n \in Nat /\ n <= FreeSize(heap, input) /\ taken + n <= Length(stream)
        /\ room \in Nat
    <2>1. FreeSize(heap, input) \in Nat
      <3>1. Shared(Byte, heap, input, HeldBy(argv))
        BY DEF IInv, Sound
      <3> QED BY <3>1, SharedFacts
    <2> QED BY <1>1, <2>1, ClientBoundsAssumption DEF SmallerOf
  <1>3. PICK d \in Blocks : heap[d].refs = 0
    BY DEF OnReadable, BlockLeft
  <1>4. /\ Leaves(n, r, g) /\ lost = "no"
    BY DEF OnReadable, ReadInto
  <1> HIDE DEF B
  <1>5. data \in Seq(Byte) /\ Len(data) = n /\ \A j \in 1..n : data[j] = B[taken + j]
    <2> DEFINE k == taken + n
    <2>1. k \in Nat /\ taken <= k /\ k <= Len(B) /\ k - taken = n
      BY <1>1, <1>2
    <2> HIDE DEF k
    <2>2. /\ SubSeq(B, taken + 1, k) \in Seq(Byte) /\ Len(SubSeq(B, taken + 1, k)) = k - taken
          /\ \A j \in 1..(k - taken) : SubSeq(B, taken + 1, k)[j] = B[taken + j]
      BY <1>1, <2>1, CutElements
    <2> QED BY <2>1, <2>2 DEF k
  <1> HIDE DEF data
  <1>6. /\ Sound(Byte, m.heap, argv, m.buf) /\ m.buf.data # Null /\ m.heap[d].refs = 0
    <2>1. Len(data) <= FreeSize(heap, input)
      BY <1>2, <1>5
    <2> QED BY <1>3, <1>5, <2>1, ReadSound
  <1>7. Sees(B, taken, heap, input, argv) =>
          /\ Sees(B, taken + n, m.heap, m.buf, argv)
          /\ Showing(m.heap, argv) = Showing(heap, argv)
          /\ (taken + n) - Size(m.buf) = taken - Size(input)
    <2> SUFFICES ASSUME Sees(B, taken, heap, input, argv)
                 PROVE  /\ Sees(B, taken + n, m.heap, m.buf, argv)
                        /\ Showing(m.heap, argv) = Showing(heap, argv)
                        /\ (taken + n) - Size(m.buf) = taken - Size(input)
      OBVIOUS
    <2>1. Sound(Byte, heap, argv, input) /\ input.data # Null /\ taken + n <= Len(B)
      BY <1>1, <1>2 DEF IInv
    <2> DEFINE x == m
    <2>2. x = Filled(Kept(heap, input), data)
      OBVIOUS
    <2> HIDE DEF m, x
    <2>3. /\ Sees(B, taken + n, x.heap, x.buf, argv)
          /\ Showing(x.heap, argv) = Showing(heap, argv)
          /\ (taken + n) - Size(x.buf) = taken - Size(input)
      BY <1>2, <1>5, <2>1, <2>2, ReadSees
    <2> QED BY <2>3 DEF x
  <1> HIDE DEF m, r, g
  <1>8. Reading(n, d, m, r, g)
    BY <1>1, <1>2, <1>4, <1>6 DEF Reading, g, B
  <1>9. r = Handled(m, room)
    BY DEF r
  <1> QED BY <1>2, <1>7, <1>8, <1>9 DEF B

LEMMA ReadStands ==
  ASSUME StandInv, NEW n \in 0..SmallerOf(FreeSize(heap, input), Length(stream) - taken),
         NEW room \in 0..MaxRoom, OnReadable(n, room)
  PROVE  StandInv'
  <1> DEFINE B == Bytes[stream]
             t == taken + n
             p == taken - Size(input)
             given == FlattenSeq(pushed) \o Showing(heap, argv)
  <1>1. IInv /\ IInv'
    BY OnReadableInvariant DEF StandInv
  <1>2. PICK d, m, r, g :
           /\ Reading(n, d, m, r, g) /\ room \in Nat /\ r = Handled(m, room)
           /\ Sees(B, taken, heap, input, argv) =>
                /\ Sees(B, t, m.heap, m.buf, argv)
                /\ Showing(m.heap, argv) = Showing(heap, argv)
                /\ t - Size(m.buf) = p
    BY <1>1, ReadingFacts
  <1>3. /\ d \in Blocks /\ m.buf.data # Null /\ Sound(Byte, m.heap, argv, m.buf)
        /\ m.heap[d].refs = 0 /\ Leaves(n, r, g) /\ g = Grown(r) /\ stream \in Streams
    BY <1>2 DEF Reading
  <1>4. /\ taken' = t /\ heap' = g.heap /\ input' = g.buf /\ parser' = r.parser
        /\ argv' = r.argv /\ pushed' = r.pushed /\ stream' = stream
        /\ ("spaces" \in disturbed' <=> "spaces" \in disturbed)
    BY <1>3 DEF Leaves
  <1> HIDE DEF t
  <1>5. ASSUME Regular(stream)
        PROVE  Stood(stream, t, g.heap, g.buf, r.argv, r.parser, r.pushed)
    <2>1. Sees(B, taken, heap, input, argv) /\ Stands(stream, p, parser) /\ Total(B, p, given)
      BY <1>5 DEF StandInv, Stood
    <2>2. Sees(B, t, m.heap, m.buf, argv) /\ t - Size(m.buf) = p
          /\ given = FlattenSeq(pushed) \o Showing(m.heap, argv)
      BY <1>2, <2>1
    <2> HIDE DEF B, p, given
    <2>3. \E x : Starting(B, d, t, p, given, x) /\ Handled(m, room) = Commands(x)
      <3>1. p = t - Size(m.buf) /\ room \in Nat
        BY <1>2, <2>2
      <3>2. given = FlattenSeq(pushed) \o Showing(m.heap, argv)
        BY <2>2
      <3>3. \E x : Began(B, d, t, p, given, m, room, x)
        BY <1>1, <1>3, <2>2, <3>1, <3>2, StartFacts, Zenon
      <3> QED BY <3>3 DEF Began
    <2>4. PICK x : Starting(B, d, t, p, given, x) /\ Handled(m, room) = Commands(x)
      BY <2>3
    <2>5. Turning(stream, d, t, x)
      BY <2>1, <2>4 DEF Starting, Turning, Standing, B
    <2>6. Turning(stream, d, t, r)
      <3>1. Turning(stream, d, t, Commands(x))
        BY <1>3, <1>5, <2>5, CommandsStand
      <3>2. r = Commands(x)
        BY <1>2, <2>4
      <3> QED BY <3>1, <3>2
    <2>7. /\ View(B, d, t, r) /\ Stands(stream, Pos(t, r), r.parser)
          /\ Total(B, Pos(t, r), Given(r)) /\ r.at = 0
      BY <2>6 DEF Turning, Standing, B
    <2>8. /\ Sees(B, t, g.heap, g.buf, r.argv) /\ Showing(g.heap, r.argv) = Shown(r)
          /\ t - Size(g.buf) = Pos(t, r)
      BY <1>3, <2>7, GrownSees
    <2> QED BY <2>7, <2>8 DEF Stood, Given, B
  <1>6. (Regular(stream) => Stood(stream, taken, heap, input, argv, parser, pushed))'
    BY <1>4, <1>5
  <1>7. ("spaces" \in disturbed <=> ~Single(stream))'
    BY <1>4 DEF StandInv
  <1> QED BY <1>1, <1>6, <1>7 DEF StandInv

LEMMA StandStep == StandInv /\ [Next]_vars => StandInv'
  <1> SUFFICES ASSUME StandInv, [Next]_vars PROVE StandInv'
    OBVIOUS
  <1>1. CASE \E n \in 0..SmallerOf(FreeSize(heap, input), Length(stream) - taken),
                room \in 0..MaxRoom : OnReadable(n, room)
    BY <1>1, ReadStands
  <1>2. IInv'
    BY StepInvariant DEF StandInv
  <1>3. ASSUME UNCHANGED <<stream, taken, heap, input, parser, argv, pushed, disturbed>>
        PROVE  StandInv'
    BY <1>2, <1>3 DEF StandInv
  <1> QED BY <1>1, <1>3 DEF Next, OnServerWrite, vars

LEMMA StandInvariant == Spec => []StandInv
  BY InitStands, StandStep, PTL DEF Spec

LEMMA StoodInOrder ==
  ASSUME StandInv, Single(stream)
  PROVE  IsPrefix(Data(FlattenSeq(FlattenSeq(pushed)))
                    \o Data(FlattenSeq([i \in 1..Len(argv) |-> Contents(heap, argv[i])])),
                  Data(SubSeq(Bytes[stream], 1, taken)))
  <1> DEFINE B == Bytes[stream]
             p == taken - Size(input)
             x == FlattenSeq(pushed)
             y == Showing(heap, argv)
             S == Seq(Byte)
  <1>1. /\ Sees(B, taken, heap, input, argv) /\ Total(B, p, x \o y) /\ IInv
    BY DEF StandInv, Stood, Regular
  <1>2. /\ B \in Seq(Byte) /\ taken \in Nat /\ taken <= Len(B) /\ p \in Nat /\ p <= taken
    <2>1. Size(input) \in Nat
      <3>1. Shared(Byte, heap, input, HeldBy(argv))
        BY <1>1 DEF IInv, Sound
      <3> QED BY <3>1, SharedFacts
    <2> QED BY <1>1, <2>1 DEF Sees
  <1>3. pushed \in Seq(Seq(S)) /\ x \in Seq(S)
    <2>1. pushed \in Seq(Seq(S))
      BY <1>1 DEF IInv
    <2>2. <<>> \in Seq(S)
      OBVIOUS
    <2> HIDE DEF S
    <2>3. FlattensMore(S, pushed, <<>>)
      BY <2>1, <2>2, FlatMore, Zenon
    <2> QED BY <2>1, <2>3 DEF FlattensMore
  <1>4. y \in Seq(S)
    <2>1. argv \in Seq(Pointer) /\ Sound(Byte, heap, argv, input)
      BY <1>1 DEF IInv, Sound
    <2>2. \A i \in 1..Len(argv) : Contents(heap, argv[i]) \in Seq(Byte)
      BY <2>1, ShownFacts
    <2> QED BY <2>1, <2>2 DEF Showing
  <1>5. /\ FlattenSeq(x) \in Seq(Byte) /\ FlattenSeq(y) \in Seq(Byte)
        /\ FlattenSeq(x \o y) = FlattenSeq(x) \o FlattenSeq(y)
    <2>1. Joins(Byte, x, y)
      <3>1. x \in Seq(Seq(Byte)) /\ y \in Seq(Seq(Byte))
        BY <1>3, <1>4
      <3> HIDE DEF x, y
      <3> QED BY <3>1, FlatJoin
    <2> QED BY <2>1 DEF Joins
  <1> DEFINE a == FlattenSeq(x)
             b == FlattenSeq(y)
             c == SubSeq(B, 1, p)
             e == SubSeq(B, p + 1, taken)
  <1> HIDE DEF B, p, x, y, S, a, b
  <1>6. Data(a \o b) = Data(a) \o Data(b)
    BY <1>5, DataJoin DEF DataJoins, a, b
  <1>7. SubSeq(B, 1, taken) = c \o e /\ c \in Seq(Byte) /\ e \in Seq(Byte)
    BY <1>2, CutJoin
  <1>8. Data(a \o b) = Data(c)
    BY <1>1, <1>5 DEF Total, a, b
  <1> HIDE DEF c, e
  <1>9. DataJoins(c, e)
    BY <1>7, DataJoin
  <1> DEFINE u == Data(c)
             v == Data(e)
  <1>10. Data(c \o e) = u \o v /\ u \in Seq(Byte) /\ v \in Seq(Byte)
    BY <1>9 DEF DataJoins
  <1> HIDE DEF u, v
  <1>11. IsPrefix(u, u \o v)
    BY <1>10, PrefixOfJoin
  <1>12. IsPrefix(Data(a) \o Data(b), Data(SubSeq(B, 1, taken)))
    BY <1>6, <1>7, <1>8, <1>10, <1>11, Zenon DEF u
  <1> QED BY <1>12 DEF a, b, x, y, B, Showing

--------------------------------------------------------------------------------
(* The invariant about whole arguments and commands. *)

\* The exact place of the parser: h commands and i arguments of the next were shown.  It
\* waits for a command, or is in a multibulk or an inline one.
Waits(s, p, ps, h, i) ==
  /\ i = 0 /\ p = CommandEnd[s][h] /\ Blank(ps)
  /\ ps.type = "none" \/ (ps.type = "multibulk" /\ AllMulti(s))
       \/ (h < Len(s) /\ ps.type = s[h + 1].form)

InMulti(s, p, ps, h, i) == h < Len(s) /\ AtArg(s, p, h + 1, ps) /\ ps.mindex = i

InInline(s, p, ps, h, i) ==
  /\ h < Len(s) /\ s[h + 1].form = "inline" /\ ps.type = "inline" /\ Blank(ps)
  /\ i < Len(s[h + 1].args) /\ p = ArgEnd(s, h + 1, i)

Exact(s, p, ps, given, h, i) ==
  /\ h \in 0..Len(s) /\ i \in Nat /\ given = Told(s, h, i)
  /\ Waits(s, p, ps, h, i) \/ InMulti(s, p, ps, h, i) \/ InInline(s, p, ps, h, i)

\* Inline commands that were not shown end at t at the earliest: none is read together
\* with what follows it.
Ready(s, t, h) == \A c \in 1..Len(s) : h < c /\ s[c].form = "inline" => t <= CommandEnd[s][c]

ParsedWhole(s, t, h, q) ==
  /\ q.err = "OK" /\ Pos(t, q) = CommandEnd[s][h + 1] /\ Given(q) = Told(s, h + 1, 0)
  /\ AllMulti(s) => \E j, i : Exact(s, Pos(t, q), q.parser, Given(q), j, i)
  /\ s[h + 1].form = "multibulk" /\ Full(s, h + 1) => Finished(q.parser)

ParsedPart(s, t, h, q) ==
  /\ q.err # "OK" /\ (q.err = "unpredictable" \/ t < CommandEnd[s][h + 1])
  /\ s[h + 1].form = "multibulk" => Missing(s, t, h + 1, q)
  /\ \E i : Exact(s, Pos(t, q), q.parser, Given(q), h, i)

LEMMA MultiParsedExact ==
  ASSUME NEW s \in Streams, NEW h \in 0..Len(s), h < Len(s), s[h + 1].form = "multibulk",
         NEW d, NEW t, NEW r, NEW q, MultiDone({"exact"}, s, d, t, h + 1, r, q)
  PROVE  ParsedWhole(s, t, h, q) \/ ParsedPart(s, t, h, q)
  <1> DEFINE c == h + 1
             n == Len(s[c].args)
  <1>1. /\ Len(s) \in Nat /\ c \in 1..Len(s) /\ c - 1 = h /\ c \in 0..Len(s)
        /\ h \in 0..(Len(s) - 1)
    BY CommandFacts
  <1>2. n \in Nat /\ n \in 0..n
    BY <1>1, CommandFacts
  <1>3. ToldFacts(s, h, n, n)
    BY <1>1, <1>2, ToldTyped, Zenon
  <1>4. Told(s, h, n) = Told(s, c, 0)
    BY <1>3 DEF ToldFacts
  <1>5. ArgEnd(s, c, n) = CommandEnd[s][c]
    BY <1>1, <1>2, PlaceFacts DEF Places
  <1>6. MultiDone({"exact"}, s, d, t, c, r, q) /\ s[c].form = "multibulk" /\ c = h + 1
    OBVIOUS
  <1> HIDE DEF c, n
  <1>7. q.parser.type = "multibulk"
    BY <1>6 DEF MultiDone
  <1>8. ASSUME MultiAt({"exact"}, s, d, t, c, q)
        PROVE  /\ Exact(s, Pos(t, q), q.parser, Given(q), h, q.parser.mindex)
               /\ q.parser.mindex = q.parser.mlen =>
                    q.parser.mlen = n /\ Pos(t, q) = ArgEnd(s, c, n)
                    /\ Given(q) = Told(s, h, n)
    <2>1. AtArg(s, Pos(t, q), c, q.parser) /\ Given(q) = Told(s, h, q.parser.mindex)
      BY <1>1, <1>8 DEF MultiAt, Tells
    <2>2. q.parser.mindex \in Nat /\ q.parser.mlen = n /\ q.parser.mindex \in 0..n
      BY <1>2, <2>1 DEF AtArg, n
    <2>3. InMulti(s, Pos(t, q), q.parser, h, q.parser.mindex)
      BY <1>6, <2>1 DEF InMulti
    <2>4. q.parser.mindex = q.parser.mlen => Pos(t, q) = ArgEnd(s, c, n)
      BY <1>2, <2>1, <2>2 DEF AtArg
    <2> QED BY <2>1, <2>2, <2>3, <2>4 DEF Exact
  <1>9. CASE q.err = "OK" /\ MultiWhole({"exact"}, s, d, t, c, q)
    <2>1. CASE MultiAt({"exact"}, s, d, t, c, q) /\ q.parser.mindex = q.parser.mlen
      <3>1. Full(s, c) => Finished(q.parser)
        BY <1>8, <2>1 DEF Full, Finished, n
      <3> QED BY <1>4, <1>5, <1>6, <1>8, <1>9, <2>1, <3>1 DEF ParsedWhole
    <2>2. CASE BlankAt({"exact"}, s, d, t, c, q) /\ Len(s[c].args) = 0
      <3>1. Pos(t, q) = CommandEnd[s][c] /\ Given(q) = Told(s, c, 0) /\ Blank(q.parser)
        BY <2>2 DEF BlankAt, Tells
      <3>2. AllMulti(s) => Exact(s, Pos(t, q), q.parser, Given(q), c, 0)
        BY <1>1, <1>7, <3>1 DEF Exact, Waits
      <3>3. ~Full(s, c)
        BY <2>2 DEF Full
      <3> QED BY <1>6, <1>9, <3>1, <3>2, <3>3 DEF ParsedWhole
    <2> QED BY <1>9, <2>1, <2>2 DEF MultiWhole
  <1>10. CASE MultiPart({"exact"}, s, d, t, c, q)
    <2>1. CASE MultiAt({"exact"}, s, d, t, c, q) /\ Missing(s, t, c, q)
      <3>1. \E i : Exact(s, Pos(t, q), q.parser, Given(q), h, i)
        BY <1>8, <2>1
      <3> QED BY <1>6, <2>1, <3>1 DEF ParsedPart, Missing
    <2>2. CASE BlankAt({"exact"}, s, d, t, c - 1, q) /\ Missing(s, t, c, q)
      <3>1. BlankAt({"exact"}, s, d, t, h, q)
        BY <1>1, <2>2
      <3>2. Pos(t, q) = CommandEnd[s][h] /\ Given(q) = Told(s, h, 0) /\ Blank(q.parser)
        BY <3>1 DEF BlankAt, Tells
      <3>3. Waits(s, Pos(t, q), q.parser, h, 0)
        BY <1>6, <1>7, <3>2 DEF Waits
      <3>4. Exact(s, Pos(t, q), q.parser, Given(q), h, 0)
        BY <3>2, <3>3 DEF Exact
      <3> QED BY <1>6, <2>2, <3>4 DEF ParsedPart, Missing
    <2> QED BY <1>6, <1>10, <2>1, <2>2 DEF MultiPart
  <1> QED BY <1>6, <1>9, <1>10 DEF MultiDone

LEMMA InlineParsedExact ==
  ASSUME NEW s \in Streams, NEW h \in 0..Len(s), h < Len(s), s[h + 1].form = "inline",
         NEW d, NEW t, NEW r, NEW q, InlineDone({"exact"}, s, d, t, h + 1, r, q),
         Blank(r.parser), r.parser.type = "inline"
  PROVE  ParsedWhole(s, t, h, q) \/ ParsedPart(s, t, h, q)
  <1> DEFINE c == h + 1
             n == Len(s[c].args)
  <1>1. /\ Len(s) \in Nat /\ c \in 1..Len(s) /\ c - 1 = h /\ h \in 0..(Len(s) - 1)
    BY CommandFacts
  <1>2. n \in Nat /\ n \in 0..n
    BY <1>1, CommandFacts
  <1>3. ToldFacts(s, h, n, n)
    BY <1>1, <1>2, ToldTyped, Zenon
  <1>4. Told(s, h, n) = Told(s, c, 0)
    BY <1>3 DEF ToldFacts
  <1>6. InlineDone({"exact"}, s, d, t, c, r, q) /\ s[c].form = "inline" /\ c = h + 1
    OBVIOUS
  <1> HIDE DEF c, n
  <1>7. q.parser = r.parser /\ (InlineWhole(s, t, c, q) \/ InlinePartly(s, t, c, q))
    BY <1>6 DEF InlineDone
  <1>8. CASE InlineWhole(s, t, c, q)
    <2>1. q.err = "OK" /\ Pos(t, q) = CommandEnd[s][c] /\ Given(q) = Told(s, c, 0)
      BY <1>1, <1>4, <1>8 DEF InlineWhole, n
    <2>2. ~AllMulti(s)
      BY <1>1, <1>6 DEF AllMulti
    <2> QED BY <1>6, <2>1, <2>2 DEF ParsedWhole
  <1>9. CASE InlinePartly(s, t, c, q)
    <2>1. PICK i \in 0..(n - 1) : Pos(t, q) = ArgEnd(s, c, i) /\ Given(q) = Told(s, h, i)
      BY <1>1, <1>9 DEF InlinePartly, n
    <2>2. i \in Nat /\ i < n
      BY <1>2, <2>1
    <2>3. InInline(s, Pos(t, q), q.parser, h, i)
      BY <1>6, <1>7, <2>1, <2>2 DEF InInline, n
    <2>4. Exact(s, Pos(t, q), q.parser, Given(q), h, i)
      BY <2>1, <2>2, <2>3 DEF Exact
    <2> QED BY <1>6, <1>9, <2>4 DEF ParsedPart, InlinePartly
  <1> QED BY <1>7, <1>8, <1>9

\* The type of a request and where it begins: x is the parse with its type.
LEMMA TypeExact ==
  ASSUME NEW s \in Streams, NEW h \in 0..Len(s), NEW d, NEW t, NEW r,
         View(Bytes[s], d, t, r), Waits(s, Pos(t, r), r.parser, h, 0), Unread(r) # <<>>,
         NEW x, x = Typed(r, RequestType(Unread(r)[1]))
  PROVE  h < Len(s) /\ x.parser.type = s[h + 1].form
  <1> DEFINE first == Unread(r)[1]
             type == RequestType(first)
             c == h + 1
  <1>1. /\ h < Len(s) /\ c \in 1..Len(s)
        /\ s[c].form = "multibulk" => first = <<"*", Len(s[c].args)>>
        /\ s[c].form # "multibulk" => first[1] = "byte"
    <2>1. Pos(t, r) = CommandEnd[s][h]
      BY DEF Waits
    <2> QED BY <2>1, NextByte, Zenon
  <1>2. s[c].form \in {"multibulk", "inline"}
    BY <1>1, CommandFacts
  <1>3. type = s[c].form
    <2>1. CASE s[c].form = "multibulk"
      <3>1. first[1] = "*"
        BY <1>1, <2>1, KindFacts
      <3> QED BY <2>1, <3>1 DEF RequestType
    <2>2. CASE s[c].form = "inline"
      <3>1. first[1] # "*"
        BY <1>1, <2>2
      <3> QED BY <2>2, <3>1 DEF RequestType
    <2> QED BY <1>2, <2>1, <2>2
  <1>4. AllMulti(s) => s[c].form = "multibulk"
    BY <1>1 DEF AllMulti
  <1>5. type \in {"multibulk", "inline"} /\ x = Typed(r, type)
    BY <1>2, <1>3
  <1> HIDE DEF type, c, first
  <1>6. x.parser.type = IF r.parser.type = "none" THEN type ELSE r.parser.type
    BY <1>5, TypedFacts
  <1>7. r.parser.type \in {"none", s[c].form}
    BY <1>1, <1>4 DEF Waits, c
  <1> QED BY <1>1, <1>3, <1>6, <1>7 DEF c

\* A parse that begins at an exact place ends at one.
LEMMA ParseExact ==
  ASSUME NEW s \in Streams, Regular(s), NEW d \in Blocks, NEW t, NEW r, Standing(s, d, t, r),
         r.err = "OK", Unread(r) # <<>>, NEW h, NEW i,
         Exact(s, Pos(t, r), r.parser, Given(r), h, i), Ready(s, t, h),
         NEW q, q = ParseRequest(r)
  PROVE  h < Len(s) /\ (ParsedWhole(s, t, h, q) \/ ParsedPart(s, t, h, q))
  <1> DEFINE B == Bytes[s]
             type == RequestType(Unread(r)[1])
             x == Typed(r, type)
             c == h + 1
             w == {"exact"}
  <1>1. View(B, d, t, r) /\ Edge(s, Pos(t, r))
    BY StandsEdge DEF Standing
  <1>2. h \in 0..Len(s) /\ i \in Nat /\ Given(r) = Told(s, h, i) /\ Len(s) \in Nat
    BY CommandFacts DEF Exact
  <1>3. q = RequestParsed(x) /\ type \in {"multibulk", "inline"} /\ x = Typed(r, type)
    BY DEF ParseRequest, RequestType
  <1>4. Waits(s, Pos(t, r), r.parser, h, i) => h < Len(s) /\ x.parser.type = s[c].form
    <2>1. ASSUME Waits(s, Pos(t, r), r.parser, h, i)
          PROVE  Waits(s, Pos(t, r), r.parser, h, 0)
      BY <2>1 DEF Waits
    <2>2. View(Bytes[s], d, t, r) /\ h \in 0..Len(s)
      BY <1>1, <1>2
    <2> HIDE DEF B, type, w, c
    <2>3. x = Typed(r, RequestType(Unread(r)[1]))
      BY DEF type
    <2> HIDE DEF x
    <2> QED BY <2>1, <2>2, <2>3, TypeExact, Zenon DEF c
  <1> HIDE DEF B, type, x
  <1>5. /\ Keeps(B, d, t, r, x) /\ x.err = r.err /\ Unread(x) = Unread(r)
        /\ x.parser.type = IF r.parser.type = "none" THEN type ELSE r.parser.type
        /\ x.parser.mlen = r.parser.mlen /\ x.parser.mindex = r.parser.mindex
        /\ x.parser.blen = r.parser.blen
    BY <1>1, <1>3, TypedFacts
  <1>6. /\ View(B, d, t, x) /\ Pos(t, x) = Pos(t, r) /\ Given(x) = Told(s, h, i)
        /\ x.err = "OK"
    BY <1>2, <1>5 DEF Keeps
  <1>7. h < Len(s)
    BY <1>4 DEF Exact, InMulti, InInline
  <1>8. c \in 1..Len(s) /\ c - 1 = h /\ c \in Int /\ c = h + 1
    BY <1>2, <1>7
  <1> HIDE DEF c
  <1>9. w = {"exact"} /\ "data" \notin w
    OBVIOUS
  <1> HIDE DEF w
  <1>10. /\ s[c].form \in {"multibulk", "inline"}
         /\ s[c].form = "inline" => Len(s[c].args) > 0
         /\ Len(s[c].args) \in Nat
    BY <1>8, CommandFacts
  <1>11. CASE Waits(s, Pos(t, r), r.parser, h, i) /\ s[c].form = "multibulk"
    <2>1. x.parser.type = "multibulk"
      BY <1>4, <1>11
    <2>2. Blank(x.parser) /\ Pos(t, x) = CommandEnd[s][h] /\ i = 0
      BY <1>5, <1>6, <1>11 DEF Waits, Blank
    <2>3. BlankAt(w, s, d, t, h, x)
      BY <1>2, <1>6, <1>9, <2>2 DEF BlankAt, Tells, B
    <2>4. BlankAt(w, s, d, t, c - 1, x) /\ Unread(x) # <<>>
      BY <1>5, <1>8, <2>3
    <2>5. MultiDone(w, s, d, t, c, x, q)
      BY <1>3, <1>8, <2>1, <2>4, MultiParsed
    <2> QED BY <1>7, <1>8, <1>9, <1>11, <1>2, <2>5, MultiParsedExact
  <1>12. CASE InMulti(s, Pos(t, r), r.parser, h, i)
    <2>1. AtArg(s, Pos(t, r), c, r.parser) /\ r.parser.mindex = i
      BY <1>8, <1>12 DEF InMulti
    <2>2. x.parser.type = "multibulk" /\ s[c].form = "multibulk"
      BY <1>5, <2>1 DEF AtArg
    <2>3. AtArg(s, Pos(t, x), c, x.parser) /\ x.parser.mindex = i
      BY <1>5, <1>6, <2>1, <2>2 DEF AtArg
    <2>4. MultiAt(w, s, d, t, c, x)
      BY <1>6, <1>8, <1>9, <2>3 DEF MultiAt, Tells, B
    <2>5. MultiDone(w, s, d, t, c, x, q)
      BY <1>3, <1>6, <2>2, <2>4, MultiParsed
    <2> QED BY <1>7, <1>8, <1>9, <1>2, <2>2, <2>5, MultiParsedExact
  <1>13. CASE \/ Waits(s, Pos(t, r), r.parser, h, i) /\ s[c].form = "inline"
              \/ InInline(s, Pos(t, r), r.parser, h, i)
    <2>1. /\ s[c].form = "inline" /\ x.parser.type = "inline" /\ Blank(x.parser)
          /\ i < Len(s[c].args) /\ Pos(t, x) = ArgEnd(s, c, i)
      <3>1. CASE Waits(s, Pos(t, r), r.parser, h, i) /\ s[c].form = "inline"
        <4>1. /\ x.parser.type = "inline" /\ Blank(x.parser) /\ i = 0
              /\ Pos(t, x) = CommandEnd[s][c - 1]
          BY <1>4, <1>5, <1>6, <1>8, <3>1 DEF Waits, Blank
        <4>2. ArgEnd(s, c, 0) = CommandEnd[s][c - 1]
          BY <1>8, <3>1, PlaceFacts DEF Places
        <4> QED BY <1>10, <3>1, <4>1, <4>2
      <3>2. CASE InInline(s, Pos(t, r), r.parser, h, i)
        BY <1>5, <1>6, <1>8, <3>2 DEF InInline, Blank
      <3> QED BY <1>13, <3>1, <3>2
    <2>2. InlineIs(s, t, c)
      BY <1>2, <1>8, <2>1 DEF InlineIs, Ready
    <2>3. InlineThere(s, t, c, i, Len(s[c].args), x)
      BY <1>2, <1>6, <1>8, <1>10, <2>1 DEF InlineThere
    <2>4. InlineExact(s, t, c, x)
      <3>1. i \in 0..Len(s[c].args)
        BY <1>2, <1>10, <2>1
      <3> QED BY <2>2, <2>3, <3>1 DEF InlineExact
    <2>5. InlineAt(w, s, d, t, c, x)
      BY <1>1, <1>6, <1>9, <2>4 DEF InlineAt, B
    <2>6. InlineDone(w, s, d, t, c, x, q)
      BY <1>3, <1>6, <2>1, <2>5, InlineParsed
    <2> QED BY <1>7, <1>8, <1>9, <1>2, <2>1, <2>6, InlineParsedExact
  <1> QED BY <1>7, <1>10, <1>11, <1>12, <1>13 DEF Exact

\* The first h commands.
Leading(s, h) == [c \in 1..h |-> Arguments(s, c)]

LEMMA ToldNext ==
  ASSUME NEW s \in Streams, NEW h \in 0..(Len(s) - 1)
  PROVE  /\ Append(Leading(s, h), Arguments(s, h + 1)) = Leading(s, h + 1)
         /\ Arguments(s, h + 1) \in Seq(Seq(Byte)) /\ h + 1 \in 0..Len(s) /\ h \in 0..Len(s)
  <1> DEFINE c == h + 1
             x == Leading(s, h)
             a == Arguments(s, c)
  <1>1. Len(s) \in Nat /\ [d \in 1..Len(s) |-> Arguments(s, d)] \in [1..Len(s) -> Seq(Seq(Byte))]
    BY ArgumentsTyped
  <1>2. h \in Nat /\ c \in Nat /\ c \in 1..Len(s) /\ c \in 0..Len(s) /\ h \in 0..Len(s)
        /\ 1..h \subseteq 1..Len(s) /\ \A d \in 1..c : d \in 1..Len(s) /\ (d \in 1..h \/ d = c)
        /\ c \notin 1..h /\ c = h + 1
    BY <1>1
  <1>3. \A d \in 1..Len(s) : Arguments(s, d) \in Seq(Seq(Byte))
    BY <1>1
  <1> HIDE DEF c
  <1> DEFINE T == Seq(Seq(Byte))
             A(d) == Arguments(s, d)
  <1>4. \A d \in 1..Len(s) : A(d) \in T
    BY <1>3
  <1> HIDE DEF T, A
  <1>5. [d \in 1..h |-> A(d)] \in Seq(T) /\ [d \in 1..c |-> A(d)] \in Seq(T) /\ A(c) \in T
    BY <1>2, <1>4
  <1>6. Append([d \in 1..h |-> A(d)], A(c)) = [d \in 1..c |-> A(d)]
    BY <1>2, <1>5
  <1> QED BY <1>2, <1>3, <1>6 DEF A, Leading, c

\* The command that was parsed is the next.
LEMMA ShownExact ==
  ASSUME NEW s \in Streams, NEW h \in 0..(Len(s) - 1), NEW d, NEW p, Sane(d, p),
         Given(p) = Told(s, h + 1, 0), p.pushed = Leading(s, h)
  PROVE  Shown(p) = Arguments(s, h + 1)
  <1> DEFINE c == h + 1
             x == FlattenSeq(Leading(s, h))
             S == Seq(Byte)
  <1>1. Len(s) \in Nat /\ h \in 0..Len(s) /\ c \in 0..Len(s) /\ h < Len(s) /\ c = h + 1
    BY CommandFacts
  <1>2. /\ x \in Seq(S) /\ FlattenSeq(Leading(s, c)) = x \o Arguments(s, c)
        /\ FlattenSeq(Leading(s, c)) \in Seq(S)
    BY <1>1, FirstArguments, Zenon DEF Leading
  <1>3. Given(p) = x \o Shown(p) /\ Shown(p) \in Seq(S)
    BY GivenTyped DEF Given
  <1>4. Arguments(s, c) \in Seq(S)
    BY ToldNext
  <1>5. Told(s, c, 0) = FlattenSeq(Leading(s, c)) \o <<>>
    <2>1. [j \in 1..0 |-> Argument(s, c + 1, j)] = <<>>
      OBVIOUS
    <2> QED BY <2>1 DEF Told, Leading
  <1> HIDE DEF x, S, c
  <1> DEFINE y == FlattenSeq(Leading(s, c))
  <1>6. y \in Seq(S)
    BY <1>2
  <1> HIDE DEF y
  <1>7. y \o <<>> = y
    BY <1>6
  <1>8. x \o Shown(p) = x \o Arguments(s, c)
    BY <1>2, <1>3, <1>5, <1>7, Zenon DEF y, c
  <1> QED BY <1>2, <1>3, <1>4, <1>8, JoinCancel, Zenon DEF c

\* A turn of the loop that begins and ends at an exact place: "quiet" is in w if the
\* bytes of the next command are not all there when none is asked for, and "whole" if
\* only commands were pushed.
PlacedAt(w, s, t, q, h, i) ==
  /\ Exact(s, Pos(t, q), q.parser, Given(q), h, i) /\ Ready(s, t, h)
  /\ "quiet" \in w /\ h < Len(s) =>
       /\ q.stop = "no" => Pos(t, q) < CommandEnd[s][h + 1]
       /\ q.stop \notin {"no", "refused", "unpredictable"} => t < CommandEnd[s][h + 1]
  /\ "whole" \in w /\ q.stop # "refused" => q.pushed = Leading(s, h)

Lost(s, q) == q.stop = "refused" /\ ~AllMulti(s)

Advances(w, t, r, q) ==
  "quiet" \in w /\ q.stop = "no" => (q = r /\ Size(r.input) = 0) \/ Pos(t, r) < Pos(t, q)

TurnIs(w, s, t, r, q) ==
  /\ Lost(s, q) \/ \E h, i : PlacedAt(w, s, t, q, h, i)
  /\ Advances(w, t, r, q)

\* The turn's parse ended inside its command.
LEMMA PartTurns ==
  ASSUME NEW w, NEW s \in Streams, NEW d \in Blocks, NEW t, NEW r, r.stop = "no",
         NEW h, NEW i, PlacedAt(w, s, t, r, h, i), NEW p, View(Bytes[s], d, t, p),
         SameRun(r, p), ParsedPart(s, t, h, p), NEW q, AfterIs(Bytes[s], d, t, p, q)
  PROVE  TurnIs(w, s, t, r, q)
  <1>1. /\ p.err # "OK" /\ (p.err = "unpredictable" \/ t < CommandEnd[s][h + 1])
        /\ \E j : Exact(s, Pos(t, p), p.parser, Given(p), h, j)
    BY DEF ParsedPart
  <1>2. PICK j : Exact(s, Pos(t, p), p.parser, Given(p), h, j)
    BY <1>1
  <1>3. /\ q.stop = p.err /\ q.parser = p.parser /\ q.pushed = p.pushed
        /\ Pos(t, q) = Pos(t, p) /\ Given(q) = Given(p)
    BY <1>1 DEF AfterIs
  <1>4. p.err # "no"
    <2>1. p.err \in Errors
      BY ParseFields DEF View, Sane
    <2> QED BY <2>1 DEF Errors
  <1>5. PlacedAt(w, s, t, q, h, j)
    <2>1. Exact(s, Pos(t, q), q.parser, Given(q), h, j) /\ Ready(s, t, h)
      BY <1>2, <1>3 DEF PlacedAt
    <2>2. "whole" \in w => q.pushed = Leading(s, h)
      BY <1>3 DEF PlacedAt, SameRun
    <2> QED BY <1>1, <1>3, <1>4, <2>1, <2>2 DEF PlacedAt
  <1> QED BY <1>3, <1>4, <1>5 DEF TurnIs, Advances

\* The turn's parse ended with its command.
LEMMA WholeTurns ==
  ASSUME NEW w, NEW s \in Streams, NEW d \in Blocks, NEW t, NEW r, r.stop = "no",
         NEW h, NEW i, PlacedAt(w, s, t, r, h, i), h < Len(s), NEW p, View(Bytes[s], d, t, p),
         SameRun(r, p), ParsedWhole(s, t, h, p), NEW q, AfterIs(Bytes[s], d, t, p, q)
  PROVE  TurnIs(w, s, t, r, q)
  <1> DEFINE c == h + 1
  <1>1. /\ p.err = "OK" /\ Pos(t, p) = CommandEnd[s][c] /\ Given(p) = Told(s, c, 0)
        /\ AllMulti(s) => \E j, k : Exact(s, Pos(t, p), p.parser, Given(p), j, k)
    BY DEF ParsedWhole
  <1>2. Pos(t, q) = Pos(t, p) /\ Given(q) = Given(p)
    BY DEF AfterIs
  <1>3. /\ h \in 0..(Len(s) - 1) /\ Len(s) \in Nat /\ c \in 1..Len(s) /\ c \in 0..Len(s)
        /\ c = h + 1 /\ h \in Nat
    <2>1. h \in 0..Len(s)
      BY DEF PlacedAt, Exact
    <2> QED BY <2>1, CommandFacts
  <1>4. SameRun(r, p) /\ "whole" \in w => p.pushed = Leading(s, h)
    BY DEF SameRun, PlacedAt
  <1> HIDE DEF c
  <1>5. CASE q.stop = "refused"
    <2>1. q.parser = p.parser
      BY <1>1, <1>5 DEF AfterIs
    <2>2. ASSUME AllMulti(s) PROVE \E j, k : PlacedAt(w, s, t, q, j, k)
      <3>1. PICK j, k : Exact(s, Pos(t, q), q.parser, Given(q), j, k)
        BY <1>1, <1>2, <2>1, <2>2
      <3>2. Ready(s, t, j)
        BY <2>2 DEF Ready, AllMulti
      <3>3. PlacedAt(w, s, t, q, j, k)
        BY <1>5, <3>1, <3>2 DEF PlacedAt
      <3> QED BY <3>3
    <2> QED BY <1>5, <2>2 DEF TurnIs, Lost, Advances
  <1>6. CASE q.stop # "refused"
    <2>1. /\ q.stop = "no" /\ q.parser = NewParser
          /\ q.pushed = Append(p.pushed, Shown(p))
      BY <1>1, <1>6 DEF AfterIs, SameRun
    <2>2. Exact(s, Pos(t, q), q.parser, Given(q), c, 0)
      <3>1. Blank(NewParser) /\ NewParser.type = "none"
        BY DEF Blank, NewParser
      <3>2. Waits(s, Pos(t, q), q.parser, c, 0)
        BY <1>1, <1>2, <2>1, <3>1 DEF Waits
      <3> QED BY <1>1, <1>2, <1>3, <3>2 DEF Exact
    <2>3. Ready(s, t, c)
      <3>1. Ready(s, t, h)
        BY DEF PlacedAt
      <3>2. \A e \in 1..Len(s) : c < e => h < e
        BY <1>3
      <3> QED BY <3>1, <3>2 DEF Ready
    <2>4. c < Len(s) => Pos(t, q) < CommandEnd[s][c + 1]
      <3>1. c < Len(s) => c + 1 \in 1..Len(s) /\ (c + 1) - 1 = c
        BY <1>3
      <3>2. c < Len(s) => CommandEnd[s][c] < CommandEnd[s][c + 1]
        BY <3>1, CommandLines
      <3> QED BY <1>1, <1>2, <3>2
    <2>5. "whole" \in w => q.pushed = Leading(s, c)
      <3>1. SUFFICES ASSUME "whole" \in w PROVE q.pushed = Leading(s, c)
        OBVIOUS
      <3>2. p.pushed = Leading(s, h) /\ Sane(d, p) /\ Given(p) = Told(s, h + 1, 0)
        BY <1>1, <1>3, <1>4, <3>1 DEF View
      <3>3. Shown(p) = Arguments(s, h + 1)
        BY <1>3, <3>2, ShownExact
      <3>4. Append(Leading(s, h), Arguments(s, h + 1)) = Leading(s, h + 1)
        BY <1>3, ToldNext
      <3> QED BY <1>3, <2>1, <3>2, <3>3, <3>4
    <2>6. PlacedAt(w, s, t, q, c, 0)
      BY <2>1, <2>2, <2>3, <2>4, <2>5 DEF PlacedAt
    <2>7. Advances(w, t, r, q)
      BY <1>1, <1>2, <1>3 DEF Advances, PlacedAt, c
    <2> QED BY <2>6, <2>7 DEF TurnIs
  <1> QED BY <1>5, <1>6

LEMMA TurnExact ==
  ASSUME NEW w, NEW s \in Streams, Regular(s), NEW d \in Blocks, NEW t, NEW r,
         Turning(s, d, t, r), NEW h, NEW i, PlacedAt(w, s, t, r, h, i)
  PROVE  TurnIs(w, s, t, r, NextCommand(r))
  <1>1. CASE r.stop # "no" \/ Size(r.input) = 0
    BY <1>1 DEF NextCommand, TurnIs, Advances
  <1>2. CASE r.stop = "no" /\ Size(r.input) # 0
    <2> DEFINE p == ParseRequest(r)
               q == AfterParse(p)
    <2>1. NextCommand(r) = q
      BY <1>2 DEF NextCommand
    <2>2. Unread(r) # <<>>
      <3>1. r.at + Len(Unread(r)) = Size(r.input) /\ Size(r.input) \in Nat /\ r.at = 0
        BY ViewFacts DEF Turning, Standing
      <3>2. Unread(r) = <<>> => Len(Unread(r)) = 0
        OBVIOUS
      <3> QED BY <1>2, <3>1, <3>2
    <2>3. Standing(s, d, t, p) /\ SameRun(r, p)
      BY <2>2, ParseStands DEF Turning
    <2>4. Exact(s, Pos(t, r), r.parser, Given(r), h, i) /\ Ready(s, t, h)
      BY DEF PlacedAt
    <2>5. h < Len(s) /\ (ParsedWhole(s, t, h, p) \/ ParsedPart(s, t, h, p))
      BY <2>2, <2>4, ParseExact DEF Turning
    <2> HIDE DEF p
    <2>6. View(Bytes[s], d, t, p) /\ p.stop = "no"
      BY <1>2, <2>3 DEF Standing, SameRun
    <2>7. AfterIs(Bytes[s], d, t, p, q)
      BY <2>6, AfterParseFacts
    <2> HIDE DEF q
    <2> QED BY <1>2, <2>1, <2>3, <2>5, <2>6, <2>7, PartTurns, WholeTurns
  <1> QED BY <1>1, <1>2

\* The k-th turn of the loop, of a read that began at position p.
AtTurn(w, s, d, t, p, k, q) ==
  /\ Turning(s, d, t, q)
  /\ Lost(s, q) \/ \E h, i : PlacedAt(w, s, t, q, h, i)
  /\ "quiet" \in w /\ q.stop = "no" => Size(q.input) = 0 \/ p + k <= Pos(t, q)

LEMMA NextTurn ==
  ASSUME NEW w, NEW s \in Streams, Regular(s), NEW d \in Blocks, NEW t, NEW p \in Nat,
         NEW k \in Nat, NEW r, AtTurn(w, s, d, t, p, k, r)
  PROVE  AtTurn(w, s, d, t, p, k + 1, NextCommand(r))
  <1> DEFINE q == NextCommand(r)
             m == k + 1
  <1>1. Turning(s, d, t, q) /\ Turning(s, d, t, r)
    BY TurnStands DEF AtTurn
  <1>2. CASE Lost(s, r)
    <2>1. q = r /\ r.stop = "refused"
      BY <1>2 DEF Lost, NextCommand
    <2> QED BY <1>1, <1>2, <2>1 DEF AtTurn
  <1>3. CASE \E h, i : PlacedAt(w, s, t, r, h, i)
    <2>1. PICK h, i : PlacedAt(w, s, t, r, h, i)
      BY <1>3
    <2>2. TurnIs(w, s, t, r, q)
      BY <1>1, <2>1, TurnExact
    <2>3. Pos(t, r) \in Nat /\ Pos(t, q) \in Nat
      <3>1. View(Bytes[s], d, t, r) /\ View(Bytes[s], d, t, q)
        BY <1>1 DEF Turning, Standing
      <3>2. Reads(Bytes[s], t, r, Pos(t, r), Len(Unread(r)))
        BY <3>1, ViewFacts
      <3>3. Reads(Bytes[s], t, q, Pos(t, q), Len(Unread(q)))
        BY <3>1, ViewFacts
      <3> QED BY <3>2, <3>3 DEF Reads
    <2> DEFINE x == Pos(t, r)
               y == Pos(t, q)
    <2>4. r.stop # "no" => q = r
      BY DEF NextCommand
    <2>5. /\ "quiet" \in w /\ r.stop = "no" => Size(r.input) = 0 \/ p + k <= x
          /\ "quiet" \in w /\ q.stop = "no" => (q = r /\ Size(r.input) = 0) \/ x < y
      BY <2>2 DEF AtTurn, TurnIs, Advances
    <2>7. Size(r.input) = 0 => q = r
      BY DEF NextCommand
    <2> HIDE DEF x, y, q
    <2>6. "quiet" \in w /\ q.stop = "no" => Size(q.input) = 0 \/ p + m <= y
      <3>1. SUFFICES ASSUME "quiet" \in w, q.stop = "no"
                     PROVE  Size(q.input) = 0 \/ p + m <= y
        OBVIOUS
      <3>2. CASE Size(r.input) = 0
        BY <2>7, <3>2
      <3>3. CASE Size(r.input) # 0
        <4>1. p + k <= x /\ x < y /\ x \in Nat /\ y \in Nat
          BY <2>3, <2>4, <2>5, <3>1, <3>3 DEF x, y
        <4> QED BY <4>1
      <3> QED BY <3>2, <3>3
    <2> QED BY <1>1, <2>2, <2>6 DEF AtTurn, TurnIs, q, y
  <1> QED BY <1>2, <1>3 DEF AtTurn

\* Where the loop ends: "quiet" in w, a command of which all is there is shown.
Ended(w, s, t, q, h, i) ==
  /\ Exact(s, Pos(t, q), q.parser, Given(q), h, i)
  /\ "quiet" \in w /\ h < Len(s) /\ q.stop \notin {"refused", "unpredictable"} =>
       t < CommandEnd[s][h + 1]
  /\ "whole" \in w /\ q.stop # "refused" => q.pushed = Leading(s, h)

LEMMA CommandsExact ==
  ASSUME NEW w, NEW s \in Streams, Regular(s), NEW d \in Blocks, NEW t, NEW r,
         Turning(s, d, t, r), NEW h, NEW i, PlacedAt(w, s, t, r, h, i)
  PROVE  Lost(s, Commands(r)) \/ \E j, k : Ended(w, s, t, Commands(r), j, k)
  <1> DEFINE n == Size(r.input) + 2
             p == Pos(t, r)
             W == {x \in Nat \X Parse : AtTurn(w, s, d, t, p, x[1], x[2])}
  <1>1. /\ Sane(d, r) /\ r \in Parse /\ n = Size(r.input) + 2
        /\ View(Bytes[s], d, t, r) /\ r.at = 0
    BY DEF Turning, Standing, View, Sane
  <1>2. /\ p \in Nat /\ p = (t - Size(r.input)) + r.at /\ Size(r.input) \in Nat
        /\ t \in Nat
    <2>1. Reads(Bytes[s], t, r, Pos(t, r), Len(Unread(r)))
      BY <1>1, ViewFacts
    <2> QED BY <1>1, <2>1, ViewFacts DEF Reads, View
  <1> HIDE DEF n, p
  <1>3. n \in Nat /\ \E f : /\ Commands(r) = f[n] /\ f[0] = r
                            /\ \A k \in 1..n : f[k] = NextCommand(f[k - 1])
    BY <1>1, CommandsTurns
  <1>4. PICK f : /\ Commands(r) = f[n] /\ f[0] = r
                 /\ \A k \in 1..n : f[k] = NextCommand(f[k - 1])
    BY <1>3
  <1>5. <<0, f[0]>> \in W
    <2>1. AtTurn(w, s, d, t, p, 0, r)
      BY <1>2 DEF AtTurn, p
    <2> QED BY <1>1, <1>4, <2>1
  <1>6. ASSUME NEW k \in 1..n, <<k - 1, f[k - 1]>> \in W PROVE <<k, f[k]>> \in W
    <2> DEFINE m == k - 1
               x == f[m]
               y == f[k]
    <2>1. AtTurn(w, s, d, t, p, m, x)
      BY <1>6
    <2>2. m \in Nat /\ m + 1 = k /\ k \in Nat /\ y = NextCommand(x)
      BY <1>3, <1>4
    <2> HIDE DEF m, x, y
    <2>3. AtTurn(w, s, d, t, p, k, y)
      BY <1>2, <2>1, <2>2, NextTurn
    <2>4. y \in Parse
      BY <2>3 DEF AtTurn, Turning, Standing, View, Sane
    <2> QED BY <2>2, <2>3, <2>4 DEF y
  <1> HIDE DEF W
  <1>7. <<n, f[n]>> \in W
    BY <1>3, <1>5, <1>6, StepInvariance
  <1> DEFINE q == Commands(r)
  <1>8. AtTurn(w, s, d, t, p, n, q)
    BY <1>4, <1>7 DEF W
  <1> HIDE DEF q
  <1>9. "quiet" \in w /\ q.stop = "no" => Pos(t, q) = t
    <2>1. SUFFICES ASSUME "quiet" \in w, q.stop = "no" PROVE Pos(t, q) = t
      OBVIOUS
    <2>2. View(Bytes[s], d, t, q) /\ q.at = 0
      BY <1>8 DEF AtTurn, Turning, Standing
    <2>3. Reads(Bytes[s], t, q, Pos(t, q), Len(Unread(q)))
          /\ Pos(t, q) = (t - Size(q.input)) + q.at
      BY <2>2, ViewFacts
    <2> DEFINE x == Pos(t, q)
               u == Len(Unread(q))
    <2>4. x \in Nat /\ u \in Nat /\ x + u = t
      BY <2>3 DEF Reads
    <2> HIDE DEF x, u
    <2>5. p + n = t + 2
      BY <1>1, <1>2
    <2>6. Size(q.input) = 0 \/ t + 2 <= x
      BY <1>8, <2>1, <2>5 DEF AtTurn, x
    <2>7. Size(q.input) = 0
      BY <1>2, <2>4, <2>6
    <2> QED BY <1>2, <2>2, <2>3, <2>7
  <1>10. ASSUME NEW j, NEW k, PlacedAt(w, s, t, q, j, k) PROVE Ended(w, s, t, q, j, k)
    BY <1>9, <1>10 DEF PlacedAt, Ended
  <1> QED BY <1>8, <1>10 DEF AtTurn, q

\* Inline commands that did not begin to arrive arrive one by one.
LEMMA StartReady ==
  ASSUME NEW s \in Streams, NEW h \in 0..Len(s), NEW n \in Nat, NEW t \in Nat,
         \/ AllMulti(s)
         \/ /\ h < Len(s) => t < CommandEnd[s][h + 1]
            /\ \A c \in 1..Len(s) :
                 t < CommandEnd[s][c] /\ CommandEnd[s][c] <= (t + n) - 1 => s[c].form # "inline"
  PROVE  Ready(s, t + n, h)
  <1> SUFFICES ASSUME NEW c \in 1..Len(s), h < c, s[c].form = "inline"
               PROVE  t + n <= CommandEnd[s][c]
    BY DEF Ready
  <1> DEFINE g == h + 1
  <1>1. ~AllMulti(s)
    BY DEF AllMulti
  <1>2. Len(s) \in Nat /\ g \in 0..Len(s) /\ c \in 0..Len(s) /\ g <= c /\ h < Len(s)
    BY CommandFacts
  <1>3. CommandEnd[s][g] <= CommandEnd[s][c] /\ CommandEnd[s][g] \in Nat
        /\ CommandEnd[s][c] \in Nat
    BY <1>2, StreamInOrder DEF InOrder
  <1>4. t < CommandEnd[s][g]
    BY <1>1, <1>2
  <1>5. ~(t < CommandEnd[s][c] /\ CommandEnd[s][c] <= (t + n) - 1)
    BY <1>1
  <1> DEFINE x == CommandEnd[s][g]
             y == CommandEnd[s][c]
  <1>6. x <= y /\ x \in Nat /\ y \in Nat /\ t < x /\ ~(t < y /\ y <= (t + n) - 1)
    BY <1>3, <1>4, <1>5
  <1> HIDE DEF x, y
  <1>7. t + n <= y
    BY <1>6
  <1> QED BY <1>7 DEF y

\* Nothing is held between whole commands.
LEMMA NothingHeld ==
  ASSUME NEW s \in Streams, NEW h \in 0..Len(s), NEW y \in Seq(Seq(Byte)),
         FlattenSeq(Leading(s, h)) \o y = Told(s, h, 0)
  PROVE  y = <<>>
  <1> DEFINE x == FlattenSeq(Leading(s, h))
             S == Seq(Byte)
             e == [j \in 1..0 |-> Argument(s, h + 1, j)]
  <1>1. x \in Seq(S)
    BY FirstArguments, Zenon DEF Leading
  <1>2. e = <<>>
    OBVIOUS
  <1>3. x \o y = x \o e
    BY DEF Told, Leading
  <1> HIDE DEF x, S, e
  <1>4. <<>> \in Seq(S)
    OBVIOUS
  <1>5. e \in Seq(S) /\ y \in Seq(S)
    BY <1>2, <1>4 DEF S
  <1>6. y = e
    BY <1>1, <1>3, <1>5, JoinCancel, Zenon
  <1> QED BY <1>2, <1>6

LEMMA ArgEndsGrow ==
  ASSUME NEW s \in Streams, NEW c \in 1..Len(s), NEW i \in 1..Len(s[c].args)
  PROVE  ArgEnd(s, c, 1) \in Nat /\ ArgEnd(s, c, i) \in Nat
         /\ ArgEnd(s, c, 1) <= ArgEnd(s, c, i)
  <1> DEFINE a == Len(s[c].args)
             n == a - 1
             f == [k \in 0..n |-> ArgEnd(s, c, k + 1)]
             V == {x \in Nat : ArgEnd(s, c, 1) <= x}
  <1>1. a \in Nat /\ n \in Nat /\ 1 <= a /\ i \in 1..a
    BY CommandFacts
  <1>2. /\ \A k \in 0..a : ArgEnd(s, c, k) \in Nat
        /\ \A k \in 1..a : ArgEnd(s, c, k) = ArgEnd(s, c, k - 1) + Len(Part(s, c, k))
    BY PlaceFacts DEF Places
  <1>3. \A k \in 1..a : Len(Part(s, c, k)) \in Nat
    <2>1. \A k \in 1..a : Part(s, c, k) \in Seq(Byte)
      BY PartTyped
    <2> QED BY <2>1
  <1>4. f[0] \in V /\ f[0] = ArgEnd(s, c, 1)
    <2>1. 0 \in 0..n /\ 0 + 1 = 1 /\ 1 \in 0..a
      BY <1>1
    <2> HIDE DEF a, n
    <2>2. f[0] = ArgEnd(s, c, 1)
      BY <2>1
    <2>3. ArgEnd(s, c, 1) \in Nat
      BY <1>2, <2>1
    <2> HIDE DEF f
    <2> QED BY <2>2, <2>3
  <1>5. ASSUME NEW k \in 1..n, f[k - 1] \in V PROVE f[k] \in V
    <2> DEFINE m == k + 1
    <2>1. k \in 0..n /\ k - 1 \in 0..n /\ (k - 1) + 1 = k /\ m \in 1..a /\ m - 1 = k
          /\ k \in 0..a /\ m \in 0..a
      BY <1>1
    <2>2. f[k - 1] = ArgEnd(s, c, k) /\ f[k] = ArgEnd(s, c, m)
      BY <2>1
    <2> HIDE DEF m, a, n, f
    <2>3. ArgEnd(s, c, m) = ArgEnd(s, c, k) + Len(Part(s, c, m))
      BY <1>2, <2>1
    <2> DEFINE x == ArgEnd(s, c, k)
               y == ArgEnd(s, c, m)
               z == Len(Part(s, c, m))
               u == ArgEnd(s, c, 1)
    <2>4. x \in V /\ y \in Nat /\ z \in Nat /\ y = x + z /\ u \in Nat
      <3>1. 1 \in 0..a
        BY <1>1
      <3> QED BY <1>2, <1>3, <1>5, <2>1, <2>2, <2>3, <3>1
    <2>5. x \in Nat /\ u <= x
      BY <2>4
    <2> HIDE DEF x, y, z, u
    <2>6. u <= y
      BY <2>4, <2>5
    <2> QED BY <2>2, <2>4, <2>6 DEF u, y
  <1> HIDE DEF f, V
  <1>6. \A k \in 0..n : f[k] \in V
    BY <1>1, <1>4, <1>5, Invariance, Zenon
  <1>7. i - 1 \in 0..n /\ (i - 1) + 1 = i
    BY <1>1
  <1>8. f[i - 1] \in V
    BY <1>6, <1>7
  <1> DEFINE j == i - 1
  <1>9. f[j] = ArgEnd(s, c, i)
    <2>1. j \in 0..n /\ j + 1 = i
      BY <1>7
    <2> HIDE DEF j
    <2> QED BY <2>1 DEF f
  <1>10. ArgEnd(s, c, i) \in V
    BY <1>8, <1>9
  <1>11. f[0] \in Nat
    BY <1>4 DEF V
  <1> QED BY <1>4, <1>10, <1>11 DEF V

\* A read that ends behind an argument inside its command cuts it.
LEMMA CutBehindArgument ==
  ASSUME NEW s \in Streams, NEW p \in Nat, NEW t \in Nat, p <= t, NEW ps, NEW given,
         NEW h, NEW i, Exact(s, p, ps, given, h, i), i # 0,
         h < Len(s) => t < CommandEnd[s][h + 1]
  PROVE  \E c \in 1..Len(s) : /\ s[c].args # <<>> /\ ArgEnd(s, c, 1) <= t
                              /\ t < CommandEnd[s][c]
  <1> DEFINE c == h + 1
  <1>1. h \in 0..Len(s) /\ i \in Nat /\ Len(s) \in Nat /\ h < Len(s)
    BY CommandFacts DEF Exact, Waits, InMulti, InInline
  <1>2. c \in 1..Len(s) /\ t < CommandEnd[s][c] /\ c = h + 1
    BY <1>1
  <1> HIDE DEF c
  <1>3. i \in 1..Len(s[c].args) /\ ArgEnd(s, c, i) <= p
    <2>1. Len(s[c].args) \in Nat
      BY <1>2, CommandFacts
    <2>2. CASE InMulti(s, p, ps, h, i)
      <3>1. AtArg(s, p, c, ps) /\ ps.mindex = i
        BY <1>2, <2>2 DEF InMulti
      <3>2. i \in 0..Len(s[c].args) /\ (p = ArgEnd(s, c, i) \/ p = ArgEnd(s, c, i) + 2)
        BY <3>1 DEF AtArg
      <3>3. ArgEnd(s, c, i) \in Nat
        BY <1>2, <3>2, PlaceFacts DEF Places
      <3> DEFINE x == ArgEnd(s, c, i)
      <3>4. x \in Nat /\ (p = x \/ p = x + 2)
        BY <3>2, <3>3
      <3> HIDE DEF x
      <3>5. x <= p
        BY <3>4
      <3> QED BY <1>1, <2>1, <3>2, <3>5 DEF x
    <2>3. CASE InInline(s, p, ps, h, i)
      <3>1. i < Len(s[c].args) /\ p = ArgEnd(s, c, i)
        BY <1>2, <2>3 DEF InInline
      <3> QED BY <1>1, <2>1, <3>1
    <2> QED BY <2>2, <2>3 DEF Exact, Waits
  <1>4. ArgEnd(s, c, 1) <= t
    <2>1. ArgEnd(s, c, 1) \in Nat /\ ArgEnd(s, c, i) \in Nat
          /\ ArgEnd(s, c, 1) <= ArgEnd(s, c, i)
      BY <1>2, <1>3, ArgEndsGrow
    <2> DEFINE x == ArgEnd(s, c, 1)
               y == ArgEnd(s, c, i)
    <2>2. x \in Nat /\ y \in Nat /\ x <= y /\ y <= p
      BY <1>3, <2>1
    <2> HIDE DEF x, y
    <2>3. x <= t
      BY <2>2
    <2> QED BY <2>3 DEF x
  <1>5. s[c].args # <<>>
    <2>1. s[c].args = <<>> => Len(s[c].args) = 0
      OBVIOUS
    <2> QED BY <1>3, <2>1
  <1> QED BY <1>2, <1>4, <1>5

\* Where a session is: h commands and i arguments of the next were shown, l was lost,
\* and ds disturbed it.
ExactAt(s, t, p, ps, given, pu, l, ds, h, i) ==
  /\ Exact(s, p, ps, given, h, i)
  /\ l = "no" /\ ds \subseteq {"cut"} /\ h < Len(s) => t < CommandEnd[s][h + 1]
  /\ l = "no" /\ ds = {} => i = 0 /\ pu = Leading(s, h)

Followed(s, t, p, ps, given, pu, l, ds) ==
  ds \subseteq {"cut"} \/ AllMulti(s) =>
    \E h, i : ExactAt(s, t, p, ps, given, pu, l, ds, h, i)

\* What is inductive, and says more of the place of the parser than StandInv does.
ExactInv ==
  /\ StandInv
  /\ Followed(stream, taken, taken - Size(input), parser,
              FlattenSeq(pushed) \o Showing(heap, argv), pushed, lost, disturbed)

LEMMA InitExact == Init => ExactInv
  <1> SUFFICES ASSUME Init PROVE ExactInv
    OBVIOUS
  <1> DEFINE s == stream
             x == <<>>
  <1>1. /\ StandInv /\ s \in Streams /\ taken = 0 /\ argv = <<>> /\ pushed = <<>>
        /\ parser = NewParser
    BY InitStands DEF Init
  <1>2. Size(input) = 0
    <2>1. Junk \in Byte
      BY DEF Junk, Byte, Kinds
    <2> QED BY <2>1, InitialSound DEF Init
  <1>3. taken - Size(input) = 0
    BY <1>1, <1>2
  <1>4. FlattenSeq(x) = <<>> /\ x \o x = x
    <2> DEFINE S == Seq(Byte)
    <2>0. x \in Seq(Seq(S)) /\ x \in Seq(S)
      OBVIOUS
    <2> HIDE DEF S
    <2>1. FlattensMore(S, x, x)
      BY <2>0, FlatMore, Zenon
    <2> QED BY <2>1 DEF FlattensMore
  <1>5. FlattenSeq(pushed) \o Showing(heap, argv) = x
    <2>1. Showing(heap, argv) = <<>>
      BY <1>1 DEF Showing
    <2> QED BY <1>1, <1>4, <2>1
  <1>6. Told(s, 0, 0) = x
    <2>1. Len(s) \in Nat /\ 0 \in 0..Len(s)
      BY <1>1, CommandFacts
    <2>2. FlattenSeq([d \in 1..0 |-> Arguments(s, d)]) = x
      BY <1>1, <2>1, FirstArguments, Zenon
    <2>3. [j \in 1..0 |-> Argument(s, 0 + 1, j)] = x
      OBVIOUS
    <2> QED BY <1>4, <2>2, <2>3 DEF Told
  <1>7. Leading(s, 0) = x
    BY DEF Leading
  <1> HIDE DEF x, s
  <1>8. Len(s) \in Nat /\ CommandEnd[s][0] = 0
    BY <1>1, CommandFacts, StreamInOrder DEF InOrder
  <1>9. 0 < Len(s) => taken < CommandEnd[s][0 + 1]
    <2>1. 0 < Len(s) => 1 \in 1..Len(s) /\ 1 - 1 = 0 /\ 0 + 1 = 1
      BY <1>8
    <2>2. 0 < Len(s) => CommandEnd[s][0] < CommandEnd[s][1]
      BY <1>1, <2>1, CommandLines
    <2> QED BY <1>1, <1>8, <2>1, <2>2
  <1>10. Exact(s, 0, NewParser, x, 0, 0)
    <2>1. Waits(s, 0, NewParser, 0, 0)
      BY <1>8 DEF Waits, Blank, NewParser
    <2> QED BY <1>6, <1>8, <2>1 DEF Exact
  <1>11. ExactAt(s, taken, 0, parser, x, pushed, lost, disturbed, 0, 0)
    BY <1>1, <1>7, <1>9, <1>10 DEF ExactAt, x
  <1>12. Followed(s, taken, 0, parser, x, pushed, lost, disturbed)
    BY <1>11 DEF Followed
  <1> QED BY <1>1, <1>3, <1>5, <1>12, Zenon DEF ExactInv, s

\* The loop that follows a read ends at an exact place if the read begins at one.
LEMMA ReadFollowed ==
  ASSUME ExactInv, NEW d \in Blocks, NEW n, NEW m, NEW r, NEW g, Reading(n, d, m, r, g),
         NEW t, t = taken + n, NEW p, p = taken - Size(input),
         NEW given, given = FlattenSeq(pushed) \o Showing(heap, argv),
         NEW room, NEW x, Began(Bytes[stream], d, t, p, given, m, room, x),
         r = Commands(x), Turning(stream, d, t, x), Regular(stream),
         NEW h, NEW i, ExactAt(stream, taken, p, parser, given, pushed, lost, disturbed, h, i),
         disturbed' \subseteq {"cut"} \/ AllMulti(stream),
         p \in Nat, p <= taken
  PROVE  \E j, k : ExactAt(stream, t, Pos(t, r), r.parser, Given(r), r.pushed, lost',
                           disturbed', j, k)
  <1> DEFINE s == stream
  <1>1. /\ Leaves(n, r, g) /\ lost = "no" /\ n \in Nat /\ taken \in Nat /\ s \in Streams
    BY DEF Reading
  <1>2. /\ disturbed \subseteq disturbed'
        /\ r.stop = "refused" => "refused" \in disturbed'
        /\ CutsCommand(t) => "cut" \in disturbed'
        /\ (\E c \in Between(taken, t - 1) : s[c].form = "inline") => "joined" \in disturbed'
        /\ r.stop = "unpredictable" => lost' = "atoi"
    BY <1>1 DEF Leaves
  <1>3. /\ Exact(s, p, parser, given, h, i)
        /\ disturbed \subseteq {"cut"} /\ h < Len(s) => taken < CommandEnd[s][h + 1]
        /\ disturbed = {} => i = 0 /\ pushed = Leading(s, h)
    BY <1>1 DEF ExactAt
  <1>4. h \in 0..Len(s) /\ Len(s) \in Nat /\ given = Told(s, h, i)
    BY <1>1, <1>3, CommandFacts DEF Exact
  <1>5. /\ Pos(t, x) = p /\ Given(x) = given /\ x.parser = parser
        /\ \/ argv = <<>> /\ x.stop = "no" /\ x.pushed = pushed
           \/ argv # <<>> /\ x.stop \in {"no", "refused"}
    BY DEF Began, Starting
  <1> HIDE DEF s
  <1>6. Ready(s, t, h)
    <2>1. \/ AllMulti(s)
          \/ /\ h < Len(s) => taken < CommandEnd[s][h + 1]
             /\ \A c \in 1..Len(s) :
                  taken < CommandEnd[s][c] /\ CommandEnd[s][c] <= (taken + n) - 1
                    => s[c].form # "inline"
      <3>1. SUFFICES ASSUME ~AllMulti(s)
                     PROVE  /\ h < Len(s) => taken < CommandEnd[s][h + 1]
                            /\ \A c \in 1..Len(s) :
                                 taken < CommandEnd[s][c] /\ CommandEnd[s][c] <= (taken + n) - 1
                                   => s[c].form # "inline"
        OBVIOUS
      <3>2. disturbed' \subseteq {"cut"} /\ "joined" \notin disturbed'
        BY <3>1 DEF s
      <3>3. disturbed \subseteq {"cut"}
        BY <1>2, <3>2
      <3>4. \A c \in Between(taken, t - 1) : s[c].form # "inline"
        BY <1>2, <3>2
      <3> QED BY <1>3, <3>3, <3>4 DEF Between, s
    <2>2. Ready(s, taken + n, h)
      BY <1>1, <1>4, <2>1, StartReady DEF s
    <2> QED BY <2>2
  <1> DEFINE w == {y \in {"quiet", "whole"} :
                     \/ y = "quiet" /\ disturbed \subseteq {"cut"}
                     \/ y = "whole" /\ disturbed = {}}
  <1>7. /\ "quiet" \in w <=> disturbed \subseteq {"cut"}
        /\ "whole" \in w <=> disturbed = {}
    OBVIOUS
  <1> HIDE DEF w
  <1>8. "whole" \in w => argv = <<>>
    <2>1. SUFFICES ASSUME "whole" \in w PROVE argv = <<>>
      OBVIOUS
    <2>2. i = 0 /\ pushed = Leading(s, h)
      BY <1>3, <1>7, <2>1
    <2> DEFINE y == Showing(heap, argv)
    <2>3. y \in Seq(Seq(Byte)) /\ Len(y) = Len(argv) /\ argv \in Seq(Pointer)
      <3>1. argv \in Seq(Pointer) /\ Sound(Byte, heap, argv, input)
        BY DEF ExactInv, StandInv, IInv, Sound
      <3>2. \A k \in 1..Len(argv) : Contents(heap, argv[k]) \in Seq(Byte)
        BY <3>1, ShownFacts
      <3>3. Len(argv) \in Nat
        BY <3>1
      <3> QED BY <3>1, <3>2, <3>3 DEF Showing
    <2>4. FlattenSeq(Leading(s, h)) \o y = Told(s, h, 0)
      BY <1>4, <2>2, Zenon
    <2> HIDE DEF y
    <2>5. y = <<>>
      BY <1>1, <1>4, <2>3, <2>4, NothingHeld, Zenon
    <2>6. Len(argv) = 0
      BY <2>3, <2>5
    <2> QED BY <2>3, <2>6
  <1>9. PlacedAt(w, s, t, x, h, i)
    <2>1. Exact(s, Pos(t, x), x.parser, Given(x), h, i)
      BY <1>3, <1>5
    <2>2. "quiet" \in w /\ h < Len(s) => p < CommandEnd[s][h + 1]
      <3>1. SUFFICES ASSUME "quiet" \in w, h < Len(s) PROVE p < CommandEnd[s][h + 1]
        OBVIOUS
      <3>2. taken < CommandEnd[s][h + 1]
        BY <1>3, <1>7, <3>1
      <3>3. h + 1 \in 0..Len(s)
        BY <1>4, <3>1
      <3>4. CommandEnd[s][h + 1] \in Nat
        BY <1>1, <3>3, StreamInOrder DEF InOrder
      <3> QED BY <1>1, <3>2, <3>4
    <2>3. "whole" \in w /\ x.stop # "refused" => x.pushed = Leading(s, h)
      BY <1>3, <1>5, <1>7, <1>8
    <2>4. x.stop \in {"no", "refused"}
      BY <1>5
    <2> QED BY <1>5, <1>6, <2>1, <2>2, <2>3, <2>4 DEF PlacedAt
  <1>10. Turning(s, d, t, x) /\ Regular(s)
    BY DEF s
  <1>11. Lost(s, r) \/ \E j, k : Ended(w, s, t, r, j, k)
    BY <1>1, <1>9, <1>10, CommandsExact
  <1>12. ~Lost(s, r)
    BY <1>2 DEF Lost, s
  <1>13. PICK j, k : Ended(w, s, t, r, j, k)
    BY <1>11, <1>12
  <1>14. Exact(s, Pos(t, r), r.parser, Given(r), j, k)
    BY <1>13 DEF Ended
  <1>15. lost' = "no" /\ disturbed' \subseteq {"cut"} /\ j < Len(s)
           => t < CommandEnd[s][j + 1]
    <2>1. SUFFICES ASSUME lost' = "no", disturbed' \subseteq {"cut"}, j < Len(s)
                   PROVE  t < CommandEnd[s][j + 1]
      OBVIOUS
    <2>2. "quiet" \in w /\ r.stop \notin {"refused", "unpredictable"}
      BY <1>2, <1>7, <2>1, Zenon
    <2> QED BY <1>13, <2>1, <2>2 DEF Ended
  <1>16. lost' = "no" /\ disturbed' = {} => k = 0 /\ r.pushed = Leading(s, j)
    <2>1. SUFFICES ASSUME lost' = "no", disturbed' = {}
                   PROVE  k = 0 /\ r.pushed = Leading(s, j)
      OBVIOUS
    <2>2. "whole" \in w /\ r.stop # "refused" /\ ~CutsCommand(t)
      BY <1>2, <1>7, <2>1
    <2>3. r.pushed = Leading(s, j)
      BY <1>13, <2>2 DEF Ended
    <2>4. j < Len(s) => t < CommandEnd[s][j + 1]
      BY <1>15, <2>1
    <2>5. Pos(t, r) \in Nat /\ Pos(t, r) <= t /\ t \in Nat
      <3>1. Turning(s, d, t, r)
        <4>1. Turning(s, d, t, Commands(x))
          BY <1>1, <1>10, CommandsStand
        <4> QED BY <4>1
      <3>2. View(Bytes[s], d, t, r)
        BY <3>1 DEF Turning, Standing
      <3>3. Reads(Bytes[s], t, r, Pos(t, r), Len(Unread(r)))
        BY <3>2, ViewFacts
      <3> DEFINE a == Pos(t, r)
                 b == Len(Unread(r))
      <3>4. a \in Nat /\ b \in Nat /\ a + b = t
        BY <3>3 DEF Reads
      <3> HIDE DEF a, b
      <3>5. a \in Nat /\ a <= t /\ t \in Nat
        BY <3>4
      <3> QED BY <3>5 DEF a
    <2>6. ASSUME k # 0 PROVE FALSE
      <3>1. \E c \in 1..Len(s) : /\ s[c].args # <<>> /\ ArgEnd(s, c, 1) <= t
                                 /\ t < CommandEnd[s][c]
        BY <1>1, <1>14, <2>4, <2>5, <2>6, CutBehindArgument, Zenon
      <3> QED BY <2>2, <3>1 DEF CutsCommand, s
    <2> QED BY <2>3, <2>6
  <1>17. ExactAt(s, t, Pos(t, r), r.parser, Given(r), r.pushed, lost', disturbed', j, k)
    BY <1>14, <1>15, <1>16 DEF ExactAt
  <1> QED BY <1>17 DEF s

LEMMA ReadExact ==
  ASSUME ExactInv, NEW n \in 0..SmallerOf(FreeSize(heap, input), Length(stream) - taken),
         NEW room \in 0..MaxRoom, OnReadable(n, room)
  PROVE  ExactInv'
  <1> DEFINE B == Bytes[stream]
             t == taken + n
             p == taken - Size(input)
             given == FlattenSeq(pushed) \o Showing(heap, argv)
  <1>1. StandInv /\ StandInv' /\ IInv
    BY ReadStands DEF ExactInv, StandInv
  <1>2. PICK d, m, r, g :
           /\ Reading(n, d, m, r, g) /\ room \in Nat /\ r = Handled(m, room)
           /\ Sees(B, taken, heap, input, argv) =>
                /\ Sees(B, t, m.heap, m.buf, argv)
                /\ Showing(m.heap, argv) = Showing(heap, argv)
                /\ t - Size(m.buf) = p
    BY <1>1, ReadingFacts
  <1>3. /\ d \in Blocks /\ m.buf.data # Null /\ Sound(Byte, m.heap, argv, m.buf)
        /\ m.heap[d].refs = 0 /\ Leaves(n, r, g) /\ g = Grown(r)
        /\ stream \in Streams /\ lost = "no"
    BY <1>2 DEF Reading
  <1>4. /\ taken' = t /\ heap' = g.heap /\ input' = g.buf /\ parser' = r.parser
        /\ argv' = r.argv /\ pushed' = r.pushed /\ stream' = stream
        /\ disturbed \subseteq disturbed'
        /\ ("spaces" \in disturbed' <=> "spaces" \in disturbed)
    BY <1>3 DEF Leaves
  <1>5. t = taken + n
    OBVIOUS
  <1> HIDE DEF t
  <1>6. ASSUME disturbed' \subseteq {"cut"} \/ AllMulti(stream)
        PROVE  /\ t - Size(g.buf) = Pos(t, r) /\ Showing(g.heap, r.argv) = Shown(r)
               /\ \E j, k : ExactAt(stream, t, Pos(t, r), r.parser, Given(r), r.pushed, lost',
                                    disturbed', j, k)
    <2>1. Regular(stream)
      BY <1>1, <1>4, <1>6 DEF Regular, StandInv
    <2>2. Sees(B, taken, heap, input, argv) /\ Stands(stream, p, parser) /\ Total(B, p, given)
      BY <1>1, <2>1 DEF StandInv, Stood
    <2>3. Sees(B, t, m.heap, m.buf, argv) /\ t - Size(m.buf) = p
          /\ given = FlattenSeq(pushed) \o Showing(m.heap, argv)
      BY <1>2, <2>2
    <2>4. PICK h, i : ExactAt(stream, taken, p, parser, given, pushed, lost, disturbed, h, i)
      <3>1. disturbed \subseteq {"cut"} \/ AllMulti(stream)
        BY <1>4, <1>6
      <3> QED BY <3>1 DEF ExactInv, Followed
    <2>5. p \in Nat /\ p <= taken
      <3>1. Shared(Byte, heap, input, HeldBy(argv))
        BY <1>1 DEF IInv, Sound
      <3>2. Size(input) \in Nat
        BY <3>1, SharedFacts
      <3>3. taken \in Nat /\ Size(input) <= taken
        BY <2>2 DEF Sees
      <3> QED BY <3>2, <3>3
    <2>6. p = taken - Size(input) /\ given = FlattenSeq(pushed) \o Showing(heap, argv)
      OBVIOUS
    <2> HIDE DEF B, p, given
    <2>7. \E x : Began(B, d, t, p, given, m, room, x)
      <3>1. p = t - Size(m.buf) /\ room \in Nat
        BY <1>2, <2>3
      <3>2. given = FlattenSeq(pushed) \o Showing(m.heap, argv)
        BY <2>3
      <3> QED BY <1>1, <1>3, <2>3, <3>1, <3>2, StartFacts, Zenon
    <2>8. PICK x : Began(B, d, t, p, given, m, room, x)
      BY <2>7
    <2>9. Turning(stream, d, t, x) /\ r = Commands(x)
      BY <1>2, <2>2, <2>8 DEF Began, Starting, Turning, Standing, B
    <2>10. Began(Bytes[stream], d, t, p, given, m, room, x)
      BY <2>8 DEF B
    <2>0. d \in Blocks
      BY <1>3
    <2>11. \E j, k : ExactAt(stream, t, Pos(t, r), r.parser, Given(r), r.pushed, lost',
                            disturbed', j, k)
      BY <1>2, <1>5, <1>6, <2>0, <2>1, <2>4, <2>5, <2>6, <2>9, <2>10, ReadFollowed, Zenon
    <2>12. Turning(stream, d, t, r)
      <3>1. Turning(stream, d, t, Commands(x))
        BY <1>3, <2>1, <2>9, CommandsStand
      <3> QED BY <2>9, <3>1
    <2>13. View(B, d, t, r) /\ r.at = 0
      BY <2>12 DEF Turning, Standing, B
    <2>14. Showing(g.heap, r.argv) = Shown(r) /\ t - Size(g.buf) = Pos(t, r)
      BY <1>3, <2>13, GrownSees
    <2> QED BY <2>11, <2>14
  <1>7. Followed(stream, t, t - Size(g.buf), r.parser,
                 FlattenSeq(r.pushed) \o Showing(g.heap, r.argv), r.pushed, lost', disturbed')
    BY <1>6 DEF Followed, Given
  <1>8. Followed(stream, taken, taken - Size(input), parser,
                 FlattenSeq(pushed) \o Showing(heap, argv), pushed, lost, disturbed)'
    BY <1>4, <1>7
  <1> QED BY <1>1, <1>8 DEF ExactInv

LEMMA ExactStep == ExactInv /\ [Next]_vars => ExactInv'
  <1> SUFFICES ASSUME ExactInv, [Next]_vars PROVE ExactInv'
    OBVIOUS
  <1>1. CASE \E n \in 0..SmallerOf(FreeSize(heap, input), Length(stream) - taken),
                room \in 0..MaxRoom : OnReadable(n, room)
    BY <1>1, ReadExact
  <1>2. StandInv'
    BY StandStep DEF ExactInv
  <1>3. ASSUME UNCHANGED <<stream, taken, heap, input, parser, argv, pushed, disturbed, lost>>
        PROVE  ExactInv'
    BY <1>2, <1>3 DEF ExactInv
  <1> QED BY <1>1, <1>3 DEF Next, OnServerWrite, vars

LEMMA ExactInvariant == Spec => []ExactInv
  BY InitExact, ExactStep, PTL DEF Spec

--------------------------------------------------------------------------------
(* What the invariants say of the pushed commands. *)

\* The first arguments are a prefix of all.
LEMMA LeadingPrefix ==
  ASSUME NEW s \in Streams, NEW h \in 0..Len(s)
  PROVE  /\ \E y \in Seq(Seq(Byte)) : AllArguments(s) = FlattenSeq(Leading(s, h)) \o y
         /\ FlattenSeq(Leading(s, h)) \in Seq(Seq(Byte))
  <1> DEFINE n == Len(s)
             T == Seq(Seq(Byte))
             S == Seq(Byte)
             all == Leading(s, n)
  <1>1. n \in Nat /\ all \in [1..n -> T] /\ h \in Nat /\ h <= n
    BY ArgumentsTyped DEF Leading
  <1>2. Leading(s, h) = [c \in 1..h |-> all[c]]
    <2>1. \A c \in 1..h : c \in 1..n
      BY <1>1
    <2> HIDE DEF n
    <2> QED BY <2>1 DEF Leading
  <1>3. AllArguments(s) = FlattenSeq(all)
    BY DEF AllArguments, Leading
  <1>4. FlattenSeq(Leading(s, h)) \in Seq(S)
    BY FirstArguments, Zenon DEF Leading
  <1> HIDE DEF all, n, T
  <1>5. all \in Seq(T) /\ Len(all) = n
    BY <1>1
  <1> DEFINE a == SubSeq(all, 1, h)
             b == SubSeq(all, h + 1, n)
  <1>6. all = a \o b /\ a \in Seq(T) /\ b \in Seq(T)
    <2>1. 0 \in Nat /\ h <= Len(all)
      BY <1>1, <1>5
    <2> QED BY <1>1, <1>5, <2>1, CutJoin
  <1>7. a = Leading(s, h)
    BY <1>1, <1>2, <1>5
  <1> HIDE DEF a, b, S
  <1>8. Joins(S, a, b)
    <2>1. a \in Seq(Seq(S)) /\ b \in Seq(Seq(S))
      BY <1>6 DEF T, S
    <2> QED BY <2>1, FlatJoin
  <1>9. FlattenSeq(all) = FlattenSeq(a) \o FlattenSeq(b) /\ FlattenSeq(b) \in Seq(S)
    BY <1>6, <1>8 DEF Joins
  <1> QED BY <1>3, <1>4, <1>7, <1>9, Zenon DEF S

LEMMA ToldPrefix ==
  ASSUME NEW s \in Streams, NEW p, NEW ps, NEW given, NEW h, NEW i, Exact(s, p, ps, given, h, i)
  PROVE  IsPrefix(given, AllArguments(s))
  <1> DEFINE S == Seq(Byte)
             x == FlattenSeq(Leading(s, h))
             c == h + 1
  <1>1. h \in 0..Len(s) /\ i \in Nat /\ given = Told(s, h, i) /\ Len(s) \in Nat
    BY CommandFacts DEF Exact
  <1>2. CASE i = 0
    <2>1. PICK y \in Seq(S) : AllArguments(s) = x \o y
      BY <1>1, LeadingPrefix, Zenon
    <2>2. x \in Seq(S)
      BY <1>1, LeadingPrefix
    <2>3. Told(s, h, 0) = x \o <<>>
      <3>1. [j \in 1..0 |-> Argument(s, c, j)] = <<>>
        OBVIOUS
      <3> QED BY <3>1 DEF Told, Leading
    <2> HIDE DEF S, x
    <2>4. x \o <<>> = x
      BY <2>2
    <2> QED BY <1>1, <1>2, <2>1, <2>2, <2>3, <2>4, PrefixOfJoin
  <1>3. CASE i # 0
    <2> DEFINE n == Len(s[c].args)
               args == Arguments(s, c)
               z == Told(s, h, i)
    <2>1. h < Len(s) /\ c \in 1..Len(s) /\ c \in 0..Len(s) /\ h \in 0..(Len(s) - 1)
      BY <1>1, <1>3 DEF Exact, Waits, InMulti, InInline
    <2>2. n \in Nat
      BY <2>1, CommandFacts
    <2>3. i <= n /\ c = h + 1
      <3>1. CASE InMulti(s, p, ps, h, i)
        BY <2>2, <3>1 DEF InMulti, AtArg
      <3>2. CASE InInline(s, p, ps, h, i)
        BY <1>1, <2>2, <3>2 DEF InInline
      <3> QED BY <1>3, <3>1, <3>2 DEF Exact, Waits
    <2>4. args \in Seq(S) /\ Len(args) = n /\ \A j \in 1..n : args[j] = Argument(s, c, j)
      <3>1. args \in Seq(S)
        BY <2>1, ToldNext, Zenon
      <3>2. args = [j \in 1..n |-> Argument(s, c, j)]
        BY DEF Arguments
      <3> HIDE DEF args, n, S, c
      <3> QED BY <2>2, <3>1, <3>2
    <2>5. x \in Seq(S) /\ FlattenSeq(Leading(s, c)) = x \o args
      BY <1>1, <2>1, FirstArguments, Zenon DEF Leading
    <2>6. PICK y \in Seq(S) : AllArguments(s) = FlattenSeq(Leading(s, c)) \o y
      BY <2>1, LeadingPrefix, Zenon
    <2> DEFINE a == SubSeq(args, 1, i)
               b == SubSeq(args, i + 1, n)
               k == [j \in 1..i |-> Argument(s, c, j)]
    <2> HIDE DEF c, n, S, x, args
    <2>7. args = a \o b /\ a \in Seq(S) /\ b \in Seq(S)
      <3>1. i <= Len(args) /\ n <= Len(args)
        BY <2>2, <2>3, <2>4
      <3> QED BY <1>1, <2>2, <2>3, <2>4, <3>1, CutJoin
    <2>8. a = k
      BY <1>1, <2>2, <2>3, <2>4
    <2> HIDE DEF a, b, k
    <2>9. z = x \o a
      BY <2>8, <2>3 DEF Told, Leading, x, k
    <2>10. /\ Associates(S, x, a, b)
           /\ z \in Seq(S)
      <3>1. Associates(S, x, a, b)
        BY <2>5, <2>7, Associative
      <3> QED BY <2>9, <3>1 DEF Associates
    <2>11. x \o args = z \o b
      BY <2>7, <2>9, <2>10 DEF Associates
    <2>12. Associates(S, z, b, y)
      BY <2>6, <2>7, <2>10, Associative
    <2> DEFINE v == b \o y
    <2>13. AllArguments(s) = z \o v /\ v \in Seq(S)
      BY <2>5, <2>6, <2>11, <2>12 DEF Associates
    <2> HIDE DEF v, z
    <2>14. IsPrefix(z, z \o v)
      BY <2>10, <2>13, PrefixOfJoin
    <2> QED BY <1>1, <2>13, <2>14 DEF z
  <1> QED BY <1>2, <1>3

\* The commands that arrived are the first h.
LEMMA ArrivedCommands ==
  ASSUME NEW s \in Streams, NEW t \in Nat, NEW p \in Nat, p <= t, NEW ps, NEW given,
         NEW h, Exact(s, p, ps, given, h, 0), h < Len(s) => t < CommandEnd[s][h + 1],
         NEW K, K = {c \in 1..Len(s) : 0 < CommandEnd[s][c] /\ CommandEnd[s][c] <= t}
  PROVE  K = 1..h /\ Cardinality(K) = h /\ h \in 0..Len(s)
  <1>1. h \in 0..Len(s) /\ Len(s) \in Nat /\ h \in Nat
    BY CommandFacts DEF Exact
  <1> DEFINE E == CommandEnd[s]
  <1>2. /\ \A c \in 0..Len(s) : E[c] \in Nat
        /\ \A c, e \in 0..Len(s) : c <= e => E[c] <= E[e]
    BY StreamInOrder DEF InOrder
  <1>3. E[h] <= p
    <2> DEFINE c == h + 1
    <2>1. CASE Waits(s, p, ps, h, 0)
      BY <1>1, <1>2, <2>1 DEF Waits
    <2>2. ASSUME h < Len(s), p = ArgEnd(s, c, 0) \/ p = ArgEnd(s, c, 0) + 2 PROVE E[h] <= p
      <3>1. c \in 1..Len(s) /\ c - 1 = h
        BY <1>1, <2>2
      <3> HIDE DEF c
      <3>2. Len(s[c].args) \in Nat /\ 0 \in 0..Len(s[c].args)
        BY <3>1, CommandFacts
      <3>3. ArgEnd(s, c, 0) \in Nat /\ ArgEnd(s, c, 0) >= E[h]
        BY <3>1, <3>2, PlaceFacts DEF Places
      <3> DEFINE x == ArgEnd(s, c, 0)
                 y == E[h]
      <3>4. x \in Nat /\ x >= y /\ (p = x \/ p = x + 2) /\ y \in Nat
        BY <1>1, <1>2, <2>2, <3>3
      <3> HIDE DEF x, y
      <3>5. y <= p
        BY <3>4
      <3> QED BY <3>5 DEF y
    <2>3. CASE InMulti(s, p, ps, h, 0)
      <3>1. h < Len(s) /\ (p = ArgEnd(s, c, 0) \/ p = ArgEnd(s, c, 0) + 2)
        BY <2>3 DEF InMulti, AtArg
      <3> QED BY <2>2, <3>1
    <2>4. CASE InInline(s, p, ps, h, 0)
      <3>1. h < Len(s) /\ p = ArgEnd(s, c, 0)
        BY <2>4 DEF InInline
      <3> QED BY <2>2, <3>1
    <2> QED BY <2>1, <2>3, <2>4 DEF Exact
  <1>4. ASSUME NEW c \in 1..Len(s) PROVE c \in K <=> c \in 1..h
    <2>1. 0 < E[c] /\ E[c] \in Nat
      <3>1. E[c - 1] < E[c] /\ c \in 0..Len(s) /\ c - 1 \in 0..Len(s)
        BY <1>1, CommandLines
      <3> DEFINE x == E[c - 1]
                 y == E[c]
      <3>2. x \in Nat /\ y \in Nat /\ x < y
        BY <1>2, <3>1
      <3> HIDE DEF x, y
      <3>3. 0 < y /\ y \in Nat
        BY <3>2
      <3> QED BY <3>3 DEF y
    <2>2. CASE c <= h
      <3>1. c \in 0..Len(s) /\ E[c] <= E[h]
        BY <1>1, <1>2, <2>2
      <3> DEFINE x == E[c]
                 y == E[h]
      <3>2. x \in Nat /\ y \in Nat /\ x <= y /\ y <= p
        BY <1>1, <1>2, <1>3, <2>1, <3>1
      <3> HIDE DEF x, y
      <3>3. x <= t
        BY <3>2
      <3> QED BY <1>1, <2>1, <2>2, <3>3 DEF x
    <2>3. CASE h < c
      <3> DEFINE g == h + 1
      <3>1. g \in 0..Len(s) /\ g <= c /\ c \in 0..Len(s) /\ h < Len(s)
        BY <1>1, <2>3
      <3>2. E[g] <= E[c] /\ t < E[g] /\ E[g] \in Nat
        BY <1>2, <3>1
      <3> DEFINE x == E[c]
                 y == E[g]
      <3>3. x \in Nat /\ y \in Nat /\ y <= x /\ t < y
        BY <2>1, <3>2
      <3> HIDE DEF x, y
      <3>4. ~(x <= t)
        BY <3>3
      <3> QED BY <1>1, <2>3, <3>4 DEF x
    <2> QED BY <1>1, <2>2, <2>3
  <1>5. K \subseteq 1..Len(s) /\ 1..h \subseteq 1..Len(s)
    BY <1>1
  <1>6. K = 1..h
    <2> HIDE DEF E
    <2> QED BY <1>4, <1>5
  <1>7. Cardinality(1..h) = h
    BY <1>1, FS_Interval
  <1> QED BY <1>1, <1>6, <1>7, Zenon

\* A multibulk command is forwarded as it came.
LEMMA ForwardedSame ==
  ASSUME NEW s \in Streams, NEW c \in 1..Len(s), s[c].form = "multibulk"
  PROVE  FormatRESP2(Arguments(s, c)) = Encoded(s, c)
  <1> DEFINE args == Arguments(s, c)
             n == Len(s[c].args)
             line(i) == <<<<"$", Len(args[i])>>, Lf>> \o args[i] \o <<Cr, Lf>>
  <1>1. n \in Nat
    BY CommandFacts
  <1>2. args = [i \in 1..n |-> Argument(s, c, i)]
    BY DEF Arguments
  <1>3. Len(args) = n /\ \A i \in 1..n : args[i] = Argument(s, c, i)
    <2> HIDE DEF args, n
    <2> QED BY <1>1, <1>2
  <1>4. \A i \in 1..n : Len(args[i]) = s[c].args[i]
    <2>1. ASSUME NEW i \in 1..n PROVE Len(args[i]) = s[c].args[i]
      <3>1. DataOf(Argument(s, c, i), s[c].args[i])
        BY ArgumentFacts
      <3> QED BY <1>3, <3>1 DEF DataOf
    <2> QED BY <2>1
  <1> HIDE DEF args
  <1>5. \A i \in 1..n : line(i) = Part(s, c, i)
    BY <1>3, <1>4, Zenon DEF Part
  <1>6. Header(s, c) = <<<<"*", Len(args)>>, Lf>>
    BY <1>3 DEF Header
  <1>7. [i \in 1..Len(args) |-> line(i)] = [i \in 1..n |-> Part(s, c, i)]
    <2> HIDE DEF n, line
    <2> QED BY <1>3, <1>5
  <1>8. FormatRESP2(args) = <<<<"*", Len(args)>>, Lf>>
                             \o FlattenSeq([i \in 1..Len(args) |-> line(i)])
    BY DEF FormatRESP2
  <1>9. Encoded(s, c) = Header(s, c) \o FlattenSeq([i \in 1..n |-> Part(s, c, i)])
    BY DEF Encoded
  <1> QED BY <1>6, <1>7, <1>8, <1>9, Zenon DEF args

LEMMA ForwardedPrefix ==
  ASSUME NEW s \in Streams, AllMulti(s), NEW h \in 0..Len(s), NEW pu, pu = Leading(s, h)
  PROVE  FlattenSeq([i \in 1..Len(pu) |-> FormatRESP2(pu[i])])
           = SubSeq(Bytes[s], 1, CommandEnd[s][h])
  <1> DEFINE n == Len(s)
             S == Byte
             all == [c \in 1..n |-> Encoded(s, c)]
             first == [c \in 1..h |-> Encoded(s, c)]
  <1>1. n \in Nat /\ h \in Nat /\ h <= n /\ (\A c \in 1..h : c \in 1..n)
    BY CommandFacts
  <1>2. \A c \in 1..n : Encoded(s, c) \in Seq(S)
    BY EncodedTyped
  <1>3. Len(pu) = h /\ \A c \in 1..h : FormatRESP2(pu[c]) = Encoded(s, c)
    <2>1. Len(pu) = h /\ \A c \in 1..h : pu[c] = Arguments(s, c)
      BY <1>1 DEF Leading
    <2>2. ASSUME NEW c \in 1..h PROVE FormatRESP2(Arguments(s, c)) = Encoded(s, c)
      BY <1>1, ForwardedSame DEF AllMulti
    <2> QED BY <2>1, <2>2
  <1>4. [i \in 1..Len(pu) |-> FormatRESP2(pu[i])] = first
    BY <1>3
  <1>5. Bytes[s] = FlattenSeq(all) /\ CommandEnd[s][h] = Len(FlattenSeq(first))
    BY DEF Bytes, CommandEnd
  <1> DEFINE T == Seq(S)
             E(c) == Encoded(s, c)
  <1> HIDE DEF n, S, T
  <1>6. all \in Seq(T) /\ Len(all) = n
    <2>1. \A c \in 1..n : E(c) \in T
      BY <1>2 DEF T
    <2> HIDE DEF E
    <2>2. [c \in 1..n |-> E(c)] \in Seq(T) /\ Len([c \in 1..n |-> E(c)]) = n
      BY <1>1, <2>1
    <2> QED BY <2>2, Zenon DEF E
  <1>7. \A c \in 1..n : all[c] = E(c)
    OBVIOUS
  <1> DEFINE a == SubSeq(all, 1, h)
             b == SubSeq(all, h + 1, n)
  <1> HIDE DEF all
  <1>8. all = a \o b /\ a \in Seq(T) /\ b \in Seq(T)
    <2>1. h <= Len(all) /\ n <= Len(all)
      BY <1>1, <1>6
    <2> QED BY <1>1, <1>6, <2>1, CutJoin
  <1>9. a = first
    <2>1. a = [c \in 1..h |-> all[c]]
      BY <1>1, <1>6
    <2> QED BY <1>1, <1>7, <2>1
  <1> HIDE DEF a, b, first
  <1>10. Joins(S, a, b)
    <2>1. a \in Seq(Seq(S)) /\ b \in Seq(Seq(S))
      BY <1>8 DEF T
    <2> QED BY <2>1, FlatJoin
  <1> DEFINE x == FlattenSeq(a)
             y == FlattenSeq(b)
  <1>11. FlattenSeq(all) = x \o y /\ x \in Seq(S) /\ y \in Seq(S)
    BY <1>8, <1>10 DEF Joins
  <1> HIDE DEF x, y
  <1>12. SubSeq(x \o y, 1, Len(x)) = x
    BY <1>11, CutOfJoin
  <1> QED BY <1>4, <1>5, <1>9, <1>11, <1>12, Zenon DEF x

--------------------------------------------------------------------------------
(* Plain commands: the arguments that have arrived, and where ClientStream.tla   *)
(* has them.                                                                     *)

LEMMA Times ==
  ASSUME NEW a \in Nat
  PROVE  a * PlainLen \in Nat /\ (a + 1) * PlainLen = a * PlainLen + PlainLen
  BY ClientBoundsAssumption

LEMMA TimesMonotonic ==
  ASSUME NEW a \in Nat, NEW b \in Nat, a <= b
  PROVE  a * PlainLen <= b * PlainLen
  BY ClientBoundsAssumption

\* i arguments behind a commands: where a command begins, and which one it is.
LEMMA Rounds ==
  ASSUME NEW a \in Nat, NEW i \in Nat, i < PlainLen
  PROVE  /\ a * PlainLen + i \in Nat
         /\ (a * PlainLen + i) \div PlainLen = a /\ (a * PlainLen + i) % PlainLen = i
  <1> DEFINE n == a * PlainLen + i
             q == n \div PlainLen
             r == n % PlainLen
  <1>1. PlainLen \in Nat /\ PlainLen > 0 /\ n \in Nat
    BY Times, ClientBoundsAssumption
  <1>2. q \in Nat /\ r \in 0..(PlainLen - 1) /\ n = q * PlainLen + r
    <2> HIDE DEF n
    <2> QED BY <1>1
  <1>3. n = a * PlainLen + i
    OBVIOUS
  <1> HIDE DEF n, q, r
  <1> DEFINE x == a * PlainLen
             y == q * PlainLen
  <1>4. x \in Nat /\ y \in Nat /\ x + i = y + r
    BY <1>2, <1>3, Times
  <1>5. ASSUME q < a PROVE FALSE
    <2>0. q + 1 \in Nat /\ q + 1 <= a
      BY <1>2, <1>5
    <2>1. (q + 1) * PlainLen <= x /\ (q + 1) * PlainLen = y + PlainLen
      BY <1>2, <2>0, Times, TimesMonotonic
    <2> HIDE DEF x, y
    <2>2. y + PlainLen <= x
      BY <2>1
    <2> QED BY <1>1, <1>2, <1>4, <2>2
  <1>6. ASSUME a < q PROVE FALSE
    <2>0. a + 1 \in Nat /\ a + 1 <= q
      BY <1>2, <1>6
    <2>1. (a + 1) * PlainLen <= y /\ (a + 1) * PlainLen = x + PlainLen
      BY <1>2, <2>0, Times, TimesMonotonic
    <2> HIDE DEF x, y
    <2>2. x + PlainLen <= y
      BY <2>1
    <2> QED BY <1>1, <1>2, <1>4, <2>2
  <1>7. q = a
    BY <1>2, <1>5, <1>6
  <1>8. r = i
    <2>1. x = y
      BY <1>7
    <2> HIDE DEF x, y
    <2> QED BY <1>2, <1>4, <2>1
  <1> QED BY <1>1, <1>7, <1>8 DEF n, q, r

\* A stream of plain commands.
IsPlain(s) ==
  \A c \in 1..Len(s) : /\ s[c].form = "multibulk" /\ Len(s[c].args) = PlainLen
                       /\ \A i \in 1..PlainLen : s[c].args[i] > 0

LEMMA PlainFacts ==
  ASSUME NEW s \in Streams, IsPlain(s)
  PROVE  /\ AllMulti(s) /\ Regular(s) /\ Len(s) \in Nat /\ PlainLen \in Nat /\ PlainLen > 0
         /\ \A c \in 1..Len(s) : /\ Full(s, c) /\ Len(s[c].args) = PlainLen
                                 /\ s[c].form = "multibulk"
  <1>1. Len(s) \in Nat /\ PlainLen \in Nat /\ PlainLen > 0
    BY CommandFacts, ClientBoundsAssumption
  <1>2. AllMulti(s)
    BY DEF AllMulti, IsPlain
  <1> QED BY <1>1, <1>2 DEF Regular, Full, IsPlain

LEMMA Rising ==
  ASSUME NEW n \in Nat, NEW f, \A k \in 0..n : f[k] \in Nat,
         \A k \in 1..n : f[k - 1] < f[k]
  PROVE  \A i, j \in 0..n : i < j => f[i] < f[j]
  <1> DEFINE S == {k \in Nat : k <= n => \A i \in 0..n : i < k => f[i] < f[k]}
  <1>1. 0 \in S
    OBVIOUS
  <1>2. ASSUME NEW k \in Nat, k \in S PROVE k + 1 \in S
    <2> SUFFICES ASSUME k + 1 <= n, NEW i \in 0..n, i < k + 1 PROVE f[i] < f[k + 1]
      OBVIOUS
    <2>1. k + 1 \in 1..n /\ (k + 1) - 1 = k /\ k \in 0..n /\ k + 1 \in 0..n
      OBVIOUS
    <2>2. f[k] < f[k + 1] /\ f[k] \in Nat /\ f[k + 1] \in Nat /\ f[i] \in Nat
      BY <2>1
    <2>3. i = k \/ i < k
      OBVIOUS
    <2>4. i < k => f[i] < f[k]
      BY <1>2, <2>1
    <2> QED BY <2>2, <2>3, <2>4
  <1> HIDE DEF S
  <1>3. Nat \subseteq S
    BY <1>1, <1>2, SetInduction
  <1>4. \A k \in 0..n : k \in S /\ k \in Nat /\ k <= n
    BY <1>3
  <1> QED BY <1>4 DEF S

\* The places in a plain command.
Spots(s, c) ==
  /\ CommandEnd[s][c - 1] \in Nat /\ CommandEnd[s][c] \in Nat
  /\ \A i \in 0..PlainLen :
       /\ ArgEnd(s, c, i) \in Nat /\ ArgEnd(s, c, i) <= CommandEnd[s][c]
       /\ CommandEnd[s][c - 1] < ArgEnd(s, c, i)
  /\ ArgEnd(s, c, 0) = CommandEnd[s][c - 1] + 2
  /\ ArgEnd(s, c, PlainLen) = CommandEnd[s][c]
  /\ \A i, j \in 0..PlainLen : i < j => ArgEnd(s, c, i) < ArgEnd(s, c, j)
  /\ \A i \in 0..(PlainLen - 1) : ArgEnd(s, c, i) + 4 < ArgEnd(s, c, i + 1)

LEMMA PlainSpots ==
  ASSUME NEW s \in Streams, IsPlain(s), NEW c \in 1..Len(s)
  PROVE  Spots(s, c)
  <1> DEFINE n == PlainLen
             from == CommandEnd[s][c - 1]
             to == CommandEnd[s][c]
             f == [i \in 0..n |-> ArgEnd(s, c, i)]
  <1>1. /\ n \in Nat /\ n > 0 /\ Len(s[c].args) = n /\ s[c].form = "multibulk"
        /\ \A i \in 1..n : s[c].args[i] > 0
    BY PlainFacts DEF IsPlain
  <1>2. Places(s, c, Bytes[s], from, to, n)
    BY <1>1, PlaceFacts
  <1>3. /\ from \in Nat /\ to \in Nat /\ ArgEnd(s, c, 0) = from + 2 /\ ArgEnd(s, c, n) = to
        /\ \A i \in 0..n : ArgEnd(s, c, i) \in Nat /\ ArgEnd(s, c, i) <= to
    BY <1>1, <1>2 DEF Places
  <1>4. \A i \in 0..n : f[i] = ArgEnd(s, c, i)
    OBVIOUS
  <1> HIDE DEF n, from, to, f
  <1>5. ASSUME NEW i \in 1..n
        PROVE  ArgEnd(s, c, i - 1) + 4 < ArgEnd(s, c, i) /\ ArgEnd(s, c, i - 1) < ArgEnd(s, c, i)
    <2> DEFINE p == ArgEnd(s, c, i - 1)
               q == ArgEnd(s, c, i)
               v == s[c].args[i]
    <2>1. MultiArgAt(Bytes[s], Argument(s, c, i), p, q, v) /\ v > 0
      BY <1>1, MultiArgFacts
    <2>2. p \in Nat /\ v \in Nat /\ q = p + v + 4 /\ v > 0
      BY <2>1 DEF MultiArgAt
    <2> HIDE DEF p, q, v
    <2>3. p + 4 < q /\ p < q
      BY <2>2
    <2> QED BY <2>3 DEF p, q
  <1>6. \A i, j \in 0..n : i < j => f[i] < f[j]
    <2>1. \A i \in 1..n : i - 1 \in 0..n /\ i \in 0..n
      BY <1>1
    <2>2. \A i \in 1..n : f[i - 1] < f[i]
      BY <1>4, <1>5, <2>1
    <2>3. \A i \in 0..n : f[i] \in Nat
      BY <1>3, <1>4
    <2> QED BY <1>1, <2>2, <2>3, Rising
  <1>7. ASSUME NEW i \in 0..n PROVE from < ArgEnd(s, c, i)
    <2>1. 0 \in 0..n /\ (i = 0 \/ 0 < i)
      BY <1>1
    <2>2. i = 0 \/ f[0] < f[i]
      BY <1>6, <2>1
    <2> DEFINE p == ArgEnd(s, c, i)
    <2>3. p \in Nat /\ (p = from + 2 \/ from + 2 < p)
      BY <1>3, <1>4, <2>1, <2>2
    <2> HIDE DEF p
    <2>4. from < p
      BY <1>3, <2>3
    <2> QED BY <2>4 DEF p
  <1>8. ASSUME NEW i \in 0..(n - 1) PROVE ArgEnd(s, c, i) + 4 < ArgEnd(s, c, i + 1)
    <2>1. i + 1 \in 1..n /\ (i + 1) - 1 = i
      BY <1>1
    <2> DEFINE j == i + 1
    <2>2. ArgEnd(s, c, j - 1) + 4 < ArgEnd(s, c, j) /\ j - 1 = i
      BY <1>5, <2>1
    <2> QED BY <2>2
  <1> QED BY <1>3, <1>4, <1>6, <1>7, <1>8 DEF Spots, n, from, to

\* Where the i-th argument of a command ends, or what it begins behind.
Behind(s, c, i) == IF i = 0 THEN CommandEnd[s][c - 1] ELSE ArgEnd(s, c, i)

LEMMA ArgEndsAre ==
  ASSUME NEW s \in Streams, IsPlain(s)
  PROVE  \A p : p \in ArgEnds[s] <=> \E c \in 1..Len(s), i \in 1..PlainLen : p = ArgEnd(s, c, i)
  <1>1. \A c \in 1..Len(s) : Len(s[c].args) = PlainLen
    BY PlainFacts
  <1>2. ArgEnds[s] = UNION {{ArgEnd(s, c, i) : i \in 1..Len(s[c].args)} : c \in 1..Len(s)}
    BY DEF ArgEnds
  <1> QED BY <1>1, <1>2

\* No argument ends between the i-th and the one before.
LEMMA NoneBetween ==
  ASSUME NEW s \in Streams, IsPlain(s), NEW c \in 1..Len(s), NEW i \in 1..PlainLen,
         NEW p \in ArgEnds[s], Behind(s, c, i - 1) < p
  PROVE  ArgEnd(s, c, i) <= p
  <1>1. PICK e \in 1..Len(s), j \in 1..PlainLen : p = ArgEnd(s, e, j)
    BY ArgEndsAre
  <1>2. Len(s) \in Nat /\ PlainLen \in Nat /\ j \in 0..PlainLen /\ i \in 0..PlainLen
        /\ i - 1 \in 0..PlainLen
    BY PlainFacts
  <1>3. Spots(s, c) /\ Spots(s, e)
    BY PlainSpots
  <1>4. /\ p \in Nat /\ CommandEnd[s][e - 1] < p /\ p <= CommandEnd[s][e]
        /\ CommandEnd[s][e - 1] \in Nat /\ CommandEnd[s][e] \in Nat
    BY <1>1, <1>2, <1>3 DEF Spots
  <1> DEFINE x == CommandEnd[s][c - 1]
             y == CommandEnd[s][c]
             a == ArgEnd(s, c, i)
             b == Behind(s, c, i - 1)
  <1>5. x \in Nat /\ y \in Nat /\ a \in Nat /\ a <= y /\ b \in Nat /\ x <= b
    <2> DEFINE k == i - 1
    <2>1. k \in 0..PlainLen
      BY <1>2
    <2>2. b = x \/ b = ArgEnd(s, c, k)
      BY DEF Behind
    <2>3. ArgEnd(s, c, k) \in Nat /\ x < ArgEnd(s, c, k) /\ x \in Nat
      BY <1>3, <2>1 DEF Spots
    <2>4. y \in Nat /\ a \in Nat /\ a <= y
      BY <1>2, <1>3 DEF Spots
    <2> HIDE DEF k, x, y, a, b
    <2> QED BY <2>2, <2>3, <2>4
  <1>6. \A k, l \in 0..Len(s) : k <= l => CommandEnd[s][k] <= CommandEnd[s][l]
    BY StreamInOrder DEF InOrder
  <1>7. CASE e < c
    <2>1. e \in 0..Len(s) /\ c - 1 \in 0..Len(s) /\ e <= c - 1
      BY <1>2, <1>7
    <2>2. CommandEnd[s][e] <= x
      BY <1>6, <2>1
    <2> HIDE DEF x, y, a, b
    <2>3. b < p
      BY DEF b
    <2> QED BY <1>4, <1>5, <2>2, <2>3
  <1>8. CASE c < e
    <2>1. c \in 0..Len(s) /\ e - 1 \in 0..Len(s) /\ c <= e - 1
      BY <1>2, <1>8
    <2>2. y <= CommandEnd[s][e - 1]
      BY <1>6, <2>1
    <2> HIDE DEF x, y, a, b
    <2>3. a <= p
      BY <1>4, <1>5, <2>2
    <2> QED BY <2>3 DEF a
  <1>9. CASE c = e /\ j < i
    <2> DEFINE k == i - 1
    <2>1. k # 0 /\ (j = k \/ j < k) /\ k \in 0..PlainLen
      BY <1>2, <1>9
    <2>2. b = ArgEnd(s, c, k)
      BY <2>1 DEF Behind
    <2>a. p = ArgEnd(s, c, j)
      BY <1>1, <1>9
    <2> HIDE DEF k
    <2>3. p <= b
      <3>1. p = b \/ p < b
        BY <1>2, <1>3, <2>1, <2>2, <2>a DEF Spots
      <3> HIDE DEF b
      <3> QED BY <1>4, <1>5, <3>1
    <2> HIDE DEF b
    <2>4. b < p
      BY DEF b
    <2> QED BY <1>4, <1>5, <2>3, <2>4
  <1>10. CASE c = e /\ i <= j
    <2>1. i = j \/ i < j
      BY <1>2, <1>10
    <2> QED BY <1>1, <1>2, <1>3, <1>4, <1>5, <1>10, <2>1 DEF Spots
  <1>11. e < c \/ c < e \/ (c = e /\ j < i) \/ (c = e /\ i <= j)
    BY <1>2
  <1> QED BY <1>7, <1>8, <1>9, <1>10, <1>11

\* The arguments that end at t at the latest.
Below(s, t) == {p \in ArgEnds[s] : p <= t}

Counts(S, n) == IsFiniteSet(S) /\ Cardinality(S) = n

LEMMA BelowNext ==
  ASSUME NEW s \in Streams, IsPlain(s), NEW c \in 1..Len(s), NEW i \in 1..PlainLen,
         NEW n \in Nat, Counts(Below(s, Behind(s, c, i - 1)), n)
  PROVE  Counts(Below(s, Behind(s, c, i)), n + 1)
  <1> DEFINE k == i - 1
             a == ArgEnd(s, c, i)
             b == Behind(s, c, k)
             S == Below(s, b)
             T == Below(s, a)
  <1>1. i # 0 /\ k \in 0..PlainLen /\ i \in 0..PlainLen /\ k < i /\ PlainLen \in Nat
    BY PlainFacts
  <1>2. Spots(s, c)
    BY PlainSpots
  <1>3. b \in Nat /\ a \in Nat /\ b < a
    <2>1. b = CommandEnd[s][c - 1] \/ b = ArgEnd(s, c, k)
      BY DEF Behind
    <2> HIDE DEF b, k, a
    <2>2. /\ CommandEnd[s][c - 1] \in Nat /\ CommandEnd[s][c - 1] < a
          /\ ArgEnd(s, c, k) \in Nat /\ ArgEnd(s, c, k) < a /\ a \in Nat
      BY <1>1, <1>2 DEF Spots, a
    <2> QED BY <2>1, <2>2
  <1>4. a \in ArgEnds[s]
    BY ArgEndsAre
  <1>5. \A p \in ArgEnds[s] : p \in Nat
    <2> SUFFICES ASSUME NEW p \in ArgEnds[s] PROVE p \in Nat
      OBVIOUS
    <2>1. PICK e \in 1..Len(s), j \in 1..PlainLen : p = ArgEnd(s, e, j)
      BY ArgEndsAre
    <2>2. Spots(s, e) /\ j \in 0..PlainLen
      BY <1>1, PlainSpots
    <2> QED BY <2>1, <2>2 DEF Spots
  <1>6. \A p \in ArgEnds[s] : b < p => a <= p
    BY NoneBetween
  <1>7. Behind(s, c, i) = a
    BY <1>1 DEF Behind
  <1>8. IsFiniteSet(S) /\ Cardinality(S) = n
    BY DEF Counts
  <1> HIDE DEF a, b, k
  <1>9. T = S \union {a} /\ a \notin S
    <2>1. \A p \in Nat : p <= a <=> (p <= b \/ p = a \/ (b < p /\ p < a))
      BY <1>3
    <2>2. \A p \in ArgEnds[s] : ~(b < p /\ p < a)
      BY <1>3, <1>5, <1>6
    <2>3. \A p \in ArgEnds[s] : p <= a <=> (p <= b \/ p = a)
      BY <1>5, <2>1, <2>2
    <2>4. ~(a <= b)
      BY <1>3
    <2> QED BY <1>4, <2>3, <2>4, Zenon DEF Below
  <1> HIDE DEF S, T
  <1>10. IsFiniteSet(T) /\ Cardinality(T) = n + 1
    BY <1>8, <1>9, FS_AddElement
  <1> QED BY <1>7, <1>10 DEF Counts, T

LEMMA BelowInside ==
  ASSUME NEW s \in Streams, IsPlain(s), NEW c \in 1..Len(s), NEW n \in Nat,
         Counts(Below(s, CommandEnd[s][c - 1]), n), NEW i \in 0..PlainLen
  PROVE  Counts(Below(s, Behind(s, c, i)), n + i)
  <1> DEFINE S == {k \in Nat : k <= PlainLen => Counts(Below(s, Behind(s, c, k)), n + k)}
  <1>1. 0 \in S
    <2>1. Behind(s, c, 0) = CommandEnd[s][c - 1] /\ n + 0 = n
      BY DEF Behind
    <2> QED BY <2>1
  <1>2. ASSUME NEW k \in Nat, k \in S PROVE k + 1 \in S
    <2> SUFFICES ASSUME k + 1 <= PlainLen
                 PROVE  Counts(Below(s, Behind(s, c, k + 1)), n + (k + 1))
      OBVIOUS
    <2> DEFINE l == k + 1
    <2>1. l \in 1..PlainLen /\ l - 1 = k /\ k <= PlainLen /\ n + k \in Nat
          /\ (n + k) + 1 = n + l
      BY PlainFacts
    <2>2. Counts(Below(s, Behind(s, c, k)), n + k)
      BY <1>2, <2>1
    <2> HIDE DEF l
    <2>3. Counts(Below(s, Behind(s, c, l)), (n + k) + 1)
      BY <2>1, <2>2, BelowNext
    <2> QED BY <2>1, <2>3 DEF l
  <1> HIDE DEF S
  <1>3. i \in S /\ i \in Nat /\ i <= PlainLen
    BY <1>1, <1>2, SetInduction, PlainFacts
  <1> QED BY <1>3 DEF S

LEMMA BelowCommand ==
  ASSUME NEW s \in Streams, IsPlain(s), NEW h \in 0..Len(s)
  PROVE  Counts(Below(s, CommandEnd[s][h]), h * PlainLen)
  <1> DEFINE S == {k \in Nat : k <= Len(s) => Counts(Below(s, CommandEnd[s][k]), k * PlainLen)}
  <1>0. Len(s) \in Nat /\ PlainLen \in Nat /\ PlainLen \in 0..PlainLen /\ PlainLen # 0
    BY PlainFacts
  <1>1. 0 \in S
    <2>1. CommandEnd[s][0] = 0
      BY StreamInOrder DEF InOrder
    <2>2. ASSUME NEW p \in ArgEnds[s], p <= 0 PROVE FALSE
      <3>1. PICK e \in 1..Len(s), j \in 1..PlainLen : p = ArgEnd(s, e, j)
        BY ArgEndsAre
      <3>2. Spots(s, e) /\ j \in 0..PlainLen
        BY <1>0, PlainSpots
      <3>3. CommandEnd[s][e - 1] \in Nat /\ CommandEnd[s][e - 1] < p /\ p \in Nat
        BY <3>1, <3>2 DEF Spots
      <3> QED BY <2>2, <3>3
    <2>3. Below(s, 0) = {}
      BY <2>2 DEF Below
    <2>4. 0 * PlainLen = 0
      BY <1>0
    <2>5. Counts(Below(s, 0), 0)
      BY <2>3, FS_EmptySet DEF Counts
    <2> QED BY <2>1, <2>4, <2>5
  <1>2. ASSUME NEW k \in Nat, k \in S PROVE k + 1 \in S
    <2> SUFFICES ASSUME k + 1 <= Len(s)
                 PROVE  Counts(Below(s, CommandEnd[s][k + 1]), (k + 1) * PlainLen)
      OBVIOUS
    <2> DEFINE c == k + 1
               n == k * PlainLen
    <2>1. c \in 1..Len(s) /\ c - 1 = k /\ k <= Len(s)
      BY <1>0
    <2>2. n \in Nat /\ c * PlainLen = n + PlainLen
      BY Times
    <2>3. Counts(Below(s, CommandEnd[s][k]), n)
      BY <1>2, <2>1
    <2> HIDE DEF c, n
    <2>4. Counts(Below(s, Behind(s, c, PlainLen)), n + PlainLen)
      BY <1>0, <2>1, <2>2, <2>3, BelowInside
    <2>5. Behind(s, c, PlainLen) = CommandEnd[s][c]
      BY <1>0, <2>1, PlainSpots DEF Spots, Behind
    <2> QED BY <2>2, <2>4, <2>5 DEF c
  <1> HIDE DEF S
  <1>3. h \in S /\ h \in Nat /\ h <= Len(s)
    BY <1>0, <1>1, <1>2, SetInduction
  <1> QED BY <1>3 DEF S

\* h commands and i arguments of the next end at t at the latest, and no more.
Reached(s, t, h, i) ==
  \/ h = Len(s) /\ i = 0 /\ t = CommandEnd[s][h]
  \/ /\ h \in 0..(Len(s) - 1) /\ i \in 0..(PlainLen - 1)
     /\ Behind(s, h + 1, i) <= t /\ t < ArgEnd(s, h + 1, i + 1)

LEMMA BelowReached ==
  ASSUME NEW s \in Streams, IsPlain(s), NEW t \in Nat, NEW h, NEW i, Reached(s, t, h, i)
  PROVE  /\ Counts(Below(s, t), h * PlainLen + i)
         /\ h \in 0..Len(s) /\ i \in Nat /\ i < PlainLen /\ CommandEnd[s][h] <= t
         /\ CommandEnd[s][h] \in Nat
  <1>0. Len(s) \in Nat /\ PlainLen \in Nat /\ PlainLen > 0
    BY PlainFacts
  <1>1. CASE h = Len(s) /\ i = 0 /\ t = CommandEnd[s][h]
    <2>1. h \in 0..Len(s) /\ h \in Nat
      BY <1>0, <1>1
    <2>2. h * PlainLen + 0 = h * PlainLen
      BY <2>1, Times
    <2> QED BY <1>0, <1>1, <2>1, <2>2, BelowCommand
  <1>2. CASE /\ h \in 0..(Len(s) - 1) /\ i \in 0..(PlainLen - 1)
             /\ Behind(s, h + 1, i) <= t /\ t < ArgEnd(s, h + 1, i + 1)
    <2> DEFINE c == h + 1
               j == i + 1
               n == h * PlainLen
    <2>1. /\ h \in 0..Len(s) /\ h \in Nat /\ i \in Nat /\ i < PlainLen /\ c \in 1..Len(s)
          /\ c - 1 = h /\ j \in 1..PlainLen /\ j - 1 = i /\ i \in 0..PlainLen
          /\ j \in 0..PlainLen
      BY <1>0, <1>2
    <2>2. n \in Nat
      BY <2>1, Times
    <2>3. Counts(Below(s, CommandEnd[s][h]), n)
      BY <2>1, BelowCommand
    <2>4. Behind(s, c, i) <= t /\ t < ArgEnd(s, c, j)
      BY <1>2
    <2> HIDE DEF c, j, n
    <2>5. Counts(Below(s, Behind(s, c, i)), n + i)
      BY <2>1, <2>2, <2>3, BelowInside
    <2>6. Spots(s, c)
      BY <2>1, PlainSpots
    <2>7. /\ Behind(s, c, i) \in Nat /\ ArgEnd(s, c, j) \in Nat
          /\ CommandEnd[s][h] <= Behind(s, c, i) /\ CommandEnd[s][h] \in Nat
      BY <2>1, <2>6 DEF Spots, Behind
    <2> DEFINE b == Behind(s, c, i)
               a == ArgEnd(s, c, j)
    <2>8. \A p \in ArgEnds[s] : p \in Nat /\ (b < p => a <= p)
      <3> SUFFICES ASSUME NEW p \in ArgEnds[s] PROVE p \in Nat /\ (b < p => a <= p)
        OBVIOUS
      <3>1. PICK e \in 1..Len(s), k \in 1..PlainLen : p = ArgEnd(s, e, k)
        BY ArgEndsAre
      <3>2. Spots(s, e) /\ k \in 0..PlainLen
        BY <1>0, PlainSpots
      <3>3. p \in Nat
        BY <3>1, <3>2 DEF Spots
      <3>4. b < p => a <= p
        BY <2>1, NoneBetween
      <3> QED BY <3>3, <3>4
    <2>9. b \in Nat /\ a \in Nat /\ b <= t /\ t < a
      BY <2>4, <2>7
    <2>10. CommandEnd[s][h] <= t
      <3> DEFINE x == CommandEnd[s][h]
      <3>1. x \in Nat /\ x <= b
        BY <2>7
      <3> HIDE DEF x, b, a
      <3>2. x <= t
        BY <2>9, <3>1
      <3> QED BY <3>2 DEF x
    <2> HIDE DEF a, b
    <2>11. \A p \in ArgEnds[s] : p <= t <=> p <= b
      BY <2>8, <2>9
    <2>12. Below(s, t) = Below(s, b)
      BY <2>11 DEF Below
    <2> QED BY <2>1, <2>5, <2>7, <2>10, <2>12 DEF b, n
  <1> QED BY <1>1, <1>2 DEF Reached

LEMMA ReachedExists ==
  ASSUME NEW s \in Streams, IsPlain(s), NEW t \in 0..Len(Bytes[s])
  PROVE  \E h, i : Reached(s, t, h, i)
  <1>0. Len(s) \in Nat /\ PlainLen \in Nat /\ PlainLen > 0
    BY PlainFacts
  <1>1. CommandEnd[s][Len(s)] = Len(Bytes[s]) /\ Len(Bytes[s]) \in Nat
    BY StreamInOrder DEF InOrder
  <1>2. CASE t = Len(Bytes[s])
    BY <1>1, <1>2 DEF Reached
  <1>3. CASE t # Len(Bytes[s])
    <2> DEFINE q == t + 1
    <2>1. q \in 1..Len(Bytes[s]) /\ t \in Nat
      BY <1>1, <1>3
    <2>2. PICK c \in 1..Len(s) :
            InHeader(s, c, q) \/ \E i \in 1..Len(s[c].args) : InPart(s, c, i, q)
      BY <2>1, Located
    <2> DEFINE h == c - 1
    <2>3. h \in 0..(Len(s) - 1) /\ h + 1 = c
      BY <1>0
    <2>4. Spots(s, c) /\ Len(s[c].args) = PlainLen
      BY PlainSpots, PlainFacts
    <2>5. q = t + 1
      OBVIOUS
    <2> HIDE DEF q
    <2>6. CASE InHeader(s, c, q)
      <3> DEFINE x == CommandEnd[s][c - 1]
                 y == ArgEnd(s, c, 0)
                 z == ArgEnd(s, c, 1)
      <3>1. 0 \in 0..PlainLen /\ 1 \in 0..PlainLen /\ 0 + 1 = 1 /\ 0 \in 0..(PlainLen - 1)
        BY <1>0
      <3>2. x \in Nat /\ y = x + 2 /\ y \in Nat /\ z \in Nat /\ y < z
        BY <2>4, <3>1 DEF Spots
      <3>3. q = x + 1 \/ q = x + 2
        BY <2>6 DEF InHeader
      <3> HIDE DEF x, y, z
      <3>4. x <= t /\ t < z
        BY <2>1, <2>5, <3>2, <3>3
      <3>5. Behind(s, c, 0) = x
        BY DEF Behind, x
      <3>6. Reached(s, t, h, 0)
        BY <2>3, <3>1, <3>4, <3>5 DEF Reached, z
      <3> QED BY <3>6
    <2>7. CASE \E i \in 1..Len(s[c].args) : InPart(s, c, i, q)
      <3>1. PICK j \in 1..PlainLen : InPart(s, c, j, q)
        BY <2>4, <2>7
      <3> DEFINE i == j - 1
      <3>2. i \in 0..(PlainLen - 1) /\ i + 1 = j /\ i \in 0..PlainLen /\ j \in 0..PlainLen
        BY <1>0
      <3> DEFINE x == ArgEnd(s, c, i)
                 y == ArgEnd(s, c, j)
      <3>3. x < q /\ q <= y
        BY <3>1 DEF InPart
      <3> HIDE DEF i
      <3>4. x \in Nat /\ y \in Nat /\ CommandEnd[s][c - 1] \in Nat /\ CommandEnd[s][c - 1] < x
        BY <2>4, <3>2 DEF Spots
      <3>5. Behind(s, c, i) = CommandEnd[s][c - 1] \/ Behind(s, c, i) = x
        BY DEF Behind
      <3> HIDE DEF x, y
      <3>6. Behind(s, c, i) <= t /\ t < y
        BY <2>1, <2>5, <3>3, <3>4, <3>5
      <3>7. Reached(s, t, h, i)
        BY <2>3, <3>2, <3>6 DEF Reached, y
      <3> QED BY <3>7
    <2> QED BY <2>2, <2>6, <2>7
  <1> QED BY <1>2, <1>3

LEMMA ReachedOnce ==
  ASSUME NEW s \in Streams, IsPlain(s), NEW t \in Nat, NEW h, NEW i, Reached(s, t, h, i),
         NEW g, NEW j, Reached(s, t, g, j)
  PROVE  h = g /\ i = j
  <1>0. Len(s) \in Nat
    BY PlainFacts
  <1>1. /\ Cardinality(Below(s, t)) = h * PlainLen + i /\ h \in Nat /\ i \in Nat
        /\ i < PlainLen
    <2>1. /\ Counts(Below(s, t), h * PlainLen + i)
          /\ h \in 0..Len(s) /\ i \in Nat /\ i < PlainLen
      BY BelowReached
    <2> QED BY <1>0, <2>1 DEF Counts
  <1>2. /\ Cardinality(Below(s, t)) = g * PlainLen + j /\ g \in Nat /\ j \in Nat
        /\ j < PlainLen
    <2>1. /\ Counts(Below(s, t), g * PlainLen + j)
          /\ g \in 0..Len(s) /\ j \in Nat /\ j < PlainLen
      BY BelowReached
    <2> QED BY <1>0, <2>1 DEF Counts
  <1> DEFINE n == Cardinality(Below(s, t))
  <1>3. n \div PlainLen = h /\ n % PlainLen = i
    BY <1>1, Rounds
  <1>4. n \div PlainLen = g /\ n % PlainLen = j
    BY <1>2, Rounds
  <1> QED BY <1>3, <1>4

\* The i-th argument of command h + 1 is read next, and nothing of it is there.
LEMMA ReachedLine ==
  ASSUME NEW s \in Streams, IsPlain(s), NEW t \in Nat, NEW h, NEW i, Reached(s, t, h, i)
  PROVE  t \in LineStarts[s] <=> h < Len(s) /\ t = ArgEnd(s, h + 1, i)
  <1>0. Len(s) \in Nat /\ PlainLen \in Nat /\ PlainLen > 0
    BY PlainFacts
  <1>1. t \in LineStarts[s] <=> \E c \in 1..Len(s), j \in 0..(PlainLen - 1) : t = ArgEnd(s, c, j)
    <2>1. {d \in 1..Len(s) : s[d].form = "multibulk"} = 1..Len(s)
          /\ \A c \in 1..Len(s) : Len(s[c].args) = PlainLen
      BY PlainFacts
    <2>2. LineStarts[s] = UNION {{ArgEnd(s, c, k) : k \in 0..(Len(s[c].args) - 1)} :
                                   c \in {d \in 1..Len(s) : s[d].form = "multibulk"}}
      BY DEF LineStarts
    <2> DEFINE C == {d \in 1..Len(s) : s[d].form = "multibulk"}
               A(c) == {ArgEnd(s, c, k) : k \in 0..(Len(s[c].args) - 1)}
    <2>3. C = 1..Len(s) /\ LineStarts[s] = UNION {A(c) : c \in C}
      BY <2>1, <2>2
    <2>4. \A c \in 1..Len(s) : A(c) = {ArgEnd(s, c, k) : k \in 0..(PlainLen - 1)}
      BY <2>1
    <2> HIDE DEF A, C
    <2>5. t \in LineStarts[s] <=> \E c \in 1..Len(s) : t \in A(c)
      BY <2>3
    <2>6. ASSUME NEW c \in 1..Len(s)
          PROVE  t \in A(c) <=> \E k \in 0..(PlainLen - 1) : t = ArgEnd(s, c, k)
      BY <2>4
    <2> QED BY <2>5, <2>6
  <1>2. h \in 0..Len(s) /\ i \in 0..(PlainLen - 1)
    BY <1>0, BelowReached
  <1>3. ASSUME h < Len(s), t = ArgEnd(s, h + 1, i) PROVE t \in LineStarts[s]
    <2>1. h + 1 \in 1..Len(s)
      BY <1>0, <1>2, <1>3
    <2> QED BY <1>1, <1>2, <1>3, <2>1
  <1>4. ASSUME t \in LineStarts[s] PROVE h < Len(s) /\ t = ArgEnd(s, h + 1, i)
    <2>1. PICK c \in 1..Len(s), j \in 0..(PlainLen - 1) : t = ArgEnd(s, c, j)
      BY <1>1, <1>4
    <2> DEFINE g == c - 1
               k == j + 1
    <2>2. /\ g \in 0..(Len(s) - 1) /\ g + 1 = c /\ k \in 0..PlainLen /\ j \in 0..PlainLen
          /\ j < k /\ g < Len(s)
      BY <1>0
    <2>3. Spots(s, c)
      BY PlainSpots
    <2>4. Behind(s, c, j) <= t /\ t < ArgEnd(s, c, k)
      <3> DEFINE x == CommandEnd[s][c - 1]
                 y == ArgEnd(s, c, k)
      <3>1. x \in Nat /\ x < t /\ t < y /\ y \in Nat
        BY <2>1, <2>2, <2>3 DEF Spots
      <3>2. Behind(s, c, j) = x \/ Behind(s, c, j) = t
        BY <2>1 DEF Behind
      <3> HIDE DEF x, y
      <3>3. Behind(s, c, j) <= t /\ t < y
        BY <3>1, <3>2
      <3> QED BY <3>3 DEF y
    <2>5. Reached(s, t, g, j)
      BY <2>2, <2>4 DEF Reached
    <2>6. g = h /\ j = i
      BY <2>5, ReachedOnce
    <2> QED BY <2>1, <2>2, <2>6
  <1> QED BY <1>3, <1>4

\* Argument i is behind the first of its command, which goes on.
LEMMA ReachedInside ==
  ASSUME NEW s \in Streams, IsPlain(s), NEW t \in Nat, NEW h, NEW i, Reached(s, t, h, i)
  PROVE  (\E c \in 1..Len(s) : /\ s[c].args # <<>> /\ ArgEnd(s, c, 1) <= t
                               /\ t < CommandEnd[s][c]) <=> i # 0
  <1>0. Len(s) \in Nat /\ PlainLen \in Nat /\ PlainLen > 0 /\ 1 \in 0..PlainLen
    BY PlainFacts
  <1>1. h \in 0..Len(s) /\ i \in 0..(PlainLen - 1) /\ CommandEnd[s][h] <= t
        /\ CommandEnd[s][h] \in Nat
    BY <1>0, BelowReached
  <1>2. ASSUME i # 0
        PROVE  \E c \in 1..Len(s) : /\ s[c].args # <<>> /\ ArgEnd(s, c, 1) <= t
                                    /\ t < CommandEnd[s][c]
    <2> DEFINE c == h + 1
               j == i + 1
    <2>1. h \in 0..(Len(s) - 1) /\ Behind(s, c, i) <= t /\ t < ArgEnd(s, c, j)
      BY <1>2 DEF Reached
    <2>2. c \in 1..Len(s) /\ i \in 0..PlainLen /\ j \in 0..PlainLen /\ (i = 1 \/ 1 < i)
      BY <1>0, <1>1, <1>2, <2>1
    <2> HIDE DEF c, j
    <2>3. Spots(s, c) /\ Len(s[c].args) = PlainLen
      BY <2>2, PlainSpots, PlainFacts
    <2>4. Behind(s, c, i) = ArgEnd(s, c, i)
      BY <1>2 DEF Behind
    <2> DEFINE u == ArgEnd(s, c, 1)
               x == ArgEnd(s, c, i)
               y == ArgEnd(s, c, j)
               z == CommandEnd[s][c]
    <2>5. /\ u \in Nat /\ x \in Nat /\ y \in Nat /\ z \in Nat /\ y <= z /\ x <= t /\ t < y
          /\ (x = u \/ u < x)
      BY <1>0, <2>1, <2>2, <2>3, <2>4 DEF Spots
    <2> HIDE DEF u, x, y, z
    <2>6. u <= t /\ t < z
      BY <2>5
    <2>7. s[c].args # <<>>
      <3>1. s[c].args = <<>> => Len(s[c].args) = 0
        OBVIOUS
      <3> QED BY <1>0, <2>3, <3>1
    <2> QED BY <2>2, <2>6, <2>7 DEF u, z
  <1>3. ASSUME i = 0, NEW c \in 1..Len(s), ArgEnd(s, c, 1) <= t, t < CommandEnd[s][c]
        PROVE  FALSE
    <2>1. Spots(s, c)
      BY PlainSpots
    <2>2. \A k, l \in 0..Len(s) : k <= l => CommandEnd[s][k] <= CommandEnd[s][l]
      BY StreamInOrder DEF InOrder
    <2> DEFINE u == ArgEnd(s, c, 1)
               from == CommandEnd[s][c - 1]
               to == CommandEnd[s][c]
    <2>3. u \in Nat /\ from \in Nat /\ to \in Nat /\ from < u /\ u <= t /\ t < to
      BY <1>0, <1>3, <2>1 DEF Spots
    <2> HIDE DEF u, from, to
    <2>4. CASE c <= h
      <3>1. c \in 0..Len(s) /\ h \in 0..Len(s)
        BY <1>0, <1>1
      <3>2. to <= CommandEnd[s][h]
        BY <2>2, <2>4, <3>1 DEF to
      <3> QED BY <1>1, <2>3, <3>2
    <2>5. CASE c > h
      <3> DEFINE g == h + 1
      <3>1. h # Len(s) /\ h \in 0..(Len(s) - 1) /\ g \in 1..Len(s) /\ g \in 0..Len(s)
            /\ (c = g \/ (g <= c - 1 /\ c - 1 \in 0..Len(s)))
        BY <1>0, <1>1, <2>5
      <3>2. t < ArgEnd(s, g, 1)
        BY <1>3, <3>1 DEF Reached
      <3> HIDE DEF g
      <3>3. Spots(s, g)
        BY <3>1, PlainSpots
      <3>4. CASE c = g
        <4>1. t < u
          BY <3>2, <3>4 DEF u
        <4> QED BY <2>3, <4>1
      <3>5. CASE g <= c - 1 /\ c - 1 \in 0..Len(s)
        <4> DEFINE x == ArgEnd(s, g, 1)
                   y == CommandEnd[s][g]
        <4>1. x \in Nat /\ y \in Nat /\ x <= y /\ t < x
          BY <1>0, <3>2, <3>3 DEF Spots
        <4>2. y <= from
          BY <2>2, <3>1, <3>5 DEF from
        <4> HIDE DEF x, y
        <4> QED BY <2>3, <4>1, <4>2
      <3> QED BY <3>1, <3>4, <3>5
    <2> QED BY <1>0, <1>1, <2>4, <2>5
  <1> QED BY <1>2, <1>3

LEMMA ToldLength ==
  ASSUME NEW s \in Streams, IsPlain(s), NEW h \in 0..Len(s), NEW i \in 0..PlainLen,
         h < Len(s) \/ i = 0
  PROVE  Len(Told(s, h, i)) = h * PlainLen + i /\ Told(s, h, i) \in Seq(Seq(Byte))
  <1> DEFINE S == Seq(Byte)
             T(k, j) == /\ Told(s, k, j) \in Seq(S) /\ Len(Told(s, k, j)) = k * PlainLen + j
             R == {k \in Nat : k <= Len(s) => T(k, 0)}
  <1>0. /\ Len(s) \in Nat /\ PlainLen \in Nat
        /\ \A c \in 1..Len(s) : Len(s[c].args) = PlainLen
    BY PlainFacts
  <1>1. ASSUME NEW k \in 0..(Len(s) - 1), T(k, 0)
        PROVE  \A j \in 0..PlainLen : T(k, j)
    <2> DEFINE Q == {j \in Nat : j <= PlainLen => T(k, j)}
               n == k * PlainLen
    <2>1. k \in Nat /\ k + 1 \in 1..Len(s) /\ Len(s[k + 1].args) = PlainLen
      BY <1>0
    <2>2. n \in Nat
      BY <2>1, Times
    <2>3. 0 \in Q
      BY <1>1
    <2>4. ASSUME NEW j \in Nat, j \in Q PROVE j + 1 \in Q
      <3> SUFFICES ASSUME j + 1 <= PlainLen PROVE T(k, j + 1)
        OBVIOUS
      <3> DEFINE a == Argument(s, k + 1, j + 1)
                 x == Told(s, k, j)
                 one == <<a>>
      <3>1. j \in 0..PlainLen /\ j + 1 \in 1..PlainLen /\ j < PlainLen
        BY <1>0
      <3>2. ToldFacts(s, k, j, PlainLen)
        BY <1>0, <2>1, <3>1, ToldTyped
      <3>3. a \in S
        <4> DEFINE c == k + 1
                   i1 == j + 1
        <4>1. c \in 1..Len(s) /\ i1 \in 1..Len(s[c].args)
          BY <2>1, <3>1
        <4> HIDE DEF c, i1
        <4>2. Argument(s, c, i1) \in Seq(Byte)
          BY <4>1, ArgumentFacts DEF DataOf
        <4> QED BY <4>2 DEF c, i1
      <3>4. Told(s, k, j + 1) = x \o one /\ x \in Seq(S) /\ Len(x) = n + j
        BY <2>4, <3>1, <3>2 DEF ToldFacts
      <3> HIDE DEF S, a, x
      <3>5. x \o one \in Seq(S) /\ Len(x \o one) = Len(x) + 1
        BY <3>3, <3>4
      <3> HIDE DEF n, one
      <3>6. Len(Told(s, k, j + 1)) = n + (j + 1) /\ Told(s, k, j + 1) \in Seq(S)
        BY <2>2, <3>4, <3>5
      <3> QED BY <3>6 DEF n
    <2> HIDE DEF Q
    <2>5. Nat \subseteq Q
      BY <2>3, <2>4, SetInduction
    <2>6. \A j \in 0..PlainLen : j \in Q /\ j \in Nat /\ j <= PlainLen
      BY <1>0, <2>5
    <2> QED BY <2>6 DEF Q
  <1>2. 0 \in R
    <2>1. Told(s, 0, 0) = <<>>
      <3> DEFINE x == <<>>
      <3>1. Len(s) \in Nat /\ 0 \in 0..Len(s)
        BY <1>0
      <3>2. FlattenSeq([d \in 1..0 |-> Arguments(s, d)]) = x
        BY <3>1, FirstArguments, Zenon
      <3>3. [j \in 1..0 |-> Argument(s, 0 + 1, j)] = x
        OBVIOUS
      <3>4. x \o x = x
        OBVIOUS
      <3> HIDE DEF x
      <3>5. Told(s, 0, 0) = x
        BY <3>2, <3>3, <3>4 DEF Told
      <3> QED BY <3>5 DEF x
    <2>2. 0 * PlainLen + 0 = 0
      BY <1>0
    <2> DEFINE x == Told(s, 0, 0)
               n == 0 * PlainLen + 0
               e == <<>>
    <2>3. e \in Seq(S) /\ Len(e) = 0 /\ x = e
      BY <2>1
    <2>4. x \in Seq(S) /\ Len(x) = 0
      BY <2>3, Zenon
    <2>5. n = 0
      BY <2>2
    <2> HIDE DEF x, n, S
    <2>6. x \in Seq(S) /\ Len(x) = n
      BY <2>4, <2>5
    <2>7. T(0, 0)
      BY <2>6 DEF x, n
    <2> QED BY <2>7
  <1>3. ASSUME NEW k \in Nat, k \in R PROVE k + 1 \in R
    <2> SUFFICES ASSUME k + 1 <= Len(s) PROVE T(k + 1, 0)
      OBVIOUS
    <2>1. k \in 0..(Len(s) - 1) /\ T(k, 0) /\ PlainLen \in 0..PlainLen /\ k + 1 \in 1..Len(s)
      BY <1>0, <1>3
    <2>2. T(k, PlainLen)
      BY <1>1, <2>1
    <2>3. ToldFacts(s, k, PlainLen, PlainLen)
      BY <1>0, <2>1, ToldTyped
    <2>4. Told(s, k, PlainLen) = Told(s, k + 1, 0)
      BY <2>3 DEF ToldFacts
    <2>5. (k + 1) * PlainLen + 0 = k * PlainLen + PlainLen
      BY <1>0, Times
    <2> HIDE DEF S
    <2> QED BY <2>2, <2>4, <2>5
  <1> HIDE DEF R
  <1>4. h \in R /\ h \in Nat /\ h <= Len(s)
    BY <1>0, <1>2, <1>3, SetInduction
  <1>5. T(h, 0)
    BY <1>4 DEF R
  <1>6. CASE i = 0
    BY <1>5, <1>6
  <1>7. CASE h < Len(s)
    <2>1. h \in 0..(Len(s) - 1)
      BY <1>0, <1>7
    <2> QED BY <1>1, <1>5, <2>1
  <1> QED BY <1>6, <1>7

LEMMA AllLength ==
  ASSUME NEW s \in Streams
  PROVE  /\ Len(AllArguments(s)) \in Nat
         /\ IsPlain(s) => Len(AllArguments(s)) = Len(s) * PlainLen
  <1> DEFINE x == AllArguments(s)
             S == Seq(Byte)
  <1>0. Len(s) \in Nat /\ Len(s) \in 0..Len(s)
    BY CommandFacts
  <1>1. x = FlattenSeq([d \in 1..Len(s) |-> Arguments(s, d)]) /\ x \in Seq(S)
    BY <1>0, FirstArguments, Zenon DEF AllArguments
  <1>2. ASSUME IsPlain(s) PROVE Len(x) = Len(s) * PlainLen
    <2> DEFINE none == [j \in 1..0 |-> Argument(s, Len(s) + 1, j)]
    <2>1. none = <<>>
      OBVIOUS
    <2>2. Told(s, Len(s), 0) = x \o none
      BY <1>1 DEF Told
    <2> HIDE DEF x, S, none
    <2>3. x \o none = x
      BY <1>1, <2>1
    <2>4. 0 \in 0..PlainLen
      BY <1>2, PlainFacts
    <2>5. Len(Told(s, Len(s), 0)) = Len(s) * PlainLen + 0 /\ Len(s) * PlainLen \in Nat
      BY <1>0, <1>2, <2>4, ToldLength, Times
    <2> QED BY <2>2, <2>3, <2>5
  <1> HIDE DEF S
  <1>3. Len(x) \in Nat
    <2> HIDE DEF x
    <2> QED BY <1>1
  <1> QED BY <1>2, <1>3

LEMMA Bounded ==
  ASSUME NEW n \in Nat, NEW f \in [1..n -> Nat]
  PROVE  \E b \in Nat : \A k \in 1..n : f[k] <= b
  <1> DEFINE S == {m \in Nat : m <= n => \E b \in Nat : \A k \in 1..m : f[k] <= b}
  <1>1. 0 \in S
    <2>1. \A k \in 1..0 : f[k] <= 0
      OBVIOUS
    <2> QED BY <2>1
  <1>2. ASSUME NEW m \in Nat, m \in S PROVE m + 1 \in S
    <2> SUFFICES ASSUME m + 1 <= n PROVE \E b \in Nat : \A k \in 1..(m + 1) : f[k] <= b
      OBVIOUS
    <2>1. PICK b \in Nat : \A k \in 1..m : f[k] <= b
      BY <1>2
    <2>2. f[m + 1] \in Nat
      OBVIOUS
    <2> DEFINE x == f[m + 1]
               d == b + x
    <2>3. \A k \in 1..(m + 1) : f[k] <= d /\ d \in Nat
      <3>1. ASSUME NEW k \in 1..(m + 1) PROVE f[k] <= d /\ d \in Nat
        <4>1. f[k] \in Nat /\ (k \in 1..m \/ k = m + 1)
          OBVIOUS
        <4>2. f[k] <= b \/ f[k] = x
          BY <2>1, <4>1
        <4> HIDE DEF x
        <4> QED BY <2>2, <4>1, <4>2 DEF x
      <3> QED BY <3>1
    <2>4. d \in Nat
      BY <2>2
    <2> QED BY <2>3, <2>4
  <1> HIDE DEF S
  <1>3. n \in S
    BY <1>1, <1>2, SetInduction
  <1> QED BY <1>3 DEF S

\* The longest of finitely many streams.
Most == Max({Len(AllArguments(s)) : s \in Streams})

LEMMA MostFacts ==
  ASSUME IsFiniteSet(Streams), NEW s \in Streams
  PROVE  Most \in Nat /\ Len(AllArguments(s)) <= Most
  <1> DEFINE A == [z \in Streams |-> Len(AllArguments(z))]
             N == {Len(AllArguments(z)) : z \in Streams}
             U == {b \in Nat : \A z \in Streams : A[z] <= b}
  <1>1. A \in [Streams -> Nat] /\ N = {A[z] : z \in Streams} /\ A[s] = Len(AllArguments(s))
    BY AllLength
  <1>2. Most = CHOOSE x \in N : \A y \in N : x >= y
    BY DEF Most, Max
  <1> HIDE DEF A, N
  <1>3. U # {}
    <2>1. PICK n \in Nat : ExistsSurjection(1..n, Streams)
      BY FS_NatSurjection
    <2>2. PICK g \in [1..n -> Streams] : \A z \in Streams : \E k \in 1..n : g[k] = z
      BY <2>1, Zenon DEF ExistsSurjection, Surjection
    <2> DEFINE f == [k \in 1..n |-> A[g[k]]]
    <2>3. f \in [1..n -> Nat]
      BY <1>1, <2>2
    <2>4. PICK b \in Nat : \A k \in 1..n : f[k] <= b
      BY <2>3, Bounded
    <2>5. \A z \in Streams : A[z] <= b
      BY <2>2, <2>4
    <2> QED BY <2>5
  <1>4. PICK m \in U : \A b \in U : m <= b
    BY <1>3, Least
  <1>5. m \in Nat /\ \A z \in Streams : A[z] <= m
    BY <1>4
  <1>6. m \in N
    <2>1. CASE m = 0
      <3>1. A[s] \in Nat /\ A[s] <= 0
        BY <1>1, <1>5, <2>1
      <3>2. A[s] = m
        BY <2>1, <3>1
      <3> QED BY <1>1, <3>2
    <2>2. CASE m # 0
      <3>1. m - 1 \in Nat /\ ~(m <= m - 1)
        BY <1>5, <2>2
      <3>2. m - 1 \notin U
        BY <1>4, <3>1
      <3>3. PICK z \in Streams : ~(A[z] <= m - 1)
        BY <3>1, <3>2
      <3>4. A[z] \in Nat /\ A[z] <= m
        BY <1>1, <1>5
      <3>5. A[z] = m
        BY <1>5, <3>3, <3>4
      <3> QED BY <1>1, <3>5
    <2> QED BY <2>1, <2>2
  <1>7. \A y \in N : m >= y
    BY <1>1, <1>5
  <1>8. Most \in N /\ \A y \in N : Most >= y
    BY <1>2, <1>6, <1>7
  <1>9. \A y \in N : y \in Nat
    BY <1>1
  <1>10. Len(AllArguments(s)) \in N
    BY <1>1
  <1> QED BY <1>8, <1>9, <1>10

LEMMA ReachedTotal ==
  ASSUME NEW s \in Streams, IsPlain(s), NEW t \in Nat, NEW h, NEW i, Reached(s, t, h, i)
  PROVE  h * PlainLen + i <= Len(AllArguments(s)) /\ h * PlainLen + i \in Nat
  <1>0. Len(s) \in Nat /\ PlainLen \in Nat
    BY PlainFacts
  <1>1. h \in Nat /\ h <= Len(s) /\ i \in Nat /\ i < PlainLen
    BY <1>0, BelowReached
  <1> DEFINE a == h * PlainLen
             b == Len(s) * PlainLen
  <1>2. Len(AllArguments(s)) = b
    BY AllLength
  <1>3. a \in Nat /\ b \in Nat
    BY <1>0, <1>1, Times
  <1>4. CASE h = Len(s)
    <2>1. i = 0
      BY <1>0, <1>4 DEF Reached
    <2>2. a = b
      BY <1>4
    <2> HIDE DEF a, b
    <2> QED BY <1>2, <1>3, <2>1, <2>2 DEF a
  <1>5. CASE h # Len(s)
    <2>1. h + 1 \in Nat /\ h + 1 <= Len(s)
      BY <1>0, <1>1, <1>5
    <2>2. (h + 1) * PlainLen = a + PlainLen /\ (h + 1) * PlainLen <= b
      BY <1>0, <1>1, <2>1, Times, TimesMonotonic
    <2> HIDE DEF a, b
    <2>3. a + PlainLen <= b
      BY <2>2
    <2>4. a + i <= b
      BY <1>0, <1>1, <1>3, <2>3
    <2>5. a + i \in Nat
      BY <1>1, <1>3
    <2> QED BY <1>2, <2>4, <2>5 DEF a
  <1> QED BY <1>4, <1>5

\* How many arguments the first i requests of pu have, and the piece that each is of the
\* stream of arguments.
Thru(pu, i) == Len(FlattenSeq(SubSeq(pu, 1, i)))

Ends(pu) == [i \in 1..Len(pu) |-> <<Thru(pu, i - 1), Thru(pu, i)>>]

LEMMA ThruFacts ==
  ASSUME NEW S, NEW x \in Seq(Seq(S))
  PROVE  /\ \A i \in 0..Len(x) : Thru(x, i) \in Nat
         /\ Thru(x, Len(x)) = Len(FlattenSeq(x)) /\ Len(FlattenSeq(x)) \in Nat
         /\ Thru(x, 0) = 0
  <1> DEFINE T == Seq(S)
  <1>1. ASSUME NEW i \in 0..Len(x) PROVE Thru(x, i) \in Nat
    <2> DEFINE y == SubSeq(x, 1, i)
    <2>1. y \in Seq(T)
      <3>1. x \in Seq(T)
        OBVIOUS
      <3> HIDE DEF T
      <3> QED BY <3>1
    <2> HIDE DEF y
    <2>2. FlattenSeq(y) \in Seq(S)
      BY <2>1, FlattenFacts
    <2> QED BY <2>2 DEF Thru, y
  <1>2. SubSeq(x, 1, Len(x)) = x /\ Len(x) \in Nat
    <2> HIDE DEF T
    <2> QED OBVIOUS
  <1>3. FlattenSeq(x) \in Seq(S)
    BY FlattenFacts
  <1>4. Len(FlattenSeq(x)) \in Nat
    BY <1>3
  <1>5. Thru(x, 0) = 0
    <2> DEFINE e == <<>>
               y == SubSeq(x, 1, 0)
    <2>1. y = e /\ e \in Seq(S)
      OBVIOUS
    <2>2. FlattenSeq(e) = e
      BY <2>1, FlatMore DEF FlattensMore
    <2>3. Len(e) = 0
      OBVIOUS
    <2> HIDE DEF e, y
    <2> QED BY <2>1, <2>2, <2>3 DEF Thru, y
  <1> QED BY <1>1, <1>2, <1>4, <1>5 DEF Thru

LEMMA EndsTyped ==
  ASSUME NEW S, NEW x \in Seq(Seq(S))
  PROVE  Ends(x) \in Seq(Nat \X Nat) /\ Len(Ends(x)) = Len(x) /\ Len(x) \in Nat
  <1>1. Len(x) \in Nat
    OBVIOUS
  <1>2. \A i \in 0..Len(x) : Thru(x, i) \in Nat
    BY ThruFacts
  <1>3. ASSUME NEW i \in 1..Len(x) PROVE <<Thru(x, i - 1), Thru(x, i)>> \in Nat \X Nat
    <2>1. i - 1 \in 0..Len(x) /\ i \in 0..Len(x)
      BY <1>1
    <2> QED BY <1>2, <2>1
  <1> DEFINE P(i) == <<Thru(x, i - 1), Thru(x, i)>>
             W == Nat \X Nat
             n == Len(x)
  <1>4. \A i \in 1..n : P(i) \in W
    BY <1>3
  <1>5. Ends(x) = [i \in 1..n |-> P(i)]
    BY DEF Ends
  <1> HIDE DEF P, W, n
  <1>6. n \in Nat
    BY <1>1 DEF n
  <1> QED BY <1>4, <1>5, <1>6 DEF W, n

LEMMA EndsMore ==
  ASSUME NEW S, NEW x \in Seq(Seq(S)), NEW e \in Seq(S), NEW n, n = Len(FlattenSeq(x))
  PROVE  /\ Ends(Append(x, e)) = Append(Ends(x), <<n, n + Len(e)>>)
         /\ Len(FlattenSeq(Append(x, e))) = n + Len(e)
         /\ n \in Nat /\ Len(e) \in Nat
  <1> DEFINE T == Seq(S)
             z == Append(x, e)
             m == Len(x)
             f == Ends(x)
             g == Ends(z)
             p == <<n, n + Len(e)>>
  <1>1. Len(e) \in Nat
    OBVIOUS
  <1>2. n \in Nat /\ Thru(x, m) = n
    BY ThruFacts
  <1>3. z \in Seq(T) /\ FlattenSeq(z) = FlattenSeq(x) \o e /\ FlattenSeq(x) \in Seq(S)
    BY FlatMore DEF FlattensMore
  <1>4. Len(FlattenSeq(z)) = n + Len(e)
    <2> DEFINE y == FlattenSeq(x)
    <2>1. y \in Seq(S) /\ FlattenSeq(z) = y \o e /\ n = Len(y)
      BY <1>3
    <2> HIDE DEF y, z
    <2> QED BY <2>1
  <1>5. m \in Nat /\ Len(z) = m + 1 /\ x \in Seq(T)
        /\ \A i \in 0..m : SubSeq(z, 1, i) = SubSeq(x, 1, i)
    <2>0. x \in Seq(T) /\ e \in T
      OBVIOUS
    <2> HIDE DEF T
    <2>1. m \in Nat /\ Len(z) = m + 1
      BY <2>0
    <2>2. ASSUME NEW i \in 0..m PROVE SubSeq(z, 1, i) = SubSeq(x, 1, i)
      <3> DEFINE u == SubSeq(z, 1, i)
                 v == SubSeq(x, 1, i)
      <3>1. z \in Seq(T) /\ \A k \in 1..m : z[k] = x[k]
        BY <2>0
      <3> HIDE DEF z
      <3>2. u \in Seq(T) /\ Len(u) = i /\ v \in Seq(T) /\ Len(v) = i
        BY <2>0, <2>1, <3>1
      <3>3. \A k \in 1..i : u[k] = z[k] /\ v[k] = x[k] /\ k \in 1..m
        BY <2>0, <2>1, <3>1
      <3> HIDE DEF u, v
      <3>4. u = v
        BY <3>1, <3>2, <3>3, SameSeq
      <3> QED BY <3>4 DEF u, v
    <2> QED BY <2>0, <2>1, <2>2
  <1>6. \A i \in 0..m : Thru(z, i) = Thru(x, i)
    BY <1>5 DEF Thru
  <1>7. Thru(z, m + 1) = n + Len(e)
    <2>1. Thru(z, Len(z)) = Len(FlattenSeq(z))
      BY <1>3, ThruFacts
    <2> HIDE DEF z, m
    <2> QED BY <1>4, <1>5, <2>1
  <1>8. f \in Seq(Nat \X Nat) /\ Len(f) = m /\ g \in Seq(Nat \X Nat) /\ Len(g) = m + 1
    <2>1. f \in Seq(Nat \X Nat) /\ Len(f) = m
      BY EndsTyped
    <2>2. g \in Seq(Nat \X Nat) /\ Len(g) = Len(z)
      BY <1>3, EndsTyped
    <2> QED BY <1>5, <2>1, <2>2
  <1> DEFINE W == Nat \X Nat
             h == Append(f, p)
  <1>9. p \in W
    BY <1>1, <1>2
  <1>10. ASSUME NEW i \in 1..(m + 1) PROVE g[i] = h[i]
    <2>1. g[i] = <<Thru(z, i - 1), Thru(z, i)>>
      <3>1. i \in 1..Len(z)
        BY <1>5
      <3> HIDE DEF z
      <3> QED BY <3>1 DEF Ends
    <2>2. CASE i \in 1..m
      <3>1. i - 1 \in 0..m /\ i \in 0..m
        BY <1>5, <2>2
      <3>2. f[i] = <<Thru(x, i - 1), Thru(x, i)>>
        BY <2>2 DEF Ends
      <3>3. h[i] = f[i]
        <4> HIDE DEF f, p, g, W, m
        <4> QED BY <1>5, <1>8, <1>9, <2>2
      <3> DEFINE j == i - 1
      <3>4. Thru(z, j) = Thru(x, j) /\ Thru(z, i) = Thru(x, i)
        BY <1>6, <3>1
      <3> QED BY <2>1, <3>2, <3>3, <3>4
    <2>3. CASE i = m + 1
      <3>1. i - 1 = m /\ m \in 0..m
        BY <1>5, <2>3
      <3>2. g[i] = p
        BY <1>2, <1>6, <1>7, <2>1, <2>3, <3>1
      <3>3. h[i] = p
        <4> HIDE DEF f, p, g, W, m
        <4> QED BY <1>5, <1>8, <1>9, <2>3
      <3> QED BY <3>2, <3>3
    <2>4. i \in 1..m \/ i = m + 1
      BY <1>5
    <2> QED BY <2>2, <2>3, <2>4
  <1>11. g = h
    <2> HIDE DEF f, p, g, m
    <2>1. h \in Seq(W) /\ Len(h) = m + 1 /\ g \in Seq(W)
      BY <1>5, <1>8, <1>9
    <2> HIDE DEF h, W
    <2> QED BY <1>8, <1>10, <2>1, SameSeq
  <1> QED BY <1>1, <1>2, <1>4, <1>11

\* What ClientStream pushes from argument n on when u arguments are there: what an
\* unreset parser leaves, and the commands that are complete.
Remaining(n, done, u) == (IF done THEN <<<<n, n>>>> ELSE <<>>) \o Stream!Whole(n, u)

PieceSeq == Seq(Nat \X Nat)

LEMMA CompletedFrom ==
  ASSUME NEW h \in Nat, NEW i \in Nat, i < PlainLen, NEW g \in Nat, NEW j \in Nat,
         j < PlainLen, NEW a, a = h * PlainLen + i, NEW u, u = g * PlainLen + j
  PROVE  /\ Stream!Completed(a, u) = g - h
         /\ \A k : Stream!EndOf(a, k) = (h + k) * PlainLen
  <1>1. a \div PlainLen = h /\ u \div PlainLen = g
    BY Rounds
  <1> QED BY <1>1 DEF Stream!Completed, Stream!EndOf

\* The pieces x are n commands from the one with argument a, number h + 1, on.
Chained(x, h, a, n) ==
  /\ x \in PieceSeq /\ Len(x) = n
  /\ \A k \in 1..n : x[k] = <<IF k = 1 THEN a ELSE (h + (k - 1)) * PlainLen,
                            (h + k) * PlainLen>>

LEMMA WholeTyped ==
  ASSUME NEW h \in Nat, NEW i \in Nat, i < PlainLen, NEW g \in Nat, NEW j \in Nat,
         j < PlainLen, NEW a, a = h * PlainLen + i, NEW u, u = g * PlainLen + j, h <= g
  PROVE  Chained(Stream!Whole(a, u), h, a, g - h)
  <1> DEFINE n == g - h
             P(k) == <<IF k = 1 THEN a ELSE (h + (k - 1)) * PlainLen, (h + k) * PlainLen>>
             W == Nat \X Nat
  <1>1. n \in Nat /\ a \in Nat
    BY Rounds
  <1>2. Stream!Whole(a, u) = [k \in 1..n |-> P(k)]
    <2>1. Stream!Completed(a, u) = n /\ \A k : Stream!EndOf(a, k) = (h + k) * PlainLen
      BY CompletedFrom
    <2> QED BY <2>1 DEF Stream!Whole
  <1>3. ASSUME NEW k \in 1..n PROVE P(k) \in W
    <2> DEFINE x == h + k
               y == h + (k - 1)
    <2>1. x \in Nat /\ y \in Nat
      BY <1>1
    <2> HIDE DEF x, y
    <2>2. x * PlainLen \in Nat /\ y * PlainLen \in Nat
      BY <2>1, Times
    <2> QED BY <1>1, <2>2 DEF x, y
  <1>4. [k \in 1..n |-> P(k)] \in Seq(W) /\ Len([k \in 1..n |-> P(k)]) = n
        /\ \A k \in 1..n : [m \in 1..n |-> P(m)][k] = P(k)
    <2> HIDE DEF P, W, n
    <2> QED BY <1>1, <1>3
  <1> QED BY <1>2, <1>4 DEF Chained, PieceSeq

LEMMA WholeNone ==
  ASSUME NEW h \in Nat, NEW i \in Nat, i < PlainLen, NEW j \in Nat, j < PlainLen,
         NEW a, a = h * PlainLen + i, NEW u, u = h * PlainLen + j
  PROVE  Remaining(a, FALSE, u) = <<>>
  <1> DEFINE x == Stream!Whole(a, u)
             e == <<>>
  <1>1. h - h = 0 /\ h <= h
    OBVIOUS
  <1>2. Chained(x, h, a, h - h)
    BY <1>1, WholeTyped
  <1> HIDE DEF x
  <1>3. x = e /\ e \o x = e
    BY <1>1, <1>2 DEF PieceSeq, Chained
  <1> QED BY <1>3 DEF Remaining, x

LEMMA Ahead ==
  ASSUME NEW S, NEW p \in S, NEW y \in Seq(S), NEW z, z = <<p>> \o y
  PROVE  /\ z \in Seq(S) /\ Len(z) = Len(y) + 1 /\ z[1] = p
         /\ \A k \in 1..Len(y) : z[k + 1] = y[k]
  OBVIOUS

\* From a, the piece up to b is the first.
Leads(a, b, u) ==
  /\ Stream!Whole(a, u) = <<<<a, b>>>> \o Stream!Whole(b, u)
  /\ Stream!Whole(b, u) \in PieceSeq

LEMMA WholeNext ==
  ASSUME NEW h \in Nat, NEW i \in Nat, i < PlainLen, NEW g \in Nat, NEW j \in Nat,
         j < PlainLen, NEW a, a = h * PlainLen + i, NEW u, u = g * PlainLen + j, h + 1 <= g,
         NEW b, b = (h + 1) * PlainLen
  PROVE  Leads(a, b, u)
  <1> DEFINE x == Stream!Whole(a, u)
             y == Stream!Whole(b, u)
             e == <<<<a, b>>>>
             z == e \o y
             c == h + 1
             W == Nat \X Nat
  <1>1. PlainLen \in Nat /\ 0 < PlainLen /\ 0 \in Nat
    BY ClientBoundsAssumption
  <1>2. c \in Nat /\ c <= g /\ h <= g /\ g - h \in Nat /\ g - c \in Nat /\ g - h = (g - c) + 1
    OBVIOUS
  <1>3. b \in Nat /\ a \in Nat /\ b = c * PlainLen + 0
    <2>1. b \in Nat
      BY Times
    <2> QED BY <2>1, Rounds
  <1>4. Chained(x, h, a, g - h)
    BY <1>2, WholeTyped
  <1>5. Chained(y, c, b, g - c)
    <2>1. Chained(Stream!Whole(b, u), c, b, g - c)
      <3> HIDE DEF c, x, y
      <3> DEFINE o == 0
      <3>1. o \in Nat /\ o < PlainLen /\ b = c * PlainLen + o
        BY <1>1, <1>3
      <3> HIDE DEF o
      <3> QED BY <1>2, <3>1, WholeTyped
    <2> QED BY <2>1
  <1>6. e \in Seq(W) /\ Len(e) = 1 /\ e[1] = <<a, b>>
    BY <1>3
  <1> HIDE DEF x, y
  <1>7. z \in Seq(W) /\ Len(z) = g - h /\ z[1] = <<a, b>>
        /\ \A k \in 2..(g - h) : z[k] = y[k - 1]
    <2> DEFINE q == <<a, b>>
    <2>1. y \in Seq(W) /\ Len(y) = g - c /\ q \in W
      BY <1>3, <1>5 DEF Chained, PieceSeq, W
    <2>a. z = <<q>> \o y
      OBVIOUS
    <2> HIDE DEF q, W, z
    <2>2. z \in Seq(W) /\ Len(z) = Len(y) + 1 /\ z[1] = q
          /\ \A k \in 1..Len(y) : z[k + 1] = y[k]
      BY <2>1, <2>a, Ahead
    <2> DEFINE n == g - h
               l == g - c
    <2>3. n = l + 1 /\ l \in Nat
      BY <1>2
    <2>b. Len(y) = l
      BY <2>1
    <2> HIDE DEF n, l, c
    <2>4. ASSUME NEW k \in 2..n PROVE z[k] = y[k - 1]
      <3> DEFINE v == k - 1
      <3>1. v \in 1..l /\ v + 1 = k
        BY <2>3
      <3> HIDE DEF v
      <3>2. z[v + 1] = y[v]
        BY <2>2, <2>b, <3>1
      <3> QED BY <3>1, <3>2 DEF v
    <2>5. Len(z) = n
      BY <2>2, <2>3, <2>b
    <2> QED BY <2>2, <2>4, <2>5 DEF n, q
  <1>8. ASSUME NEW k \in 1..(g - h) PROVE x[k] = z[k]
    <2>1. CASE k = 1
      <3>1. x[1] = <<a, (h + 1) * PlainLen>>
        BY <1>4, <2>1 DEF Chained
      <3> QED BY <1>7, <2>1, <3>1
    <2>2. CASE k # 1
      <3> DEFINE m == k - 1
                 v == h + m
                 w == h + k
      <3>1. m \in 1..(g - c) /\ k \in 2..(g - h) /\ c + m = w /\ c + (m - 1) = v
            /\ (m = 1 => v = c)
        BY <1>2, <2>2
      <3>2. x[k] = <<v * PlainLen, w * PlainLen>>
        BY <1>4, <2>2 DEF Chained
      <3>3. z[k] = y[m]
        BY <1>7, <3>1
      <3>4. y[m] = <<IF m = 1 THEN b ELSE (c + (m - 1)) * PlainLen, (c + m) * PlainLen>>
        BY <1>5, <3>1 DEF Chained
      <3> HIDE DEF m, v, w
      <3>5. y[m] = <<v * PlainLen, w * PlainLen>>
        <4>1. CASE m = 1
          BY <3>1, <3>4, <4>1
        <4>2. CASE m # 1
          BY <3>1, <3>4, <4>2
        <4> QED BY <4>1, <4>2
      <3> QED BY <3>2, <3>3, <3>5
    <2> QED BY <2>1, <2>2
  <1>9. x = z
    <2>1. x \in Seq(W)
      BY <1>4 DEF Chained, PieceSeq
    <2>2. Len(x) = g - h
      BY <1>4 DEF Chained
    <2> HIDE DEF z, W
    <2> QED BY <2>2, <1>7, <1>8, <2>1, SameSeq
  <1> QED BY <1>5, <1>9 DEF x, y, Chained, Leads

\* From argument i of a command on, to its end b and beyond.
Unrolls(a, i, b, u) ==
  /\ Remaining(a, i = PlainLen, u) = <<<<a, b>>>> \o Remaining(b, FALSE, u)
  /\ Remaining(b, FALSE, u) \in PieceSeq /\ a \in Nat /\ b \in Nat

LEMMA Unrolled ==
  ASSUME NEW h \in Nat, NEW i \in 0..PlainLen, NEW g \in Nat, NEW j \in Nat,
         j < PlainLen, NEW a, a = h * PlainLen + i, NEW u, u = g * PlainLen + j, h + 1 <= g,
         NEW b, b = (h + 1) * PlainLen
  PROVE  Unrolls(a, i, b, u)
  <1> DEFINE x == Stream!Whole(b, u)
             none == <<>>
             e == <<<<a, b>>>>
             done == i = PlainLen
  <1>1. PlainLen \in Nat /\ 0 < PlainLen /\ 0 \in Nat /\ i \in Nat
    BY ClientBoundsAssumption
  <1>2. b \in Nat /\ h * PlainLen \in Nat /\ b = h * PlainLen + PlainLen
    BY Times
  <1>3. a \in Nat
    <2> DEFINE n == h * PlainLen
    <2>1. n \in Nat /\ a = n + i
      BY <1>2
    <2> HIDE DEF n
    <2> QED BY <1>1, <2>1
  <1>4. x \in PieceSeq
    <2> DEFINE o == 0
               n == h * PlainLen + o
    <2>1. o \in Nat /\ o < PlainLen /\ n = h * PlainLen + o
      BY <1>1
    <2> HIDE DEF o, n, x
    <2>2. Leads(n, b, u)
      BY <2>1, WholeNext
    <2> QED BY <2>2 DEF Leads, x
  <1>5. none \o x = x
    <2> HIDE DEF x
    <2> QED BY <1>4 DEF PieceSeq
  <1>6. Remaining(b, FALSE, u) = x
    BY <1>5 DEF Remaining
  <1>7. Remaining(a, done, u) = e \o x
    <2>1. CASE done
      <3>1. a = b
        BY <1>2, <2>1
      <3> QED BY <2>1, <3>1 DEF Remaining
    <2>2. CASE ~done
      <3>1. i < PlainLen
        BY <1>1, <2>2
      <3>a. Leads(a, b, u)
        <4> HIDE DEF e, x, done, none
        <4> QED BY <1>1, <3>1, WholeNext
      <3>2. Stream!Whole(a, u) = e \o x
        BY <3>a DEF Leads
      <3>3. Remaining(a, done, u) = none \o (e \o x)
        BY <2>2, <3>2 DEF Remaining
      <3> DEFINE W == Nat \X Nat
      <3>4. e \in Seq(W) /\ x \in Seq(W)
        BY <1>2, <1>3, <1>4 DEF PieceSeq
      <3> HIDE DEF e, x, W
      <3>5. none \o (e \o x) = e \o x
        BY <3>4
      <3> QED BY <3>3, <3>5
    <2> QED BY <2>1, <2>2
  <1> HIDE DEF x
  <1> QED BY <1>2, <1>3, <1>4, <1>6, <1>7 DEF Unrolls

\* What a parser at an exact place of a plain stream knows.
PlaceIs(s, p, ps, given, h, i) ==
  /\ h \in 0..Len(s) /\ i \in 0..PlainLen /\ (h < Len(s) \/ i = 0)
  /\ Len(given) = h * PlainLen + i /\ ps.mindex = i
  /\ Finished(ps) <=> i = PlainLen
  /\ i < PlainLen => Reached(s, p, h, i)
  /\ i = PlainLen => h < Len(s) /\ p = CommandEnd[s][h + 1]

LEMMA ExactPlace ==
  ASSUME NEW s \in Streams, IsPlain(s), NEW p, NEW ps, NEW given, NEW h, NEW i,
         Exact(s, p, ps, given, h, i)
  PROVE  PlaceIs(s, p, ps, given, h, i)
  <1> DEFINE c == h + 1
             n == PlainLen
  <1>0. /\ Len(s) \in Nat /\ n \in Nat /\ n > 0
        /\ \A d \in 1..Len(s) : Len(s[d].args) = n /\ s[d].form = "multibulk"
    BY PlainFacts
  <1>1. h \in 0..Len(s) /\ i \in Nat /\ given = Told(s, h, i)
    BY DEF Exact
  <1>2. h < Len(s) => c \in 1..Len(s) /\ c - 1 = h
    BY <1>0, <1>1
  <1>3. /\ i \in 0..n /\ (h < Len(s) \/ i = 0) /\ ps.mindex = i
        /\ Finished(ps) <=> i = n
        /\ i < n => Reached(s, p, h, i)
        /\ i = n => h < Len(s) /\ p = CommandEnd[s][c]
    <2>1. CASE Waits(s, p, ps, h, i)
      <3>1. i = 0 /\ p = CommandEnd[s][h] /\ ps.mlen = 0 /\ ps.mindex = 0
        BY <2>1 DEF Waits, Blank
      <3>2. CASE h = Len(s)
        BY <1>0, <3>1, <3>2 DEF Finished, Reached
      <3>3. CASE h < Len(s)
        <4>1. Spots(s, c) /\ c - 1 = h
          BY <1>2, <3>3, PlainSpots
        <4> DEFINE o == i + 1
        <4>2. o = 1 /\ 0 \in 0..n /\ o \in 0..n /\ 0 < o /\ h \in 0..(Len(s) - 1)
              /\ i \in 0..(PlainLen - 1)
          BY <1>0, <1>1, <3>1, <3>3
        <4>3. CommandEnd[s][h] \in Nat /\ CommandEnd[s][h] < ArgEnd(s, c, o)
          BY <4>1, <4>2 DEF Spots
        <4>4. Behind(s, c, i) = p
          BY <3>1, <4>1 DEF Behind
        <4> HIDE DEF n
        <4>5. Reached(s, p, h, i)
          BY <3>1, <4>2, <4>3, <4>4 DEF Reached
        <4> QED BY <1>0, <3>1, <3>3, <4>5 DEF Finished
      <3> QED BY <1>0, <1>1, <3>2, <3>3
    <2>2. CASE InMulti(s, p, ps, h, i)
      <3>1. h < Len(s) /\ AtArg(s, p, c, ps) /\ ps.mindex = i
        BY <2>2 DEF InMulti
      <3>2. ps.mlen = n /\ i \in 0..n /\ c \in 1..Len(s) /\ c - 1 = h
            /\ \/ p = ArgEnd(s, c, i)
               \/ i < n /\ p = ArgEnd(s, c, i) + 2
        BY <1>0, <1>2, <3>1 DEF AtArg
      <3>3. Spots(s, c)
        BY <3>2, PlainSpots
      <3>4. Finished(ps) <=> i = n
        BY <1>0, <3>1, <3>2 DEF Finished
      <3>5. i = n => p = CommandEnd[s][c]
        BY <3>2, <3>3 DEF Spots
      <3>6. i < n => Reached(s, p, h, i)
        <4>1. SUFFICES ASSUME i < n PROVE Reached(s, p, h, i)
          OBVIOUS
        <4> DEFINE o == i + 1
                   x == ArgEnd(s, c, i)
                   y == ArgEnd(s, c, o)
        <4>2. i \in 0..(n - 1) /\ h \in 0..(Len(s) - 1) /\ o \in 0..n
          BY <1>0, <1>1, <3>1, <3>2, <4>1
        <4>3. x \in Nat /\ y \in Nat /\ x + 4 < y /\ CommandEnd[s][c - 1] < x
              /\ CommandEnd[s][c - 1] \in Nat
          BY <3>2, <3>3, <4>2 DEF Spots
        <4>4. Behind(s, c, i) = x \/ Behind(s, c, i) = CommandEnd[s][c - 1]
          BY DEF Behind
        <4>5. p = x \/ p = x + 2
          BY <3>2
        <4>6. Behind(s, c, i) <= p /\ p < y
          <5> DEFINE b == Behind(s, c, i)
                     f == CommandEnd[s][c - 1]
          <5>1. (b = x \/ b = f) /\ f < x /\ f \in Nat
            BY <4>3, <4>4
          <5> HIDE DEF b, f, x, y
          <5>2. b <= p /\ p < y
            BY <4>3, <4>5, <5>1
          <5> QED BY <5>2 DEF b
        <4> HIDE DEF x
        <4> QED BY <4>2, <4>6 DEF Reached
      <3> QED BY <3>1, <3>2, <3>4, <3>5, <3>6
    <2>3. CASE InInline(s, p, ps, h, i)
      <3>1. h < Len(s) /\ s[c].form = "inline"
        BY <2>3 DEF InInline
      <3> QED BY <1>0, <1>2, <3>1
    <2> QED BY <2>1, <2>2, <2>3 DEF Exact
  <1> HIDE DEF c
  <1>4. Len(given) = h * PlainLen + i
    BY <1>1, <1>3, ToldLength
  <1> QED BY <1>1, <1>3, <1>4 DEF PlaceIs, c

\* Where the loop comes to at the end of a read.
LEMMA ReachedBy ==
  ASSUME NEW s \in Streams, IsPlain(s), NEW t \in Nat, NEW g, NEW j, Reached(s, t, g, j),
         NEW h \in 0..Len(s), h < Len(s), CommandEnd[s][h + 1] <= t
  PROVE  h + 1 <= g
  <1> DEFINE x == CommandEnd[s][h + 1]
  <1>0. Len(s) \in Nat /\ PlainLen \in Nat /\ PlainLen > 0
    BY PlainFacts
  <1>1. g \in 0..Len(s)
    BY BelowReached
  <1>2. /\ \A k \in 0..Len(s) : CommandEnd[s][k] \in Nat
        /\ \A k, l \in 0..Len(s) : k <= l => CommandEnd[s][k] <= CommandEnd[s][l]
    BY StreamInOrder DEF InOrder
  <1>3. ASSUME ~(h + 1 <= g) PROVE FALSE
    <2> DEFINE c == g + 1
               a == ArgEnd(s, c, j + 1)
               y == CommandEnd[s][c]
               e == h + 1
    <2>1. g < Len(s) /\ c \in 1..Len(s) /\ c \in 0..Len(s) /\ e \in 0..Len(s) /\ c <= e
      BY <1>0, <1>1, <1>3
    <2>2. j \in 0..(PlainLen - 1) /\ t < a
      BY <2>1 DEF Reached
    <2>3. j + 1 \in 0..PlainLen
      BY <1>0, <2>2
    <2>4. a \in Nat /\ a <= y
      BY <2>1, <2>3, PlainSpots DEF Spots
    <2>5. y <= x /\ y \in Nat /\ x \in Nat
      BY <1>2, <2>1
    <2> HIDE DEF a, x, y
    <2>6. x <= t
      BY DEF x
    <2> QED BY <2>2, <2>4, <2>5, <2>6
  <1> QED BY <1>3

\* Where in the stream of arguments currentCmd_ begins.
From(pu) == Len(FlattenSeq(pu))

EndsAt(A, n) == IF A = <<>> THEN n ELSE A[Len(A)][2]

\* The pieces A were pushed since pu, room requests ago.
Logged(pu, room, q, A) ==
  /\ A \in PieceSeq /\ q.room \in Nat /\ q.room + Len(A) = room
  /\ Ends(q.pushed) = Ends(pu) \o A /\ From(q.pushed) = EndsAt(A, From(pu))

LEMMA JoinLength ==
  ASSUME NEW S, NEW x \in Seq(S), NEW y \in Seq(S)
  PROVE  Len(x) \in Nat /\ Len(y) \in Nat /\ Len(x \o y) = Len(x) + Len(y)
  OBVIOUS

\* One more behind what was joined.
Grows(S, x, y, p, z) ==
  /\ z \in Seq(S) /\ Len(z) = Len(y) + 1 /\ z # <<>> /\ z[Len(z)] = p
  /\ Append(x \o y, p) = x \o z /\ Len(y) \in Nat

LEMMA OneMore ==
  ASSUME NEW S, NEW x \in Seq(S), NEW y \in Seq(S), NEW p \in S, NEW z, z = Append(y, p)
  PROVE  Grows(S, x, y, p, z)
  <1>1. z \in Seq(S) /\ Len(z) = Len(y) + 1 /\ z[Len(z)] = p /\ Len(y) \in Nat
    OBVIOUS
  <1>2. z # <<>>
    <2>1. z = <<>> => Len(z) = 0
      OBVIOUS
    <2> QED BY <1>1, <2>1
  <1>3. Append(x \o y, p) = x \o z
    <2> DEFINE v == Append(x \o y, p)
               w == x \o z
    <2>1. v \in Seq(S) /\ w \in Seq(S) /\ Len(v) = Len(w)
          /\ \A i \in 1..Len(v) : v[i] = w[i]
      OBVIOUS
    <2> HIDE DEF v, w
    <2>2. v = w
      BY <2>1, SameSeq
    <2> QED BY <2>2 DEF v, w
  <1> QED BY <1>1, <1>2, <1>3 DEF Grows

LEMMA GivenLength ==
  ASSUME NEW d, NEW r, Sane(d, r)
  PROVE  /\ From(r.pushed) \in Nat /\ Len(r.argv) \in Nat
         /\ Len(Given(r)) = From(r.pushed) + Len(r.argv)
         /\ r.pushed \in Seq(Seq(Seq(Byte))) /\ Shown(r) \in Seq(Seq(Byte))
         /\ Len(Shown(r)) = Len(r.argv) /\ r.room \in Nat
  <1> DEFINE x == FlattenSeq(r.pushed)
             y == Shown(r)
             S == Seq(Byte)
  <1>1. x \in Seq(S) /\ y \in Seq(S) /\ Len(y) = Len(r.argv) /\ Given(r) = x \o y
    BY GivenTyped, ShownTyped DEF Given
  <1>2. r.pushed \in Seq(Seq(Seq(Byte))) /\ Shown(r) \in Seq(Seq(Byte)) /\ r.room \in Nat
    BY <1>1, ParseFields DEF Sane
  <1> HIDE DEF x, y, S
  <1>3. Len(x) \in Nat /\ Len(y) \in Nat /\ Len(x \o y) = Len(x) + Len(y)
    BY <1>1, JoinLength
  <1> QED BY <1>1, <1>2, <1>3 DEF From, x, y

LEMMA NothingLogged ==
  ASSUME NEW pu \in Seq(Seq(Seq(Byte))), NEW q, q.pushed = pu, q.room \in Nat,
         NEW room, room = q.room
  PROVE  Logged(pu, room, q, <<>>)
  <1> DEFINE e == <<>>
             x == Ends(pu)
             W == Nat \X Nat
  <1>1. x \in Seq(W)
    <2> DEFINE S == Seq(Byte)
    <2>1. pu \in Seq(Seq(S))
      OBVIOUS
    <2> HIDE DEF S
    <2> QED BY <2>1, EndsTyped
  <1> HIDE DEF x, W
  <1>2. x \o e = x /\ e \in Seq(W) /\ Len(e) = 0 /\ e = <<>>
    BY <1>1
  <1> HIDE DEF e
  <1>3. Logged(pu, room, q, e)
    BY <1>2 DEF Logged, EndsAt, PieceSeq, W, x
  <1> QED BY <1>2, <1>3

\* One more was pushed, the piece from n to b.
LogsOneMore(pu, room, q, A, n, b) ==
  Logged(pu, room, q, Append(A, <<n, b>>)) /\ From(q.pushed) = b

LEMMA MoreLogged ==
  ASSUME NEW pu \in Seq(Seq(Seq(Byte))), NEW room, NEW r, NEW A, Logged(pu, room, r, A),
         r.pushed \in Seq(Seq(Seq(Byte))), NEW e \in Seq(Seq(Byte)), r.room # 0, NEW q,
         q.pushed = Append(r.pushed, e), q.room = r.room - 1,
         NEW n, n = From(r.pushed), NEW b, b = n + Len(e)
  PROVE  LogsOneMore(pu, room, q, A, n, b)
  <1> DEFINE S == Seq(Byte)
             W == Nat \X Nat
             p == <<n, b>>
             x == Ends(pu)
             y == Ends(r.pushed)
             z == Append(A, p)
  <1>1. pu \in Seq(Seq(S)) /\ r.pushed \in Seq(Seq(S)) /\ e \in Seq(S)
    OBVIOUS
  <1> HIDE DEF S
  <1>2. x \in Seq(W) /\ y \in Seq(W)
    BY <1>1, EndsTyped
  <1>3. n = Len(FlattenSeq(r.pushed))
    BY DEF From
  <1>4. /\ Ends(q.pushed) = Append(y, <<n, n + Len(e)>>)
        /\ Len(FlattenSeq(q.pushed)) = n + Len(e) /\ n \in Nat /\ Len(e) \in Nat
    <2> DEFINE v == r.pushed
    <2>1. v \in Seq(Seq(S)) /\ n = Len(FlattenSeq(v)) /\ q.pushed = Append(v, e) /\ y = Ends(v)
      BY <1>1, <1>3
    <2> HIDE DEF v, y
    <2>2. /\ Ends(Append(v, e)) = Append(Ends(v), <<n, n + Len(e)>>)
          /\ Len(FlattenSeq(Append(v, e))) = n + Len(e) /\ n \in Nat /\ Len(e) \in Nat
      BY <1>1, <2>1, EndsMore
    <2> QED BY <2>1, <2>2
  <1>5. p \in W /\ From(q.pushed) = b /\ Ends(q.pushed) = Append(y, p) /\ p[2] = b
    BY <1>4 DEF From
  <1>6. /\ A \in Seq(W) /\ r.room \in Nat /\ r.room + Len(A) = room /\ y = x \o A
    BY DEF Logged, PieceSeq
  <1> HIDE DEF x, y, W, p
  <1>7. z \in Seq(W) /\ Len(z) = Len(A) + 1 /\ z # <<>> /\ z[Len(z)] = p
        /\ Append(x \o A, p) = x \o z /\ Len(A) \in Nat
    <2>1. z = Append(A, p) /\ p \in W /\ A \in Seq(W) /\ x \in Seq(W)
      BY <1>2, <1>5, <1>6
    <2> HIDE DEF z
    <2>2. Grows(W, x, A, p, z)
      BY <2>1, OneMore
    <2> QED BY <2>2 DEF Grows
  <1>8. EndsAt(z, From(pu)) = b
    BY <1>5, <1>7 DEF EndsAt
  <1>9. q.room \in Nat /\ q.room + Len(z) = room
    <2> DEFINE l == Len(z)
               k == Len(A)
               v == r.room
               w == q.room
    <2>1. l = k + 1 /\ k \in Nat /\ v + k = room /\ v \in Nat /\ v # 0 /\ w = v - 1
      BY <1>6, <1>7
    <2> HIDE DEF l, k, v, w
    <2>2. w \in Nat /\ w + l = room
      BY <2>1
    <2> QED BY <2>2 DEF l, w
  <1> HIDE DEF z
  <1>10. Logged(pu, room, q, z)
    BY <1>5, <1>6, <1>7, <1>8, <1>9 DEF Logged, PieceSeq, W, x
  <1> QED BY <1>5, <1>10 DEF z, p, LogsOneMore

\* What a read of the arguments up to u, of the bytes up to t, is to push, P, from the
\* requests pu on: the loop goes on, ends because there is no room, or ends with the input.
Running(s, t, u, P, pu, room, q) ==
  /\ q.stop = "no" /\ q.argv = <<>>
  /\ \E A, h, i :
       /\ Exact(s, Pos(t, q), q.parser, Given(q), h, i) /\ Logged(pu, room, q, A)
       /\ P = A \o Remaining(h * PlainLen + i, i = PlainLen, u)
       /\ Size(q.input) # 0 \/ (i = 0 /\ Pos(t, q) = CommandEnd[s][h])

NoRoom(P, pu, room, q) ==
  /\ q.stop = "refused" /\ q.room = 0 /\ Finished(q.parser)
  /\ \E A, R : /\ Logged(pu, room, q, A) /\ R \in PieceSeq
               /\ P = Append(A, <<From(q.pushed), From(q.pushed) + Len(q.argv)>>) \o R

Through(s, t, u, P, pu, room, q) ==
  /\ q.stop \in {"no", "TryAgain", "OutOfBound"} /\ ~Finished(q.parser)
  /\ q.stop = "OutOfBound" <=> t \in LineStarts[s]
  /\ From(q.pushed) + Len(q.argv) = u /\ Logged(pu, room, q, P)

Arrived(s, t, u) == \E g, j : Reached(s, t, g, j) /\ u = g * PlainLen + j

LEMMA AfterRoom ==
  ASSUME NEW p \in Parse, NEW q, q = AfterParse(p), p.err # "OK" \/ p.room = 0
  PROVE  q.room = p.room /\ q.argv = p.argv
  <1>1. CASE p.err # "OK"
    <2>1. q = [p EXCEPT !.stop = p.err, !.err = "OK"]
      BY <1>1 DEF AfterParse
    <2> QED BY <2>1, Zenon DEF Parse
  <1>2. CASE p.err = "OK"
    <2>1. p.room = 0
      BY <1>2
    <2> DEFINE x == [p EXCEPT !.stop = "refused"]
    <2>2. Push(p) = x /\ x.stop = "refused" /\ x.room = p.room /\ x.argv = p.argv
      BY <2>1, Zenon DEF Push, Parse
    <2> HIDE DEF x
    <2>3. q = x
      BY <1>2, <2>2 DEF AfterParse, Settled
    <2> QED BY <2>2, <2>3
  <1> QED BY <1>1, <1>2

\* What each turn of the loop adds to.
Progress(t, q) == Pos(t, q) + (IF Finished(q.parser) THEN 0 ELSE 1)

\* Where a turn comes from.
Begins(s, t, u, P, pu, room, r, A, h, i) ==
  /\ r.stop = "no" /\ r.argv = <<>>
  /\ Exact(s, Pos(t, r), r.parser, Given(r), h, i) /\ Logged(pu, room, r, A)
  /\ P = A \o Remaining(h * PlainLen + i, i = PlainLen, u)

TurnsTo(s, t, u, P, pu, room, r, q) ==
  \/ Running(s, t, u, P, pu, room, q) /\ Progress(t, r) < Progress(t, q)
  \/ NoRoom(P, pu, room, q)
  \/ Through(s, t, u, P, pu, room, q) /\ q.stop # "no"

LEMMA PosTyped ==
  ASSUME NEW B, NEW d, NEW t, NEW r, View(B, d, t, r)
  PROVE  Pos(t, r) \in Nat /\ Pos(t, r) <= t /\ t \in Nat
  <1>1. Reads(B, t, r, Pos(t, r), Len(Unread(r)))
    BY ViewFacts
  <1> DEFINE x == Pos(t, r)
             y == Len(Unread(r))
  <1>2. x \in Nat /\ y \in Nat /\ x + y = t
    BY <1>1 DEF Reads
  <1> HIDE DEF x, y
  <1>3. x \in Nat /\ x <= t /\ t \in Nat
    BY <1>2
  <1> QED BY <1>3 DEF x

\* The parse ends inside its command: nothing more is to be pushed.
LEMMA PartComes ==
  ASSUME NEW s \in Streams, IsPlain(s), NEW d \in Blocks, NEW t, NEW u, Arrived(s, t, u),
         NEW P, NEW pu \in Seq(Seq(Seq(Byte))), NEW room, NEW r, View(Bytes[s], d, t, r),
         NEW A, NEW h, NEW i, Begins(s, t, u, P, pu, room, r, A, h, i),
         NEW p, View(Bytes[s], d, t, p), SameRun(r, p), ParsedPart(s, t, h, p), h < Len(s),
         NEW q, q = AfterParse(p), AfterIs(Bytes[s], d, t, p, q)
  PROVE  Through(s, t, u, P, pu, room, q) /\ q.stop # "no"
  <1> DEFINE c == h + 1
  <1>0. Len(s) \in Nat /\ PlainLen \in Nat /\ PlainLen > 0
    BY PlainFacts
  <1>1. PlaceIs(s, Pos(t, r), r.parser, Given(r), h, i)
    BY ExactPlace DEF Begins
  <1>2. h \in 0..Len(s) /\ i \in 0..PlainLen /\ c \in 1..Len(s) /\ c - 1 = h
    BY <1>0, <1>1 DEF PlaceIs
  <1>3. Full(s, c) /\ s[c].form = "multibulk" /\ Spots(s, c)
    BY <1>2, PlainFacts, PlainSpots
  <1>4. PICK k : Exact(s, Pos(t, p), p.parser, Given(p), h, k)
    BY DEF ParsedPart
  <1>5. PlaceIs(s, Pos(t, p), p.parser, Given(p), h, k)
    BY <1>4, ExactPlace
  <1>6. Stalls(s, t, c, p.parser.mindex, p) /\ ~Finished(p.parser)
    BY <1>3 DEF ParsedPart, Missing
  <1>7. /\ k \in Nat /\ k < PlainLen /\ p.parser.mindex = k /\ Reached(s, Pos(t, p), h, k)
        /\ Len(Given(p)) = h * PlainLen + k
    BY <1>0, <1>5, <1>6 DEF PlaceIs
  <1>8. /\ p.err \in {"TryAgain", "OutOfBound"} /\ t < ArgEnd(s, c, k + 1)
        /\ p.err = "OutOfBound" <=> t = ArgEnd(s, c, k)
    BY <1>6, <1>7 DEF Stalls
  <1>9. Pos(t, p) \in Nat /\ Pos(t, p) <= t /\ t \in Nat /\ Pos(t, r) \in Nat /\ Pos(t, r) <= t
    BY PosTyped
  <1> DEFINE e == ArgEnd(s, c, k + 1)
             b == Behind(s, c, k)
             x == Pos(t, p)
             y == CommandEnd[s][c]
             z == Pos(t, r)
  <1>10. e \in Nat /\ e <= y /\ y \in Nat
    <2>1. k + 1 \in 0..PlainLen
      BY <1>0, <1>7
    <2> QED BY <1>3, <2>1 DEF Spots
  <1>11. b <= x /\ b \in Nat
    <2>1. k \in 0..PlainLen /\ c - 1 \in 0..Len(s)
      BY <1>0, <1>2, <1>7
    <2>2. b = CommandEnd[s][c - 1] \/ b = ArgEnd(s, c, k)
      BY DEF Behind
    <2>3. b \in Nat
      BY <1>3, <2>1, <2>2 DEF Spots
    <2>4. h # Len(s)
      BY <1>0
    <2> QED BY <1>7, <2>3, <2>4 DEF Reached
  <1>12. b <= t /\ t < e /\ t < y
    <2>1. t < e
      BY <1>8
    <2> HIDE DEF e, b, x, y
    <2>2. x \in Nat /\ x <= t /\ t \in Nat
      BY <1>9 DEF x
    <2> QED BY <1>10, <1>11, <2>1, <2>2
  <1>13. Reached(s, t, h, k)
    <2>1. h \in 0..(Len(s) - 1) /\ k \in 0..(PlainLen - 1)
      BY <1>0, <1>2, <1>7
    <2> QED BY <1>12, <2>1 DEF Reached
  <1>14. u = h * PlainLen + k
    <2>1. PICK g, j : Reached(s, t, g, j) /\ u = g * PlainLen + j
      BY DEF Arrived
    <2>2. g = h /\ j = k
      BY <1>9, <1>13, <2>1, ReachedOnce
    <2> QED BY <2>1, <2>2
  <1>15. t \in LineStarts[s] <=> p.err = "OutOfBound"
    <2>1. t \in LineStarts[s] <=> h < Len(s) /\ t = ArgEnd(s, h + 1, k)
      BY <1>9, <1>13, ReachedLine
    <2> QED BY <1>8, <2>1
  <1>16. i # PlainLen
    <2>1. SUFFICES ASSUME i = PlainLen PROVE FALSE
      OBVIOUS
    <2>2. z = y
      BY <1>1, <2>1 DEF PlaceIs
    <2>3. z <= t /\ z \in Nat
      BY <1>9
    <2> HIDE DEF y, z, e, b
    <2> QED BY <1>9, <1>12, <2>2, <2>3
  <1>17. P = A
    <2> DEFINE a == h * PlainLen + i
               none == <<>>
    <2>1. h \in Nat /\ i \in Nat /\ i < PlainLen /\ a = h * PlainLen + i
          /\ k \in Nat /\ k < PlainLen /\ u = h * PlainLen + k
      BY <1>0, <1>2, <1>7, <1>14, <1>16
    <2>2. Remaining(a, FALSE, u) = <<>>
      <3> HIDE DEF a, b, c, e, x, y, z
      <3> QED BY <2>1, WholeNone, Zenon
    <2>3. P = A \o none /\ A \in PieceSeq
      BY <1>16, <2>2 DEF Begins, Logged
    <2> DEFINE W == Nat \X Nat
    <2>4. A \in Seq(W)
      BY <2>3 DEF PieceSeq
    <2> HIDE DEF W
    <2>5. A \o none = A
      BY <2>4
    <2> QED BY <2>3, <2>5
  <1>18. p.err # "OK" /\ Sane(d, p) /\ p \in Parse
    BY <1>8 DEF View, Sane
  <1>19. /\ q.stop = p.err /\ q.parser = p.parser /\ q.pushed = p.pushed
         /\ q.room = p.room /\ q.argv = p.argv
    BY <1>18, AfterRoom DEF AfterIs
  <1>20. q.pushed = r.pushed /\ q.room = r.room
    BY <1>19 DEF SameRun
  <1>21. From(q.pushed) + Len(q.argv) = u
    <2>1. Len(Given(p)) = From(p.pushed) + Len(p.argv)
      BY <1>18, GivenLength
    <2> QED BY <1>7, <1>14, <1>19, <2>1
  <1>22. Logged(pu, room, q, A)
    BY <1>20 DEF Begins, Logged
  <1> QED BY <1>6, <1>8, <1>15, <1>17, <1>19, <1>21, <1>22 DEF Through

\* The parse ends with its command: that is pushed, or there is no room for it.
LEMMA WholeComes ==
  ASSUME NEW s \in Streams, IsPlain(s), NEW d \in Blocks, NEW t, NEW u, Arrived(s, t, u),
         NEW P, NEW pu \in Seq(Seq(Seq(Byte))), NEW room, NEW r, View(Bytes[s], d, t, r),
         NEW A, NEW h, NEW i, Begins(s, t, u, P, pu, room, r, A, h, i),
         NEW p, View(Bytes[s], d, t, p), SameRun(r, p), ParsedWhole(s, t, h, p), h < Len(s),
         NEW q, q = AfterParse(p), AfterIs(Bytes[s], d, t, p, q)
  PROVE  TurnsTo(s, t, u, P, pu, room, r, q)
  <1> DEFINE c == h + 1
             a == h * PlainLen + i
             b == c * PlainLen
             W == Nat \X Nat
             e == <<a, b>>
             R == Remaining(b, FALSE, u)
  <1>0. Len(s) \in Nat /\ PlainLen \in Nat /\ PlainLen > 0
    BY PlainFacts
  <1>1. PlaceIs(s, Pos(t, r), r.parser, Given(r), h, i)
    BY ExactPlace DEF Begins
  <1>2. h \in 0..Len(s) /\ i \in 0..PlainLen /\ c \in 1..Len(s) /\ c - 1 = h /\ h \in Nat
        /\ Len(Given(r)) = a /\ c \in 0..Len(s)
    BY <1>0, <1>1 DEF PlaceIs
  <1>3. Full(s, c) /\ s[c].form = "multibulk" /\ Spots(s, c)
    BY <1>2, PlainFacts, PlainSpots
  <1>4. /\ p.err = "OK" /\ Pos(t, p) = CommandEnd[s][c] /\ Given(p) = Told(s, c, 0)
        /\ Finished(p.parser)
    BY <1>3 DEF ParsedWhole
  <1>5. Pos(t, p) \in Nat /\ Pos(t, p) <= t /\ t \in Nat /\ Pos(t, r) \in Nat /\ Pos(t, r) <= t
    BY PosTyped
  <1>6. PICK g, j : Reached(s, t, g, j) /\ u = g * PlainLen + j
    BY DEF Arrived
  <1>7. h + 1 <= g /\ g \in Nat /\ j \in Nat /\ j < PlainLen
    <2>1. g \in 0..Len(s) /\ j \in Nat /\ j < PlainLen
      BY <1>5, <1>6, BelowReached
    <2>2. CommandEnd[s][h + 1] <= t
      BY <1>4, <1>5
    <2>3. h + 1 <= g
      BY <1>2, <1>5, <1>6, <2>2, ReachedBy
    <2> QED BY <2>1, <2>3
  <1>8. /\ Remaining(a, i = PlainLen, u) = <<e>> \o R /\ R \in PieceSeq /\ a \in Nat /\ b \in Nat
    <2>1. u = g * PlainLen + j /\ h \in Nat /\ i \in 0..PlainLen /\ a = h * PlainLen + i
          /\ b = (h + 1) * PlainLen
      BY <1>2, <1>6
    <2> HIDE DEF R, a, b, c
    <2>2. Unrolls(a, i, b, u)
      BY <1>7, <2>1, Unrolled
    <2> QED BY <2>2 DEF Unrolls, R
  <1>9. A \in PieceSeq /\ Logged(pu, room, r, A) /\ r.argv = <<>>
    BY DEF Begins, Logged
  <1>10. P = Append(A, e) \o R
    <2>1. P = A \o (<<e>> \o R)
      BY <1>8 DEF Begins
    <2>2. A \in Seq(W) /\ R \in Seq(W) /\ e \in W
      BY <1>8, <1>9 DEF PieceSeq
    <2> HIDE DEF R, W, e
    <2> DEFINE one == <<e>>
    <2>3. one \in Seq(W) /\ A \o one = Append(A, e)
      BY <2>2
    <2> HIDE DEF one
    <2>a. Associates(W, A, one, R)
      BY <2>2, <2>3, Associative
    <2>4. (A \o one) \o R = A \o (one \o R)
      BY <2>a DEF Associates
    <2> QED BY <2>1, <2>3, <2>4 DEF one
  <1>11. Sane(d, r) /\ Sane(d, p) /\ p \in Parse /\ Sane(d, q)
    BY DEF View, Sane, AfterIs
  <1>12. p.pushed = r.pushed /\ p.room = r.room /\ p.stop = r.stop /\ r.stop = "no"
    BY DEF SameRun, Begins
  <1>13. From(r.pushed) = a
    <2>1. From(r.pushed) \in Nat /\ Len(Given(r)) = From(r.pushed) + Len(r.argv)
      BY <1>11, GivenLength
    <2>2. Len(r.argv) = 0
      BY <1>9
    <2> HIDE DEF a
    <2> QED BY <1>2, <2>1, <2>2
  <1>14. Len(Given(p)) = b
    <2>1. Len(Told(s, c, 0)) = c * PlainLen + 0
      <3> DEFINE o == 0
      <3>1. o \in 0..PlainLen /\ o = 0
        BY <1>0
      <3> HIDE DEF o, c
      <3>2. Len(Told(s, c, o)) = c * PlainLen + o
        BY <1>2, <3>1, ToldLength
      <3> QED BY <3>1, <3>2
    <2> HIDE DEF c
    <2> QED BY <1>4, <1>8, <2>1
  <1>15. CASE q.stop = "refused"
    <2>1. /\ p.room = 0 /\ q.parser = p.parser /\ q.pushed = p.pushed
      BY <1>4, <1>15, <1>12 DEF AfterIs
    <2>2. q.room = p.room /\ q.argv = p.argv
      BY <1>11, <2>1, AfterRoom
    <2>3. From(q.pushed) = a /\ From(q.pushed) + Len(q.argv) = b
      <3>1. Len(Given(p)) = From(p.pushed) + Len(p.argv)
        BY <1>11, GivenLength
      <3> QED BY <1>12, <1>13, <1>14, <2>1, <2>2, <3>1
    <2>4. Logged(pu, room, q, A)
      BY <1>9, <1>12, <2>1, <2>2 DEF Logged
    <2>5. NoRoom(P, pu, room, q)
      BY <1>4, <1>8, <1>10, <1>15, <2>1, <2>2, <2>3, <2>4 DEF NoRoom
    <2> QED BY <2>5 DEF TurnsTo
  <1>16. CASE q.stop # "refused"
    <2>1. /\ q.stop = "no" /\ q.parser = NewParser /\ q.argv = <<>>
          /\ q.pushed = Append(r.pushed, Shown(p)) /\ r.room # 0 /\ q.room = r.room - 1
          /\ Pos(t, q) = Pos(t, p) /\ Given(q) = Given(p)
      BY <1>4, <1>12, <1>16 DEF AfterIs
    <2>2. Logged(pu, room, q, Append(A, e)) /\ From(q.pushed) = b
      <3>1. r.pushed \in Seq(Seq(Seq(Byte)))
        BY <1>11, GivenLength
      <3>2. /\ Shown(p) \in Seq(Seq(Byte)) /\ Len(Shown(p)) = Len(p.argv)
            /\ Len(Given(p)) = From(p.pushed) + Len(p.argv)
        BY <1>11, GivenLength
      <3>3. b = a + Len(Shown(p)) /\ a = From(r.pushed)
        BY <1>12, <1>13, <1>14, <3>2
      <3> DEFINE v == Shown(p)
      <3>4. v \in Seq(Seq(Byte)) /\ b = a + Len(v) /\ q.pushed = Append(r.pushed, v)
        BY <2>1, <3>2, <3>3
      <3> HIDE DEF v, a, b
      <3>5. Logged(pu, room, r, A) /\ a = From(r.pushed) /\ r.room # 0 /\ q.room = r.room - 1
        BY <1>9, <2>1, <3>3
      <3>6. LogsOneMore(pu, room, q, A, a, b)
        BY <3>1, <3>4, <3>5, MoreLogged
      <3> QED BY <3>6 DEF LogsOneMore
    <2>3. Exact(s, Pos(t, q), q.parser, Given(q), c, 0)
      <3>1. Blank(NewParser) /\ NewParser.type = "none"
        BY DEF Blank, NewParser
      <3>2. Waits(s, Pos(t, q), q.parser, c, 0)
        BY <1>4, <2>1, <3>1 DEF Waits
      <3> QED BY <1>2, <1>4, <2>1, <3>2 DEF Exact
    <2>4. Remaining(c * PlainLen + 0, 0 = PlainLen, u) = R
      <3>1. c * PlainLen + 0 = b /\ (0 = PlainLen) = FALSE
        BY <1>0, <1>8
      <3> QED BY <3>1
    <2>5. Running(s, t, u, P, pu, room, q)
      <3> DEFINE X == Append(A, e)
                 k == 0
      <3>1. P = X \o Remaining(c * PlainLen + k, k = PlainLen, u)
        BY <1>10, <2>4
      <3>2. Logged(pu, room, q, X) /\ Exact(s, Pos(t, q), q.parser, Given(q), c, k)
        BY <2>2, <2>3
      <3>3. k = 0 /\ Pos(t, q) = CommandEnd[s][c]
        BY <1>4, <2>1
      <3> HIDE DEF X, k, c, R
      <3> QED BY <2>1, <3>1, <3>2, <3>3 DEF Running
    <2>6. Progress(t, r) < Progress(t, q)
      <3> DEFINE x == Pos(t, r)
                 y == Pos(t, q)
      <3>1. ~Finished(q.parser)
        BY <2>1 DEF Finished, NewParser
      <3>2. y = CommandEnd[s][c] /\ y \in Nat /\ x \in Nat
        BY <1>4, <1>5, <2>1
      <3>3. CASE i = PlainLen
        <4>1. Finished(r.parser) /\ x = y
          BY <1>1, <3>2, <3>3 DEF PlaceIs
        <4> HIDE DEF x, y
        <4>2. x + 0 < y + 1
          BY <3>2, <4>1
        <4> QED BY <3>1, <4>1, <4>2 DEF Progress, x, y
      <3>4. CASE i # PlainLen
        <4>1. ~Finished(r.parser) /\ Reached(s, x, h, i) /\ i + 1 \in 0..PlainLen
          BY <1>0, <1>1, <1>2, <3>4 DEF PlaceIs
        <4>2. x < ArgEnd(s, c, i + 1)
          <5>1. h # Len(s)
            BY <1>0
          <5> QED BY <4>1, <5>1 DEF Reached
        <4> DEFINE v == ArgEnd(s, c, i + 1)
        <4>3. v \in Nat /\ v <= y
          BY <1>3, <3>2, <4>1 DEF Spots
        <4>4. x < v
          BY <4>2
        <4> HIDE DEF x, y, v
        <4>5. x + 1 < y + 1
          BY <3>2, <4>3, <4>4
        <4> QED BY <3>1, <4>1, <4>5 DEF Progress, x, y
      <3> QED BY <3>3, <3>4
    <2> QED BY <2>5, <2>6 DEF TurnsTo
  <1> QED BY <1>15, <1>16

LEMMA TurnComes ==
  ASSUME NEW s \in Streams, IsPlain(s), NEW d \in Blocks, NEW t, NEW u, Arrived(s, t, u),
         NEW P, NEW pu \in Seq(Seq(Seq(Byte))), NEW room, NEW r, Turning(s, d, t, r),
         Running(s, t, u, P, pu, room, r), Size(r.input) # 0
  PROVE  TurnsTo(s, t, u, P, pu, room, r, NextCommand(r))
  <1> DEFINE p == ParseRequest(r)
             q == AfterParse(p)
  <1>0. PICK A, h, i :
             /\ Exact(s, Pos(t, r), r.parser, Given(r), h, i) /\ Logged(pu, room, r, A)
             /\ P = A \o Remaining(h * PlainLen + i, i = PlainLen, u)
             /\ Size(r.input) # 0 \/ (i = 0 /\ Pos(t, r) = CommandEnd[s][h])
    BY Zenon DEF Running
  <1>1. Begins(s, t, u, P, pu, room, r, A, h, i)
    BY <1>0, Zenon DEF Running, Begins
  <1>2. r.stop = "no" /\ Exact(s, Pos(t, r), r.parser, Given(r), h, i)
    BY <1>1 DEF Begins
  <1>3. NextCommand(r) = q
    BY <1>2 DEF NextCommand
  <1>4. Unread(r) # <<>> /\ View(Bytes[s], d, t, r)
    <2>1. r.at + Len(Unread(r)) = Size(r.input) /\ Size(r.input) \in Nat /\ r.at = 0
          /\ View(Bytes[s], d, t, r)
      BY ViewFacts DEF Turning, Standing
    <2>2. Unread(r) = <<>> => Len(Unread(r)) = 0
      OBVIOUS
    <2> QED BY <2>1, <2>2
  <1>5. Regular(s) /\ Ready(s, t, h)
    <2>1. AllMulti(s) /\ Regular(s)
      BY PlainFacts
    <2> QED BY <2>1 DEF Ready, AllMulti
  <1>6. Standing(s, d, t, p) /\ SameRun(r, p)
    BY <1>4, <1>5, ParseStands DEF Turning
  <1>7. h < Len(s) /\ (ParsedWhole(s, t, h, p) \/ ParsedPart(s, t, h, p))
    BY <1>2, <1>4, <1>5, ParseExact DEF Turning
  <1> HIDE DEF p
  <1>8. View(Bytes[s], d, t, p) /\ p.stop = "no"
    BY <1>2, <1>6 DEF Standing, SameRun
  <1>9. AfterIs(Bytes[s], d, t, p, q) /\ q = AfterParse(p)
    BY <1>8, AfterParseFacts
  <1> HIDE DEF q
  <1>10. CASE ParsedPart(s, t, h, p)
    <2>1. Through(s, t, u, P, pu, room, q) /\ q.stop # "no"
      BY <1>1, <1>4, <1>6, <1>7, <1>8, <1>9, <1>10, PartComes
    <2> QED BY <1>3, <2>1 DEF TurnsTo
  <1>11. CASE ParsedWhole(s, t, h, p)
    <2>1. TurnsTo(s, t, u, P, pu, room, r, q)
      BY <1>1, <1>4, <1>6, <1>7, <1>8, <1>9, <1>11, WholeComes
    <2> QED BY <1>3, <2>1
  <1> QED BY <1>7, <1>10, <1>11

\* With the input at its end, the loop has come through.
LEMMA RunningEnds ==
  ASSUME NEW s \in Streams, IsPlain(s), NEW d \in Blocks, NEW t, NEW u, Arrived(s, t, u),
         NEW P, NEW pu, NEW room, NEW q, Turning(s, d, t, q),
         Running(s, t, u, P, pu, room, q), Size(q.input) = 0
  PROVE  Through(s, t, u, P, pu, room, q)
  <1>0. PlainLen \in Nat /\ 0 < PlainLen /\ Len(s) \in Nat
    BY PlainFacts
  <1>1. PICK A, h, i :
          /\ Exact(s, Pos(t, q), q.parser, Given(q), h, i) /\ Logged(pu, room, q, A)
          /\ P = A \o Remaining(h * PlainLen + i, i = PlainLen, u)
          /\ Size(q.input) # 0 \/ (i = 0 /\ Pos(t, q) = CommandEnd[s][h])
    BY DEF Running
  <1>2. View(Bytes[s], d, t, q) /\ Sane(d, q) /\ q.stop = "no" /\ q.argv = <<>>
    BY DEF Turning, Standing, View, Running
  <1>3. t \in Nat /\ Pos(t, q) = t
    <2>1. Pos(t, q) = (t - Size(q.input)) + q.at /\ q.at = 0 /\ t \in Nat
      BY <1>2, ViewFacts, PosTyped DEF Turning
    <2> QED BY <2>1
  <1>4. i = 0 /\ t = CommandEnd[s][h] /\ PlaceIs(s, t, q.parser, Given(q), h, i)
    BY <1>1, <1>3, ExactPlace
  <1>5. /\ h \in 0..Len(s) /\ h \in Nat /\ i < PlainLen /\ ~Finished(q.parser)
        /\ Reached(s, t, h, i) /\ Len(Given(q)) = h * PlainLen + i
    BY <1>0, <1>4 DEF PlaceIs
  <1>6. u = h * PlainLen + i
    <2>1. PICK g, j : Reached(s, t, g, j) /\ u = g * PlainLen + j
      BY DEF Arrived
    <2>2. g = h /\ j = i
      BY <1>3, <1>5, <2>1, ReachedOnce
    <2> QED BY <2>1, <2>2
  <1>7. t \notin LineStarts[s]
    <2>1. SUFFICES ASSUME h < Len(s), t = ArgEnd(s, h + 1, i) PROVE FALSE
      BY <1>3, <1>5, ReachedLine
    <2> DEFINE c == h + 1
    <2>2. c \in 1..Len(s) /\ c - 1 = h
      BY <1>0, <1>5, <2>1
    <2>3. ArgEnd(s, c, 0) = CommandEnd[s][c - 1] + 2
      BY <2>2, PlainSpots DEF Spots
    <2> HIDE DEF c
    <2>4. ArgEnd(s, c, 0) = t + 2
      BY <1>4, <2>2, <2>3
    <2>5. t = t + 2
      BY <1>4, <2>1, <2>4 DEF c
    <2> QED BY <1>3, <2>5
  <1>8. P = A
    <2> DEFINE a == h * PlainLen + i
               none == <<>>
               W == Nat \X Nat
    <2>1. h \in Nat /\ i \in Nat /\ i < PlainLen /\ a = h * PlainLen + i /\ u = h * PlainLen + i
      BY <1>4, <1>5, <1>6
    <2>2. Remaining(a, FALSE, u) = none
      <3> HIDE DEF a
      <3> QED BY <2>1, WholeNone, Zenon
    <2>3. P = A \o none /\ A \in Seq(W)
      <3>1. (i = PlainLen) = FALSE
        BY <1>0, <1>4
      <3> QED BY <1>1, <2>2, <3>1 DEF Logged, PieceSeq
    <2> HIDE DEF W
    <2>4. A \o none = A
      BY <2>3
    <2> QED BY <2>3, <2>4
  <1>9. From(q.pushed) + Len(q.argv) = u
    <2>1. Len(Given(q)) = From(q.pushed) + Len(q.argv)
      BY <1>2, GivenLength
    <2> QED BY <1>5, <1>6, <2>1
  <1> QED BY <1>1, <1>2, <1>5, <1>7, <1>8, <1>9 DEF Through

\* The loop after k turns.
LoopAt(s, d, t, u, P, pu, room, p, k, q) ==
  /\ Turning(s, d, t, q)
  /\ \/ /\ Running(s, t, u, P, pu, room, q)
        /\ Size(q.input) = 0 \/ p + k <= Progress(t, q)
     \/ NoRoom(P, pu, room, q)
     \/ Through(s, t, u, P, pu, room, q) /\ q.stop # "no"

LEMMA NextLoop ==
  ASSUME NEW s \in Streams, IsPlain(s), NEW d \in Blocks, NEW t, NEW u, Arrived(s, t, u),
         NEW P, NEW pu \in Seq(Seq(Seq(Byte))), NEW room, NEW p \in Nat, NEW k \in Nat,
         NEW r, LoopAt(s, d, t, u, P, pu, room, p, k, r)
  PROVE  LoopAt(s, d, t, u, P, pu, room, p, k + 1, NextCommand(r))
  <1> DEFINE q == NextCommand(r)
             m == k + 1
  <1>1. Turning(s, d, t, r) /\ Turning(s, d, t, q)
    BY PlainFacts, TurnStands DEF LoopAt
  <1>2. CASE NoRoom(P, pu, room, r) \/ (Through(s, t, u, P, pu, room, r) /\ r.stop # "no")
    <2>1. r.stop # "no"
      BY <1>2 DEF NoRoom
    <2>2. q = r
      BY <2>1 DEF NextCommand
    <2> QED BY <1>1, <1>2, <2>2 DEF LoopAt
  <1>3. CASE Running(s, t, u, P, pu, room, r) /\ Size(r.input) = 0
    <2>1. q = r
      BY <1>3 DEF NextCommand
    <2> QED BY <1>1, <1>3, <2>1 DEF LoopAt
  <1>4. CASE /\ Running(s, t, u, P, pu, room, r) /\ Size(r.input) # 0
             /\ p + k <= Progress(t, r)
    <2>1. TurnsTo(s, t, u, P, pu, room, r, q)
      BY <1>1, <1>4, TurnComes
    <2>2. Progress(t, r) \in Nat /\ Progress(t, q) \in Nat
      <3>1. Pos(t, r) \in Nat /\ Pos(t, q) \in Nat
        BY <1>1, PosTyped DEF Turning, Standing
      <3> HIDE DEF q
      <3> QED BY <3>1 DEF Progress
    <2> HIDE DEF q
    <2> DEFINE x == Progress(t, r)
               y == Progress(t, q)
    <2>3. x \in Nat /\ y \in Nat /\ p + k <= x
      BY <1>4, <2>2
    <2> HIDE DEF x, y
    <2>4. x < y => p + m <= y
      BY <2>3
    <2> HIDE DEF m
    <2>5. Progress(t, r) < Progress(t, q) => p + m <= Progress(t, q)
      BY <2>4 DEF x, y
    <2>6. LoopAt(s, d, t, u, P, pu, room, p, m, q)
      BY <1>1, <2>1, <2>5 DEF LoopAt, TurnsTo
    <2> QED BY <2>6 DEF m, q
  <1> QED BY <1>2, <1>3, <1>4 DEF LoopAt

\* The loop ends because there is no room, or with the input.
LEMMA CommandsCome ==
  ASSUME NEW s \in Streams, IsPlain(s), NEW d \in Blocks, NEW t, NEW u, Arrived(s, t, u),
         NEW P, NEW pu \in Seq(Seq(Seq(Byte))), NEW room, NEW r, Turning(s, d, t, r),
         Running(s, t, u, P, pu, room, r)
  PROVE  NoRoom(P, pu, room, Commands(r)) \/ Through(s, t, u, P, pu, room, Commands(r))
  <1> DEFINE n == Size(r.input) + 2
             p == Pos(t, r)
             W == {x \in Nat \X Parse : LoopAt(s, d, t, u, P, pu, room, p, x[1], x[2])}
  <1>1. /\ Sane(d, r) /\ r \in Parse /\ n = Size(r.input) + 2
        /\ View(Bytes[s], d, t, r) /\ r.at = 0
    BY DEF Turning, Standing, View, Sane
  <1>2. /\ p \in Nat /\ p = (t - Size(r.input)) + r.at /\ Size(r.input) \in Nat
        /\ t \in Nat
    BY <1>1, ViewFacts, PosTyped
  <1>3. p <= Progress(t, r)
    <2> HIDE DEF p
    <2>1. Progress(t, r) = p \/ Progress(t, r) = p + 1
      <3>1. p + 0 = p
        BY <1>2
      <3> QED BY <3>1 DEF Progress, p
    <2> QED BY <1>2, <2>1
  <1> HIDE DEF n, p
  <1>4. n \in Nat /\ \E f : /\ Commands(r) = f[n] /\ f[0] = r
                            /\ \A k \in 1..n : f[k] = NextCommand(f[k - 1])
    BY <1>1, CommandsTurns
  <1>5. PICK f : /\ Commands(r) = f[n] /\ f[0] = r
                 /\ \A k \in 1..n : f[k] = NextCommand(f[k - 1])
    BY <1>4
  <1>6. <<0, f[0]>> \in W
    <2>1. p + 0 = p
      BY <1>2
    <2>2. LoopAt(s, d, t, u, P, pu, room, p, 0, r)
      BY <1>3, <2>1 DEF LoopAt
    <2> QED BY <1>1, <1>5, <2>2
  <1>7. ASSUME NEW k \in 1..n, <<k - 1, f[k - 1]>> \in W PROVE <<k, f[k]>> \in W
    <2> DEFINE m == k - 1
               x == f[m]
               y == f[k]
    <2>1. LoopAt(s, d, t, u, P, pu, room, p, m, x)
      BY <1>7
    <2>2. m \in Nat /\ m + 1 = k /\ k \in Nat /\ y = NextCommand(x)
      BY <1>4, <1>5
    <2> HIDE DEF m, x, y
    <2>3. LoopAt(s, d, t, u, P, pu, room, p, m + 1, NextCommand(x))
      BY <1>2, <2>1, <2>2, NextLoop
    <2>4. LoopAt(s, d, t, u, P, pu, room, p, k, y)
      BY <2>2, <2>3
    <2>5. y \in Parse
      BY <2>4 DEF LoopAt, Turning, Standing, View, Sane
    <2> QED BY <2>2, <2>4, <2>5 DEF y
  <1> HIDE DEF W
  <1>8. <<n, f[n]>> \in W
    BY <1>4, <1>6, <1>7, StepInvariance
  <1> DEFINE q == Commands(r)
  <1>9. LoopAt(s, d, t, u, P, pu, room, p, n, q)
    BY <1>5, <1>8 DEF W
  <1> HIDE DEF q
  <1>10. ASSUME Running(s, t, u, P, pu, room, q), Size(q.input) = 0 \/ p + n <= Progress(t, q)
         PROVE  Size(q.input) = 0
    <2>1. View(Bytes[s], d, t, q)
      BY <1>9 DEF LoopAt, Turning, Standing
    <2> DEFINE x == Pos(t, q)
               y == Progress(t, q)
               z == Size(q.input)
    <2>2. x \in Nat /\ x <= t
      BY <2>1, PosTyped
    <2> HIDE DEF x
    <2>3. y = x \/ y = x + 1
      <3>1. x + 0 = x
        BY <2>2
      <3> QED BY <3>1 DEF Progress, x
    <2>4. p + n = t + 2
      BY <1>1, <1>2
    <2>5. z = 0 \/ p + n <= y
      BY <1>10
    <2> HIDE DEF y, z
    <2>6. z = 0
      BY <1>2, <2>2, <2>3, <2>4, <2>5
    <2> QED BY <2>6 DEF z
  <1>11. Running(s, t, u, P, pu, room, q) => Through(s, t, u, P, pu, room, q)
    <2>1. SUFFICES ASSUME Running(s, t, u, P, pu, room, q)
                   PROVE  Through(s, t, u, P, pu, room, q)
      OBVIOUS
    <2>2. CASE NoRoom(P, pu, room, q) \/ (Through(s, t, u, P, pu, room, q) /\ q.stop # "no")
      <3>1. q.stop = "no"
        BY <2>1 DEF Running
      <3> QED BY <2>2, <3>1 DEF NoRoom
    <2>3. CASE Size(q.input) = 0 \/ p + n <= Progress(t, q)
      <3>1. Size(q.input) = 0
        BY <1>10, <2>1, <2>3
      <3>2. Turning(s, d, t, q)
        BY <1>9 DEF LoopAt
      <3> QED BY <2>1, <3>1, <3>2, RunningEnds
    <2> QED BY <1>9, <2>2, <2>3 DEF LoopAt
  <1>12. NoRoom(P, pu, room, q) \/ Through(s, t, u, P, pu, room, q)
    BY <1>9, <1>11 DEF LoopAt
  <1> QED BY <1>12 DEF q

\* A session of ClientStream as the bytes have it.
Abs(s, t, pu, args, ps) ==
  [from |-> From(pu), at |-> From(pu) + Len(args), read |-> Cardinality(Below(s, t)),
   done |-> Finished(ps)]

\* What the loop leaves is what ClientStream has of the read.
Matches(S, s, t, u, pu, room, q) ==
  /\ Abs(s, t, q.pushed, q.argv, q.parser) = Stream!AfterRead(S, u, room)
  /\ Ends(q.pushed) = Ends(pu) \o Stream!Pushed(S, u, room)
  /\ q.stop = "refused" <=> Stream!Deferred(S, u, room)
  /\ q.stop = "OutOfBound" <=> ~Stream!Deferred(S, u, room) /\ t \in LineStarts[s]

LEMMA FrontOf ==
  ASSUME NEW W, NEW A \in Seq(W), NEW e \in W, NEW R \in Seq(W), NEW n, n = Len(A),
         NEW z, z = Append(A, e) \o R
  PROVE  Len(z) \in Nat /\ Len(z) > n /\ z[n + 1] = e /\ SubSeq(z, 1, n) = A
  <1>1. z \in Seq(W) /\ Len(z) = (n + 1) + Len(R) /\ Len(R) \in Nat /\ n \in Nat /\ z[n + 1] = e
        /\ \A i \in 1..n : z[i] = A[i]
    <2> DEFINE y == Append(A, e)
    <2>1. y \in Seq(W) /\ Len(y) = n + 1 /\ y[n + 1] = e /\ \A i \in 1..n : y[i] = A[i]
      OBVIOUS
    <2>2. z = y \o R /\ n \in Nat
      OBVIOUS
    <2> HIDE DEF y
    <2> DEFINE m == n + 1
    <2>3. m \in 1..Len(y) /\ \A i \in 1..n : i \in 1..Len(y)
      BY <2>1, <2>2
    <2> DEFINE l == Len(y)
               k == Len(R)
    <2>6. JoinElements(W, y, R, z)
      BY <2>1, <2>2, JoinFacts
    <2>4. z \in Seq(W) /\ Len(z) = l + k /\ k \in Nat /\ z[m] = y[m]
          /\ \A i \in 1..l : z[i] = y[i]
      BY <2>1, <2>3, <2>6 DEF JoinElements
    <2>5. z[n + 1] = e /\ \A i \in 1..n : z[i] = A[i]
      BY <2>1, <2>3, <2>4, Zenon
    <2> QED BY <2>1, <2>2, <2>4, <2>5
  <1> DEFINE f == SubSeq(z, 1, n)
  <1>2. f \in Seq(W) /\ Len(f) = n /\ \A i \in 1..n : f[i] = z[i]
    <2>1. n \in 0..Len(z)
      BY <1>1
    <2> QED BY <1>1, <2>1
  <1> HIDE DEF f
  <1>3. f = A
    BY <1>1, <1>2, SameSeq
  <1> QED BY <1>1, <1>3 DEF f

LEMMA NoRoomMatches ==
  ASSUME NEW S, NEW s, NEW t, NEW u, u = Cardinality(Below(s, t)), NEW pu,
         NEW room, NEW P, P = Stream!Pieces(S, u),
         Stream!Pending(S) = <<>> \/ room # 0, NEW d, NEW q, Sane(d, q), NoRoom(P, pu, room, q)
  PROVE  Matches(S, s, t, u, pu, room, q)
  <1> DEFINE e == <<From(q.pushed), From(q.pushed) + Len(q.argv)>>
             W == Nat \X Nat
  <1>1. PICK A, R : Logged(pu, room, q, A) /\ R \in PieceSeq /\ P = Append(A, e) \o R
    BY DEF NoRoom
  <1>2. q.stop = "refused" /\ q.room = 0 /\ Finished(q.parser)
    BY DEF NoRoom
  <1>3. /\ A \in Seq(W) /\ R \in Seq(W) /\ q.room + Len(A) = room
        /\ Ends(q.pushed) = Ends(pu) \o A
    BY <1>1 DEF Logged, PieceSeq
  <1>4. e \in W /\ e[1] = From(q.pushed) /\ e[2] = From(q.pushed) + Len(q.argv)
    <2>1. From(q.pushed) \in Nat /\ Len(q.argv) \in Nat
      BY GivenLength
    <2> QED BY <2>1
  <1> HIDE DEF e, W
  <1>5. room = Len(A)
    <2>1. Len(A) \in Nat
      BY <1>3
    <2> QED BY <1>2, <1>3, <2>1
  <1>6. Len(P) \in Nat /\ Len(P) > room /\ P[room + 1] = e /\ SubSeq(P, 1, room) = A
    BY <1>1, <1>3, <1>4, <1>5, FrontOf
  <1>7. Stream!Deferred(S, u, room)
    BY <1>6 DEF Stream!Deferred
  <1>8. Stream!Pushed(S, u, room) = A
    <2>1. ~(Len(P) <= room)
      BY <1>5, <1>6, <1>3
    <2> QED BY <1>6, <2>1 DEF Stream!Pushed
  <1>9. Stream!AfterRead(S, u, room) = [from |-> e[1], at |-> e[2], read |-> u, done |-> TRUE]
    BY <1>6, <1>7 DEF Stream!AfterRead
  <1>10. Abs(s, t, q.pushed, q.argv, q.parser)
          = [from |-> e[1], at |-> e[2], read |-> u, done |-> TRUE]
    <2>1. Finished(q.parser) = TRUE
      BY <1>2 DEF Finished
    <2> QED BY <1>4, <2>1 DEF Abs
  <1> QED BY <1>2, <1>3, <1>7, <1>8, <1>9, <1>10 DEF Matches

LEMMA ThroughMatches ==
  ASSUME NEW S, NEW s, NEW t, NEW u, u = Cardinality(Below(s, t)), NEW pu, S.from = From(pu),
         NEW room, NEW P, P = Stream!Pieces(S, u), NEW q, Through(s, t, u, P, pu, room, q)
  PROVE  Matches(S, s, t, u, pu, room, q)
  <1>1. /\ q.stop \in {"no", "TryAgain", "OutOfBound"} /\ ~Finished(q.parser)
        /\ q.stop = "OutOfBound" <=> t \in LineStarts[s]
        /\ From(q.pushed) + Len(q.argv) = u
    BY DEF Through
  <1>2. /\ P \in PieceSeq /\ q.room \in Nat /\ q.room + Len(P) = room
        /\ Ends(q.pushed) = Ends(pu) \o P
        /\ From(q.pushed) = EndsAt(P, From(pu))
    BY DEF Through, Logged
  <1>3. Len(P) \in Nat /\ (Len(P) = 0 <=> P = <<>>)
    BY <1>2 DEF PieceSeq
  <1>4. Len(P) <= room /\ ~(Len(P) > room)
    <2> DEFINE n == Len(P)
               v == q.room
    <2>1. n \in Nat /\ v \in Nat /\ v + n = room
      BY <1>2, <1>3
    <2> HIDE DEF n, v
    <2>2. n <= room /\ ~(n > room)
      BY <2>1
    <2> QED BY <2>2 DEF n
  <1>5. ~Stream!Deferred(S, u, room)
    BY <1>4 DEF Stream!Deferred
  <1>6. Stream!Pushed(S, u, room) = P
    BY <1>4 DEF Stream!Pushed
  <1> DEFINE rest == IF Len(P) = 0 THEN S.from ELSE P[Len(P)][2]
  <1>7. Stream!AfterRead(S, u, room) = [from |-> rest, at |-> u, read |-> u, done |-> FALSE]
    BY <1>5 DEF Stream!AfterRead
  <1>8. rest = From(q.pushed)
    BY <1>2, <1>3 DEF EndsAt
  <1> HIDE DEF rest
  <1>9. Abs(s, t, q.pushed, q.argv, q.parser)
          = [from |-> rest, at |-> u, read |-> u, done |-> FALSE]
    <2>1. Finished(q.parser) = FALSE
      BY <1>1 DEF Finished
    <2> QED BY <1>1, <1>8, <2>1 DEF Abs
  <1> QED BY <1>1, <1>2, <1>5, <1>6, <1>7, <1>9 DEF Matches

\* Refused at once.
LEMMA RefusedMatches ==
  ASSUME NEW s, NEW v, NEW pu \in Seq(Seq(Seq(Byte))), NEW args, NEW ps,
         NEW S, S = Abs(s, v, pu, args, ps), Len(args) \in Nat \ {0},
         NEW t, NEW u, u = Cardinality(Below(s, t)), Stream!Whole(S.at, u) \in PieceSeq,
         NEW q, q.stop = "refused", q.pushed = pu, q.argv = args, q.parser = ps
  PROVE  Matches(S, s, t, u, pu, 0, q)
  <1> DEFINE f == From(pu)
             a == f + Len(args)
             pend == <<f, a>>
             P == Stream!Pieces(S, u)
             W == Nat \X Nat
             first == <<pend>>
             X == Stream!Stale(S)
             Y == Stream!Whole(S.at, u)
             none == <<>>
  <1>1. S.from = f /\ S.at = a /\ S.done = Finished(ps)
    BY DEF Abs
  <1>2. f \in Nat /\ Ends(pu) \in Seq(W)
    <2> DEFINE V == Seq(Byte)
    <2>1. pu \in Seq(Seq(V))
      OBVIOUS
    <2> HIDE DEF V
    <2> QED BY <2>1, ThruFacts, EndsTyped DEF From
  <1>3. a \in Nat /\ a > f
    BY <1>2
  <1>4. Stream!Pending(S) = first /\ first # none
    <2>1. first[1] = pend /\ Len(first) = 1 /\ Len(none) = 0
      OBVIOUS
    <2>2. first # none
      BY <2>1
    <2> HIDE DEF a, f
    <2> QED BY <1>1, <1>3, <2>2 DEF Stream!Pending
  <1>5. X \in Seq(W) /\ Y \in Seq(W) /\ pend \in W
    <2>1. X = <<<<a, a>>>> \/ X = <<>>
      BY <1>1 DEF Stream!Stale
    <2>2. pend \in W /\ <<a, a>> \in W
      BY <1>2, <1>3
    <2> HIDE DEF a, f, X, pend
    <2>3. Y \in Seq(W)
      BY DEF PieceSeq
    <2> HIDE DEF W
    <2>4. <<<<a, a>>>> \in Seq(W) /\ none \in Seq(W)
      <3> DEFINE c == <<a, a>>
      <3>1. c \in W
        BY <2>2
      <3> HIDE DEF c
      <3>2. <<c>> \in Seq(W)
        BY <3>1
      <3>3. none \in Seq(W)
        OBVIOUS
      <3> QED BY <3>2, <3>3 DEF c
    <2>5. X \in Seq(W)
      BY <2>1, <2>4
    <2> QED BY <2>2, <2>3, <2>5
  <1>6. P = (first \o X) \o Y
    BY <1>4 DEF Stream!Pieces
  <1> HIDE DEF P, X, Y, pend, W
  <1>7. Len(P) \in Nat /\ Len(P) > 0 /\ P[1] = pend /\ SubSeq(P, 1, 0) = <<>>
    <2> DEFINE z == first \o X
    <2>1. z \in Seq(W) /\ Len(z) \in Nat /\ Len(z) > 0 /\ z[1] = pend
      BY <1>5
    <2>2. P = z \o Y
      BY <1>6
    <2> HIDE DEF z
    <2>3. P \in Seq(W) /\ Len(P) = Len(z) + Len(Y) /\ Len(Y) \in Nat /\ P[1] = z[1]
      BY <1>5, <2>1, <2>2
    <2>4. Len(P) \in Nat /\ Len(P) > 0 /\ P[1] = pend
      <3> DEFINE l == Len(P)
                 m == Len(z)
                 n == Len(Y)
      <3>1. m \in Nat /\ m > 0 /\ n \in Nat /\ l = m + n
        BY <2>1, <2>3
      <3> HIDE DEF l, m, n
      <3>2. l \in Nat /\ l > 0
        BY <3>1
      <3> QED BY <2>1, <2>3, <3>2 DEF l
    <2>5. SubSeq(P, 1, 0) = <<>>
      BY <2>3
    <2> QED BY <2>4, <2>5
  <1>8. Stream!Deferred(S, u, 0)
    BY <1>7 DEF Stream!Deferred, P
  <1>9. Stream!Pushed(S, u, 0) = none
    <2>1. ~(Len(P) <= 0)
      <3> DEFINE l == Len(P)
      <3>1. l \in Nat /\ l > 0
        BY <1>7
      <3> HIDE DEF l
      <3>2. ~(l <= 0)
        BY <3>1
      <3> QED BY <3>2 DEF l
    <2> QED BY <1>7, <2>1 DEF Stream!Pushed, P
  <1>10. Stream!AfterRead(S, u, 0) = [from |-> f, at |-> a, read |-> u, done |-> S.done]
    <2>1. P[0 + 1] = <<f, a>>
      BY <1>7 DEF pend
    <2>2. P[0 + 1][1] = f /\ P[0 + 1][2] = a
      BY <2>1
    <2> HIDE DEF f, a
    <2> QED BY <1>4, <1>8, <2>2 DEF Stream!AfterRead, P
  <1>11. Abs(s, t, pu, args, ps) = [from |-> f, at |-> a, read |-> u, done |-> S.done]
    BY <1>1 DEF Abs
  <1>12. Ends(pu) \o none = Ends(pu)
    <2> DEFINE x == Ends(pu)
    <2>1. x \in Seq(W)
      BY <1>2
    <2> HIDE DEF x
    <2>2. x \o none = x
      BY <2>1
    <2> QED BY <2>2 DEF x
  <1> QED BY <1>8, <1>9, <1>10, <1>11, <1>12 DEF Matches

\* The loop does nothing more once it has stopped, nor without input.
LEMMA CommandsRest ==
  ASSUME NEW d \in Blocks, NEW r, Sane(d, r), r.stop # "no" \/ Size(r.input) = 0
  PROVE  Commands(r) = r
  <1> DEFINE n == Size(r.input) + 2
             W == {x \in Nat \X Parse : x[2] = r}
  <1>1. n = Size(r.input) + 2 /\ r \in Parse /\ NextCommand(r) = r
    BY DEF Sane, NextCommand
  <1> HIDE DEF n
  <1>2. n \in Nat /\ \E f : /\ Commands(r) = f[n] /\ f[0] = r
                            /\ \A k \in 1..n : f[k] = NextCommand(f[k - 1])
    BY <1>1, CommandsTurns
  <1>3. PICK f : /\ Commands(r) = f[n] /\ f[0] = r
                 /\ \A k \in 1..n : f[k] = NextCommand(f[k - 1])
    BY <1>2
  <1>4. <<0, f[0]>> \in W
    BY <1>1, <1>3
  <1>5. ASSUME NEW k \in 1..n, <<k - 1, f[k - 1]>> \in W PROVE <<k, f[k]>> \in W
    <2>1. f[k - 1] = r /\ k \in Nat
      BY <1>2, <1>5
    <2>2. f[k] = r
      BY <1>1, <1>3, <2>1
    <2> QED BY <1>1, <2>1, <2>2
  <1> HIDE DEF W
  <1>6. <<n, f[n]>> \in W
    BY <1>2, <1>4, <1>5, StepInvariance
  <1> QED BY <1>3, <1>6 DEF W

\* What follows the place of the parser, up to what has arrived.
LEMMA WholeBehind ==
  ASSUME NEW s \in Streams, IsPlain(s), NEW p, NEW ps, NEW given, NEW h, NEW i,
         PlaceIs(s, p, ps, given, h, i), NEW t \in Nat, p \in Nat, p <= t,
         NEW u, Arrived(s, t, u), NEW a, a = h * PlainLen + i
  PROVE  a \in Nat /\ Stream!Whole(a, u) \in PieceSeq
  <1>1. PICK g, j : Reached(s, t, g, j) /\ u = g * PlainLen + j
    BY DEF Arrived
  <1>2. PlainLen \in Nat /\ PlainLen > 0 /\ Len(s) \in Nat
    BY PlainFacts
  <1>3. g \in 0..Len(s) /\ j \in Nat /\ j < PlainLen
    BY <1>1, BelowReached
  <1>4. h \in 0..Len(s) /\ i \in 0..PlainLen
    BY DEF PlaceIs
  <1>5. ASSUME NEW k, k \in 0..Len(s), CommandEnd[s][k] <= t PROVE k <= g
    <2>1. CASE k = 0
      BY <1>3, <2>1
    <2>2. CASE k # 0
      <3> DEFINE l == k - 1
      <3>1. l \in 0..Len(s) /\ l < Len(s) /\ l + 1 = k
        BY <1>2, <1>5, <2>2
      <3> HIDE DEF l
      <3>2. l + 1 <= g
        BY <1>1, <1>5, <3>1, ReachedBy
      <3> QED BY <3>1, <3>2
    <2> QED BY <2>1, <2>2
  <1>6. ASSUME NEW k, k \in 0..Len(s), CommandEnd[s][k] <= t, NEW l \in Nat, l < PlainLen,
               a = k * PlainLen + l
        PROVE  a \in Nat /\ Stream!Whole(a, u) \in PieceSeq
    <2>1. k \in Nat /\ g \in Nat /\ k <= g
      BY <1>2, <1>3, <1>5, <1>6
    <2>2. Chained(Stream!Whole(a, u), k, a, g - k)
      BY <1>1, <1>3, <1>6, <2>1, WholeTyped
    <2>3. a \in Nat
      BY <1>6, <2>1, Rounds
    <2> QED BY <2>2, <2>3 DEF Chained
  <1>7. CASE i < PlainLen
    <2>1. Reached(s, p, h, i)
      BY <1>7 DEF PlaceIs
    <2>2. CommandEnd[s][h] <= p /\ CommandEnd[s][h] \in Nat /\ i \in Nat
      BY <2>1, BelowReached
    <2>3. CommandEnd[s][h] <= t
      BY <2>2
    <2> QED BY <1>4, <1>6, <1>7, <2>2, <2>3
  <1>8. CASE i = PlainLen
    <2> DEFINE k == h + 1
               o == 0
    <2>1. h < Len(s) /\ p = CommandEnd[s][k]
      BY <1>8 DEF PlaceIs
    <2>2. k \in 0..Len(s) /\ CommandEnd[s][k] <= t /\ o \in Nat /\ o < PlainLen
      BY <1>2, <1>4, <2>1
    <2>3. k * PlainLen = h * PlainLen + PlainLen /\ h * PlainLen \in Nat /\ k * PlainLen \in Nat
      BY <1>2, <1>4, Times
    <2>4. a = k * PlainLen + o
      <3> DEFINE x == h * PlainLen
                 y == k * PlainLen
      <3>1. y = x + PlainLen /\ x \in Nat /\ y \in Nat /\ a = x + PlainLen /\ o = 0
        BY <1>8, <2>3
      <3> HIDE DEF x, y, o
      <3>2. a = y + o
        BY <1>2, <3>1
      <3> QED BY <3>2 DEF y
    <2> HIDE DEF k, o
    <2> QED BY <1>6, <2>2, <2>4
  <1> QED BY <1>4, <1>7, <1>8, <1>2

\* What ClientStream wants to push: what is held, and what lies behind the parser.
PiecesAre(S, A, R, u) ==
  /\ A \in PieceSeq /\ R \in PieceSeq /\ Stream!Pieces(S, u) = A \o R
  /\ <<>> \o R = R
  /\ A = IF S.at > S.from THEN <<<<S.from, S.at>>>> ELSE <<>>

LEMMA WantedPieces ==
  ASSUME NEW S, S.from \in Nat, S.at \in Nat, NEW u, Stream!Whole(S.at, u) \in PieceSeq,
         NEW done, S.done = done, NEW R, R = Remaining(S.at, done, u)
  PROVE  \E x : PiecesAre(S, x, R, u)
  <1> DEFINE W == Nat \X Nat
             A == Stream!Pending(S)
             X == Stream!Stale(S)
             Y == Stream!Whole(S.at, u)
             none == <<>>
  <1>1. A = (IF S.at > S.from THEN <<<<S.from, S.at>>>> ELSE <<>>)
        /\ X = (IF done THEN <<<<S.at, S.at>>>> ELSE <<>>)
    BY DEF Stream!Pending, Stream!Stale
  <1>2. ASSUME NEW c \in W PROVE <<c>> \in Seq(W)
    <2> HIDE DEF W
    <2> QED OBVIOUS
  <1>3. <<S.from, S.at>> \in W /\ <<S.at, S.at>> \in W /\ none \in Seq(W)
    OBVIOUS
  <1>4. Y \in Seq(W)
    BY DEF PieceSeq
  <1>5. R = X \o Y
    BY <1>1 DEF Remaining
  <1>6. Stream!Pieces(S, u) = (A \o X) \o Y
    BY DEF Stream!Pieces
  <1>7. A \in Seq(W) /\ X \in Seq(W)
    <2>1. <<<<S.from, S.at>>>> \in Seq(W) /\ <<<<S.at, S.at>>>> \in Seq(W)
      BY <1>2, <1>3
    <2> HIDE DEF A, X, W
    <2> QED BY <1>1, <1>3, <2>1
  <1> HIDE DEF A, X, Y, W
  <1>8. Associates(W, A, X, Y)
    BY <1>4, <1>7, Associative
  <1>9. Stream!Pieces(S, u) = A \o R /\ R \in Seq(W)
    BY <1>5, <1>6, <1>8 DEF Associates
  <1>10. <<>> \o R = R
    BY <1>9
  <1>11. PiecesAre(S, A, R, u)
    BY <1>1, <1>7, <1>9, <1>10 DEF PiecesAre, PieceSeq, W
  <1>12. \E x : PiecesAre(S, x, R, u)
    BY <1>11, Zenon
  <1> QED BY <1>12

\* The session of ClientStream at the place of the parser.
Mapped(S, s, v, pu, args, ps, h, i) ==
  /\ S = Abs(s, v, pu, args, ps) /\ S.from \in Nat /\ S.at \in Nat
  /\ S.from = From(pu) /\ S.at = From(pu) + Len(args) /\ S.at = h * PlainLen + i
  /\ S.done = (i = PlainLen)

LEMMA MappedFacts ==
  ASSUME NEW s, NEW v, NEW pu \in Seq(Seq(Seq(Byte))), NEW args, NEW y \in Seq(Seq(Byte)),
         Len(y) = Len(args), NEW p, NEW ps, NEW given, given = FlattenSeq(pu) \o y,
         NEW h, NEW i, PlaceIs(s, p, ps, given, h, i), NEW S, S = Abs(s, v, pu, args, ps)
  PROVE  Mapped(S, s, v, pu, args, ps, h, i) /\ Len(args) \in Nat
  <1> DEFINE V == Seq(Byte)
             x == FlattenSeq(pu)
  <1>1. x \in Seq(V)
    <2>1. pu \in Seq(Seq(V))
      OBVIOUS
    <2> HIDE DEF V
    <2> QED BY <2>1, FlattenFacts
  <1>2. Len(x) \in Nat /\ Len(y) \in Nat /\ Len(x \o y) = Len(x) + Len(y)
    BY <1>1, JoinLength
  <1>3. Len(x) + Len(args) = h * PlainLen + i /\ Len(args) \in Nat
    BY <1>2 DEF PlaceIs
  <1>4. Finished(ps) = (i = PlainLen)
    BY DEF PlaceIs, Finished
  <1>5. S.from = Len(x) /\ S.at = Len(x) + Len(args) /\ S.done = (i = PlainLen)
    BY <1>4 DEF Abs, From
  <1>6. S.from \in Nat /\ S.at \in Nat
    BY <1>2, <1>3, <1>5
  <1> QED BY <1>3, <1>5, <1>6 DEF Mapped, From

\* A read that begins at argument i of command h, and the session of ClientStream there.
Provided(s, d, t, u, p, given, h, i, m, y, room, x, v, S) ==
  /\ s \in Streams /\ s = stream /\ IsPlain(s) /\ pushed \in Seq(Seq(Seq(Byte)))
  /\ d \in Blocks /\ Arrived(s, t, u) /\ u = Cardinality(Below(s, t))
  /\ Exact(s, p, parser, given, h, i)
  /\ y \in Seq(Seq(Byte)) /\ y = Showing(m.heap, argv) /\ Len(y) = Len(argv)
  /\ given = FlattenSeq(pushed) \o y
  /\ room \in Nat /\ Began(Bytes[s], d, t, p, given, m, room, x) /\ Turning(s, d, t, x)
  /\ S = Abs(s, v, pushed, argv, parser)
  /\ argv = <<>> <=> Len(argv) = 0

Comes(s, t, u, room, x, S) ==
  \/ Matches(S, s, t, u, pushed, room, Commands(x))
  \/ Size(x.input) = 0 /\ x.stop = "no" /\ Commands(x) = x

\* The loop comes to what ClientStream has of the read, unless there is nothing to parse.
LEMMA BeganMatches ==
  ASSUME NEW s, NEW d, NEW t, NEW u, NEW p, NEW given, NEW h, NEW i, NEW m, NEW y,
         NEW room, NEW x, NEW v, NEW S,
         Provided(s, d, t, u, p, given, h, i, m, y, room, x, v, S)
  PROVE  Comes(s, t, u, room, x, S)
  <1> DEFINE a == h * PlainLen + i
             done == i = PlainLen
             R == Remaining(a, done, u)
             P == Stream!Pieces(S, u)
  <1>0. /\ s \in Streams /\ s = stream /\ IsPlain(s) /\ pushed \in Seq(Seq(Seq(Byte)))
        /\ d \in Blocks /\ Arrived(s, t, u) /\ u = Cardinality(Below(s, t))
        /\ Exact(s, p, parser, given, h, i)
        /\ y \in Seq(Seq(Byte)) /\ y = Showing(m.heap, argv) /\ Len(y) = Len(argv)
        /\ given = FlattenSeq(pushed) \o y
        /\ room \in Nat /\ Began(Bytes[s], d, t, p, given, m, room, x) /\ Turning(s, d, t, x)
        /\ S = Abs(s, v, pushed, argv, parser)
        /\ argv = <<>> <=> Len(argv) = 0
    BY DEF Provided
  <1>1. PlaceIs(s, p, parser, given, h, i)
    BY <1>0, ExactPlace
  <1>2. Mapped(S, s, v, pushed, argv, parser, h, i) /\ Len(argv) \in Nat
    BY <1>0, <1>1, MappedFacts
  <1>3. View(Bytes[s], d, t, x) /\ Sane(d, x) /\ Pos(t, x) = p /\ x.parser = parser
        /\ Given(x) = given
    BY <1>0 DEF Began, Starting, View
  <1>4. p \in Nat /\ p <= t /\ t \in Nat
    BY <1>0, <1>3, PosTyped
  <1>5. a \in Nat /\ Stream!Whole(a, u) \in PieceSeq
    BY <1>0, <1>1, <1>4, WholeBehind
  <1>6. S.from \in Nat /\ S.at = a /\ S.done = done /\ S.from = From(pushed)
        /\ S.at = From(pushed) + Len(argv)
    BY <1>0, <1>2 DEF Mapped
  <1>7. PICK A : PiecesAre(S, A, R, u)
    <2>1. \E z : PiecesAre(S, z, R, u)
      <3> HIDE DEF a, done
      <3> QED BY <1>0, <1>5, <1>6, WantedPieces
    <2> QED BY <1>0, <2>1
  <1>8. /\ A \in PieceSeq /\ R \in PieceSeq /\ P = A \o R /\ <<>> \o R = R
        /\ A = IF S.at > S.from THEN <<<<S.from, S.at>>>> ELSE <<>>
    BY <1>0, <1>7 DEF PiecesAre
  <1>9. S.at > S.from <=> argv # <<>>
    <2> DEFINE f == From(pushed)
               l == Len(argv)
    <2>1. S.from = f /\ f \in Nat /\ l \in Nat /\ S.at = f + l
      BY <1>0, <1>2, <1>6
    <2> HIDE DEF f, l
    <2>2. S.at > S.from <=> l # 0
      BY <1>0, <2>1
    <2> QED BY <1>0, <2>2 DEF l
  <1>10. Exact(s, Pos(t, x), x.parser, Given(x), h, i)
    BY <1>0, <1>3
  <1>11. x.room \in Nat /\ x.pushed \in Seq(Seq(Seq(Byte)))
    BY <1>0, <1>3, GivenLength
  <1> HIDE DEF a, done, R, P
  <1>12. ASSUME Running(s, t, u, P, pushed, room, x), argv = <<>> \/ room # 0
         PROVE  Matches(S, s, t, u, pushed, room, Commands(x))
    <2> DEFINE q == Commands(x)
    <2>1. NoRoom(P, pushed, room, q) \/ Through(s, t, u, P, pushed, room, q)
      BY <1>0, <1>12, CommandsCome
    <2>2. Sane(d, q)
      BY <1>0, <1>3, CommandsSane
    <2> HIDE DEF q
    <2>3. Stream!Pending(S) = <<>> \/ room # 0
      BY <1>0, <1>9, <1>12 DEF Stream!Pending
    <2>4. NoRoom(P, pushed, room, q) => Matches(S, s, t, u, pushed, room, q)
      BY <1>0, <2>2, <2>3, NoRoomMatches DEF P
    <2>5. Through(s, t, u, P, pushed, room, q) => Matches(S, s, t, u, pushed, room, q)
      BY <1>0, <1>6, ThroughMatches DEF P
    <2>6. Matches(S, s, t, u, pushed, room, q)
      BY <1>0, <2>1, <2>4, <2>5
    <2> QED BY <1>0, <2>6 DEF q
  <1>13. ASSUME x.stop = "no", x.argv = <<>>, argv = <<>> \/ room # 0,
                Logged(pushed, room, x, A)
         PROVE  Comes(s, t, u, room, x, S)
    <2>1. CASE Size(x.input) = 0
      BY <1>0, <1>3, <1>13, <2>1, CommandsRest DEF Comes
    <2>2. CASE Size(x.input) # 0
      <3>1. Running(s, t, u, P, pushed, room, x)
        BY <1>0, <1>8, <1>10, <1>13, <2>2 DEF Running, R, a, done
      <3> QED BY <1>0, <1>12, <1>13, <3>1 DEF Comes
    <2> QED BY <1>0, <2>1, <2>2
  <1>14. CASE argv = <<>> /\ x.stop = "no" /\ x.pushed = pushed /\ x.room = room
              /\ x.argv = <<>>
    <2>1. A = <<>>
      BY <1>0, <1>8, <1>9, <1>14
    <2>2. Logged(pushed, room, x, <<>>)
      BY <1>0, <1>11, <1>14, NothingLogged
    <2> QED BY <1>0, <1>13, <1>14, <2>1, <2>2
  <1>15. CASE argv # <<>> /\ x.stop = "refused" /\ x.pushed = pushed /\ room = 0
              /\ x.argv = argv
    <2>1. Commands(x) = x
      BY <1>0, <1>3, <1>15, CommandsRest
    <2>2. Len(argv) \in Nat \ {0}
      BY <1>0, <1>2, <1>15
    <2>3. Stream!Whole(S.at, u) \in PieceSeq
      BY <1>0, <1>5, <1>6
    <2>4. Matches(S, s, t, u, pushed, 0, x)
      BY <1>0, <1>3, <1>15, <2>2, <2>3, RefusedMatches
    <2> QED BY <1>0, <1>15, <2>1, <2>4 DEF Comes
  <1>16. CASE argv # <<>> /\ x.stop = "no" /\ room # 0 /\ x.room = room - 1
              /\ x.argv = <<>> /\ x.pushed = Append(pushed, Showing(m.heap, argv))
    <2> DEFINE f == From(pushed)
               b == f + Len(y)
               o == [room |-> room, pushed |-> pushed]
               none == <<>>
    <2>1. Logged(pushed, room, o, none)
      BY <1>0, NothingLogged
    <2>2. o.room = room /\ o.pushed = pushed /\ x.room = o.room - 1
          /\ x.pushed = Append(o.pushed, y)
      BY <1>0, <1>16
    <2> HIDE DEF o
    <2>3. LogsOneMore(pushed, room, x, none, f, b)
      BY <1>0, <1>16, <2>1, <2>2, MoreLogged
    <2>4. S.from = f /\ S.at = b
      BY <1>0, <1>6
    <2>5. A = <<<<f, b>>>>
      BY <1>0, <1>8, <1>9, <1>16, <2>4
    <2> HIDE DEF f, b
    <2>6. Append(none, <<f, b>>) = <<<<f, b>>>>
      OBVIOUS
    <2>7. Logged(pushed, room, x, A)
      BY <1>0, <2>3, <2>5, <2>6 DEF LogsOneMore
    <2> QED BY <1>0, <1>13, <1>16, <2>7
  <1> QED BY <1>0, <1>14, <1>15, <1>16 DEF Began

\* The session of ClientStream, now and after the step.
Seen(S) ==
  /\ S = Abs(stream, taken, pushed, argv, parser)
  /\ From(pushed) = Thru(pushed, Len(pushed))

SeenNext(S) ==
  /\ S = Abs(stream', taken', pushed', argv', parser')
  /\ From(pushed') = Thru(pushed', Len(pushed'))

LEMMA ReadIs ==
  ASSUME NEW S, Seen(S), NEW T, SeenNext(T), NEW u, NEW cut, NEW room, NEW full,
         reading, ~failed, full => u = S.read,
         cut # "clean", T = Stream!AfterRead(S, u, room),
         Ends(pushed') = Ends(pushed) \o Stream!Pushed(S, u, room),
         reading' = (~Stream!Deferred(S, u, room) /\ ~full),
         failed' = Stream!Failed(S, u, cut, room),
         disturbed' = disturbed
           \union (IF Stream!Boundary(u) /\ cut # "line" THEN {} ELSE {"cut"})
           \union (IF Stream!Deferred(S, u, room) THEN {"refused"} ELSE {})
  PROVE  Stream!OnClientRead(u, cut, room, full)
  <1>1. S = [from |-> PushedThrough(Len(pushed)),
             at |-> PushedThrough(Len(pushed)) + Len(argv),
             read |-> Cardinality({p \in ArgEnds[stream] : p <= taken}),
             done |-> parser.mlen # 0 /\ parser.mindex = parser.mlen]
    BY DEF Seen, Abs, Below, Finished, PushedThrough, Thru
  <1>2. T = [from |-> PushedThrough(Len(pushed)),
             at |-> PushedThrough(Len(pushed)) + Len(argv),
             read |-> Cardinality({p \in ArgEnds[stream] : p <= taken}),
             done |-> parser.mlen # 0 /\ parser.mindex = parser.mlen]'
    BY DEF SeenNext, Abs, Below, Finished, PushedThrough, Thru
  <1>3. Ends(pushed) = [i \in 1..Len(pushed) |-> <<PushedThrough(i - 1), PushedThrough(i)>>]
    BY DEF Ends, PushedThrough, Thru
  <1>4. Ends(pushed') = [i \in 1..Len(pushed) |-> <<PushedThrough(i - 1), PushedThrough(i)>>]'
    BY DEF Ends, PushedThrough, Thru
  <1> QED BY <1>1, <1>2, <1>3, <1>4 DEF Stream!OnClientRead

LEMMA FullIs ==
  ASSUME NEW S, Seen(S), NEW T, SeenNext(T), NEW room, reading, ~failed,
         Stream!Pending(S) = <<>> \/ room # 0, T = [S EXCEPT !.from = S.at],
         Ends(pushed') = Ends(pushed) \o Stream!Pending(S),
         reading' = FALSE, UNCHANGED <<failed, disturbed>>
  PROVE  Stream!OnBufferFull(room)
  <1>1. S = [from |-> PushedThrough(Len(pushed)),
             at |-> PushedThrough(Len(pushed)) + Len(argv),
             read |-> Cardinality({p \in ArgEnds[stream] : p <= taken}),
             done |-> parser.mlen # 0 /\ parser.mindex = parser.mlen]
    BY DEF Seen, Abs, Below, Finished, PushedThrough, Thru
  <1>2. T = [from |-> PushedThrough(Len(pushed)),
             at |-> PushedThrough(Len(pushed)) + Len(argv),
             read |-> Cardinality({p \in ArgEnds[stream] : p <= taken}),
             done |-> parser.mlen # 0 /\ parser.mindex = parser.mlen]'
    BY DEF SeenNext, Abs, Below, Finished, PushedThrough, Thru
  <1>3. Ends(pushed) = [i \in 1..Len(pushed) |-> <<PushedThrough(i - 1), PushedThrough(i)>>]
    BY DEF Ends, PushedThrough, Thru
  <1>4. Ends(pushed') = [i \in 1..Len(pushed) |-> <<PushedThrough(i - 1), PushedThrough(i)>>]'
    BY DEF Ends, PushedThrough, Thru
  <1>5. ~(Stream!Pending(S) # <<>> /\ room = 0)
    OBVIOUS
  <1>6. disturbed' = disturbed \union {}
    OBVIOUS
  <1> QED BY <1>1, <1>2, <1>3, <1>4, <1>5, <1>6 DEF Stream!OnBufferFull

LEMMA ReplyIs ==
  ASSUME OnServerWrite, pushed \in Seq(Seq(Seq(Byte)))
  PROVE  Stream!OnServerWrite
  <1> DEFINE V == Seq(Byte)
  <1>1. pushed \in Seq(Seq(V)) /\ pushed # <<>>
    BY DEF OnServerWrite
  <1> HIDE DEF V
  <1>2. Len(Ends(pushed)) = Len(pushed) /\ Len(pushed) \in Nat
    BY <1>1, EndsTyped
  <1>3. Len(pushed) # 0
    BY <1>1
  <1>4. Ends(pushed) # <<>>
    BY <1>2, <1>3
  <1>5. Ends(pushed) = [i \in 1..Len(pushed) |-> <<PushedThrough(i - 1), PushedThrough(i)>>]
    BY DEF Ends, PushedThrough, Thru
  <1> QED BY <1>4, <1>5 DEF Stream!OnServerWrite, OnServerWrite, PushedThrough

LEMMA InitIs ==
  ASSUME Init, IsPlain(stream)
  PROVE  Stream!Init
  <1> DEFINE none == <<>>
             o == 0
  <1>1. /\ stream \in Streams /\ taken = 0 /\ pushed = <<>> /\ argv = <<>>
        /\ parser = NewParser /\ reading = TRUE /\ failed = FALSE
    BY DEF Init
  <1>2. disturbed = {}
    BY DEF Init, IsPlain
  <1>3. Cardinality({p \in ArgEnds[stream] : p <= taken}) = 0
    <2>1. CommandEnd[stream][0] = 0 /\ Len(stream) \in Nat
      BY <1>1, PlainFacts, StreamInOrder DEF InOrder
    <2>2. Counts(Below(stream, CommandEnd[stream][0]), 0 * PlainLen)
      BY <1>1, <2>1, BelowCommand
    <2>3. 0 * PlainLen = 0
      BY ClientBoundsAssumption
    <2> QED BY <1>1, <2>1, <2>2, <2>3 DEF Counts, Below
  <1>4. PushedThrough(0) = 0 /\ Len(pushed) = 0
    <2>1. none \in Seq(Seq(Nat)) /\ Len(none) = 0
      OBVIOUS
    <2>2. Thru(none, 0) = 0
      BY <2>1, ThruFacts, Zenon
    <2> QED BY <1>1, <2>1, <2>2 DEF PushedThrough, Thru
  <1>5. Len(argv) = 0 /\ o + o = o
    BY <1>1
  <1>6. ~(parser.mlen # 0 /\ parser.mindex = parser.mlen)
    BY <1>1 DEF NewParser
  <1>7. [i \in 1..Len(pushed) |-> <<PushedThrough(i - 1), PushedThrough(i)>>] = <<>>
    BY <1>4
  <1>8. [from |-> PushedThrough(Len(pushed)), at |-> PushedThrough(Len(pushed)) + Len(argv),
         read |-> Cardinality({p \in ArgEnds[stream] : p <= taken}),
         done |-> parser.mlen # 0 /\ parser.mindex = parser.mlen] = Stream!NewSession
    BY <1>3, <1>4, <1>5, <1>6 DEF Stream!NewSession
  <1> QED BY <1>1, <1>2, <1>7, <1>8 DEF Stream!Init

\* A full buffer in which everything was parsed: only what is held is pushed.
Idle(n, room, r) ==
  /\ n = 0 /\ r.stop = "no" /\ r.parser = parser /\ r.argv = <<>>
  /\ \/ argv = <<>> /\ r.pushed = pushed
     \/ /\ argv # <<>> /\ room # 0
        /\ \E y \in Seq(Seq(Byte)) : Len(y) = Len(argv) /\ r.pushed = Append(pushed, y)

ReadsTo(S, n, room, u, r) ==
  \/ Matches(S, stream, taken + n, u, pushed, room, r)
  \/ Idle(n, room, r)

LEMMA ReadMatches ==
  ASSUME ExactInv, IsPlain(stream),
         NEW n \in 0..SmallerOf(FreeSize(heap, input), Length(stream) - taken),
         NEW room \in 0..MaxRoom, OnReadable(n, room),
         NEW t, t = taken + n, NEW u, u = Cardinality(Below(stream, t)), Arrived(stream, t, u),
         NEW S, S = Abs(stream, taken, pushed, argv, parser)
  PROVE  \E r, g : Leaves(n, r, g) /\ ReadsTo(S, n, room, u, r)
  <1> DEFINE B == Bytes[stream]
             s == stream
             p == taken - Size(input)
             y == Showing(heap, argv)
             given == FlattenSeq(pushed) \o y
  <1>1. StandInv /\ IInv /\ s \in Streams /\ pushed \in Seq(Seq(Seq(Byte)))
    BY DEF ExactInv, StandInv, IInv, TypeOK
  <1>2. PICK d, m, r, g :
           /\ Reading(n, d, m, r, g) /\ room \in Nat /\ r = Handled(m, room)
           /\ Sees(B, taken, heap, input, argv) =>
                /\ Sees(B, taken + n, m.heap, m.buf, argv)
                /\ Showing(m.heap, argv) = Showing(heap, argv)
                /\ (taken + n) - Size(m.buf) = p
    BY <1>1, ReadingFacts
  <1>3. /\ d \in Blocks /\ m.buf.data # Null /\ Sound(Byte, m.heap, argv, m.buf)
        /\ m.heap[d].refs = 0 /\ Leaves(n, r, g)
        /\ n \in Nat /\ taken \in Nat
    BY <1>2 DEF Reading
  <1>4. AllMulti(s) /\ Regular(s)
    BY <1>1, PlainFacts
  <1>5. Sees(B, taken, heap, input, argv) /\ Stands(s, p, parser) /\ Total(B, p, given)
    BY <1>1, <1>4 DEF StandInv, Stood
  <1>6. Sees(B, t, m.heap, m.buf, argv) /\ t - Size(m.buf) = p /\ Showing(m.heap, argv) = y
    BY <1>2, <1>5
  <1>7. PICK h, i : ExactAt(s, taken, p, parser, given, pushed, lost, disturbed, h, i)
    BY <1>4 DEF ExactInv, Followed
  <1>8. Exact(s, p, parser, given, h, i)
    BY <1>7 DEF ExactAt
  <1>9. y \in Seq(Seq(Byte)) /\ Len(y) = Len(argv) /\ argv \in Seq(Pointer)
    <2>1. argv \in Seq(Pointer) /\ Sound(Byte, heap, argv, input)
      BY <1>1 DEF IInv, Sound
    <2>2. \A k \in 1..Len(argv) : Contents(heap, argv[k]) \in Seq(Byte)
      BY <2>1, ShownFacts
    <2>3. Len(argv) \in Nat
      BY <2>1
    <2> QED BY <2>1, <2>2, <2>3 DEF Showing
  <1>10. p = taken - Size(input) /\ given = FlattenSeq(pushed) \o y /\ Size(input) \in Nat
    <2>1. Shared(Byte, heap, input, HeldBy(argv))
      BY <1>1 DEF IInv, Sound
    <2> QED BY <2>1, SharedFacts
  <1>11. argv = <<>> <=> Len(argv) = 0
    BY <1>9
  <1> HIDE DEF B, p, y, given
  <1>12. \E z : Began(B, d, t, p, given, m, room, z)
    <2>1. p = t - Size(m.buf) /\ room \in Nat
      BY <1>2, <1>6
    <2>2. given = FlattenSeq(pushed) \o Showing(m.heap, argv)
      BY <1>6, <1>10
    <2> QED BY <1>1, <1>3, <1>6, <2>1, <2>2, StartFacts, Zenon
  <1>13. PICK z : Began(B, d, t, p, given, m, room, z)
    BY <1>12
  <1>14. Turning(s, d, t, z) /\ r = Commands(z)
    BY <1>2, <1>5, <1>13 DEF Began, Starting, Turning, Standing, B
  <1>15. Began(Bytes[s], d, t, p, given, m, room, z)
    BY <1>13 DEF B
  <1>16. \/ Matches(S, s, t, u, pushed, room, Commands(z))
         \/ Size(z.input) = 0 /\ z.stop = "no" /\ Commands(z) = z
    <2>1. /\ s \in Streams /\ s = stream /\ IsPlain(s) /\ pushed \in Seq(Seq(Seq(Byte)))
          /\ d \in Blocks /\ Arrived(s, t, u) /\ u = Cardinality(Below(s, t))
          /\ S = Abs(s, taken, pushed, argv, parser)
      BY <1>1, <1>3
    <2>2. /\ y \in Seq(Seq(Byte)) /\ y = Showing(m.heap, argv) /\ Len(y) = Len(argv)
          /\ given = FlattenSeq(pushed) \o y /\ room \in Nat
      BY <1>2, <1>6, <1>9, <1>10
    <2> HIDE DEF s
    <2>3. Provided(s, d, t, u, p, given, h, i, m, y, room, z, taken, S)
      BY <1>8, <1>11, <1>14, <1>15, <2>1, <2>2, Zenon DEF Provided
    <2>4. Comes(s, t, u, room, z, S)
      BY <2>3, BeganMatches, Zenon
    <2> QED BY <2>4 DEF Comes
  <1>17. ASSUME Size(z.input) = 0, z.stop = "no", r = z PROVE Idle(n, room, r)
    <2>1. View(B, d, t, z) /\ z.at = 0 /\ Pos(t, z) = p /\ z.parser = parser
      BY <1>13 DEF Began, Starting
    <2>2. n = 0
      <3>1. Pos(t, z) = (t - Size(z.input)) + z.at
        BY <2>1, ViewFacts
      <3> DEFINE k == Size(input)
      <3>2. p = (t - 0) + 0 /\ p = taken - k /\ k \in Nat
        BY <1>10, <1>17, <2>1, <3>1
      <3> HIDE DEF k
      <3> QED BY <1>3, <3>2
    <2>3. \/ argv = <<>> /\ z.pushed = pushed /\ z.argv = <<>>
          \/ /\ argv # <<>> /\ room # 0 /\ z.argv = <<>>
             /\ z.pushed = Append(pushed, y)
      BY <1>6, <1>13, <1>17 DEF Began
    <2> QED BY <1>9, <1>17, <2>1, <2>2, <2>3 DEF Idle
  <1>18. ReadsTo(S, n, room, u, r)
    BY <1>14, <1>16, <1>17 DEF ReadsTo, s
  <1> QED BY <1>3, <1>18

LEMMA NextIs ==
  ASSUME NEW S, Seen(S), NEW u, u \in S.read..Most, NEW cut, cut \in {"inside", "line"},
         NEW room, room \in 0..MaxRoom, NEW full, full \in BOOLEAN,
         Stream!OnClientRead(u, cut, room, full)
  PROVE  Stream!Next
  <1>1. S = [from |-> PushedThrough(Len(pushed)),
             at |-> PushedThrough(Len(pushed)) + Len(argv),
             read |-> Cardinality({p \in ArgEnds[stream] : p <= taken}),
             done |-> parser.mlen # 0 /\ parser.mindex = parser.mlen]
    BY DEF Seen, Abs, Below, Finished, PushedThrough, Thru
  <1>2. cut \in Stream!Cuts
    BY DEF Stream!Cuts
  <1> QED BY <1>1, <1>2, Zenon DEF Stream!Next, Most

\* How many arguments have arrived before and after a read, and what the end of it cuts.
ReadAt(n, u) ==
  /\ n \in Nat /\ taken \in Nat /\ u = Cardinality(Below(stream, taken + n))
  /\ Arrived(stream, taken + n, u)
  /\ u \in Cardinality(Below(stream, taken))..Most
  /\ CutsCommand(taken + n) <=> (taken + n \in LineStarts[stream] \/ ~Stream!Boundary(u))

LEMMA ReadCounted ==
  ASSUME IsFiniteSet(Streams), stream \in Streams, IsPlain(stream), NEW n \in Nat,
         taken \in Nat, taken + n <= Len(Bytes[stream])
  PROVE  \E u : ReadAt(n, u)
  <1> DEFINE s == stream
             t == taken + n
             X == Below(s, taken)
             Y == Below(s, t)
  <1>1. t \in Nat /\ taken <= t
    OBVIOUS
  <1>2. t \in 0..Len(Bytes[s])
    <2>1. Len(Bytes[s]) \in Nat
      BY StreamInOrder DEF InOrder
    <2> QED BY <1>1, <2>1
  <1>3. PICK h, j : Reached(s, t, h, j)
    BY <1>2, ReachedExists
  <1> DEFINE u == h * PlainLen + j
  <1>4. Counts(Y, u) /\ h \in 0..Len(s) /\ j \in Nat /\ j < PlainLen
    BY <1>1, <1>3, BelowReached
  <1>5. u \in Nat /\ u <= Most /\ Most \in Nat
    <2>1. u <= Len(AllArguments(s)) /\ u \in Nat
      BY <1>1, <1>3, ReachedTotal
    <2>2. Most \in Nat /\ Len(AllArguments(s)) <= Most
      BY MostFacts
    <2>3. Len(AllArguments(s)) \in Nat
      BY AllLength
    <2> HIDE DEF u, s
    <2> QED BY <2>1, <2>2, <2>3
  <1>6. X \in SUBSET Y
    <2>1. ASSUME NEW p \in ArgEnds[s], p <= taken PROVE p <= t
      <3>1. PICK c \in 1..Len(s), i \in 1..PlainLen : p = ArgEnd(s, c, i)
        BY ArgEndsAre
      <3>2. p \in Nat
        BY <3>1, PlainSpots DEF Spots
      <3> QED BY <1>1, <2>1, <3>2
    <2> QED BY <2>1 DEF Below
  <1>7. Cardinality(X) \in Nat /\ Cardinality(X) <= Cardinality(Y)
    BY <1>4, <1>6, FS_Subset, FS_CardinalityType DEF Counts
  <1>8. Cardinality(Y) = u
    BY <1>4 DEF Counts
  <1>9. u \in Cardinality(X)..Most
    <2> HIDE DEF u, X, Y
    <2> QED BY <1>5, <1>7, <1>8
  <1>10. Stream!Boundary(u) <=> j = 0
    <2>1. h \in Nat
      BY <1>4, PlainFacts
    <2>2. u % PlainLen = j
      BY <1>4, <2>1, Rounds
    <2> QED BY <2>2 DEF Stream!Boundary
  <1>11. CutsCommand(t) <=> (t \in LineStarts[s] \/ j # 0)
    BY <1>1, <1>3, ReachedInside DEF CutsCommand
  <1>12. Arrived(s, t, u)
    BY <1>3 DEF Arrived
  <1>13. ReadAt(n, u)
    <2> HIDE DEF u
    <2> QED BY <1>8, <1>9, <1>10, <1>11, <1>12 DEF ReadAt
  <1> QED BY <1>13

LEMMA SeenHere ==
  ASSUME NEW pu \in Seq(Seq(Seq(Byte)))
  PROVE  From(pu) = Thru(pu, Len(pu)) /\ From(pu) \in Nat
  <1> DEFINE V == Seq(Byte)
  <1>1. pu \in Seq(Seq(V))
    OBVIOUS
  <1> HIDE DEF V
  <1> QED BY <1>1, ThruFacts DEF From

\* Nothing but currentCmd_ is pushed.
LEMMA IdleMatches ==
  ASSUME NEW n, NEW room, NEW r, Idle(n, room, r), pushed \in Seq(Seq(Seq(Byte))),
         argv = <<>> \/ Len(argv) \in Nat \ {0},
         NEW S, S = Abs(stream, taken, pushed, argv, parser)
  PROVE  /\ Abs(stream, taken, r.pushed, r.argv, r.parser) = [S EXCEPT !.from = S.at]
         /\ Ends(r.pushed) = Ends(pushed) \o Stream!Pending(S)
         /\ Stream!Pending(S) = <<>> \/ room # 0
  <1> DEFINE f == From(pushed)
             V == Seq(Byte)
             W == Nat \X Nat
             c == Cardinality(Below(stream, taken))
             o == Finished(parser)
             none == <<>>
             l == Len(argv)
             a == f + l
             x == Ends(pushed)
  <1>1. f \in Nat
    BY SeenHere
  <1>2. S = [from |-> f, at |-> a, read |-> c, done |-> o]
    BY DEF Abs
  <1>3. Len(none) = 0
    OBVIOUS
  <1>4. Abs(stream, taken, r.pushed, r.argv, r.parser)
          = [from |-> From(r.pushed), at |-> From(r.pushed) + 0, read |-> c, done |-> o]
    BY <1>3 DEF Abs, Idle
  <1>5. [S EXCEPT !.from = S.at] = [from |-> a, at |-> a, read |-> c, done |-> o]
    <2> HIDE DEF f, a, c, o
    <2> QED BY <1>2
  <1>6. pushed \in Seq(Seq(V))
    OBVIOUS
  <1>7. x \in Seq(W)
    <2> HIDE DEF V
    <2> QED BY <1>6, EndsTyped
  <1>8. CASE argv = <<>> /\ r.pushed = pushed
    <2>1. l = 0
      BY <1>3, <1>8
    <2>2. a = f /\ f + 0 = f
      <3> HIDE DEF f, l
      <3> QED BY <1>1, <2>1
    <2>3. Stream!Pending(S) = none
      <3>1. ~(a > f)
        <4> HIDE DEF f
        <4> QED BY <1>1, <2>2
      <3> HIDE DEF a, f
      <3> QED BY <1>2, <3>1 DEF Stream!Pending
    <2>4. x \o none = x
      <3> HIDE DEF x, W
      <3> QED BY <1>7
    <2>5. From(r.pushed) = f
      BY <1>8
    <2> HIDE DEF f, a, c, o, x
    <2>6. From(r.pushed) = a /\ From(r.pushed) + 0 = a
      BY <2>2, <2>5
    <2> QED BY <1>4, <1>5, <1>8, <2>3, <2>4, <2>6 DEF x
  <1>9. ASSUME argv # <<>>, room # 0, NEW y \in Seq(Seq(Byte)), Len(y) = Len(argv),
               r.pushed = Append(pushed, y)
        PROVE  /\ Abs(stream, taken, r.pushed, r.argv, r.parser) = [S EXCEPT !.from = S.at]
               /\ Ends(r.pushed) = Ends(pushed) \o Stream!Pending(S)
               /\ Stream!Pending(S) = <<>> \/ room # 0
    <2>1. l \in Nat /\ l # 0
      BY <1>9
    <2>2. a \in Nat /\ a > f /\ a + 0 = a
      <3> HIDE DEF f, l
      <3> QED BY <1>1, <2>1
    <2>3. Ends(Append(pushed, y)) = Append(x, <<f, a>>) /\ From(r.pushed) = a
      <3>1. y \in Seq(V) /\ Len(y) = l
        BY <1>9
      <3> HIDE DEF V, l
      <3>2. /\ Ends(Append(pushed, y)) = Append(Ends(pushed), <<f, f + Len(y)>>)
            /\ Len(FlattenSeq(Append(pushed, y))) = f + Len(y)
        BY <1>6, <3>1, EndsMore DEF From
      <3> QED BY <1>9, <3>1, <3>2 DEF From
    <2> DEFINE e == <<f, a>>
    <2>4. e \in W
      BY <1>1, <2>2
    <2>5. Stream!Pending(S) = <<e>>
      <3> HIDE DEF f, a
      <3> QED BY <1>2, <2>2 DEF Stream!Pending
    <2>6. Append(x, e) = x \o <<e>>
      <3> HIDE DEF x, e, W
      <3> QED BY <1>7, <2>4, AppendIsConcat
    <2>7. From(r.pushed) = a /\ From(r.pushed) + 0 = a
      BY <2>2, <2>3
    <2> HIDE DEF f, a, c, o, x
    <2>8. Ends(r.pushed) = x \o Stream!Pending(S)
      BY <1>9, <2>3, <2>5, <2>6
    <2> QED BY <1>4, <1>5, <1>9, <2>7, <2>8 DEF x
  <1> QED BY <1>8, <1>9 DEF Idle

\* What is inductive for the refinement: a read that cuts a command was noted.
StreamInv ==
  /\ ExactInv
  /\ IsPlain(stream) /\ CutsCommand(taken) => "cut" \in disturbed

\* A read of the bytes is a read of ClientStream, or its buffer is full.
LEMMA ReadRefines ==
  ASSUME IsFiniteSet(Streams), StreamInv, ExactInv', IsPlain(stream),
         NEW n \in 0..SmallerOf(FreeSize(heap, input), Length(stream) - taken),
         NEW room \in 0..MaxRoom, OnReadable(n, room)
  PROVE  Stream!Next
  <1> DEFINE t == taken + n
             S == Abs(stream, taken, pushed, argv, parser)
             T == Abs(stream', taken', pushed', argv', parser')
  <1>1. ExactInv /\ IInv /\ stream \in Streams /\ pushed \in Seq(Seq(Seq(Byte)))
        /\ argv \in Seq(Pointer)
    BY DEF StreamInv, ExactInv, StandInv, IInv, TypeOK, Sound
  <1>2. pushed' \in Seq(Seq(Seq(Byte)))
    BY DEF ExactInv, StandInv, IInv
  <1>3. n \in Nat /\ taken \in Nat /\ t <= Len(Bytes[stream])
    <2>1. PICK d, m, r, g : Reading(n, d, m, r, g)
      BY <1>1, ReadingFacts
    <2> QED BY <2>1 DEF Reading
  <1>4. PICK u : ReadAt(n, u)
    BY <1>1, <1>3, ReadCounted
  <1>5. /\ u = Cardinality(Below(stream, t)) /\ Arrived(stream, t, u)
        /\ u \in Cardinality(Below(stream, taken))..Most
        /\ CutsCommand(t) <=> (t \in LineStarts[stream] \/ ~Stream!Boundary(u))
    BY <1>4 DEF ReadAt
  <1>6. \E r, g : Leaves(n, r, g) /\ ReadsTo(S, n, room, u, r)
    BY <1>1, <1>5, ReadMatches
  <1>7. PICK r, g : Leaves(n, r, g) /\ ReadsTo(S, n, room, u, r)
    BY <1>6
  <1>8. /\ taken' = t /\ parser' = r.parser /\ argv' = r.argv /\ pushed' = r.pushed
        /\ reading' = (r.stop # "refused" /\ n # 0) /\ failed' = (r.stop = "OutOfBound")
        /\ stream' = stream
        /\ disturbed' = disturbed
             \union (IF r.stop = "refused" THEN {"refused"} ELSE {})
             \union (IF CutsCommand(t) THEN {"cut"} ELSE {})
    <2>1. ~\E c \in Between(taken, taken + n - 1) : stream[c].form = "inline"
      BY DEF Between, IsPlain
    <2> QED BY <1>7, <2>1 DEF Leaves
  <1>9. reading /\ ~failed /\ failed \in BOOLEAN
    BY <1>1 DEF OnReadable, IInv, TypeOK
  <1>10. Seen(S)
    BY <1>1, SeenHere DEF Seen
  <1>11. SeenNext(T)
    BY <1>2, SeenHere DEF SeenNext
  <1>12. T = Abs(stream, t, r.pushed, r.argv, r.parser)
    BY <1>8
  <1>13. S.read = Cardinality(Below(stream, taken))
    BY DEF Abs
  <1>14. n = 0 => t = taken
    BY <1>3
  <1> HIDE DEF S, T, t
  <1>15. CASE Matches(S, stream, t, u, pushed, room, r)
    <2> DEFINE cut == IF t \in LineStarts[stream] THEN "line" ELSE "inside"
               full == n = 0
    <2>1. /\ T = Stream!AfterRead(S, u, room)
          /\ Ends(pushed') = Ends(pushed) \o Stream!Pushed(S, u, room)
          /\ r.stop = "refused" <=> Stream!Deferred(S, u, room)
          /\ r.stop = "OutOfBound" <=> ~Stream!Deferred(S, u, room) /\ t \in LineStarts[stream]
      BY <1>8, <1>12, <1>15 DEF Matches
    <2>2. full => u = S.read
      BY <1>5, <1>13, <1>14
    <2>3. cut = "line" <=> t \in LineStarts[stream]
      OBVIOUS
    <2>4. cut # "clean" /\ cut \in {"inside", "line"}
      OBVIOUS
    <2>5. full \in BOOLEAN /\ (full <=> n = 0)
      OBVIOUS
    <2> HIDE DEF cut, full
    <2>6. reading' = (~Stream!Deferred(S, u, room) /\ ~full)
      BY <1>8, <2>1, <2>5
    <2>7. failed' = Stream!Failed(S, u, cut, room)
      BY <1>8, <2>1, <2>3 DEF Stream!Failed
    <2>8. disturbed' = disturbed
            \union (IF Stream!Boundary(u) /\ cut # "line" THEN {} ELSE {"cut"})
            \union (IF Stream!Deferred(S, u, room) THEN {"refused"} ELSE {})
      BY <1>5, <1>8, <2>1, <2>3
    <2>9. Stream!OnClientRead(u, cut, room, full)
      BY <1>9, <1>10, <1>11, <2>1, <2>2, <2>4, <2>6, <2>7, <2>8, ReadIs
    <2> QED BY <1>5, <1>10, <1>13, <2>4, <2>5, <2>9, NextIs
  <1>16. CASE Idle(n, room, r)
    <2>1. n = 0 /\ t = taken /\ r.stop = "no"
      BY <1>14, <1>16 DEF Idle
    <2>2. argv = <<>> \/ Len(argv) \in Nat \ {0}
      BY <1>1
    <2>3. /\ Abs(stream, taken, r.pushed, r.argv, r.parser) = [S EXCEPT !.from = S.at]
          /\ Ends(r.pushed) = Ends(pushed) \o Stream!Pending(S)
          /\ Stream!Pending(S) = <<>> \/ room # 0
      BY <1>1, <1>16, <2>2, IdleMatches DEF S
    <2>4. CutsCommand(t) => "cut" \in disturbed
      BY <2>1 DEF StreamInv
    <2>5. reading' = FALSE /\ UNCHANGED <<failed, disturbed>>
      BY <1>8, <1>9, <2>1, <2>4
    <2>6. T = [S EXCEPT !.from = S.at] /\ Ends(pushed') = Ends(pushed) \o Stream!Pending(S)
      BY <1>8, <1>12, <2>1, <2>3
    <2>7. Stream!OnBufferFull(room)
      BY <1>9, <1>10, <1>11, <2>3, <2>5, <2>6, FullIs
    <2> QED BY <2>7, Zenon DEF Stream!Next
  <1> QED BY <1>7, <1>15, <1>16 DEF ReadsTo, t

LEMMA InitStreamInv == Init => StreamInv
  <1> SUFFICES ASSUME Init, IsPlain(stream), CutsCommand(taken) PROVE FALSE
    BY InitExact DEF StreamInv
  <1> DEFINE o == 0
             s == stream
  <1>1. s \in Streams /\ taken = o
    BY DEF Init
  <1>2. CommandEnd[s][0] = 0 /\ Len(s) \in Nat /\ PlainLen \in Nat /\ PlainLen > 0
    BY <1>1, PlainFacts, StreamInOrder DEF InOrder
  <1>3. 0 \in 0..Len(Bytes[s])
    <2>1. Len(Bytes[s]) \in Nat
      BY <1>1, StreamInOrder DEF InOrder
    <2> QED BY <2>1
  <1>4. PICK h, j : Reached(s, o, h, j)
    BY <1>1, <1>3, ReachedExists
  <1>5. Reached(s, o, 0, 0)
    <2>1. CASE Len(s) = 0
      BY <1>2, <2>1 DEF Reached
    <2>2. CASE Len(s) # 0
      <3>1. 1 \in 1..Len(s) /\ 1 - 1 = 0 /\ 0 + 1 = 1 /\ 0 \in 0..(Len(s) - 1)
            /\ 0 \in 0..(PlainLen - 1) /\ 1 \in 0..PlainLen
        BY <1>2, <2>2
      <3>2. Spots(s, 1)
        BY <1>1, <3>1, PlainSpots
      <3>3. CommandEnd[s][0] < ArgEnd(s, 1, 1)
        BY <3>1, <3>2 DEF Spots
      <3>4. Behind(s, 0 + 1, 0) <= 0
        BY <1>2, <3>1 DEF Behind
      <3> QED BY <1>2, <3>1, <3>3, <3>4 DEF Reached
    <2> QED BY <2>1, <2>2
  <1>6. o \in Nat
    OBVIOUS
  <1> HIDE DEF o
  <1>7. o \notin LineStarts[s]
    <2>1. SUFFICES ASSUME 0 < Len(s), o = ArgEnd(s, 0 + 1, 0) PROVE FALSE
      BY <1>1, <1>5, <1>6, ReachedLine
    <2>2. 1 \in 1..Len(s) /\ 0 + 1 = 1 /\ 1 - 1 = 0
      BY <1>2, <2>1
    <2>3. ArgEnd(s, 1, 0) = CommandEnd[s][0] + 2
      BY <1>1, <2>2, PlainSpots DEF Spots
    <2> QED BY <1>2, <2>1, <2>2, <2>3 DEF o
  <1>8. ~\E c \in 1..Len(s) : /\ s[c].args # <<>> /\ ArgEnd(s, c, 1) <= o
                              /\ o < CommandEnd[s][c]
    BY <1>1, <1>5, <1>6, ReachedInside, Zenon
  <1> QED BY <1>1, <1>7, <1>8 DEF CutsCommand

LEMMA StreamInvStep == StreamInv /\ [Next]_vars => StreamInv'
  <1> SUFFICES ASSUME StreamInv, [Next]_vars PROVE StreamInv'
    OBVIOUS
  <1>1. ExactInv'
    BY ExactStep DEF StreamInv
  <1>2. ASSUME NEW n \in 0..SmallerOf(FreeSize(heap, input), Length(stream) - taken),
               NEW room \in 0..MaxRoom, OnReadable(n, room)
        PROVE  StreamInv'
    <2>1. IInv
      BY DEF StreamInv, ExactInv, StandInv
    <2>2. PICK d, m, r, g : Reading(n, d, m, r, g)
      BY <1>2, <2>1, ReadingFacts
    <2>3. /\ taken' = taken + n /\ stream' = stream
          /\ CutsCommand(taken + n) => "cut" \in disturbed'
      BY <2>2 DEF Reading, Leaves
    <2>4. (CutsCommand(taken))' <=> CutsCommand(taken + n)
      BY <2>3 DEF CutsCommand
    <2> QED BY <1>1, <2>3, <2>4 DEF StreamInv
  <1>3. ASSUME UNCHANGED <<stream, taken, disturbed>> PROVE StreamInv'
    BY <1>1, <1>3 DEF StreamInv, CutsCommand
  <1> QED BY <1>2, <1>3 DEF Next, OnServerWrite, vars

LEMMA NextRefines ==
  ASSUME IsFiniteSet(Streams), StreamInv, [Next]_vars
  PROVE  [Plain => Stream!Next]_vars
  <1> SUFFICES ASSUME Next, Plain PROVE Stream!Next
    OBVIOUS
  <1>1. IsPlain(stream)
    BY DEF Plain, IsPlain
  <1>2. ExactInv'
    BY ExactStep DEF StreamInv
  <1>3. ASSUME NEW n \in 0..SmallerOf(FreeSize(heap, input), Length(stream) - taken),
               NEW room \in 0..MaxRoom, OnReadable(n, room)
        PROVE  Stream!Next
    BY <1>1, <1>2, <1>3, ReadRefines
  <1>4. CASE OnServerWrite
    <2>1. pushed \in Seq(Seq(Seq(Byte)))
      BY DEF StreamInv, ExactInv, StandInv, IInv
    <2>2. Stream!OnServerWrite
      BY <1>4, <2>1, ReplyIs
    <2> QED BY <2>2, Zenon DEF Stream!Next
  <1> QED BY <1>3, <1>4 DEF Next

--------------------------------------------------------------------------------
(* The theorems. *)

\* Every argument and the input lie inside their blocks, the parser's counters do not
\* go below zero, and no more is taken than was sent, whatever is cut where.
THEOREM TypeCorrect == Spec => []TypeOK
  <1>1. IInv => TypeOK
    BY DEF IInv
  <1> QED BY <1>1, Invariant, PTL

\* A block is referenced exactly by the input and the arguments that look into it:
\* IncrRef when an argument is cut, DescRef when a command is dropped and when the input
\* moves to another block, balance for every stream, every cut into reads and every
\* request refused.
THEOREM BlocksAreAccounted == Spec => []BlocksAccounted
  <1>1. IInv => BlocksAccounted
    BY SoundCounted DEF IInv, BlocksAccounted
  <1> QED BY <1>1, Invariant, PTL

\* However inline commands are joined, split or read in the wrong format by ParseRequest,
\* and whatever SetFreeSize moves and joins under the arguments that are held, the data
\* of what was pushed and of what is held is the data the client sent, from its start and
\* without a hole, for every stream with single spaces between words.
THEOREM BytesAreInOrder == Spec => []BytesInOrder
  <1>1. StandInv => BytesInOrder
    BY StoodInOrder DEF StandInv, BytesInOrder
  <1> QED BY <1>1, StandInvariant, PTL

\* As long as nothing but cuts disturbs it, or the client sends multibulk commands only,
\* the arguments that the parser pushed and holds are the arguments sent, one by one and
\* in order: none is cut in two, joined to another or skipped, whatever reads end inside
\* it and whichever requests were refused before.
THEOREM ArgumentsAreIntact == Spec => []ArgumentsIntact
  <1>1. ExactInv => ArgumentsIntact
    <2> SUFFICES ASSUME ExactInv,
                        disturbed \subseteq {"cut"}
                          \/ \A c \in 1..Len(stream) : stream[c].form = "multibulk"
                 PROVE  IsPrefix(FlattenSeq(pushed)
                                   \o [i \in 1..Len(argv) |-> Contents(heap, argv[i])],
                                 AllArguments(stream))
      BY DEF ArgumentsIntact
    <2>1. stream \in Streams
      BY DEF ExactInv, StandInv, IInv, TypeOK
    <2>2. PICK h, i : ExactAt(stream, taken, taken - Size(input), parser,
                              FlattenSeq(pushed) \o Showing(heap, argv), pushed, lost,
                              disturbed, h, i)
      BY DEF ExactInv, Followed, AllMulti
    <2>3. IsPrefix(FlattenSeq(pushed) \o Showing(heap, argv), AllArguments(stream))
      BY <2>1, <2>2, ToldPrefix DEF ExactAt
    <2> QED BY <2>3 DEF Showing
  <1> QED BY <1>1, ExactInvariant, PTL

\* With nothing disturbed and nothing refused, the loop of OnClientRead has pushed exactly
\* the commands that arrived whole, each with all its arguments, and those of a client
\* that sends multibulk are formatted back (FormatRESP2) into the bytes it sent.
THEOREM CommandsAreWhole == Spec => []WholeCommands
  <1>1. ExactInv => WholeCommands
    <2> SUFFICES ASSUME ExactInv, disturbed = {}, lost = "no"
                 PROVE  /\ pushed = [c \in 1..Cardinality(Between(0, taken)) |->
                                       Arguments(stream, c)]
                        /\ (\A c \in 1..Len(stream) : stream[c].form = "multibulk") =>
                             Forwarded = SubSeq(Bytes[stream], 1,
                                                CommandEnd[stream][Cardinality(Between(0, taken))])
      BY DEF WholeCommands
    <2> DEFINE K == Between(0, taken)
               p == taken - Size(input)
    <2>1. stream \in Streams /\ IInv /\ StandInv
      BY DEF ExactInv, StandInv, IInv, TypeOK
    <2>2. PICK h, i : ExactAt(stream, taken, p, parser,
                              FlattenSeq(pushed) \o Showing(heap, argv), pushed, lost,
                              disturbed, h, i)
      BY DEF ExactInv, Followed
    <2>3. /\ i = 0 /\ pushed = Leading(stream, h)
          /\ h < Len(stream) => taken < CommandEnd[stream][h + 1]
          /\ Exact(stream, p, parser, FlattenSeq(pushed) \o Showing(heap, argv), h, i)
      BY <2>2 DEF ExactAt
    <2>4. p \in Nat /\ p <= taken /\ taken \in Nat
      <3>1. Shared(Byte, heap, input, HeldBy(argv))
        BY <2>1 DEF IInv, Sound
      <3>2. Size(input) \in Nat
        BY <3>1, SharedFacts
      <3>3. Regular(stream)
        BY <2>1 DEF StandInv, Regular
      <3>4. taken \in Nat /\ Size(input) <= taken
        BY <2>1, <3>3 DEF StandInv, Stood, Sees
      <3> QED BY <3>2, <3>4
    <2>5. K = {c \in 1..Len(stream) : 0 < CommandEnd[stream][c] /\ CommandEnd[stream][c] <= taken}
      BY DEF Between
    <2> HIDE DEF p, K
    <2>6. Exact(stream, p, parser, FlattenSeq(pushed) \o Showing(heap, argv), h, 0)
      BY <2>3
    <2>7. Cardinality(K) = h /\ h \in 0..Len(stream)
      BY <2>1, <2>3, <2>4, <2>5, <2>6, ArrivedCommands
    <2>8. pushed = [c \in 1..Cardinality(K) |-> Arguments(stream, c)]
      BY <2>3, <2>7 DEF Leading
    <2>9. ASSUME \A c \in 1..Len(stream) : stream[c].form = "multibulk"
          PROVE  Forwarded = SubSeq(Bytes[stream], 1, CommandEnd[stream][Cardinality(K)])
      <3>1. AllMulti(stream)
        BY <2>9 DEF AllMulti
      <3>2. FlattenSeq([j \in 1..Len(pushed) |-> FormatRESP2(pushed[j])])
              = SubSeq(Bytes[stream], 1, CommandEnd[stream][h])
        BY <2>1, <2>3, <2>7, <3>1, ForwardedPrefix
      <3> QED BY <2>7, <3>2 DEF Forwarded
    <2> QED BY <2>8, <2>9 DEF K
  <1> QED BY <1>1, ExactInvariant, PTL

\* For commands of PlainLen arguments, none empty, the whole of OnClientRead over bytes
\* that are cut anywhere, held, moved and parsed again does to its session what
\* ClientStream.tla says in terms of arguments: how many have arrived, which requests are
\* pushed, refused or taken for new, and when reading stops or an error ends it.
THEOREM ImplementsStream ==
  ASSUME IsFiniteSet(Streams)
  PROVE  Spec => StreamSpec
  <1>1. Init => (Plain => Stream!Init)
    BY InitIs DEF Plain, IsPlain
  <1>2. StreamInv /\ [Next]_vars => [Plain => Stream!Next]_vars
    BY NextRefines
  <1> QED BY <1>1, <1>2, InitStreamInv, StreamInvStep, PTL DEF Spec, StreamSpec
================================================================================
