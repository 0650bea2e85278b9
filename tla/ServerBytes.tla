-------------------------------- MODULE ServerBytes --------------------------------
(***************************************************************************)
(* The replies at the level of bytes: Event::Read (netio.cpp) from the     *)
(* server connection into the parser's input buffer, Upstream::OnServerRead*)
(* (upstream.cpp) over it with the parser of Parser.tla, respBuffer_, and  *)
(* the send buffer of the client's connection, to which                    *)
(* Session::OnServerWrite copies each reply and from which the loop writes.*)
(* All requests are one client's; Upstream.tla has who is answered.        *)
(***************************************************************************)
EXTENDS Parser

CONSTANTS Streams,     \* what the server may send: sequences of replies
          InitSize,    \* ReadBufferInitSize
          MinSize      \* ReadBufferMinSize

\* A status, error or integer is a line; a bulk string has one element and an array any
\* number, given by their lengths, -1 for nil.
Reply == {r \in [kind : {"line", "bulk", "array"}, elements : Seq(Nat \union {-1})] :
            /\ r.kind = "line" => r.elements = <<>>
            /\ r.kind = "bulk" => Len(r.elements) = 1}

ASSUME StreamsAssumption == \A s \in Streams : s \in Seq(Reply)
ASSUME BufferSizesAssumption == /\ InitSize \in Nat \ {0}
                                /\ MinSize \in Nat \ {0}

\* Whatever the three Buffers look into, a block is left to allocate.
ASSUME BlockLeftAssumption == \A a, b, c \in Blocks : \E d \in Blocks : d \notin {a, b, c}

VARIABLES
  stream,      \* what the server sends
  taken,       \* how many bytes of it were read
  heap,        \* the blocks of memory
  input,       \* CmdParser::inputb_
  parser,      \* CmdParser's fields
  resp,        \* Upstream::respBuffer_
  readable,    \* EPOLLIN is wanted
  handed,      \* how many replies were handed to their reader
  stop,        \* what ended the last OnServerRead
  send,        \* the client connection's sendBuffer_
  got,         \* what its socket took
  scrambled    \* an overlapping memcpy scrambled bytes

vars == <<stream, taken, heap, input, parser, resp, readable, handed, stop, send, got,
          scrambled>>

--------------------------------------------------------------------------------
(* The server *)

ElementOf(s, c, i) ==
  LET n == s[c].elements[i] IN
  IF n = -1 THEN <<<<"$", -1>>, Lf>>
  ELSE <<<<"$", n>>, Lf>> \o [k \in 1..n |-> <<"byte", 100 * c + 10 * i + k>>]
                          \o <<Cr, Lf>>

Header(s, c) ==
  IF s[c].kind = "line" THEN <<<<"+", c>>, Lf>>
  ELSE IF s[c].kind = "array" THEN <<<<"*", Len(s[c].elements)>>, Lf>> ELSE <<>>

\* The c-th reply up to its i-th element.
Begun(s, c, i) == Header(s, c) \o FlattenSeq([j \in 1..i |-> ElementOf(s, c, j)])

Encoded(s, c) == Begun(s, c, Len(s[c].elements))

Bytes == [s \in Streams |-> FlattenSeq([c \in 1..Len(s) |-> Encoded(s, c)])]

ReplyEnd == [s \in Streams |->
  [c \in 0..Len(s) |-> Len(FlattenSeq([d \in 1..c |-> Encoded(s, d)]))]]

\* Where the parser looks for the length line of an array's element: behind the one before,
\* and if that is empty, in front of the end of line it did not skip.
LineStart(s, c, i) ==
  ReplyEnd[s][c - 1] + Len(Begun(s, c, i))
    - (IF i > 0 /\ s[c].elements[i] = 0 THEN 2 ELSE 0)

LineStarts == [s \in Streams |->
  UNION {{LineStart(s, c, i) : i \in 0..(Len(s[c].elements) - 1)} :
           c \in {d \in 1..Len(s) : s[d].kind = "array"}}]

Arrived == Cardinality({c \in 1..Len(stream) : ReplyEnd[stream][c] <= taken})

\* No element is the empty string: every byte of a reply belongs to it.
Framed(s) == \A c \in 1..Len(s) : \A i \in 1..Len(s[c].elements) : s[c].elements[i] # 0

--------------------------------------------------------------------------------
InitialBuffer == AppendCapacity(EmptyHeap, EmptyBuffer, InitSize)

Stops == {"no", "TryAgain", "OutOfBound", "Unknown", "unpredictable"}

TypeOK ==
  /\ stream \in Streams
  /\ taken \in 0..Len(Bytes[stream])
  /\ DOMAIN heap = Blocks
  /\ InBounds(heap, input) /\ InBounds(heap, resp) /\ InBounds(heap, send)
  /\ parser \in [type : {"none", "multibulk", "inline"}, mlen : Int, mindex : Nat,
                 blen : Nat]
  /\ readable \in BOOLEAN /\ scrambled \in BOOLEAN
  /\ handed \in 0..Len(stream)
  /\ stop \in Stops
  /\ Len(got) <= Len(Bytes[stream])

\* Upstream::Init
Init == /\ stream \in Streams
        /\ taken = 0
        /\ heap = InitialBuffer.heap
        /\ input = InitialBuffer.buf
        /\ parser = NewParser
        /\ resp = EmptyBuffer
        /\ readable = TRUE
        /\ handed = 0
        /\ stop = "no"
        /\ send = EmptyBuffer
        /\ got = <<>>
        /\ scrambled = FALSE

--------------------------------------------------------------------------------
\* OnServerRead resets the parser and clears respBuffer_, which left it as c says.
Cleared(r, c) ==
  [r EXCEPT !.heap = c.heap, !.resp = c.buf, !.parser = NewParser, !.handed = @ + 1]

\* Session::OnServerWrite, Connection::WriteToBuffer: the reply is copied, which left the
\* send buffer as m says.
Sent(r, m) ==
  Cleared([r EXCEPT !.send = m.buf, !.overlap = @ \/ m.overlap], Clear(m.heap, r.resp))

HandOut(r) == Sent(r, AppendBytes(r.heap, r.send, Contents(r.heap, r.resp)))

\* Fault: one reply is handed out for each read.
AfterParseOnce(p) ==
  IF p.err # "OK" THEN [p EXCEPT !.stop = p.err, !.err = "OK"]
  ELSE [HandOut(p) EXCEPT !.stop = "TryAgain"]

\* What follows a parse.
AfterParse(p) ==
  IF p.err # "OK" THEN [p EXCEPT !.stop = p.err, !.err = "OK"] ELSE HandOut(p)

\* A turn of the loop of OnServerRead.
NextReply(r) ==
  IF r.stop # "no" \/ Size(r.input) = 0 THEN r ELSE AfterParse(ParseResponse(r))

Replies(r) ==
  LET turns == Size(r.input) + 1
      turn[k \in 0..turns] == IF k = 0 THEN r ELSE NextReply(turn[k - 1]) IN
  turn[turns]

\* Fault: the buffer grows only for the rest of a reply.
GrownForRestOnly(r) ==
  IF /\ r.stop \in {"no", "TryAgain"} /\ FreeSize(r.heap, r.input) < MinSize
     /\ Size(r.input) > 0
  THEN AppendCapacity(r.heap, r.input, MinSize)
  ELSE Kept(r.heap, r.input)

\* OnServerRead makes room for the next read, unless it returned an error before.
Grown(r) ==
  IF r.stop \in {"no", "TryAgain"} /\ FreeSize(r.heap, r.input) < MinSize
  THEN AppendCapacity(r.heap, r.input, MinSize)
  ELSE Kept(r.heap, r.input)

\* What a read of n bytes leaves behind: r came of the loop, and g of the buffer.
Leaves(n, r, g) ==
  /\ taken' = taken + n
  /\ heap' = g.heap
  /\ input' = g.buf
  /\ parser' = r.parser
  /\ resp' = r.resp
  /\ handed' = r.handed
  /\ stop' = r.stop
  /\ send' = r.send
  /\ scrambled' \in (IF r.overlap \/ g.overlap THEN BOOLEAN ELSE {FALSE})
  /\ readable' = (n # 0)
  /\ UNCHANGED <<stream, got>>

ReadInto(n, r) == Leaves(n, r, Grown(r))

\* OnServerRead, after a read that made m of the input.
Handled(m) ==
  Replies([heap |-> m.heap, input |-> m.buf, at |-> 0, parser |-> parser, resp |-> resp,
           err |-> "OK", send |-> send, handed |-> handed, stop |-> "no",
           overlap |-> FALSE])

\* Event::Read of the next n bytes, none if the buffer is full, then OnServerRead.
OnReadable(n) ==
  /\ readable /\ ~scrambled /\ stop # "unpredictable"
  /\ n = 0 <=> FreeSize(heap, input) = 0
  /\ ReadInto(n, Handled(Filled(Kept(heap, input),
                                SubSeq(Bytes[stream], taken + 1, taken + n))))

\* Fault: what the socket left goes with what it took.
WrittenClears(n) == Clear(heap, send)

\* Connection::OnWritable, Event::Write: the socket took n bytes.
Written(n) ==
  IF n < Size(send) THEN Kept(heap, Offset(send, n, 0)) ELSE Clear(heap, send)

OnClientWritable(n) ==
  /\ ~scrambled /\ Size(send) > 0
  /\ got' = got \o SubSeq(Contents(heap, send), 1, n)
  /\ heap' = Written(n).heap
  /\ send' = Written(n).buf
  /\ UNCHANGED <<stream, taken, input, parser, resp, readable, handed, stop, scrambled>>

\* How much a read may find.
Available == SmallerOf(FreeSize(heap, input), Len(Bytes[stream]) - taken)

Next == \/ \E n \in 0..Available : OnReadable(n)
        \/ \E n \in 1..Size(send) : OnClientWritable(n)

Spec == Init /\ [][Next]_vars

--------------------------------------------------------------------------------
(* Properties *)

\* A block has one reference for each Buffer that looks into it, also when respBuffer_
\* shares the input's block, keeps its own or is appended to in pieces.
BlocksAccounted == Counted(heap, <<input, resp, send>>)

\* Wherever reads and writes end, and whichever block respBuffer_ shares or is copied to,
\* what the client got, what waits for it, the reply that is being put together and what is
\* not parsed yet are, one behind the other, the bytes that were read.
BytesKept ==
  ~scrambled =>
     got \o Contents(heap, send) \o Contents(heap, resp) \o Contents(heap, input)
       = SubSeq(Bytes[stream], 1, taken)

\* Wherever the reads end, what the client got or will get is, byte for byte, the replies
\* that have arrived whole: none waits for a later read, none is torn or repeated.
RepliesIntact ==
  Framed(stream) /\ ~scrambled =>
     got \o Contents(heap, send) = SubSeq(Bytes[stream], 1, ReplyEnd[stream][Arrived])

\* Wherever reads cut the replies, the parser takes none of their bytes for a reply of no
\* type, unless the reply before ended in an empty bulk string: the end of line that was
\* not skipped behind it is all that Upstream's Unparsable stands for.
UnknownOnlyBehindEmptyBulk ==
  stop = "Unknown" =>
     /\ handed > 0
     /\ LET last == stream[handed].elements IN last # <<>> /\ last[Len(last)] = 0

\* The buffer is full, and the server connection stops reading for good, only if a read
\* ended where an array's next length line begins and filled the buffer, or the input
\* is jammed (OnServerRead returned before it made room).
FullOnlyAtLineStart ==
  ~readable \/ FreeSize(heap, input) = 0 =>
     taken \in LineStarts[stream] \/ stop \in {"Unknown", "unpredictable"}
--------------------------------------------------------------------------------
(* What comments and messages of the code say, and the code does not do. *)

\* No read finds the buffer full: connections.cpp:181 calls it "unexpected".  A server
\* connection that did is never read again, as nobody calls SetReadable( true ) on it.
NeverFull == Framed(stream) => readable

\* A reply that the parser does not know makes OnServerRead "log this error / and
\* reconnect to server" (upstream.cpp:204-205): the link it came by is given up, and
\* nothing more is read from it.
UnknownEndsLink == [][stop = "Unknown" => UNCHANGED taken]_vars
================================================================================
