-------------------------------- MODULE ClientBytes --------------------------------
(***************************************************************************)
(* One client and its session at the level of bytes: Event::Read           *)
(* (netio.cpp) into the parser's input buffer, Session::OnClientRead       *)
(* (session.cpp) over it with the parsers of Parser.tla, and the arguments *)
(* of currentCmd_, which look into the blocks the input was read into.     *)
(* ClientStream.tla is what this comes to for plain commands.              *)
(***************************************************************************)
EXTENDS Parser, FiniteSetsExt

CONSTANTS Streams,     \* what a client may send: sequences of commands
          PlainLen,    \* arguments of a plain command
          InitSize,    \* ReadBufferInitSize
          MinSize,     \* ReadBufferMinSize
          MaxRoom      \* bound: how many requests the upstream may take of a read

\* A command is written in multibulk form, or inline with gap spaces between words; its
\* arguments are given by their lengths.  An inline one has words, none empty.
Command ==
  {c \in [form : {"multibulk", "inline"}, args : Seq(Nat), gap : Nat] :
     c.form = "inline" =>
       /\ c.gap > 0 /\ c.args # <<>>
       /\ \A i \in 1..Len(c.args) : c.args[i] > 0}

ASSUME StreamsAssumption == \A s \in Streams : s \in Seq(Command)
ASSUME BufferSizesAssumption == /\ InitSize \in Nat \ {0}
                                /\ MinSize \in Nat \ {0}
ASSUME ClientBoundsAssumption == PlainLen \in Nat \ {0} /\ MaxRoom \in Nat

VARIABLES
  stream,      \* what the client sends
  taken,       \* how many bytes of it were read
  heap,        \* the blocks of memory
  input,       \* CmdParser::inputb_
  parser,      \* CmdParser's fields
  argv,        \* Session::currentCmd_
  reading,     \* EPOLLIN is wanted
  failed,      \* an error was written with NET_FLAG_CLOSE
  pushed,      \* the arguments of every request pushed, in order
  disturbed,   \* what happened so far that commands may not survive, see OnClientRead
  lost         \* behaviour is undefined from here on: "no", "atoi" ran past a line,
               \* or "memcpy" scrambled overlapping bytes

vars == <<stream, taken, heap, input, parser, argv, reading, failed, pushed,
          disturbed, lost>>

--------------------------------------------------------------------------------
(* The client *)

\* The i-th argument of the c-th command: its bytes are all different.
Argument(s, c, i) ==
  [k \in 1..s[c].args[i] |-> <<"byte", 100 * c + 10 * i + k>>]

Arguments(s, c) == [i \in 1..Len(s[c].args) |-> Argument(s, c, i)]

\* A command is a header, empty if it is inline, and a piece for each argument.
Header(s, c) ==
  IF s[c].form = "inline" THEN <<>> ELSE <<<<"*", Len(s[c].args)>>, Lf>>

Part(s, c, i) ==
  IF s[c].form = "multibulk"
  THEN <<<<"$", s[c].args[i]>>, Lf>> \o Argument(s, c, i) \o <<Cr, Lf>>
  ELSE Argument(s, c, i) \o (IF i = Len(s[c].args) THEN <<Cr, Lf>>
                             ELSE [k \in 1..s[c].gap |-> Sp])

Encoded(s, c) == Header(s, c) \o FlattenSeq([i \in 1..Len(s[c].args) |-> Part(s, c, i)])

Bytes == [s \in Streams |-> FlattenSeq([c \in 1..Len(s) |-> Encoded(s, c)])]

Length(s) == Len(Bytes[s])

\* Where the c-th command ends, and where its i-th argument does; 0 stands for the
\* beginning of the stream and of a command.
CommandEnd == [s \in Streams |->
  [c \in 0..Len(s) |-> Len(FlattenSeq([d \in 1..c |-> Encoded(s, d)]))]]

ArgEnd(s, c, i) ==
  CommandEnd[s][c - 1] + Len(Header(s, c)) + Len(FlattenSeq([j \in 1..i |-> Part(s, c, j)]))

ArgEnds == [s \in Streams |->
  UNION {{ArgEnd(s, c, i) : i \in 1..Len(s[c].args)} : c \in 1..Len(s)}]

\* Where a length line is to begin inside a command: after "*N", after an argument.
LineStarts == [s \in Streams |->
  UNION {{ArgEnd(s, c, i) : i \in 0..(Len(s[c].args) - 1)} :
           c \in {d \in 1..Len(s) : s[d].form = "multibulk"}}]

\* The commands that end in (i, j].
Between(i, j) ==
  {c \in 1..Len(stream) : i < CommandEnd[stream][c] /\ CommandEnd[stream][c] <= j}

\* Position p lies behind an argument of a command that goes on, or where a length line
\* is to begin.
CutsCommand(p) ==
  \/ p \in LineStarts[stream]
  \/ \E c \in 1..Len(stream) : /\ stream[c].args # <<>>
                               /\ ArgEnd(stream, c, 1) <= p
                               /\ p < CommandEnd[stream][c]

--------------------------------------------------------------------------------
InitialBuffer == AppendCapacity(EmptyHeap, EmptyBuffer, InitSize)

TypeOK ==
  /\ stream \in Streams
  /\ taken \in 0..Length(stream)
  /\ DOMAIN heap = Blocks
  /\ \A i \in 1..Len(argv) : InBounds(heap, argv[i])
  /\ InBounds(heap, input)
  /\ parser \in [type : {"none", "multibulk", "inline"}, mlen : Nat, mindex : Nat,
                 blen : Nat]
  /\ reading \in BOOLEAN /\ failed \in BOOLEAN
  /\ disturbed \subseteq {"cut", "refused", "joined", "spaces"}
  /\ lost \in {"no", "atoi", "memcpy"}

\* OnNewClientConnection
Init == /\ stream \in Streams
        /\ taken = 0
        /\ heap = InitialBuffer.heap
        /\ input = InitialBuffer.buf
        /\ parser = NewParser
        /\ argv = <<>>
        /\ reading = TRUE
        /\ failed = FALSE
        /\ pushed = <<>>
        /\ disturbed = IF \E c \in 1..Len(stream) :
                            stream[c].form = "inline" /\ stream[c].gap > 1
                       THEN {"spaces"} ELSE {}
        /\ lost = "no"

--------------------------------------------------------------------------------
(* OnClientRead.  A parse (Parser.tla) with three more fields: the requests     *)
(* pushed, the room the upstream has left, and what stopped the loop.           *)

\* Cmd::Reset
Dropped(h, args) ==
  LET after[k \in 0..Len(args)] ==
        IF k = 0 THEN h ELSE Destroyed(after[k - 1], args[k]) IN
  after[Len(args)]

\* Fault: currentCmd_ keeps its arguments.
PushKeepsArguments(r) ==
  IF r.room = 0 THEN [r EXCEPT !.stop = "refused"]
  ELSE [r EXCEPT !.pushed = Append(@, [i \in 1..Len(r.argv) |-> Contents(r.heap, r.argv[i])]),
                 !.room = @ - 1]

\* PushRequest, and currentCmd_.Reset when it succeeds.
Push(r) ==
  IF r.room = 0 THEN [r EXCEPT !.stop = "refused"]
  ELSE [r EXCEPT !.pushed = Append(@, [i \in 1..Len(r.argv) |-> Contents(r.heap, r.argv[i])]),
                 !.heap = Dropped(r.heap, r.argv), !.argv = <<>>, !.room = @ - 1]

\* Fault: the parser is not Reset after its command was pushed.
SettledUnreset(r) == r

Settled(r) == IF r.stop = "refused" THEN r ELSE [r EXCEPT !.parser = NewParser]

\* What follows a parse.
AfterParse(p) ==
  IF p.err # "OK" THEN [p EXCEPT !.stop = p.err, !.err = "OK"] ELSE Settled(Push(p))

\* A turn of the loop.
NextCommand(r) ==
  IF r.stop # "no" \/ Size(r.input) = 0 THEN r ELSE AfterParse(ParseRequest(r))

\* Each turn takes a byte, except one that finds the parser of a refused command.
Commands(r) ==
  LET turns == Size(r.input) + 2
      turn[k \in 0..turns] == IF k = 0 THEN r ELSE NextCommand(turn[k - 1]) IN
  turn[turns]

\* The whole of OnClientRead up to the growth of the buffer, after a read that made m of
\* the input.
Handled(m, room) ==
  LET start == [heap |-> m.heap, input |-> m.buf, at |-> 0, parser |-> parser,
                argv |-> argv, err |-> "OK", pushed |-> pushed, room |-> room,
                stop |-> "no"] IN
  Commands(IF argv = <<>> THEN start ELSE Push(start))

\* Returns early, without growing the buffer.
Stopped(r) == r.stop \in {"refused", "OutOfBound", "unpredictable"}

\* Room is made for the next read.
Grown(r) ==
  IF Stopped(r) \/ FreeSize(r.heap, r.input) >= MinSize THEN Kept(r.heap, r.input)
  ELSE AppendCapacity(r.heap, r.input, MinSize)

\* What a read of n bytes leaves behind: r came of the loop, and g of the buffer.
Leaves(n, r, g) ==
  /\ taken' = taken + n
  /\ heap' = g.heap
  /\ input' = g.buf
  /\ parser' = r.parser
  /\ argv' = r.argv
  /\ pushed' = r.pushed
  /\ reading' = (r.stop # "refused" /\ n # 0)
  /\ failed' = (r.stop = "OutOfBound")
  /\ lost' \in (IF r.stop = "unpredictable" THEN {"atoi"}
               ELSE IF g.overlap THEN {"no", "memcpy"} ELSE {"no"})
  /\ disturbed' = disturbed
       \union (IF r.stop = "refused" THEN {"refused"} ELSE {})
       \union (IF CutsCommand(taken + n) THEN {"cut"} ELSE {})
       \union (IF \E c \in Between(taken, taken + n - 1) : stream[c].form = "inline"
               THEN {"joined"} ELSE {})
  /\ UNCHANGED stream

ReadInto(n, r) == Leaves(n, r, Grown(r))

\* Bound: the growth of the buffer finds a block.
BlockLeft == {d \in Blocks : heap[d].refs = 0} # {}

\* Event::Read of the next n bytes, none if the buffer is full, then OnClientRead, whose
\* PushRequest succeeds room times.
OnReadable(n, room) ==
  /\ reading /\ ~failed /\ lost = "no" /\ BlockLeft
  /\ n = 0 <=> FreeSize(heap, input) = 0
  /\ ReadInto(n, Handled(Filled(Kept(heap, input),
                                SubSeq(Bytes[stream], taken + 1, taken + n)), room))

\* A reply to an earlier request of this client.
OnServerWrite ==
  /\ ~failed /\ lost = "no" /\ pushed # <<>>
  /\ reading' = TRUE
  /\ UNCHANGED <<stream, taken, heap, input, parser, argv, failed, pushed, disturbed,
                 lost>>

Next == \/ \E n \in 0..SmallerOf(FreeSize(heap, input), Length(stream) - taken),
              room \in 0..MaxRoom : OnReadable(n, room)
        \/ OnServerWrite

Spec == Init /\ [][Next]_vars

--------------------------------------------------------------------------------
(* ClientStream.tla, seen from here. *)

\* Commands of PlainLen arguments, none empty, in multibulk form.
Plain == \A c \in 1..Len(stream) :
           /\ stream[c].form = "multibulk" /\ Len(stream[c].args) = PlainLen
           /\ \A i \in 1..PlainLen : stream[c].args[i] > 0

AllArguments(s) == FlattenSeq([c \in 1..Len(s) |-> Arguments(s, c)])

\* How many arguments were pushed with the first i requests.
PushedThrough(i) == Len(FlattenSeq(SubSeq(pushed, 1, i)))

Stream == INSTANCE ClientStream WITH
  CmdLen <- PlainLen,
  Total <- Max({Len(AllArguments(s)) : s \in Streams}),
  session <- [from |-> PushedThrough(Len(pushed)),
              at |-> PushedThrough(Len(pushed)) + Len(argv),
              read |-> Cardinality({p \in ArgEnds[stream] : p <= taken}),
              done |-> parser.mlen # 0 /\ parser.mindex = parser.mlen],
  pushed <- [i \in 1..Len(pushed) |-> <<PushedThrough(i - 1), PushedThrough(i)>>]

--------------------------------------------------------------------------------
(* Properties *)

\* A block has one reference for the input and for each argument that looks into it,
\* and none leaks or is freed under one of them, whichever way the input was moved.
BlocksAccounted == Counted(heap, Append(argv, input))

\* Every argument, pushed or still held while the input under it is read into, moved and
\* reallocated, shows the bytes that the client sent, in order and none skipped.  Not so
\* for inline commands that arrived together, were refused (the parser then takes what
\* follows for inline) or had more than one space between words.
ArgumentsIntact ==
  disturbed \subseteq {"cut"} \/ (\A c \in 1..Len(stream) : stream[c].form = "multibulk") =>
     IsPrefix(FlattenSeq(pushed) \o [i \in 1..Len(argv) |-> Contents(heap, argv[i])],
              AllArguments(stream))

\* What the requests pushed become in the send buffer of the server connection.
Forwarded == FlattenSeq([i \in 1..Len(pushed) |-> FormatRESP2(pushed[i])])

Data(bytes) ==
  FlattenSeq([i \in 1..Len(bytes) |-> IF bytes[i][1] = "byte" THEN <<bytes[i]>> ELSE <<>>])

\* Even then, and however inline commands are joined, split or read in the wrong format,
\* no byte of an argument is dropped, repeated or overtaken, unless there are two spaces
\* between words (buffer_reader.cpp:50, buffer.cpp:144: an empty word is all there is).
BytesInOrder ==
  "spaces" \notin disturbed =>
     IsPrefix(Data(FlattenSeq(FlattenSeq(pushed)))
                \o Data(FlattenSeq([i \in 1..Len(argv) |-> Contents(heap, argv[i])])),
              Data(SubSeq(Bytes[stream], 1, taken)))

\* As long as no read ends behind an argument inside a command, nothing is refused and
\* inline commands arrive one by one with single spaces, exactly the commands that
\* arrived are pushed, whatever the growth of the buffer made of their bytes.  A client
\* that writes multibulk commands only has its own bytes forwarded.
WholeCommands ==
  LET n == Cardinality(Between(0, taken)) IN
  disturbed = {} /\ lost = "no" =>
     /\ pushed = [c \in 1..n |-> Arguments(stream, c)]
     /\ (\A c \in 1..Len(stream) : stream[c].form = "multibulk") =>
           Forwarded = SubSeq(Bytes[stream], 1, CommandEnd[stream][n])

\* For plain commands the bytes come to ClientStream.
StreamSpec == (Plain => Stream!Init) /\ [][Plain => Stream!Next]_vars
================================================================================
