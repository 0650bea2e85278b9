---------------------------------- MODULE Parser ----------------------------------
(***************************************************************************)
(* CmdParser, MultibulkParser and InlineParser (cmd.cpp) on a BufferReader *)
(* (buffer_reader.cpp): what they make of the bytes in an input buffer,    *)
(* and what they keep when the bytes end in the middle of something.       *)
(*                                                                         *)
(* A byte is a pair.  <<k, n>> with k in Headers is what a length line has *)
(* before its '\n', '\r' included: it can be cut off only as a whole.      *)
(*                                                                         *)
(* A parse is a record: the heap, the input buffer, at (BufferReader's     *)
(* offset_), the parser's fields, err, and argv (the Cmd) for a request or *)
(* resp (respBuffer_) for a reply.                                         *)
(***************************************************************************)
EXTENDS Buffer, Integers, SequencesExt

Headers == {"*", "$", "+", "-", ":"}

Cr == <<"cr", 0>>
Lf == <<"lf", 0>>
Sp == <<"sp", 0>>

NewParser == [type |-> "none", mlen |-> 0, mindex |-> 0, blen |-> 0]

\* What the reader has before it.
Unread(r) == LET c == Contents(r.heap, r.input) IN SubSeq(c, r.at + 1, Len(c))

\* Where the first byte b is, 0 if there is none.
Find(data, b) == SelectInSeq(data, LAMBDA x : x = b)

Fails(err) == [err |-> err, bytes |-> 0, value |-> 0]

\* readInt32 on data whose first '\n' is at end.  atoi needs a digit in the line:
\* without one it runs on through the '\n' into whatever follows in memory,
\* "unpredictable".
LineUpTo(data, end) ==
  IF data = <<>> THEN Fails("OutOfBound")
  ELSE IF end = 0 THEN Fails("TryAgain")
  ELSE IF data[1][1] \notin Headers THEN Fails("unpredictable")
  ELSE [err |-> "OK", bytes |-> end, value |-> data[1][2]]

LengthLine(data) == LineUpTo(data, Find(data, Lf))

\* How many turns the loops over multibulkIndex_ have left.
Left(r) == IF r.parser.mlen > r.parser.mindex THEN r.parser.mlen - r.parser.mindex ELSE 0

--------------------------------------------------------------------------------
(* Requests *)

\* readInt32: the reader is behind the line.
After(r, line) == [r EXCEPT !.err = line.err, !.at = @ + line.bytes]

\* MultibulkParser::HandleRequest: the length line of the command and of an argument.
WithCount(r, line) == [After(r, line) EXCEPT !.parser.mlen = line.value]
WithLength(r, line) == [After(r, line) EXCEPT !.parser.blen = line.value]

RequestLength(r) ==
  IF r.parser.mlen # 0 THEN r ELSE WithCount(r, LengthLine(Unread(r)))

ArgLength(r) ==
  IF r.parser.blen # 0 THEN r ELSE WithLength(r, LengthLine(Unread(r)))

\* The n bytes before the reader, n = 0 for all of them, as a Buffer of their own that
\* shares the block of the input.
Slice(r, n) == AppendBuffer(r.heap, EmptyBuffer, Offset(r.input, r.at, 0), n)

\* Fault: the end of an argument's line is not skipped.
ArgBytesWithoutEnd(r, n) ==
  LET arg == Slice(r, n) IN
  IF r.err # "OK" THEN r
  ELSE IF Len(Unread(r)) < n THEN [r EXCEPT !.err = "TryAgain"]
  ELSE [r EXCEPT !.heap = arg.heap, !.at = @ + n, !.argv = Append(@, arg.buf),
                 !.parser.blen = 0, !.parser.mindex = @ + 1]

\* An argument of n bytes.
ArgBytes(r, n) ==
  LET arg == Slice(r, n + 2) IN
  IF r.err # "OK" THEN r
  ELSE IF Len(Unread(r)) < n + 2 THEN [r EXCEPT !.err = "TryAgain"]
  ELSE [r EXCEPT !.heap = arg.heap, !.at = @ + n + 2,
                 !.argv = Append(@, Offset(arg.buf, 0, 2)),
                 !.parser.blen = 0, !.parser.mindex = @ + 1]

ArgFrom(r) == ArgBytes(r, r.parser.blen)

NextArg(r) == IF r.err # "OK" THEN r ELSE ArgFrom(ArgLength(r))

Args(r) ==
  LET turn[k \in 0..Left(r)] == IF k = 0 THEN r ELSE NextArg(turn[k - 1]) IN
  turn[Left(r)]

MultibulkRequest(r) == Args(RequestLength(r))

\* ReadUntil kSplitSign: the first space there is anywhere, the first '\n' only if there
\* is no space.
SplitAt(data) == IF Find(data, Sp) # 0 THEN Find(data, Sp) ELSE Find(data, Lf)

\* The byte before position at is '\r'.
AfterCr(r, at) == at > 0 /\ Contents(r.heap, r.input)[at] = Cr

\* InlineParser::HandleRequest: a word, with what ends it at end.
WordUpTo(r, data, end) ==
  LET word == Slice(r, end - 1)
      lineEnd == data[end] = Lf
      cr == AfterCr(r, r.at + end - 1) IN
  IF data = <<>> THEN [r EXCEPT !.err = "OutOfBound"]
  ELSE IF end = 0 THEN [r EXCEPT !.err = "TryAgain"]
  ELSE [r EXCEPT !.heap = word.heap, !.at = @ + end,
                 !.argv = Append(@, IF lineEnd /\ cr THEN Offset(word.buf, 0, 1)
                                    ELSE word.buf),
                 !.err = IF lineEnd THEN "complete" ELSE "OK"]

NextWord(r) ==
  IF r.err # "OK" THEN r ELSE WordUpTo(r, Unread(r), SplitAt(Unread(r)))

Words(r) ==
  LET turns == Len(Unread(r)) + 1
      turn[k \in 0..turns] == IF k = 0 THEN r ELSE NextWord(turn[k - 1]) IN
  turn[turns]

InlineRequest(r) == [Words(r) EXCEPT !.err = IF @ = "complete" THEN "OK" ELSE @]

\* What was read is dropped from the front of the input.
Consumed(r) == [r EXCEPT !.input = Offset(@, r.at, 0), !.at = 0]

\* CmdParser::ParseRequest
RequestType(first) == IF first[1] = "*" THEN "multibulk" ELSE "inline"

Typed(r, type) == [r EXCEPT !.parser.type = IF @ = "none" THEN type ELSE @]

RequestParsed(r) ==
  Consumed(IF r.parser.type = "multibulk" THEN MultibulkRequest(r) ELSE InlineRequest(r))

ParseRequest(r) ==
  IF Unread(r) = <<>> THEN [r EXCEPT !.err = "TryAgain"]
  ELSE RequestParsed(Typed(r, RequestType(Unread(r)[1])))

\* Cmd::FormatRESP2 of the arguments args, as bytes.
FormatRESP2(args) ==
  <<<<"*", Len(args)>>, Lf>>
    \o FlattenSeq([i \in 1..Len(args) |->
                     <<<<"$", Len(args[i])>>, Lf>> \o args[i] \o <<Cr, Lf>>])

--------------------------------------------------------------------------------
(* Replies *)

\* readInt32 with pbuf: the line goes to resp too.
Received(r, added, n) == [r EXCEPT !.heap = added.heap, !.resp = added.buf, !.at = @ + n]

Copied(r, line) ==
  IF line.err # "OK" THEN [r EXCEPT !.err = line.err]
  ELSE Received(r, AppendBytes(r.heap, r.resp, SubSeq(Unread(r), 1, line.bytes)),
                line.bytes)

\* MultibulkParser::HandleResponse: the number of elements, 1 for a bulk string.
ElementCount(r, line) == [Copied(r, line) EXCEPT !.parser.mlen = line.value]

ReplyLength(r) ==
  IF r.parser.mlen # 0 THEN r
  ELSE IF Unread(r)[1][1] # "*" THEN [r EXCEPT !.parser.mlen = 1]
  ELSE ElementCount(r, LengthLine(Unread(r)))

WithElementLength(r, line) == [Copied(r, line) EXCEPT !.parser.blen = line.value]

ElementLength(r) ==
  IF r.parser.blen # 0 THEN r ELSE WithElementLength(r, LengthLine(Unread(r)))

\* BufferReader::Read of n bytes into resp, and the next element.
NextIndex(r) == [r EXCEPT !.parser.blen = 0, !.parser.mindex = @ + 1]

ElementBytes(r, n) ==
  IF Len(Unread(r)) < n THEN [r EXCEPT !.err = "TryAgain"]
  ELSE NextIndex(Received(r, AppendBuffer(r.heap, r.resp, Offset(r.input, r.at, 0), n), n))

\* Fault: the end of an element's line is not skipped.
ElementWithoutEnd(r) ==
  IF r.err # "OK" THEN r
  ELSE IF r.parser.blen <= 0 THEN NextIndex(r)
  ELSE ElementBytes(r, r.parser.blen)

\* An element of length 0 or -1 has no bytes of its own.
Element(r) ==
  IF r.err # "OK" THEN r
  ELSE IF r.parser.blen <= 0 THEN NextIndex(r)
  ELSE ElementBytes(r, r.parser.blen + 2)

NextElement(r) == IF r.err # "OK" THEN r ELSE Element(ElementLength(r))

Elements(r) ==
  LET turn[k \in 0..Left(r)] == IF k = 0 THEN r ELSE NextElement(turn[k - 1]) IN
  turn[Left(r)]

MultibulkReply(r) == Elements(ReplyLength(r))

\* InlineParser::HandleResponse: one line, which ends at end.
LineReply(r, end) ==
  IF end = 0 THEN [r EXCEPT !.err = "TryAgain"]
  ELSE Received(r, AppendBuffer(r.heap, r.resp, Offset(r.input, r.at, 0), end), end)

InlineReply(r) == LineReply(r, Find(Unread(r), Lf))

\* CmdParser::ParseResponse
ReplyType(first) ==
  IF first[1] \in {"*", "$"} THEN "multibulk"
  ELSE IF first[1] \in {"+", "-", ":"} THEN "inline" ELSE "unknown"

ReplyParsed(r) ==
  Consumed(IF r.parser.type = "multibulk" THEN MultibulkReply(r) ELSE InlineReply(r))

ParseResponse(r) ==
  IF Unread(r) = <<>> THEN [r EXCEPT !.err = "TryAgain"]
  ELSE IF r.parser.type = "none" /\ ReplyType(Unread(r)[1]) = "unknown"
  THEN [r EXCEPT !.err = "Unknown"]
  ELSE ReplyParsed(Typed(r, ReplyType(Unread(r)[1])))
================================================================================
