# A verification project for redisproxy

redisproxy is a single-threaded proxy in C++ that accepts Redis clients and
multiplexes their commands over one connection to a Redis server ("singular"
mode; cluster mode returns `NotImplemented`). This directory holds TLA+ modules
translated from `src/src/`, the TLC configurations that check them, and proofs
checked by TLAPS. File names below are relative to `src/src/`.

## The system

### Components, state, operations

| component | state it keeps | operations |
|---|---|---|
| `Recycle<T>` (recycle.h) | `holder_`, `start_`, `end_` | `Push`, `Pop`, `EraseUntil`, iterator |
| `Upstream`, `UpstreamPool` (upstream.cpp) | `cmdQueue_`, `auth_`, `serverConn_`, `parser_`, `respBuffer_` | `Init`, `PushRequest`, `OnServerRead`, `OnServerClosed`, `onAuthCallback` |
| `Connection`, `ConnectionPool` (connections.cpp) | `connected_`, `flag_`, `sendBuffer_`, handlers, lifetime | `WriteToBuffer`, `OnWritable`, `OnReadable`, `OnClosed`, `Reconnect` |
| `io::Event`, epoll loop (epoll.cpp, netio.cpp, io.h) | `events`, `writeListPos`, the static list `writeEvents`, epoll's interest set | `PollOnce`, `HandleWriteEvents`, `SetWritable`, `SetReadable`, `Attach`, `Write`, `Read`, `Close`, `Accept`, `Connect` |
| `Session`, `SessionPool` (session.cpp) | `currentCmd_`, `parser_`, `clientConn_`, `id_` | `OnNewClientConnection`, `OnClientRead`, `OnServerWrite` |
| parsers and `Cmd` (cmd.cpp) | `multibulkLen_`, `multibulkIndex_`, `bulkLen_`, `parseType_`, `argv_` | `ParseRequest`, `ParseResponse`, `FormatRESP2`, `Reset` |
| `Buffer`, `BufferReader`, mem_alloc | shared memory blocks with reference counts, offset, size | `Append`, `AppendCapacity`, `Offset`, `Read`, `ReadUntil` |
| `Server` (server.cpp) | pools, listening event | `Init`, `newClientConnection`, `RunOnce` |
| options, logger, metric, error, utils, main | configuration, output | - |

### How they interact

Everything runs on one thread. `Server::Run` calls `PollOnce` for ever. Each
turn first walks `writeEvents` (`HandleWriteEvents` -> `Connection::OnWritable`),
then asks epoll what is readable. A readable client connection calls
`Session::OnClientRead`, which parses commands and calls
`UpstreamPool::PushRequest` for each: the session is queued in `cmdQueue_` and
the command appended to the server connection's send buffer. A readable server
connection calls `Upstream::OnServerRead`, which pops one reader per parsed
reply and calls its `OnServerWrite`; that appends the reply to the client
connection's send buffer and makes the client readable again. `TryAgain` from
`PushRequest` (not authenticated, queue full) makes a session stop reading.
A connection that breaks is deleted by its pool from within `Event::Close`.

### What is hard

* **Ordering.** A reply carries no request number. It reaches its asker only if
  `cmdQueue_`, the bytes sent, the commands executed and the replies read stay in
  step through partial writes, partial reads, refusals and a broken link.
* **Object lifetime.** `Close` deletes the Connection while the write list, a
  session or the upstream may still point at it; an allocation at the same
  address may follow.
* **Two meanings of `events`.** The EPOLLOUT bit means "on `writeEvents`", the
  EPOLLIN bit "registered with epoll", and the operation passed to `epoll_ctl` is
  derived from both.
* **Cutting.** Reads end anywhere in a command; requests are refused anywhere in
  a run of pipelined commands; both leave their state in `currentCmd_`.
* **Shared memory.** The arguments of a command and the pieces of a reply look into
  the block the input is read into; that block is compacted, replaced or freed
  while they do.
* **Liveness.** A refused client is woken only by a reply of its own; a server
  connection that stopped reading, by nothing.

### What makes each component correct

* Recycle: it is a bounded FIFO queue; a pop never yields a slot never filled.
* Upstream: one queue entry per unanswered request, in order; AUTH first; no
  reply without a reader; replies keep being handed out.
* Connection and loop: a connection is on the write list exactly while its bit
  says so; output that waits is scheduled, and drains; NET_FLAG_CLOSE closes.
* Session: the requests pushed are the client's stream, nothing lost, repeated or
  reordered.
* Parsers: arguments and replies are the bytes that were sent, none dropped,
  repeated or overtaken, however the bytes were cut into reads.
* Buffer: a block has exactly the references that look into it; what one Buffer
  does never changes what another shows.

The hazards, each at its line and with the properties aimed at it, are listed in
`PROJECT.json`.

## Modules

| module | models | how |
|---|---|---|
| `BoundedFifo` | what users of `Recycle<T>` rely on | abstract queue `q`, the error and element last returned |
| `Recycle` | recycle.h | `holder`, `start`, `end` as in the code; `Contents` is the refinement mapping |
| `RecycleProofs` | | theorems about `Recycle` |
| `Upstream` | upstream.cpp in singular mode, with Redis at the other end | `cmdQueue` as the abstract queue that `Recycle` implements; one action per handler |
| `UpstreamProofs` | | theorems about `Upstream` |
| `Connection` | connections.cpp, the Event half of epoll.cpp and netio.cpp | no variables: operators from a network (memory and write list) to the network after one call |
| `EventLoop` | `PollOnce`, `HandleWriteEvents`, Accept, the peers | runs `Connection`'s operators; one step per node of the write list |
| `Session` | session.cpp with `ParseRequest` | no variables: what one read makes of the stream |
| `ClientStream` | one session over a stream cut and refused anywhere | runs `Session`'s operators |
| `Buffer` | buffer.cpp, buffer.h, mem_alloc.cpp | no variables: operators from a heap of reference-counted blocks and a Buffer to both after one call |
| `Parser` | cmd.cpp, buffer_reader.cpp | no variables: operators from the state of a parse (heap, input, position, parser fields, what was built) to the next |
| `ClientBytes` | one session byte by byte: `Event::Read`, `OnClientRead`, the parsers, the growth of the buffer | runs `Parser`'s and `Buffer`'s operators; refines `ClientStream` for plain commands |
| `ServerBytes` | the replies byte by byte: `Event::Read`, `OnServerRead`, `respBuffer_`, the client's send buffer and socket | runs `Parser`'s and `Buffer`'s operators |
| `Proxy` | sessions, upstream and network composed (session.cpp, upstream.cpp, connections.cpp) | runs the operators of `Connection` and `Session`; refines `Upstream` |
| `OperatorProofs` | | lemmas: what each operator of `Connection`, `Session`, `Buffer` and `Parser` keeps |
| `EventLoopProofs`, `ClientStreamProofs`, `ClientBytesProofs`, `ServerBytesProofs`, `ProxyProofs` | | theorems about the modules they are named for |
| `MC*` | | instances for TLC |

### Recycle

Each call of the ring is an action and `ret` is what it returned. `EraseUntil`
takes an iterator that was put on `start_` and advanced at most to `Eof`, as the
code's loops do. `Fifo!Spec` is checked as a property: `Push` on a full ring
answers `Full` and changes nothing, `Pop` returns the oldest element.

### Upstream

`PushRequests(r, run)` is the series of `PushRequest` calls of one
`OnClientRead`: requests are queued and appended until one does not fit.
`WriteOut(k)` is the loop's write of the first k of them. `ServerReply` is Redis
(external): one reply per command, in order, none for a command without
arguments. `OnServerRead(j)` parses the j replies one read made available, and
stops at one it cannot get past (an empty bulk string leaves `"\r\n"` in the
input, for which `ParseResponse` answers `Unknown` from then on: `jammed`).
`OnServerClosed` is the whole chain `Close` -> `OnClosed` -> `OnServerClosed` ->
`Reconnect` -> `RemoveConnection`: the object that was just reconnected is
deleted, and `link = "freed"` from then on. Using it may crash or may not, which
is a choice in `PushRequests`.

Readers are sessions; the identity check always succeeds because sessions are
never deleted (`RemoveSession` has no caller).

### Connection and EventLoop

A pointer is an address in `Addrs`. What lies there is an `Object` that is
unused, live or freed; freed memory keeps the fields the code would read, and a
later `Accept` may allocate at the same address. `writers` is `writeEvents`; a
node knows its address and whether the object there now owns it. `events` and
`watch` are kept apart: the first is the code's field, the second what epoll was
told, and `OperateNotify` reproduces the choice of ADD, MOD or DEL and the ways
it fails. `HandleWriteEvents` runs one node per step, with `cursor` as its
iterator; stepping to a node that was erased meanwhile, or calling through freed
memory, sets `crashed`. `AcceptFails` is an accept whose socket option or `Attach`
fails, after the session was made. `OnReply`, `OnRequest`, `OnDeferred` and `OnBadRequest`
are what the read handlers do to the network.

### Session and ClientStream

The stream is counted in arguments, `CmdLen` to a command, and a piece is the
pair of positions it lies between. `AfterRead` keeps the three things that survive
a read: the arguments in `currentCmd_`, the parser's position, and whether the
parser finished a command without being `Reset` (it then yields a command with
no arguments first). All commands are multibulk. A full receive buffer has two
forms: there is something left to parse, which `OnClientRead` does with `full`, or
there is not and only `currentCmd_` is pushed (`OnBufferFull`). Either way reading
stops until a reply is written.

### Buffer and Parser

A heap maps each block to its reference count and its bytes; a Buffer is a block
(or `Null`), a size and an offset, as in the code. `AppendCapacity` has the code's
four outcomes (enough room, a first block, moved within the block, moved to a new
one) and says whether `memcpy` was called with overlapping ranges, which is
undefined: users of it choose whether the bytes survive, and stop where they do
not. The assertion at buffer.cpp:138 is not part of the model (`-DNDEBUG` in the
Makefile); it does not hold after a reallocation with an offset, although the
room asked for is there.

A byte is a pair. The part of a length line before its line feed (`*3\r`) is one
byte, so that a line can be cut off before its `\n` only; arguments are made of
bytes that are all different, so that a byte in the wrong place shows. A parse is a
record that the operators of `Parser` transform turn by turn, as the loops of
`HandleRequest` and `HandleResponse` do, with the fields that outlive a read in
`parser`. `readInt32` on a line without a digit is `unpredictable`, as `atoi` then
reads behind the line; executions end there.

### ClientBytes and ServerBytes

`OnReadable` is `Connection::OnReadable` up to its return: `Event::Read` of any
number of bytes that fit (none, and reading stops, if nothing does), the handler's
loop, and the growth of the buffer unless the handler returned before. In
`ClientBytes` the upstream takes `room` requests of a read; in `ServerBytes` each
reply is copied to the send buffer, from which `OnClientWritable` takes as much as the
socket does. `disturbed` in `ClientBytes` names what has happened that commands may
not survive: a read that ended behind an argument of an unfinished command ("cut"),
a refusal, inline commands that arrived together ("joined"), double spaces.
`ArgumentsIntact`, `BytesInOrder` and `WholeCommands` say what holds all the same,
from the most to the least disturbed.

Memory is bounded: a model has `Blocks` blocks. `OnReadable` of `ClientBytes`
happens only while one of them is free (`BlockLeft`), as the growth of the buffer
may need one; `ServerBytes`, whose Buffers are three, assumes that there are more
blocks than the three can look into.

`ServerBytes` has one client: who is answered is `Upstream`'s subject, and the
parser does not know. `ClientBytes` maps to `ClientStream` by counting the
arguments that were pushed, are held and have arrived.

### Proxy

A client socket is a peer, and stands for its session too. `clientConn[c]` is the
address in the session's `clientConn_`, which nothing ever clears: `OnServerRead`
writes a reply to whatever lies there, skipping it only when that object is not
connected. The server connection is the object at `ServerAddr`; after its link
broke the address holds freed memory with `connected_` set, or a client that was
allocated there, and `OnClientRead` writes requests to it all the same.
`OnClientRead` composes `Session`'s `Pushed` and `AfterRead` with the room the
upstream has, the writes to the network and the registration with epoll. The
walk of the write list is one connection at a time in any order, because
`EventLoop` has the walk. `Pipeline` instantiates `Upstream` with the server
connection's buffer for `sendBuffer` and "is the object at `ServerAddr` still the
one connected to Redis" for `link`; `PipelineSpec` is its specification, checked
as a property.

## Runs

| run | shows | bounds |
|---|---|---|
| `recycle` | the ring implements the FIFO queue | 4 slots, 3 elements: all fill levels at all cursor positions |
| `upstream` | type, accounting, pairing, no orphan reply, AUTH first; replies keep coming | 2 sessions, 3 queue entries, runs of 1 or 2 commands of which one may be empty, so that a run is refused in its middle |
| `event_loop` | list and bits agree, output is scheduled, the walk dangles and calls freed memory only by way of a stale node or the deleted server connection; output drains, NET_FLAG_CLOSE closes | 2 addresses taken by 2 clients in turn, 2 unsent items, no symmetry: partial writes, address reuse with a stale node listed, a client at the server's old address, an accept that fails |
| `client_stream` | the stream stays intact under cuts and refusals | 4 commands of 2 arguments, 0 to 5 requests accepted per read |
| `client_bytes` | blocks are accounted for, arguments keep their bytes, whole commands are forwarded as they came; for plain commands, `ClientStream` | 5 streams of 2 or 3 commands (plain, longer than the buffer, with empty arguments or none, inline before multibulk, double spaces), a buffer of the size of one command that grows by 4 bytes: every way of cutting them into reads, compaction with and without overlap, reallocation under held arguments, a full buffer |
| `server_bytes` | blocks are accounted for, no byte read is lost, replies reach the socket whole, the parser meets an unknown type only behind an empty bulk string, and when the buffer fills | 5 streams (status, bulk, nil, arrays, empty array, empty elements), a buffer of 8 bytes that grows by 3: every cut, every partial write |
| `proxy` | each client is sent the replies to its own requests in order; the composition implements `Upstream` | a queue of 2 entries, 3 addresses. One client alone sends up to 5 one-argument commands, in reads that may end inside one: a refused command is taken up again. Once the other has come, both are followed up to 2 commands each and while no connection waits to be closed (`OneLongOrTwoShort`, a state constraint: TLC checks the states at its edge and goes no further): reuse of either client's address and of the server's |
| `upstream_connected` | violation: requests are accepted after the link broke, against upstream.cpp:120 | as `upstream` |
| `server_full` | violation: a read finds the server connection's buffer full, and it is never read again, against connections.cpp:181 | as `server_bytes` |
| `server_unknown` | violation: after a reply of a type the parser does not know the same link is read on, against upstream.cpp:204-205 ("reconnect to server") | as `server_bytes` |
| `proxy_valid` | violation: a reply for a client that left reaches the client allocated at the same address, against upstream.cpp:216 | as `proxy` |
| `proxy_postponed` | violation: a client told TryAgain is never read again although its requests would be accepted, against upstream.cpp:120, 124 | 1 client of up to 5 commands, with fairness |

The counters in these models are bounded by the state itself: a queue entry is
needed to send a request, `MaxUnsent` bounds a send buffer, `Total` a client's
stream, `Streams` what the byte-level models read, and a peer is accepted once. Every property of a passing run has a
mutant: a definition, marked "Fault" in its module, that changes the code in one
plausible way and breaks that property.

Deadlock checking is off except for `recycle`: the models of the proxy do stop,
when the process crashed, when every client has gone or said all it had to say.

### Fairness

`Server::Run` never returns, so every walk of the write list that can proceed
does (weak fairness of `WriteOut`, `StartWrites`, `EndWrites`, the visits). A
socket may take nothing for a while, but not for ever if its remote end reads:
`Progress` is strongly fair because between two attempts the node is not being
visited. `Proxy`'s `FairSpec` says the same of its `WriteOut`, reads replies
and notices broken links. Redis executes what it received. Nothing makes a client send, a link
break, or a remote end close.

## Proofs

`RecycleProofs` (for every `Data` and every `Size >= 1`):

* `TypeCorrect`, `HeldAreFilled`: the inductive invariant is both together,
  because `Pop` returns an element of `Data` only if the slots between the
  cursors were filled.
* `RingIsFifo`: `Spec => FifoSpec`. `Push`, `Pop` and `EraseUntil` map to
  `Push`, `Pop` and `Drop` of the queue; the lemmas compute `Count` and `SlotOf`
  after a cursor moves, with and without wrapping around.

`UpstreamProofs` (for every set of sessions and commands, every queue size of at
least 2): `TypeCorrect`, `QueueAccounted`, `RepliesPaired`, `NoReplyIsOrphan` and
`AuthFirst`. The inductive invariant `IInv` is the conjunction of the five
invariants and `AuthLeftQueue`. Accounting alone shows that a reply finds a
reader; pairing needs it to know which request a queue entry stands for; and
`AuthLeftQueue` (once `auth_` is set, AUTH is no longer queued) is what keeps a
later read from clearing `auth_` again.

`EventLoopProofs` (for every set of addresses, peers and items): `TypeCorrect`,
`WalkIsSafe`, `ListAndBitsAgree` and `OutputIsScheduled`. The inductive invariant says
that the network is `Coherent` (typed, every object's place on the write list as its bit
says, its waiting output scheduled), that the cursor is on the list or behind it, and
that the execution has crashed only where `WalkSurvives` admits it. `OperatorProofs` has one
lemma per operator of `Connection`, each by way of `OneCall`: a call that is right at its
own object and keeps every other object's nodes is right everywhere. Below that are
lemmas on what appending, erasing and disowning a node does to the positions each object
owns. `AtMostOwnErased` is what the walk needs from a callback: the list is as long as
before, or lost the visited object's own node and no other (`OwnErased`).

`TypeCorrect` is about types only. The iterator of `HandleWriteEvents` can dangle: where a
node left behind by a deleted Connection leads to one allocated at the same address, the
visit may erase that one's own node, which may be the next. The model stops there
(`crashed`). `WalkIsSafe` is what can be said of it: this, a node without an object, and a
write to the deleted server connection are the only ways in which the loop uses freed
memory (`DanglesByStaleNode`: an object owns one node, so the one that was visited was
not its own).

`ClientStreamProofs` (for every `CmdLen` and every length of the stream):
`TypeCorrect`, `StreamIsIntact`, `CommandsStayWhole` and `EmptyNeedsRefusal`. The
requests pushed are a `Chain` of pieces, each beginning where the one before it
ended, up to the session's `from`; `PiecesFacts` and `ReadFacts` show that the
pieces of one read extend the chain. Their arithmetic is a few lemmas about `\div`
by `CmdLen` (`EndFacts`, `LastEnd`). That commands stay whole needs, besides, that
an undisturbed session holds no argument between reads.

`ProxyProofs` (for every set of clients and addresses, every queue size and
length of commands): `TypeCorrect`, `ImplementsUpstream`, `PipelineHolds` and
`AnsweredInOrder`.

* The invariant of the network is the `Coherent` of `EventLoopProofs`'s lemmas,
  so the operators of `Connection` are not looked into again; with it go the types of
  sessions and queue.
* `ImplementsUpstream` has a lemma per action that says which action of `Upstream`
  it is, or that it stutters. What it rests on is that the buffer of the object at
  `ServerAddr` is touched by nothing but requests while the link is up.
* `PipelineHolds` instantiates `UpstreamProofs` under the same mapping: what was
  proved of the pipeline alone (accounting, pairing, no orphan reply, AUTH first)
  is true of it inside the proxy, without a new proof.
* `AnsweredInOrder` follows, for each client, one line through the system: the
  replies it was sent, those waiting in its connection, those between the proxy and
  Redis, the commands in flight, and the session's `from`. Each part is a sequence
  of marks, a piece of the client's stream or nothing, and the marks of all parts
  together are one unbroken chain. `Line` is that chain, `LineSplit` and `Joined`
  cut and join it, and each action moves a mark from one part to the next. Every
  live object is connected besides (`LiveConnected`); where an address was used again
  or the pipeline is not paired the chain may break, hence the hypotheses of
  `AnswersInOrder`.

`ClientBytesProofs` and `ServerBytesProofs` (for every set of streams, every size
of the buffer and every set of blocks that leaves one to allocate):
`BlocksAreAccounted` and `TypeCorrect` of both, and of `ServerBytes` besides
`NoByteIsLost`, `EveryReplyIntact`, `UnknownNeedsEmptyBulk` and `FullAtLineStart`. A Buffer at
hand is looked at with `w`, how many others look into each block: `Shared` says that every count is
right and the Buffer in bounds. Each operation of buffer.cpp has a lemma from
`Shared` to `Shared`. `RoomMade` is what `AppendCapacity` promises in all four of its
outcomes: room, the same bytes shown, and no byte changed in a block that another
looks into. `Sound` puts the arguments of a command for the others, `Trio` the two
remaining Buffers of three. The parsers' lemmas (`Sane`, `Good`) carry this through
every operator of `Parser` and through the loops. In `ServerBytes` it takes two
facts of the parse: an element's length is only ever read into `respBuffer_`, so
that a Buffer without a block does not share the input's for an element (`Apart`);
and a line reply, which does share it, is handed out and cleared in the turn that
read it. Without the second, `Append` would take the branch of buffer.cpp that only
enlarges `size`, over bytes that are not the reply's. `NoByteIsLost` needs that same
branch, and more: what the client was left to take, `respBuffer_` and the unread input
are, one behind the other, one sequence of bytes (`OnTheWay`), which every operator of the
parser leaves as it was: it moves the places where the three meet. No operation that
makes room for one of the three changes a byte of another, and the send buffer shares
its block with neither (`Alone`), so that writing to the socket takes its bytes away and
no others.

What the bytes are is a second invariant of `ServerBytes`, `Framing`, proved on top of
the first (`IInv`):

* The grammar first. `BegunFacts`, `BytesFacts` and `PlaceFacts` say where in the stream
  each reply and each element lies; `ElementAt`, `RestAt` and `HeadAt` which line is
  there. `Done(s, h)` is where the parser stands behind `h` replies: at the end of the
  last, or two bytes in front of it where that ends with an empty element, whose end of
  line the code does not skip.
* `ReplyView`: since no byte is lost, what the parser has before it is the stream from `ReplyPos`
  on. So a line it finds is a line of the stream (`LineHere`), and one it does not find
  has not arrived.
* `Standing` is what the parser knows at `ReplyPos` when a read ends: nothing (`Fresh`), that
  it is in front of an element's length line or that it awaits so many of its bytes
  (`Inside`). Each operator of `Parser` has a lemma, from `ElementLengthRead` to
  `ParseResponseRead`, that takes one such place to the next, or says why it could not
  (`Stuck`): the reply is not complete, or something is left of an empty element.
* `RepliesRead` carries it through the loop of `OnServerRead`, which ends at an error or
  with nothing left to read: each turn that succeeds moves `ReplyPos`, and there are more turns
  than bytes.

The theorems then compare two places: if no element is empty, `Stuck` means that the next
reply has not arrived, hence those handed out are those that have (`AllHandedOut`); and
`FreeSize` is 0 behind a read only if `OnServerRead` returned an error before it made
room, which a complete line never causes except at a place of `LineStarts`.

The same for requests are two more invariants of `ClientBytes`, each on top of the one
before it. `ClientBytesProofs` concludes `BytesAreInOrder` from the first and
`ArgumentsAreIntact` and `CommandsAreWhole` from the second.

* `PlaceFacts`, `MultiArgAt` and `InlineArgAt` say where in the stream each command, length
  line and argument lies; `BytesSay` reads this backwards: what a byte says about its
  place. `View`: the input shows the stream from `Pos` to `taken`, and no argument that is
  held reaches behind it.
* `Step(B, d, t, r, q, k, new)` (`OperatorProofs`) is what every operator of `Parser` does: it reads k
  bytes and shows the arguments `new`. `Skips` (a line), `TakesArgument` (an
  argument less its end of line) and `Consumes` (what was read goes from the front of
  the input) are its three forms. `DroppedBytes` is `Cmd::Reset` under them; `ReadSees`
  and `GrownSees` keep `View` when the socket is read and the growth of the buffer moves
  the input.
* `StandInv` covers every stream with single spaces, or multibulk commands only, however
  it is cut, refused or joined. Taking requests in the wrong format, the parser reads
  any line of any command as words; so the invariant does not say which command the
  parser is in. It is behind a space, a line's end or nothing (`Edge`) when it waits for a
  request or a word, and behind an argument or its length line (`AtArg`) when it is in a
  multibulk request. From there a word, whatever it was meant to be, ends where
  the client's own word or line ended, and the data shown is that of the first `Pos`
  bytes (`Total`).
* `ExactInv` is stronger where the format cannot be mistaken: the parser stands in command
  h + 1, behind i of its arguments, and what was shown is exactly those (`Exact`, `Told`).
  A refused command leaves its type to what follows it, and inline commands that
  arrive together share words, since a space is looked for before a line's end; so this
  is kept as long as `disturbed` names cuts only, or all commands are multibulk. The
  same lemmas about the loops (`ArgsDoneFacts`, `WordsDoneFacts`) serve both
  invariants: their parameter `w` says whether the data of what was shown is
  known, or all of it.
* Without any cut, i = 0 and the commands pushed are the first h; `ExactInv` also says that
  no more than those arrived (`taken` is in front of the end of command h + 1), which
  is what `CommandsAreWhole` needs: nothing that arrived waits. `TurnExact` and
  `CommandsExact` are the loop of `OnClientRead`, which stops with nothing left to read or
  for want of the rest of a command; `CutBehindArgument` shows that a read that leaves
  an argument behind is one that `disturbed` calls a cut.
* `ForwardedSame`: `FormatRESP2` of a multibulk command's arguments are the bytes that the
  client sent for it.

`ImplementsStream` is the refinement of `ClientStream` by `ClientBytes` (`StreamSpec`): for
plain commands, every read of bytes is the read of arguments that `ClientStream`
describes. `IsFiniteSet(Streams)` is assumed, since `ClientStream` has a
`Total` of arguments, here the most that any stream sends.

* The inductive invariant is `StreamInv`: `ExactInv`, and for plain commands a read that
  ended inside a command is named in `disturbed`.
* The place of the parser becomes a number of arguments: behind h commands and i
  arguments it has read h * `PlainLen` + i of them, and what has arrived is counted the same
  way (`Arrived`). Plain commands have no empty argument: one would arrive with its
  length line, before the parser can take it.
* `CommandsCome` follows the loop of `OnClientRead` turn by turn (`TurnComes`): what
  `ClientStream` has the read push (`P`) is what was pushed so far (`Logged`) and what
  `Remaining` cuts from the arguments still to come. The loop goes on (`Running`), ends because
  the upstream has no room (`NoRoom`), or ends with the input (`Through`), which is an
  `OutOfBound` exactly at a place of `LineStarts`.
* `ReadMatches` joins this with `OnClientRead` of `ClientStream` on the same arguments;
  `IdleMatches` is the read that finds the buffer full, its `OnBufferFull`. `ReadRefines` and
  `NextRefines` put the actions together.

Loops and FlattenSeq are recursive functions. The induction theorems of the library
take an operator, which the provers cannot instantiate; `OperatorProofs` proves
induction for sets instead (`SetInduction`, from the least element that
WellFoundedInduction gives), and from it that a function stepped from 0 to n is
the one the recursion defines (`Stepped`) and stays in a set that each step keeps
(`Invariance`).

The assumptions are the named `ASSUME`s of the modules; TLC evaluates them on
every run.

Only liveness is model-checked and not proved (`RepliesKeepComing`, `OutputDrains`,
`CloseFlagCloses`): fairness and `ENABLED` are beyond the prover. `RECURSIVE` is used
nowhere.

## Not modelled

* Failing allocations, `socket()`, `accept()` and configuration.
* In `Parser`: lengths that are negative in a request, what `atoi` finds behind a
  line without digits, arrays of integers and nested arrays in a reply. In
  `Proxy` and `Upstream`: replies other than a status, an error or a bulk string.
* That a server connection stops reading for good is found in `ServerBytes`; the
  models above it read whole replies and do not have it.
* Liveness at the level of bytes: its fairness conditions, evaluated over the
  parsers, are beyond what TLC does in reasonable time. The safety properties of
  `ServerBytes` say instead that no reply that arrived waits for a later read.
* Signals, logging, metrics, cluster mode (not implemented).
* `GetAddrInfo` returns an address that was already freed (netio.cpp:120): the
  models start after a successful `Connect`.

## Plan

1. (done) `Recycle`, `Upstream`, `Connection`, `EventLoop`, `Session`,
   `ClientStream`, and `Proxy`, which composes them; theorems about `Recycle`,
   `Upstream` and `EventLoop`.
2. (done) `Buffer`, `Parser`, `ClientBytes` and `ServerBytes`.
3. (done) Theorems about `ClientStream` and `Proxy`, with `UpstreamProofs` carried over
   to the composition; the reference counts of `ClientBytes` and `ServerBytes`.
4. (done) Proofs about the contents of replies.
5. (done) The same for requests (`BytesInOrder`, `ArgumentsIntact`, `WholeCommands`), and
   the refinement of `ClientStream` by `ClientBytes`.
6. The set-up of sockets (`Listen`, `Connect`) with the calls that may fail, and
   who owns each descriptor then.
