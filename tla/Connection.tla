------------------------------- MODULE Connection -------------------------------
(***************************************************************************)
(* Connection, ConnectionPool and io::Event (connections.cpp, epoll.cpp,   *)
(* netio.cpp): what one call does to the connection objects and to the     *)
(* list of events with output.  No state is declared here: a network n is  *)
(* a record of                                                             *)
(*   n.mem     what lies at each address a Connection can be allocated at, *)
(*   n.writers Event::writeEvents, the list HandleWriteEvents walks.       *)
(* The operators return the network after the call; EventLoop.tla runs     *)
(* them under the poll loop.                                               *)
(*                                                                         *)
(* Pointers are addresses, so that what a pointer to a deleted Connection  *)
(* meets, freed memory or the object allocated there since, is part of the *)
(* model.  A list node is own while it is the one its object's             *)
(* writeListPos names.                                                     *)
(***************************************************************************)
EXTENDS Naturals, Sequences

CONSTANTS Addrs,    \* where a Connection can be allocated
          Peers,    \* the remote ends a socket can be connected to
          Upstreams, \* those whose Connection has Upstream::OnServerClosed as handler
          NoPeer,   \* no socket
          Items     \* what is sent: requests, replies, error texts

Bits == {"IN", "OUT"}    \* EPOLLIN, EPOLLOUT

Object == [state : {"unused", "live", "freed"},
           connected : BOOLEAN,     \* connected_
           events : SUBSET Bits,    \* Event::events
           watch : SUBSET Bits,     \* what epoll watches the fd for; {}: not registered
           send : Seq(Items),       \* sendBuffer_
           closing : BOOLEAN,       \* flag_ & NET_FLAG_CLOSE
           peer : Peers \union {NoPeer},
           gone : BOOLEAN]          \* the remote end closed or reset the socket

Node == [to : Addrs, own : BOOLEAN]

Network == [mem : [Addrs -> Object], writers : Seq(Node)]

Live(n, a) == n.mem[a].state = "live"

Unused == [state |-> "unused", connected |-> FALSE, events |-> {}, watch |-> {},
           send |-> <<>>, closing |-> FALSE, peer |-> NoPeer, gone |-> FALSE]

EmptyNetwork == [mem |-> [a \in Addrs |-> Unused], writers |-> <<>>]

Update(n, a, object) == [n EXCEPT !.mem[a] = object]

--------------------------------------------------------------------------------
(* io::Event *)

\* epoll_ctl: ADD of a registered descriptor and MOD of an unregistered one fail.
EpollCtl(op, watch, want) ==
  CASE op = "ADD" -> IF watch = {} THEN want ELSE watch
    [] op = "MOD" -> IF watch = {} THEN {} ELSE want
    [] op = "DEL" -> {}

\* Event::operateNotify for EPOLLIN.  The operation is chosen from the events as
\* they were, DEL if none is left, and events keeps the new value when epoll_ctl
\* fails.
OperateNotify(object, flag) ==
  LET want == IF flag THEN object.events \union {"IN"} ELSE object.events \ {"IN"}
      op == IF want = {} THEN "DEL" ELSE IF object.events = {} THEN "ADD" ELSE "MOD" IN
  IF want = object.events THEN object
  ELSE [object EXCEPT !.events = want, !.watch = EpollCtl(op, object.watch, want)]

SetReadable(n, a, flag) == Update(n, a, OperateNotify(n.mem[a], flag))

OwnNode(a) == [to |-> a, own |-> TRUE]

\* Where the object at a is listed: its writeListPos.
ListPos(n, a) == CHOOSE i \in 1..Len(n.writers) : n.writers[i] = OwnNode(a)

Erase(writers, i) == SubSeq(writers, 1, i - 1) \o SubSeq(writers, i + 1, Len(writers))

\* The nodes of a once there is no object at a to own them.
Disown(writers, a) ==
  [i \in 1..Len(writers) |->
     IF writers[i].to = a THEN [to |-> a, own |-> FALSE] ELSE writers[i]]

\* Fault: SetWritable( true ) does not look at the bit first.
SetWritableTwice(n, a, flag) ==
  IF flag
  THEN [mem |-> [n.mem EXCEPT ![a].events = @ \union {"OUT"}],
        writers |-> Append(n.writers, OwnNode(a))]
  ELSE IF "OUT" \in n.mem[a].events
       THEN [mem |-> [n.mem EXCEPT ![a].events = @ \ {"OUT"}],
             writers |-> Erase(n.writers, ListPos(n, a))]
       ELSE n

\* Event::SetWritable: the EPOLLOUT bit of events stands for the list, epoll is
\* not told.
SetWritable(n, a, flag) ==
  IF flag = ("OUT" \in n.mem[a].events) THEN n
  ELSE IF flag
       THEN [mem |-> [n.mem EXCEPT ![a].events = @ \union {"OUT"}],
             writers |-> Append(n.writers, OwnNode(a))]
       ELSE [mem |-> [n.mem EXCEPT ![a].events = @ \ {"OUT"}],
             writers |-> Erase(n.writers, ListPos(n, a))]

--------------------------------------------------------------------------------
(* Connection *)

\* Fault: WriteToBuffer leaves it to a later call to list a connected event.
WriteToBufferUnlisted(n, a, items) ==
  LET m == IF n.mem[a].connected THEN n ELSE SetWritable(n, a, TRUE) IN
  IF Live(n, a) THEN [m EXCEPT !.mem[a].send = @ \o items]
  ELSE [m EXCEPT !.writers = Disown(@, a)]

\* Connection::WriteToBuffer of items, one or more.  Through a pointer to a deleted
\* Connection it lists the freed memory once, and the bytes are lost.
WriteToBuffer(n, a, items) ==
  LET m == SetWritable(n, a, TRUE) IN
  IF Live(n, a) THEN [m EXCEPT !.mem[a].send = @ \o items]
  ELSE [m EXCEPT !.writers = Disown(@, a)]

\* WriteToBuffer with NET_FLAG_CLOSE.
WriteAndClose(n, a, items) ==
  [WriteToBuffer(n, a, items) EXCEPT !.mem[a].closing = TRUE]

\* A connected Connection that asked for EPOLLIN.
Connected(peer, watch) ==
  [state |-> "live", connected |-> TRUE, events |-> {"IN"}, watch |-> watch,
   send |-> <<>>, closing |-> FALSE, peer |-> peer, gone |-> FALSE]

\* It is registered: newClientConnection asks for EPOLLIN while fd is still -1 and Attach
\* adds it; Upstream::Init asks after Connect.
NewObject(peer) == Connected(peer, {"IN"})

\* Attach failed: events has the bit, epoll does not know the fd.
Unattached(peer) == Connected(peer, {})

\* What stays in the memory of a deleted Connection.
Remains(object, connected) ==
  [state |-> "freed", connected |-> connected, closing |-> object.closing,
   events |-> IF object.watch = {} THEN object.events ELSE {},
   watch |-> {}, send |-> <<>>, peer |-> NoPeer, gone |-> FALSE]

\* Event::Close: RemoveNotify resets events if epoll knew the fd, OnClosed calls the
\* closed handler, RemoveConnection deletes the object.  Nothing takes it off
\* writeEvents.  OnServerClosed has set connected_ again in Reconnect by then; its
\* new socket is not registered, Attach doing nothing while events is 0.
Close(n, a) ==
  [mem |-> [n.mem EXCEPT ![a] = Remains(@, @.peer \in Upstreams)],
   writers |-> Disown(n.writers, a)]

\* Fault: a write that was not complete counts as sent out.
OnWritablePartialIsAll(n, a, k) ==
  LET sent == [n EXCEPT !.mem[a].send = SubSeq(@, k + 1, Len(@))] IN
  IF n.mem[a].send = <<>> THEN SetWritable(n, a, FALSE)
  ELSE IF n.mem[a].closing THEN Close(sent, a)
  ELSE SetWritable(sent, a, FALSE)

\* Fault: NET_FLAG_CLOSE is forgotten.
OnWritableStaysOpen(n, a, k) ==
  LET sent == [n EXCEPT !.mem[a].send = SubSeq(@, k + 1, Len(@))] IN
  IF k = Len(n.mem[a].send) THEN SetWritable(sent, a, FALSE) ELSE sent

\* Connection::OnWritable when the socket takes the first k items and no error.
\* NET_FLAG_CLOSE closes even if something is left.
OnWritable(n, a, k) ==
  LET sent == [n EXCEPT !.mem[a].send = SubSeq(@, k + 1, Len(@))] IN
  IF n.mem[a].send = <<>> THEN SetWritable(n, a, FALSE)
  ELSE IF n.mem[a].closing THEN Close(sent, a)
  ELSE IF k = Len(n.mem[a].send) THEN SetWritable(sent, a, FALSE)
  ELSE sent

\* OnWritable when write() fails: Event::Write takes the event off the list and
\* OnWritable returns at once, the buffer as it was.
OnWriteError(n, a) == SetWritable(n, a, FALSE)

--------------------------------------------------------------------------------
(* Properties of a network *)

\* How many nodes of a an object at a owns.
OwnNodes(n, a) == {i \in 1..Len(n.writers) : n.writers[i] = OwnNode(a)}

ListMatchesBit(n, a) ==
  IF Live(n, a) /\ "OUT" \in n.mem[a].events
  THEN \E i \in 1..Len(n.writers) : OwnNodes(n, a) = {i}
  ELSE OwnNodes(n, a) = {}

OutputScheduled(n, a) ==
  Live(n, a) /\ n.mem[a].send # <<>> /\ ~n.mem[a].gone => "OUT" \in n.mem[a].events
================================================================================
