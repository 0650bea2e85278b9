------------------------------- MODULE EventLoop -------------------------------
(***************************************************************************)
(* The poll loop (epoll.cpp PollOnce, netio.cpp HandleWriteEvents) over a  *)
(* network of connections, under every sequence of calls the read handlers *)
(* of the program can make: Upstream::OnServerRead answers a client and    *)
(* makes it readable, Session::OnClientRead writes to the server           *)
(* connection, or stops reading its own, or answers an error and asks for  *)
(* the connection to be closed.  What is read and answered is left to      *)
(* Proxy.tla.                                                              *)
(*                                                                         *)
(* Everything runs on one thread, one callback after the other.  The       *)
(* kernel and the remote ends act between any two of them.                 *)
(***************************************************************************)
EXTENDS Connection

CONSTANTS ServerAddr,  \* Upstream::serverConn_
          Redis,       \* the peer it is connected to
          MaxUnsent    \* bound: how much may wait in one send buffer

ASSUME PeersAssumption == /\ Redis \in Peers /\ NoPeer \notin Peers
                          /\ Upstreams = {Redis}
ASSUME AddrsAssumption == ServerAddr \in Addrs
ASSUME MaxUnsentAssumption == MaxUnsent \in Nat

VARIABLES
  net,      \* the connections and Event::writeEvents
  cursor,   \* HandleWriteEvents is about to visit this node; 0: it is not running
  accepted, \* the client sockets accepted so far; a peer is one socket
  crashed   \* freed memory was used as an object

vars == <<net, cursor, accepted, crashed>>

TypeOK == /\ net \in Network
          /\ cursor \in 0..(Len(net.writers) + 1)
          /\ accepted \subseteq Peers \ {Redis}
          /\ crashed \in BOOLEAN

\* Server::Init has connected and registered the server connection.
Init == /\ net = Update(EmptyNetwork, ServerAddr, NewObject(Redis))
        /\ cursor = 0
        /\ accepted = {}
        /\ crashed = FALSE

--------------------------------------------------------------------------------
(* HandleWriteEvents *)

StartWrites == /\ ~crashed /\ cursor = 0
               /\ cursor' = 1
               /\ UNCHANGED <<net, accepted, crashed>>

Visiting == ~crashed /\ cursor \in 1..Len(net.writers)

EndWrites == /\ ~crashed /\ cursor > Len(net.writers)
             /\ cursor' = 0
             /\ UNCHANGED <<net, accepted, crashed>>

\* Fault: the loop steps on by index, as if nothing was erased.
AdvanceByIndex(after, a) ==
  /\ net' = after
  /\ cursor' = cursor + 1
  /\ UNCHANGED <<accepted, crashed>>

\* Fault: the iterator steps on behind the call, when the node it is on may be erased.
AdvanceAfterCall(after, a) ==
  LET erased == Len(after.writers) < Len(net.writers) IN
  /\ net' = after
  /\ crashed' = (erased /\ ListPos(net, a) = cursor)
  /\ cursor' = IF erased /\ ListPos(net, a) <= cursor THEN cursor ELSE cursor + 1
  /\ UNCHANGED accepted

\* OnWritable of the object at a has erased its own node, or not: the loop has
\* already moved to the next node, and its iterator dies if that node is erased.
AdvanceTo(after, a) ==
  /\ net' = after
  /\ IF Len(after.writers) = Len(net.writers)
     THEN cursor' = cursor + 1 /\ UNCHANGED crashed
     ELSE LET erased == ListPos(net, a) IN
          /\ crashed' = (erased = cursor + 1)
          /\ cursor' = IF erased <= cursor THEN cursor ELSE cursor + 1
  /\ UNCHANGED accepted

\* The socket at a takes k items.
VisitWritable(a, k) ==
  /\ Visiting
  /\ net.writers[cursor].to = a
  /\ Live(net, a)
  /\ AdvanceTo(OnWritable(net, a, k), a)

VisitWriteError(a) ==
  /\ Visiting
  /\ net.writers[cursor].to = a
  /\ Live(net, a) /\ net.mem[a].gone /\ net.mem[a].send # <<>>
  /\ AdvanceTo(OnWriteError(net, a), a)

\* A node of a deleted Connection: the virtual call goes through freed memory.
VisitFreed ==
  /\ Visiting
  /\ ~Live(net, net.writers[cursor].to)
  /\ crashed' = TRUE
  /\ UNCHANGED <<net, cursor, accepted>>

--------------------------------------------------------------------------------
(* What epoll_wait reports *)

Polling == ~crashed /\ cursor = 0

Readable(a) == Polling /\ Live(net, a) /\ "IN" \in net.mem[a].watch

IsClient(a) == net.mem[a].peer # Redis

\* Accept, newClientConnection.
Accept(p, a) ==
  /\ Polling
  /\ ~Live(net, a)
  /\ p \notin accepted
  /\ accepted' = accepted \union {p}
  /\ net' = Update(net, a, NewObject(p))
  /\ UNCHANGED <<cursor, crashed>>

\* A socket option cannot be set and the socket is closed, or epoll_ctl fails in Attach
\* and the Connection is, which its session does not learn.
AcceptFails(p, a) ==
  /\ Polling
  /\ ~Live(net, a)
  /\ p \notin accepted
  /\ accepted' = accepted \union {p}
  /\ net' \in {net, Close(Update(net, a, Unattached(p)), a)}
  /\ UNCHANGED <<cursor, crashed>>

\* OnServerRead, Session::OnServerWrite: a reply for the client at b, which the
\* session still points to.  A closed one is skipped.
OnReply(b, item) ==
  /\ Readable(ServerAddr) /\ ~IsClient(ServerAddr)
  /\ b # ServerAddr /\ Live(net, b) /\ Len(net.mem[b].send) < MaxUnsent
  /\ net' = SetReadable(WriteToBuffer(net, b, <<item>>), b, TRUE)
  /\ UNCHANGED <<cursor, accepted, crashed>>

\* OnClientRead: a request is written to the server connection, whatever there is
\* at that address by now; writing to freed memory may also crash.
OnRequest(a, item) ==
  /\ Readable(a) /\ IsClient(a)
  /\ net.mem[ServerAddr].connected
  /\ Len(net.mem[ServerAddr].send) < MaxUnsent
  /\ net' = WriteToBuffer(net, ServerAddr, <<item>>)
  /\ crashed' \in (IF Live(net, ServerAddr) THEN {FALSE} ELSE {FALSE, TRUE})
  /\ UNCHANGED <<cursor, accepted>>

\* OnClientRead: PushRequest answered TryAgain.
OnDeferred(a) ==
  /\ Readable(a) /\ IsClient(a)
  /\ net' = SetReadable(net, a, FALSE)
  /\ UNCHANGED <<cursor, accepted, crashed>>

\* OnClientRead: ParseRequest failed, the error goes out with NET_FLAG_CLOSE.
OnBadRequest(a, item) ==
  /\ Readable(a) /\ IsClient(a) /\ Len(net.mem[a].send) < MaxUnsent
  /\ net' = WriteAndClose(net, a, <<item>>)
  /\ UNCHANGED <<cursor, accepted, crashed>>

\* EPOLLOUT, which operateNotify passes on when it modifies a registration.
OnPollWritable(a, k) ==
  /\ Polling /\ Live(net, a) /\ "OUT" \in net.mem[a].watch
  /\ net' = OnWritable(net, a, k)
  /\ UNCHANGED <<cursor, accepted, crashed>>

\* EPOLLHUP, EPOLLERR, or a read that returns 0 or an error.
OnPeerGone(a) ==
  /\ Polling /\ Live(net, a) /\ net.mem[a].gone /\ net.mem[a].watch # {}
  /\ net' = Close(net, a)
  /\ UNCHANGED <<cursor, accepted, crashed>>

\* The remote end closes its socket.
PeerCloses(a) ==
  /\ ~crashed
  /\ Live(net, a) /\ ~net.mem[a].gone
  /\ net' = [net EXCEPT !.mem[a].gone = TRUE]
  /\ UNCHANGED <<cursor, accepted, crashed>>

--------------------------------------------------------------------------------
Next ==
  \/ StartWrites \/ EndWrites \/ VisitFreed
  \/ \E a \in Addrs : \E k \in 0..Len(net.mem[a].send) :
        VisitWritable(a, k) \/ OnPollWritable(a, k)
  \/ \E a \in Addrs : VisitWriteError(a)
  \/ \E p \in Peers \ {Redis}, a \in Addrs : Accept(p, a) \/ AcceptFails(p, a)
  \/ \E a \in Addrs, item \in Items :
        OnReply(a, item) \/ OnRequest(a, item) \/ OnBadRequest(a, item)
  \/ \E a \in Addrs : OnDeferred(a) \/ OnPeerGone(a) \/ PeerCloses(a)

Spec == Init /\ [][Next]_vars

\* Some of what waits at a leaves, or what must close closes.
Progress(a) ==
  \E k \in 0..Len(net.mem[a].send) :
     /\ k > 0 \/ net.mem[a].send = <<>>
     /\ VisitWritable(a, k)

\* The loop never stops, and a remote end that stays reads what it is sent.
Fairness ==
  /\ WF_vars(StartWrites) /\ WF_vars(EndWrites) /\ WF_vars(VisitFreed)
  /\ \A a \in Addrs : /\ WF_vars(\E k \in 0..Len(net.mem[a].send) : VisitWritable(a, k))
                      /\ SF_vars(Progress(a))

FairSpec == Spec /\ Fairness

--------------------------------------------------------------------------------
(* Properties *)

\* The EPOLLOUT bit of a connection and its place on writeEvents never disagree:
\* erase(writeListPos) always names a node of that connection (epoll.cpp:154-169),
\* whatever was deleted, reused or modified through SetReadable meanwhile.
ListMatchesBits == \A a \in Addrs : ListMatchesBit(net, a)

\* Bytes that wait for a peer that is still there are always scheduled to be
\* written (connections.cpp:75-95, :97-165).
AllOutputScheduled == \A a \in Addrs : OutputScheduled(net, a)

\* A Connection deleted with its node on writeEvents leaves one that nobody owns.
StaleNode(n) == \E i \in 1..Len(n.writers) : ~n.writers[i].own

\* Callbacks erase nodes from the list that HandleWriteEvents walks (netio.cpp:309-316),
\* and the object that owns one may have died.  No iterator dangles and no freed memory is
\* called for any other reason than a node left behind by a deleted Connection, or the
\* server connection's deletion.
WalkSurvives == crashed => StaleNode(net) \/ ~Live(net, ServerAddr)

\* And they are written: a connection with output does not wait for ever.
OutputDrains ==
  \A a \in Addrs :
     \/ []<>(crashed \/ ~Live(net, a) \/ net.mem[a].gone \/ net.mem[a].send = <<>>)
     \/ []<><<Progress(a)>>_vars

\* NET_FLAG_CLOSE closes the connection (connections.cpp:146-153).
CloseFlagCloses ==
  \A a \in Addrs :
     (Live(net, a) /\ net.mem[a].closing) ~>
        (crashed \/ ~Live(net, a) \/ net.mem[a].gone)

================================================================================
