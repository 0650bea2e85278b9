--------------------------------- MODULE Proxy ---------------------------------
(***************************************************************************)
(* The whole proxy in singular mode: the sessions (Session.tla) and the    *)
(* upstream work on the network of Connection.tla, so that a reply is      *)
(* written through clientConn_, an address at which the client's           *)
(* Connection may have been deleted and another one allocated since, and   *)
(* what a deferred session waits for is a registration with epoll.         *)
(*                                                                         *)
(* A peer is one client socket and stands for its session too.  The walk   *)
(* of the write list is reduced to one connection at a time in any order;  *)
(* EventLoop.tla has the walk itself.                                      *)
(***************************************************************************)
EXTENDS Connection, Session

CONSTANTS ServerAddr,  \* Upstream::serverConn_
          Redis,       \* the peer it was connected to
          AuthReader,  \* cmd::Auth
          NoAddr,      \* clientConn_ of a session that does not exist yet
          QueueSize,   \* ConnSendBufferCount, the slots of cmdQueue_
          Total,       \* bound: the arguments each client sends
          ReadCuts     \* bound: where a read may end, a subset of Cuts

Clients == Peers \ {Redis}

ASSUME ProxyPeersAssumption == /\ Redis \in Peers /\ NoPeer \notin Peers
                               /\ Upstreams = {Redis}
                               /\ AuthReader \notin Peers
ASSUME ProxyAddrsAssumption == ServerAddr \in Addrs /\ NoAddr \notin Addrs
ASSUME ProxyBoundsAssumption == /\ QueueSize \in Nat /\ QueueSize >= 2
                                /\ Total \in Nat
                                /\ ReadCuts \subseteq Cuts

VARIABLES
  net,         \* the connections and Event::writeEvents
  session,     \* the session of each client
  clientConn,  \* its clientConn_, never cleared
  cmdQueue,    \* Upstream::cmdQueue_
  auth,        \* Upstream::auth_
  jammed,      \* Upstream's input starts with bytes of no reply type
  orphan,      \* a reply was parsed when no reader was queued
  toServer,    \* written to the server's socket, not yet executed
  toProxy,     \* replies not yet parsed
  swallowed,   \* how many commands Redis ignored
  got,         \* what each client was sent, in order
  crashed      \* freed memory was used as an object

vars == <<net, session, clientConn, cmdQueue, auth, jammed, orphan, toServer,
          toProxy, swallowed, got, crashed>>

upstreamVars == <<cmdQueue, auth, jammed, orphan, toServer, toProxy, swallowed>>

\* The command of cmd::Auth: no piece of a client's stream.
AuthCmd == <<Total, Total + 1>>

Request == [asker : Clients \union {AuthReader}, cmd : (0..Total) \X (0..(Total + 1))]

\* What is sent to a client: a reply of Redis, or the error text that answers a bad
\* request.
Reply == [req : Request, kind : {"status", "error", "emptyBulk", "badRequest"}]

ASSUME ProxyItemsAssumption == Items = Request \union Reply

TypeOK == /\ DOMAIN net.mem = Addrs
          /\ \A a \in Addrs :
               LET items == net.mem[a].send IN
               \A i \in 1..Len(items) : items[i] \in Request \union Reply
          /\ net.writers \in Seq(Node)
          /\ session \in [Clients -> SessionState]
          /\ clientConn \in [Clients -> Addrs \union {NoAddr}]
          /\ cmdQueue \in Seq(Clients \union {AuthReader})
          /\ Len(cmdQueue) <= QueueSize - 1
          /\ auth \in BOOLEAN /\ jammed \in BOOLEAN /\ orphan \in BOOLEAN
          /\ toServer \in Seq(Request)
          /\ toProxy \in Seq(Reply)
          /\ swallowed \in Nat
          /\ got \in [Clients -> Seq(Request \union Reply)]
          /\ crashed \in BOOLEAN

\* Server::Init, with a password or without.
Init ==
  LET connected == Update(EmptyNetwork, ServerAddr, NewObject(Redis)) IN
  /\ \/ /\ auth = TRUE
        /\ cmdQueue = <<>>
        /\ net = connected
     \/ /\ auth = FALSE
        /\ cmdQueue = <<AuthReader>>
        /\ net = WriteToBuffer(connected, ServerAddr,
                               <<[asker |-> AuthReader, cmd |-> AuthCmd]>>)
  /\ session = [c \in Clients |-> NewSession]
  /\ clientConn = [c \in Clients |-> NoAddr]
  /\ jammed = FALSE
  /\ orphan = FALSE
  /\ toServer = <<>>
  /\ toProxy = <<>>
  /\ swallowed = 0
  /\ got = [c \in Clients |-> <<>>]
  /\ crashed = FALSE

--------------------------------------------------------------------------------
ServerUp == Live(net, ServerAddr) /\ net.mem[ServerAddr].peer = Redis

\* The Connection of c, which its read handler is called with.
IsConn(a, c) == Live(net, a) /\ net.mem[a].peer = c

Readable(a) == ~crashed /\ Live(net, a) /\ "IN" \in net.mem[a].watch

\* Fault: the "unauth yet" test is missing.
AcceptableUnauthenticated == net.mem[ServerAddr].connected

\* IsAcceptable reads connected_ at the address, whatever is there.
IsAcceptable == net.mem[ServerAddr].connected /\ auth

\* Fault: the ring uses its last slot too.
RoomOffByOne == IF IsAcceptable THEN QueueSize - Len(cmdQueue) ELSE 0

Room == IF IsAcceptable THEN (QueueSize - 1) - Len(cmdQueue) ELSE 0

\* Accept, newClientConnection.
Accept(c, a) ==
  /\ ~crashed
  /\ clientConn[c] = NoAddr
  /\ ~Live(net, a)
  /\ net' = Update(net, a, NewObject(c))
  /\ clientConn' = [clientConn EXCEPT ![c] = a]
  /\ UNCHANGED <<session, got, crashed, upstreamVars>>

\* Fault: a parse error returns before what was pushed in the same read is written.
ReadEffectErrorFirst(a, c, requests, deferred, failed) ==
  LET asked == IF requests = <<>> THEN net ELSE WriteToBuffer(net, ServerAddr, requests)
      bad == [req |-> [asker |-> c, cmd |-> <<session[c].at, session[c].at>>],
              kind |-> "badRequest"] IN
  IF deferred THEN SetReadable(asked, a, FALSE)
  ELSE IF failed THEN WriteAndClose(net, a, <<bad>>)
  ELSE asked

\* OnClientRead on the network: the requests pushed are written to the server
\* connection, and the session stops reading or answers an error.
ReadEffect(a, c, requests, deferred, failed) ==
  LET asked == IF requests = <<>> THEN net ELSE WriteToBuffer(net, ServerAddr, requests)
      bad == [req |-> [asker |-> c, cmd |-> <<session[c].at, session[c].at>>],
              kind |-> "badRequest"] IN
  IF deferred THEN SetReadable(asked, a, FALSE)
  ELSE IF failed THEN WriteAndClose(asked, a, <<bad>>)
  ELSE asked

OnClientRead(a, c, upto, cut) ==
  /\ Readable(a) /\ IsConn(a, c)
  /\ ~net.mem[a].closing          \* the next walk closes it before it is polled
  /\ cut = "clean" => Boundary(upto) /\ upto > session[c].read
  /\ LET s == session[c]
         pieces == Pushed(s, upto, Room)
         requests == [i \in 1..Len(pieces) |-> [asker |-> c, cmd |-> pieces[i]]] IN
     /\ session' = [session EXCEPT ![c] = AfterRead(s, upto, Room)]
     /\ cmdQueue' = cmdQueue \o [i \in 1..Len(pieces) |-> c]
     /\ net' = ReadEffect(a, c, requests, Deferred(s, upto, Room),
                          Failed(s, upto, cut, Room))
     /\ crashed' \in (IF requests = <<>> \/ Live(net, ServerAddr)
                      THEN {FALSE} ELSE {FALSE, TRUE})
  /\ UNCHANGED <<clientConn, auth, jammed, orphan, toServer, toProxy, swallowed, got>>

--------------------------------------------------------------------------------
\* Redis executes the oldest command of the link.
ServerReply(kind) ==
  /\ ~crashed /\ ServerUp /\ ~net.mem[ServerAddr].gone
  /\ toServer # <<>>
  /\ toServer' = Tail(toServer)
  /\ LET req == Head(toServer) IN
     IF req.cmd[1] = req.cmd[2]
     THEN /\ swallowed' = swallowed + 1
          /\ UNCHANGED toProxy
     ELSE /\ kind \in (IF req.asker = AuthReader THEN {"status", "error"}
                       ELSE {"status", "emptyBulk"})
          /\ toProxy' = Append(toProxy, [req |-> req, kind |-> kind])
          /\ UNCHANGED swallowed
  /\ UNCHANGED <<net, session, clientConn, cmdQueue, auth, jammed, orphan, got, crashed>>

\* Session::OnServerWrite: through clientConn_, if connected_ reads true there.
OnServerWrite(n, c, reply) ==
  LET a == clientConn[c] IN
  IF n.mem[a].connected THEN SetReadable(WriteToBuffer(n, a, <<reply>>), a, TRUE) ELSE n

\* Fault: the reader queued last is served first.
HandedOutNewest(i) ==
  LET after[k \in 0..i] ==
        IF k = 0 THEN net
        ELSE IF cmdQueue[Len(cmdQueue) + 1 - k] = AuthReader THEN after[k - 1]
        ELSE OnServerWrite(after[k - 1], cmdQueue[Len(cmdQueue) + 1 - k], toProxy[k])
  IN after[i]

\* The first i replies have been handed to their readers.
HandedOut(i) ==
  LET after[k \in 0..i] ==
        IF k = 0 THEN net
        ELSE IF cmdQueue[k] = AuthReader THEN after[k - 1]
        ELSE OnServerWrite(after[k - 1], cmdQueue[k], toProxy[k])
  IN after[i]

FewerOf(i, j) == IF i < j THEN i ELSE j

Unparsable(i) == toProxy[i].kind = "emptyBulk"

\* OnServerRead over the n replies it parses of those available.
OnServerRead(n) ==
  /\ Readable(ServerAddr) /\ ServerUp
  /\ ~jammed /\ ~orphan
  /\ \A i \in 1..(n - 1) : ~Unparsable(i)
  /\ LET paired == FewerOf(n, Len(cmdQueue)) IN
     /\ net' = HandedOut(paired)
     /\ cmdQueue' = SubSeq(cmdQueue, paired + 1, Len(cmdQueue))
     /\ orphan' = (paired < n)
     /\ auth' = IF \E i \in 1..paired : cmdQueue[i] = AuthReader
                THEN \E i \in 1..paired : /\ cmdQueue[i] = AuthReader
                                          /\ toProxy[i].kind = "status"
                ELSE auth
  /\ jammed' = Unparsable(n)
  /\ toProxy' = SubSeq(toProxy, n + 1, Len(toProxy))
  /\ UNCHANGED <<session, clientConn, toServer, swallowed, got, crashed>>

--------------------------------------------------------------------------------
\* What leaves the send buffer at a reaches the socket of its peer.
Delivered(a, k) ==
  LET items == SubSeq(net.mem[a].send, 1, k)
      p == net.mem[a].peer IN
  IF p = Redis
  THEN toServer' = toServer \o items /\ UNCHANGED got
  ELSE got' = [got EXCEPT ![p] = @ \o items] /\ UNCHANGED toServer

Listed(a) == \E i \in 1..Len(net.writers) : net.writers[i].to = a

\* HandleWriteEvents comes to a node of the object at a, or epoll reports EPOLLOUT
\* for it, and its socket takes k items.
WriteOut(a, k) ==
  /\ ~crashed
  /\ Live(net, a)
  /\ Listed(a) \/ "OUT" \in net.mem[a].watch
  /\ net' = OnWritable(net, a, k)
  /\ Delivered(a, k)
  /\ UNCHANGED <<session, clientConn, cmdQueue, auth, jammed, orphan, toProxy,
                 swallowed, crashed>>

\* HandleWriteEvents, when write() fails.
WriteFails(a) ==
  /\ ~crashed
  /\ Listed(a) \/ "OUT" \in net.mem[a].watch
  /\ Live(net, a) /\ net.mem[a].gone /\ net.mem[a].send # <<>>
  /\ net' = OnWriteError(net, a)
  /\ UNCHANGED <<session, clientConn, got, crashed, upstreamVars>>

\* HandleWriteEvents comes to a node whose object was deleted.
WriteFreed ==
  /\ ~crashed
  /\ \E a \in Addrs : Listed(a) /\ ~Live(net, a)
  /\ crashed' = TRUE
  /\ UNCHANGED <<net, session, clientConn, got, upstreamVars>>

\* The remote end closes its socket.
PeerCloses(a) ==
  /\ ~crashed /\ Live(net, a) /\ ~net.mem[a].gone
  /\ net' = [net EXCEPT !.mem[a].gone = TRUE]
  /\ UNCHANGED <<session, clientConn, got, crashed, upstreamVars>>

\* The loop finds out: Close, and for the server connection OnServerClosed.
OnPeerGone(a) ==
  /\ ~crashed /\ Live(net, a) /\ net.mem[a].gone /\ net.mem[a].watch # {}
  /\ net' = Close(net, a)
  /\ IF net.mem[a].peer = Redis
     THEN toServer' = <<>> /\ toProxy' = <<>>
     ELSE UNCHANGED <<toServer, toProxy>>
  /\ UNCHANGED <<session, clientConn, cmdQueue, auth, jammed, orphan, swallowed, got,
                 crashed>>

Next ==
  \/ \E c \in Clients, a \in Addrs : Accept(c, a)
  \/ \E c \in Clients, a \in Addrs, cut \in ReadCuts :
        \E upto \in session[c].read..Total : OnClientRead(a, c, upto, cut)
  \/ \E kind \in {"status", "error", "emptyBulk"} : ServerReply(kind)
  \/ \E n \in 1..Len(toProxy) : OnServerRead(n)
  \/ \E a \in Addrs : \E k \in 0..Len(net.mem[a].send) : WriteOut(a, k)
  \/ \E a \in Addrs : WriteFails(a) \/ PeerCloses(a) \/ OnPeerGone(a)
  \/ WriteFreed

Spec == Init /\ [][Next]_vars

\* The loop never stops, sockets take what is sent and Redis executes what it got.
\* Nothing makes a client connect, send or leave.
Fairness ==
  /\ \A a \in Addrs : WF_vars(\E k \in 0..Len(net.mem[a].send) :
                               /\ k > 0 \/ net.mem[a].send = <<>>
                               /\ WriteOut(a, k))
  /\ WF_vars(\E kind \in {"status", "error", "emptyBulk"} : ServerReply(kind))
  /\ WF_vars(\E n \in 1..Len(toProxy) : OnServerRead(n))
  /\ \A a \in Addrs : WF_vars(OnPeerGone(a))
  /\ WF_vars(WriteFreed)

FairSpec == Spec /\ Fairness

--------------------------------------------------------------------------------
(* The pipeline of Upstream.tla, seen from here. *)

AllPieces == {p \in (0..Total) \X (0..Total) : p[1] <= p[2]}

\* The runs of pieces a session can push in one read.
AllRuns == {Pieces(s, upto) : s \in {t \in [from : 0..Total, at : 0..Total,
                                            read : 0..Total, done : BOOLEAN] :
                                       t.from <= t.at},
                              upto \in 0..Total}

Pipeline == INSTANCE Upstream WITH
  Readers <- Clients,
  Cmds <- AllPieces \union {AuthCmd},
  EmptyCmds <- {p \in AllPieces : p[1] = p[2]},
  Runs <- AllRuns,
  link <- IF ServerUp THEN "up" ELSE "freed",
  sendBuffer <- IF ServerUp THEN net.mem[ServerAddr].send ELSE <<>>

--------------------------------------------------------------------------------
(* Properties *)

\* Sessions, write list, reused addresses and all, the proxy does to its queue and
\* its link only what Upstream.tla says: what is proved of that module holds here.
PipelineSpec == Pipeline!Spec

\* What c was sent, and what still waits for its socket.
SentTo(c) ==
  LET a == clientConn[c] IN
  got[c] \o (IF a # NoAddr /\ IsConn(a, c) THEN net.mem[a].send ELSE <<>>)

IsReply(item) == item.kind # "badRequest"

\* The replies among the first i items of s answer the stream up to argument e.
AnsweredTo(s, i, e) ==
  \/ e = 0 /\ \A j \in 1..i : ~IsReply(s[j])
  \/ \E j \in 1..i : /\ IsReply(s[j]) /\ s[j].req.cmd[2] = e
                     /\ \A k \in (j + 1)..i : ~IsReply(s[k])

\* A Connection was allocated where another one, to which somebody still points, was.
AddressReused ==
  \E c \in Clients : /\ clientConn[c] # NoAddr
                    /\ \/ clientConn[c] = ServerAddr
                       \/ \E d \in Clients \ {c} : clientConn[c] = clientConn[d]

\* As long as no address is reused and Redis ignored nothing, each client is sent the
\* replies to its own requests, all of them up to some point and in the order of its
\* stream, whatever was deferred, cut or closed around it.
AnswersInOrder ==
  swallowed = 0 /\ ~AddressReused =>
     \A c \in Clients :
        LET s == SentTo(c) IN
        \A i \in 1..Len(s) :
           IsReply(s[i]) => /\ s[i].req.asker = c
                            /\ AnsweredTo(s, i - 1, s[i].req.cmd[1])

--------------------------------------------------------------------------------
(* What comments of the code say, and the code does not do. *)

\* A reply is handed over only if the session that asked is still valid
\* (upstream.cpp:216 "check if the session was valid"): nobody else is sent it.
OnlyValidSessionsAnswered ==
  swallowed = 0 =>
     \A c \in Clients : \A i \in 1..Len(got[c]) :
        "kind" \in DOMAIN got[c][i] => got[c][i].req.asker = c

\* c was told TryAgain, and what it asked for would be accepted now.
Postponed(c) ==
  /\ session[c].done \/ session[c].at > session[c].from
  /\ clientConn[c] # NoAddr
  /\ IsConn(clientConn[c], c) /\ ~net.mem[clientConn[c]].gone
  /\ ServerUp /\ IsAcceptable /\ Room > 0 /\ ~jammed /\ ~crashed

\* A request refused because the upstream is not ready "yet" (upstream.cpp:120, 124)
\* is taken up once it is.
PostponedIsTakenUp == \A c \in Clients : Postponed(c) ~> ~Postponed(c)
================================================================================
