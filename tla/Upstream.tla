-------------------------------- MODULE Upstream --------------------------------
(***************************************************************************)
(* Upstream and UpstreamPool in singular mode (upstream.cpp): every client *)
(* request is written to one server connection and its reader is queued in *)
(* cmdQueue_; every reply read from that connection is handed to the       *)
(* oldest queued reader.  Nothing in a reply names its request, so each    *)
(* reply reaches its asker only while the queue and the stream of          *)
(* requests, commands and replies stay in step.                            *)
(*                                                                         *)
(* cmdQueue_ is the abstract queue that Recycle.tla implements.  A reply   *)
(* is whole or not there: ParseResponse keeps a partial one (TryAgain).    *)
(* Redis, at the other end of the link, is external: it answers every      *)
(* command in order, once, except that it ignores "*0\r\n".                *)
(***************************************************************************)
EXTENDS Naturals, Sequences, FiniteSets

CONSTANTS Readers,     \* the sessions: UpstreamReader objects that push requests
          AuthReader,  \* cmd::Auth, the reader Upstream::Init creates
          Cmds,        \* commands
          EmptyCmds,   \* those with no argument at all, formatted as "*0\r\n"
          AuthCmd,     \* the command of cmd::Auth
          QueueSize,   \* ConnSendBufferCount, the slots of cmdQueue_
          Runs         \* the runs of commands one OnClientRead may push

\* With one slot the AUTH request does not fit and Server::Init fails.
ASSUME QueueSizeAssumption == QueueSize \in Nat /\ QueueSize >= 2
ASSUME ReadersAssumption == AuthReader \notin Readers
ASSUME CmdsAssumption == /\ EmptyCmds \subseteq Cmds
                         /\ AuthCmd \in Cmds \ EmptyCmds
                         /\ Runs \subseteq Seq(Cmds)

VARIABLES
  cmdQueue,    \* cmdQueue_: the readers waiting for a reply, oldest first
  auth,        \* auth_
  link,        \* *serverConn_: "up", "freed" by its pool, or "crashed" process
  sendBuffer,  \* the requests in the server connection's sendBuffer_
  toServer,    \* written to the socket, not yet executed by Redis
  toProxy,     \* replies of Redis not yet parsed, each with its request
  jammed,      \* the rest of the input starts with bytes of no reply type
  orphan,      \* a reply was parsed when no reader was queued
  swallowed    \* how many commands Redis ignored on this link

vars == <<cmdQueue, auth, link, sendBuffer, toServer, toProxy, jammed, orphan,
          swallowed>>

Askers == Readers \union {AuthReader}
Request == [asker : Askers, cmd : Cmds]

\* What a reply starts with; "emptyBulk" is "$0\r\n\r\n".
ReplyKinds == {"status", "error", "emptyBulk"}
Reply == [req : Request, kind : ReplyKinds]

TypeOK == /\ cmdQueue \in Seq(Askers)
          /\ Len(cmdQueue) <= QueueSize - 1
          /\ auth \in BOOLEAN
          /\ link \in {"up", "freed", "crashed"}
          /\ sendBuffer \in Seq(Request)
          /\ toServer \in Seq(Request)
          /\ toProxy \in Seq(Reply)
          /\ jammed \in BOOLEAN
          /\ orphan \in BOOLEAN
          /\ swallowed \in Nat

--------------------------------------------------------------------------------
AuthRequest == [asker |-> AuthReader, cmd |-> AuthCmd]

\* Upstream::Init after Connect: with a password AUTH is pushed first, without
\* one the link counts as authenticated.
Init == /\ \/ /\ auth = TRUE
              /\ cmdQueue = <<>>
              /\ sendBuffer = <<>>
           \/ /\ auth = FALSE
              /\ cmdQueue = <<AuthReader>>
              /\ sendBuffer = <<AuthRequest>>
        /\ link = "up"
        /\ toServer = <<>>
        /\ toProxy = <<>>
        /\ jammed = FALSE
        /\ orphan = FALSE
        /\ swallowed = 0

\* Fault: the "unauth yet" test is missing.
AcceptableUnauthenticated == link # "crashed"

\* serverConn_ is never cleared, and Connection::Reconnect left connected_ set in
\* the object that was then deleted.
IsAcceptable == link # "crashed" /\ auth

\* Fault: the ring uses its last slot too.
RoomOffByOne == QueueSize - Len(cmdQueue)

Room == (QueueSize - 1) - Len(cmdQueue)

\* The PushRequest calls of one OnClientRead: the requests are queued and written
\* one by one until one does not fit and TryAgain is returned.
Accepted(run) == IF Len(run) <= Room THEN run ELSE SubSeq(run, 1, Room)

\* Fault: the reader is queued once for all the requests of a read.
PushRequestsQueuedOnce(r, run) ==
  /\ IsAcceptable /\ link = "up" /\ Room > 0
  /\ cmdQueue' = Append(cmdQueue, r)
  /\ sendBuffer' = sendBuffer \o [i \in 1..Len(run) |-> [asker |-> r, cmd |-> run[i]]]
  /\ UNCHANGED <<auth, link, toServer, toProxy, jammed, orphan, swallowed>>

PushRequests(r, run) ==
  LET fits == Accepted(run)
      reqs == [i \in 1..Len(fits) |-> [asker |-> r, cmd |-> fits[i]]] IN
  /\ IsAcceptable
  /\ cmdQueue' = cmdQueue \o [i \in 1..Len(fits) |-> r]
  /\ \/ /\ link = "up"
        /\ sendBuffer' = sendBuffer \o reqs
        /\ UNCHANGED link
     \/ /\ link = "freed"         \* WriteToBuffer on freed memory
        /\ link' \in {"freed", "crashed"}
        /\ UNCHANGED sendBuffer
  /\ UNCHANGED <<auth, toServer, toProxy, jammed, orphan, swallowed>>

\* Fault: the offset after a partial write is one request too far.
WriteOutSkips(k) ==
  /\ link = "up"
  /\ toServer' = toServer \o SubSeq(sendBuffer, 1, k - 1)
  /\ sendBuffer' = SubSeq(sendBuffer, k + 1, Len(sendBuffer))
  /\ UNCHANGED <<cmdQueue, auth, link, toProxy, jammed, orphan, swallowed>>

\* HandleWriteEvents: the socket takes the first k requests.
WriteOut(k) ==
  /\ link = "up"
  /\ toServer' = toServer \o SubSeq(sendBuffer, 1, k)
  /\ sendBuffer' = SubSeq(sendBuffer, k + 1, Len(sendBuffer))
  /\ UNCHANGED <<cmdQueue, auth, link, toProxy, jammed, orphan, swallowed>>

\* Redis executes the oldest command.
ServerReply(kind) ==
  /\ link = "up"
  /\ toServer # <<>>
  /\ toServer' = Tail(toServer)
  /\ IF Head(toServer).cmd \in EmptyCmds
     THEN /\ swallowed' = swallowed + 1
          /\ UNCHANGED toProxy
     ELSE /\ Head(toServer).cmd = AuthCmd => kind # "emptyBulk"
          /\ toProxy' = Append(toProxy, [req |-> Head(toServer), kind |-> kind])
          /\ UNCHANGED swallowed
  /\ UNCHANGED <<cmdQueue, auth, link, sendBuffer, jammed, orphan>>

\* HandleResponse leaves the "\r\n" of an empty bulk reply in the input, and
\* ParseResponse answers Unknown to it on this and on every later read.
Unparsable(i) == toProxy[i].kind = "emptyBulk"

\* Fault: the reader queued last is served first.
HandOutNewest(n) ==
  /\ n <= Len(cmdQueue)
  /\ toProxy' = SubSeq(toProxy, n + 1, Len(toProxy))
  /\ cmdQueue' = SubSeq(cmdQueue, 1, Len(cmdQueue) - n)
  /\ jammed' = Unparsable(n)
  /\ auth' = TRUE
  /\ UNCHANGED orphan

\* The loop of OnServerRead over the n replies it parses: each is handed to the
\* oldest queued reader; cmd::Auth sets auth_.
HandOut(n) ==
  /\ toProxy' = SubSeq(toProxy, n + 1, Len(toProxy))
  /\ \/ /\ n <= Len(cmdQueue)
        /\ cmdQueue' = SubSeq(cmdQueue, n + 1, Len(cmdQueue))
        /\ auth' = IF \E i \in 1..n : cmdQueue[i] = AuthReader
                   THEN \E i \in 1..n : /\ cmdQueue[i] = AuthReader
                                        /\ toProxy[i].kind = "status"
                   ELSE auth
        /\ UNCHANGED orphan
     \/ /\ n > Len(cmdQueue)
        /\ cmdQueue' = <<>>
        /\ orphan' = TRUE
        /\ UNCHANGED auth
  /\ jammed' = Unparsable(n)

\* One read that made the first j replies available.  The identity of the reader
\* always matches, sessions are never deleted (SessionPool::RemoveSession is not
\* called), so every reply is handed over.
OnServerRead(j) ==
  /\ link = "up"
  /\ ~jammed /\ ~orphan
  /\ \E n \in 1..j :
        /\ \A i \in 1..(n - 1) : ~Unparsable(i)
        /\ n = j \/ Unparsable(n)
        /\ HandOut(n)
  /\ UNCHANGED <<link, sendBuffer, toServer, swallowed>>

\* Fault: the reconnected link is used with the old cmdQueue_.
ReconnectKeepsQueue ==
  /\ link = "up"
  /\ sendBuffer' = <<>> /\ toServer' = <<>> /\ toProxy' = <<>>
  /\ UNCHANGED <<cmdQueue, auth, link, jammed, orphan, swallowed>>

\* The link breaks: Close, OnClosed, OnServerClosed, Reconnect, and then
\* RemoveConnection deletes the object.  cmdQueue_ and the parser are kept.
OnServerClosed ==
  /\ link = "up"
  /\ link' = "freed"
  /\ sendBuffer' = <<>>
  /\ toServer' = <<>>
  /\ toProxy' = <<>>
  /\ UNCHANGED <<cmdQueue, auth, jammed, orphan, swallowed>>

Next == \/ \E r \in Readers, run \in Runs : PushRequests(r, run)
        \/ \E k \in 1..Len(sendBuffer) : WriteOut(k)
        \/ \E kind \in ReplyKinds : ServerReply(kind)
        \/ \E j \in 1..Len(toProxy) : OnServerRead(j)
        \/ OnServerClosed

Reads == \E j \in 1..Len(toProxy) : OnServerRead(j)

\* PollOnce runs HandleWriteEvents and epoll_wait in an endless loop, and Redis
\* keeps executing what it received.  Nothing makes a client send or a link break.
Fairness == /\ WF_vars(\E k \in 1..Len(sendBuffer) : WriteOut(k))
            /\ WF_vars(\E kind \in ReplyKinds : ServerReply(kind))
            /\ WF_vars(Reads)

Spec == Init /\ [][Next]_vars

FairSpec == Spec /\ Fairness

--------------------------------------------------------------------------------
(* Properties *)

\* Everything sent on this link that cmdQueue_ still expects a reply for.
Outstanding == Len(toProxy) + Len(toServer) + Len(sendBuffer)

\* The i-th oldest of these requests.
RequestAt(i) ==
  IF i <= Len(toProxy) THEN toProxy[i].req
  ELSE IF i <= Len(toProxy) + Len(toServer) THEN toServer[i - Len(toProxy)]
  ELSE sendBuffer[i - (Len(toProxy) + Len(toServer))]

\* The queue and the stream stay in step while the link is up: one queued reader
\* for every request sent and for every command Redis ignored (upstream.cpp:242
\* queues before :264 writes, :210 pops once per parsed reply).
QueueAccounting ==
  link = "up" => Len(cmdQueue) = Outstanding + swallowed

\* As long as Redis ignored nothing, the reader that gets the next reply, and
\* each one after it, is the one that asked (upstream.cpp:210-218).
Pairing ==
  link = "up" /\ swallowed = 0 =>
     /\ Len(cmdQueue) = Outstanding
     /\ \A i \in 1..Len(cmdQueue) : cmdQueue[i] = RequestAt(i).asker

\* A reply never finds the queue empty, the branch upstream.cpp:211-214 calls an
\* expected bug.
NoOrphanReply == ~orphan

\* Before the server accepted AUTH no other request is queued, sent or answered
\* (upstream.cpp:124-127), so the first reply read is the one to AUTH.
AuthGoesFirst ==
  ~auth => /\ Len(cmdQueue) <= 1
           /\ \A i \in 1..Len(cmdQueue) : cmdQueue[i] = AuthReader
           /\ link = "up" => \A i \in 1..Outstanding : RequestAt(i) = AuthRequest

\* While the link is up and every reply parses, waiting readers are served: either
\* nothing is left that Redis will answer, again and again, or replies keep being
\* handed out.
RepliesKeepComing ==
  \/ []<>(link # "up" \/ jammed \/ Len(cmdQueue) = swallowed)
  \/ []<><<Reads>>_vars
--------------------------------------------------------------------------------
(* What a comment of the code says, and the code does not do. *)

\* IsAcceptable refuses requests while the server is not connected
\* (upstream.cpp:120 "unconnected yet").
AcceptsOnlyConnected == IsAcceptable => link = "up"
================================================================================
