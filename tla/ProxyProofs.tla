------------------------------ MODULE ProxyProofs ------------------------------
(***************************************************************************)
(* Theorems about Proxy.tla, for any number of clients, addresses and      *)
(* queue slots and every length of the clients' streams: whatever happens  *)
(* to the connections, the proxy does to its queue and its link what       *)
(* Upstream.tla says, so that what UpstreamProofs.tla shows of that module *)
(* holds of the whole program; and each client is sent the answers to its  *)
(* own requests in the order of its stream.                                *)
(***************************************************************************)
EXTENDS Proxy, OperatorProofs

(* What a call on the connection at a leaves alone. *)

\* The object that o became by a call: only its events may differ.
Alike(o, p) == /\ p.state = o.state /\ p.peer = o.peer /\ p.closing = o.closing
               /\ p.connected = o.connected /\ p.send = o.send

\* The network m has p at a and is n everywhere else.
OnlyAt(n, m, a, p) == m.mem = [n.mem EXCEPT ![a] = p]

LEMMA OnlyAtFacts ==
  ASSUME NEW n \in Network, NEW m, NEW a \in Addrs, NEW p, OnlyAt(n, m, a, p)
  PROVE  m.mem[a] = p /\ \A b \in Addrs \ {a} : m.mem[b] = n.mem[b]
  BY DEF OnlyAt, Network

LEMMA SetWritableFrame ==
  ASSUME NEW n \in Network, NEW a \in Addrs, NEW flag \in BOOLEAN
  PROVE  \E p : OnlyAt(n, SetWritable(n, a, flag), a, p) /\ Alike(n.mem[a], p)
  <1> DEFINE o == n.mem[a]
             p == [o EXCEPT !.events = IF flag THEN @ \union {"OUT"} ELSE @ \ {"OUT"}]
             m == SetWritable(n, a, flag)
  <1>1. n.mem \in [Addrs -> Object] /\ o \in Object
    BY DEF Network
  <1>2. Alike(o, p) /\ Alike(o, o)
    BY <1>1 DEF Alike, Object
  <1>3. m.mem = [n.mem EXCEPT ![a] = p] \/ m.mem = [n.mem EXCEPT ![a] = o]
    BY <1>1 DEF SetWritable
  <1> QED BY <1>2, <1>3 DEF OnlyAt

LEMMA SetReadableFrame ==
  ASSUME NEW n \in Network, NEW a \in Addrs, NEW flag \in BOOLEAN
  PROVE  \E p : OnlyAt(n, SetReadable(n, a, flag), a, p) /\ Alike(n.mem[a], p)
  <1> DEFINE o == n.mem[a]
             p == OperateNotify(o, flag)
  <1>1. o \in Object
    BY DEF Network
  <1>2. Alike(o, p)
    <2> DEFINE want == IF flag THEN o.events \union {"IN"} ELSE o.events \ {"IN"}
               op == IF want = {} THEN "DEL" ELSE IF o.events = {} THEN "ADD" ELSE "MOD"
               watch == EpollCtl(op, o.watch, want)
    <2>1. p = IF want = o.events THEN o
              ELSE [o EXCEPT !.events = want, !.watch = watch]
      BY DEF OperateNotify
    <2> HIDE DEF want, watch, p
    <2> QED BY <1>1, <2>1 DEF Alike, Object
  <1>3. OnlyAt(n, SetReadable(n, a, flag), a, p)
    BY DEF OnlyAt, SetReadable, Update, Network
  <1> QED BY <1>2, <1>3

\* The object p holds what o did and, if that is live, the items behind it.
Extends(o, p, items) ==
  /\ p.state = o.state /\ p.peer = o.peer /\ p.closing = o.closing
  /\ p.connected = o.connected
  /\ p.send = IF o.state = "live" THEN o.send \o items ELSE o.send

LEMMA WriteToBufferFrame ==
  ASSUME NEW n \in Network, NEW a \in Addrs, NEW items \in Seq(Items)
  PROVE  \E p : /\ OnlyAt(n, WriteToBuffer(n, a, items), a, p)
                /\ Extends(n.mem[a], p, items)
  <1> DEFINE m == SetWritable(n, a, TRUE)
  <1>1. PICK q : OnlyAt(n, m, a, q) /\ Alike(n.mem[a], q)
    BY SetWritableFrame
  <1>2. n.mem \in [Addrs -> Object]
    BY DEF Network
  <1>3. m = [mem |-> m.mem, writers |-> m.writers] /\ q \in Object
    <2>1. n = [mem |-> n.mem, writers |-> n.writers] /\ n.mem[a] \in Object
      BY DEF Network
    <2>2. m = n \/ m = [mem |-> [n.mem EXCEPT ![a].events = @ \union {"OUT"}],
                        writers |-> Append(n.writers, OwnNode(a))]
      BY DEF SetWritable
    <2>3. m = [mem |-> m.mem, writers |-> m.writers]
      BY <2>1, <2>2
    <2>4. [n.mem[a] EXCEPT !.events = @ \union {"OUT"}] \in Object
      BY <2>1 DEF Object, Bits
    <2> HIDE DEF m
    <2>5. m.mem[a] \in Object
      <3>1. CASE m = n
        BY <2>1, <3>1
      <3>2. CASE m = [mem |-> [n.mem EXCEPT ![a].events = @ \union {"OUT"}],
                      writers |-> Append(n.writers, OwnNode(a))]
        <4>1. m.mem = [n.mem EXCEPT ![a].events = @ \union {"OUT"}]
          BY <3>2
        <4>2. m.mem[a] = [n.mem[a] EXCEPT !.events = @ \union {"OUT"}]
          BY <1>2, <4>1
        <4> QED BY <2>4, <4>2
      <3> QED BY <2>2, <3>1, <3>2
    <2>6. m.mem[a] = q
      BY <1>1, OnlyAtFacts
    <2> QED BY <2>3, <2>5, <2>6
  <1> HIDE DEF m
  <1>4. m.mem = [n.mem EXCEPT ![a] = q]
    BY <1>1 DEF OnlyAt
  <1>5. CASE Live(n, a)
    <2> DEFINE p == [q EXCEPT !.send = @ \o items]
    <2>1. WriteToBuffer(n, a, items) = [m EXCEPT !.mem[a].send = @ \o items]
      BY <1>5 DEF WriteToBuffer, m
    <2>2. OnlyAt(n, WriteToBuffer(n, a, items), a, p)
      BY <1>2, <1>3, <1>4, <2>1 DEF OnlyAt
    <2>3. /\ p.state = q.state /\ p.peer = q.peer /\ p.closing = q.closing
          /\ p.connected = q.connected /\ p.send = q.send \o items
      BY <1>3 DEF Object
    <2> HIDE DEF p
    <2> QED BY <1>1, <1>5, <2>2, <2>3 DEF Alike, Extends, Live
  <1>6. CASE ~Live(n, a)
    <2>1. WriteToBuffer(n, a, items) = [m EXCEPT !.writers = Disown(@, a)]
      BY <1>6 DEF WriteToBuffer, m
    <2>2. OnlyAt(n, WriteToBuffer(n, a, items), a, q)
      BY <1>3, <1>4, <2>1 DEF OnlyAt
    <2> QED BY <1>1, <1>6, <2>2 DEF Alike, Extends, Live
  <1> QED BY <1>5, <1>6

LEMMA CloseFrame ==
  ASSUME NEW n \in Network, NEW a \in Addrs
  PROVE  \E p : OnlyAt(n, Close(n, a), a, p) /\ p.state = "freed"
  <1> DEFINE p == Remains(n.mem[a], n.mem[a].peer \in Upstreams)
  <1>1. p.state = "freed"
    BY DEF Remains
  <1>2. OnlyAt(n, Close(n, a), a, p)
    BY DEF OnlyAt, Close, Network
  <1> QED BY <1>1, <1>2

\* A write sends the first k items, or closes a connection that was to be closed.
LEMMA OnWritableFrame ==
  ASSUME NEW n \in Network, NEW a \in Addrs, NEW k \in 0..Len(n.mem[a].send)
  PROVE  \E p : /\ OnlyAt(n, OnWritable(n, a, k), a, p)
                /\ \/ n.mem[a].closing /\ p.state = "freed"
                   \/ /\ p.state = n.mem[a].state /\ p.peer = n.mem[a].peer
                      /\ p.closing = n.mem[a].closing
                      /\ p.connected = n.mem[a].connected
                      /\ p.send = SubSeq(n.mem[a].send, k + 1, Len(n.mem[a].send))
  <1> DEFINE s == n.mem[a].send
             rest == SubSeq(s, k + 1, Len(s))
             o == [n.mem[a] EXCEPT !.send = rest]
             sent == Update(n, a, o)
  <1>1. n.mem \in [Addrs -> Object] /\ n.mem[a] \in Object /\ s \in Seq(Items)
    <2>1. n.mem[a] \in Object
      BY DEF Network
    <2> QED BY <2>1 DEF Network, Object
  <1>2. rest \in Seq(Items) /\ (s = <<>> => rest = s)
    <2> HIDE DEF s
    <2> QED BY <1>1
  <1>3. /\ o \in Object /\ o.send = rest /\ o.state = n.mem[a].state
        /\ o.peer = n.mem[a].peer /\ o.closing = n.mem[a].closing
        /\ o.connected = n.mem[a].connected
    <2> HIDE DEF rest
    <2> QED BY <1>1, <1>2 DEF Object
  <1>4. [n EXCEPT !.mem[a].send = SubSeq(@, k + 1, Len(@))] = sent
    BY DEF Update
  <1>5. OnWritable(n, a, k) =
          IF s = <<>> THEN SetWritable(n, a, FALSE)
          ELSE IF n.mem[a].closing THEN Close(sent, a)
          ELSE IF k = Len(s) THEN SetWritable(sent, a, FALSE)
          ELSE sent
    BY <1>4 DEF OnWritable
  <1> HIDE DEF s, rest, o
  <1>6. sent \in Network /\ sent.mem = [n.mem EXCEPT ![a] = o] /\ sent.mem[a] = o
    BY <1>1, <1>3 DEF Update, Network
  <1> HIDE DEF sent
  <1>7. \A m, p : OnlyAt(sent, m, a, p) => OnlyAt(n, m, a, p)
    BY <1>1, <1>6 DEF OnlyAt
  <1>8. CASE s = <<>>
    <2>1. PICK p : OnlyAt(n, SetWritable(n, a, FALSE), a, p) /\ Alike(n.mem[a], p)
      BY SetWritableFrame
    <2> QED BY <1>2, <1>5, <1>8, <2>1 DEF Alike, s, rest
  <1>9. CASE s # <<>> /\ n.mem[a].closing
    <2>1. PICK p : OnlyAt(sent, Close(sent, a), a, p) /\ p.state = "freed"
      BY <1>6, CloseFrame
    <2> QED BY <1>5, <1>7, <1>9, <2>1
  <1>10. CASE s # <<>> /\ ~n.mem[a].closing /\ k = Len(s)
    <2>1. PICK p : OnlyAt(sent, SetWritable(sent, a, FALSE), a, p) /\ Alike(o, p)
      BY <1>6, SetWritableFrame
    <2> QED BY <1>3, <1>5, <1>7, <1>10, <2>1 DEF Alike, s, rest
  <1>11. CASE s # <<>> /\ ~n.mem[a].closing /\ k # Len(s)
    BY <1>3, <1>5, <1>6, <1>11 DEF OnlyAt, s, rest
  <1> QED BY <1>8, <1>9, <1>10, <1>11

--------------------------------------------------------------------------------
(* The invariant. *)

LinkState == IF ServerUp THEN "up" ELSE "freed"
LinkBuffer == IF ServerUp THEN net.mem[ServerAddr].send ELSE <<>>

\* The pipeline again, with what was proved of it.
Link == INSTANCE UpstreamProofs WITH
  Readers <- Clients,
  Cmds <- AllPieces \union {AuthCmd},
  EmptyCmds <- {p \in AllPieces : p[1] = p[2]},
  Runs <- AllRuns,
  link <- LinkState,
  sendBuffer <- LinkBuffer

\* Only cmd::Auth sends AUTH.
AuthAsked(requests) ==
  \A i \in 1..Len(requests) : requests[i].cmd = AuthCmd => requests[i].asker = AuthReader

\* A live connection is the server's, at ServerAddr, where no client ever was, or it
\* belongs to the client whose session points to it.
Settled(o, a) ==
  o.state = "live" =>
    \/ /\ o.peer = Redis /\ a = ServerAddr /\ ~o.closing
       /\ \A c \in Clients : clientConn[c] # a
       /\ AuthAsked(o.send)
    \/ o.peer \in Clients /\ clientConn[o.peer] = a

SessionsSound ==
  /\ session \in [Clients -> SessionState]
  /\ \A c \in Clients : InStep(session[c]) /\ session[c].read <= Total

\* A session that waits for a reply has been connected.
ReadersConnected ==
  \A i \in 1..Len(cmdQueue) : cmdQueue[i] \in Clients => clientConn[cmdQueue[i]] \in Addrs

ProxyInv ==
  /\ Coherent(net)
  /\ SessionsSound
  /\ clientConn \in [Clients -> Addrs \union {NoAddr}]
  /\ \A a \in Addrs : Settled(net.mem[a], a)
  /\ ReadersConnected
  /\ AuthAsked(toServer)
  /\ got \in [Clients -> Seq(Items)]
  /\ crashed \in BOOLEAN

IInv == ProxyInv /\ Link!IInv

LEMMA AllRunsTyped == AllRuns \subseteq Seq(AllPieces)
  <1>1. ASSUME NEW s \in {t \in [from : 0..Total, at : 0..Total, read : 0..Total,
                                  done : BOOLEAN] : t.from <= t.at},
               NEW upto \in 0..Total
        PROVE  Pieces(s, upto) \in Seq(AllPieces)
    <2>1. /\ s.from \in 0..Total /\ s.at \in 0..Total /\ s.from <= s.at
          /\ s.done \in BOOLEAN /\ s.at \in Nat /\ upto \in Nat
      BY ProxyBoundsAssumption
    <2>2. Pending(s) \in Seq(AllPieces) /\ Stale(s) \in Seq(AllPieces)
      <3>1. <<s.from, s.at>> \in AllPieces /\ <<s.at, s.at>> \in AllPieces
        BY <2>1, ProxyBoundsAssumption DEF AllPieces
      <3> QED BY <3>1 DEF Pending, Stale
    <2>3. Whole(s.at, upto) \in Seq(AllPieces)
      <3>1. CASE s.at <= upto
        <4>1. Whole(s.at, upto) \in Seq(PiecesTo(upto) \cap NonEmpty)
          BY <2>1, <3>1, ProxyBoundsAssumption, WholeFacts
        <4>2. PiecesTo(upto) \cap NonEmpty \subseteq AllPieces
          BY ProxyBoundsAssumption DEF PiecesTo, AllPieces, Piece
        <4> QED BY <4>1, <4>2, SeqMonotonic
      <3>2. CASE ~(s.at <= upto)
        <4>1. upto \div CmdLen <= s.at \div CmdLen
          BY <2>1, <3>2, ProxyBoundsAssumption, DivMonotonic
        <4>2. upto \div CmdLen \in Nat /\ s.at \div CmdLen \in Nat
          BY <2>1, ProxyBoundsAssumption, DivFacts
        <4> QED BY <4>1, <4>2 DEF Whole, Completed
      <3> QED BY <3>1, <3>2
    <2> QED BY <2>2, <2>3 DEF Pieces
  <1> QED BY <1>1 DEF AllRuns

\* The assumptions of Upstream.tla.
LEMMA LinkAssumptions ==
  Link!QueueSizeAssumption /\ Link!ReadersAssumption /\ Link!CmdsAssumption
  <1>1. Link!QueueSizeAssumption
    BY ProxyBoundsAssumption DEF Link!QueueSizeAssumption
  <1>2. Link!ReadersAssumption
    BY ProxyPeersAssumption DEF Link!ReadersAssumption, Clients
  <1>3. AuthCmd \notin AllPieces
    BY ProxyBoundsAssumption DEF AuthCmd, AllPieces
  <1>4. AllRuns \subseteq Seq(AllPieces \union {AuthCmd})
    BY AllRunsTyped, SeqMonotonic
  <1>5. Link!CmdsAssumption
    BY <1>3, <1>4 DEF Link!CmdsAssumption
  <1> QED BY <1>1, <1>2, <1>5

\* Link is the Pipeline of Proxy.tla.
LEMMA LinkIsPipeline == Link!Spec <=> PipelineSpec
  <1>1. Link!Init <=> Pipeline!Init
    BY DEF Link!Init, Pipeline!Init, LinkState, LinkBuffer, Link!AuthRequest,
           Pipeline!AuthRequest
  <1>2. (UNCHANGED Link!vars) <=> (UNCHANGED Pipeline!vars)
    BY DEF Link!vars, Pipeline!vars, LinkState, LinkBuffer
  <1>3. Link!Next <=> Pipeline!Next
    <2>1. \A r, run : Link!PushRequests(r, run) <=> Pipeline!PushRequests(r, run)
      BY DEF Link!PushRequests, Pipeline!PushRequests, Link!Accepted, Pipeline!Accepted,
             Link!Room, Pipeline!Room, Link!IsAcceptable, Pipeline!IsAcceptable,
             LinkState, LinkBuffer
    <2>2. \A k : Link!WriteOut(k) <=> Pipeline!WriteOut(k)
      BY DEF Link!WriteOut, Pipeline!WriteOut, LinkState, LinkBuffer
    <2>3. \A kind : Link!ServerReply(kind) <=> Pipeline!ServerReply(kind)
      BY DEF Link!ServerReply, Pipeline!ServerReply, LinkState, LinkBuffer
    <2>4. \A j : Link!OnServerRead(j) <=> Pipeline!OnServerRead(j)
      BY DEF Link!OnServerRead, Pipeline!OnServerRead, Link!HandOut, Pipeline!HandOut,
             Link!Unparsable, Pipeline!Unparsable, LinkState, LinkBuffer
    <2>5. Link!OnServerClosed <=> Pipeline!OnServerClosed
      BY DEF Link!OnServerClosed, Pipeline!OnServerClosed, LinkState, LinkBuffer
    <2>6. Link!ReplyKinds = Pipeline!ReplyKinds
      BY DEF Link!ReplyKinds, Pipeline!ReplyKinds
    <2> QED
      BY <2>1, <2>2, <2>3, <2>4, <2>5, <2>6 DEF Link!Next, Pipeline!Next, LinkBuffer
  <1> QED
    BY <1>1, <1>2, <1>3, PTL DEF PipelineSpec, Link!Spec, Pipeline!Spec

LEMMA LinkInit == Link!Init => Link!IInv
  BY LinkAssumptions, Link!InitIInv

LEMMA LinkNext == Link!IInv /\ [Link!Next]_(Link!vars) => Link!IInv'
  BY LinkAssumptions, Link!NextIInv

--------------------------------------------------------------------------------
(* Steps that touch one connection. *)

LEMMA AlikeSettled ==
  ASSUME NEW o, NEW p, NEW a, Alike(o, p), Settled(o, a)
  PROVE  Settled(p, a)
  BY DEF Alike, Settled

LEMMA SettledKept ==
  ASSUME ProxyInv, UNCHANGED clientConn, NEW a \in Addrs, NEW p,
         OnlyAt(net, net', a, p), Settled(p, a)
  PROVE  \A b \in Addrs : Settled(net.mem[b], b)'
  <1>1. net'.mem[a] = p /\ \A b \in Addrs \ {a} : net'.mem[b] = net.mem[b]
    BY OnlyAtFacts DEF ProxyInv, Coherent
  <1>2. \A b \in Addrs : Settled(net'.mem[b], b)
    BY <1>1 DEF ProxyInv
  <1> QED BY <1>2 DEF Settled

\* The link is what it was if the server connection is.
LEMMA LinkFrame ==
  ASSUME ProxyInv, NEW a \in Addrs, NEW p, OnlyAt(net, net', a, p),
         a = ServerAddr =>
           IF ServerUp THEN p.state = "live" /\ p.peer = Redis /\ p.send = net.mem[a].send
           ELSE ~(p.state = "live" /\ p.peer = Redis)
  PROVE  /\ ServerUp' <=> ServerUp
         /\ LinkState' = LinkState
         /\ LinkBuffer' = LinkBuffer
  <1>1. net'.mem[a] = p /\ \A b \in Addrs \ {a} : net'.mem[b] = net.mem[b]
    BY OnlyAtFacts DEF ProxyInv, Coherent
  <1>2. CASE a = ServerAddr
    BY <1>1, <1>2 DEF ServerUp, Live, LinkState, LinkBuffer
  <1>3. CASE a # ServerAddr
    <2>1. net'.mem[ServerAddr] = net.mem[ServerAddr]
      BY <1>1, <1>3, ProxyAddrsAssumption
    <2> QED BY <2>1 DEF ServerUp, Live, LinkState, LinkBuffer
  <1> QED BY <1>2, <1>3

LEMMA LinkKept ==
  ASSUME UNCHANGED upstreamVars, LinkState' = LinkState, LinkBuffer' = LinkBuffer
  PROVE  UNCHANGED Link!vars
  BY DEF upstreamVars, Link!vars

\* The server's connection is the one at ServerAddr, and no client's is while it lives.
LEMMA ServerPlace ==
  ASSUME ProxyInv, NEW a \in Addrs, Live(net, a)
  PROVE  /\ net.mem[a].peer = Redis <=> a = ServerAddr /\ ServerUp
         /\ net.mem[a].peer # Redis => /\ net.mem[a].peer \in Clients
                                       /\ clientConn[net.mem[a].peer] = a
         /\ ServerUp => \A c \in Clients : clientConn[c] # ServerAddr
  BY ProxyAddrsAssumption DEF ProxyInv, Settled, Live, ServerUp, Clients

LEMMA InitInv == Init => IInv /\ Link!Init
  <1> SUFFICES ASSUME Init PROVE IInv /\ Link!Init
    OBVIOUS
  <1> DEFINE connected == Update(EmptyNetwork, ServerAddr, NewObject(Redis))
             request == [asker |-> AuthReader, cmd |-> AuthCmd]
             asked == WriteToBuffer(connected, ServerAddr, <<request>>)
  <1>1. /\ Coherent(connected) /\ connected \in Network
        /\ connected.mem[ServerAddr] = NewObject(Redis)
        /\ \A a \in Addrs \ {ServerAddr} : connected.mem[a] = Unused
    <2>1. Coherent(connected)
      BY EmptyNetworkCoherent, NewObjectCoherent, ProxyAddrsAssumption,
         ProxyPeersAssumption
    <2>2. /\ connected.mem[ServerAddr] = NewObject(Redis)
          /\ \A a \in Addrs \ {ServerAddr} : connected.mem[a] = Unused
      BY ProxyAddrsAssumption DEF Update, EmptyNetwork
    <2> QED BY <2>1, <2>2 DEF Coherent
  <1>2. /\ NewObject(Redis).state = "live" /\ NewObject(Redis).peer = Redis
        /\ NewObject(Redis).closing = FALSE /\ NewObject(Redis).send = <<>>
        /\ Unused.state = "unused"
    BY DEF NewObject, Connected, Unused
  <1>3. request \in Items /\ <<request>> \in Seq(Items)
    <2>1. AuthCmd \in (0..Total) \X (0..(Total + 1))
      BY ProxyBoundsAssumption DEF AuthCmd
    <2> QED BY <2>1, ProxyItemsAssumption DEF Request
  <1>4. PICK p : /\ OnlyAt(connected, asked, ServerAddr, p)
                 /\ p.state = "live" /\ p.peer = Redis /\ p.closing = FALSE
                 /\ p.send = <<>> \o <<request>>
    <2> HIDE DEF connected, request
    <2>1. PICK p : /\ OnlyAt(connected, asked, ServerAddr, p)
                   /\ Extends(connected.mem[ServerAddr], p, <<request>>)
      BY <1>1, <1>3, ProxyAddrsAssumption, WriteToBufferFrame
    <2> QED BY <1>1, <1>2, <2>1 DEF Extends
  <1> HIDE DEF connected, asked
  <1>5. asked.mem[ServerAddr] = p
        /\ \A a \in Addrs \ {ServerAddr} : asked.mem[a] = Unused
    BY <1>1, <1>4, OnlyAtFacts, ProxyAddrsAssumption
  <1>6. p.send = <<request>> /\ AuthAsked(p.send)
    <2>1. p.send = <<request>>
      BY <1>3, <1>4
    <2> QED BY <2>1 DEF AuthAsked
  <1>7. AuthAsked(<<>>)
    BY DEF AuthAsked
  <1>8. /\ session = [c \in Clients |-> NewSession]
        /\ clientConn = [c \in Clients |-> NoAddr]
        /\ jammed = FALSE /\ orphan = FALSE /\ toServer = <<>> /\ toProxy = <<>>
        /\ swallowed = 0 /\ got = [c \in Clients |-> <<>>] /\ crashed = FALSE
        /\ \/ auth = TRUE /\ cmdQueue = <<>> /\ net = connected
           \/ auth = FALSE /\ cmdQueue = <<AuthReader>> /\ net = asked
    BY DEF Init, connected, asked
  <1>9. Coherent(net)
    <2>1. Coherent(asked)
      BY <1>1, <1>3, ProxyAddrsAssumption, WriteToBufferCoherent DEF asked
    <2> QED BY <1>1, <1>8, <2>1
  <1>10. \A a \in Addrs : Settled(net.mem[a], a)
    BY <1>1, <1>2, <1>4, <1>5, <1>6, <1>7, <1>8, ProxyAddrsAssumption DEF Settled
  <1>11. SessionsSound
    <2>1. InStep(NewSession) /\ NewSession \in SessionState /\ NewSession.read <= Total
      BY ProxyBoundsAssumption DEF InStep, NewSession, SessionState
    <2> QED BY <1>8, <2>1 DEF SessionsSound
  <1>12. ReadersConnected
    BY <1>8, ProxyPeersAssumption DEF ReadersConnected, Clients
  <1>13. ProxyInv
    <2>1. clientConn \in [Clients -> Addrs \union {NoAddr}] /\ crashed \in BOOLEAN
      BY <1>8
    <2>2. got \in [Clients -> Seq(Items)]
      BY <1>8
    <2>3. AuthAsked(toServer)
      BY <1>7, <1>8
    <2> QED BY <1>9, <1>10, <1>11, <1>12, <2>1, <2>2, <2>3 DEF ProxyInv
  <1>14. Link!Init
    <2>1. ServerUp /\ LinkState = "up"
      BY <1>1, <1>2, <1>4, <1>5, <1>8 DEF ServerUp, Live, LinkState
    <2>2. LinkBuffer = net.mem[ServerAddr].send
      BY <2>1 DEF LinkBuffer
    <2>3. request = Link!AuthRequest
      BY DEF Link!AuthRequest
    <2> HIDE DEF request
    <2> QED BY <1>1, <1>2, <1>5, <1>6, <1>8, <2>1, <2>2, <2>3 DEF Link!Init
  <1> QED BY <1>13, <1>14, LinkInit DEF IInv

--------------------------------------------------------------------------------
(* One lemma per action: ProxyInv is kept and the pipeline makes a step of its own or *)
(* none.                                                                          *)

PipelineStep == [Link!Next]_(Link!vars)

\* A step that changes one connection and no session.
LEMMA OneConnection ==
  ASSUME ProxyInv, UNCHANGED <<session, clientConn, cmdQueue>>,
         NEW a \in Addrs, NEW p, OnlyAt(net, net', a, p), Settled(p, a),
         Coherent(net'), AuthAsked(toServer'), got' \in [Clients -> Seq(Items)],
         crashed' \in BOOLEAN
  PROVE  ProxyInv'
  <1>1. \A b \in Addrs : Settled(net.mem[b], b)'
    BY SettledKept
  <1>2. SessionsSound'
    BY DEF ProxyInv, SessionsSound
  <1>3. ReadersConnected'
    BY DEF ProxyInv, ReadersConnected
  <1>4. (clientConn \in [Clients -> Addrs \union {NoAddr}])'
    BY DEF ProxyInv
  <1>5. Coherent(net)' /\ AuthAsked(toServer)'
    BY DEF Coherent, AuthAsked
  <1> QED
    BY <1>1, <1>2, <1>3, <1>4, <1>5 DEF ProxyInv

\* A freed connection, or one that kept its state, peer and output, is settled and
\* does not show in the pipeline unless it was the server's that is gone.
LEMMA AlikeStep ==
  ASSUME ProxyInv, UNCHANGED <<session, clientConn, got, crashed, upstreamVars>>,
         NEW a \in Addrs, NEW p, OnlyAt(net, net', a, p), Alike(net.mem[a], p),
         Coherent(net')
  PROVE  ProxyInv' /\ PipelineStep
  <1>1. Settled(p, a)
    BY AlikeSettled DEF ProxyInv
  <1>2. ProxyInv'
    <2>1. AuthAsked(toServer') /\ got' \in [Clients -> Seq(Items)] /\ crashed' \in BOOLEAN
      BY DEF ProxyInv, upstreamVars
    <2>2. UNCHANGED <<session, clientConn, cmdQueue>>
      BY DEF upstreamVars
    <2> QED BY <1>1, <2>1, <2>2, OneConnection
  <1>3. LinkState' = LinkState /\ LinkBuffer' = LinkBuffer
    BY LinkFrame DEF Alike, ServerUp, Live
  <1> QED BY <1>2, <1>3, LinkKept DEF PipelineStep

LEMMA WriteFailsInv ==
  ASSUME ProxyInv, NEW a \in Addrs, WriteFails(a)
  PROVE  ProxyInv' /\ PipelineStep
  <1>1. /\ Live(net, a) /\ net.mem[a].gone /\ net' = OnWriteError(net, a)
        /\ UNCHANGED <<session, clientConn, got, crashed, upstreamVars>>
    BY DEF WriteFails
  <1>2. Coherent(net) /\ net \in Network
    BY DEF ProxyInv, Coherent
  <1>3. Coherent(net')
    BY <1>1, <1>2, OnWriteErrorCoherent
  <1>4. PICK p : OnlyAt(net, net', a, p) /\ Alike(net.mem[a], p)
    BY <1>1, <1>2, SetWritableFrame DEF OnWriteError
  <1> QED BY <1>1, <1>3, <1>4, AlikeStep

LEMMA PeerClosesInv ==
  ASSUME ProxyInv, NEW a \in Addrs, PeerCloses(a)
  PROVE  ProxyInv' /\ PipelineStep
  <1> DEFINE p == [net.mem[a] EXCEPT !.gone = TRUE]
  <1>1. /\ net' = [net EXCEPT !.mem[a].gone = TRUE]
        /\ UNCHANGED <<session, clientConn, got, crashed, upstreamVars>>
    BY DEF PeerCloses
  <1>2. Coherent(net) /\ net \in Network /\ net.mem[a] \in Object
    BY DEF ProxyInv, Coherent, Network
  <1>3. Coherent(net')
    BY <1>1, <1>2, GoneCoherent
  <1>4. OnlyAt(net, net', a, p)
    BY <1>1, <1>2 DEF OnlyAt, Network
  <1>5. Alike(net.mem[a], p)
    BY <1>2 DEF Alike, Object
  <1> QED BY <1>1, <1>3, <1>4, <1>5, AlikeStep

LEMMA WriteFreedInv ==
  ASSUME ProxyInv, WriteFreed
  PROVE  ProxyInv' /\ PipelineStep
  <1>1. crashed' \in BOOLEAN /\ UNCHANGED <<net, session, clientConn, got, upstreamVars>>
    BY DEF WriteFreed
  <1>2. ProxyInv'
    BY <1>1 DEF ProxyInv, upstreamVars, Coherent, SessionsSound, Settled,
                ReadersConnected, AuthAsked
  <1>3. LinkState' = LinkState /\ LinkBuffer' = LinkBuffer
    BY <1>1 DEF LinkState, LinkBuffer, ServerUp, Live
  <1> QED BY <1>1, <1>2, <1>3, LinkKept DEF PipelineStep

LEMMA OnPeerGoneInv ==
  ASSUME ProxyInv, NEW a \in Addrs, OnPeerGone(a)
  PROVE  ProxyInv' /\ PipelineStep
  <1>1. /\ Live(net, a) /\ net' = Close(net, a)
        /\ IF net.mem[a].peer = Redis THEN toServer' = <<>> /\ toProxy' = <<>>
           ELSE UNCHANGED <<toServer, toProxy>>
        /\ UNCHANGED <<session, clientConn, cmdQueue, auth, jammed, orphan, swallowed, got,
                       crashed>>
    BY DEF OnPeerGone
  <1>2. Coherent(net) /\ net \in Network
    BY DEF ProxyInv, Coherent
  <1>3. Coherent(net')
    BY <1>1, <1>2, CloseCoherent
  <1>4. PICK p : OnlyAt(net, net', a, p) /\ p.state = "freed"
    BY <1>1, <1>2, CloseFrame
  <1>5. Settled(p, a)
    BY <1>4 DEF Settled
  <1>6. ProxyInv'
    <2>1. AuthAsked(toServer')
      BY <1>1 DEF ProxyInv, AuthAsked
    <2>2. got' \in [Clients -> Seq(Items)] /\ crashed' \in BOOLEAN
      BY <1>1 DEF ProxyInv
    <2> QED BY <1>1, <1>3, <1>4, <1>5, <2>1, <2>2, OneConnection
  <1>7. CASE net.mem[a].peer = Redis
    <2>1. a = ServerAddr /\ ServerUp
      BY <1>1, <1>7, ServerPlace
    <2>2. net'.mem[a] = p
      BY <1>2, <1>4, OnlyAtFacts
    <2>3. ~ServerUp'
      BY <1>4, <2>1, <2>2 DEF ServerUp, Live
    <2>4. LinkState = "up" /\ LinkState' = "freed" /\ LinkBuffer' = <<>>
      BY <2>1, <2>3 DEF LinkState, LinkBuffer
    <2>5. Link!OnServerClosed
      BY <1>1, <1>7, <2>4 DEF Link!OnServerClosed
    <2>6. Link!Next
      BY <2>5 DEF Link!Next
    <2> QED BY <1>6, <2>6 DEF PipelineStep
  <1>8. CASE net.mem[a].peer # Redis
    <2>1. ~(a = ServerAddr /\ ServerUp)
      BY <1>1, <1>8, ServerPlace
    <2>2. LinkState' = LinkState /\ LinkBuffer' = LinkBuffer
      BY <1>4, <2>1, LinkFrame
    <2>3. UNCHANGED upstreamVars
      BY <1>1, <1>8 DEF upstreamVars
    <2> QED BY <1>6, <2>2, <2>3, LinkKept DEF PipelineStep
  <1> QED BY <1>7, <1>8

LEMMA AcceptInv ==
  ASSUME ProxyInv, NEW c \in Clients, NEW a \in Addrs, Accept(c, a)
  PROVE  ProxyInv' /\ PipelineStep
  <1> DEFINE o == NewObject(c)
  <1>1. /\ clientConn[c] = NoAddr /\ ~Live(net, a) /\ net' = Update(net, a, o)
        /\ clientConn' = [clientConn EXCEPT ![c] = a]
        /\ UNCHANGED <<session, got, crashed, upstreamVars>>
    BY DEF Accept
  <1>2. Coherent(net) /\ net \in Network /\ c \in Peers /\ c # Redis
    BY DEF ProxyInv, Coherent, Clients
  <1>3. Coherent(net')
    BY <1>1, <1>2, NewObjectCoherent
  <1>4. OnlyAt(net, net', a, o)
    BY <1>1, <1>2 DEF OnlyAt, Update, Network
  <1>5. o.state = "live" /\ o.peer = c
    BY DEF NewObject, Connected
  <1> HIDE DEF o
  <1>6. net'.mem[a] = o /\ \A b \in Addrs \ {a} : net'.mem[b] = net.mem[b]
    BY <1>2, <1>4, OnlyAtFacts
  <1>7. /\ clientConn \in [Clients -> Addrs \union {NoAddr}]
        /\ clientConn' \in [Clients -> Addrs \union {NoAddr}]
        /\ clientConn'[c] = a /\ \A d \in Clients \ {c} : clientConn'[d] = clientConn[d]
    BY <1>1 DEF ProxyInv
  <1>8. ASSUME NEW b \in Addrs PROVE Settled(net.mem[b], b)'
    <2>1. CASE b = a
      BY <1>5, <1>6, <1>7, <2>1 DEF Settled
    <2>2. CASE b # a
      <3>1. Settled(net.mem[b], b) /\ net'.mem[b] = net.mem[b]
        BY <1>6, <2>2 DEF ProxyInv
      <3>2. clientConn[c] # b
        BY <1>1, ProxyAddrsAssumption
      <3>3. \A d \in Clients : clientConn[d] = b <=> clientConn'[d] = b
        BY <1>7, <2>2, <3>2
      <3> QED BY <3>1, <3>3 DEF Settled
    <2> QED BY <2>1, <2>2
  <1>9. ProxyInv'
    <2>1. SessionsSound'
      BY <1>1 DEF ProxyInv, SessionsSound
    <2>2. ReadersConnected'
      <3>1. cmdQueue' = cmdQueue
        BY <1>1 DEF upstreamVars
      <3>2. \A d \in Clients : clientConn[d] \in Addrs => clientConn'[d] \in Addrs
        BY <1>7
      <3> QED BY <3>1, <3>2 DEF ProxyInv, ReadersConnected
    <2>3. AuthAsked(toServer)' /\ got' \in [Clients -> Seq(Items)] /\ crashed' \in BOOLEAN
      BY <1>1 DEF ProxyInv, upstreamVars, AuthAsked
    <2>4. Coherent(net)'
      BY <1>3 DEF Coherent
    <2> QED BY <1>7, <1>8, <2>1, <2>2, <2>3, <2>4 DEF ProxyInv
  <1>10. LinkState' = LinkState /\ LinkBuffer' = LinkBuffer
    <2>1. a = ServerAddr => ~ServerUp
      BY <1>1 DEF ServerUp
    <2> QED BY <1>2, <1>4, <1>5, <2>1, LinkFrame
  <1> QED BY <1>1, <1>9, <1>10, LinkKept DEF PipelineStep

\* What the pipeline of a proxy holds.
LEMMA LinkTyped ==
  ASSUME IInv
  PROVE  /\ cmdQueue \in Seq(Clients \union {AuthReader}) /\ Len(cmdQueue) <= QueueSize - 1
         /\ auth \in BOOLEAN /\ jammed \in BOOLEAN /\ orphan = FALSE
         /\ LinkBuffer \in Seq(Link!Request)
         /\ toServer \in Seq(Link!Request)
         /\ toProxy \in Seq(Link!Reply)
         /\ swallowed \in Nat
  <1>1. Link!TypeOK /\ Link!NoOrphanReply
    BY DEF IInv, Link!IInv
  <1>2. orphan = FALSE
    BY <1>1 DEF Link!NoOrphanReply, Link!TypeOK
  <1> QED BY <1>1, <1>2 DEF Link!TypeOK, Link!Askers

LEMMA LinkRequests ==
  /\ Link!Request \subseteq Request
  /\ Link!Reply \subseteq Reply
  /\ \A r \in Link!Request : /\ r.cmd \in AllPieces \union {AuthCmd}
                             /\ r.asker \in Clients \union {AuthReader}
  <1>1. AllPieces \union {AuthCmd} \subseteq (0..Total) \X (0..(Total + 1))
    BY ProxyBoundsAssumption DEF AllPieces, AuthCmd
  <1>2. Link!Request \subseteq Request
    BY <1>1 DEF Link!Request, Link!Askers, Request
  <1>3. Link!Reply \subseteq Reply
    BY <1>2 DEF Link!Reply, Link!ReplyKinds, Reply
  <1> QED
    BY <1>2, <1>3 DEF Link!Request, Link!Askers

LEMMA ServerReplyInv ==
  ASSUME IInv, NEW kind \in {"status", "error", "emptyBulk"}, ServerReply(kind)
  PROVE  ProxyInv' /\ PipelineStep
  <1> DEFINE req == Head(toServer)
  <1>1. /\ ServerUp /\ toServer # <<>> /\ toServer' = Tail(toServer)
        /\ IF req.cmd[1] = req.cmd[2]
           THEN swallowed' = swallowed + 1 /\ UNCHANGED toProxy
           ELSE /\ kind \in (IF req.asker = AuthReader THEN {"status", "error"}
                             ELSE {"status", "emptyBulk"})
                /\ toProxy' = Append(toProxy, [req |-> req, kind |-> kind])
                /\ UNCHANGED swallowed
        /\ UNCHANGED <<net, session, clientConn, cmdQueue, auth, jammed, orphan, got,
                       crashed>>
    BY DEF ServerReply
  <1>2. ProxyInv /\ toServer \in Seq(Link!Request)
    BY LinkTyped DEF IInv
  <1>3. /\ req \in Link!Request /\ req = toServer[1] /\ 1 \in 1..Len(toServer)
        /\ Len(Tail(toServer)) = Len(toServer) - 1 /\ Len(toServer) \in Nat
        /\ \A i \in 1..Len(Tail(toServer)) : Tail(toServer)[i] = toServer[i + 1]
    BY <1>1, <1>2
  <1>4. req.cmd \in AllPieces \union {AuthCmd}
    BY <1>3, LinkRequests
  <1>5. AuthCmd[1] # AuthCmd[2]
    BY ProxyBoundsAssumption DEF AuthCmd
  <1>6. req.cmd[1] = req.cmd[2] <=> req.cmd \in {p \in AllPieces : p[1] = p[2]}
    BY <1>4, <1>5
  <1>7. req.cmd = AuthCmd => req.asker = AuthReader
    BY <1>2, <1>3 DEF ProxyInv, AuthAsked
  <1>8. AuthAsked(toServer')
    BY <1>1, <1>2, <1>3 DEF ProxyInv, AuthAsked
  <1>9. ProxyInv'
    <2>1. /\ Coherent(net)' /\ SessionsSound' /\ ReadersConnected'
          /\ \A a \in Addrs : Settled(net.mem[a], a)'
      BY <1>1, <1>2 DEF ProxyInv, Coherent, SessionsSound, ReadersConnected, Settled
    <2>2. /\ clientConn' \in [Clients -> Addrs \union {NoAddr}]
          /\ got' \in [Clients -> Seq(Items)] /\ crashed' \in BOOLEAN
      BY <1>1, <1>2 DEF ProxyInv
    <2> QED BY <1>8, <2>1, <2>2 DEF ProxyInv, AuthAsked
  <1>10. LinkState = "up" /\ UNCHANGED <<LinkState, LinkBuffer>>
    BY <1>1 DEF LinkState, LinkBuffer, ServerUp, Live
  <1>11. Link!ServerReply(kind)
    <2> HIDE DEF req
    <2>1. IF req.cmd \in {p \in AllPieces : p[1] = p[2]}
          THEN swallowed' = swallowed + 1 /\ UNCHANGED toProxy
          ELSE /\ req.cmd = AuthCmd => kind # "emptyBulk"
               /\ toProxy' = Append(toProxy, [req |-> req, kind |-> kind])
               /\ UNCHANGED swallowed
      BY <1>1, <1>6, <1>7
    <2> QED BY <1>1, <1>10, <2>1 DEF Link!ServerReply, req
  <1>12. kind \in Link!ReplyKinds
    BY DEF Link!ReplyKinds
  <1> QED BY <1>9, <1>11, <1>12 DEF PipelineStep, Link!Next

\* Whatever the socket takes, nothing is lost.
LEMMA CutFacts ==
  ASSUME NEW S, NEW s \in Seq(S), NEW k \in 0..Len(s)
  PROVE  /\ SubSeq(s, 1, k) \in Seq(S) /\ Len(SubSeq(s, 1, k)) = k
         /\ \A i \in 1..k : SubSeq(s, 1, k)[i] = s[i]
         /\ SubSeq(s, k + 1, Len(s)) \in Seq(S) /\ Len(SubSeq(s, k + 1, Len(s))) = Len(s) - k
         /\ \A i \in 1..(Len(s) - k) : SubSeq(s, k + 1, Len(s))[i] = s[i + k]
         /\ k = 0 => SubSeq(s, 1, k) = <<>> /\ SubSeq(s, k + 1, Len(s)) = s
  OBVIOUS

LEMMA AuthAskedJoined ==
  ASSUME NEW S, NEW s \in Seq(S), NEW t \in Seq(S), AuthAsked(s), AuthAsked(t)
  PROVE  AuthAsked(s \o t)
  <1>1. /\ Len(s) \in Nat /\ Len(t) \in Nat
        /\ \A i \in 1..Len(s \o t) : \/ i \in 1..Len(s) /\ (s \o t)[i] = s[i]
                                     \/ i - Len(s) \in 1..Len(t)
                                        /\ (s \o t)[i] = t[i - Len(s)]
    OBVIOUS
  <1> QED BY <1>1 DEF AuthAsked

LEMMA AuthAskedCut ==
  ASSUME NEW S, NEW s \in Seq(S), AuthAsked(s), NEW k \in 0..Len(s)
  PROVE  AuthAsked(SubSeq(s, 1, k)) /\ AuthAsked(SubSeq(s, k + 1, Len(s)))
  <1>1. \A i \in 1..(Len(s) - k) : i + k \in 1..Len(s)
    OBVIOUS
  <1> QED BY <1>1, CutFacts DEF AuthAsked

LEMMA WriteOutInv ==
  ASSUME IInv, NEW a \in Addrs, NEW k \in 0..Len(net.mem[a].send), WriteOut(a, k)
  PROVE  ProxyInv' /\ PipelineStep
  <1> DEFINE o == net.mem[a]
             items == SubSeq(o.send, 1, k)
             rest == SubSeq(o.send, k + 1, Len(o.send))
  <1>1. /\ Live(net, a) /\ net' = OnWritable(net, a, k)
        /\ IF o.peer = Redis THEN toServer' = toServer \o items /\ UNCHANGED got
           ELSE got' = [got EXCEPT ![o.peer] = @ \o items] /\ UNCHANGED toServer
        /\ UNCHANGED <<session, clientConn, cmdQueue, auth, jammed, orphan, toProxy,
                       swallowed, crashed>>
    BY DEF WriteOut, Delivered
  <1>2. /\ ProxyInv /\ Coherent(net) /\ net \in Network /\ o \in Object
        /\ o.send \in Seq(Items) /\ Settled(o, a)
    <2>1. ProxyInv /\ Coherent(net) /\ net \in Network
      BY DEF IInv, ProxyInv, Coherent
    <2>2. o \in Object
      BY <2>1 DEF Network
    <2> QED BY <2>1, <2>2 DEF Object, ProxyInv
  <1>3. Coherent(net')
    BY <1>1, <1>2, OnWritableCoherent
  <1>4. PICK p : /\ OnlyAt(net, net', a, p)
                 /\ \/ o.closing /\ p.state = "freed"
                    \/ /\ p.state = o.state /\ p.peer = o.peer /\ p.closing = o.closing
                       /\ p.connected = o.connected /\ p.send = rest
    BY <1>1, <1>2, OnWritableFrame
  <1>5. /\ o.peer = Redis <=> a = ServerAddr /\ ServerUp
        /\ o.peer # Redis => o.peer \in Clients
    BY <1>1, <1>2, ServerPlace
  <1> HIDE DEF o, items, rest
  <1>6. /\ items \in Seq(Items) /\ rest \in Seq(Items)
        /\ k = 0 => items = <<>> /\ rest = o.send
        /\ AuthAsked(o.send) => AuthAsked(items) /\ AuthAsked(rest)
    <2>1. k \in 0..Len(o.send)
      BY DEF o
    <2> QED BY <1>2, <2>1, CutFacts, AuthAskedCut DEF items, rest
  <1>7. Settled(p, a)
    <2>1. CASE p.state = "freed"
      BY <2>1 DEF Settled
    <2>2. CASE /\ p.state = o.state /\ p.peer = o.peer /\ p.closing = o.closing
               /\ p.send = rest
      BY <1>2, <1>6, <2>2 DEF Settled
    <2> QED BY <1>4, <2>1, <2>2
  <1>8. got' \in [Clients -> Seq(Items)]
    <2>1. got \in [Clients -> Seq(Items)]
      BY <1>2 DEF ProxyInv
    <2>2. \A c \in Clients : got[c] \o items \in Seq(Items)
      BY <1>6, <2>1
    <2> QED BY <1>1, <1>5, <2>1, <2>2
  <1>9. o.peer = Redis => /\ o.state = "live" /\ ~o.closing /\ AuthAsked(o.send)
                          /\ p.state = "live" /\ p.peer = Redis /\ p.send = rest
    <2>1. o.state = "live"
      BY <1>1 DEF Live, o
    <2>2. o.peer = Redis => ~o.closing /\ AuthAsked(o.send)
      BY <1>2, <2>1 DEF Settled, Clients
    <2> QED BY <1>4, <2>1, <2>2
  <1>10. toServer \in Seq(Link!Request) /\ toServer \in Seq(Items)
    <2>1. toServer \in Seq(Link!Request) /\ Link!Request \subseteq Items
      BY LinkTyped, LinkRequests, ProxyItemsAssumption
    <2> QED BY <2>1, SeqMonotonic
  <1>11. AuthAsked(toServer')
    <2>1. AuthAsked(toServer)
      BY <1>2 DEF ProxyInv
    <2>2. CASE o.peer = Redis
      BY <1>1, <1>6, <1>9, <1>10, <2>1, <2>2, AuthAskedJoined
    <2>3. CASE o.peer # Redis
      BY <1>1, <2>1, <2>3
    <2> QED BY <2>2, <2>3
  <1>12. ProxyInv'
    <2>1. crashed' \in BOOLEAN /\ UNCHANGED <<session, clientConn, cmdQueue>>
      BY <1>1, <1>2 DEF ProxyInv
    <2> QED BY <1>2, <1>3, <1>4, <1>7, <1>8, <1>11, <2>1, OneConnection
  <1>13. CASE o.peer # Redis
    <2>1. LinkState' = LinkState /\ LinkBuffer' = LinkBuffer
      <3>1. a = ServerAddr => ~ServerUp /\ ~(p.state = "live" /\ p.peer = Redis)
        <4>1. p.state = "freed" => p.state # "live"
          OBVIOUS
        <4> QED BY <1>4, <1>5, <1>13, <4>1
      <3> QED BY <1>2, <1>4, <3>1, LinkFrame
    <2>2. UNCHANGED upstreamVars
      BY <1>1, <1>13 DEF upstreamVars
    <2> QED BY <1>12, <2>1, <2>2, LinkKept DEF PipelineStep
  <1>14. CASE o.peer = Redis
    <2>1. net'.mem[ServerAddr] = p /\ a = ServerAddr /\ ServerUp
      BY <1>2, <1>4, <1>5, <1>14, OnlyAtFacts
    <2>2. ServerUp' /\ net'.mem[ServerAddr].send = rest /\ LinkBuffer = o.send
      BY <1>9, <1>14, <2>1 DEF ServerUp, Live, LinkBuffer, o
    <2>3. LinkState = "up" /\ LinkState' = "up" /\ LinkBuffer' = rest
      BY <2>1, <2>2 DEF LinkState, LinkBuffer
    <2>4. toServer' = toServer \o items
      BY <1>1, <1>14
    <2>5. UNCHANGED <<cmdQueue, auth, jammed, orphan, toProxy, swallowed>>
      BY <1>1
    <2>6. CASE k = 0
      <3>1. toServer' = toServer /\ LinkBuffer' = LinkBuffer
        BY <1>6, <1>10, <2>2, <2>3, <2>4, <2>6
      <3> QED
        BY <1>12, <2>3, <2>5, <3>1, LinkKept DEF PipelineStep, upstreamVars
    <2>7. CASE k # 0
      <3>1. k \in 1..Len(LinkBuffer)
        BY <2>2, <2>7, <1>2 DEF o
      <3>2. items = SubSeq(LinkBuffer, 1, k)
            /\ rest = SubSeq(LinkBuffer, k + 1, Len(LinkBuffer))
        BY <2>2 DEF items, rest, o
      <3>3. Link!WriteOut(k)
        BY <2>3, <2>4, <2>5, <3>2 DEF Link!WriteOut
      <3>4. Link!Next
        BY <3>1, <3>3 DEF Link!Next
      <3> QED BY <1>12, <3>4 DEF PipelineStep
    <2> QED BY <2>6, <2>7
  <1> QED BY <1>13, <1>14

\* The network m is n after the items were written to the server connection, which made
\* it asked, and the connection at a, which is still its peer's, was told to send bad or
\* nothing.
WroteAndChanged(n, asked, m, a, items, bad, q, p) ==
  /\ OnlyAt(n, asked, ServerAddr, q) /\ Extends(n.mem[ServerAddr], q, items)
  /\ asked \in Network /\ OnlyAt(asked, m, a, p)
  /\ p.state = asked.mem[a].state /\ p.peer = asked.mem[a].peer
  /\ p.connected = asked.mem[a].connected
  /\ \/ p.send = asked.mem[a].send
     \/ asked.mem[a].state = "live" /\ p.send = asked.mem[a].send \o <<bad>>

\* That is what OnClientRead does.
LEMMA ReadEffectFrame ==
  ASSUME NEW n, Coherent(n), NEW a \in Addrs, NEW items \in Seq(Items),
         NEW asked,
         asked = IF items = <<>> THEN n ELSE WriteToBuffer(n, ServerAddr, items),
         NEW bad \in Items, NEW m,
         \/ m = asked
         \/ m = SetReadable(asked, a, FALSE)
         \/ m = WriteAndClose(asked, a, <<bad>>)
  PROVE  /\ Coherent(m)
         /\ \E q, p : WroteAndChanged(n, asked, m, a, items, bad, q, p)
  <1>1. n \in Network /\ n.mem \in [Addrs -> Object]
    BY DEF Coherent, Network
  <1>2. Coherent(asked) /\ asked \in Network
    <2>1. Coherent(asked)
      BY WriteToBufferCoherent, ProxyAddrsAssumption
    <2> QED BY <2>1 DEF Coherent
  <1>3. PICK q : OnlyAt(n, asked, ServerAddr, q) /\ Extends(n.mem[ServerAddr], q, items)
    <2>1. CASE items = <<>>
      <3>1. OnlyAt(n, n, ServerAddr, n.mem[ServerAddr])
        BY <1>1 DEF OnlyAt
      <3>2. Extends(n.mem[ServerAddr], n.mem[ServerAddr], items)
        <4>1. n.mem[ServerAddr].send \in Seq(Items)
          BY <1>1, ProxyAddrsAssumption DEF Object
        <4>2. n.mem[ServerAddr].send \o <<>> = n.mem[ServerAddr].send
          BY <4>1
        <4> QED BY <2>1, <4>2 DEF Extends
      <3> QED BY <2>1, <3>1, <3>2
    <2>2. CASE items # <<>>
      BY <1>1, <2>2, WriteToBufferFrame, ProxyAddrsAssumption
    <2> QED BY <2>1, <2>2
  <1>5. CASE m = asked
    <2>1. OnlyAt(asked, asked, a, asked.mem[a])
      BY <1>2 DEF OnlyAt, Network
    <2> QED BY <1>2, <1>3, <1>5, <2>1 DEF WroteAndChanged
  <1>6. CASE m = SetReadable(asked, a, FALSE)
    <2>1. PICK p : OnlyAt(asked, m, a, p) /\ Alike(asked.mem[a], p)
      BY <1>2, <1>6, SetReadableFrame
    <2>2. Coherent(m)
      BY <1>2, <1>6, SetReadableCoherent
    <2> QED BY <1>2, <1>3, <2>1, <2>2 DEF Alike, WroteAndChanged
  <1>7. CASE m = WriteAndClose(asked, a, <<bad>>)
    <2> DEFINE w == WriteToBuffer(asked, a, <<bad>>)
    <2>1. <<bad>> \in Seq(Items)
      OBVIOUS
    <2>2. Coherent(w) /\ w \in Network
      BY <1>2, <2>1, WriteToBufferCoherent DEF Coherent
    <2>3. PICK r : OnlyAt(asked, w, a, r) /\ Extends(asked.mem[a], r, <<bad>>)
      BY <1>2, <2>1, WriteToBufferFrame
    <2>4. m = [w EXCEPT !.mem[a].closing = TRUE]
      BY <1>7 DEF WriteAndClose
    <2> HIDE DEF w
    <2>5. Coherent(m)
      <3>1. Coherent([w EXCEPT !.mem[a].closing = TRUE])
        BY <2>2, ClosingCoherent
      <3> QED BY <2>4, <3>1
    <2> DEFINE p == [r EXCEPT !.closing = TRUE]
    <2>6. w.mem[a] = r /\ r \in Object
      BY <1>2, <2>2, <2>3, OnlyAtFacts DEF Network
    <2>7. OnlyAt(asked, m, a, p)
      BY <1>2, <2>2, <2>3, <2>4, <2>6 DEF OnlyAt, Network
    <2>8. p.state = r.state /\ p.peer = r.peer /\ p.connected = r.connected /\ p.send = r.send
      BY <2>6 DEF Object
    <2> HIDE DEF p
    <2> QED BY <1>2, <1>3, <2>3, <2>5, <2>7, <2>8 DEF Extends, WroteAndChanged
  <1> QED BY <1>5, <1>6, <1>7

\* What OnClientRead pushes.
LEMMA PushedFacts ==
  ASSUME IInv, NEW c \in Clients, NEW upto \in session[c].read..Total
  PROVE  LET pieces == Pushed(session[c], upto, Room)
             requests == [i \in 1..Len(pieces) |-> [asker |-> c, cmd |-> pieces[i]]] IN
         /\ Room \in Nat
         /\ Pieces(session[c], upto) \in AllRuns
         /\ pieces \in Seq(AllPieces)
         /\ InStep(AfterRead(session[c], upto, Room))
         /\ AfterRead(session[c], upto, Room).read = upto
         /\ requests \in Seq(Request) /\ Len(requests) = Len(pieces)
         /\ AuthAsked(requests)
  <1> DEFINE s == session[c]
             pieces == Pushed(s, upto, Room)
             requests == [i \in 1..Len(pieces) |-> [asker |-> c, cmd |-> pieces[i]]]
  <1>1. /\ s \in SessionState /\ InStep(s) /\ s.read <= Total
    BY DEF IInv, ProxyInv, SessionsSound
  <1>2. /\ s.from \in Nat /\ s.at \in Nat /\ s.read \in Nat /\ s.done \in BOOLEAN
        /\ s.from <= s.at /\ s.at <= s.read /\ Total \in Nat
        /\ upto \in Nat /\ s.read <= upto /\ upto <= Total
    <2>1. /\ s.from \in Nat /\ s.at \in Nat /\ s.read \in Nat /\ s.done \in BOOLEAN
          /\ s.from <= s.at /\ s.at <= s.read
      BY <1>1 DEF SessionState, InStep
    <2> QED BY <2>1, ProxyBoundsAssumption
  <1>3. Room \in Nat
    BY LinkTyped, ProxyBoundsAssumption DEF Room
  <1>4. Pieces(s, upto) \in AllRuns
    <2>1. s \in [from : 0..Total, at : 0..Total, read : 0..Total, done : BOOLEAN]
      BY <1>1, <1>2 DEF SessionState
    <2>2. upto \in 0..Total
      BY <1>2
    <2> HIDE DEF s
    <2> QED BY <1>2, <2>1, <2>2 DEF AllRuns
  <1>5. /\ pieces \in Seq(PiecesTo(upto)) /\ InStep(AfterRead(s, upto, Room))
        /\ AfterRead(s, upto, Room).read = upto
    <2> HIDE DEF s, requests
    <2>1. InStep(s) /\ upto \in Nat /\ s.read <= upto /\ Room \in Nat
      BY <1>1, <1>2, <1>3
    <2> QED BY <2>1, ReadFacts
  <1>6. pieces \in Seq(AllPieces)
    <2>1. PiecesTo(upto) \subseteq AllPieces
      BY <1>2 DEF PiecesTo, AllPieces, Piece
    <2> QED BY <1>5, <2>1, SeqMonotonic
  <1> HIDE DEF s, pieces
  <1>7. /\ Len(pieces) \in Nat
        /\ \A i \in 1..Len(pieces) : /\ pieces[i] \in AllPieces
                                     /\ [asker |-> c, cmd |-> pieces[i]] \in Request
                                     /\ pieces[i] # AuthCmd
    <2>1. Len(pieces) \in Nat /\ \A i \in 1..Len(pieces) : pieces[i] \in AllPieces
      BY <1>6
    <2>2. AllPieces \subseteq (0..Total) \X (0..(Total + 1)) /\ AuthCmd \notin AllPieces
      BY ProxyBoundsAssumption DEF AllPieces, AuthCmd
    <2> QED BY <2>1, <2>2 DEF Request
  <1>8. /\ requests \in Seq(Request) /\ Len(requests) = Len(pieces)
        /\ \A i \in 1..Len(requests) : requests[i].cmd = pieces[i]
    <2>1. \A i \in 1..Len(pieces) : [asker |-> c, cmd |-> pieces[i]].cmd = pieces[i]
      OBVIOUS
    <2> QED BY <1>7, <2>1
  <1>9. AuthAsked(requests)
    BY <1>7, <1>8 DEF AuthAsked
  <1> QED BY <1>3, <1>4, <1>5, <1>6, <1>8, <1>9 DEF s, pieces

\* The sessions after c's has read.
LEMMA SessionsAfterRead ==
  ASSUME IInv, NEW c \in Clients, NEW upto \in session[c].read..Total,
         session' = [session EXCEPT ![c] = AfterRead(session[c], upto, Room)]
  PROVE  SessionsSound'
  <1> DEFINE t == AfterRead(session[c], upto, Room)
  <1>1. InStep(t) /\ t.read = upto /\ t \in SessionState
    BY PushedFacts DEF InStep
  <1>2. SessionsSound
    BY DEF IInv, ProxyInv
  <1>3. upto <= Total
    <2>1. session[c].read \in Nat
      BY <1>2 DEF SessionsSound, SessionState
    <2> QED BY <2>1, ProxyBoundsAssumption
  <1> HIDE DEF t
  <1>4. session' = [session EXCEPT ![c] = t]
    BY DEF t
  <1> QED BY <1>1, <1>2, <1>3, <1>4 DEF SessionsSound

\* The readers after c's have been queued.
LEMMA ReadersAfterRead ==
  ASSUME IInv, NEW c \in Clients, clientConn[c] \in Addrs, NEW k \in Nat,
         cmdQueue' = cmdQueue \o [i \in 1..k |-> c], UNCHANGED clientConn
  PROVE  ReadersConnected'
  <1> DEFINE new == [i \in 1..k |-> c]
  <1>1. /\ cmdQueue \in Seq(Clients \union {AuthReader})
        /\ new \in Seq(Clients \union {AuthReader})
        /\ Len(new) = k /\ \A i \in 1..k : new[i] = c
    BY LinkTyped
  <1>2. cmdQueue' = cmdQueue \o new
    OBVIOUS
  <1> HIDE DEF new
  <1>3. \A i \in 1..Len(cmdQueue') :
          \/ i \in 1..Len(cmdQueue) /\ cmdQueue'[i] = cmdQueue[i]
          \/ cmdQueue'[i] = c
    BY <1>1, <1>2
  <1>4. ReadersConnected
    BY DEF IInv, ProxyInv
  <1> QED BY <1>3, <1>4 DEF ReadersConnected

\* What is written when c has read: requests, and the text that answers a bad one.
RequestsOf(c, upto) ==
  [i \in 1..Len(Pushed(session[c], upto, Room)) |->
     [asker |-> c, cmd |-> Pushed(session[c], upto, Room)[i]]]

ErrorTo(c) == [req |-> [asker |-> c, cmd |-> <<session[c].at, session[c].at>>],
               kind |-> "badRequest"]

LEMMA ErrorFacts ==
  ASSUME IInv, NEW c \in Clients
  PROVE  /\ ErrorTo(c) \in Reply /\ ErrorTo(c) \in Items
         /\ ErrorTo(c).req.asker = c /\ ErrorTo(c).kind = "badRequest"
  <1>1. session[c].at \in 0..Total
    <2>1. /\ session[c] \in SessionState /\ InStep(session[c]) /\ session[c].read <= Total
      BY DEF IInv, ProxyInv, SessionsSound
    <2> QED BY <2>1, ProxyBoundsAssumption DEF InStep, SessionState
  <1>2. [asker |-> c, cmd |-> <<session[c].at, session[c].at>>] \in Request
    BY <1>1, ProxyBoundsAssumption DEF Request
  <1>3. ErrorTo(c) \in Reply /\ ErrorTo(c).req.asker = c /\ ErrorTo(c).kind = "badRequest"
    BY <1>2 DEF ErrorTo, Reply
  <1> QED BY <1>3, ProxyItemsAssumption

LEMMA RequestsFacts ==
  ASSUME IInv, NEW c \in Clients, NEW upto \in session[c].read..Total
  PROVE  /\ RequestsOf(c, upto) \in Seq(Request) /\ RequestsOf(c, upto) \in Seq(Items)
         /\ AuthAsked(RequestsOf(c, upto))
         /\ Len(RequestsOf(c, upto)) = Len(Pushed(session[c], upto, Room))
  <1>1. /\ RequestsOf(c, upto) \in Seq(Request) /\ AuthAsked(RequestsOf(c, upto))
        /\ Len(RequestsOf(c, upto)) = Len(Pushed(session[c], upto, Room))
    BY PushedFacts DEF RequestsOf
  <1>2. Request \subseteq Items
    BY ProxyItemsAssumption
  <1> QED BY <1>1, <1>2, SeqMonotonic

LEMMA ClientReadChange ==
  ASSUME IInv, NEW c \in Clients, NEW a \in Addrs, NEW cut \in ReadCuts,
         NEW upto \in session[c].read..Total, OnClientRead(a, c, upto, cut)
  PROVE  /\ Coherent(net')
         /\ \E asked, q, p : WroteAndChanged(net, asked, net', a, RequestsOf(c, upto),
                                             ErrorTo(c), q, p)
  <1> DEFINE requests == RequestsOf(c, upto)
             bad == ErrorTo(c)
             asked == IF requests = <<>> THEN net
                      ELSE WriteToBuffer(net, ServerAddr, requests)
  <1>1. \/ net' = asked
        \/ net' = SetReadable(asked, a, FALSE)
        \/ net' = WriteAndClose(asked, a, <<bad>>)
    BY DEF OnClientRead, ReadEffect, RequestsOf, ErrorTo
  <1>2. Coherent(net) /\ requests \in Seq(Items) /\ bad \in Items
    BY RequestsFacts, ErrorFacts DEF IInv, ProxyInv
  <1>3. asked = IF requests = <<>> THEN net ELSE WriteToBuffer(net, ServerAddr, requests)
    OBVIOUS
  <1> HIDE DEF requests, bad, asked
  <1>4. Coherent(net') /\ \E q, p : WroteAndChanged(net, asked, net', a, requests, bad, q, p)
    BY <1>1, <1>2, <1>3, ReadEffectFrame
  <1> QED BY <1>4 DEF requests, bad

LEMMA OnClientReadInv ==
  ASSUME IInv, NEW c \in Clients, NEW a \in Addrs, NEW cut \in ReadCuts,
         NEW upto \in session[c].read..Total, OnClientRead(a, c, upto, cut)
  PROVE  ProxyInv' /\ PipelineStep
  <1> DEFINE s == session[c]
             run == Pieces(s, upto)
             pieces == Pushed(s, upto, Room)
             requests == RequestsOf(c, upto)
  <1>1. /\ Live(net, a) /\ net.mem[a].peer = c
        /\ session' = [session EXCEPT ![c] = AfterRead(s, upto, Room)]
        /\ cmdQueue' = cmdQueue \o [i \in 1..Len(pieces) |-> c]
        /\ crashed' \in BOOLEAN
        /\ UNCHANGED <<clientConn, auth, jammed, orphan, toServer, toProxy, swallowed, got>>
    BY DEF OnClientRead, Readable, IsConn
  <1>2. /\ ProxyInv /\ Coherent(net) /\ net \in Network
        /\ \A b \in Addrs : Settled(net.mem[b], b) /\ net.mem[b] \in Object
    <2>1. ProxyInv /\ Coherent(net) /\ net \in Network
      BY DEF IInv, ProxyInv, Coherent
    <2> QED BY <2>1 DEF ProxyInv, Network
  <1>3. clientConn[c] = a /\ ~(a = ServerAddr /\ ServerUp) /\ c # Redis
    <2>1. c # Redis
      BY DEF Clients
    <2> QED BY <1>1, <1>2, <2>1, ServerPlace
  <1>4. /\ Room \in Nat /\ run \in AllRuns /\ pieces \in Seq(AllPieces)
        /\ requests \in Seq(Items) /\ Len(requests) = Len(pieces)
        /\ AuthAsked(requests)
    BY PushedFacts, RequestsFacts
  <1>5. requests = [i \in 1..Len(pieces) |-> [asker |-> c, cmd |-> pieces[i]]]
    BY DEF RequestsOf
  <1> HIDE DEF s, run, pieces, requests
  <1>6. Coherent(net')
    BY ClientReadChange
  <1>7. PICK asked, q, p : WroteAndChanged(net, asked, net', a, requests, ErrorTo(c), q, p)
    BY ClientReadChange DEF requests
  <1>8. /\ OnlyAt(net, asked, ServerAddr, q)
        /\ Extends(net.mem[ServerAddr], q, requests)
        /\ asked \in Network /\ OnlyAt(asked, net', a, p)
        /\ p.state = asked.mem[a].state /\ p.peer = asked.mem[a].peer
    BY <1>7 DEF WroteAndChanged
  <1>9. /\ asked.mem[ServerAddr] = q
        /\ \A b \in Addrs \ {ServerAddr} : asked.mem[b] = net.mem[b]
        /\ net'.mem[a] = p
        /\ \A b \in Addrs \ {a} : net'.mem[b] = asked.mem[b]
    BY <1>2, <1>8, OnlyAtFacts, ProxyAddrsAssumption
  <1>10. p.state = "live" /\ p.peer = c
    <2>1. asked.mem[a].state = net.mem[a].state /\ asked.mem[a].peer = net.mem[a].peer
      BY <1>8, <1>9 DEF Extends
    <2> QED BY <1>1, <1>8, <2>1 DEF Live
  <1>11. Settled(q, ServerAddr)
    <2>1. Settled(net.mem[ServerAddr], ServerAddr) /\ net.mem[ServerAddr].send \in Seq(Items)
      BY <1>2, ProxyAddrsAssumption DEF Object
    <2>2. AuthAsked(net.mem[ServerAddr].send) =>
            AuthAsked(net.mem[ServerAddr].send \o requests)
      BY <1>4, <2>1, AuthAskedJoined
    <2> QED BY <1>8, <2>1, <2>2 DEF Extends, Settled
  <1>12. ASSUME NEW b \in Addrs PROVE Settled(net.mem[b], b)'
    <2>1. Settled(net'.mem[b], b)
      <3>1. CASE b = a
        BY <1>3, <1>9, <1>10, <3>1 DEF Settled
      <3>2. CASE b # a /\ b = ServerAddr
        BY <1>9, <1>11, <3>2
      <3>3. CASE b # a /\ b # ServerAddr
        BY <1>2, <1>9, <3>3
      <3> QED BY <3>1, <3>2, <3>3
    <2> QED BY <1>1, <2>1 DEF Settled
  <1>13. ProxyInv'
    <2>1. SessionsSound'
      BY <1>1, SessionsAfterRead DEF s
    <2>2. ReadersConnected'
      <3>1. Len(pieces) \in Nat
        BY <1>4
      <3> QED BY <1>1, <1>3, <3>1, ReadersAfterRead
    <2>3. /\ Coherent(net)' /\ AuthAsked(toServer)' /\ got' \in [Clients -> Seq(Items)]
          /\ clientConn' \in [Clients -> Addrs \union {NoAddr}]
      BY <1>1, <1>2, <1>6 DEF ProxyInv, Coherent, AuthAsked
    <2> QED BY <1>1, <1>12, <2>1, <2>2, <2>3 DEF ProxyInv
  <1>14. /\ ServerUp' <=> ServerUp
         /\ LinkState' = LinkState
         /\ ServerUp => LinkBuffer' = LinkBuffer \o requests
         /\ ~ServerUp => LinkBuffer' = LinkBuffer
    <2>1. CASE a = ServerAddr
      <3>1. ~ServerUp /\ ~ServerUp'
        BY <1>3, <1>9, <1>10, <2>1 DEF ServerUp
      <3> QED BY <3>1 DEF LinkState, LinkBuffer
    <2>2. CASE a # ServerAddr
      <3>1. net'.mem[ServerAddr] = q
        BY <1>9, <2>2, ProxyAddrsAssumption
      <3>2. ServerUp' <=> ServerUp
        BY <1>8, <3>1 DEF ServerUp, Live, Extends
      <3>3. ServerUp => q.send = net.mem[ServerAddr].send \o requests
        BY <1>8 DEF ServerUp, Live, Extends
      <3> QED BY <3>1, <3>2, <3>3 DEF LinkState, LinkBuffer
    <2> QED BY <2>1, <2>2
  <1>15. CASE IsAcceptable
    <2>1. pieces = Link!Accepted(run)
      <3>1. Room = Link!Room
        BY <1>15 DEF Room, Link!Room
      <3> QED BY <3>1 DEF Link!Accepted, pieces, Pushed, run
    <2>2. Link!IsAcceptable
      BY <1>15 DEF IsAcceptable, Link!IsAcceptable, LinkState
    <2>3. \/ /\ LinkState = "up"
             /\ LinkBuffer' = LinkBuffer \o requests
             /\ UNCHANGED LinkState
          \/ /\ LinkState = "freed"
             /\ LinkState' \in {"freed", "crashed"}
             /\ UNCHANGED LinkBuffer
      BY <1>14 DEF LinkState
    <2>4. Link!PushRequests(c, run)
      BY <1>1, <1>5, <2>1, <2>2, <2>3 DEF Link!PushRequests
    <2>5. Link!Next
      BY <1>4, <2>4 DEF Link!Next
    <2> QED BY <1>13, <2>5 DEF PipelineStep
  <1>16. CASE ~IsAcceptable
    <2>1. pieces = <<>>
      <3>1. Room = 0
        BY <1>16 DEF Room
      <3>2. run \in Seq(AllPieces)
        BY <1>4, AllRunsTyped
      <3> QED BY <3>1, <3>2 DEF pieces, Pushed, run
    <2>2. requests = <<>> /\ [i \in 1..Len(pieces) |-> c] = <<>>
      BY <1>5, <2>1
    <2>3. cmdQueue' = cmdQueue
      <3>1. cmdQueue' = cmdQueue \o <<>>
        BY <1>1, <2>2
      <3> QED BY <3>1, LinkTyped
    <2>4. LinkBuffer' = LinkBuffer
      BY <1>14, <2>2, LinkTyped
    <2>5. UNCHANGED upstreamVars
      BY <1>1, <2>3 DEF upstreamVars
    <2> QED BY <1>13, <1>14, <2>4, <2>5, LinkKept DEF PipelineStep
  <1> QED BY <1>15, <1>16

\* The connections are those of net.
SameConnections(m) ==
  \A b \in Addrs : /\ m.mem[b].state = net.mem[b].state
                   /\ m.mem[b].peer = net.mem[b].peer
                   /\ m.mem[b].connected = net.mem[b].connected

\* What net can become while replies are handed to clients: the connection they came
\* from is as it was.
Answered == {m \in Network : /\ Coherent(m) /\ SameConnections(m)
                             /\ \A b \in Addrs : Settled(m.mem[b], b)
                             /\ m.mem[ServerAddr] = net.mem[ServerAddr]}

\* A reply changes the connection it is written to, if that was connected.
LEMMA OnServerWriteFrame ==
  ASSUME NEW m, Coherent(m), NEW c \in Clients, clientConn[c] \in Addrs, NEW reply \in Items
  PROVE  /\ Coherent(OnServerWrite(m, c, reply))
         /\ \E p : /\ OnlyAt(m, OnServerWrite(m, c, reply), clientConn[c], p)
                   /\ IF m.mem[clientConn[c]].connected
                      THEN Extends(m.mem[clientConn[c]], p, <<reply>>)
                      ELSE p = m.mem[clientConn[c]]
  <1> DEFINE a == clientConn[c]
             w == WriteToBuffer(m, a, <<reply>>)
             x == SetReadable(w, a, TRUE)
  <1>1. m \in Network /\ <<reply>> \in Seq(Items)
    BY DEF Coherent
  <1>2. Coherent(w) /\ w \in Network
    BY <1>1, WriteToBufferCoherent DEF Coherent
  <1>3. PICK q : OnlyAt(m, w, a, q) /\ Extends(m.mem[a], q, <<reply>>)
    BY <1>1, WriteToBufferFrame
  <1>4. OnServerWrite(m, c, reply) = IF m.mem[a].connected THEN x ELSE m
    BY DEF OnServerWrite
  <1> HIDE DEF w
  <1>5. Coherent(x)
    BY <1>2, SetReadableCoherent
  <1>6. PICK p : OnlyAt(w, x, a, p) /\ Alike(w.mem[a], p)
    BY <1>2, SetReadableFrame
  <1> HIDE DEF x
  <1>7. OnlyAt(m, x, a, p) /\ Extends(m.mem[a], p, <<reply>>)
    <2>1. w.mem[a] = q /\ x.mem = [w.mem EXCEPT ![a] = p] /\ w.mem = [m.mem EXCEPT ![a] = q]
      BY <1>1, <1>3, <1>6, OnlyAtFacts DEF OnlyAt
    <2>2. OnlyAt(m, x, a, p)
      BY <1>1, <2>1 DEF OnlyAt, Network
    <2> QED BY <1>3, <1>6, <2>1, <2>2 DEF Alike, Extends
  <1>8. OnlyAt(m, m, a, m.mem[a])
    BY <1>1 DEF OnlyAt, Network
  <1> QED BY <1>4, <1>5, <1>7, <1>8

LEMMA OnServerWriteAnswers ==
  ASSUME ProxyInv, ServerUp, NEW m \in Answered, NEW c \in Clients, clientConn[c] \in Addrs,
         NEW reply \in Items
  PROVE  OnServerWrite(m, c, reply) \in Answered
  <1> DEFINE a == clientConn[c]
             x == OnServerWrite(m, c, reply)
  <1>1. /\ m \in Network /\ Coherent(m) /\ \A b \in Addrs : Settled(m.mem[b], b)
        /\ m.mem[ServerAddr] = net.mem[ServerAddr] /\ SameConnections(m)
    BY DEF Answered
  <1>2. a \in Addrs \ {ServerAddr}
    BY ServerPlace, ProxyAddrsAssumption DEF ServerUp
  <1>3. /\ Coherent(x) /\ x \in Network
        /\ \E p : /\ OnlyAt(m, x, a, p) /\ p.state = m.mem[a].state
                  /\ p.peer = m.mem[a].peer /\ p.connected = m.mem[a].connected
    BY <1>1, OnServerWriteFrame DEF Coherent, Extends
  <1> HIDE DEF x, a
  <1>4. PICK p : /\ OnlyAt(m, x, a, p) /\ p.state = m.mem[a].state
                 /\ p.peer = m.mem[a].peer /\ p.connected = m.mem[a].connected
    BY <1>3
  <1>5. x.mem[a] = p /\ \A b \in Addrs \ {a} : x.mem[b] = m.mem[b]
    BY <1>1, <1>2, <1>4, OnlyAtFacts
  <1>6. \A b \in Addrs : Settled(x.mem[b], b)
    BY <1>1, <1>2, <1>4, <1>5 DEF Settled
  <1>7. x.mem[ServerAddr] = net.mem[ServerAddr]
    BY <1>1, <1>2, <1>5, ProxyAddrsAssumption
  <1>8. SameConnections(x)
    BY <1>1, <1>2, <1>4, <1>5 DEF SameConnections
  <1> QED BY <1>3, <1>6, <1>7, <1>8 DEF Answered, x

\* The k-th reply is handed to its reader.
Handed(k, m) == IF cmdQueue[k] = AuthReader THEN m
                ELSE OnServerWrite(m, cmdQueue[k], toProxy[k])

\* The networks on the way to HandedOut(i).
Hands(after, i) ==
  /\ after[0] = net /\ after[i] = HandedOut(i)
  /\ \A k \in 1..i : after[k] = Handed(k, after[k - 1])
  /\ \A k \in 0..i : after[k] \in Answered

\* Whom the replies go to.
LEMMA ReadersFacts ==
  ASSUME IInv, NEW k \in 1..Len(cmdQueue), k <= Len(toProxy)
  PROVE  /\ cmdQueue[k] \in Clients \union {AuthReader}
         /\ cmdQueue[k] \in Clients => clientConn[cmdQueue[k]] \in Addrs
         /\ toProxy[k] \in Link!Reply /\ toProxy[k] \in Reply /\ toProxy[k] \in Items
  <1>1. ProxyInv /\ k \in 1..Len(toProxy)
    BY LinkTyped DEF IInv
  <1>2. cmdQueue[k] \in Clients \union {AuthReader}
    BY LinkTyped
  <1>3. toProxy[k] \in Link!Reply
    BY <1>1, LinkTyped
  <1> QED
    BY <1>1, <1>2, <1>3, LinkRequests, ProxyItemsAssumption DEF ProxyInv, ReadersConnected

LEMMA HandedOutSteps ==
  ASSUME IInv, ServerUp, NEW i \in 0..Len(cmdQueue), i <= Len(toProxy)
  PROVE  \E after : Hands(after, i)
  <1> DEFINE Right(f) == f = [k \in 0..i |-> IF k = 0 THEN net ELSE Handed(k, f[k - 1])]
             after == CHOOSE f : Right(f)
  <1>1. HandedOut(i) = after[i]
    BY DEF HandedOut, Handed
  <1>2. ProxyInv /\ net \in Answered
    <2>1. ProxyInv
      BY DEF IInv
    <2> QED BY <2>1 DEF ProxyInv, Coherent, Answered, SameConnections
  <1>3. \A k \in 1..i : k \in 1..Len(cmdQueue) /\ k <= Len(toProxy)
    BY LinkTyped
  <1>4. \A k \in 1..i, m \in Answered : Handed(k, m) \in Answered
    BY <1>2, <1>3, ReadersFacts, OnServerWriteAnswers DEF Handed
  <1>5. \E f : Right(f)
    <2> DEFINE G == [x \in (1..i) \X Answered |-> Handed(x[1], x[2])]
    <2>1. G \in [(1..i) \X Answered -> Answered]
      BY <1>4
    <2>2. \A k \in 1..i, m \in Answered : G[<<k, m>>] = Handed(k, m)
      OBVIOUS
    <2> HIDE DEF G
    <2>3. i \in Nat
      OBVIOUS
    <2>4. PICK f \in [0..i -> Answered] : StepsBy(f, net, i, G)
      BY <1>2, <2>1, <2>3, Stepped
    <2>5. ASSUME NEW k \in 1..i PROVE f[k] = Handed(k, f[k - 1])
      <3>1. k - 1 \in 0..i
        BY <2>3
      <3>2. f[k - 1] \in Answered
        BY <2>4, <3>1
      <3> QED BY <2>2, <2>4, <3>2 DEF StepsBy
    <2>6. Right(f)
      <3>1. \A k \in 0..i : f[k] = IF k = 0 THEN net ELSE Handed(k, f[k - 1])
        BY <2>3, <2>4, <2>5 DEF StepsBy
      <3> QED BY <2>4, <3>1
    <2> QED BY <2>6
  <1>6. Right(after)
    BY <1>5
  <1> HIDE DEF after
  <1>7. after[0] = net /\ \A k \in 1..i : after[k] = Handed(k, after[k - 1])
    BY <1>6
  <1>8. \A k \in 0..i : after[k] \in Answered
    <2>1. \A k \in 1..i : after[k - 1] \in Answered => after[k] \in Answered
      BY <1>4, <1>7
    <2>2. i \in Nat
      OBVIOUS
    <2> QED BY <1>2, <1>7, <2>1, <2>2, Invariance
  <1> QED BY <1>1, <1>7, <1>8 DEF Hands

LEMMA HandedOutAnswers ==
  ASSUME IInv, ServerUp, NEW i \in 0..Len(cmdQueue), i <= Len(toProxy)
  PROVE  HandedOut(i) \in Answered
  <1>1. PICK after : Hands(after, i)
    BY HandedOutSteps
  <1>2. i \in 0..i
    OBVIOUS
  <1> QED BY <1>1, <1>2 DEF Hands

\* There is a reader for every reply.
LEMMA ReadersEnough ==
  ASSUME IInv, ServerUp, NEW n \in 1..Len(toProxy)
  PROVE  /\ n <= Len(cmdQueue) /\ n \in Nat /\ Len(cmdQueue) \in Nat /\ Len(toProxy) \in Nat
         /\ FewerOf(n, Len(cmdQueue)) = n
  <1>1. Link!QueueAccounting
    BY DEF IInv, Link!IInv
  <1>2. LinkState = "up"
    BY DEF LinkState
  <1>3. Len(cmdQueue) = (Len(toProxy) + Len(toServer) + Len(LinkBuffer)) + swallowed
    BY <1>1, <1>2 DEF Link!QueueAccounting, Link!Outstanding
  <1>4. /\ Len(cmdQueue) \in Nat /\ Len(toProxy) \in Nat /\ Len(toServer) \in Nat
        /\ Len(LinkBuffer) \in Nat /\ swallowed \in Nat
    BY LinkTyped
  <1>5. n <= Len(cmdQueue) /\ ~(Len(cmdQueue) < n)
    BY <1>3, <1>4
  <1> QED BY <1>4, <1>5 DEF FewerOf

LEMMA OnServerReadInv ==
  ASSUME IInv, NEW n \in 1..Len(toProxy), OnServerRead(n)
  PROVE  ProxyInv' /\ PipelineStep
  <1> DEFINE paired == FewerOf(n, Len(cmdQueue))
             accepted(k) == \E i \in 1..k : /\ cmdQueue[i] = AuthReader
                                            /\ toProxy[i].kind = "status"
  <1>1. /\ ServerUp /\ ~jammed /\ ~orphan
        /\ \A i \in 1..(n - 1) : ~Unparsable(i)
        /\ net' = HandedOut(paired)
        /\ cmdQueue' = SubSeq(cmdQueue, paired + 1, Len(cmdQueue))
        /\ orphan' = (paired < n)
        /\ auth' = IF \E i \in 1..paired : cmdQueue[i] = AuthReader
                   THEN accepted(paired) ELSE auth
        /\ jammed' = Unparsable(n)
        /\ toProxy' = SubSeq(toProxy, n + 1, Len(toProxy))
        /\ UNCHANGED <<session, clientConn, toServer, swallowed, got, crashed>>
    BY DEF OnServerRead
  <1>2. n <= Len(cmdQueue) /\ n \in Nat /\ Len(cmdQueue) \in Nat /\ Len(toProxy) \in Nat
    BY <1>1, ReadersEnough
  <1>3. paired = n
    BY <1>1, ReadersEnough
  <1> HIDE DEF paired
  <1>4. orphan' = orphan
    <2>1. orphan = FALSE
      BY LinkTyped
    <2>2. ~(paired < n)
      BY <1>2, <1>3
    <2>3. orphan' = (paired < n)
      BY <1>1
    <2>4. (paired < n) \in BOOLEAN
      BY <1>2, <1>3
    <2>5. orphan' = FALSE
      BY <2>2, <2>3, <2>4
    <2> QED BY <2>1, <2>5
  <1>5. net' \in Answered
    BY <1>1, <1>2, <1>3, HandedOutAnswers
  <1>6. ProxyInv /\ Coherent(net') /\ net'.mem[ServerAddr] = net.mem[ServerAddr]
        /\ \A b \in Addrs : Settled(net'.mem[b], b)
    BY <1>5 DEF IInv, Answered
  <1>7. ProxyInv'
    <2>1. \A b \in Addrs : Settled(net.mem[b], b)'
      BY <1>1, <1>6 DEF Settled
    <2>2. SessionsSound' /\ Coherent(net)' /\ AuthAsked(toServer)'
      BY <1>1, <1>6 DEF ProxyInv, SessionsSound, AuthAsked, Coherent
    <2>3. ReadersConnected'
      <3>1. /\ Len(cmdQueue') = Len(cmdQueue) - n
            /\ \A i \in 1..(Len(cmdQueue) - n) : cmdQueue'[i] = cmdQueue[i + n]
        BY <1>1, <1>2, <1>3, CutFacts, LinkTyped
      <3>2. \A i \in 1..(Len(cmdQueue) - n) : i + n \in 1..Len(cmdQueue)
        BY <1>2
      <3>3. ReadersConnected
        BY <1>6 DEF ProxyInv
      <3> QED BY <1>1, <3>1, <3>2, <3>3 DEF ReadersConnected
    <2>4. /\ (clientConn \in [Clients -> Addrs \union {NoAddr}])'
          /\ (got \in [Clients -> Seq(Items)])' /\ (crashed \in BOOLEAN)'
      BY <1>1, <1>6 DEF ProxyInv
    <2> QED BY <2>1, <2>2, <2>3, <2>4 DEF ProxyInv
  <1>8. LinkState = "up" /\ UNCHANGED <<LinkState, LinkBuffer>>
    <2>1. ServerUp' /\ ServerUp
      BY <1>1, <1>6 DEF ServerUp, Live
    <2> QED BY <1>6, <2>1 DEF LinkState, LinkBuffer
  <1>9. \A i : Unparsable(i) <=> Link!Unparsable(i)
    BY DEF Unparsable, Link!Unparsable
  <1>10. Link!HandOut(n)
    <2>1. auth' = IF \E i \in 1..n : cmdQueue[i] = AuthReader THEN accepted(n) ELSE auth
      BY <1>1, <1>3
    <2>2. jammed' = Link!Unparsable(n)
      BY <1>1 DEF Unparsable, Link!Unparsable
    <2>3. cmdQueue' = SubSeq(cmdQueue, n + 1, Len(cmdQueue))
      BY <1>1, <1>3
    <2> QED BY <1>1, <1>2, <1>4, <2>1, <2>2, <2>3 DEF Link!HandOut
  <1>11. Link!OnServerRead(n)
    <2>1. n \in 1..n
      BY <1>2
    <2>2. UNCHANGED <<LinkState, LinkBuffer, toServer, swallowed>>
      BY <1>1, <1>8
    <2> QED BY <1>1, <1>8, <1>9, <1>10, <2>1, <2>2 DEF Link!OnServerRead
  <1>12. Link!Next
    BY <1>11 DEF Link!Next
  <1> QED BY <1>7, <1>12 DEF PipelineStep

LEMMA StutterInv ==
  ASSUME ProxyInv, UNCHANGED vars
  PROVE  ProxyInv' /\ PipelineStep
  <1>1. UNCHANGED <<net, session, clientConn, got, crashed, upstreamVars>>
    BY DEF vars, upstreamVars
  <1>2. ProxyInv'
    BY <1>1 DEF ProxyInv, upstreamVars, Coherent, SessionsSound, Settled,
                ReadersConnected, AuthAsked
  <1>3. LinkState' = LinkState /\ LinkBuffer' = LinkBuffer
    BY <1>1 DEF LinkState, LinkBuffer, ServerUp, Live
  <1> QED BY <1>1, <1>2, <1>3, LinkKept DEF PipelineStep

LEMMA NextStep == IInv /\ [Next]_vars => ProxyInv' /\ PipelineStep
  <1> SUFFICES ASSUME IInv, [Next]_vars
               PROVE  ProxyInv' /\ PipelineStep
    OBVIOUS
  <1>0. ProxyInv
    BY DEF IInv
  <1>1. ASSUME NEW c \in Clients, NEW a \in Addrs, Accept(c, a)
        PROVE  ProxyInv' /\ PipelineStep
    BY <1>0, <1>1, AcceptInv
  <1>2. ASSUME NEW c \in Clients, NEW a \in Addrs, NEW cut \in ReadCuts,
               NEW upto \in session[c].read..Total, OnClientRead(a, c, upto, cut)
        PROVE  ProxyInv' /\ PipelineStep
    BY <1>2, OnClientReadInv
  <1>3. ASSUME NEW kind \in {"status", "error", "emptyBulk"}, ServerReply(kind)
        PROVE  ProxyInv' /\ PipelineStep
    BY <1>3, ServerReplyInv
  <1>4. ASSUME NEW n \in 1..Len(toProxy), OnServerRead(n)
        PROVE  ProxyInv' /\ PipelineStep
    BY <1>4, OnServerReadInv
  <1>5. ASSUME NEW a \in Addrs, NEW k \in 0..Len(net.mem[a].send), WriteOut(a, k)
        PROVE  ProxyInv' /\ PipelineStep
    BY <1>5, WriteOutInv
  <1>6. ASSUME NEW a \in Addrs, WriteFails(a)
        PROVE  ProxyInv' /\ PipelineStep
    BY <1>0, <1>6, WriteFailsInv
  <1>7. ASSUME NEW a \in Addrs, PeerCloses(a)
        PROVE  ProxyInv' /\ PipelineStep
    BY <1>0, <1>7, PeerClosesInv
  <1>8. ASSUME NEW a \in Addrs, OnPeerGone(a)
        PROVE  ProxyInv' /\ PipelineStep
    BY <1>0, <1>8, OnPeerGoneInv
  <1>9. CASE WriteFreed
    BY <1>0, <1>9, WriteFreedInv
  <1>10. CASE UNCHANGED vars
    BY <1>0, <1>10, StutterInv
  <1> QED
    BY <1>1, <1>2, <1>3, <1>4, <1>5, <1>6, <1>7, <1>8, <1>9, <1>10 DEF Next

LEMMA NextInv == IInv /\ [Next]_vars => IInv'
  <1> SUFFICES ASSUME IInv, [Next]_vars PROVE IInv'
    OBVIOUS
  <1>1. ProxyInv' /\ PipelineStep
    BY NextStep
  <1>2. Link!IInv'
    BY <1>1, LinkNext DEF IInv, PipelineStep
  <1> QED BY <1>1, <1>2 DEF IInv

LEMMA Always == Spec => []IInv
  BY InitInv, NextInv, PTL DEF Spec

--------------------------------------------------------------------------------
(* Theorems. *)

\* Every variable keeps its type: the queue never exceeds its ring, what is written to
\* a connection is a request or a reply, and the sessions are read into within bounds.
THEOREM TypeCorrect == Spec => []TypeOK
  <1>1. IInv => TypeOK
    <2> SUFFICES ASSUME IInv PROVE TypeOK
      OBVIOUS
    <2>1. ProxyInv /\ Coherent(net) /\ net \in Network
      BY DEF IInv, ProxyInv, Coherent
    <2>2. DOMAIN net.mem = Addrs /\ net.writers \in Seq(Node)
      BY <2>1 DEF Network
    <2>3. ASSUME NEW a \in Addrs, NEW i \in 1..Len(net.mem[a].send)
          PROVE  net.mem[a].send[i] \in Request \union Reply
      <3>1. net.mem[a].send \in Seq(Items)
        BY <2>1 DEF Network, Object
      <3> QED BY <3>1, ProxyItemsAssumption
    <2>4. /\ session \in [Clients -> SessionState]
          /\ clientConn \in [Clients -> Addrs \union {NoAddr}]
          /\ got \in [Clients -> Seq(Request \union Reply)] /\ crashed \in BOOLEAN
      BY <2>1, ProxyItemsAssumption DEF ProxyInv, SessionsSound
    <2>5. toServer \in Seq(Request) /\ toProxy \in Seq(Reply)
      BY LinkTyped, LinkRequests, SeqMonotonic
    <2>6. orphan \in BOOLEAN
      BY LinkTyped
    <2> QED BY <2>2, <2>3, <2>4, <2>5, <2>6, LinkTyped DEF TypeOK
  <1> QED
    BY <1>1, Always, PTL

\* Whatever connections come, go, fail and are allocated anew, what the proxy does to
\* its queue and its link is what Upstream.tla allows.
THEOREM ImplementsUpstream == Spec => PipelineSpec
  <1>1. IInv /\ [Next]_vars => [Link!Next]_(Link!vars)
    BY NextStep DEF PipelineStep
  <1>2. Spec => Link!Spec
    BY <1>1, InitInv, NextInv, PTL DEF Spec, Link!Spec
  <1> QED
    BY <1>2, LinkIsPipeline, PTL

\* What UpstreamProofs.tla shows of the pipeline holds in the composition: replies are
\* paired with those who asked, none is an orphan, and AUTH goes first.
THEOREM PipelineHolds ==
  Spec => [](Pipeline!QueueAccounting /\ Pipeline!Pairing
             /\ Pipeline!NoOrphanReply /\ Pipeline!AuthGoesFirst)
  <1>1. IInv => /\ Link!QueueAccounting /\ Link!Pairing
                /\ Link!NoOrphanReply /\ Link!AuthGoesFirst
    BY DEF IInv, Link!IInv
  <1>2. Link!QueueAccounting => Pipeline!QueueAccounting
    BY DEF Link!QueueAccounting, Pipeline!QueueAccounting, Link!Outstanding,
           Pipeline!Outstanding, LinkState, LinkBuffer
  <1>3. Link!Pairing => Pipeline!Pairing
    BY DEF Link!Pairing, Pipeline!Pairing, Link!Outstanding, Pipeline!Outstanding,
           Link!RequestAt, Pipeline!RequestAt, LinkState, LinkBuffer
  <1>4. Link!NoOrphanReply => Pipeline!NoOrphanReply
    BY DEF Link!NoOrphanReply, Pipeline!NoOrphanReply
  <1>5. Link!AuthGoesFirst => Pipeline!AuthGoesFirst
    BY DEF Link!AuthGoesFirst, Pipeline!AuthGoesFirst, Link!Outstanding,
           Pipeline!Outstanding, Link!RequestAt, Pipeline!RequestAt, Link!AuthRequest,
           Pipeline!AuthRequest, LinkState, LinkBuffer
  <1>6. IInv => /\ Pipeline!QueueAccounting /\ Pipeline!Pairing
                /\ Pipeline!NoOrphanReply /\ Pipeline!AuthGoesFirst
    BY <1>1, <1>2, <1>3, <1>4, <1>5
  <1> QED
    BY <1>6, Always, PTL

--------------------------------------------------------------------------------
(* The order of the answers.  What a client was sent and what it still waits for is one *)
(* line of pieces of its stream, each beginning where the last one ended, between the   *)
(* blanks that stand for what is not its own.                                           *)

Blank == <<>>

\* How far the stream is after each mark of m.
Stands(p, m, e, f) ==
  /\ p[0] = e /\ p[Len(m)] = f
  /\ \A i \in 1..Len(m) : IF m[i] = Blank THEN p[i] = p[i - 1]
                          ELSE p[i - 1] = m[i][1] /\ p[i] = m[i][2]

Line(e, m, f) == \E p \in [0..Len(m) -> Nat] : Stands(p, m, e, f)

\* z is x and then y.
Joined(z, x, y) ==
  /\ Len(x) \in Nat /\ Len(y) \in Nat /\ Len(z) = Len(x) + Len(y)
  /\ \A i \in 1..Len(x) : z[i] = x[i]
  /\ \A i \in 1..Len(y) : z[i + Len(x)] = y[i]

Alined(x, y) == /\ Len(x) \in Nat /\ Len(y) = Len(x)
                /\ \A i \in 1..Len(x) : y[i] = x[i]

\* What lies at a place of the whole, given from either end, makes it joined.
LEMMA JoinedBy ==
  ASSUME NEW z, NEW x, NEW y, NEW m \in Nat, NEW n \in Nat,
         Len(x) = m, Len(y) = n, Len(z) = m + n,
         \A i \in 1..m : z[i] = x[i], \A i \in 1..n : z[i + m] = y[i]
  PROVE  Joined(z, x, y)
  <1>1. Len(x) \in Nat /\ Len(y) \in Nat /\ Len(z) = Len(x) + Len(y)
    OBVIOUS
  <1>2. \A i \in 1..Len(x) : z[i] = x[i]
    OBVIOUS
  <1>3. \A i \in 1..Len(y) : z[i + Len(x)] = y[i]
    OBVIOUS
  <1> QED BY <1>1, <1>2, <1>3 DEF Joined

LEMMA JoinedSeq ==
  ASSUME NEW S, NEW x \in Seq(S), NEW y \in Seq(S)
  PROVE  Joined(x \o y, x, y)
  BY DEF Joined

LEMMA JoinedCut ==
  ASSUME NEW S, NEW x \in Seq(S), NEW k \in 0..Len(x)
  PROVE  Joined(x, SubSeq(x, 1, k), SubSeq(x, k + 1, Len(x)))
  <1> DEFINE u == SubSeq(x, 1, k)
             v == SubSeq(x, k + 1, Len(x))
  <1>1. /\ Len(u) = k /\ Len(v) = Len(x) - k /\ Len(x) \in Nat /\ k \in Nat
        /\ \A i \in 1..k : u[i] = x[i]
        /\ \A i \in 1..(Len(x) - k) : v[i] = x[i + k]
    BY CutFacts
  <1> HIDE DEF u, v
  <1>2. Joined(x, u, v)
    BY <1>1 DEF Joined
  <1> QED BY <1>2 DEF u, v

LEMMA PieceNotBlank == \A q \in Piece : q # Blank /\ q[2] \in Nat
  <1>1. \A u, v : <<u, v>> # <<>>
    OBVIOUS
  <1> QED BY <1>1 DEF Piece, Blank

LEMMA LineSame ==
  ASSUME NEW x, NEW y, Alined(x, y), NEW e, NEW f, Line(e, x, f)
  PROVE  Line(e, y, f)
  BY DEF Alined, Line, Stands

LEMMA LineBlank ==
  ASSUME NEW x, Len(x) \in Nat, \A i \in 1..Len(x) : x[i] = Blank, NEW e \in Nat
  PROVE  Line(e, x, e)
  <1> DEFINE p == [i \in 0..Len(x) |-> e]
  <1>1. p \in [0..Len(x) -> Nat] /\ Stands(p, x, e, e)
    BY DEF Stands
  <1> QED BY <1>1 DEF Line

LEMMA LineOne ==
  ASSUME NEW x, Len(x) = 1, NEW e \in Nat, NEW f
  PROVE  Line(e, x, f) <=> /\ f \in Nat
                           /\ IF x[1] = Blank THEN f = e ELSE e = x[1][1] /\ f = x[1][2]
  <1>1. ASSUME Line(e, x, f)
        PROVE  f \in Nat /\ IF x[1] = Blank THEN f = e ELSE e = x[1][1] /\ f = x[1][2]
    BY <1>1 DEF Line, Stands
  <1>2. ASSUME f \in Nat, IF x[1] = Blank THEN f = e ELSE e = x[1][1] /\ f = x[1][2]
        PROVE  Line(e, x, f)
    <2> DEFINE p == [i \in 0..1 |-> IF i = 0 THEN e ELSE f]
    <2>1. p \in [0..1 -> Nat] /\ p[0] = e /\ p[1] = f
      BY <1>2
    <2> HIDE DEF p
    <2>2. Stands(p, x, e, f)
      BY <1>2, <2>1 DEF Stands
    <2> QED BY <2>1, <2>2 DEF Line
  <1> QED BY <1>1, <1>2

LEMMA LineJoin ==
  ASSUME NEW x, NEW y, NEW z, Joined(z, x, y), NEW e, NEW f, NEW g,
         Line(e, x, f), Line(f, y, g)
  PROVE  Line(e, z, g)
  <1>1. PICK p \in [0..Len(x) -> Nat] : Stands(p, x, e, f)
    BY DEF Line
  <1>2. PICK q \in [0..Len(y) -> Nat] : Stands(q, y, f, g)
    BY DEF Line
  <1>3. /\ Len(x) \in Nat /\ Len(y) \in Nat /\ Len(z) = Len(x) + Len(y)
        /\ \A i \in 1..Len(x) : z[i] = x[i]
        /\ \A i \in 1..Len(y) : z[i + Len(x)] = y[i]
    BY DEF Joined
  <1> DEFINE r == [i \in 0..Len(z) |-> IF i <= Len(x) THEN p[i] ELSE q[i - Len(x)]]
  <1>4. r \in [0..Len(z) -> Nat]
    BY <1>1, <1>2, <1>3
  <1>5. /\ \A i \in 0..Len(x) : r[i] = p[i]
        /\ \A i \in 0..Len(y) : r[i + Len(x)] = q[i]
    BY <1>1, <1>2, <1>3 DEF Stands
  <1> HIDE DEF r
  <1>6. r[0] = e /\ r[Len(z)] = g
    BY <1>1, <1>2, <1>3, <1>5 DEF Stands
  <1>7. ASSUME NEW i \in 1..Len(z)
        PROVE  IF z[i] = Blank THEN r[i] = r[i - 1]
               ELSE r[i - 1] = z[i][1] /\ r[i] = z[i][2]
    <2>1. CASE i <= Len(x)
      <3>1. i \in 1..Len(x) /\ i \in 0..Len(x) /\ i - 1 \in 0..Len(x)
        BY <1>3, <2>1
      <3>2. r[i] = p[i] /\ r[i - 1] = p[i - 1] /\ z[i] = x[i]
        BY <1>3, <1>5, <3>1
      <3> QED BY <1>1, <3>1, <3>2 DEF Stands
    <2>2. CASE ~(i <= Len(x))
      <3> DEFINE j == i - Len(x)
      <3>1. /\ j \in 1..Len(y) /\ j \in 0..Len(y) /\ j - 1 \in 0..Len(y)
            /\ j + Len(x) = i /\ (j - 1) + Len(x) = i - 1
        BY <1>3, <2>2
      <3> HIDE DEF j
      <3>2. r[i] = q[j] /\ r[i - 1] = q[j - 1] /\ z[i] = y[j]
        BY <1>3, <1>5, <3>1
      <3> QED BY <1>2, <3>1, <3>2 DEF Stands
    <2> QED BY <2>1, <2>2
  <1>8. Stands(r, z, e, g)
    BY <1>6, <1>7 DEF Stands
  <1> QED BY <1>4, <1>8 DEF Line

LEMMA LineSplit ==
  ASSUME NEW x, NEW y, NEW z, Joined(z, x, y), NEW e, NEW g, Line(e, z, g)
  PROVE  \E f \in Nat : Line(e, x, f) /\ Line(f, y, g)
  <1>1. PICK p \in [0..Len(z) -> Nat] : Stands(p, z, e, g)
    BY DEF Line
  <1>2. /\ Len(x) \in Nat /\ Len(y) \in Nat /\ Len(z) = Len(x) + Len(y)
        /\ \A i \in 1..Len(x) : z[i] = x[i]
        /\ \A i \in 1..Len(y) : z[i + Len(x)] = y[i]
    BY DEF Joined
  <1> DEFINE q == [i \in 0..Len(x) |-> p[i]]
             r == [i \in 0..Len(y) |-> p[i + Len(x)]]
  <1>3. q \in [0..Len(x) -> Nat] /\ r \in [0..Len(y) -> Nat] /\ p[Len(x)] \in Nat
    BY <1>1, <1>2
  <1>4. Stands(q, x, e, p[Len(x)])
    BY <1>1, <1>2 DEF Stands
  <1>5. Stands(r, y, p[Len(x)], g)
    <2>1. r[0] = p[Len(x)] /\ r[Len(y)] = g
      <3>1. Len(y) + Len(x) = Len(z) /\ 0 + Len(x) = Len(x)
        BY <1>2
      <3> QED BY <1>1, <1>2, <3>1 DEF Stands
    <2>2. ASSUME NEW i \in 1..Len(y)
          PROVE  IF y[i] = Blank THEN r[i] = r[i - 1]
                 ELSE r[i - 1] = y[i][1] /\ r[i] = y[i][2]
      <3>1. /\ i + Len(x) \in 1..Len(z) /\ (i + Len(x)) - 1 = (i - 1) + Len(x)
            /\ i \in 0..Len(y) /\ i - 1 \in 0..Len(y)
        BY <1>2
      <3>2. r[i] = p[i + Len(x)] /\ r[i - 1] = p[(i + Len(x)) - 1]
        BY <3>1
      <3>3. z[i + Len(x)] = y[i]
        BY <1>2
      <3> HIDE DEF r
      <3> QED BY <1>1, <3>1, <3>2, <3>3 DEF Stands
    <2> QED BY <2>1, <2>2 DEF Stands
  <1> HIDE DEF q, r
  <1> QED BY <1>3, <1>4, <1>5 DEF Line

\* The pieces of a chain leave no gap.
LEMMA ChainLine ==
  ASSUME NEW x \in Seq(Piece), NEW b \in Nat, Chain(x, b)
  PROVE  Line(b, x, EndOfChain(x, b))
  <1> DEFINE p == [i \in 0..Len(x) |-> IF i = 0 THEN b ELSE x[i][2]]
  <1>1. /\ Len(x) \in Nat
        /\ \A i \in 1..Len(x) : x[i] \in Piece /\ x[i] # Blank /\ x[i][2] \in Nat
    BY PieceNotBlank
  <1>2. p \in [0..Len(x) -> Nat]
    BY <1>1
  <1>3. p[0] = b /\ \A i \in 1..Len(x) : p[i] = x[i][2]
    BY <1>1
  <1> HIDE DEF p
  <1>4. p[Len(x)] = EndOfChain(x, b)
    BY <1>1, <1>3 DEF EndOfChain
  <1>5. ASSUME NEW i \in 1..Len(x) PROVE p[i - 1] = x[i][1] /\ p[i] = x[i][2]
    <2>1. i = 1 \/ i - 1 \in 1..Len(x)
      BY <1>1
    <2> QED BY <1>3, <2>1 DEF Chain
  <1>6. Stands(p, x, b, EndOfChain(x, b))
    BY <1>1, <1>3, <1>4, <1>5 DEF Stands
  <1> QED BY <1>2, <1>6 DEF Line

(* The invariant of the order. *)

SentMarks(s) == [i \in 1..Len(s) |-> IF IsReply(s[i]) THEN s[i].req.cmd ELSE Blank]

\* The requests that a reply is expected to, oldest first.
Asked == [i \in 1..Link!Outstanding |-> Link!RequestAt(i)]

AskedMarks(c, q) == [i \in 1..Len(q) |-> IF q[i].asker = c THEN q[i].cmd ELSE Blank]

\* The condition of AnswersInOrder.
Orderly == swallowed = 0 /\ ~AddressReused

\* c has its connection, or none yet.
Served(c) == clientConn[c] = NoAddr \/ IsConn(clientConn[c], c)

RepliesTo(c) == {x \in Reply : x.req.asker = c}

\* c was answered from the beginning of its stream up to some point, and, while it can
\* still be, is waiting for what follows, up to where its session is.
OrderOf(c) ==
  /\ SentTo(c) \in Seq(RepliesTo(c))
  /\ \E e \in Nat : /\ Line(0, SentMarks(SentTo(c)), e)
                    /\ Served(c) /\ ServerUp =>
                         Line(e, AskedMarks(c, Asked), session[c].from)

OrderInv == Orderly => \A c \in Clients : OrderOf(c)

LiveConnected == \A a \in Addrs : Live(net, a) => net.mem[a].connected = TRUE

OInv == IInv /\ LiveConnected /\ OrderInv

LEMMA MarksTyped ==
  /\ \A s : Len(s) \in Nat => /\ Len(SentMarks(s)) = Len(s)
                              /\ \A i \in 1..Len(s) : SentMarks(s)[i] =
                                   IF IsReply(s[i]) THEN s[i].req.cmd ELSE Blank
  /\ \A c, q : Len(q) \in Nat => /\ Len(AskedMarks(c, q)) = Len(q)
                                 /\ \A i \in 1..Len(q) : AskedMarks(c, q)[i] =
                                      IF q[i].asker = c THEN q[i].cmd ELSE Blank
  <1>1. ASSUME NEW s, Len(s) \in Nat
        PROVE  /\ Len(SentMarks(s)) = Len(s)
               /\ \A i \in 1..Len(s) : SentMarks(s)[i] =
                    IF IsReply(s[i]) THEN s[i].req.cmd ELSE Blank
    BY <1>1 DEF SentMarks
  <1>2. ASSUME NEW c, NEW q, Len(q) \in Nat
        PROVE  /\ Len(AskedMarks(c, q)) = Len(q)
               /\ \A i \in 1..Len(q) : AskedMarks(c, q)[i] =
                    IF q[i].asker = c THEN q[i].cmd ELSE Blank
    BY <1>2 DEF AskedMarks
  <1> QED BY <1>1, <1>2

LEMMA MarksSame ==
  ASSUME NEW x, NEW y, Alined(x, y), NEW c
  PROVE  Alined(AskedMarks(c, x), AskedMarks(c, y))
  BY MarksTyped DEF Alined

LEMMA MarksJoined ==
  ASSUME NEW x, NEW y, NEW z, Joined(z, x, y), NEW c
  PROVE  /\ Joined(SentMarks(z), SentMarks(x), SentMarks(y))
         /\ Joined(AskedMarks(c, z), AskedMarks(c, x), AskedMarks(c, y))
  <1>1. /\ Len(x) \in Nat /\ Len(y) \in Nat /\ Len(z) = Len(x) + Len(y) /\ Len(z) \in Nat
        /\ \A i \in 1..Len(x) : z[i] = x[i] /\ i \in 1..Len(z)
        /\ \A i \in 1..Len(y) : z[i + Len(x)] = y[i] /\ i + Len(x) \in 1..Len(z)
    BY DEF Joined
  <1> DEFINE sent(q, i) == IF IsReply(q[i]) THEN q[i].req.cmd ELSE Blank
             asked(q, i) == IF q[i].asker = c THEN q[i].cmd ELSE Blank
  <1> HIDE DEF sent, asked
  <1>2. ASSUME NEW q, Len(q) \in Nat
        PROVE  /\ Len(SentMarks(q)) = Len(q) /\ Len(AskedMarks(c, q)) = Len(q)
               /\ \A i \in 1..Len(q) : /\ SentMarks(q)[i] = sent(q, i)
                                      /\ AskedMarks(c, q)[i] = asked(q, i)
    BY <1>2, MarksTyped DEF sent, asked
  <1>3. /\ \A i \in 1..Len(x) : sent(z, i) = sent(x, i) /\ asked(z, i) = asked(x, i)
        /\ \A i \in 1..Len(y) : /\ sent(z, i + Len(x)) = sent(y, i)
                              /\ asked(z, i + Len(x)) = asked(y, i)
    BY <1>1 DEF sent, asked
  <1>4. Joined(SentMarks(z), SentMarks(x), SentMarks(y))
    BY <1>1, <1>2, <1>3 DEF Joined
  <1>5. Joined(AskedMarks(c, z), AskedMarks(c, x), AskedMarks(c, y))
    BY <1>1, <1>2, <1>3 DEF Joined
  <1> QED BY <1>4, <1>5

\* The requests outstanding in the pipeline.
LEMMA AskedTyped ==
  ASSUME IInv
  PROVE  /\ Len(toProxy) \in Nat /\ Len(toServer) \in Nat /\ Len(LinkBuffer) \in Nat
         /\ Link!Outstanding = Len(toProxy) + Len(toServer) + Len(LinkBuffer)
         /\ Len(Asked) = Link!Outstanding /\ Len(Asked) \in Nat
         /\ \A i \in 1..Len(Asked) : Asked[i] = Link!RequestAt(i)
         /\ Asked \in Seq(Link!Request)
  <1>1. /\ Len(toProxy) \in Nat /\ Len(toServer) \in Nat /\ Len(LinkBuffer) \in Nat
        /\ Link!Outstanding = Len(toProxy) + Len(toServer) + Len(LinkBuffer)
    BY LinkTyped DEF Link!Outstanding
  <1>2. Link!Outstanding \in Nat
    BY <1>1
  <1>3. \A i \in 1..Link!Outstanding : Link!RequestAt(i) \in Link!Request
    BY LinkAssumptions, Link!RequestAtTyped DEF IInv, Link!IInv
  <1>4. Asked \in Seq(Link!Request) /\ Len(Asked) = Link!Outstanding
        /\ \A i \in 1..Len(Asked) : Asked[i] = Link!RequestAt(i)
    BY <1>2, <1>3 DEF Asked
  <1> QED BY <1>1, <1>2, <1>4

LEMMA AskedKept ==
  ASSUME UNCHANGED <<toProxy, toServer, LinkBuffer>>
  PROVE  Asked' = Asked
  BY DEF Asked, Link!Outstanding, Link!RequestAt

--------------------------------------------------------------------------------
(* Clients and their connections. *)

LEMMA OrderlyBefore ==
  ASSUME ProxyInv, clientConn' \in [Clients -> Addrs \union {NoAddr}],
         \A c \in Clients : clientConn[c] # NoAddr => clientConn'[c] = clientConn[c],
         ~AddressReused'
  PROVE  ~AddressReused
  BY DEF AddressReused

\* While no address is reused, a client has a live connection exactly while what lives
\* at its address is it.
LEMMA OwnAddress ==
  ASSUME ProxyInv, ~AddressReused, NEW c \in Clients, clientConn[c] # NoAddr
  PROVE  /\ clientConn[c] \in Addrs \ {ServerAddr}
         /\ Live(net, clientConn[c]) <=> IsConn(clientConn[c], c)
         /\ \A d \in Clients \ {c} : clientConn[d] # clientConn[c]
  <1> DEFINE a == clientConn[c]
  <1>1. /\ a \in Addrs /\ a # ServerAddr
        /\ \A d \in Clients \ {c} : clientConn[d] # clientConn[c]
    BY DEF ProxyInv, AddressReused
  <1>2. Live(net, a) => net.mem[a].peer = c
    <2>1. Live(net, a) => net.mem[a].peer \in Clients /\ clientConn[net.mem[a].peer] = a
      BY <1>1 DEF ProxyInv, Settled, Live
    <2> QED BY <1>1, <2>1
  <1> QED BY <1>1, <1>2 DEF IsConn

\* The part of SentTo that is still in the buffer of a connection.
LEMMA SentSame ==
  ASSUME NEW c \in Clients, clientConn'[c] = clientConn[c], got'[c] = got[c],
         clientConn[c] # NoAddr =>
           LET o == net.mem[clientConn[c]]
               p == net'.mem[clientConn[c]] IN
           p.state = o.state /\ p.peer = o.peer /\ p.send = o.send
  PROVE  SentTo(c)' = SentTo(c) /\ (Served(c)' <=> Served(c))
  <1>1. clientConn[c] # NoAddr =>
          /\ (IsConn(clientConn[c], c))' <=> IsConn(clientConn[c], c)
          /\ net'.mem[clientConn[c]].send = net.mem[clientConn[c]].send
    BY DEF IsConn, Live
  <1>2. clientConn[c] = NoAddr => clientConn'[c] = NoAddr
    OBVIOUS
  <1> QED BY <1>1, <1>2 DEF SentTo, Served

\* Nothing that has to do with c happens.
LEMMA OrderSame ==
  ASSUME NEW c \in Clients, OrderOf(c), SentTo(c)' = SentTo(c), Served(c)' => Served(c),
         ServerUp' => ServerUp /\ Alined(Asked, Asked'),
         session'[c].from = session[c].from
  PROVE  OrderOf(c)'
  <1>1. PICK e \in Nat : /\ Line(0, SentMarks(SentTo(c)), e)
                         /\ Served(c) /\ ServerUp =>
                              Line(e, AskedMarks(c, Asked), session[c].from)
    BY DEF OrderOf
  <1>2. ServerUp' => Alined(AskedMarks(c, Asked), AskedMarks(c, Asked'))
    BY MarksSame
  <1>3. Served(c)' /\ ServerUp' => Line(e, AskedMarks(c, Asked'), session'[c].from)
    BY <1>1, <1>2, LineSame
  <1>4. Line(0, SentMarks(SentTo(c)'), e)
    BY <1>1
  <1>5. SentTo(c)' \in Seq(RepliesTo(c))
    BY DEF OrderOf
  <1> QED BY <1>3, <1>4, <1>5 DEF OrderOf, Line, SentMarks, AskedMarks

\* c is lost, with what was not sent to it.
LEMMA OrderCut ==
  ASSUME NEW c \in Clients, OrderOf(c), NEW k \in 0..Len(SentTo(c)),
         SentTo(c)' = SubSeq(SentTo(c), 1, k), ~Served(c)'
  PROVE  OrderOf(c)'
  <1> DEFINE s == SentTo(c)
  <1>1. PICK g \in Nat : Line(0, SentMarks(s), g)
    BY DEF OrderOf
  <1>2. s \in Seq(RepliesTo(c))
    BY DEF OrderOf
  <1> HIDE DEF s
  <1>3. Joined(s, SubSeq(s, 1, k), SubSeq(s, k + 1, Len(s))) /\ SubSeq(s, 1, k) \in Seq(RepliesTo(c))
    BY <1>2, JoinedCut, CutFacts DEF s
  <1>4. PICK f \in Nat : Line(0, SentMarks(SubSeq(s, 1, k)), f)
    BY <1>1, <1>3, MarksJoined, LineSplit
  <1>5. Line(0, SentMarks(SentTo(c)'), f) /\ SentTo(c)' \in Seq(RepliesTo(c))
    BY <1>3, <1>4 DEF s
  <1> QED BY <1>5 DEF OrderOf, Line, SentMarks

--------------------------------------------------------------------------------
(* One lemma per action again. *)

OrderStep == LiveConnected' /\ OrderInv'

\* A step that touches no client's output, no session and no request.
LEMMA AlikeOrder ==
  ASSUME OInv, UNCHANGED <<session, clientConn, got, swallowed>>,
         \A b \in Addrs : Alike(net.mem[b], net'.mem[b]),
         Alined(Asked, Asked')
  PROVE  OrderStep
  <1>1. ProxyInv /\ LiveConnected /\ OrderInv
    BY DEF OInv, IInv
  <1>2. LiveConnected'
    BY <1>1 DEF LiveConnected, Live, Alike
  <1>3. ASSUME Orderly', NEW c \in Clients PROVE OrderOf(c)'
    <2>1. Orderly
      BY <1>3 DEF Orderly, AddressReused
    <2>2. OrderOf(c)
      BY <1>1, <2>1 DEF OrderInv
    <2>3. clientConn[c] # NoAddr => clientConn[c] \in Addrs
      BY <1>1 DEF ProxyInv
    <2>4. SentTo(c)' = SentTo(c) /\ (Served(c)' <=> Served(c))
      <3>1. clientConn[c] # NoAddr =>
              LET o == net.mem[clientConn[c]]
                  p == net'.mem[clientConn[c]] IN
              p.state = o.state /\ p.peer = o.peer /\ p.send = o.send
        BY <2>3 DEF Alike
      <3> QED BY <3>1, SentSame
    <2>5. ServerUp' => ServerUp
      BY ProxyAddrsAssumption DEF ServerUp, Live, Alike
    <2> QED BY <2>2, <2>4, <2>5, OrderSame
  <1> QED BY <1>2, <1>3 DEF OrderStep, OrderInv

LEMMA AlinedSame ==
  ASSUME IInv, Asked' = Asked
  PROVE  Alined(Asked, Asked')
  BY AskedTyped DEF Alined

\* A call on one connection that keeps its output.
LEMMA OneAlikeOrder ==
  ASSUME OInv, UNCHANGED <<session, clientConn, got, upstreamVars>>,
         NEW a \in Addrs, NEW p, OnlyAt(net, net', a, p), Alike(net.mem[a], p)
  PROVE  OrderStep
  <1>1. ProxyInv /\ IInv /\ net \in Network
    BY DEF OInv, IInv, ProxyInv, Coherent
  <1>2. \A b \in Addrs : Alike(net.mem[b], net'.mem[b])
    <2>1. net'.mem[a] = p /\ \A b \in Addrs \ {a} : net'.mem[b] = net.mem[b]
      BY <1>1, OnlyAtFacts
    <2> QED BY <2>1 DEF Alike
  <1>3. LinkBuffer' = LinkBuffer
    BY <1>1, LinkFrame DEF Alike, ServerUp, Live
  <1>4. Alined(Asked, Asked') /\ swallowed' = swallowed
    BY <1>1, <1>3, AskedKept, AlinedSame DEF upstreamVars
  <1> QED BY <1>2, <1>4, AlikeOrder

LEMMA UnchangedOrder ==
  ASSUME OInv, UNCHANGED <<net, session, clientConn, got, upstreamVars>>
  PROVE  OrderStep
  <1>1. IInv /\ \A b \in Addrs : Alike(net.mem[b], net'.mem[b])
    BY DEF OInv, Alike
  <1>2. LinkBuffer' = LinkBuffer
    BY DEF LinkBuffer, ServerUp, Live
  <1>3. Alined(Asked, Asked') /\ swallowed' = swallowed
    BY <1>1, <1>2, AskedKept, AlinedSame DEF upstreamVars
  <1> QED BY <1>1, <1>3, AlikeOrder

LEMMA WriteFailsOrder ==
  ASSUME OInv, NEW a \in Addrs, WriteFails(a)
  PROVE  OrderStep
  <1>1. /\ net' = OnWriteError(net, a) /\ net \in Network
        /\ UNCHANGED <<session, clientConn, got, upstreamVars>>
    BY DEF WriteFails, OInv, IInv, ProxyInv, Coherent
  <1>2. PICK p : OnlyAt(net, net', a, p) /\ Alike(net.mem[a], p)
    BY <1>1, SetWritableFrame DEF OnWriteError
  <1> QED BY <1>1, <1>2, OneAlikeOrder

LEMMA PeerClosesOrder ==
  ASSUME OInv, NEW a \in Addrs, PeerCloses(a)
  PROVE  OrderStep
  <1> DEFINE p == [net.mem[a] EXCEPT !.gone = TRUE]
  <1>1. /\ net' = [net EXCEPT !.mem[a].gone = TRUE] /\ net \in Network
        /\ UNCHANGED <<session, clientConn, got, upstreamVars>>
    BY DEF PeerCloses, OInv, IInv, ProxyInv, Coherent
  <1>2. OnlyAt(net, net', a, p)
    BY <1>1 DEF OnlyAt, Network
  <1>3. Alike(net.mem[a], p)
    BY <1>1 DEF Alike, Object, Network
  <1> QED BY <1>1, <1>2, <1>3, OneAlikeOrder

LEMMA ServerReplyOrder ==
  ASSUME OInv, NEW kind \in {"status", "error", "emptyBulk"}, ServerReply(kind)
  PROVE  OrderStep
  <1>1. /\ toServer # <<>> /\ toServer' = Tail(toServer)
        /\ \/ swallowed' = swallowed + 1
           \/ /\ toProxy' = Append(toProxy, [req |-> Head(toServer), kind |-> kind])
              /\ swallowed' = swallowed
        /\ UNCHANGED <<net, session, clientConn, cmdQueue, auth, jammed, orphan, got>>
    BY DEF ServerReply
  <1>2. IInv /\ LiveConnected /\ swallowed \in Nat
        /\ toProxy \in Seq(Link!Reply) /\ toServer \in Seq(Link!Request)
    BY LinkTyped DEF OInv
  <1>3. CASE swallowed' = swallowed + 1
    <2>1. ~Orderly'
      BY <1>2, <1>3 DEF Orderly
    <2>2. LiveConnected'
      BY <1>1, <1>2 DEF LiveConnected, Live
    <2> QED BY <2>1, <2>2 DEF OrderStep, OrderInv
  <1>4. CASE /\ toProxy' = Append(toProxy, [req |-> Head(toServer), kind |-> kind])
             /\ swallowed' = swallowed
    <2>1. LinkBuffer' = LinkBuffer
      BY <1>1 DEF LinkBuffer, ServerUp, Live
    <2>2. /\ Len(toServer) \in Nat \ {0} /\ Head(toServer) = toServer[1]
          /\ Len(toServer') = Len(toServer) - 1
          /\ \A i \in 1..(Len(toServer) - 1) : toServer'[i] = toServer[i + 1]
      BY <1>1, <1>2
    <2>3. /\ Len(toProxy) \in Nat /\ Len(toProxy') = Len(toProxy) + 1
          /\ \A i \in 1..Len(toProxy) : toProxy'[i] = toProxy[i]
          /\ toProxy'[Len(toProxy) + 1].req = toServer[1]
      <3> DEFINE x == [req |-> Head(toServer), kind |-> kind]
      <3>1. x.req = toServer[1]
        BY <2>2
      <3>2. toProxy' = Append(toProxy, x)
        BY <1>4
      <3> HIDE DEF x
      <3> QED BY <1>2, <3>1, <3>2
    <2>4. Link!Outstanding' = Link!Outstanding
      BY <1>2, <2>1, <2>2, <2>3, AskedTyped DEF Link!Outstanding
    <2>5. ASSUME NEW i \in 1..Link!Outstanding PROVE Link!RequestAt(i)' = Link!RequestAt(i)
      <3> DEFINE P == Len(toProxy)
                 T == Len(toServer)
      <3>1. P \in Nat /\ T \in Nat /\ T >= 1 /\ i \in Nat /\ i >= 1
        BY <1>2, <2>2, <2>3, AskedTyped
      <3>2. /\ Link!RequestAt(i) = IF i <= P THEN toProxy[i].req
                                  ELSE IF i <= P + T THEN toServer[i - P]
                                  ELSE LinkBuffer[i - (P + T)]
            /\ Link!RequestAt(i)' = IF i <= P + 1 THEN toProxy'[i].req
                                   ELSE IF i <= (P + 1) + (T - 1) THEN toServer'[i - (P + 1)]
                                   ELSE LinkBuffer[i - ((P + 1) + (T - 1))]
        BY <2>1, <2>2, <2>3 DEF Link!RequestAt
      <3> HIDE DEF P, T
      <3>3. CASE i <= P
        <4>1. i \in 1..P /\ i <= P + 1
          BY <3>1, <3>3
        <4> QED BY <2>3, <3>2, <3>3, <4>1 DEF P
      <3>4. CASE i = P + 1
        <4>1. i <= P + 1 /\ ~(i <= P) /\ i <= P + T /\ i - P = 1
          BY <3>1, <3>4
        <4> QED BY <2>3, <3>2, <3>4, <4>1 DEF P
      <3>5. CASE i > P + 1 /\ i <= P + T
        <4>1. /\ ~(i <= P) /\ ~(i <= P + 1) /\ i <= (P + 1) + (T - 1)
              /\ i - (P + 1) \in 1..(T - 1) /\ (i - (P + 1)) + 1 = i - P
          BY <3>1, <3>5
        <4> QED BY <2>2, <3>2, <3>5, <4>1 DEF T
      <3>6. CASE i > P + T
        <4>1. /\ ~(i <= P) /\ ~(i <= P + 1) /\ ~(i <= (P + 1) + (T - 1)) /\ ~(i <= P + T)
              /\ i - (P + T) = i - ((P + 1) + (T - 1))
          BY <3>1, <3>6
        <4> QED BY <3>2, <4>1
      <3> QED BY <3>1, <3>3, <3>4, <3>5, <3>6
    <2>6. Alined(Asked, Asked')
      <3>1. Asked' = [i \in 1..Link!Outstanding |-> Link!RequestAt(i)']
        BY <2>4 DEF Asked
      <3>2. Asked' = Asked
        BY <2>5, <3>1 DEF Asked
      <3> QED BY <1>2, <3>2, AlinedSame
    <2>7. \A b \in Addrs : Alike(net.mem[b], net'.mem[b])
      BY <1>1 DEF Alike
    <2> QED BY <1>1, <1>4, <2>6, <2>7, AlikeOrder
  <1> QED BY <1>1, <1>3, <1>4

LEMMA AcceptOrder ==
  ASSUME OInv, NEW d \in Clients, NEW a \in Addrs, Accept(d, a)
  PROVE  OrderStep
  <1> DEFINE o == NewObject(d)
  <1>1. /\ clientConn[d] = NoAddr /\ ~Live(net, a) /\ net' = Update(net, a, o)
        /\ clientConn' = [clientConn EXCEPT ![d] = a]
        /\ UNCHANGED <<session, got, upstreamVars>>
    BY DEF Accept
  <1>2. /\ IInv /\ ProxyInv /\ LiveConnected /\ OrderInv /\ net \in Network
        /\ clientConn \in [Clients -> Addrs \union {NoAddr}]
    BY DEF OInv, IInv, ProxyInv, Coherent
  <1>3. OnlyAt(net, net', a, o)
    BY <1>1, <1>2 DEF OnlyAt, Update, Network
  <1>4. o.state = "live" /\ o.peer = d /\ o.send = <<>> /\ o.connected = TRUE
    BY DEF NewObject, Connected
  <1> HIDE DEF o
  <1>5. net'.mem[a] = o /\ \A b \in Addrs \ {a} : net'.mem[b] = net.mem[b]
    BY <1>2, <1>3, OnlyAtFacts
  <1>6. LiveConnected'
    BY <1>2, <1>4, <1>5 DEF LiveConnected, Live
  <1>7. ASSUME Orderly', NEW c \in Clients PROVE OrderOf(c)'
    <2>1. /\ clientConn' \in [Clients -> Addrs \union {NoAddr}]
          /\ clientConn'[d] = a /\ \A b \in Clients \ {d} : clientConn'[b] = clientConn[b]
      BY <1>1, <1>2
    <2>2. Orderly
      <3>1. ~AddressReused
        BY <1>1, <1>2, <1>7, <2>1, OrderlyBefore DEF Orderly
      <3> QED BY <1>1, <1>7, <3>1 DEF Orderly, upstreamVars
    <2>3. OrderOf(c)
      BY <1>2, <2>2 DEF OrderInv
    <2>4. a # ServerAddr /\ a # NoAddr /\ \A b \in Clients \ {d} : clientConn[b] # a
      BY <1>7, <2>1, ProxyAddrsAssumption DEF Orderly, AddressReused
    <2>5. ServerUp' => ServerUp /\ Alined(Asked, Asked')
      <3>1. net'.mem[ServerAddr] = net.mem[ServerAddr]
        BY <1>5, <2>4, ProxyAddrsAssumption
      <3>2. LinkBuffer' = LinkBuffer /\ (ServerUp' <=> ServerUp)
        BY <3>1 DEF LinkBuffer, ServerUp, Live
      <3> QED BY <1>1, <1>2, <3>2, AskedKept, AlinedSame DEF upstreamVars
    <2>6. SentTo(c)' = SentTo(c) /\ (Served(c)' => Served(c))
      <3>1. CASE c # d
        <4>1. clientConn[c] # NoAddr => net'.mem[clientConn[c]] = net.mem[clientConn[c]]
          BY <1>2, <1>5, <2>4, <3>1
        <4> QED BY <1>1, <2>1, <3>1, <4>1, SentSame
      <3>2. CASE c = d
        <4>1. SentTo(c) = got[c] \o <<>>
          BY <1>1, <3>2 DEF SentTo
        <4>2. SentTo(c)' = got[c] \o <<>>
          BY <1>1, <1>4, <1>5, <2>1, <2>4, <3>2 DEF SentTo, IsConn, Live
        <4>3. Served(c)
          BY <1>1, <3>2 DEF Served
        <4> QED BY <4>1, <4>2, <4>3
      <3> QED BY <3>1, <3>2
    <2> QED BY <1>1, <2>3, <2>5, <2>6, OrderSame
  <1> QED BY <1>6, <1>7 DEF OrderStep, OrderInv

\* What is moved from the front of s to the end of x is still in its place.
LEMMA MovedFacts ==
  ASSUME NEW S, NEW x \in Seq(S), NEW s \in Seq(S), NEW k \in 0..Len(s)
  PROVE  /\ (x \o SubSeq(s, 1, k)) \o SubSeq(s, k + 1, Len(s)) = x \o s
         /\ x \o SubSeq(s, 1, k) = SubSeq(x \o s, 1, Len(x) + k)
         /\ Len(x) + k \in 0..Len(x \o s)
  <1> DEFINE u == SubSeq(s, 1, k)
             v == SubSeq(s, k + 1, Len(s))
             z == x \o s
             w == x \o u
             y == w \o v
             c == SubSeq(z, 1, Len(x) + k)
  <1>1. /\ u \in Seq(S) /\ v \in Seq(S) /\ Len(u) = k /\ Len(v) = Len(s) - k
        /\ Len(s) \in Nat /\ Len(x) \in Nat /\ k \in Nat /\ k <= Len(s)
        /\ \A i \in 1..k : u[i] = s[i]
        /\ \A i \in 1..(Len(s) - k) : v[i] = s[i + k]
    BY CutFacts
  <1> HIDE DEF u, v
  <1>2. /\ z \in Seq(S) /\ Len(z) = Len(x) + Len(s)
        /\ \A i \in 1..Len(x) : z[i] = x[i]
        /\ \A i \in (Len(x) + 1)..(Len(x) + Len(s)) : z[i] = s[i - Len(x)]
    BY Concatenation
  <1>3. /\ w \in Seq(S) /\ Len(w) = Len(x) + k
        /\ \A i \in 1..Len(x) : w[i] = x[i]
        /\ \A i \in (Len(x) + 1)..(Len(x) + k) : w[i] = u[i - Len(x)]
    <2>1. u \in Seq(S) /\ Len(u) = k
      BY <1>1
    <2> QED BY <2>1, Concatenation
  <1> HIDE DEF w
  <1>4. /\ y \in Seq(S) /\ Len(y) = Len(w) + Len(v)
        /\ \A i \in 1..Len(w) : y[i] = w[i]
        /\ \A i \in (Len(w) + 1)..(Len(w) + Len(v)) : y[i] = v[i - Len(w)]
    <2>1. w \in Seq(S) /\ v \in Seq(S)
      BY <1>1, <1>3
    <2> QED BY <2>1, Concatenation
  <1>5. Len(x) + k \in 0..Len(z)
    BY <1>1, <1>2
  <1>6. /\ c \in Seq(S) /\ Len(c) = Len(x) + k
        /\ \A i \in 1..(Len(x) + k) : c[i] = z[i]
    BY <1>2, <1>5, CutFacts
  <1> HIDE DEF y, z, c
  <1>7. ASSUME NEW i \in 1..Len(w) PROVE w[i] = z[i] /\ w[i] = c[i]
    <2>1. CASE i <= Len(x)
      BY <1>1, <1>2, <1>3, <1>6, <2>1
    <2>2. CASE ~(i <= Len(x))
      <3>1. /\ i \in (Len(x) + 1)..(Len(x) + k) /\ i \in (Len(x) + 1)..(Len(x) + Len(s))
            /\ i - Len(x) \in 1..k /\ i \in 1..(Len(x) + k)
        BY <1>1, <1>3, <2>2
      <3> QED BY <1>1, <1>2, <1>3, <1>6, <3>1
    <2> QED BY <2>1, <2>2
  <1>8. w = c
    BY <1>3, <1>6, <1>7, SeqEqual
  <1>9. Len(y) = Len(z)
    BY <1>1, <1>2, <1>3, <1>4
  <1>10. ASSUME NEW i \in 1..Len(y) PROVE y[i] = z[i]
    <2>1. CASE i <= Len(w)
      <3>1. i \in 1..Len(w)
        BY <1>1, <1>3, <2>1
      <3> QED BY <1>4, <1>7, <3>1
    <2>2. CASE ~(i <= Len(w))
      <3>1. /\ i \in (Len(w) + 1)..(Len(w) + Len(v)) /\ i - Len(w) \in 1..(Len(s) - k)
            /\ i \in (Len(x) + 1)..(Len(x) + Len(s)) /\ (i - Len(w)) + k = i - Len(x)
        BY <1>1, <1>3, <1>4, <2>2
      <3> QED BY <1>1, <1>2, <1>4, <3>1
    <2> QED BY <2>1, <2>2
  <1>11. y = z
    BY <1>2, <1>4, <1>9, <1>10, SeqEqual
  <1> QED BY <1>5, <1>8, <1>11 DEF w, y, z, c, u, v

LEMMA WriteOutAsked ==
  ASSUME IInv, NEW k \in 0..Len(LinkBuffer),
         toServer' = toServer \o SubSeq(LinkBuffer, 1, k),
         LinkBuffer' = SubSeq(LinkBuffer, k + 1, Len(LinkBuffer)),
         UNCHANGED toProxy
  PROVE  Alined(Asked, Asked')
  <1> DEFINE P == Len(toProxy)
             T == Len(toServer)
             B == Len(LinkBuffer)
             u == SubSeq(LinkBuffer, 1, k)
  <1>1. /\ LinkBuffer \in Seq(Link!Request) /\ toServer \in Seq(Link!Request)
        /\ P \in Nat /\ T \in Nat /\ B \in Nat /\ k \in Nat /\ k <= B
    BY LinkTyped, AskedTyped
  <1>2. /\ u \in Seq(Link!Request) /\ Len(u) = k /\ \A i \in 1..k : u[i] = LinkBuffer[i]
        /\ Len(LinkBuffer') = B - k
        /\ \A i \in 1..(B - k) : LinkBuffer'[i] = LinkBuffer[i + k]
    <2>1. LinkBuffer \in Seq(Link!Request)
      BY <1>1
    <2> QED BY <2>1, CutFacts
  <1>3. toServer' = toServer \o u
    OBVIOUS
  <1> HIDE DEF u
  <1>4. /\ Len(toServer') = T + k /\ \A i \in 1..T : toServer'[i] = toServer[i]
        /\ \A i \in (T + 1)..(T + k) : toServer'[i] = u[i - T]
    BY <1>1, <1>2, <1>3, Concatenation
  <1>5. Link!Outstanding = P + T + B /\ Link!Outstanding' = Link!Outstanding
    <2>1. /\ Link!Outstanding = P + T + B
          /\ Link!Outstanding' = P + Len(toServer') + Len(LinkBuffer')
      BY DEF Link!Outstanding
    <2> HIDE DEF P, T, B
    <2> QED BY <1>1, <1>2, <1>4, <2>1
  <1>6. ASSUME NEW i \in 1..Link!Outstanding PROVE Link!RequestAt(i)' = Link!RequestAt(i)
    <2>1. /\ Link!RequestAt(i) = IF i <= P THEN toProxy[i].req
                                 ELSE IF i <= P + T THEN toServer[i - P]
                                 ELSE LinkBuffer[i - (P + T)]
          /\ Link!RequestAt(i)' = IF i <= P THEN toProxy[i].req
                                  ELSE IF i <= P + (T + k) THEN toServer'[i - P]
                                  ELSE LinkBuffer'[i - (P + (T + k))]
      BY <1>4 DEF Link!RequestAt
    <2>2. i \in Nat /\ i >= 1 /\ i <= P + T + B
      BY <1>1, <1>5
    <2> HIDE DEF P, T, B
    <2>3. CASE i <= P
      BY <2>1, <2>3
    <2>4. CASE ~(i <= P) /\ i <= P + T
      <3>1. i - P \in 1..T /\ i <= P + (T + k)
        BY <1>1, <2>2, <2>4
      <3> QED BY <1>4, <2>1, <2>4, <3>1
    <2>5. CASE ~(i <= P + T) /\ i <= P + (T + k)
      <3>1. /\ ~(i <= P) /\ i - P \in (T + 1)..(T + k) /\ (i - P) - T \in 1..k
            /\ (i - P) - T = i - (P + T)
        BY <1>1, <2>2, <2>5
      <3> QED BY <1>2, <1>4, <2>1, <2>5, <3>1
    <2>6. CASE ~(i <= P + (T + k))
      <3>1. /\ ~(i <= P) /\ ~(i <= P + T) /\ i - (P + (T + k)) \in 1..(B - k)
            /\ (i - (P + (T + k))) + k = i - (P + T)
        BY <1>1, <2>2, <2>6
      <3> QED BY <1>2, <2>1, <2>6, <3>1
    <2> QED BY <1>1, <2>2, <2>3, <2>4, <2>5, <2>6
  <1>7. Asked' = [i \in 1..Link!Outstanding |-> Link!RequestAt(i)']
    BY <1>5 DEF Asked
  <1>8. Asked' = Asked
    BY <1>6, <1>7 DEF Asked
  <1> QED BY <1>8, AlinedSame

\* The connection of d sends the first k items, or is closed after it.
LEMMA ClientOutputOrder ==
  ASSUME OInv, UNCHANGED <<session, clientConn, toServer, toProxy, swallowed>>,
         NEW d \in Clients, NEW a \in Addrs, IsConn(a, d),
         NEW p, OnlyAt(net, net', a, p),
         NEW k \in 0..Len(net.mem[a].send),
         got'[d] = got[d] \o SubSeq(net.mem[a].send, 1, k),
         \A c \in Clients \ {d} : got'[c] = got[c],
         \/ p.state = "freed"
         \/ /\ p.state = "live" /\ p.peer = d /\ p.connected = net.mem[a].connected
            /\ p.send = SubSeq(net.mem[a].send, k + 1, Len(net.mem[a].send))
  PROVE  OrderStep
  <1> DEFINE s == net.mem[a].send
  <1>1. /\ IInv /\ ProxyInv /\ LiveConnected /\ OrderInv /\ net \in Network
        /\ clientConn \in [Clients -> Addrs \union {NoAddr}]
        /\ got \in [Clients -> Seq(Items)] /\ s \in Seq(Items)
    <2>1. IInv /\ ProxyInv /\ LiveConnected /\ OrderInv /\ net \in Network
      BY DEF OInv, IInv, ProxyInv, Coherent
    <2>2. s \in Seq(Items)
      BY <2>1 DEF Network, Object
    <2> QED BY <2>1, <2>2 DEF ProxyInv
  <1>2. net'.mem[a] = p /\ \A b \in Addrs \ {a} : net'.mem[b] = net.mem[b]
    BY <1>1, OnlyAtFacts
  <1>3. Live(net, a) /\ net.mem[a].peer = d /\ d # Redis
    BY DEF IsConn, Clients
  <1>4. clientConn[d] = a /\ ~(a = ServerAddr /\ ServerUp)
    BY <1>1, <1>3, ServerPlace
  <1>5. LiveConnected'
    <2>1. p.state = "live" => p.connected = TRUE
      BY <1>1, <1>3 DEF LiveConnected
    <2> QED BY <1>1, <1>2, <2>1 DEF LiveConnected, Live
  <1>6. ASSUME Orderly', NEW c \in Clients PROVE OrderOf(c)'
    <2>1. Orderly
      BY <1>6 DEF Orderly, AddressReused
    <2>2. OrderOf(c)
      BY <1>1, <2>1 DEF OrderInv
    <2>3. a # ServerAddr /\ a # NoAddr /\ \A b \in Clients \ {d} : clientConn[b] # a
      BY <1>4, <2>1, ProxyAddrsAssumption DEF Orderly, AddressReused
    <2>4. ServerUp' => ServerUp /\ Alined(Asked, Asked')
      <3>1. net'.mem[ServerAddr] = net.mem[ServerAddr]
        BY <1>2, <2>3, ProxyAddrsAssumption
      <3>2. LinkBuffer' = LinkBuffer /\ (ServerUp' <=> ServerUp)
        BY <3>1 DEF LinkBuffer, ServerUp, Live
      <3> QED BY <1>1, <3>2, AskedKept, AlinedSame
    <2>5. CASE c # d
      <3>1. clientConn[c] # NoAddr => net'.mem[clientConn[c]] = net.mem[clientConn[c]]
        BY <1>1, <1>2, <2>3, <2>5
      <3>2. SentTo(c)' = SentTo(c) /\ (Served(c)' <=> Served(c))
        BY <2>5, <3>1, SentSame
      <3> QED BY <2>2, <2>4, <3>2, OrderSame
    <2>6. CASE c = d
      <3>1. SentTo(c) = got[d] \o s
        BY <1>3, <1>4, <2>3, <2>6 DEF SentTo, IsConn
      <3>2. got[d] \in Seq(Items)
        BY <1>1
      <3>3. CASE p.state = "freed"
        <4>1. ~(IsConn(a, d))'
          BY <1>2, <3>3 DEF IsConn, Live
        <4>2. SentTo(c)' = got'[d] \o <<>> /\ ~Served(c)'
          BY <1>4, <2>3, <2>6, <4>1 DEF SentTo, Served
        <4>3. got'[d] \o <<>> = got'[d]
          BY <1>1, <3>2, CutFacts
        <4>4. SentTo(c)' = SubSeq(SentTo(c), 1, Len(got[d]) + k)
              /\ Len(got[d]) + k \in 0..Len(SentTo(c))
          BY <1>1, <3>1, <3>2, <4>2, <4>3, MovedFacts
        <4> QED BY <2>2, <4>2, <4>4, OrderCut
      <3>4. CASE /\ p.state = "live" /\ p.peer = d
                 /\ p.send = SubSeq(s, k + 1, Len(s))
        <4>1. (IsConn(a, d))' /\ net'.mem[a].send = SubSeq(s, k + 1, Len(s))
          BY <1>2, <3>4 DEF IsConn, Live
        <4>2. SentTo(c)' = got'[d] \o SubSeq(s, k + 1, Len(s))
          BY <1>4, <2>3, <2>6, <4>1 DEF SentTo
        <4>3. SentTo(c)' = SentTo(c)
          <5>1. (got[d] \o SubSeq(s, 1, k)) \o SubSeq(s, k + 1, Len(s)) = got[d] \o s
            <6>1. s \in Seq(Items) /\ k \in 0..Len(s)
              BY <1>1
            <6> HIDE DEF s
            <6> QED BY <3>2, <6>1, MovedFacts
          <5>2. got'[d] = got[d] \o SubSeq(s, 1, k)
            OBVIOUS
          <5> HIDE DEF s
          <5> QED BY <3>1, <4>2, <5>1, <5>2
        <4>4. Served(c)
          BY <1>4, <2>6 DEF Served
        <4> QED BY <2>2, <2>4, <4>3, <4>4, OrderSame
      <3> QED BY <3>3, <3>4
    <2> QED BY <2>5, <2>6
  <1> QED BY <1>5, <1>6 DEF OrderStep, OrderInv

\* The server's connection sends k requests, or is closed.
LEMMA ServerOutputOrder ==
  ASSUME OInv, UNCHANGED <<session, clientConn, got, swallowed>>, ServerUp,
         NEW p, OnlyAt(net, net', ServerAddr, p),
         \/ p.state = "freed"
         \/ p.connected = net.mem[ServerAddr].connected /\ Alined(Asked, Asked')
  PROVE  OrderStep
  <1>1. /\ ProxyInv /\ LiveConnected /\ OrderInv /\ net \in Network
        /\ clientConn \in [Clients -> Addrs \union {NoAddr}]
    BY DEF OInv, IInv, ProxyInv, Coherent
  <1>2. /\ net'.mem[ServerAddr] = p
        /\ \A b \in Addrs \ {ServerAddr} : net'.mem[b] = net.mem[b]
    BY <1>1, OnlyAtFacts, ProxyAddrsAssumption
  <1>3. LiveConnected'
    <2>1. p.state = "live" => p.connected = TRUE
      <3>1. net.mem[ServerAddr].connected = TRUE
        BY <1>1, ProxyAddrsAssumption DEF LiveConnected, ServerUp
      <3>2. "freed" # "live"
        OBVIOUS
      <3> QED BY <3>1, <3>2
    <2> QED BY <1>1, <1>2, <2>1 DEF LiveConnected, Live
  <1>4. ASSUME Orderly', NEW c \in Clients PROVE OrderOf(c)'
    <2>1. Orderly
      BY <1>4 DEF Orderly, AddressReused
    <2>2. OrderOf(c)
      BY <1>1, <2>1 DEF OrderInv
    <2>3. SentTo(c)' = SentTo(c) /\ (Served(c)' <=> Served(c))
      <3>1. clientConn[c] # ServerAddr
        BY <1>1, ServerPlace, ProxyAddrsAssumption DEF ServerUp
      <3>2. clientConn[c] # NoAddr => net'.mem[clientConn[c]] = net.mem[clientConn[c]]
        BY <1>1, <1>2, <3>1
      <3> QED BY <3>2, SentSame
    <2>4. ServerUp' => Alined(Asked, Asked')
      BY <1>2 DEF ServerUp, Live
    <2> QED BY <2>2, <2>3, <2>4, OrderSame
  <1> QED BY <1>3, <1>4 DEF OrderStep, OrderInv

LEMMA WriteOutOrder ==
  ASSUME OInv, NEW a \in Addrs, NEW k \in 0..Len(net.mem[a].send), WriteOut(a, k)
  PROVE  OrderStep
  <1> DEFINE o == net.mem[a]
             items == SubSeq(o.send, 1, k)
             rest == SubSeq(o.send, k + 1, Len(o.send))
  <1>1. /\ Live(net, a) /\ net' = OnWritable(net, a, k)
        /\ IF o.peer = Redis THEN toServer' = toServer \o items /\ UNCHANGED got
           ELSE got' = [got EXCEPT ![o.peer] = @ \o items] /\ UNCHANGED toServer
        /\ UNCHANGED <<session, clientConn, toProxy, swallowed>>
    BY DEF WriteOut, Delivered
  <1>2. /\ IInv /\ ProxyInv /\ net \in Network /\ Settled(o, a)
        /\ got \in [Clients -> Seq(Items)]
    BY DEF OInv, IInv, ProxyInv, Coherent
  <1>3. PICK p : /\ OnlyAt(net, net', a, p)
                 /\ \/ o.closing /\ p.state = "freed"
                    \/ /\ p.state = o.state /\ p.peer = o.peer /\ p.closing = o.closing
                       /\ p.connected = o.connected /\ p.send = rest
    BY <1>1, <1>2, OnWritableFrame
  <1>4. /\ o.peer = Redis <=> a = ServerAddr /\ ServerUp
        /\ o.peer # Redis => o.peer \in Clients
    BY <1>1, <1>2, ServerPlace
  <1>5. o.state = "live"
    BY <1>1 DEF Live
  <1>6. CASE o.peer # Redis
    <2>1. IsConn(a, o.peer)
      BY <1>1 DEF IsConn
    <2>2. /\ got'[o.peer] = got[o.peer] \o items
          /\ \A c \in Clients \ {o.peer} : got'[c] = got[c]
          /\ UNCHANGED toServer
      BY <1>1, <1>2, <1>4, <1>6
    <2>3. \/ p.state = "freed"
          \/ /\ p.state = "live" /\ p.peer = o.peer /\ p.connected = o.connected
             /\ p.send = rest
      BY <1>3, <1>5
    <2> QED BY <1>1, <1>3, <1>4, <1>6, <2>1, <2>2, <2>3, ClientOutputOrder
  <1>7. CASE o.peer = Redis
    <2>1. a = ServerAddr /\ ServerUp
      BY <1>4, <1>7
    <2>2. ~o.closing
      BY <1>2, <1>5, <1>7 DEF Settled, Clients
    <2>3. p.connected = o.connected /\ p.state = "live" /\ p.peer = Redis /\ p.send = rest
      BY <1>3, <1>5, <1>7, <2>2
    <2>4. LinkBuffer = o.send /\ LinkBuffer' = rest
      <3>1. net'.mem[ServerAddr] = p
        BY <1>2, <1>3, <2>1, OnlyAtFacts
      <3>2. ServerUp'
        BY <2>3, <3>1 DEF ServerUp, Live
      <3> QED BY <2>1, <2>3, <3>1, <3>2 DEF LinkBuffer
    <2>5. k \in 0..Len(LinkBuffer) /\ toServer' = toServer \o SubSeq(LinkBuffer, 1, k)
          /\ LinkBuffer' = SubSeq(LinkBuffer, k + 1, Len(LinkBuffer))
      BY <1>1, <1>7, <2>4
    <2>6. Alined(Asked, Asked')
      BY <1>1, <1>2, <2>5, WriteOutAsked
    <2>7. UNCHANGED <<session, clientConn, got, swallowed>>
      BY <1>1, <1>7
    <2> QED BY <1>3, <2>1, <2>3, <2>6, <2>7, ServerOutputOrder
  <1> QED BY <1>6, <1>7

LEMMA OnPeerGoneOrder ==
  ASSUME OInv, NEW a \in Addrs, OnPeerGone(a)
  PROVE  OrderStep
  <1> DEFINE o == net.mem[a]
  <1>1. /\ Live(net, a) /\ net' = Close(net, a)
        /\ IF o.peer = Redis THEN toServer' = <<>> /\ toProxy' = <<>>
           ELSE UNCHANGED <<toServer, toProxy>>
        /\ UNCHANGED <<session, clientConn, swallowed, got>>
    BY DEF OnPeerGone
  <1>2. ProxyInv /\ net \in Network /\ got \in [Clients -> Seq(Items)] /\ o.send \in Seq(Items)
    <2>1. ProxyInv /\ net \in Network
      BY DEF OInv, IInv, ProxyInv, Coherent
    <2> QED BY <2>1 DEF ProxyInv, Network, Object
  <1>3. PICK p : OnlyAt(net, net', a, p) /\ p.state = "freed"
    BY <1>1, <1>2, CloseFrame
  <1>4. /\ o.peer = Redis <=> a = ServerAddr /\ ServerUp
        /\ o.peer # Redis => o.peer \in Clients
    BY <1>1, <1>2, ServerPlace
  <1>5. CASE o.peer # Redis
    <2>1. IsConn(a, o.peer) /\ 0 \in 0..Len(o.send)
      BY <1>1, <1>2 DEF IsConn
    <2>2. got'[o.peer] = got[o.peer] \o SubSeq(o.send, 1, 0)
      <3>1. SubSeq(o.send, 1, 0) = <<>> /\ got[o.peer] \in Seq(Items)
        BY <1>2, <1>4, <1>5, <2>1, CutFacts
      <3> QED BY <1>1, <3>1
    <2>3. UNCHANGED <<session, clientConn, toServer, toProxy, swallowed>>
          /\ \A c \in Clients \ {o.peer} : got'[c] = got[c]
      BY <1>1, <1>5
    <2> QED BY <1>3, <1>4, <1>5, <2>1, <2>2, <2>3, ClientOutputOrder
  <1>6. CASE o.peer = Redis
    BY <1>1, <1>3, <1>4, <1>6, ServerOutputOrder
  <1> QED BY <1>5, <1>6

\* Requests are written behind those that are outstanding.
LEMMA PushAsked ==
  ASSUME IInv, NEW requests \in Seq(Request), UNCHANGED <<toProxy, toServer>>,
         LinkBuffer' = LinkBuffer \o requests
  PROVE  Joined(Asked', Asked, requests)
  <1> DEFINE P == Len(toProxy)
             T == Len(toServer)
             B == Len(LinkBuffer)
             R == Len(requests)
  <1>1. /\ LinkBuffer \in Seq(Request) /\ P \in Nat /\ T \in Nat /\ B \in Nat /\ R \in Nat
    BY LinkTyped, LinkRequests, SeqMonotonic, AskedTyped
  <1>2. /\ Len(LinkBuffer') = B + R
        /\ \A i \in 1..B : LinkBuffer'[i] = LinkBuffer[i]
        /\ \A i \in (B + 1)..(B + R) : LinkBuffer'[i] = requests[i - B]
    BY <1>1, Concatenation
  <1>3. Link!Outstanding = P + T + B /\ Link!Outstanding' = (P + T + B) + R
    <2>1. /\ Link!Outstanding = P + T + B
          /\ Link!Outstanding' = P + T + Len(LinkBuffer')
      BY DEF Link!Outstanding
    <2> HIDE DEF P, T, B, R
    <2> QED BY <1>1, <1>2, <2>1
  <1>4. \A i : /\ Link!RequestAt(i) = IF i <= P THEN toProxy[i].req
                                      ELSE IF i <= P + T THEN toServer[i - P]
                                      ELSE LinkBuffer[i - (P + T)]
               /\ Link!RequestAt(i)' = IF i <= P THEN toProxy[i].req
                                       ELSE IF i <= P + T THEN toServer[i - P]
                                       ELSE LinkBuffer'[i - (P + T)]
    BY DEF Link!RequestAt
  <1>5. Asked' = [i \in 1..((P + T + B) + R) |-> Link!RequestAt(i)']
    BY <1>3 DEF Asked
  <1>6. Len(Asked) = P + T + B /\ \A i \in 1..(P + T + B) : Asked[i] = Link!RequestAt(i)
    BY <1>3, AskedTyped
  <1> HIDE DEF P, T, B, R
  <1>7. Len(Asked') = (P + T + B) + R
    BY <1>1, <1>5
  <1>8. ASSUME NEW i \in 1..(P + T + B) PROVE Asked'[i] = Asked[i]
    <2>1. Asked'[i] = Link!RequestAt(i)'
      BY <1>1, <1>5
    <2>2. CASE i <= P + T
      BY <1>4, <1>6, <2>1, <2>2
    <2>3. CASE ~(i <= P + T)
      <3>1. i - (P + T) \in 1..B
        BY <1>1, <2>3
      <3> QED BY <1>2, <1>4, <1>6, <2>1, <3>1
    <2> QED BY <2>2, <2>3
  <1>9. ASSUME NEW i \in 1..R PROVE Asked'[i + (P + T + B)] = requests[i]
    <2> DEFINE j == i + (P + T + B)
    <2>1. /\ j \in 1..((P + T + B) + R) /\ ~(j <= P) /\ ~(j <= P + T)
          /\ j - (P + T) \in (B + 1)..(B + R) /\ (j - (P + T)) - B = i
      BY <1>1
    <2> HIDE DEF j
    <2>2. Asked'[j] = LinkBuffer'[j - (P + T)]
      BY <1>4, <1>5, <2>1
    <2>3. LinkBuffer'[j - (P + T)] = requests[i]
      BY <1>2, <2>1
    <2> QED BY <2>2, <2>3 DEF j
  <1>10. P + T + B \in Nat /\ Len(Asked) = P + T + B
    BY <1>1, <1>6
  <1>11. Len(requests) = R
    BY DEF R
  <1>12. \A i \in 1..(P + T + B) : Asked'[i] = Asked[i]
    BY <1>8
  <1>13. \A i \in 1..R : Asked'[i + (P + T + B)] = requests[i]
    BY <1>9
  <1> QED BY <1>1, <1>7, <1>10, <1>11, <1>12, <1>13, JoinedBy

\* c is sent nothing but blanks, and its session has gone as far as what was asked.
LEMMA OrderMore ==
  ASSUME NEW c \in Clients, OrderOf(c), session[c].from \in Nat,
         NEW bad \in RepliesTo(c), ~IsReply(bad),
         SentTo(c)' = SentTo(c) \/ SentTo(c)' = SentTo(c) \o <<bad>>,
         Served(c)' => Served(c), NEW more,
         ServerUp' => /\ ServerUp /\ Joined(Asked', Asked, more)
                      /\ Line(session[c].from, AskedMarks(c, more), session'[c].from)
  PROVE  OrderOf(c)'
  <1> DEFINE s == SentTo(c)
  <1>1. PICK e \in Nat : /\ Line(0, SentMarks(s), e)
                         /\ Served(c) /\ ServerUp =>
                              Line(e, AskedMarks(c, Asked), session[c].from)
    BY DEF OrderOf
  <1>2. Served(c)' /\ ServerUp' => Line(e, AskedMarks(c, Asked'), session'[c].from)
    <2>1. ServerUp' => Joined(AskedMarks(c, Asked'), AskedMarks(c, Asked), AskedMarks(c, more))
      BY MarksJoined
    <2> QED BY <1>1, <2>1, LineJoin
  <1>3. s \in Seq(RepliesTo(c))
    BY DEF OrderOf
  <1> HIDE DEF s
  <1>4. s \o <<bad>> \in Seq(RepliesTo(c)) /\ Joined(s \o <<bad>>, s, <<bad>>)
    <2> DEFINE x == <<bad>>
    <2>1. x \in Seq(RepliesTo(c))
      OBVIOUS
    <2> HIDE DEF x
    <2>2. s \o x \in Seq(RepliesTo(c))
      BY <1>3, <2>1
    <2>3. Joined(s \o x, s, x)
      BY <1>3, <2>1, JoinedSeq
    <2> QED BY <2>2, <2>3 DEF x
  <1>5. Line(e, SentMarks(<<bad>>), e)
    <2>1. Len(<<bad>>) = 1 /\ <<bad>>[1] = bad
      OBVIOUS
    <2>2. Len(SentMarks(<<bad>>)) = 1 /\ \A i \in 1..1 : SentMarks(<<bad>>)[i] = Blank
      BY <2>1, MarksTyped
    <2> QED BY <1>1, <2>2, LineBlank
  <1>6. Line(0, SentMarks(s \o <<bad>>), e)
    BY <1>1, <1>4, <1>5, MarksJoined, LineJoin
  <1>7. SentTo(c)' \in Seq(RepliesTo(c)) /\ Line(0, SentMarks(SentTo(c)'), e)
    BY <1>1, <1>3, <1>4, <1>6 DEF s
  <1> QED BY <1>2, <1>7 DEF OrderOf, Line, SentMarks, AskedMarks

\* The requests of d are its pieces up to where its session now is, those of others
\* are no pieces of c.
LEMMA RequestsLine ==
  ASSUME IInv, NEW d \in Clients, NEW upto \in session[d].read..Total,
         session' = [session EXCEPT ![d] = AfterRead(session[d], upto, Room)],
         NEW c \in Clients
  PROVE  /\ session[c].from \in Nat
         /\ Line(session[c].from, AskedMarks(c, RequestsOf(d, upto)), session'[c].from)
  <1> DEFINE s == session[d]
             pieces == Pushed(s, upto, Room)
             t == AfterRead(s, upto, Room)
             requests == RequestsOf(d, upto)
             marks == AskedMarks(c, requests)
  <1>1. session \in [Clients -> SessionState] /\ InStep(s) /\ s.read <= Total
    BY DEF IInv, ProxyInv, SessionsSound
  <1>2. /\ session[c].from \in Nat /\ s.from \in Nat /\ s.read \in Nat /\ upto \in Nat
        /\ s.read <= upto /\ Room \in Nat
    <2>1. Room \in Nat
      BY PushedFacts
    <2>2. session[c].from \in Nat /\ s.from \in Nat /\ s.read \in Nat
      BY <1>1 DEF SessionState
    <2>3. upto \in Nat /\ s.read <= upto
      BY <2>2, ProxyBoundsAssumption
    <2> QED BY <2>1, <2>2, <2>3
  <1>3. /\ pieces \in Seq(PiecesTo(upto)) /\ Chain(pieces, s.from)
        /\ EndOfChain(pieces, s.from) = t.from
    <2> HIDE DEF s
    <2> QED BY <1>1, <1>2, ReadFacts
  <1>4. pieces \in Seq(Piece)
    <2>1. PiecesTo(upto) \subseteq Piece
      BY DEF PiecesTo
    <2> QED BY <1>3, <2>1, SeqMonotonic
  <1>5. /\ Len(requests) = Len(pieces) /\ Len(pieces) \in Nat
        /\ \A i \in 1..Len(pieces) : requests[i].asker = d /\ requests[i].cmd = pieces[i]
    BY <1>4 DEF RequestsOf
  <1>6. session'[c].from = IF c = d THEN t.from ELSE session[c].from
    BY <1>1
  <1> HIDE DEF pieces, requests, t
  <1>7. /\ Len(marks) = Len(pieces)
        /\ \A i \in 1..Len(marks) : marks[i] = IF c = d THEN pieces[i] ELSE Blank
    BY <1>5, MarksTyped
  <1> HIDE DEF marks
  <1>8. CASE c = d
    <2>1. Line(s.from, pieces, t.from)
      BY <1>2, <1>3, <1>4, ChainLine
    <2>2. Alined(pieces, marks)
      BY <1>5, <1>7, <1>8 DEF Alined
    <2>3. Line(s.from, marks, t.from)
      BY <2>1, <2>2, LineSame
    <2> QED BY <1>2, <1>6, <1>8, <2>3 DEF marks, requests
  <1>9. CASE c # d
    <2>1. Line(session[c].from, marks, session[c].from)
      BY <1>2, <1>5, <1>7, <1>9, LineBlank
    <2> QED BY <1>2, <1>6, <1>9, <2>1 DEF marks, requests
  <1> QED BY <1>8, <1>9

LEMMA OnClientReadOrder ==
  ASSUME OInv, NEW d \in Clients, NEW a \in Addrs, NEW cut \in ReadCuts,
         NEW upto \in session[d].read..Total, OnClientRead(a, d, upto, cut)
  PROVE  OrderStep
  <1> DEFINE requests == RequestsOf(d, upto)
             bad == ErrorTo(d)
  <1>1. /\ IsConn(a, d)
        /\ session' = [session EXCEPT ![d] = AfterRead(session[d], upto, Room)]
        /\ UNCHANGED <<clientConn, toServer, toProxy, swallowed, got>>
    BY DEF OnClientRead, Readable
  <1>2. /\ IInv /\ ProxyInv /\ LiveConnected /\ OrderInv /\ net \in Network
        /\ clientConn \in [Clients -> Addrs \union {NoAddr}]
        /\ session \in [Clients -> SessionState]
    BY DEF OInv, IInv, ProxyInv, Coherent, SessionsSound
  <1>3. clientConn[d] = a
    <2>1. Live(net, a) /\ net.mem[a].peer = d /\ d # Redis
      BY <1>1 DEF IsConn, Clients
    <2> QED BY <1>2, <2>1, ServerPlace
  <1>4. /\ requests \in Seq(Request) /\ bad \in RepliesTo(d) /\ ~IsReply(bad)
    BY <1>2, RequestsFacts, ErrorFacts DEF RepliesTo, IsReply
  <1>5. PICK asked, q, p : WroteAndChanged(net, asked, net', a, requests, bad, q, p)
    BY <1>2, ClientReadChange
  <1> HIDE DEF requests, bad
  <1>6. /\ OnlyAt(net, asked, ServerAddr, q)
        /\ Extends(net.mem[ServerAddr], q, requests)
        /\ asked \in Network /\ OnlyAt(asked, net', a, p)
        /\ p.state = asked.mem[a].state /\ p.peer = asked.mem[a].peer
        /\ p.connected = asked.mem[a].connected
        /\ \/ p.send = asked.mem[a].send
           \/ asked.mem[a].state = "live" /\ p.send = asked.mem[a].send \o <<bad>>
    BY <1>5 DEF WroteAndChanged
  <1>7. /\ asked.mem[ServerAddr] = q
        /\ \A b \in Addrs \ {ServerAddr} : asked.mem[b] = net.mem[b]
        /\ net'.mem[a] = p
        /\ \A b \in Addrs \ {a} : net'.mem[b] = asked.mem[b]
    BY <1>2, <1>6, OnlyAtFacts, ProxyAddrsAssumption
  <1>8. LiveConnected'
    <2>1. ASSUME NEW b \in Addrs
          PROVE  /\ asked.mem[b].state = net.mem[b].state
                 /\ asked.mem[b].connected = net.mem[b].connected
      BY <1>6, <1>7 DEF Extends
    <2>2. ASSUME NEW b \in Addrs
          PROVE  /\ net'.mem[b].state = net.mem[b].state
                 /\ net'.mem[b].connected = net.mem[b].connected
      BY <1>6, <1>7, <2>1
    <2> QED BY <1>2, <2>2 DEF LiveConnected, Live
  <1>9. ASSUME Orderly', NEW c \in Clients PROVE OrderOf(c)'
    <2>1. Orderly
      BY <1>1, <1>9 DEF Orderly, AddressReused
    <2>2. OrderOf(c)
      BY <1>2, <2>1 DEF OrderInv
    <2>3. /\ a # ServerAddr /\ a # NoAddr /\ \A b \in Clients \ {d} : clientConn[b] # a
          /\ \A b \in Clients : clientConn[b] # ServerAddr
      BY <1>3, <2>1, ProxyAddrsAssumption DEF Orderly, AddressReused
    <2>4. net'.mem[ServerAddr] = q /\ asked.mem[a] = net.mem[a]
      BY <1>7, <2>3, ProxyAddrsAssumption
    <2>5. (ServerUp' <=> ServerUp) /\ (ServerUp => Joined(Asked', Asked, requests))
      <3>1. ServerUp' <=> ServerUp
        BY <1>6, <2>4 DEF ServerUp, Live, Extends
      <3>2. ServerUp => q.send = net.mem[ServerAddr].send \o requests
        BY <1>6 DEF ServerUp, Live, Extends
      <3>3. ServerUp => LinkBuffer' = LinkBuffer \o requests
        BY <2>4, <3>1, <3>2 DEF LinkBuffer
      <3> QED BY <1>1, <1>2, <1>4, <3>1, <3>3, PushAsked
    <2>6. /\ session[c].from \in Nat
          /\ Line(session[c].from, AskedMarks(c, requests), session'[c].from)
      BY <1>1, <1>2, RequestsLine DEF requests
    <2>7. CASE c # d
      <3>1. clientConn[c] # NoAddr => net'.mem[clientConn[c]] = net.mem[clientConn[c]]
        BY <1>2, <1>7, <2>3, <2>7
      <3>2. SentTo(c)' = SentTo(c) /\ (Served(c)' <=> Served(c))
        BY <1>1, <3>1, SentSame
      <3>3. ErrorTo(c) \in RepliesTo(c) /\ ~IsReply(ErrorTo(c))
        BY <1>2, ErrorFacts DEF RepliesTo, IsReply
      <3> QED BY <2>2, <2>5, <2>6, <3>2, <3>3, OrderMore
    <2>8. CASE c = d
      <3>1. p.state = "live" /\ p.peer = d
        BY <1>1, <1>6, <2>4 DEF IsConn, Live
      <3>2. (IsConn(a, c))' /\ IsConn(a, c)
        BY <1>1, <1>7, <2>8, <3>1 DEF IsConn, Live
      <3>3. SentTo(c) = got[c] \o net.mem[a].send /\ SentTo(c)' = got[c] \o p.send
        BY <1>1, <1>3, <1>7, <2>3, <2>8, <3>2 DEF SentTo
      <3>4. SentTo(c)' = SentTo(c) \/ SentTo(c)' = SentTo(c) \o <<bad>>
        <4>1. got[c] \in Seq(Items) /\ net.mem[a].send \in Seq(Items) /\ bad \in Items
          BY <1>2, <1>4, ProxyItemsAssumption DEF ProxyInv, Network, Object, RepliesTo
        <4>2. got[c] \o (net.mem[a].send \o <<bad>>) = (got[c] \o net.mem[a].send) \o <<bad>>
          <5> DEFINE u == got[c]
                     v == net.mem[a].send
                     w == <<bad>>
          <5>1. u \in Seq(Items) /\ v \in Seq(Items) /\ w \in Seq(Items)
            BY <4>1
          <5> HIDE DEF u, v, w
          <5>2. (u \o v) \o w = u \o (v \o w)
            BY <5>1, ConcatAssociative
          <5> QED BY <5>2 DEF u, v, w
        <4> QED BY <1>6, <2>4, <3>3, <4>2
      <3>5. Served(c)
        BY <1>3, <2>8, <3>2 DEF Served
      <3> QED BY <1>4, <2>2, <2>5, <2>6, <2>8, <3>4, <3>5, OrderMore
    <2> QED BY <2>7, <2>8
  <1> QED BY <1>8, <1>9 DEF OrderStep, OrderInv

--------------------------------------------------------------------------------
(* Replies are handed out one by one. *)

\* The first request of those behind k, and the line behind it.
LEMMA NextMark ==
  ASSUME NEW S, NEW x \in Seq(S), NEW c, NEW k \in 1..Len(x), NEW e \in Nat, NEW g,
         Line(e, AskedMarks(c, SubSeq(x, k, Len(x))), g)
  PROVE  \E f \in Nat :
            /\ Line(f, AskedMarks(c, SubSeq(x, k + 1, Len(x))), g)
            /\ LET mark == IF x[k].asker = c THEN x[k].cmd ELSE Blank IN
               IF mark = Blank THEN f = e ELSE e = mark[1] /\ f = mark[2]
  <1> DEFINE u == SubSeq(x, k, Len(x))
             v == SubSeq(x, k + 1, Len(x))
             h == <<x[k]>>
             mark == IF x[k].asker = c THEN x[k].cmd ELSE Blank
  <1>1. /\ Len(u) = (Len(x) - k) + 1 /\ Len(v) = Len(x) - k /\ Len(x) - k \in Nat
        /\ u[1] = x[k] /\ \A i \in 1..(Len(x) - k) : u[i + 1] = x[i + k] /\ v[i] = x[i + k]
        /\ Len(h) = 1 /\ h[1] = x[k]
    OBVIOUS
  <1>2. Joined(u, h, v)
    <2> DEFINE n == Len(x) - k
    <2>1. n \in Nat /\ Len(h) = 1 /\ Len(v) = n /\ Len(u) = 1 + n
      BY <1>1
    <2>2. \A i \in 1..1 : u[i] = h[i]
      BY <1>1
    <2>3. \A i \in 1..n : u[i + 1] = v[i]
      BY <1>1
    <2> HIDE DEF u, v, h, n
    <2> QED BY <2>1, <2>2, <2>3, JoinedBy
  <1>3. Joined(AskedMarks(c, u), AskedMarks(c, h), AskedMarks(c, v))
    BY <1>2, MarksJoined
  <1>4. PICK f \in Nat : Line(e, AskedMarks(c, h), f) /\ Line(f, AskedMarks(c, v), g)
    BY <1>3, LineSplit
  <1>5. Len(AskedMarks(c, h)) = 1 /\ AskedMarks(c, h)[1] = mark
    BY <1>1, MarksTyped
  <1> HIDE DEF mark, h
  <1>6. IF mark = Blank THEN f = e ELSE e = mark[1] /\ f = mark[2]
    BY <1>4, <1>5, LineOne
  <1> QED BY <1>4, <1>6 DEF mark

\* What c was sent if the network is m.
SentIn(c, m) ==
  LET a == clientConn[c] IN
  got[c] \o (IF a # NoAddr /\ IsConn(a, c) THEN m.mem[a].send ELSE <<>>)

\* OrderOf, when the requests from the k-th on have not been answered in m.
OrderFrom(c, k, m) ==
  /\ SentIn(c, m) \in Seq(RepliesTo(c))
  /\ \E e \in Nat : /\ Line(0, SentMarks(SentIn(c, m)), e)
                    /\ Served(c) => Line(e, AskedMarks(c, SubSeq(Asked, k, Len(Asked))),
                                         session[c].from)

\* A reply that is not for c.
LEMMA PassedOver ==
  ASSUME IInv, NEW c, NEW k \in 1..Len(Asked), NEW m, OrderFrom(c, k, m),
         NEW x, SentIn(c, x) = SentIn(c, m), Served(c) => Asked[k].asker # c
  PROVE  OrderFrom(c, k + 1, x)
  <1>1. PICK e \in Nat : /\ Line(0, SentMarks(SentIn(c, m)), e)
                         /\ Served(c) => Line(e, AskedMarks(c, SubSeq(Asked, k, Len(Asked))),
                                              session[c].from)
    BY DEF OrderFrom
  <1>2. Asked \in Seq(Link!Request)
    BY AskedTyped
  <1>3. Served(c) => Line(e, AskedMarks(c, SubSeq(Asked, k + 1, Len(Asked))), session[c].from)
    <2> SUFFICES ASSUME Served(c)
                 PROVE  Line(e, AskedMarks(c, SubSeq(Asked, k + 1, Len(Asked))),
                             session[c].from)
      OBVIOUS
    <2>1. Line(e, AskedMarks(c, SubSeq(Asked, k, Len(Asked))), session[c].from)
      BY <1>1
    <2>2. PICK f \in Nat :
             /\ Line(f, AskedMarks(c, SubSeq(Asked, k + 1, Len(Asked))), session[c].from)
             /\ LET mark == IF Asked[k].asker = c THEN Asked[k].cmd ELSE Blank IN
                IF mark = Blank THEN f = e ELSE e = mark[1] /\ f = mark[2]
      BY <1>1, <1>2, <2>1, NextMark
    <2>3. f = e
      BY <2>2
    <2> QED BY <2>2, <2>3
  <1> QED BY <1>1, <1>3 DEF OrderFrom

\* The reply to the request that is next for c.
LEMMA AnsweredNext ==
  ASSUME IInv, NEW c, NEW k \in 1..Len(Asked), NEW m, OrderFrom(c, k, m),
         NEW reply \in RepliesTo(c), IsReply(reply), reply.req = Asked[k], Served(c),
         NEW x, SentIn(c, x) = SentIn(c, m) \o <<reply>>
  PROVE  OrderFrom(c, k + 1, x)
  <1> DEFINE s == SentIn(c, m)
  <1>1. PICK e \in Nat : /\ Line(0, SentMarks(s), e)
                         /\ Line(e, AskedMarks(c, SubSeq(Asked, k, Len(Asked))),
                                 session[c].from)
    BY DEF OrderFrom
  <1>2. Asked \in Seq(Link!Request) /\ Asked[k] \in Link!Request /\ Asked[k].asker = c
    BY AskedTyped DEF RepliesTo
  <1>3. Asked[k].cmd # Blank
    <2>1. Asked[k].cmd \in AllPieces \union {AuthCmd}
      BY <1>2, LinkRequests
    <2>2. \A u, v : <<u, v>> # <<>>
      OBVIOUS
    <2> QED BY <2>1, <2>2 DEF AllPieces, AuthCmd, Blank
  <1>4. PICK f \in Nat :
           /\ Line(f, AskedMarks(c, SubSeq(Asked, k + 1, Len(Asked))), session[c].from)
           /\ LET mark == IF Asked[k].asker = c THEN Asked[k].cmd ELSE Blank IN
              IF mark = Blank THEN f = e ELSE e = mark[1] /\ f = mark[2]
    BY <1>1, <1>2, NextMark
  <1>5. e = Asked[k].cmd[1] /\ f = Asked[k].cmd[2]
    BY <1>2, <1>3, <1>4
  <1> DEFINE y == <<reply>>
  <1>6. y \in Seq(RepliesTo(c)) /\ Len(y) = 1 /\ y[1] = reply /\ s \in Seq(RepliesTo(c))
    BY DEF OrderFrom
  <1> HIDE DEF s, y
  <1>7. Len(SentMarks(y)) = 1 /\ SentMarks(y)[1] = Asked[k].cmd
    <2>1. Len(y) \in Nat /\ 1 \in 1..Len(y)
      BY <1>6
    <2>2. Len(SentMarks(y)) = Len(y)
          /\ SentMarks(y)[1] = IF IsReply(y[1]) THEN y[1].req.cmd ELSE Blank
      BY <2>1, MarksTyped
    <2>3. IsReply(y[1]) /\ y[1].req = Asked[k]
      BY <1>6
    <2> QED BY <1>6, <2>2, <2>3
  <1>8. Line(e, SentMarks(y), f)
    BY <1>3, <1>5, <1>7, LineOne
  <1>9. Joined(SentMarks(s \o y), SentMarks(s), SentMarks(y))
    BY <1>6, JoinedSeq, MarksJoined
  <1>10. Line(0, SentMarks(s \o y), f)
    BY <1>1, <1>8, <1>9, LineJoin
  <1>11. s \o y \in Seq(RepliesTo(c))
    BY <1>6
  <1>12. SentIn(c, x) = s \o y
    BY DEF s, y
  <1> QED BY <1>4, <1>10, <1>11, <1>12 DEF OrderFrom

\* What is known of the k-th reply when nothing was swallowed.
LEMMA ReplyFacts ==
  ASSUME IInv, ServerUp, swallowed = 0, NEW k \in 1..Len(toProxy)
  PROVE  /\ k \in 1..Len(Asked) /\ k \in 1..Len(cmdQueue)
         /\ toProxy[k].req = Asked[k] /\ cmdQueue[k] = Asked[k].asker
         /\ toProxy[k] \in Reply /\ toProxy[k] \in Items /\ IsReply(toProxy[k])
         /\ cmdQueue[k] \in Clients \union {AuthReader}
         /\ cmdQueue[k] \in Clients => clientConn[cmdQueue[k]] \in Addrs
  <1>1. k \in 1..Len(Asked) /\ Asked[k] = Link!RequestAt(k)
    BY AskedTyped
  <1>2. LinkState = "up" /\ Link!Pairing
    BY DEF LinkState, IInv, Link!IInv
  <1>3. k \in 1..Len(cmdQueue) /\ cmdQueue[k] = Link!RequestAt(k).asker
    BY <1>1, <1>2, AskedTyped DEF Link!Pairing
  <1>4. Link!RequestAt(k) = toProxy[k].req
    BY DEF Link!RequestAt
  <1>5. toProxy[k] \in Link!Reply /\ k <= Len(toProxy)
    BY LinkTyped
  <1>6. IsReply(toProxy[k])
    BY <1>5 DEF Link!Reply, Link!ReplyKinds, IsReply
  <1> QED BY <1>1, <1>3, <1>4, <1>5, <1>6, ReadersFacts

\* One more reply is handed to its reader.
LEMMA HandedOrder ==
  ASSUME OInv, Orderly, ServerUp, NEW k \in 1..Len(toProxy), NEW m \in Answered,
         NEW c \in Clients, OrderFrom(c, k, m)
  PROVE  OrderFrom(c, k + 1, Handed(k, m))
  <1> DEFINE r == cmdQueue[k]
             reply == toProxy[k]
             x == Handed(k, m)
  <1>1. /\ IInv /\ ProxyInv /\ LiveConnected /\ ~AddressReused /\ swallowed = 0
        /\ got \in [Clients -> Seq(Items)]
    BY DEF OInv, IInv, ProxyInv, Orderly
  <1>2. m \in Network /\ Coherent(m) /\ SameConnections(m)
    BY DEF Answered
  <1>3. /\ k \in 1..Len(Asked) /\ reply.req = Asked[k] /\ r = Asked[k].asker
        /\ reply \in Reply /\ reply \in Items /\ IsReply(reply)
        /\ r \in Clients \union {AuthReader} /\ (r \in Clients => clientConn[r] \in Addrs)
    BY <1>1, ReplyFacts
  <1>4. CASE r = AuthReader
    <2>1. x = m
      BY <1>4 DEF Handed
    <2>2. AuthReader # c
      BY ProxyPeersAssumption DEF Clients
    <2> HIDE DEF x, r, reply
    <2>3. OrderFrom(c, k + 1, m)
      BY <1>1, <1>3, <1>4, <2>2, PassedOver
    <2> QED BY <2>1, <2>3 DEF x
  <1>5. CASE r # AuthReader
    <2> DEFINE a == clientConn[r]
    <2>1. x = OnServerWrite(m, r, reply)
      BY <1>5 DEF Handed
    <2>2. r \in Clients /\ a \in Addrs
      BY <1>3, <1>5
    <2> HIDE DEF x, r, reply, a
    <2>3. PICK p : /\ OnlyAt(m, x, a, p)
                   /\ IF m.mem[a].connected THEN Extends(m.mem[a], p, <<reply>>)
                      ELSE p = m.mem[a]
      BY <1>2, <1>3, <2>1, <2>2, OnServerWriteFrame DEF a
    <2>4. x.mem[a] = p /\ \A b \in Addrs \ {a} : x.mem[b] = m.mem[b]
      BY <1>2, <2>2, <2>3, OnlyAtFacts
    <2> USE DEF a
    <2>5. a # NoAddr /\ \A d \in Clients \ {r} : clientConn[d] # a
      BY <1>1, <2>2, OwnAddress, ProxyAddrsAssumption
    <2>6. CASE c # r
      <3>1. clientConn[c] # NoAddr => x.mem[clientConn[c]] = m.mem[clientConn[c]]
        BY <1>1, <2>4, <2>5, <2>6 DEF ProxyInv
      <3>2. SentIn(c, x) = SentIn(c, m)
        BY <3>1 DEF SentIn
      <3> QED BY <1>1, <1>3, <2>6, <3>2, PassedOver DEF x
    <2>7. CASE c = r /\ ~Served(c)
      <3>1. SentIn(c, x) = SentIn(c, m)
        BY <2>7 DEF SentIn, Served
      <3> QED BY <1>1, <1>3, <2>7, <3>1, PassedOver DEF x
    <2>8. CASE c = r /\ Served(c)
      <3>1. IsConn(a, c) /\ Live(net, a)
        BY <2>5, <2>8 DEF Served, IsConn
      <3>2. m.mem[a].state = "live" /\ m.mem[a].connected
        BY <1>1, <1>2, <2>2, <3>1 DEF LiveConnected, SameConnections, Live
      <3>3. p.send = m.mem[a].send \o <<reply>>
        BY <2>3, <3>2 DEF Extends
      <3>4. SentIn(c, m) = got[c] \o m.mem[a].send
            /\ SentIn(c, x) = got[c] \o (m.mem[a].send \o <<reply>>)
        BY <2>4, <2>5, <2>8, <3>1, <3>3 DEF SentIn
      <3>5. SentIn(c, x) = SentIn(c, m) \o <<reply>>
        <4> DEFINE u == got[c]
                   v == m.mem[a].send
                   w == <<reply>>
        <4>1. u \in Seq(Items) /\ v \in Seq(Items) /\ w \in Seq(Items)
          BY <1>1, <1>2, <1>3, <2>2 DEF Network, Object
        <4> HIDE DEF u, v, w
        <4>2. (u \o v) \o w = u \o (v \o w)
          BY <4>1, ConcatAssociative
        <4> QED BY <3>4, <4>2 DEF u, v, w
      <3>6. reply \in RepliesTo(c)
        BY <1>3, <2>8 DEF RepliesTo
      <3> QED BY <1>1, <1>3, <2>8, <3>5, <3>6, AnsweredNext DEF x
    <2> QED BY <2>6, <2>7, <2>8
  <1> QED BY <1>4, <1>5

\* What is outstanding when n replies have been parsed.
LEMMA ReadAsked ==
  ASSUME IInv, NEW n \in 1..Len(toProxy), toProxy' = SubSeq(toProxy, n + 1, Len(toProxy)),
         UNCHANGED <<toServer, LinkBuffer>>
  PROVE  Alined(SubSeq(Asked, n + 1, Len(Asked)), Asked')
  <1> DEFINE P == Len(toProxy)
             T == Len(toServer)
             B == Len(LinkBuffer)
             rest == SubSeq(Asked, n + 1, Len(Asked))
  <1>1. P \in Nat /\ T \in Nat /\ B \in Nat /\ n \in Nat /\ n <= P /\ n >= 1
    BY AskedTyped
  <1>2. Len(toProxy') = P - n /\ \A i \in 1..(P - n) : toProxy'[i] = toProxy[i + n]
    BY <1>1, CutFacts, LinkTyped
  <1>3. Len(Asked) = P + T + B /\ \A i \in 1..(P + T + B) : Asked[i] = Link!RequestAt(i)
    BY AskedTyped
  <1>4. \A i : /\ Link!RequestAt(i) = IF i <= P THEN toProxy[i].req
                                      ELSE IF i <= P + T THEN toServer[i - P]
                                      ELSE LinkBuffer[i - (P + T)]
               /\ Link!RequestAt(i)' = IF i <= P - n THEN toProxy'[i].req
                                       ELSE IF i <= (P - n) + T THEN toServer[i - (P - n)]
                                       ELSE LinkBuffer[i - ((P - n) + T)]
    BY <1>2 DEF Link!RequestAt
  <1>5. Link!Outstanding' = (P - n) + T + B
    <2>1. Link!Outstanding' = Len(toProxy') + T + B
      BY DEF Link!Outstanding
    <2> QED BY <1>2, <2>1
  <1>6. Asked' = [i \in 1..((P - n) + T + B) |-> Link!RequestAt(i)']
    BY <1>5 DEF Asked
  <1>7. Len(rest) = (P + T + B) - n
        /\ \A i \in 1..((P + T + B) - n) : rest[i] = Asked[i + n]
    <2>1. Asked \in Seq(Link!Request) /\ n \in 0..Len(Asked)
      BY <1>1, <1>3, AskedTyped
    <2> HIDE DEF P, T, B
    <2> QED BY <1>3, <2>1, CutFacts
  <1> HIDE DEF P, T, B, rest
  <1>8. Len(rest) = (P - n) + T + B /\ Len(rest) \in Nat
    BY <1>1, <1>7
  <1>9. Len(Asked') = Len(rest)
    BY <1>6, <1>8
  <1>10. ASSUME NEW i \in 1..Len(rest) PROVE Asked'[i] = rest[i]
    <2>1. /\ i \in 1..((P - n) + T + B) /\ i \in 1..((P + T + B) - n)
          /\ i + n \in 1..(P + T + B)
      BY <1>1, <1>8
    <2>2. Asked'[i] = Link!RequestAt(i)' /\ rest[i] = Link!RequestAt(i + n)
      BY <1>3, <1>6, <1>7, <2>1
    <2>3. CASE i <= P - n
      <3>1. i + n <= P /\ i \in 1..(P - n)
        BY <1>1, <2>1, <2>3
      <3> QED BY <1>2, <1>4, <2>2, <2>3, <3>1
    <2>4. CASE ~(i <= P - n) /\ i <= (P - n) + T
      <3>1. ~(i + n <= P) /\ i + n <= P + T /\ (i + n) - P = i - (P - n)
        BY <1>1, <2>1, <2>4
      <3> QED BY <1>4, <2>2, <2>4, <3>1
    <2>5. CASE ~(i <= (P - n) + T)
      <3>1. /\ ~(i <= P - n) /\ ~(i + n <= P) /\ ~(i + n <= P + T)
            /\ (i + n) - (P + T) = i - ((P - n) + T)
        BY <1>1, <2>1, <2>5
      <3> QED BY <1>4, <2>2, <2>5, <3>1
    <2> QED BY <2>3, <2>4, <2>5
  <1> QED BY <1>8, <1>9, <1>10 DEF Alined, rest

\* All of the replies are handed out.
LEMMA HandsOrder ==
  ASSUME OInv, Orderly, ServerUp, NEW n \in 1..Len(toProxy), NEW after, Hands(after, n),
         NEW c \in Clients
  PROVE  OrderFrom(c, n + 1, HandedOut(n))
  <1> DEFINE V == {k \in Nat : k <= n => OrderFrom(c, k + 1, after[k])}
  <1>1. /\ IInv /\ ProxyInv /\ after[0] = net /\ after[n] = HandedOut(n) /\ n \in Nat
        /\ \A k \in 1..n : after[k] = Handed(k, after[k - 1])
        /\ \A k \in 0..n : after[k] \in Answered
    BY DEF Hands, OInv, IInv
  <1>2. OrderFrom(c, 1, net)
    <2>1. OrderOf(c)
      BY DEF OInv, OrderInv
    <2>2. SentIn(c, net) = SentTo(c)
      BY DEF SentIn, SentTo
    <2>3. Asked \in Seq(Link!Request) /\ Len(Asked) \in Nat
      BY <1>1, AskedTyped
    <2>4. SubSeq(Asked, 1, Len(Asked)) = Asked
      BY <2>3
    <2> QED BY <2>1, <2>2, <2>4 DEF OrderFrom, OrderOf
  <1>3. 0 \in V
    <2>1. 0 + 1 = 1
      OBVIOUS
    <2> QED BY <1>1, <1>2, <2>1
  <1>4. ASSUME NEW k \in Nat, k \in V PROVE k + 1 \in V
    <2> SUFFICES ASSUME k + 1 <= n
                 PROVE  OrderFrom(c, (k + 1) + 1, after[k + 1])
      OBVIOUS
    <2>1. /\ k <= n /\ k \in 0..n /\ k + 1 \in 1..n /\ (k + 1) - 1 = k
          /\ k + 1 \in 1..Len(toProxy)
      BY <1>1, AskedTyped
    <2>2. /\ OrderFrom(c, k + 1, after[k])
          /\ after[k] \in Answered /\ after[k + 1] = Handed(k + 1, after[k])
      BY <1>1, <1>4, <2>1
    <2> HIDE DEF V
    <2> QED BY <2>1, <2>2, HandedOrder
  <1> HIDE DEF V
  <1>5. n \in V
    BY <1>1, <1>3, <1>4, SetInduction
  <1> QED BY <1>1, <1>5 DEF V

LEMMA OnServerReadOrder ==
  ASSUME OInv, NEW n \in 1..Len(toProxy), OnServerRead(n)
  PROVE  OrderStep
  <1>1. /\ ServerUp
        /\ net' = HandedOut(FewerOf(n, Len(cmdQueue)))
        /\ toProxy' = SubSeq(toProxy, n + 1, Len(toProxy))
        /\ UNCHANGED <<session, clientConn, toServer, swallowed, got>>
    BY DEF OnServerRead
  <1>2. IInv /\ ProxyInv /\ LiveConnected
    BY DEF OInv, IInv
  <1>3. /\ n <= Len(cmdQueue) /\ n \in Nat /\ Len(cmdQueue) \in Nat
        /\ Len(toProxy) \in Nat /\ net' = HandedOut(n)
    BY <1>1, <1>2, ReadersEnough
  <1>4. PICK after : Hands(after, n)
    <2>1. n \in 0..Len(cmdQueue) /\ n <= Len(toProxy)
      BY <1>3
    <2> QED BY <1>1, <1>2, <2>1, HandedOutSteps
  <1>5. net'.mem[ServerAddr] = net.mem[ServerAddr] /\ SameConnections(net')
    <2>1. n \in 0..n
      BY <1>3
    <2> QED BY <1>3, <1>4, <2>1 DEF Hands, Answered
  <1>6. LinkBuffer' = LinkBuffer
    BY <1>5 DEF LinkBuffer, ServerUp, Live
  <1>7. LiveConnected'
    BY <1>2, <1>5 DEF LiveConnected, SameConnections, Live
  <1>8. ASSUME Orderly', NEW c \in Clients PROVE OrderOf(c)'
    <2>1. Orderly
      BY <1>1, <1>8 DEF Orderly, AddressReused
    <2>2. OrderFrom(c, n + 1, net')
      BY <1>1, <1>3, <1>4, <2>1, HandsOrder
    <2>3. clientConn[c] # NoAddr => clientConn[c] \in Addrs
      BY <1>2 DEF ProxyInv
    <2>4. clientConn[c] # NoAddr => (IsConn(clientConn[c], c)' <=> IsConn(clientConn[c], c))
      BY <1>1, <1>5, <2>3 DEF IsConn, Live, SameConnections
    <2>5. SentTo(c)' = SentIn(c, net') /\ (Served(c)' <=> Served(c))
      BY <1>1, <2>4 DEF SentTo, SentIn, Served
    <2>6. Alined(SubSeq(Asked, n + 1, Len(Asked)), Asked')
      BY <1>1, <1>2, <1>6, ReadAsked
    <2>7. PICK e \in Nat :
             /\ Line(0, SentMarks(SentIn(c, net')), e)
             /\ Served(c) => Line(e, AskedMarks(c, SubSeq(Asked, n + 1, Len(Asked))),
                                  session[c].from)
      BY <2>2 DEF OrderFrom
    <2>8. Served(c)' => Line(e, AskedMarks(c, Asked'), session'[c].from)
      BY <1>1, <2>5, <2>6, <2>7, MarksSame, LineSame
    <2>9. SentTo(c)' \in Seq(RepliesTo(c)) /\ Line(0, SentMarks(SentTo(c)'), e)
      BY <2>2, <2>5, <2>7 DEF OrderFrom
    <2> QED BY <2>8, <2>9 DEF OrderOf, Line, SentMarks, AskedMarks
  <1> QED BY <1>7, <1>8 DEF OrderStep, OrderInv

LEMMA NextOrder == OInv /\ [Next]_vars => OInv'
  <1> SUFFICES ASSUME OInv, [Next]_vars PROVE OInv'
    OBVIOUS
  <1>1. ASSUME NEW c \in Clients, NEW a \in Addrs, Accept(c, a)
        PROVE  OrderStep
    BY <1>1, AcceptOrder
  <1>2. ASSUME NEW c \in Clients, NEW a \in Addrs, NEW cut \in ReadCuts,
               NEW upto \in session[c].read..Total, OnClientRead(a, c, upto, cut)
        PROVE  OrderStep
    BY <1>2, OnClientReadOrder
  <1>3. ASSUME NEW kind \in {"status", "error", "emptyBulk"}, ServerReply(kind)
        PROVE  OrderStep
    BY <1>3, ServerReplyOrder
  <1>4. ASSUME NEW n \in 1..Len(toProxy), OnServerRead(n)
        PROVE  OrderStep
    BY <1>4, OnServerReadOrder
  <1>5. ASSUME NEW a \in Addrs, NEW k \in 0..Len(net.mem[a].send), WriteOut(a, k)
        PROVE  OrderStep
    BY <1>5, WriteOutOrder
  <1>6. ASSUME NEW a \in Addrs, WriteFails(a)
        PROVE  OrderStep
    BY <1>6, WriteFailsOrder
  <1>7. ASSUME NEW a \in Addrs, PeerCloses(a)
        PROVE  OrderStep
    BY <1>7, PeerClosesOrder
  <1>8. ASSUME NEW a \in Addrs, OnPeerGone(a)
        PROVE  OrderStep
    BY <1>8, OnPeerGoneOrder
  <1>9. ASSUME WriteFreed PROVE OrderStep
    BY <1>9, UnchangedOrder DEF WriteFreed
  <1>10. ASSUME UNCHANGED vars PROVE OrderStep
    <2>1. UNCHANGED <<net, session, clientConn, got, upstreamVars>>
      BY <1>10 DEF vars, upstreamVars
    <2> QED BY <2>1, UnchangedOrder
  <1>11. OrderStep
    BY <1>1, <1>2, <1>3, <1>4, <1>5, <1>6, <1>7, <1>8, <1>9, <1>10 DEF Next
  <1> QED BY <1>11, NextInv DEF OInv, OrderStep

LEMMA InitOrder == Init => OInv
  <1> SUFFICES ASSUME Init PROVE OInv
    OBVIOUS
  <1>1. IInv /\ Link!Init
    BY InitInv
  <1>2. LiveConnected
    <2> DEFINE connected == Update(EmptyNetwork, ServerAddr, NewObject(Redis))
               request == <<[asker |-> AuthReader, cmd |-> AuthCmd]>>
    <2>1. connected.mem[ServerAddr] = NewObject(Redis) /\ connected \in Network
          /\ \A a \in Addrs \ {ServerAddr} : connected.mem[a] = Unused
      <3>1. Coherent(connected)
        BY EmptyNetworkCoherent, NewObjectCoherent, ProxyAddrsAssumption,
           ProxyPeersAssumption
      <3> QED BY <3>1, ProxyAddrsAssumption DEF Coherent, Update, EmptyNetwork
    <2>2. /\ NewObject(Redis).connected = TRUE /\ Unused.state = "unused"
      BY DEF NewObject, Connected, Unused
    <2>3. request \in Seq(Items)
      <3>1. AuthCmd \in (0..Total) \X (0..(Total + 1))
        BY ProxyBoundsAssumption DEF AuthCmd
      <3> QED BY <3>1, ProxyItemsAssumption DEF Request
    <2>4. net = connected \/ net = WriteToBuffer(connected, ServerAddr, request)
      BY DEF Init
    <2> HIDE DEF connected, request
    <2>5. PICK p : /\ OnlyAt(connected, WriteToBuffer(connected, ServerAddr, request),
                             ServerAddr, p)
                   /\ Extends(connected.mem[ServerAddr], p, request)
      BY <2>1, <2>3, WriteToBufferFrame, ProxyAddrsAssumption
    <2>6. p.connected = TRUE
      BY <2>1, <2>2, <2>5 DEF Extends
    <2>7. /\ net.mem[ServerAddr].connected = TRUE
          /\ \A a \in Addrs \ {ServerAddr} : net.mem[a] = Unused
      BY <2>1, <2>2, <2>4, <2>5, <2>6, OnlyAtFacts, ProxyAddrsAssumption
    <2>8. "unused" # "live"
      OBVIOUS
    <2> QED BY <2>2, <2>7, <2>8 DEF LiveConnected, Live
  <1>3. ASSUME NEW c \in Clients PROVE OrderOf(c)
    <2>1. SentTo(c) = <<>> \o <<>> /\ session[c].from = 0
      BY DEF Init, SentTo, NewSession
    <2>2. SentTo(c) = <<>> /\ Len(SentTo(c)) = 0
      BY <2>1
    <2>3. Line(0, SentMarks(SentTo(c)), 0)
      <3>1. Len(SentMarks(SentTo(c))) = 0
        BY <2>2, MarksTyped
      <3> QED BY <3>1, LineBlank
    <2>4. ASSUME NEW i \in 1..Len(Asked) PROVE Asked[i].asker = AuthReader
      <3>1. LinkState = "up" /\ swallowed = 0 /\ Link!Pairing
            /\ (cmdQueue = <<>> \/ cmdQueue = <<AuthReader>>)
        BY <1>1 DEF Link!Init, IInv, Link!IInv
      <3>2. /\ Len(Asked) = Len(cmdQueue)
            /\ cmdQueue[i] = Asked[i].asker
        BY <1>1, <3>1, AskedTyped DEF Link!Pairing
      <3> QED BY <3>1, <3>2
    <2>5. AuthReader # c
      BY ProxyPeersAssumption DEF Clients
    <2>6. Line(0, AskedMarks(c, Asked), 0)
      <3>1. Len(Asked) \in Nat
        BY <1>1, AskedTyped
      <3>2. /\ Len(AskedMarks(c, Asked)) = Len(Asked)
            /\ \A i \in 1..Len(Asked) : AskedMarks(c, Asked)[i] = Blank
        BY <2>4, <2>5, <3>1, MarksTyped
      <3> QED BY <3>1, <3>2, LineBlank
    <2> QED BY <2>1, <2>2, <2>3, <2>6 DEF OrderOf
  <1> QED BY <1>1, <1>2, <1>3 DEF OInv, OrderInv

\* A line of marks says of every reply which arguments were answered before it.
LEMMA LineAnswered ==
  ASSUME NEW c, NEW s \in Seq(RepliesTo(c)), NEW e, Line(0, SentMarks(s), e),
         NEW i \in 1..Len(s), IsReply(s[i])
  PROVE  AnsweredTo(s, i - 1, s[i].req.cmd[1])
  <1> DEFINE m == SentMarks(s)
  <1>1. Len(m) = Len(s) /\ Len(s) \in Nat
        /\ \A j \in 1..Len(s) : m[j] = IF IsReply(s[j]) THEN s[j].req.cmd ELSE Blank
    BY MarksTyped
  <1>2. \A j \in 1..Len(s) : IsReply(s[j]) => m[j] # Blank /\ m[j] = s[j].req.cmd
    <2>1. \A j \in 1..Len(s) : s[j].req.cmd \in (0..Total) \X (0..(Total + 1))
      BY DEF RepliesTo, Reply, Request
    <2>2. \A q \in (0..Total) \X (0..(Total + 1)) : q # Blank
      <3>1. (0..Total) \X (0..(Total + 1)) \subseteq Piece
        BY ProxyBoundsAssumption DEF Piece
      <3> QED BY <3>1, PieceNotBlank
    <2> HIDE DEF m
    <2> QED BY <1>1, <2>1, <2>2
  <1> HIDE DEF m
  <1>3. PICK p \in [0..Len(m) -> Nat] : Stands(p, m, 0, e)
    BY DEF Line, m
  <1>4. /\ p[0] = 0
        /\ \A j \in 1..Len(s) : IF IsReply(s[j]) THEN /\ p[j - 1] = s[j].req.cmd[1]
                                                      /\ p[j] = s[j].req.cmd[2]
                                ELSE p[j] = p[j - 1]
    BY <1>1, <1>2, <1>3 DEF Stands
  <1> DEFINE V == {k \in Nat : k <= Len(s) => AnsweredTo(s, k, p[k])}
  <1>5. 0 \in V
    BY <1>4 DEF AnsweredTo
  <1>6. ASSUME NEW k \in Nat, k \in V PROVE k + 1 \in V
    <2> SUFFICES ASSUME k + 1 <= Len(s) PROVE AnsweredTo(s, k + 1, p[k + 1])
      OBVIOUS
    <2>1. /\ k <= Len(s) /\ k + 1 \in 1..Len(s) /\ (k + 1) - 1 = k
          /\ \A j \in 1..(k + 1) : j \in 1..k \/ j = k + 1
          /\ \A j \in 1..k : j \in 1..(k + 1)
          /\ \A j \in 1..k : \A l \in (j + 1)..(k + 1) : l \in (j + 1)..k \/ l = k + 1
          /\ (k + 2)..(k + 1) = {}
      BY <1>1
    <2>2. AnsweredTo(s, k, p[k])
      BY <1>6, <2>1
    <2>3. CASE IsReply(s[k + 1])
      <3>1. p[k + 1] = s[k + 1].req.cmd[2]
        BY <1>4, <2>1, <2>3
      <3>2. k + 1 \in 1..(k + 1) /\ \A l \in ((k + 1) + 1)..(k + 1) : ~IsReply(s[l])
        OBVIOUS
      <3> QED BY <2>3, <3>1, <3>2 DEF AnsweredTo
    <2>4. CASE ~IsReply(s[k + 1])
      <3>1. p[k + 1] = p[k]
        BY <1>4, <2>1, <2>4
      <3>2. CASE p[k] = 0 /\ \A j \in 1..k : ~IsReply(s[j])
        BY <2>1, <2>4, <3>1, <3>2 DEF AnsweredTo
      <3>3. CASE \E j \in 1..k : /\ IsReply(s[j]) /\ s[j].req.cmd[2] = p[k]
                                 /\ \A l \in (j + 1)..k : ~IsReply(s[l])
        BY <2>1, <2>4, <3>1, <3>3 DEF AnsweredTo
      <3> QED BY <2>2, <3>2, <3>3 DEF AnsweredTo
    <2> QED BY <2>3, <2>4
  <1> HIDE DEF V
  <1>7. i - 1 \in Nat /\ i - 1 <= Len(s)
    BY <1>1
  <1>8. i - 1 \in V
    BY <1>5, <1>6, <1>7, SetInduction
  <1> QED BY <1>4, <1>7, <1>8 DEF V

\* As long as no address is reused and Redis ignored nothing, each client is sent the
\* replies to its own requests in the order of its stream and leaving none out,
\* whatever was deferred, cut, closed or lost around it: what one client was sent, the
\* requests of its that are outstanding and what its session holds stay one line.
THEOREM AnsweredInOrder == Spec => []AnswersInOrder
  <1>1. OInv => AnswersInOrder
    <2> SUFFICES ASSUME OInv, swallowed = 0, ~AddressReused, NEW c \in Clients,
                        NEW i \in 1..Len(SentTo(c)), IsReply(SentTo(c)[i])
                 PROVE  /\ SentTo(c)[i].req.asker = c
                        /\ AnsweredTo(SentTo(c), i - 1, SentTo(c)[i].req.cmd[1])
      BY DEF AnswersInOrder
    <2>1. OrderOf(c)
      BY DEF OInv, OrderInv, Orderly
    <2> DEFINE s == SentTo(c)
    <2>2. s \in Seq(RepliesTo(c)) /\ \E e \in Nat : Line(0, SentMarks(s), e)
      BY <2>1 DEF OrderOf
    <2> HIDE DEF s
    <2>3. ASSUME NEW j \in 1..Len(s), IsReply(s[j])
          PROVE  s[j].req.asker = c /\ AnsweredTo(s, j - 1, s[j].req.cmd[1])
      <3>1. s[j] \in RepliesTo(c)
        BY <2>2, <2>3
      <3>2. AnsweredTo(s, j - 1, s[j].req.cmd[1])
        BY <2>2, <2>3, LineAnswered
      <3> QED BY <3>1, <3>2 DEF RepliesTo
    <2> QED BY <2>3 DEF s
  <1> QED
    BY <1>1, InitOrder, NextOrder, PTL DEF Spec
================================================================================
