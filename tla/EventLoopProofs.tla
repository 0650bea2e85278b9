---------------------------- MODULE EventLoopProofs ----------------------------
(***************************************************************************)
(* Theorems about EventLoop.tla, for every set of addresses, peers and     *)
(* items and every MaxUnsent.  The inductive invariant is that the network *)
(* is Coherent (OperatorProofs.tla), the cursor stays within the list, and *)
(* an execution has ended only where WalkSurvives admits it: the node in   *)
(* front of one that a callback erases is its object's only if it is that  *)
(* one, because no object owns two.                                        *)
(***************************************************************************)
EXTENDS EventLoop, OperatorProofs

IInv == /\ Coherent(net)
        /\ TypeOK
        /\ WalkSurvives

LEMMA OneItem == \A item \in Items : <<item>> \in Seq(Items)
  OBVIOUS

LEMMA InitInvariant == Init => IInv
  <1> SUFFICES ASSUME Init PROVE IInv
    OBVIOUS
  <1>1. Coherent(EmptyNetwork) /\ ~Live(EmptyNetwork, ServerAddr)
    BY EmptyNetworkCoherent, AddrsAssumption
  <1>2. Coherent(net)
    BY <1>1, NewObjectCoherent, AddrsAssumption, PeersAssumption DEF Init
  <1>3. net \in Network /\ net.writers \in Seq(Node) /\ Len(net.writers) \in Nat
    BY <1>2 DEF Coherent, Network
  <1>4. cursor = 0 /\ accepted = {} /\ crashed = FALSE
    BY DEF Init
  <1> QED
    <2>1. cursor \in 0..(Len(net.writers) + 1)
      BY <1>3, <1>4
    <2>2. accepted \subseteq Peers \ {Redis} /\ crashed \in BOOLEAN
      BY <1>4
    <2>3. WalkSurvives
      BY <1>4 DEF WalkSurvives
    <2> QED BY <1>2, <1>3, <2>1, <2>2, <2>3 DEF IInv, TypeOK

\* Between two walks of the list nothing holds the cursor.
LEMMA PollKeeps ==
  ASSUME Polling, Coherent(net'), UNCHANGED cursor,
         accepted' \subseteq Peers \ {Redis}, crashed' \in BOOLEAN,
         UNCHANGED crashed \/ (crashed' => ~Live(net', ServerAddr))
  PROVE  IInv'
  <1>1. net' \in Network /\ net'.writers \in Seq(Node) /\ Len(net'.writers) \in Nat
    BY DEF Coherent, Network
  <1>2. WalkSurvives'
    BY DEF WalkSurvives, Polling
  <1> QED
    BY <1>1, <1>2 DEF IInv, TypeOK, Polling

\* An iterator dangles where a callback erased the node behind the one it visited: that
\* one is not its object's any more, and it is still there.
LEMMA DanglesByStaleNode ==
  ASSUME NEW n, n.writers \in Seq(Node), NEW c \in 1..Len(n.writers), NEW a \in Addrs,
         n.writers[c].to = a, NEW m, OwnErased(n, a, m.writers), ListPos(n, a) = c + 1
  PROVE  StaleNode(m)
  <1>1. /\ c + 1 \in 1..Len(n.writers)
        /\ n.writers[c] = OwnNode(a) => c = c + 1
        /\ m.writers = Erase(n.writers, c + 1)
        /\ Len(m.writers) = Len(n.writers) - 1
    BY DEF OwnErased
  <1>2. m.writers[c] = n.writers[c] /\ c \in 1..Len(m.writers)
    <2>1. /\ Len(n.writers) \in Nat /\ c \in 1..(Len(n.writers) - 1) /\ c < c + 1
          /\ c + 1 \in 1..Len(n.writers)
      BY <1>1
    <2>2. \A j \in 1..(Len(n.writers) - 1) :
             Erase(n.writers, c + 1)[j] = IF j < c + 1 THEN n.writers[j] ELSE n.writers[j + 1]
      BY <2>1, EraseNode
    <2> QED BY <1>1, <2>1, <2>2
  <1>3. ~n.writers[c].own
    <2>1. n.writers[c] \in Node /\ n.writers[c] # OwnNode(a)
      BY <1>1
    <2> QED BY <2>1 DEF Node, OwnNode
  <1> QED
    BY <1>2, <1>3 DEF StaleNode

\* The walk goes on behind the node it visited, erased or not.
LEMMA AdvanceKeeps ==
  ASSUME IInv, Visiting, NEW m, Coherent(m), NEW a \in Addrs,
         net.writers[cursor].to = a, AtMostOwnErased(net, a, m), AdvanceTo(m, a)
  PROVE  IInv'
  <1> DEFINE l == Len(net.writers)
             e == ListPos(net, a)
  <1>1. m \in Network /\ m.writers \in Seq(Node) /\ Len(m.writers) \in Nat
    BY DEF Coherent, Network
  <1>2. l \in Nat /\ cursor \in 1..l
    BY DEF IInv, Coherent, Network, Visiting
  <1>3. net' = m /\ accepted' = accepted /\ accepted \subseteq Peers \ {Redis}
    BY DEF AdvanceTo, IInv, TypeOK
  <1>4. CASE Len(m.writers) = l
    <2>1. cursor' = cursor + 1 /\ crashed' = crashed
      BY <1>4 DEF AdvanceTo
    <2>2. crashed' = FALSE /\ WalkSurvives'
      BY <2>1 DEF Visiting, WalkSurvives
    <2> QED BY <1>1, <1>2, <1>3, <1>4, <2>1, <2>2 DEF IInv, TypeOK
  <1>5. CASE Len(m.writers) # l
    <2>1. OwnErased(net, a, m.writers) /\ Len(m.writers) = l - 1 /\ e \in 1..l
      BY <1>5 DEF AtMostOwnErased, OwnErased
    <2>2. /\ crashed' = (e = cursor + 1)
          /\ cursor' = IF e <= cursor THEN cursor ELSE cursor + 1
      BY <1>5 DEF AdvanceTo
    <2>3. cursor' \in 0..(Len(m.writers) + 1)
      BY <1>2, <2>1, <2>2
    <2>4. crashed' \in BOOLEAN
      BY <2>2
    <2>5. WalkSurvives'
      <3>1. net.writers \in Seq(Node)
        BY DEF IInv, Coherent, Network
      <3>2. ASSUME e = cursor + 1 PROVE StaleNode(m)
        BY <1>2, <2>1, <3>1, <3>2, DanglesByStaleNode
      <3>3. crashed' => StaleNode(net')
        BY <1>3, <2>2, <3>2
      <3> QED BY <3>3 DEF WalkSurvives
    <2> QED BY <1>1, <1>3, <2>3, <2>4, <2>5 DEF IInv, TypeOK
  <1> QED
    BY <1>4, <1>5

\* A node its object owns leads to an object.
LEMMA OwnNodeIsLive ==
  ASSUME NEW n, Coherent(n), NEW i \in 1..Len(n.writers), n.writers[i].own
  PROVE  Live(n, n.writers[i].to)
  <1> DEFINE a == n.writers[i].to
  <1>1. a \in Addrs /\ n.writers[i] = OwnNode(a)
    <2>1. n.writers[i] \in Node
      BY DEF Coherent, Network
    <2>2. n.writers[i].own = TRUE
      BY <2>1 DEF Node
    <2> QED BY <2>1, <2>2 DEF Node, OwnNode
  <1>2. ListedAs(n.writers, n.mem[a], a)
    BY <1>1, CoherentTyped
  <1> QED
    BY <1>1, <1>2 DEF ListedAs, OwnAt, Live

\* Output for freed memory does not bring its object back.
LEMMA WriteToBufferState ==
  ASSUME NEW n, Coherent(n), NEW a \in Addrs, NEW items
  PROVE  Live(WriteToBuffer(n, a, items), a) <=> Live(n, a)
  <1> DEFINE m == SetWritable(n, a, TRUE)
  <1>1. n.mem \in [Addrs -> Object] /\ n.mem[a] \in Object
    BY CoherentTyped
  <1>2. m.mem[a].state = n.mem[a].state
    BY <1>1 DEF SetWritable, Object
  <1>3. /\ [m EXCEPT !.mem[a].send = @ \o items].mem[a].state = m.mem[a].state
        /\ [m EXCEPT !.writers = Disown(@, a)].mem[a].state = m.mem[a].state
    <2>1. /\ m = [mem |-> m.mem, writers |-> m.writers]
          /\ m.mem = [m.mem EXCEPT ![a] = @]
          /\ m.mem[a] = [m.mem[a] EXCEPT !.send = @]
      BY <1>1, CoherentTyped DEF SetWritable, Object
    <2> HIDE DEF m
    <2> QED BY <2>1
  <1> QED
    BY <1>1, <1>2, <1>3 DEF WriteToBuffer, Live

LEMMA StepInvariant == IInv /\ [Next]_vars => IInv'
  <1> SUFFICES ASSUME IInv, [Next]_vars PROVE IInv'
    OBVIOUS
  <1>0. /\ Coherent(net) /\ net.writers \in Seq(Node) /\ Len(net.writers) \in Nat
        /\ accepted \subseteq Peers \ {Redis} /\ crashed \in BOOLEAN
        /\ cursor \in 0..(Len(net.writers) + 1)
    BY DEF IInv, Coherent, Network, TypeOK
  <1>1. CASE StartWrites
    BY <1>0, <1>1 DEF StartWrites, IInv, TypeOK, WalkSurvives
  <1>2. CASE EndWrites
    BY <1>0, <1>2 DEF EndWrites, IInv, TypeOK, WalkSurvives
  <1>3. CASE VisitFreed
    <2>1. /\ cursor \in 1..Len(net.writers) /\ ~Live(net, net.writers[cursor].to)
          /\ crashed' = TRUE /\ UNCHANGED <<net, cursor, accepted>>
      BY <1>3 DEF VisitFreed, Visiting
    <2>2. net.writers[cursor] \in Node
      BY <1>0, <2>1
    <2>3. ~net.writers[cursor].own
      BY <1>0, <2>1, <2>2, OwnNodeIsLive
    <2>4. StaleNode(net)
      BY <2>1, <2>3 DEF StaleNode
    <2> QED BY <1>0, <2>1, <2>4 DEF IInv, TypeOK, WalkSurvives, StaleNode
  <1>4. ASSUME NEW a \in Addrs, NEW k \in 0..Len(net.mem[a].send), VisitWritable(a, k)
        PROVE  IInv'
    <2>1. /\ Visiting /\ Live(net, a) /\ net.writers[cursor].to = a
          /\ AdvanceTo(OnWritable(net, a, k), a)
      BY <1>4 DEF VisitWritable
    <2>2. Coherent(OnWritable(net, a, k)) /\ AtMostOwnErased(net, a, OnWritable(net, a, k))
      BY <1>0, <2>1, OnWritableCoherent
    <2> QED BY <2>1, <2>2, AdvanceKeeps
  <1>5. ASSUME NEW a \in Addrs, VisitWriteError(a)
        PROVE  IInv'
    <2>1. /\ Visiting /\ Live(net, a) /\ net.mem[a].gone /\ net.writers[cursor].to = a
          /\ AdvanceTo(OnWriteError(net, a), a)
      BY <1>5 DEF VisitWriteError
    <2>2. Coherent(OnWriteError(net, a)) /\ AtMostOwnErased(net, a, OnWriteError(net, a))
      BY <1>0, <2>1, OnWriteErrorCoherent
    <2> QED BY <2>1, <2>2, AdvanceKeeps
  <1>6. ASSUME NEW a \in Addrs, NEW k \in 0..Len(net.mem[a].send), OnPollWritable(a, k)
        PROVE  IInv'
    <2>1. Coherent(net')
      BY <1>0, <1>6, OnWritableCoherent DEF OnPollWritable
    <2> QED BY <1>0, <1>6, <2>1, PollKeeps DEF OnPollWritable
  <1>7. ASSUME NEW p \in Peers \ {Redis}, NEW a \in Addrs, Accept(p, a)
        PROVE  IInv'
    <2>1. Coherent(net')
      BY <1>0, <1>7, NewObjectCoherent DEF Accept
    <2>2. accepted' \subseteq Peers \ {Redis}
      BY <1>0, <1>7 DEF Accept
    <2> QED BY <1>0, <1>7, <2>1, <2>2, PollKeeps DEF Accept
  <1>8. ASSUME NEW a \in Addrs, NEW item \in Items, OnReply(a, item)
        PROVE  IInv'
    <2>1. Coherent(WriteToBuffer(net, a, <<item>>))
      BY <1>0, OneItem, WriteToBufferCoherent
    <2>2. Coherent(net')
      BY <1>8, <2>1, SetReadableCoherent DEF OnReply
    <2> QED BY <1>0, <1>8, <2>2, PollKeeps DEF OnReply, Readable
  <1>9. ASSUME NEW a \in Addrs, NEW item \in Items, OnRequest(a, item)
        PROVE  IInv'
    <2>1. Coherent(net')
      BY <1>0, <1>9, OneItem, WriteToBufferCoherent, AddrsAssumption DEF OnRequest
    <2>2. crashed' \in BOOLEAN /\ (crashed' => ~Live(net, ServerAddr))
      BY <1>9 DEF OnRequest
    <2>3. Live(net', ServerAddr) <=> Live(net, ServerAddr)
      BY <1>0, <1>9, AddrsAssumption, WriteToBufferState DEF OnRequest
    <2> QED BY <1>0, <1>9, <2>1, <2>2, <2>3, PollKeeps DEF OnRequest, Readable
  <1>10. ASSUME NEW a \in Addrs, NEW item \in Items, OnBadRequest(a, item)
         PROVE  IInv'
    <2>1. Coherent(WriteToBuffer(net, a, <<item>>))
      BY <1>0, OneItem, WriteToBufferCoherent
    <2>2. Coherent(net')
      BY <1>10, <2>1, ClosingCoherent DEF OnBadRequest, WriteAndClose
    <2> QED BY <1>0, <1>10, <2>2, PollKeeps DEF OnBadRequest, Readable
  <1>11. ASSUME NEW a \in Addrs, OnDeferred(a)
         PROVE  IInv'
    <2>1. Coherent(net')
      BY <1>0, <1>11, SetReadableCoherent DEF OnDeferred
    <2> QED BY <1>0, <1>11, <2>1, PollKeeps DEF OnDeferred, Readable
  <1>12. ASSUME NEW a \in Addrs, OnPeerGone(a)
         PROVE  IInv'
    <2>1. Coherent(net')
      BY <1>0, <1>12, CloseCoherent DEF OnPeerGone
    <2> QED BY <1>0, <1>12, <2>1, PollKeeps DEF OnPeerGone
  <1>13. ASSUME NEW a \in Addrs, PeerCloses(a)
         PROVE  IInv'
    <2>1. Coherent(net')
      BY <1>0, <1>13, GoneCoherent DEF PeerCloses
    <2>2. net'.writers = net.writers
      BY <1>0, <1>13, CoherentTyped DEF PeerCloses
    <2>3. UNCHANGED <<cursor, accepted, crashed>>
      BY <1>13 DEF PeerCloses
    <2>4. WalkSurvives'
      BY <1>13, <2>3 DEF PeerCloses, WalkSurvives
    <2> QED BY <1>0, <2>1, <2>2, <2>3, <2>4 DEF IInv, TypeOK, Coherent
  <1>14. ASSUME NEW p \in Peers \ {Redis}, NEW a \in Addrs, AcceptFails(p, a)
         PROVE  IInv'
    <2>1. Coherent(Close(Update(net, a, Unattached(p)), a))
      BY <1>0, <1>14, UnattachedCoherent, CloseCoherent DEF AcceptFails
    <2>2. Coherent(net')
      BY <1>0, <1>14, <2>1 DEF AcceptFails
    <2>3. accepted' \subseteq Peers \ {Redis}
      BY <1>0, <1>14 DEF AcceptFails
    <2> QED BY <1>0, <1>14, <2>2, <2>3, PollKeeps DEF AcceptFails
  <1>15. CASE UNCHANGED vars
    BY <1>0, <1>15 DEF vars, IInv, TypeOK, WalkSurvives
  <1> QED
    BY <1>1, <1>2, <1>3, <1>4, <1>5, <1>6, <1>7, <1>8, <1>9, <1>10, <1>11, <1>12, <1>13,
       <1>14, <1>15 DEF Next

LEMMA Invariant == Spec => []IInv
  BY InitInvariant, StepInvariant, PTL DEF Spec

\* The types of the network, the cursor and the accepted sockets hold after every call,
\* those through pointers to deleted Connections included.  Of an iterator that dangles
\* they say nothing: the execution has ended (WalkIsSafe).
THEOREM TypeCorrect == Spec => []TypeOK
  <1>1. IInv => TypeOK
    BY DEF IInv
  <1> QED
    BY <1>1, Invariant, PTL

\* While every listed node has its object, and the server connection its own, the walk of
\* HandleWriteEvents (netio.cpp:309-316) is safe: whatever callbacks write, close and
\* erase, its iterator does not dangle and no call goes through freed memory.
THEOREM WalkIsSafe == Spec => []WalkSurvives
  <1>1. IInv => WalkSurvives
    BY DEF IInv
  <1> QED
    BY <1>1, Invariant, PTL

\* However many connections there are and whatever memory they share: writeListPos
\* names a node of its own connection exactly while the EPOLLOUT bit is set.
THEOREM ListAndBitsAgree == Spec => []ListMatchesBits
  <1>1. IInv => ListMatchesBits
    BY DEF IInv, Coherent, ListMatchesBits
  <1> QED
    BY <1>1, Invariant, PTL

\* Output that waits for a peer still there is on the write list.
THEOREM OutputIsScheduled == Spec => []AllOutputScheduled
  <1>1. IInv => AllOutputScheduled
    BY DEF IInv, Coherent, AllOutputScheduled
  <1> QED
    BY <1>1, Invariant, PTL

================================================================================
