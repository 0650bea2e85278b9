---------------------------- MODULE UpstreamProofs ----------------------------
(***************************************************************************)
(* For every set of sessions, every queue size and every run of commands:  *)
(* the queue of waiting readers and the stream of requests and replies on  *)
(* the server connection stay in step while that connection is up.         *)
(***************************************************************************)
EXTENDS Upstream, TLAPS

(* What the operators on sequences return. *)
LEMMA SeqFacts ==
  ASSUME NEW S, NEW s \in Seq(S)
  PROVE  Len(s) \in Nat /\ \A i \in 1..Len(s) : s[i] \in S
  OBVIOUS

LEMMA ConcatFacts ==
  ASSUME NEW S, NEW s \in Seq(S), NEW t \in Seq(S)
  PROVE  /\ s \o t \in Seq(S)
         /\ Len(s \o t) = Len(s) + Len(t)
         /\ \A i \in 1..Len(s) : (s \o t)[i] = s[i]
         /\ \A i \in (Len(s) + 1)..(Len(s) + Len(t)) : (s \o t)[i] = t[i - Len(s)]
  OBVIOUS

LEMMA DropFacts ==
  ASSUME NEW S, NEW s \in Seq(S), NEW n \in 0..Len(s)
  PROVE  /\ SubSeq(s, n + 1, Len(s)) \in Seq(S)
         /\ Len(SubSeq(s, n + 1, Len(s))) = Len(s) - n
         /\ \A i \in 1..(Len(s) - n) : SubSeq(s, n + 1, Len(s))[i] = s[i + n]
  OBVIOUS

LEMMA TailFacts ==
  ASSUME NEW S, NEW s \in Seq(S), s # <<>>
  PROVE  /\ Len(s) \in Nat \ {0}
         /\ Head(s) = s[1]
         /\ Tail(s) \in Seq(S)
         /\ Len(Tail(s)) = Len(s) - 1
         /\ \A i \in 1..(Len(s) - 1) : Tail(s)[i] = s[i + 1]
  OBVIOUS

LEMMA AppendFacts ==
  ASSUME NEW S, NEW s \in Seq(S), NEW e \in S
  PROVE  /\ Append(s, e) \in Seq(S)
         /\ Len(Append(s, e)) = Len(s) + 1
         /\ \A i \in 1..Len(s) : Append(s, e)[i] = s[i]
         /\ Append(s, e)[Len(s) + 1] = e
  OBVIOUS

--------------------------------------------------------------------------------
\* After AUTH was accepted its reader is not queued any more: this is what keeps
\* the next reply from being taken for a second answer to AUTH.
AuthLeftQueue == auth => \A i \in 1..Len(cmdQueue) : cmdQueue[i] # AuthReader

IInv == /\ TypeOK
        /\ QueueAccounting
        /\ Pairing
        /\ NoOrphanReply
        /\ AuthGoesFirst
        /\ AuthLeftQueue

LEMMA AuthTyped == AuthRequest \in Request /\ AuthReader \in Askers
  BY CmdsAssumption DEF AuthRequest, Request, Askers

\* The i-th outstanding request is a request.
LEMMA RequestAtTyped ==
  ASSUME TypeOK, NEW i \in 1..Outstanding
  PROVE  RequestAt(i) \in Request
  <1> DEFINE p == Len(toProxy)
             t == Len(toServer)
  <1>1. /\ p \in Nat /\ t \in Nat /\ Len(sendBuffer) \in Nat
        /\ \A j \in 1..p : toProxy[j].req \in Request
        /\ \A j \in 1..t : toServer[j] \in Request
        /\ \A j \in 1..Len(sendBuffer) : sendBuffer[j] \in Request
    <2>1. \A x \in Reply : x.req \in Request
      BY DEF Reply
    <2> QED
      BY <2>1, SeqFacts DEF TypeOK
  <1>2. CASE i <= p
    BY <1>1, <1>2 DEF RequestAt
  <1>3. CASE i > p /\ i <= p + t
    <2>1. i - p \in 1..t
      BY <1>1, <1>3
    <2> QED
      BY <1>1, <1>3, <2>1 DEF RequestAt
  <1>4. CASE i > p + t
    <2>1. i - (p + t) \in 1..Len(sendBuffer)
      BY <1>1, <1>4 DEF Outstanding
    <2> QED
      BY <1>1, <1>4, <2>1 DEF RequestAt
  <1> QED
    BY <1>1, <1>2, <1>3, <1>4

LEMMA InitIInv == Init => IInv
  <1> SUFFICES ASSUME Init PROVE IInv
    OBVIOUS
  <1>1. /\ link = "up" /\ toServer = <<>> /\ toProxy = <<>> /\ jammed = FALSE
        /\ orphan = FALSE /\ swallowed = 0
        /\ Len(toServer) = 0 /\ Len(toProxy) = 0
    BY DEF Init
  <1>t. /\ toServer \in Seq(Request) /\ toProxy \in Seq(Reply) /\ swallowed \in Nat
        /\ link \in {"up", "freed", "crashed"} /\ 1 <= QueueSize - 1
    BY <1>1, QueueSizeAssumption
  <1>b. jammed \in BOOLEAN /\ orphan \in BOOLEAN
    BY <1>1
  <1>2. CASE auth = TRUE /\ cmdQueue = <<>> /\ sendBuffer = <<>>
    <2>1. Len(cmdQueue) = 0 /\ Len(sendBuffer) = 0 /\ Outstanding = 0
      BY <1>1, <1>2 DEF Outstanding
    <2>2. TypeOK
      <3>1. /\ cmdQueue \in Seq(Askers) /\ Len(cmdQueue) <= QueueSize - 1
            /\ sendBuffer \in Seq(Request)
        BY <1>2, <1>t, <2>1, QueueSizeAssumption
      <3>2. auth \in BOOLEAN
        BY <1>2
      <3> QED
        BY <1>t, <1>b, <3>1, <3>2 DEF TypeOK
    <2> QED
      BY <1>1, <1>2, <2>1, <2>2
      DEF IInv, QueueAccounting, Pairing, NoOrphanReply, AuthGoesFirst, AuthLeftQueue
  <1>3. CASE auth = FALSE /\ cmdQueue = <<AuthReader>> /\ sendBuffer = <<AuthRequest>>
    <2>1. /\ Len(cmdQueue) = 1 /\ cmdQueue[1] = AuthReader /\ cmdQueue \in Seq(Askers)
          /\ Len(sendBuffer) = 1 /\ sendBuffer[1] = AuthRequest
          /\ sendBuffer \in Seq(Request)
          /\ Outstanding = 1
      BY <1>1, <1>3, AuthTyped DEF Outstanding
    <2>2. RequestAt(1) = AuthRequest
      BY <1>1, <2>1 DEF RequestAt
    <2>3. TypeOK
      <3>1. Len(cmdQueue) <= QueueSize - 1
        BY <1>t, <2>1, QueueSizeAssumption
      <3>2. auth \in BOOLEAN
        BY <1>3
      <3> QED
        BY <1>t, <1>b, <2>1, <3>1, <3>2 DEF TypeOK
    <2>4. AuthRequest.asker = AuthReader
      BY DEF AuthRequest
    <2>5. \A i \in 1..1 : i = 1
      OBVIOUS
    <2>6. QueueAccounting /\ Pairing
      BY <1>1, <2>1, <2>2, <2>4, <2>5 DEF QueueAccounting, Pairing
    <2>7. NoOrphanReply /\ AuthGoesFirst /\ AuthLeftQueue
      BY <1>1, <1>3, <2>1, <2>2, <2>5 DEF NoOrphanReply, AuthGoesFirst, AuthLeftQueue
    <2> QED
      BY <2>3, <2>6, <2>7 DEF IInv
  <1> QED
    BY <1>2, <1>3 DEF Init

\* The part of a run that is queued is a run of commands that fits.
LEMMA AcceptedFits ==
  ASSUME TypeOK, NEW run \in Runs
  PROVE  /\ Accepted(run) \in Seq(Cmds)
         /\ Len(Accepted(run)) <= Room
         /\ Room \in Nat
  BY QueueSizeAssumption, CmdsAssumption DEF TypeOK, Accepted, Room

LEMMA PushIInv ==
  ASSUME IInv, NEW r \in Readers, NEW run \in Runs, PushRequests(r, run)
  PROVE  IInv'
  <1> DEFINE fits == Accepted(run)
             reqs == [i \in 1..Len(fits) |-> [asker |-> r, cmd |-> fits[i]]]
             rs == [i \in 1..Len(fits) |-> r]
  <1>1. /\ fits \in Seq(Cmds)
        /\ Len(fits) \in Nat
        /\ Len(fits) <= Room
        /\ Room \in Nat
    BY AcceptedFits DEF IInv
  <1>2. r \in Askers /\ r # AuthReader
    BY ReadersAssumption DEF Askers
  <1>3. /\ reqs \in Seq(Request) /\ Len(reqs) = Len(fits)
        /\ \A i \in 1..Len(fits) : reqs[i].asker = r
        /\ rs \in Seq(Askers) /\ Len(rs) = Len(fits)
        /\ \A i \in 1..Len(fits) : rs[i] = r
    BY <1>1, <1>2 DEF Request
  <1>4. /\ auth /\ auth' = auth
        /\ cmdQueue' = cmdQueue \o rs
        /\ UNCHANGED <<toServer, toProxy, jammed, orphan, swallowed>>
        /\ \/ link = "up" /\ link' = "up" /\ sendBuffer' = sendBuffer \o reqs
           \/ link = "freed" /\ link' \in {"freed", "crashed"} /\ sendBuffer' = sendBuffer
    BY DEF PushRequests, IsAcceptable
  <1> HIDE DEF fits, reqs, rs
  <1>6. /\ Len(cmdQueue') = Len(cmdQueue) + Len(fits)
        /\ \A i \in 1..Len(cmdQueue) : cmdQueue'[i] = cmdQueue[i]
        /\ \A i \in (Len(cmdQueue) + 1)..(Len(cmdQueue) + Len(fits)) : cmdQueue'[i] = r
    <2>1. /\ Len(cmdQueue \o rs) = Len(cmdQueue) + Len(rs)
          /\ \A i \in 1..Len(cmdQueue) : (cmdQueue \o rs)[i] = cmdQueue[i]
          /\ \A i \in (Len(cmdQueue) + 1)..(Len(cmdQueue) + Len(rs)) :
                (cmdQueue \o rs)[i] = rs[i - Len(cmdQueue)]
      BY <1>3, ConcatFacts DEF IInv, TypeOK
    <2>2. \A i \in (Len(cmdQueue) + 1)..(Len(cmdQueue) + Len(fits)) :
             i - Len(cmdQueue) \in 1..Len(fits)
      BY <1>1 DEF IInv, TypeOK
    <2> QED
      BY <1>3, <1>4, <2>1, <2>2
  <1>5. TypeOK'
    <2>1. cmdQueue' \in Seq(Askers)
      BY <1>3, <1>4, ConcatFacts DEF IInv, TypeOK
    <2>2. Len(cmdQueue') <= QueueSize - 1
      BY <1>1, <1>6, QueueSizeAssumption, SeqFacts DEF IInv, TypeOK, Room
    <2>3. sendBuffer' \in Seq(Request) /\ link' \in {"up", "freed", "crashed"}
      BY <1>3, <1>4, ConcatFacts DEF IInv, TypeOK
    <2> QED
      BY <1>4, <2>1, <2>2, <2>3 DEF IInv, TypeOK
  <1>7. ASSUME link = "up", link' = "up", sendBuffer' = sendBuffer \o reqs
        PROVE  QueueAccounting' /\ Pairing'
    <2>1. /\ Len(sendBuffer') = Len(sendBuffer) + Len(fits)
          /\ \A i \in 1..Len(sendBuffer) : sendBuffer'[i] = sendBuffer[i]
          /\ \A i \in (Len(sendBuffer) + 1)..(Len(sendBuffer) + Len(fits)) :
                sendBuffer'[i].asker = r
      <3>1. /\ Len(sendBuffer \o reqs) = Len(sendBuffer) + Len(reqs)
            /\ \A i \in 1..Len(sendBuffer) : (sendBuffer \o reqs)[i] = sendBuffer[i]
            /\ \A i \in (Len(sendBuffer) + 1)..(Len(sendBuffer) + Len(reqs)) :
                  (sendBuffer \o reqs)[i] = reqs[i - Len(sendBuffer)]
        BY <1>3, ConcatFacts DEF IInv, TypeOK
      <3>2. \A i \in (Len(sendBuffer) + 1)..(Len(sendBuffer) + Len(fits)) :
               i - Len(sendBuffer) \in 1..Len(fits)
        BY <1>1 DEF IInv, TypeOK
      <3> QED
        BY <1>3, <1>7, <3>1, <3>2
    <2>2. /\ Outstanding' = Outstanding + Len(fits)
          /\ Outstanding \in Nat
      BY <1>1, <1>4, <2>1 DEF Outstanding, IInv, TypeOK
    <2>3. QueueAccounting'
      <3>1. Len(cmdQueue) = Outstanding + swallowed /\ swallowed \in Nat
        BY <1>7 DEF IInv, TypeOK, QueueAccounting
      <3>2. Len(cmdQueue') = Outstanding' + swallowed'
        BY <1>1, <1>4, <1>6, <2>2, <3>1
      <3> QED
        BY <3>2 DEF QueueAccounting
    <2> DEFINE pt == Len(toProxy) + Len(toServer)
    <2>3a. /\ pt \in Nat /\ Len(toProxy) \in Nat /\ Len(sendBuffer) \in Nat
           /\ Outstanding = pt + Len(sendBuffer)
      BY DEF Outstanding, IInv, TypeOK
    <2>4. ASSUME NEW i \in 1..Outstanding
          PROVE  RequestAt(i)' = RequestAt(i)
      <3>1. CASE i <= pt
        BY <1>4, <2>3a, <3>1 DEF RequestAt
      <3>2. CASE i > pt
        <4>1. i - pt \in 1..Len(sendBuffer)
          BY <2>3a, <3>2
        <4> QED
          BY <1>4, <2>1, <2>3a, <3>2, <4>1 DEF RequestAt
      <3> QED
        BY <2>3a, <3>1, <3>2
    <2>5. ASSUME NEW i \in (Outstanding + 1)..(Outstanding + Len(fits))
          PROVE  RequestAt(i)'.asker = r
      <3>1. i - pt \in (Len(sendBuffer) + 1)..(Len(sendBuffer) + Len(fits)) /\ i > pt
        BY <1>1, <2>3a
      <3>2. i > Len(toProxy)
        BY <1>1, <2>3a DEF IInv, TypeOK
      <3>3. RequestAt(i)' = sendBuffer'[i - pt]
        BY <1>1, <1>4, <2>3a, <3>1, <3>2 DEF RequestAt
      <3> QED
        BY <2>1, <3>1, <3>3
    <2>6. Pairing'
      <3> SUFFICES ASSUME swallowed = 0
                   PROVE  /\ Len(cmdQueue') = Outstanding'
                          /\ \A i \in 1..Len(cmdQueue') :
                                cmdQueue'[i] = RequestAt(i)'.asker
        BY <1>4 DEF Pairing
      <3>1. /\ Len(cmdQueue) = Outstanding
            /\ \A i \in 1..Len(cmdQueue) : cmdQueue[i] = RequestAt(i).asker
        BY <1>7 DEF IInv, Pairing
      <3> QED
        BY <1>1, <1>6, <2>2, <2>4, <2>5, <3>1
    <2> QED
      BY <2>3, <2>6
  <1>8. ASSUME link' # "up"
        PROVE  QueueAccounting' /\ Pairing'
    BY <1>8 DEF QueueAccounting, Pairing
  <1>9. AuthGoesFirst' /\ NoOrphanReply'
    BY <1>4 DEF IInv, AuthGoesFirst, NoOrphanReply
  <1>10. AuthLeftQueue'
    BY <1>1, <1>2, <1>4, <1>6 DEF IInv, TypeOK, AuthLeftQueue
  <1>11. QueueAccounting' /\ Pairing'
    BY <1>4, <1>7, <1>8
  <1> QED
    BY <1>5, <1>9, <1>10, <1>11 DEF IInv

\* Moving requests from the send buffer to the socket keeps their order.
LEMMA WriteOutIInv ==
  ASSUME IInv, NEW k \in 1..Len(sendBuffer), WriteOut(k)
  PROVE  IInv'
  <1>1. /\ sendBuffer \in Seq(Request) /\ toServer \in Seq(Request)
        /\ toProxy \in Seq(Reply)
        /\ UNCHANGED <<cmdQueue, auth, link, toProxy, jammed, orphan, swallowed>>
        /\ k \in Nat /\ k <= Len(sendBuffer)
    BY DEF IInv, TypeOK, WriteOut
  <1>2. /\ toServer' \in Seq(Request)
        /\ Len(toServer') = Len(toServer) + k
        /\ \A i \in 1..Len(toServer) : toServer'[i] = toServer[i]
        /\ \A i \in (Len(toServer) + 1)..(Len(toServer) + k) :
              toServer'[i] = sendBuffer[i - Len(toServer)]
    BY <1>1 DEF WriteOut
  <1>3. /\ sendBuffer' \in Seq(Request)
        /\ Len(sendBuffer') = Len(sendBuffer) - k
        /\ \A i \in 1..(Len(sendBuffer) - k) : sendBuffer'[i] = sendBuffer[i + k]
    BY <1>1 DEF WriteOut
  <1>4. TypeOK'
    BY <1>1, <1>2, <1>3 DEF IInv, TypeOK
  <1>5. Outstanding' = Outstanding /\ Outstanding \in Nat
    BY <1>1, <1>2, <1>3 DEF Outstanding
  <1>6. ASSUME NEW i \in 1..Outstanding
        PROVE  RequestAt(i)' = RequestAt(i)
    <2> DEFINE p == Len(toProxy)
               t == Len(toServer)
    <2>1. p \in Nat /\ t \in Nat /\ i \in Nat
      BY <1>1, <1>5
    <2>2. CASE i <= p
      BY <1>1, <2>1, <2>2 DEF RequestAt
    <2>3. CASE i > p /\ i <= p + t
      <3>1. i - p \in 1..t
        BY <2>1, <2>3
      <3> QED
        BY <1>1, <1>2, <2>1, <2>3, <3>1 DEF RequestAt
    <2>4. CASE i > p + t /\ i <= p + t + k
      <3>1. /\ i - p \in (t + 1)..(t + k)
            /\ (i - p) - t = i - (p + t)
        BY <1>1, <2>1, <2>4
      <3>2. toServer'[i - p] = sendBuffer[i - (p + t)]
        BY <1>2, <3>1
      <3> QED
        BY <1>1, <1>2, <2>1, <2>4, <3>2 DEF RequestAt
    <2>5. CASE i > p + t + k
      <3>1. /\ i - (p + (t + k)) \in 1..(Len(sendBuffer) - k)
            /\ (i - (p + (t + k))) + k = i - (p + t)
        BY <1>1, <2>1, <2>5 DEF Outstanding
      <3>2. sendBuffer'[i - (p + (t + k))] = sendBuffer[i - (p + t)]
        BY <1>3, <3>1
      <3> QED
        BY <1>1, <1>2, <2>1, <2>5, <3>2 DEF RequestAt
    <2> QED
      BY <1>1, <2>1, <2>2, <2>3, <2>4, <2>5
  <1>7. QueueAccounting'
    BY <1>1, <1>5 DEF IInv, QueueAccounting
  <1>8. Pairing'
    BY <1>1, <1>5, <1>6 DEF IInv, TypeOK, Pairing
  <1>9. AuthGoesFirst'
    BY <1>1, <1>5, <1>6 DEF IInv, AuthGoesFirst
  <1>10. NoOrphanReply' /\ AuthLeftQueue'
    BY <1>1 DEF IInv, NoOrphanReply, AuthLeftQueue
  <1> QED
    BY <1>4, <1>7, <1>8, <1>9, <1>10 DEF IInv

\* Executing a command moves its request to the replies, or, when it is ignored,
\* takes it out of the stream and is counted.
LEMMA ServerReplyIInv ==
  ASSUME IInv, NEW kind \in ReplyKinds, ServerReply(kind)
  PROVE  IInv'
  <1> DEFINE p == Len(toProxy)
             t == Len(toServer)
  <1>1. /\ sendBuffer \in Seq(Request) /\ toServer \in Seq(Request)
        /\ toProxy \in Seq(Reply) /\ toServer # <<>> /\ link = "up"
        /\ UNCHANGED <<cmdQueue, auth, link, sendBuffer, jammed, orphan>>
        /\ p \in Nat /\ Len(sendBuffer) \in Nat
        /\ cmdQueue \in Seq(Askers) /\ swallowed \in Nat
    BY SeqFacts DEF IInv, TypeOK, ServerReply
  <1>2. /\ t \in Nat \ {0} /\ Head(toServer) = toServer[1] /\ Head(toServer) \in Request
        /\ toServer' = Tail(toServer) /\ toServer' \in Seq(Request)
        /\ Len(toServer') = t - 1
        /\ \A i \in 1..(t - 1) : toServer'[i] = toServer[i + 1]
    BY <1>1, TailFacts, SeqFacts DEF ServerReply
  <1>3. Outstanding = p + (t + Len(sendBuffer)) /\ Outstanding \in Nat
    BY <1>1, <1>2 DEF Outstanding
  <1>4. Len(cmdQueue) = Outstanding + swallowed
    BY <1>1 DEF IInv, QueueAccounting
  <1>5. NoOrphanReply' /\ AuthLeftQueue'
    BY <1>1 DEF IInv, NoOrphanReply, AuthLeftQueue
  <1>6. CASE Head(toServer).cmd \in EmptyCmds
    <2>1. toProxy' = toProxy /\ swallowed' = swallowed + 1
      BY <1>6 DEF ServerReply
    <2>2. TypeOK'
      BY <1>1, <1>2, <2>1 DEF IInv, TypeOK
    <2>3. Outstanding' = Outstanding - 1
      BY <1>1, <1>2, <1>3, <2>1 DEF Outstanding
    <2>4. QueueAccounting'
      BY <1>1, <1>3, <1>4, <2>1, <2>3 DEF QueueAccounting
    <2>5. Pairing'
      BY <1>1, <2>1 DEF Pairing
    <2>6. auth
      <3> SUFFICES ASSUME ~auth PROVE FALSE
        OBVIOUS
      <3>1. p + 1 \in 1..Outstanding /\ ~(p + 1 <= p) /\ p + 1 <= p + t /\ (p + 1) - p = 1
        BY <1>1, <1>2, <1>3
      <3>2. RequestAt(p + 1) = toServer[1]
        BY <3>1 DEF RequestAt
      <3>3. RequestAt(p + 1) = AuthRequest
        BY <1>1, <3>1 DEF IInv, AuthGoesFirst
      <3> QED
        BY <1>2, <1>6, <3>2, <3>3, CmdsAssumption DEF AuthRequest
    <2> QED
      BY <1>1, <1>5, <2>2, <2>4, <2>5, <2>6 DEF IInv, AuthGoesFirst
  <1>7. CASE Head(toServer).cmd \notin EmptyCmds
    <2> DEFINE reply == [req |-> Head(toServer), kind |-> kind]
    <2>1. toProxy' = Append(toProxy, reply) /\ swallowed' = swallowed
      BY <1>7 DEF ServerReply
    <2>2. reply \in Reply /\ reply.req = toServer[1]
      BY <1>2 DEF Reply
    <2> HIDE DEF reply
    <2>3. /\ toProxy' \in Seq(Reply) /\ Len(toProxy') = p + 1
          /\ \A i \in 1..p : toProxy'[i] = toProxy[i]
          /\ toProxy'[p + 1] = reply
      BY <1>1, <2>1, <2>2, AppendFacts
    <2>4. TypeOK'
      BY <1>1, <1>2, <2>1, <2>3 DEF IInv, TypeOK
    <2>5. Outstanding' = Outstanding
      BY <1>1, <1>2, <1>3, <2>3 DEF Outstanding
    <2>6. ASSUME NEW i \in 1..Outstanding
          PROVE  RequestAt(i)' = RequestAt(i)
      <3>1. CASE i <= p
        BY <1>1, <2>3, <3>1 DEF RequestAt
      <3>2. CASE i = p + 1
        <4>1. RequestAt(i)' = reply.req
          BY <1>1, <2>3, <3>2 DEF RequestAt
        <4>2. ~(i <= p) /\ i <= p + t /\ i - p = 1
          BY <1>1, <1>2, <3>2
        <4>3. RequestAt(i) = toServer[1]
          BY <4>2 DEF RequestAt
        <4> QED
          BY <2>2, <4>1, <4>3
      <3>3. CASE i > p + 1 /\ i <= p + t
        <4>1. i - (p + 1) \in 1..(t - 1) /\ (i - (p + 1)) + 1 = i - p
          BY <1>1, <1>2, <3>3
        <4>2. RequestAt(i)' = toServer'[i - (p + 1)]
          BY <1>1, <1>2, <2>3, <3>3 DEF RequestAt
        <4>3. RequestAt(i) = toServer[i - p]
          BY <1>1, <1>2, <3>3 DEF RequestAt
        <4> QED
          BY <1>2, <4>1, <4>2, <4>3
      <3>4. CASE i > p + t
        <4>1. (p + 1) + (t - 1) = p + t /\ ~(i <= p + 1) /\ ~(i <= p)
          BY <1>1, <1>2, <3>4
        <4> QED
          BY <1>1, <1>2, <2>3, <3>4, <4>1 DEF RequestAt
      <3> QED
        BY <1>1, <1>2, <1>3, <3>1, <3>2, <3>3, <3>4
    <2>7. QueueAccounting' /\ Pairing'
      BY <1>1, <1>3, <1>4, <2>1, <2>5, <2>6 DEF IInv, QueueAccounting, Pairing
    <2>8. AuthGoesFirst'
      BY <1>1, <1>3, <2>5, <2>6 DEF IInv, AuthGoesFirst
    <2> QED
      BY <1>5, <2>4, <2>7, <2>8 DEF IInv
  <1> QED
    BY <1>6, <1>7

\* Handing out n parsed replies takes as many readers off the queue, the ones
\* that asked for them.
LEMMA HandOutIInv ==
  ASSUME IInv, link = "up", NEW n \in 1..Len(toProxy), HandOut(n),
         UNCHANGED <<link, sendBuffer, toServer, swallowed>>
  PROVE  IInv'
  <1> DEFINE p == Len(toProxy)
             t == Len(toServer)
  <1>1. /\ sendBuffer \in Seq(Request) /\ toServer \in Seq(Request)
        /\ toProxy \in Seq(Reply) /\ cmdQueue \in Seq(Askers)
        /\ p \in Nat /\ t \in Nat /\ Len(sendBuffer) \in Nat /\ Len(cmdQueue) \in Nat
        /\ swallowed \in Nat /\ n \in Nat /\ n <= p /\ n >= 1
    BY SeqFacts DEF IInv, TypeOK
  <1>2. Outstanding = p + (t + Len(sendBuffer)) /\ Outstanding \in Nat
    BY <1>1 DEF Outstanding
  <1>3. Len(cmdQueue) = Outstanding + swallowed
    BY DEF IInv, QueueAccounting
  <1>4. n <= Len(cmdQueue)
    BY <1>1, <1>2, <1>3
  <1>5. /\ cmdQueue' = SubSeq(cmdQueue, n + 1, Len(cmdQueue))
        /\ toProxy' = SubSeq(toProxy, n + 1, p)
        /\ orphan' = orphan
        /\ jammed' \in BOOLEAN
        /\ auth' = IF \E i \in 1..n : cmdQueue[i] = AuthReader
                   THEN \E i \in 1..n : /\ cmdQueue[i] = AuthReader
                                        /\ toProxy[i].kind = "status"
                   ELSE auth
    <2>1. ~(n > Len(cmdQueue))
      BY <1>1, <1>4
    <2>2. jammed' \in BOOLEAN
      BY DEF HandOut, Unparsable
    <2> QED
      BY <2>1, <2>2, Zenon DEF HandOut
  <1>6. /\ cmdQueue' \in Seq(Askers) /\ Len(cmdQueue') = Len(cmdQueue) - n
        /\ \A i \in 1..(Len(cmdQueue) - n) : cmdQueue'[i] = cmdQueue[i + n]
    BY <1>1, <1>4, <1>5, DropFacts
  <1>7. /\ toProxy' \in Seq(Reply) /\ Len(toProxy') = p - n
        /\ \A i \in 1..(p - n) : toProxy'[i] = toProxy[i + n]
    BY <1>1, <1>5, DropFacts
  <1>8. auth' \in BOOLEAN
    BY <1>5 DEF IInv, TypeOK
  <1>9. TypeOK'
    <2>1. Len(cmdQueue') <= QueueSize - 1
      BY <1>1, <1>6, QueueSizeAssumption DEF IInv, TypeOK
    <2> QED
      BY <1>1, <1>5, <1>6, <1>7, <1>8, <2>1 DEF IInv, TypeOK
  <1>10. Outstanding' = Outstanding - n
    BY <1>1, <1>2, <1>7 DEF Outstanding
  <1>11. ASSUME NEW i \in 1..(Outstanding - n)
         PROVE  RequestAt(i)' = RequestAt(i + n)
    <2>1. CASE i <= p - n
      <3>1. i + n <= p /\ i \in 1..(p - n)
        BY <1>1, <2>1
      <3> QED
        BY <1>7, <2>1, <3>1 DEF RequestAt
    <2>2. CASE i > p - n
      <3>1. /\ ~(i + n <= p) /\ ~(i <= p - n)
            /\ i - (p - n) = (i + n) - p
            /\ i - ((p - n) + t) = (i + n) - (p + t)
            /\ i <= (p - n) + t <=> i + n <= p + t
        BY <1>1, <1>2, <2>2
      <3> QED
        BY <1>7, <3>1 DEF RequestAt
    <2> QED
      BY <1>1, <1>2, <2>1, <2>2
  <1>12. QueueAccounting'
    BY <1>1, <1>2, <1>3, <1>6, <1>10 DEF QueueAccounting
  <1>13. Pairing'
    <2> SUFFICES ASSUME swallowed = 0
                 PROVE  /\ Len(cmdQueue') = Outstanding'
                        /\ \A i \in 1..Len(cmdQueue') :
                              cmdQueue'[i] = RequestAt(i)'.asker
      BY DEF Pairing
    <2>1. /\ Len(cmdQueue) = Outstanding
          /\ \A i \in 1..Len(cmdQueue) : cmdQueue[i] = RequestAt(i).asker
      BY DEF IInv, Pairing
    <2>2. Len(cmdQueue') = Outstanding'
      BY <1>1, <1>2, <1>6, <1>10, <2>1
    <2>3. ASSUME NEW i \in 1..Len(cmdQueue')
          PROVE  cmdQueue'[i] = RequestAt(i)'.asker
      <3>1. i \in 1..(Outstanding - n) /\ i + n \in 1..Len(cmdQueue)
        BY <1>1, <1>2, <1>6, <2>1
      <3> QED
        BY <1>6, <1>11, <2>1, <3>1
    <2> QED
      BY <2>2, <2>3
  <1>14. AuthGoesFirst'
    <2> SUFFICES ASSUME ~auth'
                 PROVE  /\ Len(cmdQueue') <= 1
                        /\ \A i \in 1..Len(cmdQueue') : cmdQueue'[i] = AuthReader
                        /\ \A i \in 1..Outstanding' : RequestAt(i)' = AuthRequest
      BY DEF AuthGoesFirst
    <2>1. ~auth
      BY <1>1, <1>4, <1>5 DEF IInv, AuthLeftQueue
    <2>2. /\ Len(cmdQueue) <= 1
          /\ \A i \in 1..Len(cmdQueue) : cmdQueue[i] = AuthReader
          /\ \A i \in 1..Outstanding : RequestAt(i) = AuthRequest
      BY <2>1 DEF IInv, AuthGoesFirst
    <2>3. Len(cmdQueue') = 0 /\ Outstanding' = 0
      BY <1>1, <1>2, <1>3, <1>4, <1>6, <1>10, <2>2
    <2> QED
      BY <2>3
  <1>15. AuthLeftQueue'
    <2> SUFFICES ASSUME auth', NEW i \in 1..Len(cmdQueue')
                 PROVE  cmdQueue'[i] # AuthReader
      BY DEF AuthLeftQueue
    <2>1. /\ i \in 1..(Len(cmdQueue) - n)
          /\ i + n \in 1..Len(cmdQueue)
          /\ cmdQueue'[i] = cmdQueue[i + n]
      <3>1. i \in 1..(Len(cmdQueue) - n)
        BY <1>6
      <3> QED
        BY <1>1, <1>6, <3>1
    <2>2. CASE auth
      BY <2>1, <2>2 DEF IInv, AuthLeftQueue
    <2>3. CASE ~auth
      <3>1. Len(cmdQueue) <= 1
        BY <2>3 DEF IInv, AuthGoesFirst
      <3> QED
        BY <1>1, <2>1, <3>1
    <2> QED
      BY <2>2, <2>3
  <1>16. NoOrphanReply'
    BY <1>5 DEF IInv, NoOrphanReply
  <1> QED
    BY <1>9, <1>12, <1>13, <1>14, <1>15, <1>16 DEF IInv

LEMMA NextIInv == IInv /\ [Next]_vars => IInv'
  <1> SUFFICES ASSUME IInv, [Next]_vars
               PROVE  IInv'
    OBVIOUS
  <1>1. ASSUME NEW r \in Readers, NEW run \in Runs, PushRequests(r, run)
        PROVE  IInv'
    BY <1>1, PushIInv
  <1>2. ASSUME NEW k \in 1..Len(sendBuffer), WriteOut(k)
        PROVE  IInv'
    BY <1>2, WriteOutIInv
  <1>3. ASSUME NEW kind \in ReplyKinds, ServerReply(kind)
        PROVE  IInv'
    BY <1>3, ServerReplyIInv
  <1>4. ASSUME NEW j \in 1..Len(toProxy), OnServerRead(j)
        PROVE  IInv'
    <2>1. PICK n \in 1..j : HandOut(n)
      BY <1>4 DEF OnServerRead
    <2>2. n \in 1..Len(toProxy)
      BY SeqFacts DEF IInv, TypeOK
    <2> QED
      BY <1>4, <2>1, <2>2, HandOutIInv DEF OnServerRead
  <1>5. CASE OnServerClosed
    <2>1. /\ link' = "freed" /\ sendBuffer' = <<>> /\ toServer' = <<>> /\ toProxy' = <<>>
          /\ UNCHANGED <<cmdQueue, auth, jammed, orphan, swallowed>>
      BY <1>5 DEF OnServerClosed
    <2>2. TypeOK'
      BY <2>1 DEF IInv, TypeOK
    <2>3. QueueAccounting' /\ Pairing'
      BY <2>1 DEF QueueAccounting, Pairing
    <2>4. NoOrphanReply' /\ AuthGoesFirst' /\ AuthLeftQueue'
      BY <2>1 DEF IInv, NoOrphanReply, AuthGoesFirst, AuthLeftQueue
    <2> QED
      BY <2>2, <2>3, <2>4 DEF IInv
  <1>6. CASE UNCHANGED vars
    BY <1>6 DEF vars, IInv, TypeOK, QueueAccounting, Pairing, NoOrphanReply,
                AuthGoesFirst, AuthLeftQueue, Outstanding, RequestAt
  <1> QED
    BY <1>1, <1>2, <1>3, <1>4, <1>5, <1>6 DEF Next

\* cmdQueue_ never holds more than its ring takes, and no flag or stream leaves
\* its type, for every number of sessions and every ConnSendBufferCount.
THEOREM TypeCorrect == Spec => []TypeOK
  <1>1. IInv => TypeOK
    BY DEF IInv
  <1> QED
    BY <1>1, InitIInv, NextIInv, PTL DEF Spec

\* One queued reader per request sent, at every moment the link is up.
THEOREM QueueAccounted == Spec => []QueueAccounting
  <1>1. IInv => QueueAccounting
    BY DEF IInv
  <1> QED
    BY <1>1, InitIInv, NextIInv, PTL DEF Spec

\* Each reply goes to the session that asked for it, as long as the link is up
\* and Redis ignored no command on it.
THEOREM RepliesPaired == Spec => []Pairing
  <1>1. IInv => Pairing
    BY DEF IInv
  <1> QED
    BY <1>1, InitIInv, NextIInv, PTL DEF Spec

\* The "expected bug" branch of OnServerRead (upstream.cpp:211-214) is dead.
THEOREM NoReplyIsOrphan == Spec => []NoOrphanReply
  <1>1. IInv => NoOrphanReply
    BY DEF IInv
  <1> QED
    BY <1>1, InitIInv, NextIInv, PTL DEF Spec

\* Nothing but AUTH is sent before the server accepted it.
THEOREM AuthFirst == Spec => []AuthGoesFirst
  <1>1. IInv => AuthGoesFirst
    BY DEF IInv
  <1> QED
    BY <1>1, InitIInv, NextIInv, PTL DEF Spec

================================================================================
