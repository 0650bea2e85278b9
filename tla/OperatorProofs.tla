------------------------------ MODULE OperatorProofs ------------------------------
(***************************************************************************)
(* Lemmas about the modules without variables, Connection, Session, Buffer *)
(* and Parser, for every value of their constants: what each of their      *)
(* operators keeps.  The theorems about the modules that run these         *)
(* operators rest on them.  The last part is about sequences, and about a  *)
(* parse of a client's request: what it reads, cuts and shows.             *)
(***************************************************************************)
EXTENDS Connection, Session, Parser, TLAPS, SequenceTheorems, FiniteSetTheorems,
        WellFoundedInduction

(* Induction, for what recursive functions compute turn by turn. *)

LEMMA Least ==
  ASSUME NEW S, S \subseteq Nat, S # {}
  PROVE  \E m \in S : \A k \in S : m <= k
  <1> DEFINE R == {ss \in Nat \X Nat : ss[1] < ss[2]}
  <1> HIDE DEF R
  <1>1. OpToRel(<, Nat) = R
    BY DEF OpToRel, R
  <1>2. IsWellFoundedOn(R, Nat)
    BY <1>1, NatLessThanWellFounded
  <1>3. PICK m \in S : \A k \in S : <<k, m>> \notin R
    BY <1>2, WFMin
  <1>4. ASSUME NEW k \in S PROVE m <= k
    <2>1. k \in Nat /\ m \in Nat
      OBVIOUS
    <2>2. k < m => <<k, m>> \in R
      BY <2>1, Zenon DEF R
    <2> QED BY <1>3, <2>1, <2>2
  <1> QED BY <1>4

LEMMA SetInduction ==
  ASSUME NEW S, 0 \in S, \A n \in Nat : n \in S => n + 1 \in S
  PROVE  Nat \subseteq S
  <1> SUFFICES ASSUME Nat \ S # {} PROVE FALSE
    OBVIOUS
  <1>1. PICK m \in Nat \ S : \A k \in Nat \ S : m <= k
    BY Least
  <1>2. m - 1 \in Nat /\ (m - 1) + 1 = m /\ ~(m <= m - 1)
    <2>1. m # 0 /\ m \in Nat
      OBVIOUS
    <2> QED BY <2>1
  <1>3. m - 1 \in S
    BY <1>1, <1>2
  <1> QED BY <1>2, <1>3

StepsBy(f, v, n, G) == f[0] = v /\ \A k \in 1..n : f[k] = G[<<k, f[k - 1]>>]

\* There is a function that starts at v and is stepped by G.
LEMMA Stepped ==
  ASSUME NEW V, NEW v \in V, NEW n \in Nat, NEW G \in [(1..n) \X V -> V]
  PROVE  \E f \in [0..n -> V] : StepsBy(f, v, n, G)
  <1> DEFINE Right(f, m) == f[0] = v /\ \A k \in 1..m : f[k] = G[<<k, f[k - 1]>>]
             S == {m \in Nat : m <= n => \E f \in [0..m -> V] : Right(f, m)}
  <1>1. 0 \in S
    <2>1. Right([k \in 0..0 |-> v], 0) /\ [k \in 0..0 |-> v] \in [0..0 -> V]
      OBVIOUS
    <2> QED BY <2>1
  <1>2. ASSUME NEW m \in Nat, m \in S PROVE m + 1 \in S
    <2> SUFFICES ASSUME m + 1 <= n
                 PROVE  \E f \in [0..(m + 1) -> V] : Right(f, m + 1)
      OBVIOUS
    <2>1. PICK g \in [0..m -> V] : Right(g, m)
      BY <1>2
    <2> DEFINE h == [k \in 0..(m + 1) |-> IF k = m + 1 THEN G[<<m + 1, g[m]>>] ELSE g[k]]
    <2>2. <<m + 1, g[m]>> \in (1..n) \X V
      OBVIOUS
    <2>3. G[<<m + 1, g[m]>>] \in V
      BY <2>2
    <2>4. h \in [0..(m + 1) -> V]
      BY <2>3
    <2>5. h[0] = v
      BY <2>1
    <2>6. ASSUME NEW k \in 1..(m + 1) PROVE h[k] = G[<<k, h[k - 1]>>]
      <3>1. CASE k = m + 1
        <4>1. h[m + 1] = G[<<m + 1, g[m]>>] /\ h[m] = g[m] /\ k - 1 = m
          BY <3>1
        <4> QED BY <3>1, <4>1
      <3>2. CASE k # m + 1
        <4>1. k \in 1..m /\ k - 1 \in 0..m /\ k - 1 # m + 1
          BY <3>2
        <4> QED BY <2>1, <3>2, <4>1
      <3> QED BY <3>1, <3>2
    <2> QED BY <2>4, <2>5, <2>6
  <1> HIDE DEF S
  <1>3. n \in S
    BY <1>1, <1>2, SetInduction
  <1> QED BY <1>3 DEF S, StepsBy

\* A function that is stepped from 0 to n is in V all the way.
LEMMA Invariance ==
  ASSUME NEW n \in Nat, NEW V, NEW f, f[0] \in V,
         \A k \in 1..n : f[k - 1] \in V => f[k] \in V
  PROVE  \A k \in 0..n : f[k] \in V
  <1> DEFINE S == {k \in Nat : k <= n => f[k] \in V}
  <1>1. 0 \in S
    OBVIOUS
  <1>2. ASSUME NEW k \in Nat, k \in S PROVE k + 1 \in S
    <2>1. CASE k + 1 <= n
      <3>1. k + 1 \in 1..n /\ (k + 1) - 1 = k /\ k <= n
        BY <2>1
      <3> QED BY <1>2, <3>1
    <2>2. CASE ~(k + 1 <= n)
      BY <2>2
    <2> QED BY <2>1, <2>2
  <1> HIDE DEF S
  <1>3. Nat \subseteq S
    BY <1>1, <1>2, SetInduction
  <1> QED BY <1>3 DEF S

\* What each step keeps holds after the last.
LEMMA StepInvariance ==
  ASSUME NEW n \in Nat, NEW W, NEW f, <<0, f[0]>> \in W,
         \A k \in 1..n : <<k - 1, f[k - 1]>> \in W => <<k, f[k]>> \in W
  PROVE  <<n, f[n]>> \in W
  <1> DEFINE S == {k \in Nat : k <= n => <<k, f[k]>> \in W}
  <1>1. 0 \in S
    OBVIOUS
  <1>2. ASSUME NEW k \in Nat, k \in S PROVE k + 1 \in S
    <2>1. CASE k + 1 <= n
      <3>1. k + 1 \in 1..n /\ (k + 1) - 1 = k /\ k <= n
        BY <2>1
      <3> QED BY <1>2, <3>1
    <2>2. CASE ~(k + 1 <= n)
      BY <2>2
    <2> QED BY <2>1, <2>2
  <1> HIDE DEF S
  <1>3. Nat \subseteq S
    BY <1>1, <1>2, SetInduction
  <1>4. n <= n
    OBVIOUS
  <1> QED BY <1>3, <1>4 DEF S

--------------------------------------------------------------------------------
(* Connection: the list of nodes. *)


\* The positions on the list w that the object at a owns.
OwnAt(w, a) == {i \in 1..Len(w) : w[i] = OwnNode(a)}

\* The list v has for every object but the one at a what the list w had.
OthersKept(w, v, a) ==
  \A b \in Addrs \ {a} :
     /\ OwnAt(w, b) = {} => OwnAt(v, b) = {}
     /\ \A i : OwnAt(w, b) = {i} => \E j : OwnAt(v, b) = {j}

LEMMA SameIsKept ==
  ASSUME NEW w, NEW v, NEW a, \A b \in Addrs \ {a} : OwnAt(v, b) = OwnAt(w, b)
  PROVE  OthersKept(w, v, a)
  BY Zenon DEF OthersKept

LEMMA OwnNodeTyped == ASSUME NEW a \in Addrs PROVE OwnNode(a) \in Node
  BY DEF OwnNode, Node

LEMMA OwnNodeInjective ==
  ASSUME NEW a, NEW b, a # b PROVE OwnNode(a) # OwnNode(b)
  BY DEF OwnNode

LEMMA Concatenation ==
  ASSUME NEW S, NEW s \in Seq(S), NEW t \in Seq(S)
  PROVE  /\ s \o t \in Seq(S)
         /\ Len(s \o t) = Len(s) + Len(t)
         /\ \A j \in 1..Len(s) : (s \o t)[j] = s[j]
         /\ \A j \in (Len(s) + 1)..(Len(s) + Len(t)) : (s \o t)[j] = t[j - Len(s)]
  OBVIOUS

LEMMA AppendNode ==
  ASSUME NEW w \in Seq(Node), NEW x \in Node
  PROVE  /\ Append(w, x) \in Seq(Node)
         /\ Len(Append(w, x)) = Len(w) + 1
         /\ Len(w) \in Nat
         /\ \A i \in 1..Len(w) : Append(w, x)[i] = w[i]
         /\ Append(w, x)[Len(w) + 1] = x
  OBVIOUS

LEMMA AppendOwn ==
  ASSUME NEW w \in Seq(Node), NEW a \in Addrs
  PROVE  /\ OwnAt(Append(w, OwnNode(a)), a) = OwnAt(w, a) \union {Len(w) + 1}
         /\ \A b \in Addrs \ {a} : OwnAt(Append(w, OwnNode(a)), b) = OwnAt(w, b)
  <1>1. /\ Len(Append(w, OwnNode(a))) = Len(w) + 1
        /\ Len(w) \in Nat
        /\ \A i \in 1..Len(w) : Append(w, OwnNode(a))[i] = w[i]
        /\ Append(w, OwnNode(a))[Len(w) + 1] = OwnNode(a)
    BY OwnNodeTyped, AppendNode
  <1>2. \A b \in Addrs \ {a} : OwnNode(a) # OwnNode(b)
    BY OwnNodeInjective
  <1> QED
    BY <1>1, <1>2 DEF OwnAt

LEMMA EraseNode ==
  ASSUME NEW w \in Seq(Node), NEW i \in 1..Len(w)
  PROVE  /\ Erase(w, i) \in Seq(Node)
         /\ Len(Erase(w, i)) = Len(w) - 1
         /\ Len(w) \in Nat
         /\ \A j \in 1..(Len(w) - 1) :
              Erase(w, i)[j] = IF j < i THEN w[j] ELSE w[j + 1]
  <1> DEFINE l == SubSeq(w, 1, i - 1)
             r == SubSeq(w, i + 1, Len(w))
  <1>0. Len(w) \in Nat
    OBVIOUS
  <1>1. /\ l \in Seq(Node) /\ Len(l) = i - 1
        /\ \A j \in 1..(i - 1) : l[j] = w[j]
    BY <1>0
  <1>2. /\ r \in Seq(Node) /\ Len(r) = Len(w) - i
        /\ \A j \in 1..(Len(w) - i) : r[j] = w[i + j]
    BY <1>0
  <1> HIDE DEF l, r
  <1>3. /\ l \o r \in Seq(Node)
        /\ Len(l \o r) = Len(l) + Len(r)
        /\ \A j \in 1..Len(l) : (l \o r)[j] = l[j]
        /\ \A j \in (Len(l) + 1)..(Len(l) + Len(r)) : (l \o r)[j] = r[j - Len(l)]
    BY <1>1, <1>2, Concatenation
  <1>4. ASSUME NEW j \in 1..(Len(w) - 1)
        PROVE  (l \o r)[j] = IF j < i THEN w[j] ELSE w[j + 1]
    <2>1. CASE j < i
      <3>1. j \in 1..(i - 1) /\ i - 1 = Len(l)
        BY <2>1, <1>0, <1>1
      <3>2. (l \o r)[j] = l[j] /\ l[j] = w[j]
        BY <3>1, <1>1, <1>3
      <3> QED BY <2>1, <3>2
    <2>2. CASE ~(j < i)
      <3>1. /\ j - Len(l) \in 1..(Len(w) - i)
            /\ i + (j - Len(l)) = j + 1
            /\ j \in (Len(l) + 1)..(Len(l) + Len(r))
        BY <2>2, <1>0, <1>1, <1>2
      <3>2. (l \o r)[j] = r[j - Len(l)]
        BY <3>1, <1>3
      <3>3. r[j - Len(l)] = w[i + (j - Len(l))]
        BY <3>1, <1>2
      <3>4. (l \o r)[j] = w[j + 1]
        BY <3>1, <3>2, <3>3
      <3> QED BY <2>2, <3>4
    <2> QED BY <2>1, <2>2
  <1>6. Len(l \o r) = Len(w) - 1
    BY <1>0, <1>1, <1>2, <1>3
  <1>5. Erase(w, i) = l \o r
    BY DEF Erase, l, r
  <1> QED
    BY <1>0, <1>3, <1>4, <1>5, <1>6

LEMMA EraseOwn ==
  ASSUME NEW w \in Seq(Node), NEW a \in Addrs, NEW i \in 1..Len(w), OwnAt(w, a) = {i}
  PROVE  /\ OwnAt(Erase(w, i), a) = {}
         /\ OthersKept(w, Erase(w, i), a)
  <1> DEFINE e == Erase(w, i)
  <1>1. /\ Len(e) = Len(w) - 1 /\ Len(w) \in Nat
        /\ \A j \in 1..(Len(w) - 1) : e[j] = IF j < i THEN w[j] ELSE w[j + 1]
    BY EraseNode
  <1> HIDE DEF e
  <1>2. OwnAt(e, a) = {}
    <2>1. i \in 1..Len(w) /\ \A j \in 1..Len(w) : w[j] = OwnNode(a) => j = i
      BY DEF OwnAt
    <2>2. ASSUME NEW j \in 1..Len(e) PROVE e[j] # OwnNode(a)
      <3>1. j \in 1..(Len(w) - 1) /\ j \in 1..Len(w) /\ j + 1 \in 1..Len(w)
        BY <1>1
      <3>2. CASE j < i
        BY <1>1, <2>1, <3>1, <3>2
      <3>3. CASE ~(j < i)
        <4>1. j + 1 # i /\ e[j] = w[j + 1]
          BY <1>1, <2>1, <3>1, <3>3
        <4> QED BY <2>1, <3>1, <4>1
      <3> QED BY <3>2, <3>3
    <2> QED BY <2>2 DEF OwnAt
  <1>3. ASSUME NEW b \in Addrs \ {a}, OwnAt(w, b) = {}
        PROVE  OwnAt(e, b) = {}
    <2>1. \A j \in 1..Len(w) : w[j] # OwnNode(b)
      BY <1>3 DEF OwnAt
    <2>2. ASSUME NEW j \in 1..Len(e) PROVE e[j] # OwnNode(b)
      <3>1. j \in 1..(Len(w) - 1) /\ j \in 1..Len(w) /\ j + 1 \in 1..Len(w)
        BY <1>1
      <3> QED BY <1>1, <2>1, <3>1
    <2> QED BY <2>2 DEF OwnAt
  <1>4. ASSUME NEW b \in Addrs \ {a}, NEW k, OwnAt(w, b) = {k}
        PROVE  \E m : OwnAt(e, b) = {m}
    <2>1. /\ k \in 1..Len(w) /\ w[k] = OwnNode(b)
          /\ \A j \in 1..Len(w) : w[j] = OwnNode(b) => j = k
      BY <1>4 DEF OwnAt
    <2>2. w[i] = OwnNode(a)
      BY DEF OwnAt
    <2>3. k # i
      BY <2>1, <2>2, OwnNodeInjective
    <2>4. CASE k < i
      <3>1. OwnAt(e, b) = {k}
        BY <1>1, <2>1, <2>4 DEF OwnAt
      <3> QED BY <3>1
    <2>5. CASE ~(k < i)
      <3>1. k - 1 \in 1..(Len(w) - 1) /\ ~(k - 1 < i)
        BY <1>1, <2>1, <2>3, <2>5
      <3>2. OwnAt(e, b) = {k - 1}
        <4>1. k - 1 \in 1..Len(e) /\ e[k - 1] = OwnNode(b)
          <5>1. e[k - 1] = w[(k - 1) + 1] /\ (k - 1) + 1 = k
            BY <1>1, <2>1, <3>1
          <5> QED BY <1>1, <2>1, <3>1, <5>1
        <4>2. ASSUME NEW j \in 1..Len(e), e[j] = OwnNode(b) PROVE j = k - 1
          <5>1. j \in 1..(Len(w) - 1) /\ j \in 1..Len(w) /\ j + 1 \in 1..Len(w)
            BY <1>1
          <5>2. CASE j < i
            BY <1>1, <2>1, <2>5, <4>2, <5>1, <5>2
          <5>3. CASE ~(j < i)
            <6>1. w[j + 1] = OwnNode(b)
              BY <1>1, <4>2, <5>1, <5>3
            <6>2. j + 1 = k
              BY <2>1, <5>1, <6>1
            <6> QED BY <2>1, <5>1, <6>2
          <5> QED BY <5>2, <5>3
        <4> QED BY <4>1, <4>2 DEF OwnAt
      <3> QED BY <3>2
    <2> QED BY <2>4, <2>5
  <1> QED
    BY <1>2, <1>3, <1>4 DEF OthersKept, e

LEMMA DisownOwn ==
  ASSUME NEW w \in Seq(Node), NEW a \in Addrs
  PROVE  /\ Disown(w, a) \in Seq(Node)
         /\ Len(Disown(w, a)) = Len(w)
         /\ OwnAt(Disown(w, a), a) = {}
         /\ \A b \in Addrs \ {a} : OwnAt(Disown(w, a), b) = OwnAt(w, b)
  <1>0. Len(w) \in Nat /\ \A i \in 1..Len(w) : w[i] \in Node
    OBVIOUS
  <1>1. \A i \in 1..Len(w) : [to |-> a, own |-> FALSE] \in Node
    BY DEF Node
  <1>2. /\ Disown(w, a) \in Seq(Node)
        /\ Len(Disown(w, a)) = Len(w)
        /\ \A i \in 1..Len(w) :
             Disown(w, a)[i] = IF w[i].to = a THEN [to |-> a, own |-> FALSE] ELSE w[i]
    <2> DEFINE x(i) == IF w[i].to = a THEN [to |-> a, own |-> FALSE] ELSE w[i]
    <2>1. \A i \in 1..Len(w) : x(i) \in Node
      BY <1>0, <1>1
    <2>2. Disown(w, a) = [i \in 1..Len(w) |-> x(i)]
      BY DEF Disown
    <2> HIDE DEF x
    <2>3. /\ [i \in 1..Len(w) |-> x(i)] \in Seq(Node)
          /\ Len([i \in 1..Len(w) |-> x(i)]) = Len(w)
      BY <1>0, <2>1
    <2>4. \A i \in 1..Len(w) : [j \in 1..Len(w) |-> x(j)][i] = x(i)
      OBVIOUS
    <2> QED BY <2>2, <2>3, <2>4 DEF x
  <1>3. OwnNode(a).to = a /\ OwnNode(a) # [to |-> a, own |-> FALSE]
    BY DEF OwnNode
  <1>4. \A b \in Addrs \ {a} : OwnNode(b).to = b /\ OwnNode(b) # [to |-> a, own |-> FALSE]
    BY DEF OwnNode
  <1> QED
    BY <1>0, <1>2, <1>3, <1>4 DEF OwnAt

--------------------------------------------------------------------------------
(* Networks. *)

\* What every call keeps: the types, and for each object its place on the list, its
\* bit and its buffer in agreement.
Coherent(n) == /\ n \in Network
               /\ \A a \in Addrs : ListMatchesBit(n, a)
               /\ \A a \in Addrs : OutputScheduled(n, a)

\* The list v is right for the object o at a.
ListedAs(v, o, a) ==
  IF o.state = "live" /\ "OUT" \in o.events
  THEN \E i : OwnAt(v, a) = {i}
  ELSE OwnAt(v, a) = {}

Scheduled(o) == o.state = "live" /\ o.send # <<>> /\ ~o.gone => "OUT" \in o.events

Placed(n, a, o, w) == [mem |-> [n.mem EXCEPT ![a] = o], writers |-> w]

LEMMA ListedIsMatched ==
  ASSUME NEW n, NEW a
  PROVE  /\ ListMatchesBit(n, a) <=> ListedAs(n.writers, n.mem[a], a)
         /\ OutputScheduled(n, a) <=> Scheduled(n.mem[a])
  <1>1. OwnNodes(n, a) = OwnAt(n.writers, a)
    BY DEF OwnNodes, OwnAt
  <1>2. \A i : OwnAt(n.writers, a) = {i} => i \in 1..Len(n.writers)
    BY DEF OwnAt
  <1>3. ListMatchesBit(n, a) <=> ListedAs(n.writers, n.mem[a], a)
    BY <1>1, <1>2 DEF ListMatchesBit, ListedAs, Live
  <1> QED
    BY <1>3 DEF OutputScheduled, Scheduled, Live

\* A call on the object at a is right if it is right at a and keeps the others.
LEMMA OneCall ==
  ASSUME NEW n, Coherent(n), NEW a \in Addrs, NEW o \in Object, NEW w \in Seq(Node),
         OthersKept(n.writers, w, a), ListedAs(w, o, a), Scheduled(o)
  PROVE  Coherent(Placed(n, a, o, w))
  <1> DEFINE m == Placed(n, a, o, w)
  <1>1. m \in Network /\ m.writers = w /\ m.mem[a] = o
        /\ \A b \in Addrs \ {a} : m.mem[b] = n.mem[b]
    BY DEF Coherent, Network, Placed
  <1> HIDE DEF m
  <1>2. ASSUME NEW b \in Addrs PROVE ListMatchesBit(m, b) /\ OutputScheduled(m, b)
    <2>1. CASE b = a
      BY <1>1, <2>1, ListedIsMatched
    <2>2. CASE b # a
      <3>1. ListedAs(n.writers, n.mem[b], b) /\ Scheduled(n.mem[b])
        BY ListedIsMatched DEF Coherent
      <3>2. ListedAs(w, n.mem[b], b)
        BY <2>2, <3>1 DEF ListedAs, OthersKept
      <3> QED BY <1>1, <2>2, <3>1, <3>2, ListedIsMatched
    <2> QED BY <2>1, <2>2
  <1> QED
    BY <1>1, <1>2 DEF Coherent, m

LEMMA CoherentTyped ==
  ASSUME NEW n, Coherent(n), NEW a \in Addrs
  PROVE  /\ n.mem \in [Addrs -> Object] /\ n.writers \in Seq(Node)
         /\ n = [mem |-> n.mem, writers |-> n.writers]
         /\ n.mem[a] \in Object
         /\ ListedAs(n.writers, n.mem[a], a) /\ Scheduled(n.mem[a])
         /\ OthersKept(n.writers, n.writers, a)
  <1>1. ListedAs(n.writers, n.mem[a], a) /\ Scheduled(n.mem[a])
    BY ListedIsMatched DEF Coherent
  <1>2. OthersKept(n.writers, n.writers, a)
    BY DEF OthersKept
  <1> QED
    BY <1>1, <1>2 DEF Coherent, Network

WithOut(o, flag) ==
  [o EXCEPT !.events = IF flag THEN @ \union {"OUT"} ELSE @ \ {"OUT"}]

\* w is the list without the node of the object at a, the only one it owns.
OwnErased(n, a, w) ==
  LET i == ListPos(n, a) IN
  /\ i \in 1..Len(n.writers)
  /\ \A j \in 1..Len(n.writers) : n.writers[j] = OwnNode(a) => j = i
  /\ w = Erase(n.writers, i) /\ Len(w) = Len(n.writers) - 1

\* SetWritable changes the bit and the list together; it takes away one node at most,
\* the one writeListPos names.
LEMMA WritablePlaces ==
  ASSUME NEW n \in Network, NEW a \in Addrs, NEW flag \in BOOLEAN,
         Live(n, a), ListedAs(n.writers, n.mem[a], a)
  PROVE  \E w \in Seq(Node) :
           /\ SetWritable(n, a, flag) = Placed(n, a, WithOut(n.mem[a], flag), w)
           /\ OthersKept(n.writers, w, a)
           /\ ListedAs(w, WithOut(n.mem[a], flag), a)
           /\ ~flag => Len(w) = Len(n.writers) \/ OwnErased(n, a, w)
  <1> DEFINE o == n.mem[a]
             p == WithOut(o, flag)
  <1>0. /\ n.mem \in [Addrs -> Object] /\ n.writers \in Seq(Node) /\ Len(n.writers) \in Nat
        /\ n = [mem |-> n.mem, writers |-> n.writers]
        /\ o \in Object /\ o.state = "live" /\ o.events \in SUBSET Bits
    BY DEF Network, Live, Object
  <1>1. /\ p \in Object /\ p.state = "live"
        /\ p.events = IF flag THEN o.events \union {"OUT"} ELSE o.events \ {"OUT"}
    BY <1>0 DEF WithOut, Object, Bits
  <1>2. CASE flag = ("OUT" \in o.events)
    <2>1. p.events = o.events
      BY <1>1, <1>2
    <2>2. p = o
      BY <1>0, <2>1 DEF WithOut, Object
    <2>3. SetWritable(n, a, flag) = n
      BY <1>2 DEF SetWritable
    <2>4. n = Placed(n, a, p, n.writers)
      BY <1>0, <2>2 DEF Placed
    <2>5. OthersKept(n.writers, n.writers, a)
      BY DEF OthersKept
    <2> QED BY <1>0, <2>2, <2>3, <2>4, <2>5
  <1>3. CASE flag /\ "OUT" \notin o.events
    <2> DEFINE w == Append(n.writers, OwnNode(a))
    <2>1. SetWritable(n, a, flag) = Placed(n, a, p, w)
      BY <1>0, <1>3 DEF SetWritable, Placed, WithOut
    <2>2. /\ w \in Seq(Node) /\ OwnAt(w, a) = OwnAt(n.writers, a) \union {Len(n.writers) + 1}
          /\ \A b \in Addrs \ {a} : OwnAt(w, b) = OwnAt(n.writers, b)
      BY <1>0, AppendOwn, AppendNode, OwnNodeTyped
    <2>3. OwnAt(n.writers, a) = {}
      BY <1>0, <1>3 DEF ListedAs
    <2>4. OthersKept(n.writers, w, a)
      BY <2>2 DEF OthersKept
    <2>5. ListedAs(w, p, a)
      BY <1>1, <1>3, <2>2, <2>3 DEF ListedAs
    <2> QED BY <1>3, <2>1, <2>2, <2>4, <2>5
  <1>4. CASE ~flag /\ "OUT" \in o.events
    <2>1. PICK i : OwnAt(n.writers, a) = {i}
      BY <1>0, <1>4 DEF ListedAs
    <2>2. i \in 1..Len(n.writers) /\ n.writers[i] = OwnNode(a)
          /\ \A j \in 1..Len(n.writers) : n.writers[j] = OwnNode(a) => j = i
      BY <2>1 DEF OwnAt
    <2>3. ListPos(n, a) = i
      BY <2>2 DEF ListPos
    <2> DEFINE w == Erase(n.writers, i)
    <2>4. SetWritable(n, a, flag) = Placed(n, a, p, w)
      BY <1>0, <1>4, <2>3 DEF SetWritable, Placed, WithOut
    <2>5. w \in Seq(Node) /\ Len(w) = Len(n.writers) - 1
      BY <1>0, <2>2, EraseNode
    <2>6. n.writers \in Seq(Node) /\ i \in 1..Len(n.writers)
      BY <1>0, <2>2
    <2>7. OwnAt(w, a) = {} /\ OthersKept(n.writers, w, a)
      BY <2>1, <2>6, EraseOwn
    <2>8. ListedAs(w, p, a)
      BY <1>1, <1>4, <2>7 DEF ListedAs
    <2>9. OwnErased(n, a, w)
      BY <2>2, <2>3, <2>5 DEF OwnErased
    <2> QED BY <2>4, <2>5, <2>7, <2>8, <2>9
  <1> QED
    BY <1>2, <1>3, <1>4

LEMMA EmptyNetworkCoherent ==
  Coherent(EmptyNetwork) /\ \A a \in Addrs : ~Live(EmptyNetwork, a)
  <1>1. Unused \in Object /\ Unused.state = "unused"
    BY DEF Unused, Object, Bits
  <1>2. /\ EmptyNetwork \in Network /\ EmptyNetwork.writers = <<>>
        /\ \A a \in Addrs : EmptyNetwork.mem[a] = Unused
    BY <1>1 DEF EmptyNetwork, Network
  <1>3. \A a \in Addrs : OwnAt(<<>>, a) = {}
    BY DEF OwnAt
  <1>4. \A a \in Addrs : /\ ListMatchesBit(EmptyNetwork, a)
                         /\ OutputScheduled(EmptyNetwork, a)
    BY <1>1, <1>2, <1>3, ListedIsMatched DEF ListedAs, Scheduled
  <1> QED
    BY <1>1, <1>2, <1>4 DEF Coherent, Live

\* A call that leaves the list alone and changes neither the bit nor what waits.
LEMMA ListUntouched ==
  ASSUME NEW n, Coherent(n), NEW a \in Addrs, NEW o \in Object,
         ListedAs(n.writers, o, a), Scheduled(o)
  PROVE  Coherent(Update(n, a, o))
  <1>1. Update(n, a, o) = Placed(n, a, o, n.writers)
    BY DEF Update, Placed, Coherent, Network
  <1> QED
    BY <1>1, CoherentTyped, OneCall

LEMMA UnattachedCoherent ==
  ASSUME NEW n, Coherent(n), NEW a \in Addrs, ~Live(n, a), NEW p \in Peers
  PROVE  /\ Coherent(Update(n, a, Unattached(p)))
         /\ Live(Update(n, a, Unattached(p)), a)
  <1>1. /\ Unattached(p) \in Object /\ Unattached(p).events = {"IN"}
        /\ Unattached(p).send = <<>> /\ Unattached(p).state = "live"
    BY DEF Unattached, Connected, Object, Bits
  <1>2. OwnAt(n.writers, a) = {}
    BY CoherentTyped DEF ListedAs, Live
  <1>3. Coherent(Update(n, a, Unattached(p)))
    BY <1>1, <1>2, ListUntouched DEF ListedAs, Scheduled
  <1>4. n.mem \in [Addrs -> Object]
    BY CoherentTyped
  <1> QED
    BY <1>1, <1>3, <1>4 DEF Update, Live

LEMMA NewObjectCoherent ==
  ASSUME NEW n, Coherent(n), NEW a \in Addrs, ~Live(n, a), NEW p \in Peers
  PROVE  Coherent(Update(n, a, NewObject(p)))
  <1>1. /\ NewObject(p) \in Object /\ NewObject(p).events = {"IN"}
        /\ NewObject(p).send = <<>>
    BY DEF NewObject, Connected, Object, Bits
  <1>2. OwnAt(n.writers, a) = {}
    BY CoherentTyped DEF ListedAs, Live
  <1> QED
    BY <1>1, <1>2, ListUntouched DEF ListedAs, Scheduled

LEMMA NotifyKeepsOut ==
  ASSUME NEW o \in Object, NEW flag \in BOOLEAN
  PROVE  /\ OperateNotify(o, flag) \in Object
         /\ OperateNotify(o, flag).state = o.state
         /\ OperateNotify(o, flag).send = o.send
         /\ OperateNotify(o, flag).gone = o.gone
         /\ "OUT" \in OperateNotify(o, flag).events <=> "OUT" \in o.events
  <1> DEFINE want == IF flag THEN o.events \union {"IN"} ELSE o.events \ {"IN"}
             op == IF want = {} THEN "DEL" ELSE IF o.events = {} THEN "ADD" ELSE "MOD"
  <1>1. want \in SUBSET Bits /\ o.watch \in SUBSET Bits /\ op \in {"DEL", "ADD", "MOD"}
    BY DEF Object, Bits
  <1>2. EpollCtl(op, o.watch, want) \in SUBSET Bits
    BY <1>1 DEF EpollCtl
  <1>3. "OUT" \in want <=> "OUT" \in o.events
    OBVIOUS
  <1>4. OperateNotify(o, flag) =
          IF want = o.events THEN o
          ELSE [o EXCEPT !.events = want, !.watch = EpollCtl(op, o.watch, want)]
    BY DEF OperateNotify
  <1> HIDE DEF want, op
  <1> QED
    BY <1>1, <1>2, <1>3, <1>4 DEF Object

\* SetReadable: the registration changes, the bit and the list do not.
LEMMA SetReadableCoherent ==
  ASSUME NEW n, Coherent(n), NEW a \in Addrs, NEW flag \in BOOLEAN
  PROVE  Coherent(SetReadable(n, a, flag))
  <1> DEFINE o == OperateNotify(n.mem[a], flag)
  <1>1. /\ o \in Object /\ o.state = n.mem[a].state /\ o.send = n.mem[a].send
        /\ o.gone = n.mem[a].gone /\ ("OUT" \in o.events <=> "OUT" \in n.mem[a].events)
    BY CoherentTyped, NotifyKeepsOut
  <1>2. ListedAs(n.writers, o, a) /\ Scheduled(o)
    BY <1>1, CoherentTyped DEF ListedAs, Scheduled
  <1> QED
    BY <1>1, <1>2, ListUntouched DEF SetReadable

\* The remote end goes away.
LEMMA GoneCoherent ==
  ASSUME NEW n, Coherent(n), NEW a \in Addrs
  PROVE  Coherent([n EXCEPT !.mem[a].gone = TRUE])
  <1> DEFINE o == [n.mem[a] EXCEPT !.gone = TRUE]
  <1>0. n.mem[a] \in Object
    BY CoherentTyped
  <1>1. o \in Object /\ o.gone /\ o.state = n.mem[a].state /\ o.events = n.mem[a].events
    BY <1>0 DEF Object
  <1>2. ListedAs(n.writers, o, a) /\ Scheduled(o)
    BY <1>1, CoherentTyped DEF ListedAs, Scheduled
  <1>3. [n EXCEPT !.mem[a].gone = TRUE] = Update(n, a, o)
    BY CoherentTyped DEF Update
  <1> QED
    BY <1>1, <1>2, <1>3, ListUntouched

LEMMA ClosingCoherent ==
  ASSUME NEW n, Coherent(n), NEW a \in Addrs
  PROVE  Coherent([n EXCEPT !.mem[a].closing = TRUE])
  <1> DEFINE o == [n.mem[a] EXCEPT !.closing = TRUE]
  <1>0. n.mem[a] \in Object
    BY CoherentTyped
  <1>1. /\ o \in Object /\ o.state = n.mem[a].state /\ o.events = n.mem[a].events
        /\ o.send = n.mem[a].send /\ o.gone = n.mem[a].gone
    BY <1>0 DEF Object
  <1>2. ListedAs(n.writers, o, a) /\ Scheduled(o)
    BY <1>1, CoherentTyped DEF ListedAs, Scheduled
  <1>3. [n EXCEPT !.mem[a].closing = TRUE] = Update(n, a, o)
    BY CoherentTyped DEF Update
  <1> QED
    BY <1>1, <1>2, <1>3, ListUntouched

LEMMA WithOutTyped ==
  ASSUME NEW o \in Object, NEW flag \in BOOLEAN
  PROVE  LET p == WithOut(o, flag) IN
         /\ p \in Object /\ p.state = o.state /\ p.send = o.send /\ p.gone = o.gone
         /\ "OUT" \in p.events <=> flag
  BY DEF WithOut, Object, Bits

\* Bytes appended to a live connection wait on the list; those for freed memory are
\* lost, and no object owns the node they leave.
LEMMA WriteToBufferCoherent ==
  ASSUME NEW n, Coherent(n), NEW a \in Addrs, NEW items \in Seq(Items)
  PROVE  Coherent(WriteToBuffer(n, a, items))
  <1> DEFINE p == WithOut(n.mem[a], TRUE)
  <1>1. /\ n \in Network /\ n.mem \in [Addrs -> Object] /\ n.mem[a] \in Object
        /\ n.writers \in Seq(Node)
        /\ ListedAs(n.writers, n.mem[a], a)
    BY CoherentTyped DEF Coherent
  <1>2. p \in Object /\ p.state = n.mem[a].state /\ "OUT" \in p.events
    BY <1>1, WithOutTyped
  <1>3. CASE Live(n, a)
    <2>1. PICK w \in Seq(Node) : /\ SetWritable(n, a, TRUE) = Placed(n, a, p, w)
                                 /\ OthersKept(n.writers, w, a)
                                 /\ ListedAs(w, p, a)
      BY <1>1, <1>3, WritablePlaces
    <2> DEFINE o == [p EXCEPT !.send = @ \o items]
    <2>2. /\ o \in Object /\ o.state = p.state /\ o.events = p.events
      <3> HIDE DEF p
      <3>1. p.send \in Seq(Items)
        BY <1>2 DEF Object
      <3>2. p.send \o items \in Seq(Items)
        BY <3>1, Concatenation
      <3> QED BY <1>2, <3>2 DEF Object
    <2>3. ListedAs(w, o, a) /\ Scheduled(o)
      BY <1>2, <2>1, <2>2 DEF ListedAs, Scheduled
    <2>4. WriteToBuffer(n, a, items) = Placed(n, a, o, w)
      <3> HIDE DEF p
      <3>1. WriteToBuffer(n, a, items) = [Placed(n, a, p, w) EXCEPT !.mem[a].send = @ \o items]
        BY <1>3, <2>1 DEF WriteToBuffer
      <3> QED BY <1>1, <3>1 DEF Placed
    <2> QED BY <2>1, <2>2, <2>3, <2>4, OneCall
  <1>4. CASE ~Live(n, a)
    <2>1. PICK q \in Object, w \in Seq(Node) :
             /\ SetWritable(n, a, TRUE) = Placed(n, a, q, w)
             /\ q.state = n.mem[a].state
             /\ \A b \in Addrs \ {a} : OwnAt(w, b) = OwnAt(n.writers, b)
      <3>1. CASE "OUT" \in n.mem[a].events
        <4>1. SetWritable(n, a, TRUE) = Placed(n, a, n.mem[a], n.writers)
          BY <3>1, <1>1 DEF SetWritable, Placed, Network
        <4> QED BY <1>1, <4>1
      <3>2. CASE "OUT" \notin n.mem[a].events
        <4>1. SetWritable(n, a, TRUE) = Placed(n, a, p, Append(n.writers, OwnNode(a)))
          BY <3>2, <1>1 DEF SetWritable, Placed, WithOut
        <4>2. Append(n.writers, OwnNode(a)) \in Seq(Node)
          BY <1>1, OwnNodeTyped, AppendNode
        <4> QED BY <1>1, <1>2, <4>1, <4>2, AppendOwn
      <3> QED BY <3>1, <3>2
    <2>2. WriteToBuffer(n, a, items) = Placed(n, a, q, Disown(w, a))
      <3>1. WriteToBuffer(n, a, items) = [Placed(n, a, q, w) EXCEPT !.writers = Disown(@, a)]
        BY <1>4, <2>1 DEF WriteToBuffer
      <3> QED BY <3>1 DEF Placed
    <2>3. /\ Disown(w, a) \in Seq(Node) /\ OwnAt(Disown(w, a), a) = {}
          /\ OthersKept(n.writers, Disown(w, a), a)
      <3>1. /\ Disown(w, a) \in Seq(Node) /\ OwnAt(Disown(w, a), a) = {}
            /\ \A b \in Addrs \ {a} : OwnAt(Disown(w, a), b) = OwnAt(w, b)
        BY DisownOwn
      <3>2. OthersKept(n.writers, Disown(w, a), a)
        BY <2>1, <3>1, SameIsKept
      <3> QED BY <3>1, <3>2
    <2>4. ListedAs(Disown(w, a), q, a) /\ Scheduled(q)
      BY <1>4, <2>1, <2>3 DEF ListedAs, Scheduled, Live
    <2> QED BY <2>1, <2>2, <2>3, <2>4, OneCall
  <1> QED
    BY <1>3, <1>4

\* No object owns a node of the memory a deleted one leaves.
LEMMA CloseCoherent ==
  ASSUME NEW n, Coherent(n), NEW a \in Addrs
  PROVE  Coherent(Close(n, a)) /\ Len(Close(n, a).writers) = Len(n.writers)
  <1> DEFINE o == Remains(n.mem[a], n.mem[a].peer \in Upstreams)
  <1>1. /\ n.mem \in [Addrs -> Object] /\ n.mem[a] \in Object /\ n.writers \in Seq(Node)
    BY CoherentTyped
  <1>2. o \in Object /\ o.state = "freed"
    BY <1>1 DEF Remains, Object
  <1>3. Close(n, a) = Placed(n, a, o, Disown(n.writers, a))
    BY <1>1 DEF Close, Placed
  <1> HIDE DEF o
  <1>4. /\ Disown(n.writers, a) \in Seq(Node) /\ OwnAt(Disown(n.writers, a), a) = {}
        /\ Len(Disown(n.writers, a)) = Len(n.writers)
        /\ OthersKept(n.writers, Disown(n.writers, a), a)
    BY <1>1, DisownOwn, SameIsKept
  <1>5. ListedAs(Disown(n.writers, a), o, a) /\ Scheduled(o)
    BY <1>2, <1>4 DEF ListedAs, Scheduled
  <1>6. Close(n, a).writers = Disown(n.writers, a)
    BY <1>3 DEF Placed
  <1> QED
    BY <1>2, <1>3, <1>4, <1>5, <1>6, OneCall

\* The list after a visit of a: as long as it was, or without a's own node.
AtMostOwnErased(n, a, m) ==
  Len(m.writers) = Len(n.writers) \/ OwnErased(n, a, m.writers)

\* A connection with nothing to send, or nobody to send to, may leave the list.
LEMMA UnlistCoherent ==
  ASSUME NEW n, Coherent(n), NEW a \in Addrs, Live(n, a),
         n.mem[a].send = <<>> \/ n.mem[a].gone
  PROVE  /\ Coherent(SetWritable(n, a, FALSE))
         /\ AtMostOwnErased(n, a, SetWritable(n, a, FALSE))
  <1> DEFINE p == WithOut(n.mem[a], FALSE)
  <1>1. n \in Network /\ n.mem[a] \in Object /\ ListedAs(n.writers, n.mem[a], a)
    BY CoherentTyped DEF Coherent
  <1>2. /\ p \in Object /\ p.send = n.mem[a].send /\ p.gone = n.mem[a].gone
    BY <1>1, WithOutTyped
  <1>3. PICK w \in Seq(Node) : /\ SetWritable(n, a, FALSE) = Placed(n, a, p, w)
                               /\ OthersKept(n.writers, w, a)
                               /\ ListedAs(w, p, a)
                               /\ Len(w) = Len(n.writers) \/ OwnErased(n, a, w)
    BY <1>1, WritablePlaces
  <1>4. Scheduled(p)
    BY <1>2 DEF Scheduled
  <1>5. SetWritable(n, a, FALSE).writers = w
    <2>1. Placed(n, a, p, w).writers = w
      BY DEF Placed
    <2> QED BY <1>3, <2>1
  <1> QED
    BY <1>2, <1>3, <1>4, <1>5, OneCall DEF AtMostOwnErased

LEMMA OnWriteErrorCoherent ==
  ASSUME NEW n, Coherent(n), NEW a \in Addrs, Live(n, a), n.mem[a].gone
  PROVE  Coherent(OnWriteError(n, a)) /\ AtMostOwnErased(n, a, OnWriteError(n, a))
  BY UnlistCoherent DEF OnWriteError

\* Whatever a write took, the connection is listed after it if something is left.
LEMMA OnWritableCoherent ==
  ASSUME NEW n, Coherent(n), NEW a \in Addrs, Live(n, a), NEW k \in 0..Len(n.mem[a].send)
  PROVE  Coherent(OnWritable(n, a, k)) /\ AtMostOwnErased(n, a, OnWritable(n, a, k))
  <1> DEFINE s == n.mem[a].send
             o == [n.mem[a] EXCEPT !.send = SubSeq(s, k + 1, Len(s))]
             sent == Update(n, a, o)
  <1>1. /\ n.mem \in [Addrs -> Object] /\ n.mem[a] \in Object /\ s \in Seq(Items)
        /\ ListedAs(n.writers, n.mem[a], a) /\ Scheduled(n.mem[a])
    <2>1. n.mem[a] \in Object
      BY CoherentTyped
    <2> QED BY <2>1, CoherentTyped DEF Object
  <1>2. /\ SubSeq(s, k + 1, Len(s)) \in Seq(Items)
        /\ s = <<>> => SubSeq(s, k + 1, Len(s)) = <<>>
        /\ k = Len(s) => SubSeq(s, k + 1, Len(s)) = <<>>
    <2> HIDE DEF s
    <2> QED BY <1>1
  <1>3. /\ o \in Object /\ o.state = n.mem[a].state /\ o.events = n.mem[a].events
        /\ o.gone = n.mem[a].gone /\ o.send = SubSeq(s, k + 1, Len(s))
    <2> HIDE DEF s
    <2> QED BY <1>1, <1>2 DEF Object
  <1>4. ListedAs(n.writers, o, a) /\ Scheduled(o)
    BY <1>1, <1>2, <1>3 DEF ListedAs, Scheduled
  <1>5. [n EXCEPT !.mem[a].send = SubSeq(@, k + 1, Len(@))] = sent
    BY DEF Update
  <1>6. /\ Coherent(sent) /\ sent.mem[a] = o /\ sent.writers = n.writers
        /\ Live(sent, a)
    <2> HIDE DEF o
    <2>1. Coherent(sent)
      BY <1>3, <1>4, ListUntouched
    <2>2. sent.mem[a] = o /\ sent.writers = n.writers
      BY <1>1 DEF Update
    <2> QED BY <1>3, <2>1, <2>2 DEF Live
  <1>7. ListPos(sent, a) = ListPos(n, a)
    BY <1>6 DEF ListPos
  <1>8. OnWritable(n, a, k) =
          IF s = <<>> THEN SetWritable(n, a, FALSE)
          ELSE IF n.mem[a].closing THEN Close(sent, a)
          ELSE IF k = Len(s) THEN SetWritable(sent, a, FALSE)
          ELSE sent
    BY <1>5 DEF OnWritable
  <1> HIDE DEF sent, o, s
  <1>9. CASE s = <<>>
    BY <1>8, <1>9, UnlistCoherent DEF s
  <1>10. CASE s # <<>> /\ n.mem[a].closing
    BY <1>6, <1>8, <1>10, CloseCoherent DEF AtMostOwnErased
  <1>11. CASE s # <<>> /\ ~n.mem[a].closing /\ k = Len(s)
    <2>1. /\ Coherent(SetWritable(sent, a, FALSE))
          /\ AtMostOwnErased(sent, a, SetWritable(sent, a, FALSE))
      BY <1>2, <1>3, <1>6, <1>11, UnlistCoherent
    <2> QED BY <1>6, <1>7, <1>8, <1>11, <2>1 DEF AtMostOwnErased, OwnErased
  <1>12. CASE s # <<>> /\ ~n.mem[a].closing /\ k # Len(s)
    BY <1>6, <1>8, <1>12 DEF AtMostOwnErased
  <1> QED
    BY <1>9, <1>10, <1>11, <1>12

--------------------------------------------------------------------------------
(* Session: commands in the stream. *)


LEMMA DivFacts ==
  ASSUME NEW p \in Nat
  PROVE  /\ p \div CmdLen \in Nat
         /\ (p \div CmdLen) * CmdLen <= p
         /\ p < (p \div CmdLen) * CmdLen + CmdLen
         /\ Boundary(p) => (p \div CmdLen) * CmdLen = p
  <1>1. p \div CmdLen \in Nat /\ p % CmdLen \in 0..(CmdLen - 1)
    BY CmdLenAssumption
  <1>2. p = (p \div CmdLen) * CmdLen + (p % CmdLen)
    BY CmdLenAssumption
  <1> QED
    BY <1>1, <1>2, CmdLenAssumption DEF Boundary

LEMMA DivMonotonic ==
  ASSUME NEW p \in Nat, NEW q \in Nat, p <= q
  PROVE  p \div CmdLen <= q \div CmdLen
  BY CmdLenAssumption

\* The ends of commands: the k-th after p ends a command behind the one before it.
LEMMA EndFacts ==
  ASSUME NEW p \in Nat, NEW k \in Nat
  PROVE  /\ EndOf(p, k) \in Nat
         /\ EndOf(p, k + 1) = EndOf(p, k) + CmdLen
         /\ Boundary(EndOf(p, k))
         /\ EndOf(p, 0) <= p /\ p < EndOf(p, 1)
         /\ Boundary(p) => EndOf(p, 0) = p
  <1>1. p \div CmdLen + k \in Nat
    BY DivFacts
  <1>2. \A i \in Nat : i * CmdLen \in Nat /\ (i * CmdLen) % CmdLen = 0
    BY CmdLenAssumption
  <1>3. \A i \in Nat : (i + 1) * CmdLen = i * CmdLen + CmdLen
    BY CmdLenAssumption
  <1>4. EndOf(p, k) \in Nat /\ Boundary(EndOf(p, k))
    BY <1>1, <1>2 DEF EndOf, Boundary
  <1>5. EndOf(p, k + 1) = EndOf(p, k) + CmdLen
    <2>1. p \div CmdLen + (k + 1) = (p \div CmdLen + k) + 1
      BY DivFacts
    <2> QED BY <1>1, <1>3, <2>1 DEF EndOf
  <1>6. EndOf(p, 0) = (p \div CmdLen) * CmdLen
    BY DivFacts DEF EndOf
  <1>7. EndOf(p, 1) = (p \div CmdLen) * CmdLen + CmdLen
    BY <1>3, DivFacts DEF EndOf
  <1> QED
    BY <1>4, <1>5, <1>6, <1>7, DivFacts

\* The last command that is complete before upto ends at or before it, and at it if
\* upto is where a command ends.
LEMMA LastEnd ==
  ASSUME NEW p \in Nat, NEW upto \in Nat, p <= upto
  PROVE  /\ Completed(p, upto) \in Nat
         /\ EndOf(p, Completed(p, upto)) = (upto \div CmdLen) * CmdLen
         /\ EndOf(p, Completed(p, upto)) <= upto
         /\ Boundary(upto) => EndOf(p, Completed(p, upto)) = upto
  <1>1. /\ p \div CmdLen \in Nat /\ upto \div CmdLen \in Nat
        /\ p \div CmdLen <= upto \div CmdLen
    BY DivFacts, DivMonotonic
  <1>2. /\ Completed(p, upto) \in Nat
        /\ p \div CmdLen + Completed(p, upto) = upto \div CmdLen
    BY <1>1 DEF Completed
  <1> QED
    BY <1>2, DivFacts DEF EndOf

LEMMA EndsMonotonic ==
  ASSUME NEW p \in Nat, NEW k \in Nat, NEW l \in Nat, k <= l
  PROVE  EndOf(p, k) <= EndOf(p, l)
  <1>1. \A i, j \in Nat : i <= j => i * CmdLen <= j * CmdLen
    BY CmdLenAssumption
  <1>2. /\ p \div CmdLen + k \in Nat /\ p \div CmdLen + l \in Nat
        /\ p \div CmdLen + k <= p \div CmdLen + l
    BY DivFacts
  <1> QED
    BY <1>1, <1>2 DEF EndOf

--------------------------------------------------------------------------------
(* Chains of pieces. *)

PiecesTo(upto) == {q \in Piece : q[1] <= q[2] /\ q[2] <= upto}
NonEmpty == {q \in Piece : q[1] < q[2]}
CommandPieces == {q \in Piece : Boundary(q[1]) /\ q[2] = q[1] + CmdLen}

\* Consecutive pieces that begin at b.
Chain(pieces, b) ==
  \A i \in 1..Len(pieces) :
     /\ pieces[i] \in Piece
     /\ pieces[i][1] = IF i = 1 THEN b ELSE pieces[i - 1][2]
     /\ pieces[i][1] <= pieces[i][2]

\* Where they end.
EndOfChain(pieces, b) == IF Len(pieces) = 0 THEN b ELSE pieces[Len(pieces)][2]

LEMMA ChainOfNone == ASSUME NEW b PROVE Chain(<<>>, b) /\ EndOfChain(<<>>, b) = b
  BY DEF Chain, EndOfChain

LEMMA ChainOfOne ==
  ASSUME NEW b \in Nat, NEW e \in Nat, b <= e
  PROVE  /\ <<<<b, e>>>> \in Seq(Piece) /\ Len(<<<<b, e>>>>) = 1
         /\ <<<<b, e>>>>[1] = <<b, e>>
         /\ Chain(<<<<b, e>>>>, b) /\ EndOfChain(<<<<b, e>>>>, b) = e
  BY DEF Chain, EndOfChain, Piece

LEMMA ChainsJoin ==
  ASSUME NEW S, NEW x \in Seq(S), NEW y \in Seq(S), NEW b, NEW e,
         Chain(x, b), EndOfChain(x, b) = e, Chain(y, e)
  PROVE  Chain(x \o y, b) /\ EndOfChain(x \o y, b) = EndOfChain(y, e)
  <1> DEFINE z == x \o y
  <1>1. /\ Len(x) \in Nat /\ Len(y) \in Nat
        /\ Len(z) = Len(x) + Len(y)
        /\ \A i \in 1..Len(x) : z[i] = x[i]
        /\ \A i \in (Len(x) + 1)..(Len(x) + Len(y)) : z[i] = y[i - Len(x)]
    OBVIOUS
  <1> HIDE DEF z
  <1>2. ASSUME NEW i \in 1..Len(z)
        PROVE  /\ z[i] \in Piece
               /\ z[i][1] = IF i = 1 THEN b ELSE z[i - 1][2]
               /\ z[i][1] <= z[i][2]
    <2>1. CASE i <= Len(x)
      BY <1>1, <2>1 DEF Chain
    <2>2. CASE i = Len(x) + 1
      <3>1. z[i] = y[1] /\ 1 \in 1..Len(y)
        BY <1>1, <2>2
      <3>2. y[1] \in Piece /\ y[1][1] = e /\ y[1][1] <= y[1][2]
        BY <3>1 DEF Chain
      <3>3. e = IF i = 1 THEN b ELSE z[i - 1][2]
        BY <1>1, <2>2 DEF EndOfChain
      <3> QED BY <3>1, <3>2, <3>3
    <2>3. CASE i > Len(x) + 1
      <3>1. /\ i - Len(x) \in 1..Len(y) /\ i - Len(x) # 1 /\ i # 1
            /\ (i - 1) - Len(x) = (i - Len(x)) - 1
            /\ i \in (Len(x) + 1)..(Len(x) + Len(y))
            /\ i - 1 \in (Len(x) + 1)..(Len(x) + Len(y))
        BY <1>1, <2>3
      <3>2. z[i] = y[i - Len(x)] /\ z[i - 1] = y[(i - Len(x)) - 1]
        BY <1>1, <3>1
      <3> QED BY <3>1, <3>2 DEF Chain
    <2> QED BY <1>1, <2>1, <2>2, <2>3
  <1>3. EndOfChain(z, b) = EndOfChain(y, e)
    BY <1>1 DEF EndOfChain
  <1> QED
    BY <1>2, <1>3 DEF Chain, z

\* The first n pieces of a chain, and the one behind them.
LEMMA ChainCut ==
  ASSUME NEW S, NEW x \in Seq(S), NEW b, Chain(x, b), NEW n \in 0..(Len(x) - 1)
  PROVE  /\ SubSeq(x, 1, n) \in Seq(S) /\ Len(SubSeq(x, 1, n)) = n
         /\ \A i \in 1..n : SubSeq(x, 1, n)[i] = x[i]
         /\ Chain(SubSeq(x, 1, n), b)
         /\ EndOfChain(SubSeq(x, 1, n), b) = x[n + 1][1]
  <1>1. /\ SubSeq(x, 1, n) \in Seq(S) /\ Len(SubSeq(x, 1, n)) = n
        /\ \A i \in 1..n : SubSeq(x, 1, n)[i] = x[i]
    OBVIOUS
  <1>2. n + 1 \in 1..Len(x) /\ n + 1 = 1 <=> n = 0
    OBVIOUS
  <1>3. EndOfChain(SubSeq(x, 1, n), b) = x[n + 1][1]
    BY <1>1, <1>2 DEF Chain, EndOfChain
  <1>4. Chain(SubSeq(x, 1, n), b)
    <2> DEFINE y == SubSeq(x, 1, n)
    <2>1. Len(y) = n /\ \A i \in 1..n : y[i] = x[i]
      BY <1>1
    <2> HIDE DEF y
    <2>2. \A i \in 1..n : i \in 1..Len(x) /\ (i # 1 => i - 1 \in 1..n)
      OBVIOUS
    <2> QED BY <2>1, <2>2 DEF Chain, y
  <1> QED
    BY <1>1, <1>3, <1>4

--------------------------------------------------------------------------------
(* The pieces one read wants to push. *)

\* What is known of a session between two reads.
InStep(s) == s \in SessionState /\ s.from <= s.at /\ s.at <= s.read

LEMMA WholeFacts ==
  ASSUME NEW p \in Nat, NEW upto \in Nat, p <= upto
  PROVE  /\ Whole(p, upto) \in Seq(PiecesTo(upto) \cap NonEmpty)
         /\ Boundary(p) => Whole(p, upto) \in Seq(CommandPieces)
         /\ Chain(Whole(p, upto), p)
         /\ EndOfChain(Whole(p, upto), p) <= upto
         /\ Boundary(p) /\ Boundary(upto) => EndOfChain(Whole(p, upto), p) = upto
         /\ EndOfChain(Whole(p, upto), p) >= p
  <1> DEFINE c == Completed(p, upto)
             w == Whole(p, upto)
  <1>1. /\ c \in Nat /\ EndOf(p, c) <= upto
        /\ Boundary(upto) => EndOf(p, c) = upto
    BY LastEnd
  <1>2. Len(w) = c /\ \A k \in 1..c : w[k] = <<IF k = 1 THEN p ELSE EndOf(p, k - 1), EndOf(p, k)>>
    BY <1>1 DEF Whole
  <1>3. ASSUME NEW k \in 1..c
        PROVE  /\ w[k] = <<IF k = 1 THEN p ELSE EndOf(p, k - 1), EndOf(p, k)>>
               /\ EndOf(p, k) \in Nat /\ EndOf(p, k - 1) \in Nat
               /\ EndOf(p, k) = EndOf(p, k - 1) + CmdLen
               /\ EndOf(p, k) <= upto
               /\ p < EndOf(p, k)
               /\ Boundary(EndOf(p, k - 1))
    <2>1. k \in Nat /\ k - 1 \in Nat /\ (k - 1) + 1 = k /\ k <= c /\ 1 <= k
      BY <1>1
    <2>2. /\ EndOf(p, k) \in Nat /\ EndOf(p, k - 1) \in Nat /\ EndOf(p, c) \in Nat
          /\ EndOf(p, (k - 1) + 1) = EndOf(p, k - 1) + CmdLen
          /\ Boundary(EndOf(p, k - 1))
      BY <1>1, <2>1, EndFacts
    <2>3. EndOf(p, k) <= EndOf(p, c) /\ EndOf(p, 1) <= EndOf(p, k)
      BY <1>1, <2>1, EndsMonotonic
    <2>4. EndOf(p, 1) \in Nat /\ p < EndOf(p, 1)
      BY EndFacts
    <2> QED BY <1>1, <1>2, <2>1, <2>2, <2>3, <2>4
  <1> HIDE DEF w, c
  <1>4. \A k \in 1..c : w[k] \in Piece /\ w[k][1] < w[k][2] /\ w[k][2] <= upto
    <2> TAKE k \in 1..c
    <2>1. PICK b \in Nat : w[k] = <<b, EndOf(p, k)>> /\ b < EndOf(p, k)
      <3>1. CASE k = 1
        BY <1>3, <3>1
      <3>2. CASE k # 1
        <4>1. EndOf(p, k - 1) < EndOf(p, k)
          BY <1>3, CmdLenAssumption
        <4> QED BY <1>3, <3>2, <4>1
      <3> QED BY <3>1, <3>2
    <2>2. w[k][1] = b /\ w[k][2] = EndOf(p, k) /\ EndOf(p, k) \in Nat /\ EndOf(p, k) <= upto
      BY <1>3, <2>1
    <2>3. w[k] \in Piece
      BY <2>1, <2>2 DEF Piece
    <2> QED BY <2>1, <2>2, <2>3
  <1>5. w \in Seq(PiecesTo(upto) \cap NonEmpty)
    <2>1. w = [k \in 1..c |-> w[k]]
      BY <1>2 DEF Whole, w, c
    <2>2. \A k \in 1..c : w[k] \in PiecesTo(upto) \cap NonEmpty
      BY <1>4 DEF PiecesTo, NonEmpty, Piece
    <2> QED BY <1>1, <2>1, <2>2
  <1>6. ASSUME Boundary(p) PROVE w \in Seq(CommandPieces)
    <2>1. EndOf(p, 0) = p
      BY <1>6, EndFacts
    <2>2. \A k \in 1..c : w[k] \in CommandPieces
      BY <1>3, <1>4, <2>1 DEF CommandPieces
    <2>3. w = [k \in 1..c |-> w[k]]
      BY <1>2 DEF Whole, w, c
    <2> QED BY <1>1, <2>2, <2>3
  <1>7. Chain(w, p)
    <2> SUFFICES ASSUME NEW k \in 1..c
                 PROVE  w[k] \in Piece /\ w[k][1] <= w[k][2]
                        /\ w[k][1] = IF k = 1 THEN p ELSE w[k - 1][2]
      BY <1>2 DEF Chain
    <2>1. w[k] \in Piece /\ w[k][1] < w[k][2] /\ w[k][1] \in Nat /\ w[k][2] \in Nat
      BY <1>4 DEF Piece
    <2>2. CASE k = 1
      BY <1>3, <2>1, <2>2
    <2>3. CASE k # 1
      <3>1. k - 1 \in 1..c
        BY <1>1, <2>3
      <3> QED BY <1>3, <2>1, <2>3, <3>1
    <2> QED BY <2>2, <2>3
  <1>8. CASE c = 0
    <2>1. EndOfChain(w, p) = p
      BY <1>2, <1>8 DEF EndOfChain
    <2>2. EndOf(p, 0) <= p
      BY EndFacts
    <2>3. Boundary(p) => EndOf(p, 0) = p
      BY EndFacts
    <2> QED BY <1>1, <1>5, <1>6, <1>7, <1>8, <2>1, <2>3 DEF w
  <1>9. CASE c # 0
    <2>1. c \in 1..c /\ EndOfChain(w, p) = w[c][2]
      BY <1>1, <1>2, <1>9 DEF EndOfChain
    <2>2. EndOfChain(w, p) = EndOf(p, c) /\ EndOf(p, c) \in Nat /\ p < EndOf(p, c)
      BY <1>3, <2>1
    <2> QED BY <1>1, <1>5, <1>6, <1>7, <2>2 DEF w
  <1> QED BY <1>8, <1>9

\* They are consecutive and begin with what currentCmd_ holds.
LEMMA PiecesFacts ==
  ASSUME NEW s, InStep(s), NEW upto \in Nat, s.read <= upto
  PROVE  LET p == Pieces(s, upto)
             e == EndOfChain(p, s.from) IN
         /\ p \in Seq(PiecesTo(upto))
         /\ Chain(p, s.from)
         /\ s.at <= e /\ e <= upto
         /\ ~s.done => p \in Seq(NonEmpty)
         /\ ~s.done /\ s.from = s.at /\ Boundary(s.at) =>
              /\ p \in Seq(CommandPieces)
              /\ Boundary(upto) => e = upto
  <1> DEFINE a == Pending(s)
             b == Stale(s)
             w == Whole(s.at, upto)
  <1>1. /\ s.from \in Nat /\ s.at \in Nat /\ s.read \in Nat /\ s.done \in BOOLEAN
        /\ s.from <= s.at /\ s.at <= upto
    BY DEF InStep, SessionState
  <1>2. /\ a \in Seq(PiecesTo(upto)) /\ Chain(a, s.from) /\ EndOfChain(a, s.from) = s.at
        /\ a \in Seq(NonEmpty)
        /\ s.from = s.at => a = <<>>
    <2>1. CASE s.at > s.from
      <3>1. a = <<<<s.from, s.at>>>> /\ <<s.from, s.at>> \in Piece
        BY <1>1, <2>1 DEF Pending, Piece
      <3>2. Chain(a, s.from) /\ EndOfChain(a, s.from) = s.at
        BY <1>1, <3>1, ChainOfOne
      <3> QED BY <1>1, <2>1, <3>1, <3>2 DEF PiecesTo, NonEmpty
    <2>2. CASE ~(s.at > s.from)
      BY <1>1, <2>2, ChainOfNone DEF Pending
    <2> QED BY <2>1, <2>2
  <1>3. /\ b \in Seq(PiecesTo(upto)) /\ Chain(b, s.at) /\ EndOfChain(b, s.at) = s.at
        /\ ~s.done => b = <<>>
    <2>1. CASE s.done
      <3>1. b = <<<<s.at, s.at>>>> /\ <<s.at, s.at>> \in Piece
        BY <1>1, <2>1 DEF Stale, Piece
      <3>2. Chain(b, s.at) /\ EndOfChain(b, s.at) = s.at
        BY <1>1, <3>1, ChainOfOne
      <3> QED BY <1>1, <2>1, <3>1, <3>2 DEF PiecesTo
    <2>2. CASE ~s.done
      BY <1>1, <2>2, ChainOfNone DEF Stale
    <2> QED BY <2>1, <2>2
  <1>4. /\ w \in Seq(PiecesTo(upto) \cap NonEmpty)
        /\ Boundary(s.at) => w \in Seq(CommandPieces)
        /\ Chain(w, s.at) /\ EndOfChain(w, s.at) <= upto /\ EndOfChain(w, s.at) >= s.at
        /\ Boundary(s.at) /\ Boundary(upto) => EndOfChain(w, s.at) = upto
    BY <1>1, WholeFacts
  <1>5. w \in Seq(PiecesTo(upto)) /\ w \in Seq(NonEmpty)
    <2>1. /\ PiecesTo(upto) \cap NonEmpty \subseteq PiecesTo(upto)
          /\ PiecesTo(upto) \cap NonEmpty \subseteq NonEmpty
      BY <1>1 DEF Piece
    <2> QED BY <1>4, <2>1, SeqMonotonic
  <1> HIDE DEF a, b, w
  <1>6. /\ a \o b \in Seq(PiecesTo(upto)) /\ Chain(a \o b, s.from)
        /\ EndOfChain(a \o b, s.from) = s.at
    BY <1>2, <1>3, ChainsJoin
  <1>7. /\ (a \o b) \o w \in Seq(PiecesTo(upto)) /\ Chain((a \o b) \o w, s.from)
        /\ EndOfChain((a \o b) \o w, s.from) = EndOfChain(w, s.at)
    <2> DEFINE ab == a \o b
    <2>1. /\ ab \in Seq(PiecesTo(upto)) /\ w \in Seq(PiecesTo(upto)) /\ Chain(ab, s.from)
          /\ EndOfChain(ab, s.from) = s.at /\ Chain(w, s.at)
      BY <1>4, <1>5, <1>6
    <2> HIDE DEF ab
    <2>2. ab \o w \in Seq(PiecesTo(upto))
      BY <2>1
    <2>3. Chain(ab \o w, s.from) /\ EndOfChain(ab \o w, s.from) = EndOfChain(w, s.at)
      BY <2>1, ChainsJoin
    <2> QED BY <2>2, <2>3 DEF ab
  <1>8. Pieces(s, upto) = (a \o b) \o w
    BY DEF Pieces, a, b, w
  <1>9. ASSUME ~s.done PROVE (a \o b) \o w \in Seq(NonEmpty)
    BY <1>2, <1>3, <1>5, <1>9
  <1>10. ASSUME ~s.done, s.from = s.at, Boundary(s.at)
         PROVE  (a \o b) \o w \in Seq(CommandPieces)
    BY <1>2, <1>3, <1>4, <1>10
  <1> QED
    BY <1>4, <1>7, <1>8, <1>9, <1>10

\* OnClientRead: what it pushes, and what it leaves in the session.
LEMMA ReadFacts ==
  ASSUME NEW s, InStep(s), NEW upto \in Nat, s.read <= upto, NEW room \in Nat
  PROVE  LET p == Pushed(s, upto, room)
             t == AfterRead(s, upto, room) IN
         /\ p \in Seq(PiecesTo(upto))
         /\ Chain(p, s.from) /\ EndOfChain(p, s.from) = t.from
         /\ InStep(t) /\ t.read = upto
         /\ ~s.done => p \in Seq(NonEmpty)
         /\ ~Deferred(s, upto, room) => ~t.done
         /\ ~s.done /\ s.from = s.at /\ Boundary(s.at) =>
              /\ p \in Seq(CommandPieces)
              /\ ~Deferred(s, upto, room) /\ Boundary(upto) => t.from = upto /\ t.at = upto
  <1> DEFINE x == Pieces(s, upto)
             p == Pushed(s, upto, room)
             t == AfterRead(s, upto, room)
             e == EndOfChain(x, s.from)
  <1>1. /\ x \in Seq(PiecesTo(upto)) /\ Chain(x, s.from)
        /\ s.at <= e /\ e <= upto
        /\ ~s.done => x \in Seq(NonEmpty)
        /\ ~s.done /\ s.from = s.at /\ Boundary(s.at) =>
             x \in Seq(CommandPieces) /\ (Boundary(upto) => e = upto)
    BY PiecesFacts
  <1>2. /\ s.from \in Nat /\ s.at \in Nat /\ s.read \in Nat /\ s.done \in BOOLEAN
        /\ s.from <= s.at /\ s.at <= upto
    BY DEF InStep, SessionState
  <1>3. Len(x) \in Nat
    BY <1>1
  <1>4. CASE Deferred(s, upto, room)
    <2>1. Len(x) > room /\ room \in 0..(Len(x) - 1) /\ room + 1 \in 1..Len(x)
      BY <1>3, <1>4 DEF Deferred
    <2>2. p = SubSeq(x, 1, room)
      BY <1>3, <2>1 DEF Pushed
    <2>3. /\ t.from = x[room + 1][1] /\ t.at = x[room + 1][2] /\ t.read = upto
          /\ t = [from |-> t.from, at |-> t.at, read |-> upto, done |-> t.done]
          /\ t.done \in BOOLEAN
      BY <1>2, <1>4 DEF AfterRead
    <2> HIDE DEF x, p, t, e
    <2>4. /\ \A S : x \in Seq(S) => p \in Seq(S)
          /\ Chain(p, s.from) /\ EndOfChain(p, s.from) = t.from
      BY <1>1, <2>1, <2>2, <2>3, ChainCut
    <2>5. x[room + 1] \in PiecesTo(upto)
      BY <1>1, <2>1
    <2>6. t.from \in Nat /\ t.at \in Nat /\ t.from <= t.at /\ t.at <= upto
      BY <2>3, <2>5 DEF Piece, PiecesTo
    <2>7. InStep(t)
      BY <2>3, <2>6 DEF InStep, SessionState
    <2> QED BY <1>1, <1>4, <2>3, <2>4, <2>7 DEF x, p, t, e
  <1>5. CASE ~Deferred(s, upto, room)
    <2>1. p = x
      BY <1>3, <1>5 DEF Deferred, Pushed
    <2>2. t = [from |-> e, at |-> upto, read |-> upto, done |-> FALSE]
      BY <1>5 DEF AfterRead, EndOfChain
    <2> HIDE DEF x, p, t, e
    <2>3. e \in Nat
      <3>1. CASE Len(x) = 0
        BY <1>2, <3>1 DEF e, EndOfChain
      <3>2. CASE Len(x) # 0
        <4>1. x[Len(x)] \in PiecesTo(upto)
          BY <1>1, <1>3, <3>2
        <4> QED BY <3>2, <4>1 DEF e, EndOfChain, Piece, PiecesTo
      <3> QED BY <3>1, <3>2
    <2>4. InStep(t)
      BY <1>1, <2>2, <2>3 DEF InStep, SessionState
    <2> QED BY <1>1, <1>5, <2>1, <2>2, <2>4 DEF x, p, t, e
  <1> QED BY <1>4, <1>5

--------------------------------------------------------------------------------
(* Buffers.  b is the Buffer at hand, and w[d] says how many others look into d. *)

Pointer == [data : Blocks \union {Null}, size : Nat, offset : Nat]

\* A heap whose bytes are in B.
Block(B) == [refs : Nat, bytes : Seq(B)]
Memory(B) == [Blocks -> Block(B)]

Points(b, d) == IF b.data = d THEN 1 ELSE 0

Shared(B, h, b, w) ==
  /\ Junk \in B
  /\ h \in Memory(B) /\ b \in Pointer /\ w \in [Blocks -> Nat]
  /\ InBounds(h, b)
  /\ \A d \in Blocks : h[d].refs = w[d] + Points(b, d)

\* What the others look into keeps its length.
Spared(h, m, w) == \A d \in Blocks : w[d] > 0 => Len(m[d].bytes) = Len(h[d].bytes)

LEMMA SharedFacts ==
  ASSUME NEW B, NEW h, NEW b, NEW w, Shared(B, h, b, w)
  PROVE  /\ b.data \in Blocks \union {Null} /\ b.size \in Nat /\ b.offset \in Nat
         /\ b.offset <= b.size
         /\ Size(b) \in Nat /\ Capacity(h, b) \in Nat /\ FreeSize(h, b) \in Nat
         /\ b.data = Null => b.size = 0 /\ b.offset = 0
         /\ b.data # Null => /\ b.data \in Blocks
                             /\ h[b.data] \in Block(B)
                             /\ b.size <= Len(h[b.data].bytes)
                             /\ Capacity(h, b) = Len(h[b.data].bytes)
                             /\ FreeSize(h, b) = Len(h[b.data].bytes) - b.size
  <1>1. /\ b.data \in Blocks \union {Null} /\ b.size \in Nat /\ b.offset \in Nat
        /\ b.offset <= b.size /\ b.size <= Capacity(h, b)
    BY DEF Shared, Pointer, InBounds
  <1>2. CASE b.data = Null
    BY <1>1, <1>2 DEF Size, Capacity, FreeSize
  <1>3. CASE b.data # Null
    <2>1. b.data \in Blocks /\ h[b.data] \in Block(B)
      BY <1>1, <1>3 DEF Shared, Memory
    <2>2. Len(h[b.data].bytes) \in Nat
      BY <2>1
    <2> QED BY <1>1, <1>3, <2>1, <2>2 DEF Size, Capacity, FreeSize
  <1> QED BY <1>2, <1>3

LEMMA ContentsFacts ==
  ASSUME NEW B, NEW h, NEW b, NEW w, Shared(B, h, b, w)
  PROVE  Contents(h, b) \in Seq(B) /\ Len(Contents(h, b)) = Size(b)
  <1>1. CASE b.data = Null
    BY <1>1, SharedFacts DEF Contents, Size
  <1>2. CASE b.data # Null
    <2> DEFINE s == h[b.data].bytes
    <2>1. s \in Seq(B) /\ b.offset \in Nat /\ b.size \in Nat /\ b.offset <= b.size
          /\ b.size <= Len(s)
      BY <1>2, SharedFacts DEF Block
    <2>2. Contents(h, b) = SubSeq(s, b.offset + 1, b.size)
      BY <1>2 DEF Contents
    <2> HIDE DEF s
    <2>3. b.offset + 1 \in 1..(Len(s) + 1) /\ b.size \in ((b.offset + 1) - 1)..Len(s)
      BY <2>1
    <2>4. SubSeq(s, b.offset + 1, b.size) \in Seq(B)
          /\ Len(SubSeq(s, b.offset + 1, b.size)) = b.size - b.offset
      BY <2>1, <2>3, SubSeqProperties
    <2> QED BY <2>2, <2>4 DEF Size
  <1> QED BY <1>1, <1>2

LEMMA OverwriteFacts ==
  ASSUME NEW B, NEW s \in Seq(B), NEW at \in Nat, NEW data \in Seq(B)
  PROVE  Overwrite(s, at, data) \in Seq(B) /\ Len(Overwrite(s, at, data)) = Len(s)
  <1>1. \A i \in 1..Len(s) : i \in (at + 1)..(at + Len(data)) => i - at \in 1..Len(data)
    OBVIOUS
  <1>2. \A i \in 1..Len(s) :
          (IF i \in (at + 1)..(at + Len(data)) THEN data[i - at] ELSE s[i]) \in B
    BY <1>1
  <1> QED BY <1>2 DEF Overwrite

LEMMA UnallocatedFacts ==
  ASSUME NEW h, \E d \in Blocks : h[d].refs = 0
  PROVE  Unallocated(h) \in Blocks /\ h[Unallocated(h)].refs = 0
  BY DEF Unallocated

\* What a heap whose block d became x is elsewhere.
LEMMA BlockChange ==
  ASSUME NEW B, NEW h \in Memory(B), NEW d \in Blocks,
         NEW x \in Block(B)
  PROVE  /\ [h EXCEPT ![d] = x] \in Memory(B)
         /\ [h EXCEPT ![d] = x][d] = x
         /\ \A e \in Blocks \ {d} : [h EXCEPT ![d] = x][e] = h[e]
  BY DEF Memory

\* A Buffer lets go of its block.
LEMMA DescRefFacts ==
  ASSUME NEW B, NEW h, NEW b, NEW w, Shared(B, h, b, w), b.data # Null
  PROVE  /\ DescRef(h, b.data) \in Memory(B)
         /\ \A d \in Blocks : DescRef(h, b.data)[d].refs = w[d]
         /\ \A d \in Blocks : w[d] > 0 => DescRef(h, b.data)[d].bytes = h[d].bytes
  <1> DEFINE e == b.data
  <1>0. \A d \in Blocks : h[d].refs = w[d] + Points(b, d) /\ w[d] \in Nat
    BY DEF Shared
  <1>1. e \in Blocks /\ h \in Memory(B) /\ h[e] \in Block(B)
    <2>1. e \in Blocks /\ h[e] \in Block(B)
      BY SharedFacts
    <2> QED BY <2>1 DEF Shared
  <1>2. h[e].refs = w[e] + 1 /\ \A d \in Blocks \ {e} : h[d].refs = w[d]
    BY <1>0, <1>1 DEF Points
  <1>3. CASE h[e].refs = 1
    <2>1. DescRef(h, e) = [h EXCEPT ![e] = NoBlock]
      BY <1>3 DEF DescRef
    <2>2. NoBlock \in Block(B) /\ NoBlock.refs = 0 /\ w[e] = 0
      BY <1>0, <1>1, <1>2, <1>3 DEF NoBlock, Block
    <2> HIDE DEF e
    <2>3. DescRef(h, e) \in Memory(B) /\ DescRef(h, e)[e] = NoBlock
          /\ \A d \in Blocks \ {e} : DescRef(h, e)[d] = h[d]
      <3>1. /\ [h EXCEPT ![e] = NoBlock] \in Memory(B)
            /\ [h EXCEPT ![e] = NoBlock][e] = NoBlock
            /\ \A d \in Blocks \ {e} : [h EXCEPT ![e] = NoBlock][d] = h[d]
        BY <1>1, <2>2, BlockChange
      <3> QED BY <2>1, <3>1
    <2>4. DescRef(h, e) \in Memory(B)
          /\ \A d \in Blocks : /\ DescRef(h, e)[d].refs = w[d]
                               /\ w[d] > 0 => DescRef(h, e)[d].bytes = h[d].bytes
      BY <1>0, <1>1, <1>2, <2>2, <2>3
    <2> QED BY <2>4 DEF e
  <1>4. CASE h[e].refs # 1
    <2> DEFINE x == [h[e] EXCEPT !.refs = @ - 1]
    <2>1. DescRef(h, e) = [h EXCEPT ![e] = x]
      BY <1>1, <1>4 DEF DescRef, Memory
    <2>2. x \in Block(B) /\ x.refs = w[e] /\ x.bytes = h[e].bytes
      BY <1>0, <1>1, <1>2 DEF Block
    <2> HIDE DEF e, x
    <2>3. DescRef(h, e) \in Memory(B) /\ DescRef(h, e)[e] = x
          /\ \A d \in Blocks \ {e} : DescRef(h, e)[d] = h[d]
      <3>1. /\ [h EXCEPT ![e] = x] \in Memory(B)
            /\ [h EXCEPT ![e] = x][e] = x
            /\ \A d \in Blocks \ {e} : [h EXCEPT ![e] = x][d] = h[d]
        BY <1>1, <2>2, BlockChange
      <3> QED BY <2>1, <3>1
    <2>4. DescRef(h, e) \in Memory(B)
          /\ \A d \in Blocks : /\ DescRef(h, e)[d].refs = w[d]
                               /\ w[d] > 0 => DescRef(h, e)[d].bytes = h[d].bytes
      BY <1>0, <1>1, <1>2, <2>2, <2>3
    <2> QED BY <2>4 DEF e
  <1> QED BY <1>3, <1>4

\* ~Buffer
LEMMA DestroyedFacts ==
  ASSUME NEW B, NEW h, NEW b, NEW w, Shared(B, h, b, w)
  PROVE  /\ Destroyed(h, b) \in Memory(B)
         /\ \A d \in Blocks : Destroyed(h, b)[d].refs = w[d]
         /\ \A d \in Blocks : w[d] > 0 => Destroyed(h, b)[d].bytes = h[d].bytes
  <1>1. CASE b.data = Null
    <2>1. \A d \in Blocks : Points(b, d) = 0 /\ w[d] \in Nat
      BY <1>1, BlocksAssumption DEF Points, Shared
    <2> QED BY <1>1, <2>1 DEF Destroyed, Shared
  <1>2. CASE b.data # Null
    BY <1>2, DescRefFacts DEF Destroyed
  <1> QED BY <1>1, <1>2

LEMMA ClearFacts ==
  ASSUME NEW B, NEW h, NEW b, NEW w, Shared(B, h, b, w)
  PROVE  /\ Shared(B, Clear(h, b).heap, Clear(h, b).buf, w)
         /\ Spared(h, Clear(h, b).heap, w)
         /\ \A d \in Blocks : w[d] > 0 => Clear(h, b).heap[d].bytes = h[d].bytes
         /\ Clear(h, b).buf.size = 0 /\ Clear(h, b).buf.offset = 0
         /\ Clear(h, b).buf.data # Null =>
              Clear(h, b).buf.data = b.data /\ w[b.data] = 0
  <1>1. CASE b.data # Null /\ h[b.data].refs > 1
    <2>1. Clear(h, b) = [heap |-> DescRef(h, b.data), buf |-> EmptyBuffer]
      BY <1>1 DEF Clear
    <2>2. /\ DescRef(h, b.data) \in Memory(B)
          /\ \A d \in Blocks : DescRef(h, b.data)[d].refs = w[d]
          /\ \A d \in Blocks : w[d] > 0 => DescRef(h, b.data)[d].bytes = h[d].bytes
      BY <1>1, DescRefFacts
    <2>3. EmptyBuffer \in Pointer /\ InBounds(DescRef(h, b.data), EmptyBuffer)
          /\ EmptyBuffer.size = 0 /\ EmptyBuffer.offset = 0 /\ EmptyBuffer.data = Null
      BY DEF EmptyBuffer, Pointer, InBounds, Capacity
    <2>4. \A d \in Blocks : Points(EmptyBuffer, d) = 0 /\ w[d] \in Nat
      BY BlocksAssumption DEF Points, EmptyBuffer, Shared
    <2>5. Shared(B, DescRef(h, b.data), EmptyBuffer, w)
      BY <2>2, <2>3, <2>4 DEF Shared
    <2>6. Spared(h, DescRef(h, b.data), w)
      BY <2>2 DEF Spared
    <2> QED BY <2>1, <2>2, <2>3, <2>5, <2>6
  <1>2. CASE ~(b.data # Null /\ h[b.data].refs > 1)
    <2> DEFINE c == [data |-> b.data, size |-> 0, offset |-> 0]
    <2>1. Clear(h, b) = [heap |-> h, buf |-> c]
      BY <1>2 DEF Clear
    <2>2. c \in Pointer /\ InBounds(h, c) /\ \A d : Points(c, d) = Points(b, d)
      BY SharedFacts DEF Pointer, InBounds, Capacity, Points
    <2>3. Shared(B, h, c, w)
      BY <2>2 DEF Shared
    <2>4. Spared(h, h, w)
      BY DEF Spared
    <2>5. b.data # Null => w[b.data] = 0
      <3> SUFFICES ASSUME b.data # Null PROVE w[b.data] = 0
        OBVIOUS
      <3>1. b.data \in Blocks /\ h[b.data].refs = w[b.data] + 1 /\ w[b.data] \in Nat
        <4>1. b.data \in Blocks
          BY SharedFacts
        <4> QED BY <4>1 DEF Shared, Points
      <3> QED BY <1>2, <3>1
    <2> QED BY <2>1, <2>3, <2>4, <2>5
  <1> QED BY <1>1, <1>2

\* What is left of b when bytes are dropped in front and at the end.
Narrowed(B, h, b, w, start, back, c) ==
  /\ Shared(B, h, c, w)
  /\ c.data = b.data
  /\ start + back <= Size(b) => /\ c.offset = b.offset + start
                                /\ c.size = b.size - back
                                /\ Size(c) = (Size(b) - start) - back

LEMMA OffsetFacts ==
  ASSUME NEW B, NEW h, NEW b, NEW w, Shared(B, h, b, w), NEW start \in Nat, NEW back \in Nat
  PROVE  Narrowed(B, h, b, w, start, back, Offset(b, start, back))
  <1> DEFINE size == IF b.size > back THEN b.size - back ELSE 0
             p == Offset(b, start, back)
  <1>1. /\ b.data \in Blocks \union {Null} /\ b.size \in Nat /\ b.offset \in Nat
        /\ b.offset <= b.size /\ Capacity(h, b) \in Nat /\ b.size <= Capacity(h, b)
    <2>1. /\ b.data \in Blocks \union {Null} /\ b.size \in Nat /\ b.offset \in Nat
          /\ b.offset <= b.size /\ Capacity(h, b) \in Nat
      BY SharedFacts
    <2> QED BY <2>1 DEF Shared, InBounds
  <1>2. size \in Nat /\ size <= b.size
    BY <1>1
  <1>3. p.data = b.data /\ p.size = size /\ p.offset = SmallerOf(b.offset + start, size)
    BY DEF Offset
  <1> HIDE DEF size
  <1>4. p.offset \in Nat /\ p.offset <= p.size
    BY <1>1, <1>2, <1>3 DEF SmallerOf
  <1>5. p \in Pointer
    BY <1>1, <1>2, <1>3, <1>4 DEF Pointer, Offset, size
  <1>6. Shared(B, h, p, w)
    <2>1. Capacity(h, p) = Capacity(h, b) /\ \A d : Points(p, d) = Points(b, d)
      BY <1>3 DEF Capacity, Points
    <2>2. InBounds(h, p)
      BY <1>1, <1>2, <1>3, <1>4, <2>1 DEF InBounds
    <2> QED BY <1>5, <2>1, <2>2 DEF Shared
  <1>7. ASSUME start + back <= Size(b)
        PROVE  p.offset = b.offset + start /\ p.size = b.size - back
    <2>1. b.offset + start <= b.size - back
      BY <1>1, <1>7 DEF Size
    <2>2. size = b.size - back
      BY <1>1, <2>1 DEF size
    <2> QED BY <1>1, <1>3, <2>1, <2>2 DEF SmallerOf
  <1>8. start + back <= Size(b) => Size(p) = (Size(b) - start) - back
    BY <1>1, <1>7 DEF Size
  <1> QED BY <1>3, <1>6, <1>7, <1>8 DEF Narrowed

\* malloc
LEMMA AllocRefFacts ==
  ASSUME NEW B, Junk \in B, NEW h \in Memory(B), NEW d \in Blocks, NEW size \in Nat
  PROVE  /\ AllocRef(h, d, size) \in Memory(B)
         /\ AllocRef(h, d, size)[d].refs = 1 /\ Len(AllocRef(h, d, size)[d].bytes) = size
         /\ \A e \in Blocks \ {d} : AllocRef(h, d, size)[e] = h[e]
  <1> DEFINE junk == [i \in 1..size |-> Junk]
             x == [refs |-> 1, bytes |-> junk]
  <1>1. junk \in Seq(B) /\ Len(junk) = size
    OBVIOUS
  <1> HIDE DEF junk
  <1>2. x \in Block(B) /\ x.refs = 1 /\ x.bytes = junk
    BY <1>1 DEF Block
  <1>3. AllocRef(h, d, size) = [h EXCEPT ![d] = x]
    BY DEF AllocRef, junk
  <1> HIDE DEF x
  <1>4. /\ [h EXCEPT ![d] = x] \in Memory(B)
        /\ [h EXCEPT ![d] = x][d] = x
        /\ \A e \in Blocks \ {d} : [h EXCEPT ![d] = x][e] = h[e]
    BY <1>2, BlockChange
  <1> QED BY <1>1, <1>2, <1>3, <1>4

\* memcpy
PutIn(h, d, at, data) == [h EXCEPT ![d].bytes = Overwrite(@, at, data)]

LEMMA OverwriteBlock ==
  ASSUME NEW B, NEW h \in Memory(B), NEW d \in Blocks, NEW at \in Nat, NEW data \in Seq(B)
  PROVE  /\ PutIn(h, d, at, data) \in Memory(B)
         /\ PutIn(h, d, at, data)[d].refs = h[d].refs
         /\ Len(PutIn(h, d, at, data)[d].bytes) = Len(h[d].bytes)
         /\ PutIn(h, d, at, data)[d].bytes = Overwrite(h[d].bytes, at, data)
         /\ \A e \in Blocks \ {d} : PutIn(h, d, at, data)[e] = h[e]
  <1> DEFINE y == Overwrite(h[d].bytes, at, data)
             x == [h[d] EXCEPT !.bytes = y]
             m == PutIn(h, d, at, data)
  <1>1. h[d] \in Block(B) /\ h[d].bytes \in Seq(B)
    BY DEF Memory, Block
  <1>2. y \in Seq(B) /\ Len(y) = Len(h[d].bytes)
    BY <1>1, OverwriteFacts
  <1>3. m = [h EXCEPT ![d] = x]
    BY <1>1 DEF Memory, PutIn
  <1> HIDE DEF y
  <1>4. x \in Block(B) /\ x.refs = h[d].refs /\ x.bytes = y
    BY <1>1, <1>2 DEF Block
  <1> HIDE DEF x
  <1>5. /\ [h EXCEPT ![d] = x] \in Memory(B)
        /\ [h EXCEPT ![d] = x][d] = x
        /\ \A e \in Blocks \ {d} : [h EXCEPT ![d] = x][e] = h[e]
    BY <1>4, BlockChange
  <1>6. /\ m \in Memory(B)
        /\ m[d].refs = h[d].refs /\ Len(m[d].bytes) = Len(h[d].bytes)
        /\ m[d].bytes = y
        /\ \A e \in Blocks \ {d} : m[e] = h[e]
    BY <1>2, <1>3, <1>4, <1>5
  <1> QED BY <1>6 DEF y

\* What making room for size more bytes promises: the bytes are kept, in their block or
\* one that nobody else looks into, and what others look into is left alone.
RoomMade(B, h, b, w, size, m) ==
  /\ Shared(B, m.heap, m.buf, w)
  /\ \A d \in Blocks : w[d] > 0 => m.heap[d].bytes = h[d].bytes
  /\ Size(m.buf) = Size(b) /\ FreeSize(m.heap, m.buf) >= size
  /\ Contents(m.heap, m.buf) = Contents(h, b)
  /\ m.buf.data = b.data \/ (m.buf.data \in Blocks /\ w[m.buf.data] = 0)
  /\ b.data # Null \/ size > 0 => m.buf.data # Null
  /\ m.overlap \in BOOLEAN

\* Bytes that were put at the front of a block.
LEMMA FrontFacts ==
  ASSUME NEW B, NEW s \in Seq(B), NEW data \in Seq(B), Len(data) <= Len(s)
  PROVE  SubSeq(Overwrite(s, 0, data), 1, Len(data)) = data
  <1> DEFINE t == Overwrite(s, 0, data)
             n == Len(data)
  <1>1. t \in Seq(B) /\ Len(t) = Len(s)
    BY OverwriteFacts
  <1>2. \A i \in 1..n : t[i] = data[i] /\ data[i] \in B
    <2>1. n \in Nat /\ Len(s) \in Nat
      OBVIOUS
    <2> SUFFICES ASSUME NEW i \in 1..n PROVE t[i] = data[i] /\ data[i] \in B
      OBVIOUS
    <2>2. i \in 1..Len(s) /\ i \in (0 + 1)..(0 + n) /\ i - 0 = i
      BY <2>1
    <2> QED BY <2>2 DEF Overwrite
  <1> HIDE DEF t
  <1>3. /\ SubSeq(t, 1, n) \in Seq(B) /\ Len(SubSeq(t, 1, n)) = n
        /\ \A i \in 1..n : SubSeq(t, 1, n)[i] = t[i]
    BY <1>1, <1>2, SubSeqProperties
  <1>4. SubSeq(t, 1, n) = data
    BY <1>2, <1>3, SeqEqual
  <1> QED BY <1>4 DEF t

LEMMA CompactedFacts ==
  ASSUME NEW B, NEW h, NEW b, NEW w, Shared(B, h, b, w), NEW size \in Nat,
         b.data # Null, h[b.data].refs = 1,
         b.offset >= (size + b.size) - Capacity(h, b)
  PROVE  RoomMade(B, h, b, w, size, Compacted(h, b))
  <1> DEFINE e == b.data
             data == Contents(h, b)
             m == PutIn(h, e, 0, data)
             c == [data |-> e, size |-> Size(b), offset |-> 0]
  <1>1. /\ e \in Blocks /\ b.size \in Nat /\ b.offset \in Nat /\ b.offset <= b.size
        /\ Size(b) \in Nat /\ h[e] \in Block(B) /\ h[e].bytes \in Seq(B)
        /\ b.size <= Len(h[e].bytes) /\ Capacity(h, b) = Len(h[e].bytes)
    BY SharedFacts DEF Block
  <1>2. data \in Seq(B) /\ Len(data) = Size(b)
    BY ContentsFacts
  <1>3. /\ h \in Memory(B) /\ Junk \in B /\ w \in [Blocks -> Nat] /\ e # Null
        /\ \A d \in Blocks : h[d].refs = w[d] + Points(b, d) /\ w[d] \in Nat
    BY DEF Shared
  <1>4. w[e] = 0
    BY <1>1, <1>3 DEF Points
  <1>5. Compacted(h, b) = [heap |-> m, buf |-> c, overlap |-> Size(b) > b.offset]
    BY DEF Compacted, PutIn
  <1> HIDE DEF data
  <1>6. /\ m \in Memory(B)
        /\ m[e].refs = h[e].refs /\ Len(m[e].bytes) = Len(h[e].bytes)
        /\ m[e].bytes = Overwrite(h[e].bytes, 0, data)
        /\ \A d \in Blocks \ {e} : m[d] = h[d]
    <2>1. e \in Blocks /\ h \in Memory(B) /\ data \in Seq(B)
      BY <1>1, <1>2, <1>3
    <2> HIDE DEF e
    <2>2. /\ PutIn(h, e, 0, data) \in Memory(B)
          /\ PutIn(h, e, 0, data)[e].refs = h[e].refs
          /\ Len(PutIn(h, e, 0, data)[e].bytes) = Len(h[e].bytes)
          /\ PutIn(h, e, 0, data)[e].bytes = Overwrite(h[e].bytes, 0, data)
          /\ \A d \in Blocks \ {e} : PutIn(h, e, 0, data)[d] = h[d]
      BY <2>1, OverwriteBlock
    <2> QED BY <2>2
  <1> HIDE DEF m
  <1>7. c \in Pointer /\ c.data = e /\ c.size = Size(b) /\ c.offset = 0 /\ Size(c) = Size(b)
    BY <1>1 DEF Pointer, Size
  <1>8. \A d : Points(c, d) = Points(b, d)
    BY <1>7 DEF Points
  <1> HIDE DEF c
  <1>9. Size(b) <= Len(h[e].bytes) /\ Len(h[e].bytes) - Size(b) >= size
    <2> DEFINE room == Len(h[e].bytes)
    <2>1. room \in Nat
      BY <1>1
    <2>2. b.offset >= (size + b.size) - room
      BY <1>1
    <2>3. b.size \in Nat /\ b.offset \in Nat /\ b.offset <= b.size /\ b.size <= room
      BY <1>1
    <2> HIDE DEF room
    <2>4. b.size - b.offset <= room /\ room - (b.size - b.offset) >= size
      BY <2>1, <2>2, <2>3
    <2> QED BY <2>4 DEF Size, room
  <1>10. Capacity(m, c) = Len(h[e].bytes) /\ FreeSize(m, c) = Len(h[e].bytes) - Size(b)
    BY <1>3, <1>6, <1>7 DEF Capacity, FreeSize
  <1>11. InBounds(m, c)
    BY <1>1, <1>7, <1>9, <1>10 DEF InBounds
  <1>12. \A d \in Blocks : m[d].refs = w[d] + Points(c, d)
    BY <1>3, <1>6, <1>8
  <1>13. Shared(B, m, c, w)
    BY <1>3, <1>6, <1>7, <1>11, <1>12 DEF Shared
  <1>14. \A d \in Blocks : w[d] > 0 => m[d].bytes = h[d].bytes
    BY <1>4, <1>6
  <1>15. Contents(m, c) = data
    <2>1. SubSeq(Overwrite(h[e].bytes, 0, data), 1, Len(data)) = data
      BY <1>1, <1>2, <1>9, FrontFacts
    <2> QED BY <1>2, <1>3, <1>6, <1>7, <2>1 DEF Contents
  <1> QED
    BY <1>5, <1>7, <1>9, <1>10, <1>13, <1>14, <1>15 DEF RoomMade, data
\* The bytes were copied to the front of a new block c looks into, and b let go of its own.
LEMMA ReallocatedFacts ==
  ASSUME NEW B, NEW h, NEW b, NEW w, Shared(B, h, b, w), NEW size \in Nat,
         b.data # Null, \E d \in Blocks : h[d].refs = 0
  PROVE  RoomMade(B, h, b, w, size, Reallocated(h, b, size + Size(b)))
  <1> DEFINE d == Unallocated(h)
             data == Contents(h, b)
             capacity == size + Size(b)
             new == AllocRef(h, d, capacity)
             full == PutIn(new, d, 0, data)
             m == DescRef(full, b.data)
             c == [data |-> d, size |-> Size(b), offset |-> 0]
             v == [w EXCEPT ![d] = 1]
  <1>1. /\ h \in Memory(B) /\ Junk \in B /\ w \in [Blocks -> Nat] /\ b \in Pointer
        /\ InBounds(h, b) /\ \A e \in Blocks : h[e].refs = w[e] + Points(b, e)
    BY DEF Shared
  <1>2. /\ b.data \in Blocks /\ Size(b) \in Nat /\ capacity \in Nat
        /\ capacity - Size(b) = size /\ Size(b) <= capacity
    BY SharedFacts
  <1>3. d \in Blocks /\ h[d].refs = 0
    BY UnallocatedFacts
  <1>4. d # b.data /\ w[d] = 0 /\ d # Null
    BY <1>1, <1>3, BlocksAssumption DEF Points
  <1>5. data \in Seq(B) /\ Len(data) = Size(b)
    BY ContentsFacts
  <1>6. Reallocated(h, b, capacity) = [heap |-> m, buf |-> c, overlap |-> FALSE]
    BY DEF Reallocated, PutIn
  <1> HIDE DEF d, data, capacity
  <1>7. /\ new \in Memory(B) /\ new[d].refs = 1 /\ Len(new[d].bytes) = capacity
        /\ \A e \in Blocks \ {d} : new[e] = h[e]
    <2>1. h \in Memory(B) /\ Junk \in B /\ d \in Blocks /\ capacity \in Nat
      BY <1>1, <1>2, <1>3
    <2> QED BY <2>1, AllocRefFacts
  <1> HIDE DEF new
  <1>8. /\ full \in Memory(B) /\ full[d].refs = 1 /\ Len(full[d].bytes) = capacity
        /\ full[d].bytes = Overwrite(new[d].bytes, 0, data)
        /\ \A e \in Blocks \ {d} : full[e] = new[e]
    <2>1. new \in Memory(B) /\ d \in Blocks /\ data \in Seq(B) /\ 0 \in Nat
      BY <1>3, <1>5, <1>7
    <2>2. /\ full \in Memory(B) /\ full[d].refs = new[d].refs
          /\ Len(full[d].bytes) = Len(new[d].bytes)
          /\ full[d].bytes = Overwrite(new[d].bytes, 0, data)
          /\ \A e \in Blocks \ {d} : full[e] = new[e]
      BY <2>1, OverwriteBlock
    <2> QED BY <1>7, <2>2
  <1> HIDE DEF full
  <1>9. v \in [Blocks -> Nat] /\ v[d] = 1 /\ \A e \in Blocks \ {d} : v[e] = w[e]
    BY <1>1, <1>3
  <1> HIDE DEF v
  <1>10. full[b.data] = h[b.data]
    BY <1>2, <1>4, <1>7, <1>8
  <1>11. Shared(B, full, b, v)
    <2>1. InBounds(full, b)
      BY <1>1, <1>10 DEF InBounds, Capacity
    <2>2. \A e \in Blocks : full[e].refs = v[e] + Points(b, e)
      <3>1. full[d].refs = v[d] + Points(b, d)
        BY <1>4, <1>8, <1>9 DEF Points
      <3>2. \A e \in Blocks \ {d} : full[e].refs = v[e] + Points(b, e)
        BY <1>1, <1>7, <1>8, <1>9
      <3> QED BY <3>1, <3>2
    <2> QED BY <1>1, <1>8, <1>9, <2>1, <2>2 DEF Shared
  <1>12. /\ m \in Memory(B)
         /\ \A e \in Blocks : m[e].refs = v[e]
         /\ \A e \in Blocks : v[e] > 0 => m[e].bytes = full[e].bytes
    BY <1>11, DescRefFacts
  <1> HIDE DEF m
  <1>13. c \in Pointer /\ c.data = d /\ c.size = Size(b) /\ c.offset = 0 /\ Size(c) = Size(b)
    BY <1>2, <1>3 DEF Pointer, Size
  <1> HIDE DEF c
  <1>14. m[d].bytes = full[d].bytes
    BY <1>3, <1>9, <1>12
  <1>15. Capacity(m, c) = capacity /\ FreeSize(m, c) = size
    <2>1. Len(m[d].bytes) = capacity
      BY <1>8, <1>14
    <2> QED BY <1>2, <1>4, <1>13, <2>1 DEF Capacity, FreeSize
  <1>16. Shared(B, m, c, w)
    <2>1. InBounds(m, c)
      BY <1>2, <1>3, <1>13, <1>15 DEF InBounds
    <2>2. \A e \in Blocks : m[e].refs = w[e] + Points(c, e)
      BY <1>1, <1>4, <1>9, <1>12, <1>13 DEF Points
    <2> QED BY <1>1, <1>12, <1>13, <2>1, <2>2 DEF Shared
  <1>17. \A e \in Blocks : w[e] > 0 => m[e].bytes = h[e].bytes
    BY <1>4, <1>7, <1>8, <1>9, <1>12
  <1>18. Contents(m, c) = data
    <2>1. new[d].bytes \in Seq(B)
      BY <1>3, <1>7 DEF Memory, Block
    <2>2. Len(data) <= Len(new[d].bytes)
      BY <1>2, <1>5, <1>7
    <2>3. SubSeq(Overwrite(new[d].bytes, 0, data), 1, Len(data)) = data
      BY <1>5, <2>1, <2>2, FrontFacts
    <2> QED BY <1>4, <1>5, <1>8, <1>13, <1>14, <2>3 DEF Contents
  <1>19. RoomMade(B, h, b, w, size, [heap |-> m, buf |-> c, overlap |-> FALSE])
    BY <1>3, <1>4, <1>13, <1>15, <1>16, <1>17, <1>18 DEF RoomMade, data
  <1> QED
    BY <1>6, <1>19 DEF capacity

LEMMA AllocatedFacts ==
  ASSUME NEW B, NEW h, NEW b, NEW w, Shared(B, h, b, w), NEW size \in Nat,
         b.data = Null, \E d \in Blocks : h[d].refs = 0
  PROVE  RoomMade(B, h, b, w, size, Allocated(h, size))
  <1> DEFINE d == Unallocated(h)
             m == AllocRef(h, d, size)
             c == [data |-> d, size |-> 0, offset |-> 0]
  <1>1. /\ h \in Memory(B) /\ Junk \in B /\ w \in [Blocks -> Nat] /\ b \in Pointer
        /\ \A e \in Blocks : h[e].refs = w[e] + Points(b, e)
    BY DEF Shared
  <1>2. \A e \in Blocks : h[e].refs = w[e]
    BY <1>1, BlocksAssumption DEF Points
  <1>3. d \in Blocks /\ h[d].refs = 0 /\ w[d] = 0 /\ d # Null
    BY <1>2, UnallocatedFacts, BlocksAssumption
  <1>4. Allocated(h, size) = [heap |-> m, buf |-> c, overlap |-> FALSE]
    BY DEF Allocated
  <1> HIDE DEF d
  <1>5. /\ m \in Memory(B) /\ m[d].refs = 1 /\ Len(m[d].bytes) = size
        /\ \A e \in Blocks \ {d} : m[e] = h[e]
    BY <1>1, <1>3, AllocRefFacts
  <1> HIDE DEF m
  <1>6. c \in Pointer /\ c.data = d /\ c.size = 0 /\ c.offset = 0 /\ Size(c) = 0
    BY <1>3 DEF Pointer, Size
  <1> HIDE DEF c
  <1>7. Capacity(m, c) = size /\ FreeSize(m, c) = size
    BY <1>3, <1>5, <1>6 DEF Capacity, FreeSize
  <1>8. Shared(B, m, c, w)
    <2>1. InBounds(m, c)
      BY <1>3, <1>6, <1>7 DEF InBounds
    <2>2. \A e \in Blocks : m[e].refs = w[e] + Points(c, e)
      <3>1. m[d].refs = w[d] + Points(c, d)
        BY <1>3, <1>5, <1>6 DEF Points
      <3>2. \A e \in Blocks \ {d} : m[e].refs = w[e] + Points(c, e)
        BY <1>1, <1>2, <1>5, <1>6 DEF Points
      <3> QED BY <3>1, <3>2
    <2> QED BY <1>1, <1>5, <1>6, <2>1, <2>2 DEF Shared
  <1>9. \A e \in Blocks : w[e] > 0 => m[e].bytes = h[e].bytes
    BY <1>3, <1>5
  <1>10. Size(b) = 0 /\ Contents(h, b) = <<>>
    <2>1. b.size = 0 /\ b.offset = 0
      BY SharedFacts
    <2> QED BY <2>1 DEF Size, Contents
  <1>11. Contents(m, c) = <<>>
    <2>1. Contents(m, c) \in Seq(B) /\ Len(Contents(m, c)) = 0
      BY <1>6, <1>8, ContentsFacts
    <2> QED BY <2>1, EmptySeq
  <1>12. RoomMade(B, h, b, w, size, [heap |-> m, buf |-> c, overlap |-> FALSE])
    BY <1>3, <1>6, <1>7, <1>8, <1>9, <1>10, <1>11 DEF RoomMade
  <1> QED
    BY <1>4, <1>12

\* A Buffer that makes room, if there is a block to allocate.
LEMMA AppendCapacityFacts ==
  ASSUME NEW B, NEW h, NEW b, NEW w, Shared(B, h, b, w), NEW size \in Nat,
         \E d \in Blocks : h[d].refs = 0
  PROVE  RoomMade(B, h, b, w, size, AppendCapacity(h, b, size))
  <1>1. /\ Size(b) \in Nat /\ b.size \in Nat /\ b.offset \in Nat
        /\ Capacity(h, b) \in Nat /\ FreeSize(h, b) \in Nat
    BY SharedFacts
  <1>2. CASE size + b.size <= Capacity(h, b)
    <2>1. AppendCapacity(h, b, size) = Kept(h, b)
      BY <1>2 DEF AppendCapacity
    <2>2. FreeSize(h, b) >= size
      BY <1>1, <1>2, SharedFacts DEF FreeSize, Capacity
    <2>3. size > 0 => b.data # Null
      BY <1>1, <1>2 DEF Capacity
    <2>4. RoomMade(B, h, b, w, size, [heap |-> h, buf |-> b, overlap |-> FALSE])
      BY <2>2, <2>3 DEF RoomMade
    <2> QED BY <2>1, <2>4 DEF Kept
  <1>3. CASE ~(size + b.size <= Capacity(h, b)) /\ b.data = Null
    <2>1. AppendCapacity(h, b, size) = Allocated(h, size + b.size) /\ b.size = 0
      BY <1>3, SharedFacts DEF AppendCapacity
    <2>2. size + b.size = size
      BY <2>1
    <2>3. RoomMade(B, h, b, w, size, Allocated(h, size))
      BY <1>3, AllocatedFacts
    <2> QED BY <2>1, <2>2, <2>3
  <1>4. CASE /\ ~(size + b.size <= Capacity(h, b)) /\ b.data # Null
             /\ h[b.data].refs = 1 /\ b.offset >= (size + b.size) - Capacity(h, b)
    <2>1. AppendCapacity(h, b, size) = Compacted(h, b)
      BY <1>4 DEF AppendCapacity
    <2> QED BY <1>4, <2>1, CompactedFacts
  <1>5. CASE /\ ~(size + b.size <= Capacity(h, b)) /\ b.data # Null
             /\ ~(h[b.data].refs = 1 /\ b.offset >= (size + b.size) - Capacity(h, b))
    <2>1. AppendCapacity(h, b, size) = Reallocated(h, b, (size + b.size) - b.offset)
      BY <1>5 DEF AppendCapacity
    <2>2. (size + b.size) - b.offset = size + Size(b)
      BY <1>1 DEF Size
    <2>3. RoomMade(B, h, b, w, size, Reallocated(h, b, size + Size(b)))
      BY <1>5, ReallocatedFacts
    <2> QED BY <2>1, <2>2, <2>3
  <1> QED BY <1>2, <1>3, <1>4, <1>5

\* Bytes put behind those a Buffer has, where there is room for them.
LEMMA FilledFacts ==
  ASSUME NEW B, NEW h, NEW b, NEW w, Shared(B, h, b, w), NEW overlap,
         NEW data \in Seq(B), Len(data) <= FreeSize(h, b),
         NEW m, m = Filled([heap |-> h, buf |-> b, overlap |-> overlap], data)
  PROVE  /\ Shared(B, m.heap, m.buf, w) /\ Spared(h, m.heap, w)
         /\ m.buf.data = b.data /\ m.buf.offset = b.offset
         /\ m.buf.size = b.size + Len(data) /\ m.overlap = overlap
  <1> DEFINE g == PutIn(h, b.data, b.size, data)
             c == [b EXCEPT !.size = @ + Len(data)]
  <1>1. m.heap = g /\ m.buf = c /\ m.overlap = overlap
    BY DEF Filled, PutIn
  <1>2. /\ b \in Pointer /\ h \in Memory(B) /\ w \in [Blocks -> Nat] /\ Junk \in B
        /\ InBounds(h, b) /\ \A d \in Blocks : h[d].refs = w[d] + Points(b, d)
    BY DEF Shared
  <1>3. /\ b.size \in Nat /\ b.offset \in Nat /\ b.offset <= b.size /\ Len(data) \in Nat
        /\ FreeSize(h, b) \in Nat
    BY SharedFacts
  <1>4. /\ c \in Pointer /\ c.data = b.data /\ c.offset = b.offset
        /\ c.size = b.size + Len(data)
    BY <1>2, <1>3 DEF Pointer
  <1> HIDE DEF g, c
  <1>5. \A d : Points(c, d) = Points(b, d)
    BY <1>4 DEF Points
  <1>6. CASE b.data = Null
    <2>1. Len(data) = 0 /\ b.size = 0
      BY <1>3, <1>6, SharedFacts DEF FreeSize
    <2>2. g = h
      BY <1>2, <1>6, BlocksAssumption DEF g, PutIn, Memory
    <2>3. InBounds(h, c)
      BY <1>2, <1>3, <1>4, <2>1 DEF InBounds, Capacity
    <2> QED BY <1>1, <1>2, <1>4, <1>5, <2>2, <2>3 DEF Shared, Spared
  <1>7. CASE b.data # Null
    <2>1. b.data \in Blocks /\ FreeSize(h, b) = Len(h[b.data].bytes) - b.size
          /\ Len(h[b.data].bytes) \in Nat
      BY <1>7, SharedFacts DEF Block
    <2>2. b.data \in Blocks /\ h \in Memory(B) /\ b.size \in Nat /\ data \in Seq(B)
      BY <1>2, <1>3, <2>1
    <2>3. /\ g \in Memory(B) /\ g[b.data].refs = h[b.data].refs
          /\ Len(g[b.data].bytes) = Len(h[b.data].bytes)
          /\ \A d \in Blocks \ {b.data} : g[d] = h[d]
      BY <2>2, OverwriteBlock DEF g
    <2>4. \A d \in Blocks : g[d].refs = h[d].refs /\ Len(g[d].bytes) = Len(h[d].bytes)
      BY <2>3
    <2>5. InBounds(g, c)
      <3>1. c.size <= Len(g[c.data].bytes) /\ c.offset <= c.size
        BY <1>3, <1>4, <2>1, <2>3
      <3> QED BY <1>4, <1>7, <2>1, <3>1 DEF InBounds, Capacity
    <2>6. Shared(B, g, c, w)
      BY <1>2, <1>4, <1>5, <2>3, <2>4, <2>5 DEF Shared
    <2>7. Spared(h, g, w)
      BY <2>4 DEF Spared
    <2> QED BY <1>1, <1>4, <2>6, <2>7
  <1> QED BY <1>6, <1>7

\* What lies behind the first i elements and not behind the k-th, cut n elements on.
LEMMA CutBehind ==
  ASSUME NEW S, NEW s \in Seq(S), NEW k \in 0..Len(s), NEW i \in 0..k, NEW n \in 0..(k - i)
  PROVE  /\ SubSeq(SubSeq(s, i + 1, k), 1, n) = SubSeq(s, i + 1, i + n)
         /\ SubSeq(s, i + 1, k) = SubSeq(s, i + 1, i + n) \o SubSeq(s, i + n + 1, k)
         /\ SubSeq(s, i + 1, i + n) \in Seq(S)
         /\ SubSeq(s, i + n + 1, k) \in Seq(S)
  <1> DEFINE t == SubSeq(s, i + 1, k)
             u == SubSeq(s, i + 1, i + n)
             v == SubSeq(t, 1, n)
  <1>1. Len(s) \in Nat /\ k \in Nat /\ k <= Len(s) /\ i \in Nat /\ n \in Nat /\ i + n <= k
    OBVIOUS
  <1>2. t \in Seq(S) /\ Len(t) = k - i
        /\ \A j \in 1..(k - i) : t[j] = s[i + j]
    <2>1. \A j \in (i + 1)..k : s[j] \in S
      BY <1>1
    <2>2. /\ t \in Seq(S) /\ Len(t) = IF i + 1 <= k THEN k - (i + 1) + 1 ELSE 0
          /\ \A j \in 1..(k - (i + 1) + 1) : t[j] = s[(i + 1) + j - 1]
      BY <1>1, <2>1, SubSeqProperties
    <2> HIDE DEF t
    <2> QED BY <1>1, <2>2
  <1>3. u \in Seq(S) /\ Len(u) = n /\ \A j \in 1..n : u[j] = s[i + j]
    <2>1. \A j \in (i + 1)..(i + n) : s[j] \in S
      BY <1>1
    <2>2. /\ u \in Seq(S) /\ Len(u) = IF i + 1 <= i + n THEN (i + n) - (i + 1) + 1 ELSE 0
          /\ \A j \in 1..((i + n) - (i + 1) + 1) : u[j] = s[(i + 1) + j - 1]
      BY <1>1, <2>1, SubSeqProperties
    <2> HIDE DEF u
    <2> QED BY <1>1, <2>2
  <1>4. v \in Seq(S) /\ Len(v) = n /\ \A j \in 1..n : v[j] = t[j]
    <2> HIDE DEF t
    <2>1. \A j \in 1..n : t[j] \in S
      BY <1>1, <1>2
    <2>2. /\ v \in Seq(S) /\ Len(v) = IF 1 <= n THEN n - 1 + 1 ELSE 0
          /\ \A j \in 1..(n - 1 + 1) : v[j] = t[1 + j - 1]
      BY <1>1, <2>1, SubSeqProperties
    <2> HIDE DEF v
    <2> QED BY <1>1, <2>2
  <1>5. v = u
    <2> HIDE DEF t, u, v
    <2>1. \A j \in 1..n : j \in 1..(k - i)
      BY <1>1
    <2>2. \A j \in 1..n : v[j] = u[j]
      BY <1>2, <1>3, <1>4, <2>1
    <2> QED BY <1>3, <1>4, <2>2, SeqEqual
  <1>6. t = u \o SubSeq(s, i + n + 1, k)
    <2>1. i + 1 \in 1..(Len(s) + 1) /\ i + n \in ((i + 1) - 1)..Len(s)
          /\ k \in (i + n)..Len(s)
      BY <1>1
    <2> QED BY <2>1, ConcatAdjacentSubSeq
  <1>7. SubSeq(s, i + n + 1, k) \in Seq(S)
    <2>1. \A j \in (i + n + 1)..k : s[j] \in S
      BY <1>1
    <2>2. i + n + 1 \in Int /\ k \in Int
      BY <1>1
    <2> QED BY <2>1, <2>2, SubSeqProperties
  <1> QED BY <1>3, <1>5, <1>6, <1>7

\* What a Buffer shows depends on nothing but the bytes of its block.
LEMMA SameContents ==
  ASSUME NEW h, NEW m, NEW b, b.data # Null => m[b.data].bytes = h[b.data].bytes
  PROVE  Contents(m, b) = Contents(h, b)
  BY DEF Contents

LEMMA ContentsElements ==
  ASSUME NEW B, NEW h, NEW b, NEW w, Shared(B, h, b, w), b.data # Null
  PROVE  /\ h[b.data].bytes \in Seq(B)
         /\ \A i \in 1..Size(b) : /\ Contents(h, b)[i] = h[b.data].bytes[b.offset + i]
                                  /\ b.offset + i \in 1..b.size
  <1> DEFINE s == h[b.data].bytes
  <1>1. s \in Seq(B) /\ b.offset \in Nat /\ b.size \in Nat /\ b.offset <= b.size
        /\ b.size <= Len(s) /\ Len(s) \in Nat
    BY SharedFacts DEF Block
  <1>2. Contents(h, b) = SubSeq(s, b.offset + 1, b.size)
    BY DEF Contents
  <1> HIDE DEF s
  <1>3. \A j \in (b.offset + 1)..b.size : s[j] \in B
    BY <1>1
  <1>4. \A i \in 1..(b.size - (b.offset + 1) + 1) :
          SubSeq(s, b.offset + 1, b.size)[i] = s[(b.offset + 1) + i - 1]
    BY <1>1, <1>3, SubSeqProperties
  <1>5. \A i \in 1..(b.size - b.offset) : Contents(h, b)[i] = s[b.offset + i]
                                          /\ b.offset + i \in 1..b.size
    BY <1>1, <1>2, <1>4
  <1>6. s = h[b.data].bytes
    BY DEF s
  <1> QED BY <1>1, <1>5, <1>6 DEF Size

\* Offset( n, 0 )
LEMMA OffsetContents ==
  ASSUME NEW B, NEW h, NEW b, NEW w, Shared(B, h, b, w), NEW n \in 0..Size(b)
  PROVE  Contents(h, Offset(b, n, 0)) = SubSeq(Contents(h, b), n + 1, Size(b))
  <1> DEFINE c == Offset(b, n, 0)
             x == Contents(h, c)
             y == SubSeq(Contents(h, b), n + 1, Size(b))
  <1>1. Size(b) \in Nat /\ n \in Nat /\ n <= Size(b) /\ b.offset \in Nat /\ b.size \in Nat
        /\ b.offset <= b.size /\ Size(b) = b.size - b.offset
    BY SharedFacts DEF Size
  <1>2. Narrowed(B, h, b, w, n, 0, c)
    BY <1>1, OffsetFacts
  <1> HIDE DEF c
  <1>3. Shared(B, h, c, w) /\ c.data = b.data /\ c.offset = b.offset + n
        /\ Size(c) = Size(b) - n
    BY <1>1, <1>2 DEF Narrowed
  <1>4. Contents(h, b) \in Seq(B) /\ Len(Contents(h, b)) = Size(b)
    BY ContentsFacts
  <1>5. y \in Seq(B) /\ Len(y) = Size(b) - n
        /\ \A i \in 1..(Size(b) - n) : y[i] = Contents(h, b)[n + i]
    <2> DEFINE s == Contents(h, b)
               k == Size(b)
    <2>1. \A j \in (n + 1)..k : s[j] \in B
      BY <1>1, <1>4
    <2>2. n \in Nat /\ k \in Nat /\ n <= k
      BY <1>1
    <2> HIDE DEF s, k
    <2>3. /\ SubSeq(s, n + 1, k) \in Seq(B)
          /\ Len(SubSeq(s, n + 1, k)) = IF n + 1 <= k THEN k - (n + 1) + 1 ELSE 0
          /\ \A i \in 1..(k - (n + 1) + 1) : SubSeq(s, n + 1, k)[i] = s[(n + 1) + i - 1]
      BY <2>1, <2>2, SubSeqProperties
    <2>4. /\ SubSeq(s, n + 1, k) \in Seq(B) /\ Len(SubSeq(s, n + 1, k)) = k - n
          /\ \A i \in 1..(k - n) : SubSeq(s, n + 1, k)[i] = s[n + i]
      BY <2>2, <2>3
    <2> QED BY <2>4 DEF s, k
  <1>6. x \in Seq(B) /\ Len(x) = Size(b) - n
    BY <1>3, ContentsFacts
  <1>7. \A i \in 1..Len(x) : x[i] = y[i]
    <2>1. CASE b.data = Null
      <3>1. Size(b) = 0
        BY <1>1, <2>1, SharedFacts
      <3> QED BY <1>1, <1>6, <3>1
    <2>2. CASE b.data # Null
      <3>1. \A i \in 1..Size(c) : x[i] = h[c.data].bytes[c.offset + i]
        BY <1>3, <2>2, ContentsElements
      <3>2. \A i \in 1..Size(b) : Contents(h, b)[i] = h[b.data].bytes[b.offset + i]
        BY <2>2, ContentsElements
      <3> HIDE DEF x, y
      <3> SUFFICES ASSUME NEW i \in 1..Len(x) PROVE x[i] = y[i]
        OBVIOUS
      <3>3. i \in 1..(Size(b) - n) /\ n + i \in 1..Size(b) /\ i \in 1..Size(c)
            /\ b.offset + (n + i) = (b.offset + n) + i
        BY <1>1, <1>3, <1>6
      <3>4. y[i] = h[b.data].bytes[b.offset + (n + i)]
        BY <1>5, <3>2, <3>3
      <3>5. x[i] = h[b.data].bytes[(b.offset + n) + i]
        BY <1>3, <3>1, <3>3
      <3> QED BY <3>3, <3>4, <3>5
    <2> QED BY <2>1, <2>2
  <1> HIDE DEF x, y
  <1>8. x = y
    BY <1>5, <1>6, <1>7, SeqEqual
  <1> QED BY <1>8 DEF x, y, c

\* What Filled shows, and what it leaves alone: other blocks, and the bytes in front.
LEMMA FilledContents ==
  ASSUME NEW B, NEW h, NEW b, NEW w, Shared(B, h, b, w), NEW overlap,
         NEW data \in Seq(B), Len(data) <= FreeSize(h, b),
         NEW m, m = Filled([heap |-> h, buf |-> b, overlap |-> overlap], data)
  PROVE  /\ Contents(m.heap, m.buf) = Contents(h, b) \o data
         /\ \A d \in Blocks : d # b.data => m.heap[d].bytes = h[d].bytes
         /\ b.data # Null =>
              \A i \in 1..b.size : m.heap[b.data].bytes[i] = h[b.data].bytes[i]
  <1> DEFINE e == b.data
             s == h[e].bytes
             g == PutIn(h, e, b.size, data)
             t == g[e].bytes
             x == Contents(m.heap, m.buf)
             y == Contents(h, b) \o data
             n == Size(b)
  <1>1. m.heap = g
    BY DEF Filled, PutIn
  <1>2. /\ Shared(B, m.heap, m.buf, w) /\ m.buf.data = e /\ m.buf.offset = b.offset
        /\ m.buf.size = b.size + Len(data)
    BY FilledFacts
  <1>3. /\ b.size \in Nat /\ b.offset \in Nat /\ b.offset <= b.size /\ Len(data) \in Nat
        /\ FreeSize(h, b) \in Nat /\ n \in Nat /\ n = b.size - b.offset
    BY SharedFacts DEF Size
  <1>4. /\ Contents(h, b) \in Seq(B) /\ Len(Contents(h, b)) = n
    BY ContentsFacts
  <1> HIDE DEF n
  <1>5. y \in Seq(B) /\ Len(y) = n + Len(data)
        /\ \A i \in 1..(n + Len(data)) : y[i] = IF i <= n THEN Contents(h, b)[i] ELSE data[i - n]
    BY <1>4, ConcatProperties
  <1>6. x \in Seq(B) /\ Len(x) = n + Len(data)
    <2>1. x \in Seq(B) /\ Len(x) = Size(m.buf)
      BY <1>2, ContentsFacts
    <2> QED BY <1>2, <1>3, <2>1 DEF Size
  <1>7. CASE e = Null
    <2>1. Len(data) = 0
      BY <1>3, <1>7, SharedFacts DEF FreeSize
    <2>2. n = 0
      BY <1>7, SharedFacts DEF n, Size
    <2>3. x = y
      <3> HIDE DEF x, y
      <3> QED BY <1>5, <1>6, <2>1, <2>2, SeqEqual
    <2>4. g = h
      <3>1. h \in Memory(B) /\ e \notin Blocks
        BY <1>7, BlocksAssumption DEF Shared
      <3> QED BY <3>1 DEF PutIn, Memory
    <2> QED BY <1>1, <1>7, <2>3, <2>4
  <1>8. CASE e # Null
    <2>1. e \in Blocks /\ FreeSize(h, b) = Len(s) - b.size /\ s \in Seq(B)
          /\ Len(s) \in Nat
      BY <1>8, SharedFacts DEF Block
    <2>2. h \in Memory(B) /\ e \in Blocks /\ b.size \in Nat /\ data \in Seq(B)
      BY <1>3, <2>1 DEF Shared
    <2>3. /\ t = Overwrite(s, b.size, data) /\ \A d \in Blocks \ {e} : g[d] = h[d]
      <3> HIDE DEF e
      <3> QED BY <2>2, OverwriteBlock
    <2>4. \A i \in 1..Len(s) : t[i] = IF i \in (b.size + 1)..(b.size + Len(data))
                                      THEN data[i - b.size] ELSE s[i]
      BY <2>3 DEF Overwrite
    <2>5. \A i \in 1..n : Contents(h, b)[i] = s[b.offset + i]
      BY <1>8, ContentsElements DEF n
    <2>6. \A i \in 1..(n + Len(data)) : x[i] = t[b.offset + i]
      <3>1. Size(m.buf) = n + Len(data)
        BY <1>2, <1>3 DEF Size
      <3>2. \A i \in 1..Size(m.buf) :
              x[i] = m.heap[m.buf.data].bytes[m.buf.offset + i]
        BY <1>2, <1>8, ContentsElements
      <3> QED BY <1>1, <1>2, <3>1, <3>2
    <2> HIDE DEF x, y, s, t, g
    <2>7. \A i \in 1..b.size : t[i] = s[i]
      BY <1>3, <2>1, <2>4
    <2>8. \A i \in 1..Len(x) : x[i] = y[i]
      <3> SUFFICES ASSUME NEW i \in 1..Len(x) PROVE x[i] = y[i]
        OBVIOUS
      <3>1. /\ i \in 1..(n + Len(data)) /\ b.offset + i \in 1..Len(s)
            /\ b.size + Len(data) <= Len(s)
        <4> DEFINE free == FreeSize(h, b)
        <4>1. Len(data) <= free /\ free = Len(s) - b.size /\ free \in Nat
          BY <1>3, <2>1
        <4> HIDE DEF free
        <4>2. i \in 1..(n + Len(data))
          BY <1>6
        <4>3. b.size + Len(data) <= Len(s) /\ n = b.size - b.offset
          BY <1>3, <2>1, <4>1
        <4> DEFINE k == Len(data)
                   l == Len(s)
                   o == b.offset
        <4>4. /\ k \in Nat /\ l \in Nat /\ o \in Nat /\ b.size \in Nat /\ n = b.size - o
              /\ b.size + k <= l /\ i \in 1..(n + k) /\ o <= b.size
          BY <1>3, <2>1, <4>2, <4>3
        <4> HIDE DEF k, l, o
        <4>5. o + i \in 1..l
          BY <4>4
        <4> QED BY <4>4, <4>5 DEF k, l, o
      <3>2. CASE i <= n
        <4>1. b.offset + i \in 1..b.size /\ i \in 1..n
          BY <1>3, <3>1, <3>2
        <4> QED BY <1>5, <2>5, <2>6, <2>7, <3>1, <3>2, <4>1
      <3>3. CASE ~(i <= n)
        <4>1. /\ b.offset + i \in (b.size + 1)..(b.size + Len(data))
              /\ (b.offset + i) - b.size = i - n
          <5>1. i \in Nat /\ i > n /\ i <= n + Len(data) /\ n = b.size - b.offset
            BY <1>3, <3>1, <3>3
          <5> DEFINE k == Len(data)
                     o == b.offset
                     z == b.size
          <5>2. /\ k \in Nat /\ o \in Nat /\ z \in Nat /\ n = z - o /\ o <= z
                /\ i \in Nat /\ i > n /\ i <= n + k
            BY <1>3, <5>1
          <5> HIDE DEF k, o, z
          <5>3. o + i \in (z + 1)..(z + k) /\ (o + i) - z = i - n
            BY <5>2
          <5> QED BY <5>3 DEF k, o, z
        <4> QED BY <1>5, <2>4, <2>6, <3>1, <3>3, <4>1
      <3> QED BY <3>2, <3>3
    <2>9. x = y
      BY <1>5, <1>6, <2>8, SeqEqual
    <2> QED BY <1>1, <2>3, <2>7, <2>9 DEF x, y, s, t, g
  <1> QED BY <1>7, <1>8

\* m.buf is a Buffer of its own that shares the bytes src shows, or the first size of them.
SharesIn(B, h, src, w, size, m) ==
  /\ Shared(B, m.heap, src, [w EXCEPT ![src.data] = @ + 1])
  /\ m.buf \in Pointer /\ m.buf.data = src.data /\ InBounds(m.heap, m.buf)
  /\ Size(m.buf) = IF size = 0 THEN Size(src) ELSE size
  /\ Contents(m.heap, m.buf) = SubSeq(Contents(h, src), 1, Size(m.buf))
  /\ \A d \in Blocks : m.heap[d].bytes = h[d].bytes
  /\ \A d \in Blocks \ {src.data} : m.heap[d] = h[d]

LEMMA SharesFacts ==
  ASSUME NEW B, NEW h, NEW src, NEW w, Shared(B, h, src, w), src.data # Null,
         NEW size \in Nat, size <= Size(src)
  PROVE  SharesIn(B, h, src, w, size, AppendBuffer(h, EmptyBuffer, src, size))
  <1> DEFINE e == src.data
             n == IF size = 0 THEN Size(src) ELSE size
             x == [h[e] EXCEPT !.refs = @ + 1]
             c == [data |-> e, size |-> src.offset + n, offset |-> src.offset]
             v == [w EXCEPT ![e] = @ + 1]
             m == AppendBuffer(h, EmptyBuffer, src, size)
  <1>1. /\ h \in Memory(B) /\ w \in [Blocks -> Nat] /\ Junk \in B /\ src \in Pointer
        /\ \A d \in Blocks : h[d].refs = w[d] + Points(src, d) /\ InBounds(h, src)
    BY DEF Shared
  <1>2. /\ e \in Blocks /\ src.size \in Nat /\ src.offset \in Nat /\ src.offset <= src.size
        /\ Size(src) \in Nat /\ src.size <= Len(h[e].bytes) /\ h[e] \in Block(B)
    BY SharedFacts
  <1>3. n \in Nat /\ src.offset + n <= src.size
    BY <1>2 DEF Size
  <1>4. m.heap = IncrRef(h, e) /\ m.buf = c
    BY DEF AppendBuffer, EmptyBuffer
  <1> HIDE DEF n, m
  <1>5. x \in Block(B) /\ x.refs = h[e].refs + 1 /\ x.bytes = h[e].bytes
    BY <1>2 DEF Block
  <1>6. IncrRef(h, e) = [h EXCEPT ![e] = x]
    BY <1>1, <1>2 DEF IncrRef, Memory
  <1>7. c \in Pointer /\ c.data = e /\ c.size = src.offset + n /\ c.offset = src.offset
        /\ Size(c) = n
    BY <1>2, <1>3 DEF Pointer, Size
  <1>8. v \in [Blocks -> Nat] /\ v[e] = w[e] + 1 /\ \A d \in Blocks \ {e} : v[d] = w[d]
    BY <1>1, <1>2
  <1>9. h[e].refs = w[e] + 1 /\ e # Null
    BY <1>1, <1>2 DEF Points
  <1>10. \A d \in Blocks \ {e} : Points(src, d) = 0
    BY DEF Points
  <1> HIDE DEF e, x, c, v
  <1>11. /\ m.heap \in Memory(B) /\ m.heap[e] = x /\ \A d \in Blocks \ {e} : m.heap[d] = h[d]
    <2>1. h \in Memory(B) /\ e \in Blocks /\ x \in Block(B)
      BY <1>1, <1>2, <1>5
    <2>2. /\ [h EXCEPT ![e] = x] \in Memory(B) /\ [h EXCEPT ![e] = x][e] = x
          /\ \A d \in Blocks \ {e} : [h EXCEPT ![e] = x][d] = h[d]
      BY <2>1, BlockChange
    <2> QED BY <1>4, <1>6, <2>2
  <1>12. \A d \in Blocks : m.heap[d].bytes = h[d].bytes
    BY <1>5, <1>11
  <1>13. InBounds(m.heap, src) /\ InBounds(m.heap, c)
    <2>1. InBounds(m.heap, src)
      BY <1>1, <1>2, <1>9, <1>12 DEF InBounds, Capacity, e
    <2>2. c.size <= Len(m.heap[e].bytes) /\ c.offset <= c.size
      BY <1>2, <1>3, <1>7, <1>12
    <2> QED BY <1>2, <1>7, <1>9, <2>1, <2>2 DEF InBounds, Capacity
  <1>14. \A d \in Blocks : m.heap[d].refs = v[d] + Points(src, d)
    <2>1. m.heap[e].refs = v[e] + Points(src, e)
      BY <1>1, <1>2, <1>5, <1>8, <1>9, <1>11 DEF Points, e
    <2>2. \A d \in Blocks \ {e} : m.heap[d].refs = v[d] + Points(src, d)
      BY <1>1, <1>8, <1>11
    <2> QED BY <2>1, <2>2
  <1>15. Shared(B, m.heap, src, v)
    BY <1>1, <1>8, <1>11, <1>13, <1>14 DEF Shared
  <1>16. Contents(m.heap, c) = SubSeq(Contents(h, src), 1, n)
    <2> DEFINE s == h[e].bytes
               i == src.offset
               k == src.size
    <2>1. Contents(m.heap, c) = SubSeq(s, i + 1, i + n)
      BY <1>2, <1>7, <1>9, <1>12 DEF Contents
    <2>2. Contents(h, src) = SubSeq(s, i + 1, k)
      BY <1>9 DEF Contents, e
    <2>3. s \in Seq(B) /\ k \in 0..Len(s) /\ i \in 0..k /\ n \in 0..(k - i)
      BY <1>2, <1>3 DEF Block
    <2> HIDE DEF s, i, k
    <2>4. SubSeq(SubSeq(s, i + 1, k), 1, n) = SubSeq(s, i + 1, i + n)
      BY <2>3, CutBehind
    <2> QED BY <2>1, <2>2, <2>4
  <1> QED
    BY <1>4, <1>7, <1>11, <1>12, <1>13, <1>15, <1>16 DEF e, v, n, m, SharesIn

\* Buffers on one block can stand in for each other.
LEMMA SameBlock ==
  ASSUME NEW B, NEW h, NEW b, NEW w, Shared(B, h, b, w),
         NEW c \in Pointer, c.data = b.data, InBounds(h, c)
  PROVE  Shared(B, h, c, w)
  <1>1. \A d : Points(c, d) = Points(b, d)
    BY DEF Points
  <1> QED BY <1>1 DEF Shared

\* A free block stays free while the others look into what they looked into.
LEMMA StaysFree ==
  ASSUME NEW d \in Blocks,
         NEW B, NEW h, NEW b, NEW w, Shared(B, h, b, w), h[d].refs = 0,
         NEW g, NEW c, NEW v, Shared(B, g, c, v), c.data = b.data, v[d] = 0
  PROVE  g[d].refs = 0
  <1>1. /\ h[d].refs = w[d] + Points(b, d) /\ w[d] \in Nat /\ Points(b, d) \in Nat
        /\ g[d].refs = v[d] + Points(c, d) /\ Points(c, d) = Points(b, d)
    BY DEF Shared, Points
  <1> QED BY <1>1

--------------------------------------------------------------------------------
(* Parser: what it finds in the bytes. *)

\* What the bytes of requests and replies are made of, and what can be wrong with them.
Kinds == {"junk", "byte", "cr", "lf", "sp", "*", "$", "+", "-", ":"}

Errors == {"OK", "TryAgain", "OutOfBound", "unpredictable", "complete", "Unknown"}

LEMMA FlattenFacts ==
  ASSUME NEW B, NEW seqs \in Seq(Seq(B))
  PROVE  FlattenSeq(seqs) \in Seq(B)
  <1> DEFINE n == Len(seqs)
             m == n - 1
             Right(f) == f = [i \in 1..n |-> IF i = 1 THEN seqs[i] ELSE f[i - 1] \o seqs[i]]
             flatten == CHOOSE f : Right(f)
             G == [x \in (1..m) \X Seq(B) |-> x[2] \o seqs[x[1] + 1]]
  <1>1. CASE n = 0
    <2>1. seqs = <<>> /\ FlattenSeq(seqs) = seqs
      BY <1>1 DEF FlattenSeq
    <2>2. <<>> \in Seq(B)
      OBVIOUS
    <2> HIDE DEF n
    <2> QED BY <2>1, <2>2
  <1>2. CASE n # 0
    <2>1. FlattenSeq(seqs) = flatten[n]
      BY <1>2 DEF FlattenSeq
    <2>2. n \in Nat /\ n >= 1 /\ m \in Nat /\ \A i \in 1..n : seqs[i] \in Seq(B)
      BY <1>2
    <2> HIDE DEF n
    <2>3. \A k \in 1..m : k + 1 \in 1..n
      BY <2>2
    <2>4. G \in [(1..m) \X Seq(B) -> Seq(B)]
      BY <2>2, <2>3
    <2>5. \A k \in 1..m, s \in Seq(B) : G[<<k, s>>] = s \o seqs[k + 1]
      OBVIOUS
    <2> HIDE DEF G
    <2>6. PICK f \in [0..m -> Seq(B)] : StepsBy(f, seqs[1], m, G)
      <3>1. seqs[1] \in Seq(B) /\ m \in Nat
        BY <2>2
      <3> QED BY <2>4, <3>1, Stepped
    <2>7. f[0] = seqs[1] /\ \A k \in 1..m : f[k] = f[k - 1] \o seqs[k + 1]
      <3>1. \A k \in 1..m : f[k - 1] \in Seq(B)
        BY <2>2
      <3> QED BY <2>5, <2>6, <3>1 DEF StepsBy
    <2> DEFINE g == [i \in 1..n |-> f[i - 1]]
    <2>8. ASSUME NEW i \in 1..n PROVE g[i] = IF i = 1 THEN seqs[i] ELSE g[i - 1] \o seqs[i]
      <3>1. CASE i = 1
        BY <2>2, <2>7, <3>1
      <3>2. CASE i # 1
        <4>1. i - 1 \in 1..m /\ i - 1 \in 1..n /\ (i - 1) + 1 = i
          BY <2>2, <3>2
        <4>2. f[i - 1] = f[(i - 1) - 1] \o seqs[i]
          BY <2>7, <4>1
        <4>3. g[i] = f[i - 1] /\ g[i - 1] = f[(i - 1) - 1]
          BY <4>1
        <4> QED BY <3>2, <4>2, <4>3
      <3> QED BY <3>1, <3>2
    <2>9. Right(g)
      BY <2>8
    <2>10. Right(flatten)
      BY <2>9
    <2> HIDE DEF flatten
    <2> DEFINE W == {x \in Nat \X Seq(B) : TRUE}
               h == [k \in 0..m |-> flatten[k + 1]]
    <2>11. flatten[1] = seqs[1] /\ \A i \in 2..n : flatten[i] = flatten[i - 1] \o seqs[i]
      <3>1. \A i \in 1..n : flatten[i] = IF i = 1 THEN seqs[i] ELSE flatten[i - 1] \o seqs[i]
        BY <2>10
      <3>2. 1 \in 1..n /\ \A i \in 2..n : i \in 1..n /\ i # 1
        BY <2>2
      <3> QED BY <3>1, <3>2
    <2>12. <<0, h[0]>> \in W
      BY <2>2, <2>11
    <2>13. ASSUME NEW k \in 1..m, <<k - 1, h[k - 1]>> \in W PROVE <<k, h[k]>> \in W
      <3>1. k + 1 \in 2..n /\ k + 1 \in 1..n /\ (k + 1) - 1 = k /\ k - 1 \in 0..m
            /\ k \in 0..m /\ (k - 1) + 1 = k
        BY <2>2
      <3>2. flatten[k + 1] = flatten[k] \o seqs[k + 1]
        BY <2>11, <3>1
      <3>3. h[k] = h[k - 1] \o seqs[k + 1]
        BY <3>1, <3>2
      <3>4. h[k - 1] \in Seq(B) /\ seqs[k + 1] \in Seq(B)
        BY <2>2, <2>13, <3>1
      <3> HIDE DEF h
      <3>5. h[k] \in Seq(B) /\ k \in Nat
        <4>1. \A x, y \in Seq(B) : x \o y \in Seq(B)
          OBVIOUS
        <4> QED BY <2>2, <3>3, <3>4, <4>1
      <3> QED BY <3>5
    <2>14. h[m] = flatten[n]
      BY <2>2
    <2> HIDE DEF W, h, m
    <2>15. <<m, h[m]>> \in W
      <3>1. m \in Nat
        BY <2>2
      <3> QED BY <2>12, <2>13, <3>1, StepInvariance
    <2> QED BY <2>1, <2>14, <2>15 DEF W
  <1> QED BY <1>1, <1>2

\* The first k of the sequences E, one behind the other.
Flat(E, k) == FlattenSeq([d \in 1..k |-> E[d]])

LEMMA FlatFacts ==
  ASSUME NEW B, NEW n \in Nat, NEW E \in [1..n -> Seq(B)]
  PROVE  /\ Flat(E, 0) = <<>>
         /\ \A k \in 0..n : Flat(E, k) \in Seq(B)
         /\ \A k \in 1..n : Flat(E, k) = Flat(E, k - 1) \o E[k]
  <1> DEFINE G == [x \in (1..n) \X Seq(B) |-> x[2] \o E[x[1]]]
             Right(g, k) == g = [i \in 1..k |-> IF i = 1 THEN E[i] ELSE g[i - 1] \o E[i]]
  <1>1. G \in [(1..n) \X Seq(B) -> Seq(B)] /\ <<>> \in Seq(B)
    OBVIOUS
  <1>2. \A k \in 1..n, s \in Seq(B) : G[<<k, s>>] = s \o E[k]
    OBVIOUS
  <1> HIDE DEF G
  <1>3. PICK f \in [0..n -> Seq(B)] : StepsBy(f, <<>>, n, G)
    BY <1>1, Stepped
  <1>4. f[0] = <<>> /\ \A k \in 1..n : f[k] = f[k - 1] \o E[k]
    <2>1. \A k \in 1..n : f[k - 1] \in Seq(B)
      BY <1>3
    <2> QED BY <1>2, <1>3, <2>1 DEF StepsBy
  <1>5. Flat(E, 0) = <<>>
    <2>1. [d \in 1..0 |-> E[d]] = <<>>
      OBVIOUS
    <2> QED BY <2>1 DEF Flat, FlattenSeq
  <1>6. ASSUME NEW k \in 1..n PROVE Flat(E, k) = f[k]
    <2> DEFINE seqs == [d \in 1..k |-> E[d]]
               flatten == CHOOSE g : Right(g, k)
               h == [i \in 1..k |-> f[i]]
    <2>1. k \in Nat /\ k >= 1 /\ \A i \in 1..k : i \in 1..n
      OBVIOUS
    <2>2. seqs \in Seq(Seq(B)) /\ Len(seqs) = k /\ \A i \in 1..k : seqs[i] = E[i]
      BY <2>1
    <2>3. FlattenSeq(seqs) = flatten[k]
      <3> DEFINE plain == CHOOSE g : g = [i \in 1..Len(seqs) |->
                                            IF i = 1 THEN seqs[i] ELSE g[i - 1] \o seqs[i]]
      <3>1. FlattenSeq(seqs) = plain[Len(seqs)]
        BY <2>1, <2>2 DEF FlattenSeq
      <3> HIDE DEF seqs
      <3>2. \A g : [i \in 1..Len(seqs) |-> IF i = 1 THEN seqs[i] ELSE g[i - 1] \o seqs[i]]
                     = [i \in 1..k |-> IF i = 1 THEN E[i] ELSE g[i - 1] \o E[i]]
        BY <2>2
      <3>3. plain = flatten
        BY <3>2
      <3> HIDE DEF plain, flatten
      <3> QED BY <2>2, <3>1, <3>3
    <2>4. Right(h, k)
      <3>1. ASSUME NEW i \in 1..k
            PROVE  h[i] = IF i = 1 THEN E[i] ELSE h[i - 1] \o E[i]
        <4>1. i \in 1..n /\ E[i] \in Seq(B) /\ f[i] = f[i - 1] \o E[i]
          BY <1>4, <2>1
        <4>2. CASE i = 1
          <5>1. f[1] = f[1 - 1] \o E[1] /\ 1 - 1 = 0
            BY <4>1, <4>2
          <5>2. f[1] = <<>> \o E[1]
            BY <1>4, <5>1
          <5> QED BY <4>1, <4>2, <5>2, ConcatEmptySeq
        <4>3. CASE i # 1
          <5>1. i - 1 \in 1..k
            BY <4>3
          <5> QED BY <4>1, <4>3, <5>1
        <4> QED BY <4>2, <4>3
      <3> QED BY <3>1
    <2>5. Right(flatten, k)
      BY <2>4
    <2> HIDE DEF flatten, h
    <2>6. \A i \in 1..k : flatten[i] = IF i = 1 THEN E[i] ELSE flatten[i - 1] \o E[i]
      BY <2>5
    <2> DEFINE S == {i \in Nat : i + 1 <= k => flatten[i + 1] = f[i + 1]}
    <2>7. 0 \in S
      <3>1. flatten[1] = E[1] /\ 1 \in 1..n /\ E[1] \in Seq(B)
        BY <2>1, <2>6
      <3>2. \A i \in 1..n : i = 1 => f[i] = <<>> \o E[i]
        <4> SUFFICES ASSUME NEW i \in 1..n, i = 1 PROVE f[i] = <<>> \o E[i]
          OBVIOUS
        <4>1. i - 1 = 0
          OBVIOUS
        <4> QED BY <1>4, <4>1
      <3>3. f[1] = <<>> \o E[1]
        BY <3>1, <3>2
      <3> QED BY <3>1, <3>3, ConcatEmptySeq
    <2>8. ASSUME NEW i \in Nat, i \in S PROVE i + 1 \in S
      <3> SUFFICES ASSUME (i + 1) + 1 <= k PROVE flatten[(i + 1) + 1] = f[(i + 1) + 1]
        OBVIOUS
      <3> DEFINE j == (i + 1) + 1
      <3>1. j \in 1..k /\ j \in 1..n /\ j # 1 /\ j - 1 = i + 1 /\ i + 1 <= k
        BY <2>1
      <3>2. flatten[i + 1] = f[i + 1]
        BY <2>8, <3>1
      <3> HIDE DEF j
      <3>3. flatten[j] = flatten[j - 1] \o E[j] /\ f[j] = f[j - 1] \o E[j]
        BY <1>4, <2>6, <3>1
      <3>4. flatten[j] = f[j]
        BY <3>1, <3>2, <3>3
      <3> QED BY <3>4 DEF j
    <2> HIDE DEF S
    <2>9. k - 1 \in S
      <3>1. k - 1 \in Nat
        BY <2>1
      <3> QED BY <2>7, <2>8, <3>1, SetInduction
    <2>10. flatten[k] = f[k]
      <3>1. (k - 1) + 1 = k /\ (k - 1) + 1 <= k
        BY <2>1
      <3>2. flatten[(k - 1) + 1] = f[(k - 1) + 1]
        BY <2>9, <3>1 DEF S
      <3> QED BY <3>1, <3>2
    <2> QED BY <2>3, <2>10 DEF Flat
  <1>7. \A k \in 0..n : Flat(E, k) = f[k]
    <2>1. \A k \in 0..n : k = 0 \/ k \in 1..n
      OBVIOUS
    <2> QED BY <1>4, <1>5, <1>6, <2>1
  <1>8. \A k \in 1..n : k - 1 \in 0..n /\ k \in 0..n
    OBVIOUS
  <1> QED BY <1>3, <1>4, <1>5, <1>7, <1>8

\* Each of the sequences lies where those before it end.
LaidOut(E, n) ==
  /\ \A k \in 0..n : Len(Flat(E, k)) \in Nat
  /\ \A k \in 1..n : Len(Flat(E, k)) = Len(Flat(E, k - 1)) + Len(E[k])
  /\ \A k, m \in 0..n : k <= m => Len(Flat(E, k)) <= Len(Flat(E, m))
  /\ \A k \in 1..n, m \in 0..n : k <= m =>
       \A j \in 1..Len(E[k]) : Flat(E, m)[Len(Flat(E, k - 1)) + j] = E[k][j]

LEMMA FlatPlaces ==
  ASSUME NEW B, NEW n \in Nat, NEW E \in [1..n -> Seq(B)]
  PROVE  LaidOut(E, n)
  <1> DEFINE F(k) == Flat(E, k)
  <1>1. /\ \A k \in 0..n : F(k) \in Seq(B)
        /\ \A k \in 1..n : F(k) = F(k - 1) \o E[k]
    BY FlatFacts
  <1> HIDE DEF F
  <1>2. \A k \in 0..n : Len(F(k)) \in Nat
    BY <1>1
  <1>3. ASSUME NEW k \in 1..n
        PROVE  /\ Len(F(k)) = Len(F(k - 1)) + Len(E[k])
               /\ \A j \in 1..Len(F(k - 1)) : F(k)[j] = F(k - 1)[j]
               /\ \A j \in 1..Len(E[k]) : F(k)[Len(F(k - 1)) + j] = E[k][j]
    <2>1. k - 1 \in 0..n /\ F(k - 1) \in Seq(B) /\ E[k] \in Seq(B) /\ F(k) = F(k - 1) \o E[k]
      BY <1>1
    <2> DEFINE a == F(k - 1)
               b == E[k]
    <2>2. a \in Seq(B) /\ b \in Seq(B)
      BY <2>1
    <2> HIDE DEF a, b
    <2>3. /\ Len(a \o b) = Len(a) + Len(b)
          /\ \A j \in 1..Len(a) : (a \o b)[j] = a[j]
          /\ \A j \in 1..Len(b) : (a \o b)[Len(a) + j] = b[j]
      BY <2>2
    <2> QED BY <2>1, <2>3 DEF a, b
  <1>4. ASSUME NEW k \in 0..n, NEW m \in 0..n, k <= m
        PROVE  Len(F(k)) <= Len(F(m)) /\ \A j \in 1..Len(F(k)) : F(m)[j] = F(k)[j]
    <2> DEFINE S == {i \in Nat : k + i <= n =>
                       /\ Len(F(k)) <= Len(F(k + i))
                       /\ \A j \in 1..Len(F(k)) : F(k + i)[j] = F(k)[j]}
    <2>1. 0 \in S
      BY <1>2
    <2>2. ASSUME NEW i \in Nat, i \in S PROVE i + 1 \in S
      <3> DEFINE x == k + i + 1
      <3> SUFFICES ASSUME k + (i + 1) <= n
                   PROVE  /\ Len(F(k)) <= Len(F(k + (i + 1)))
                          /\ \A j \in 1..Len(F(k)) : F(k + (i + 1))[j] = F(k)[j]
        OBVIOUS
      <3>1. k + (i + 1) = x /\ x \in 1..n /\ x - 1 = k + i /\ k + i <= n /\ k + i \in 0..n
            /\ x \in 0..n
        OBVIOUS
      <3>2. /\ Len(F(k)) <= Len(F(x - 1))
            /\ \A j \in 1..Len(F(k)) : F(x - 1)[j] = F(k)[j]
        BY <2>2, <3>1
      <3> HIDE DEF x
      <3>3. /\ Len(F(x)) = Len(F(x - 1)) + Len(E[x])
            /\ \A j \in 1..Len(F(x - 1)) : F(x)[j] = F(x - 1)[j]
        BY <1>3, <3>1
      <3>4. Len(E[x]) \in Nat /\ Len(F(x - 1)) \in Nat /\ Len(F(k)) \in Nat
        <4>1. E[x] \in Seq(B) /\ x - 1 \in 0..n
          BY <3>1
        <4> QED BY <1>2, <4>1
      <3>5. \A j \in 1..Len(F(k)) : j \in 1..Len(F(x - 1))
        BY <3>2, <3>4
      <3>6. Len(F(k)) <= Len(F(x))
        <4> DEFINE a == Len(F(k))
                   b == Len(F(x - 1))
                   c == Len(F(x))
                   d == Len(E[x])
        <4>1. a <= b /\ c = b + d /\ a \in Nat /\ b \in Nat /\ d \in Nat
          BY <3>2, <3>3, <3>4
        <4> HIDE DEF a, b, c, d
        <4>2. a <= c
          BY <4>1
        <4> QED BY <4>2 DEF a, c
      <3>7. \A j \in 1..Len(F(k)) : F(x)[j] = F(k)[j]
        BY <3>2, <3>3, <3>5
      <3> QED BY <3>1, <3>6, <3>7
    <2> HIDE DEF S
    <2>3. m - k \in S
      <3>1. m - k \in Nat
        BY <1>4
      <3> QED BY <2>1, <2>2, <3>1, SetInduction
    <2>4. k + (m - k) = m
      OBVIOUS
    <2> QED BY <2>3, <2>4 DEF S
  <1>5. ASSUME NEW k \in 1..n, NEW m \in 0..n, k <= m, NEW j \in 1..Len(E[k])
        PROVE  F(m)[Len(F(k - 1)) + j] = E[k][j]
    <2>1. k \in 0..n /\ k - 1 \in 0..n /\ Len(F(k - 1)) \in Nat /\ E[k] \in Seq(B)
      BY <1>2
    <2>2. F(k)[Len(F(k - 1)) + j] = E[k][j] /\ Len(F(k)) = Len(F(k - 1)) + Len(E[k])
      BY <1>3
    <2>3. Len(F(k - 1)) + j \in 1..Len(F(k))
      <3>1. Len(E[k]) \in Nat
        BY <2>1
      <3> QED BY <2>1, <2>2, <3>1
    <2> QED BY <1>4, <1>5, <2>1, <2>2, <2>3
  <1> QED BY <1>2, <1>3, <1>4, <1>5 DEF F, LaidOut

LEMMA UnreadIn ==
  ASSUME NEW B, NEW r, NEW w, Shared(B, r.heap, r.input, w), r.at \in Nat,
         r.at <= Size(r.input)
  PROVE  /\ Unread(r) \in Seq(B) /\ Len(Unread(r)) = Size(r.input) - r.at
         /\ Len(Unread(r)) \in Nat /\ Size(r.input) \in Nat
         /\ r.at + Len(Unread(r)) = Size(r.input)
  <1> DEFINE c == Contents(r.heap, r.input)
  <1>1. c \in Seq(B) /\ Len(c) = Size(r.input)
    BY ContentsFacts
  <1>2. Unread(r) = SubSeq(c, r.at + 1, Len(c))
    BY DEF Unread
  <1> HIDE DEF c
  <1>3. r.at + 1 \in 1..(Len(c) + 1) /\ Len(c) \in ((r.at + 1) - 1)..Len(c)
        /\ Len(c) \in Nat
    BY <1>1
  <1>4. Unread(r) \in Seq(B) /\ Len(Unread(r)) = Len(c) - r.at
    <2>1. /\ SubSeq(c, r.at + 1, Len(c)) \in Seq(B)
          /\ Len(SubSeq(c, r.at + 1, Len(c))) = Len(c) - (r.at + 1) + 1
      BY <1>1, <1>3, SubSeqProperties
    <2> QED BY <1>2, <1>3, <2>1
  <1> QED BY <1>1, <1>3, <1>4

LEMMA FindFacts ==
  ASSUME NEW B, NEW data \in Seq(B), NEW b
  PROVE  /\ Find(data, b) \in 0..Len(data)
         /\ Find(data, b) # 0 => Find(data, b) \in 1..Len(data) /\ data[Find(data, b)] = b
  <1> DEFINE I == {i \in 1..Len(data) : data[i] = b}
  <1>1. Find(data, b) = IF I # {} THEN Min(I) ELSE 0
    BY DEF Find, SelectInSeq
  <1>2. Len(data) \in Nat /\ I \subseteq Nat /\ I \subseteq 1..Len(data)
    OBVIOUS
  <1>3. CASE I = {}
    BY <1>1, <1>2, <1>3
  <1>4. CASE I # {}
    <2>1. \E m \in I : \A k \in I : m <= k
      BY <1>2, <1>4, Least
    <2>2. Min(I) \in I
      BY <2>1 DEF Min
    <2> QED BY <1>1, <1>2, <1>4, <2>2
  <1> QED BY <1>3, <1>4

LEMMA LengthLineFacts ==
  ASSUME NEW V, 0 \in V, NEW data \in Seq(Kinds \X V)
  PROVE  /\ LengthLine(data).err \in Errors /\ LengthLine(data).bytes \in 0..Len(data)
         /\ LengthLine(data).value \in V
         /\ LengthLine(data).err = "OK" => LengthLine(data).bytes > 0
         /\ LengthLine(data).err # "OK" => LengthLine(data).value = 0
  <1> DEFINE end == Find(data, Lf)
             line == LineUpTo(data, end)
  <1>1. end \in 0..Len(data) /\ Len(data) \in Nat
    BY FindFacts
  <1>2. LengthLine(data) = line
    BY DEF LengthLine
  <1> HIDE DEF end
  <1>3. \A e \in Errors : /\ Fails(e).err \in Errors /\ Fails(e).bytes = 0
                          /\ Fails(e).value = 0 /\ Fails(e).err = e
    BY DEF Fails
  <1>4. CASE line = Fails("OutOfBound") \/ line = Fails("TryAgain")
             \/ line = Fails("unpredictable")
    <2>1. "OutOfBound" \in Errors /\ "TryAgain" \in Errors /\ "unpredictable" \in Errors
      BY DEF Errors
    <2> HIDE DEF line
    <2> QED BY <1>1, <1>2, <1>3, <1>4, <2>1
  <1>5. CASE /\ data # <<>> /\ end # 0
             /\ line = [err |-> "OK", bytes |-> end, value |-> data[1][2]]
    <2>1. data[1] \in Kinds \X V
      BY <1>5
    <2>2. data[1][2] \in V
      BY <2>1
    <2>3. "OK" \in Errors
      BY DEF Errors
    <2> HIDE DEF line
    <2> QED BY <1>1, <1>2, <1>5, <2>2, <2>3
  <1>6. \/ line = Fails("OutOfBound") \/ line = Fails("TryAgain")
        \/ line = Fails("unpredictable")
        \/ /\ data # <<>> /\ end # 0
           /\ line = [err |-> "OK", bytes |-> end, value |-> data[1][2]]
    BY DEF LineUpTo
  <1> QED BY <1>4, <1>5, <1>6

\* The first of the bytes b is the one that is found.
LEMMA FindFirst ==
  ASSUME NEW B, NEW data \in Seq(B), NEW b, NEW k \in 1..Len(data), data[k] = b,
         \A i \in 1..Len(data) : i < k => data[i] # b
  PROVE  Find(data, b) = k
  <1> DEFINE I == {i \in 1..Len(data) : data[i] = b}
  <1>1. Find(data, b) = IF I # {} THEN Min(I) ELSE 0
    BY DEF Find, SelectInSeq
  <1>2. k \in I /\ I \subseteq Nat /\ \A i \in I : k <= i
    OBVIOUS
  <1> HIDE DEF I
  <1>3. Min(I) \in I /\ \A i \in I : Min(I) <= i
    BY <1>2 DEF Min
  <1>4. Min(I) = k
    <2> DEFINE m == Min(I)
    <2>1. m \in Nat /\ k \in Nat /\ m <= k /\ k <= m
      BY <1>2, <1>3
    <2> HIDE DEF m
    <2>2. m = k
      BY <2>1
    <2> QED BY <2>2 DEF m
  <1> QED BY <1>1, <1>2, <1>4

LEMMA FindNone ==
  ASSUME NEW B, NEW data \in Seq(B), NEW b, \A i \in 1..Len(data) : data[i] # b
  PROVE  Find(data, b) = 0
  BY DEF Find, SelectInSeq

\* A length line whose header is h, or the beginning of it.
LEMMA LineFound ==
  ASSUME NEW V, NEW data \in Seq(Kinds \X V), NEW h \in Headers \X V,
         Len(data) >= 1 => data[1] = h, Len(data) >= 2 => data[2] = Lf
  PROVE  /\ Len(data) = 0 => LengthLine(data) = Fails("OutOfBound") /\ Find(data, Lf) = 0
         /\ Len(data) = 1 => LengthLine(data) = Fails("TryAgain") /\ Find(data, Lf) = 0
         /\ Len(data) >= 2 => /\ LengthLine(data) = [err |-> "OK", bytes |-> 2, value |-> h[2]]
                              /\ Find(data, Lf) = 2
  <1>1. h # Lf /\ h[1] \in Headers
    BY DEF Headers, Lf
  <1>2. Len(data) \in Nat /\ (Len(data) = 0 <=> data = <<>>)
    OBVIOUS
  <1>3. CASE Len(data) = 0
    <2>1. \A i \in 1..Len(data) : data[i] # Lf
      BY <1>3
    <2>3. Find(data, Lf) = 0
      BY <2>1, FindNone
    <2> QED BY <1>2, <1>3, <2>3 DEF LengthLine, LineUpTo
  <1>4. CASE Len(data) = 1
    <2>1. \A i \in 1..Len(data) : data[i] # Lf
      BY <1>1, <1>4
    <2>2. Find(data, Lf) = 0
      BY <2>1, FindNone
    <2> QED BY <1>2, <1>4, <2>2 DEF LengthLine, LineUpTo
  <1>5. CASE Len(data) >= 2
    <2>1. 2 \in 1..Len(data) /\ data[2] = Lf /\ data[1] = h
      BY <1>2, <1>5
    <2>2. \A i \in 1..Len(data) : i < 2 => data[i] # Lf
      BY <1>1, <2>1
    <2>3. Find(data, Lf) = 2
      BY <2>1, <2>2, FindFirst
    <2>4. data # <<>> /\ data[1][1] \in Headers /\ data[1][2] = h[2]
      BY <1>1, <1>2, <1>5, <2>1
    <2> QED BY <1>2, <1>5, <2>3, <2>4 DEF LengthLine, LineUpTo
  <1> QED BY <1>2, <1>3, <1>4, <1>5

\* What begins with the end of a line is no length line.
LEMMA NoLine ==
  ASSUME NEW V, NEW data \in Seq(Kinds \X V), Len(data) >= 1 => data[1] = Cr
  PROVE  /\ Len(data) = 0 => LengthLine(data) = Fails("OutOfBound")
         /\ Len(data) >= 1 => \/ LengthLine(data) = Fails("TryAgain")
                              \/ LengthLine(data) = Fails("unpredictable")
  <1>1. Len(data) \in Nat /\ (Len(data) = 0 <=> data = <<>>) /\ Cr[1] \notin Headers
    BY DEF Cr, Headers
  <1> QED BY <1>1 DEF LengthLine, LineUpTo

--------------------------------------------------------------------------------
(* The parse of a client's requests: its bytes. *)

Byte == Kinds \X Nat

--------------------------------------------------------------------------------
(* The Buffers of a session: the arguments args, and the input b. *)

Held(args, d) == Cardinality({i \in 1..Len(args) : args[i].data = d})

HeldBy(args) == [d \in Blocks |-> Held(args, d)]

LEMMA HeldFacts ==
  ASSUME NEW args \in Seq(Pointer), NEW d
  PROVE  /\ Held(args, d) \in Nat
         /\ \A i \in 1..Len(args) : args[i].data = d => Held(args, d) > 0
  <1> DEFINE S == {i \in 1..Len(args) : args[i].data = d}
  <1>1. Len(args) \in Nat
    OBVIOUS
  <1>2. IsFiniteSet(1..Len(args)) /\ S \in SUBSET (1..Len(args))
    BY <1>1, FS_Interval
  <1>3. IsFiniteSet(S)
    BY <1>2, FS_Subset
  <1>4. Cardinality(S) \in Nat /\ (Cardinality(S) = 0 <=> S = {})
    BY <1>3, FS_CardinalityType, FS_EmptySet, Zenon
  <1>5. \A i \in 1..Len(args) : args[i].data = d => i \in S
    OBVIOUS
  <1> HIDE DEF S
  <1>6. \A i \in 1..Len(args) : args[i].data = d => Cardinality(S) > 0
    BY <1>4, <1>5
  <1> QED BY <1>4, <1>6 DEF Held, S

LEMMA HeldNone == \A d : Held(<<>>, d) = 0
  <1>1. ASSUME NEW d PROVE {i \in 1..Len(<<>>) : <<>>[i].data = d} = {}
    OBVIOUS
  <1> QED BY <1>1, FS_EmptySet, Zenon DEF Held

LEMMA HeldMore ==
  ASSUME NEW args \in Seq(Pointer), NEW b \in Pointer, NEW d
  PROVE  Held(Append(args, b), d) = Held(args, d) + Points(b, d)
  <1> DEFINE S == {i \in 1..Len(args) : args[i].data = d}
             n == Len(args) + 1
             T == {i \in 1..Len(Append(args, b)) : Append(args, b)[i].data = d}
  <1>1. Len(args) \in Nat
    OBVIOUS
  <1>2. IsFiniteSet(1..Len(args)) /\ S \in SUBSET (1..Len(args))
    BY <1>1, FS_Interval
  <1>3. IsFiniteSet(S) /\ Cardinality(S) \in Nat
    BY <1>2, FS_Subset, FS_CardinalityType
  <1>4. n \notin S
    BY <1>1
  <1>5. /\ Len(Append(args, b)) = n /\ Append(args, b)[n] = b
        /\ \A i \in 1..Len(args) : Append(args, b)[i] = args[i]
    OBVIOUS
  <1>6. CASE b.data = d
    <2>1. T = S \union {n}
      BY <1>1, <1>5, <1>6
    <2> HIDE DEF S, T, n
    <2>2. Cardinality(T) = Cardinality(S) + 1
      BY <1>3, <1>4, <2>1, FS_AddElement, Zenon
    <2> QED BY <1>6, <2>2, Zenon DEF Held, Points, S, T
  <1>7. CASE b.data # d
    <2>1. T = S
      BY <1>1, <1>5, <1>7
    <2> HIDE DEF S, T, n
    <2>2. Cardinality(T) = Cardinality(S) + 0
      BY <1>3, <2>1
    <2> QED BY <1>7, <2>2, Zenon DEF Held, Points, S, T
  <1> QED BY <1>6, <1>7

\* A block has one reference for the input and one for each argument that looks into it.
Sound(B, h, args, b) ==
  /\ args \in Seq(Pointer)
  /\ Shared(B, h, b, HeldBy(args))
  /\ \A i \in 1..Len(args) : InBounds(h, args[i])

LEMMA HeldByFacts ==
  ASSUME NEW args \in Seq(Pointer)
  PROVE  /\ HeldBy(args) \in [Blocks -> Nat]
         /\ \A d \in Blocks : HeldBy(args)[d] = Held(args, d)
  BY HeldFacts DEF HeldBy

\* The arguments stay in bounds while others than they keep what is theirs.
LEMMA SoundKept ==
  ASSUME NEW B, NEW h, NEW args, NEW b, Sound(B, h, args, b),
         NEW m, NEW c, Shared(B, m, c, HeldBy(args)), Spared(h, m, HeldBy(args))
  PROVE  Sound(B, m, args, c)
  <1>1. args \in Seq(Pointer) /\ \A i \in 1..Len(args) : InBounds(h, args[i])
    BY DEF Sound
  <1>2. ASSUME NEW i \in 1..Len(args) PROVE InBounds(m, args[i])
    <2>1. InBounds(h, args[i]) /\ args[i] \in Pointer
      BY <1>1
    <2>2. CASE args[i].data = Null
      BY <2>1, <2>2 DEF InBounds, Capacity
    <2>3. CASE args[i].data # Null
      <3>1. args[i].data \in Blocks
        BY <2>1, <2>3 DEF Pointer
      <3>2. HeldBy(args)[args[i].data] > 0
        BY <1>1, <3>1, HeldFacts, HeldByFacts
      <3>3. Len(m[args[i].data].bytes) = Len(h[args[i].data].bytes)
        BY <3>1, <3>2 DEF Spared
      <3> QED BY <2>1, <2>3, <3>3 DEF InBounds, Capacity
    <2> QED BY <2>2, <2>3
  <1> QED BY <1>1, <1>2 DEF Sound

\* An argument more, cut from the input.
LEMMA SoundMore ==
  ASSUME NEW B, NEW h, NEW args, NEW b, Sound(B, h, args, b), b.data # Null,
         NEW a \in Pointer, a.data = b.data, NEW m, InBounds(m, a),
         \A d \in Blocks : Len(m[d].bytes) = Len(h[d].bytes),
         Shared(B, m, b, [HeldBy(args) EXCEPT ![b.data] = @ + 1])
  PROVE  Sound(B, m, Append(args, a), b)
  <1> DEFINE v == [HeldBy(args) EXCEPT ![b.data] = @ + 1]
             more == Append(args, a)
  <1>1. args \in Seq(Pointer) /\ \A i \in 1..Len(args) : InBounds(h, args[i])
    BY DEF Sound
  <1>2. /\ more \in Seq(Pointer) /\ Len(more) = Len(args) + 1 /\ Len(args) \in Nat
        /\ more[Len(args) + 1] = a /\ \A i \in 1..Len(args) : more[i] = args[i]
    BY <1>1
  <1>3. v = HeldBy(more)
    <2>1. \A d \in Blocks : HeldBy(more)[d] = HeldBy(args)[d] + Points(a, d)
      BY <1>1, <1>2, HeldMore, HeldByFacts, Zenon
    <2>2. HeldBy(more) \in [Blocks -> Nat] /\ HeldBy(args) \in [Blocks -> Nat]
      BY <1>1, <1>2, HeldByFacts, Zenon
    <2> HIDE DEF more
    <2>3. \A d \in Blocks : v[d] = HeldBy(more)[d]
      BY <2>1, <2>2 DEF Points
    <2> QED BY <2>2, <2>3
  <1>4. ASSUME NEW i \in 1..Len(more) PROVE InBounds(m, more[i])
    <2>1. CASE i = Len(args) + 1
      BY <1>2, <2>1
    <2>2. CASE i \in 1..Len(args)
      <3>1. InBounds(h, args[i]) /\ args[i] \in Pointer /\ more[i] = args[i]
        BY <1>1, <1>2, <2>2
      <3>2. CASE args[i].data = Null
        BY <3>1, <3>2 DEF InBounds, Capacity
      <3>3. CASE args[i].data # Null
        <4>1. Len(m[args[i].data].bytes) = Len(h[args[i].data].bytes)
          BY <3>1, <3>3, Zenon DEF Pointer
        <4> QED BY <3>1, <3>3, <4>1 DEF InBounds, Capacity
      <3> QED BY <3>2, <3>3
    <2> QED BY <1>2, <2>1, <2>2
  <1> HIDE DEF more, v
  <1>5. Shared(B, m, b, HeldBy(more))
    BY <1>3, Zenon DEF v
  <1>6. Sound(B, m, more, b)
    BY <1>2, <1>4, <1>5 DEF Sound
  <1> QED BY <1>6 DEF more

\* What a parse and the growth of the buffer keep is what BlocksAccounted says.
LEMMA SoundCounted ==
  ASSUME NEW B, NEW h, NEW args, NEW b, Sound(B, h, args, b)
  PROVE  Counted(h, Append(args, b))
  <1> DEFINE all == Append(args, b)
  <1>1. /\ args \in Seq(Pointer) /\ b \in Pointer /\ InBounds(h, b)
        /\ \A i \in 1..Len(args) : InBounds(h, args[i])
        /\ \A d \in Blocks : h[d].refs = HeldBy(args)[d] + Points(b, d)
    BY DEF Sound, Shared
  <1>2. /\ Len(all) = Len(args) + 1 /\ Len(args) \in Nat /\ all[Len(args) + 1] = b
        /\ \A i \in 1..Len(args) : all[i] = args[i]
    BY <1>1
  <1>3. \A i \in 1..Len(all) : InBounds(h, all[i])
    <2> HIDE DEF all
    <2> SUFFICES ASSUME NEW i \in 1..Len(all) PROVE InBounds(h, all[i])
      OBVIOUS
    <2>1. i = Len(args) + 1 \/ i \in 1..Len(args)
      BY <1>2
    <2> QED BY <1>1, <1>2, <2>1
  <1>4. \A d \in Blocks : h[d].refs = Held(all, d)
    BY <1>1, HeldMore, HeldByFacts
  <1> QED BY <1>3, <1>4, Zenon DEF Counted, Held

\* Cmd::Reset, argument by argument.
HeldFrom(args, k, d) == Cardinality({i \in (k + 1)..Len(args) : args[i].data = d})

HeldByFrom(args, k) == [d \in Blocks |-> HeldFrom(args, k, d)]

LEMMA HeldFromFacts ==
  ASSUME NEW args \in Seq(Pointer), NEW d
  PROVE  /\ \A k \in 0..Len(args) : HeldFrom(args, k, d) \in Nat
         /\ \A k \in 0..Len(args) :
              \A i \in (k + 1)..Len(args) : args[i].data = d => HeldFrom(args, k, d) > 0
         /\ \A k \in 1..Len(args) :
              HeldFrom(args, k - 1, d) = HeldFrom(args, k, d) + Points(args[k], d)
         /\ HeldFrom(args, 0, d) = Held(args, d)
         /\ HeldFrom(args, Len(args), d) = 0
  <1> DEFINE n == Len(args)
             S(k) == {i \in (k + 1)..n : args[i].data = d}
  <1>1. n \in Nat
    OBVIOUS
  <1>2. \A k \in 0..n : S(k) \in SUBSET (1..n)
    BY <1>1
  <1>3. IsFiniteSet(1..n)
    BY <1>1, FS_Interval
  <1>4. \A k \in 0..n : IsFiniteSet(S(k))
    BY <1>2, <1>3, FS_Subset
  <1>5. ASSUME NEW k \in 0..n
        PROVE  Cardinality(S(k)) \in Nat /\ (Cardinality(S(k)) = 0 <=> S(k) = {})
    <2> HIDE DEF S
    <2> QED BY <1>4, FS_CardinalityType, FS_EmptySet
  <1>6. ASSUME NEW k \in 0..n, NEW i \in (k + 1)..n, args[i].data = d
        PROVE  Cardinality(S(k)) > 0
    <2>1. i \in S(k)
      BY <1>6
    <2> HIDE DEF S
    <2> QED BY <1>5, <2>1
  <1>7. ASSUME NEW k \in 1..n
        PROVE  Cardinality(S(k - 1)) = Cardinality(S(k)) + Points(args[k], d)
    <2>1. k \in 0..n /\ k \notin S(k)
      BY <1>1
    <2>2. IsFiniteSet(S(k)) /\ Cardinality(S(k)) \in Nat
      BY <1>4, <1>5, <2>1
    <2>3. CASE args[k].data = d
      <3>1. S(k - 1) = S(k) \union {k}
        BY <1>1, <2>3
      <3> HIDE DEF S
      <3>2. Cardinality(S(k - 1)) = Cardinality(S(k)) + 1
        BY <2>1, <2>2, <3>1, FS_AddElement
      <3> QED BY <2>3, <3>2 DEF Points
    <2>4. CASE args[k].data # d
      <3>1. S(k - 1) = S(k)
        BY <1>1, <2>4
      <3> HIDE DEF S
      <3>2. Cardinality(S(k - 1)) = Cardinality(S(k)) + 0
        BY <2>2, <3>1
      <3> QED BY <2>4, <3>2 DEF Points
    <2> QED BY <2>3, <2>4
  <1>8. S(0) = {i \in 1..n : args[i].data = d} /\ S(n) = {}
    BY <1>1
  <1>9. Cardinality(S(n)) = 0
    BY <1>8, FS_EmptySet, Zenon
  <1> QED BY <1>5, <1>6, <1>7, <1>8, <1>9, Zenon DEF HeldFrom, Held

LEMMA HeldByFromFacts ==
  ASSUME NEW args \in Seq(Pointer), NEW k \in 0..Len(args)
  PROVE  /\ HeldByFrom(args, k) \in [Blocks -> Nat]
         /\ \A d \in Blocks : HeldByFrom(args, k)[d] = HeldFrom(args, k, d)
  BY HeldFromFacts, Zenon DEF HeldByFrom

\* What is left when the first k arguments are gone.
Undropped(B, args, b, k, m) ==
  /\ Shared(B, m, b, HeldByFrom(args, k))
  /\ \A i \in (k + 1)..Len(args) : InBounds(m, args[i])

LEMMA DropStep ==
  ASSUME NEW B, NEW args \in Seq(Pointer), NEW b, NEW k \in 1..Len(args), NEW m,
         Undropped(B, args, b, k - 1, m)
  PROVE  Undropped(B, args, b, k, Destroyed(m, args[k]))
  <1> DEFINE a == args[k]
             w == [d \in Blocks |-> HeldFrom(args, k, d) + Points(b, d)]
             g == Destroyed(m, a)
  <1>1. k \in 0..Len(args) /\ k - 1 \in 0..Len(args) /\ a \in Pointer /\ Len(args) \in Nat
    OBVIOUS
  <1>2. /\ Junk \in B /\ m \in Memory(B) /\ b \in Pointer /\ InBounds(m, b)
        /\ \A d \in Blocks : m[d].refs = HeldByFrom(args, k - 1)[d] + Points(b, d)
        /\ InBounds(m, a) /\ \A i \in (k + 1)..Len(args) : InBounds(m, args[i])
    BY <1>1 DEF Undropped, Shared
  <1>3. \A d \in Blocks : /\ HeldFrom(args, k, d) \in Nat
                          /\ HeldByFrom(args, k - 1)[d] = HeldFrom(args, k, d) + Points(a, d)
    BY <1>1, HeldFromFacts, HeldByFromFacts, Zenon
  <1>4. \A c, d : Points(c, d) \in {0, 1}
    BY DEF Points
  <1>5. w \in [Blocks -> Nat] /\ \A d \in Blocks : w[d] = HeldFrom(args, k, d) + Points(b, d)
    BY <1>3, <1>4
  <1> HIDE DEF w, a
  <1>6. Shared(B, m, a, w)
    <2>1. \A d \in Blocks : m[d].refs = w[d] + Points(a, d)
      BY <1>2, <1>3, <1>4, <1>5
    <2> QED BY <1>1, <1>2, <1>5, <2>1 DEF Shared
  <1>7. /\ g \in Memory(B) /\ \A d \in Blocks : g[d].refs = w[d]
        /\ \A d \in Blocks : w[d] > 0 => g[d].bytes = m[d].bytes
    BY <1>6, DestroyedFacts
  <1> HIDE DEF g
  <1>8. ASSUME NEW c \in Pointer, InBounds(m, c), c.data # Null => w[c.data] > 0
        PROVE  InBounds(g, c)
    <2>1. c.data # Null => c.data \in Blocks
      BY DEF Pointer
    <2> QED BY <1>7, <1>8, <2>1 DEF InBounds, Capacity
  <1>9. InBounds(g, b)
    <2>1. b.data # Null => w[b.data] > 0
      BY <1>2, <1>3, <1>5 DEF Pointer, Points
    <2> QED BY <1>2, <1>8, <2>1
  <1>10. ASSUME NEW i \in (k + 1)..Len(args) PROVE InBounds(g, args[i])
    <2>1. args[i] \in Pointer /\ InBounds(m, args[i])
      BY <1>1, <1>2
    <2>2. args[i].data # Null => w[args[i].data] > 0
      <3> SUFFICES ASSUME args[i].data # Null PROVE w[args[i].data] > 0
        OBVIOUS
      <3>1. args[i].data \in Blocks
        BY <2>1 DEF Pointer
      <3>2. HeldFrom(args, k, args[i].data) > 0
        BY <1>1, HeldFromFacts, Zenon
      <3> QED BY <1>3, <1>4, <1>5, <3>1, <3>2
    <2> QED BY <1>8, <2>1, <2>2
  <1>11. \A d \in Blocks : g[d].refs = HeldByFrom(args, k)[d] + Points(b, d)
    BY <1>1, <1>5, <1>7, HeldByFromFacts
  <1>12. HeldByFrom(args, k) \in [Blocks -> Nat]
    BY <1>1, HeldByFromFacts
  <1>13. Undropped(B, args, b, k, g)
    BY <1>2, <1>7, <1>9, <1>10, <1>11, <1>12 DEF Undropped, Shared
  <1> QED BY <1>13 DEF g, a

--------------------------------------------------------------------------------
(* A parse of a client's request, with what OnClientRead adds to it. *)

Fields == [type : {"none", "multibulk", "inline"}, mlen : Nat, mindex : Nat, blen : Nat]

Parse == [heap : Memory(Byte), input : Pointer, at : Nat, parser : Fields,
          argv : Seq(Pointer), err : Errors, pushed : Seq(Seq(Seq(Byte))), room : Nat,
          stop : Errors \union {"no", "refused"}]

\* Nothing is lost or overrun, and block d stays free.
Sane(d, r) ==
  /\ r \in Parse
  /\ Sound(Byte, r.heap, r.argv, r.input) /\ r.input.data # Null
  /\ r.at <= Size(r.input)
  /\ r.heap[d].refs = 0

LEMMA ParseFields ==
  ASSUME NEW r \in Parse
  PROVE  /\ r.heap \in Memory(Byte) /\ r.input \in Pointer /\ r.at \in Nat
         /\ r.parser \in Fields
         /\ r.parser.type \in {"none", "multibulk", "inline"} /\ r.parser.mlen \in Nat
         /\ r.parser.mindex \in Nat /\ r.parser.blen \in Nat
         /\ r.argv \in Seq(Pointer) /\ r.err \in Errors /\ r.room \in Nat
         /\ r.pushed \in Seq(Seq(Seq(Byte)))
         /\ r.stop \in Errors \union {"no", "refused"}
  BY DEF Parse, Fields

\* A step that touches only the parser's fields and err.
LEMMA SameBytes ==
  ASSUME NEW d, NEW r, Sane(d, r), NEW q \in Parse, q.heap = r.heap, q.input = r.input,
         q.argv = r.argv, q.at <= Size(q.input)
  PROVE  Sane(d, q)
  BY DEF Sane

LEMMA UnreadFacts ==
  ASSUME NEW d, NEW r, Sane(d, r)
  PROVE  /\ Unread(r) \in Seq(Byte) /\ Len(Unread(r)) = Size(r.input) - r.at
         /\ Len(Unread(r)) \in Nat /\ Size(r.input) \in Nat /\ r.at \in Nat
         /\ r.at + Len(Unread(r)) = Size(r.input)
  <1>1. Shared(Byte, r.heap, r.input, HeldBy(r.argv))
    BY DEF Sane, Sound
  <1>2. r.at \in Nat /\ r.at <= Size(r.input)
    BY ParseFields DEF Sane
  <1> QED BY <1>1, <1>2, UnreadIn, Zenon

LEMMA RequestLengthSane ==
  ASSUME NEW d, NEW r, Sane(d, r)
  PROVE  Sane(d, RequestLength(r))
  <1> DEFINE line == LengthLine(Unread(r))
             q == WithCount(r, line)
  <1>1. RequestLength(r) = r \/ RequestLength(r) = q
    BY DEF RequestLength
  <1>2. Unread(r) \in Seq(Byte) /\ Len(Unread(r)) \in Nat
        /\ r.at + Len(Unread(r)) = Size(r.input)
    BY UnreadFacts
  <1>3. line.err \in Errors /\ line.bytes \in 0..Len(Unread(r)) /\ line.value \in Nat
    BY <1>2, LengthLineFacts, Zenon DEF Byte
  <1> HIDE DEF line
  <1>4. r \in Parse /\ r.at \in Nat
    BY ParseFields DEF Sane
  <1>5. r.at + line.bytes \in Nat /\ r.at + line.bytes <= Size(r.input)
    BY <1>2, <1>3, <1>4
  <1> DEFINE p == [r.parser EXCEPT !.mlen = line.value]
  <1>6. p \in Fields /\ q = [r EXCEPT !.err = line.err, !.at = r.at + line.bytes,
                                     !.parser = p]
    BY <1>3, <1>4, Zenon DEF WithCount, After, Parse, Fields
  <1> HIDE DEF p
  <1>7. /\ q \in Parse /\ q.heap = r.heap /\ q.input = r.input /\ q.argv = r.argv
        /\ q.at = r.at + line.bytes
    BY <1>3, <1>4, <1>5, <1>6, Zenon DEF Parse
  <1> HIDE DEF q
  <1>8. Sane(d, q)
    <2>1. q.at <= Size(q.input)
      BY <1>5, <1>7
    <2> QED BY <1>7, <2>1, SameBytes
  <1> QED BY <1>1, <1>8

LEMMA ArgLengthSane ==
  ASSUME NEW d, NEW r, Sane(d, r)
  PROVE  Sane(d, ArgLength(r))
  <1> DEFINE line == LengthLine(Unread(r))
             q == WithLength(r, line)
  <1>1. ArgLength(r) = r \/ ArgLength(r) = q
    BY DEF ArgLength
  <1>2. Unread(r) \in Seq(Byte) /\ Len(Unread(r)) \in Nat
        /\ r.at + Len(Unread(r)) = Size(r.input)
    BY UnreadFacts
  <1>3. line.err \in Errors /\ line.bytes \in 0..Len(Unread(r)) /\ line.value \in Nat
    BY <1>2, LengthLineFacts, Zenon DEF Byte
  <1> HIDE DEF line
  <1>4. r \in Parse /\ r.at \in Nat
    BY ParseFields DEF Sane
  <1>5. r.at + line.bytes \in Nat /\ r.at + line.bytes <= Size(r.input)
    BY <1>2, <1>3, <1>4
  <1> DEFINE p == [r.parser EXCEPT !.blen = line.value]
  <1>6. p \in Fields /\ q = [r EXCEPT !.err = line.err, !.at = r.at + line.bytes,
                                     !.parser = p]
    BY <1>3, <1>4, Zenon DEF WithLength, After, Parse, Fields
  <1> HIDE DEF p
  <1>7. /\ q \in Parse /\ q.heap = r.heap /\ q.input = r.input /\ q.argv = r.argv
        /\ q.at = r.at + line.bytes
    BY <1>3, <1>4, <1>5, <1>6, Zenon DEF Parse
  <1> HIDE DEF q
  <1>8. Sane(d, q)
    <2>1. q.at <= Size(q.input)
      BY <1>5, <1>7
    <2> QED BY <1>7, <2>1, SameBytes
  <1> QED BY <1>1, <1>8

\* What a reader cuts from the input is one argument more.
LEMMA SliceFacts ==
  ASSUME NEW d \in Blocks, NEW r, Sane(d, r), NEW n \in Nat, n <= Len(Unread(r)),
         NEW a, a = Slice(r, n)
  PROVE  /\ a.heap \in Memory(Byte) /\ a.heap[d].refs = 0
         /\ a.buf \in Pointer
         /\ Sound(Byte, a.heap, Append(r.argv, a.buf), r.input)
         /\ \A back \in Nat : /\ Offset(a.buf, 0, back) \in Pointer
                              /\ Sound(Byte, a.heap, Append(r.argv, Offset(a.buf, 0, back)),
                                       r.input)
  <1> DEFINE b == r.input
             src == Offset(b, r.at, 0)
             w == HeldBy(r.argv)
             v == [w EXCEPT ![b.data] = @ + 1]
  <1>1. /\ Shared(Byte, r.heap, b, w) /\ b.data # Null /\ r.at \in Nat
        /\ r.heap[d].refs = 0 /\ Sound(Byte, r.heap, r.argv, b)
    BY ParseFields DEF Sane, Sound
  <1>2. r.at + Len(Unread(r)) = Size(b) /\ Len(Unread(r)) \in Nat
    BY UnreadFacts
  <1>3. Narrowed(Byte, r.heap, b, w, r.at, 0, src)
    <2> HIDE DEF w
    <2>1. Shared(Byte, r.heap, b, w) /\ r.at \in Nat /\ 0 \in Nat
      BY <1>1
    <2> QED BY <2>1, OffsetFacts
  <1>4. n <= Size(src) /\ Shared(Byte, r.heap, src, w) /\ src.data = b.data
    BY <1>1, <1>2, <1>3 DEF Narrowed
  <1>5. a = AppendBuffer(r.heap, EmptyBuffer, src, n)
    BY DEF Slice
  <1> HIDE DEF src, w
  <1>6. /\ Shared(Byte, a.heap, src, v)
        /\ a.buf \in Pointer /\ a.buf.data = b.data /\ InBounds(a.heap, a.buf)
        /\ \A e \in Blocks : a.heap[e].bytes = r.heap[e].bytes
        /\ \A e \in Blocks \ {b.data} : a.heap[e] = r.heap[e]
    <2>1. Shared(Byte, r.heap, src, w) /\ src.data # Null /\ n \in Nat /\ n <= Size(src)
      BY <1>1, <1>4
    <2>2. SharesIn(Byte, r.heap, src, w, n, AppendBuffer(r.heap, EmptyBuffer, src, n))
      BY <2>1, SharesFacts
    <2> QED BY <1>4, <1>5, <2>2 DEF SharesIn
  <1>7. /\ b \in Pointer /\ b.data \in Blocks /\ InBounds(r.heap, b)
        /\ \A e \in Blocks : r.heap[e].refs = w[e] + Points(b, e) /\ w[e] \in Nat
    BY <1>1 DEF Shared, Pointer
  <1>8. d # b.data
    BY <1>1, <1>7 DEF Points
  <1>9. a.heap[d].refs = 0
    BY <1>1, <1>6, <1>8
  <1>10. InBounds(a.heap, b)
    BY <1>6, <1>7, Zenon DEF InBounds, Capacity
  <1> HIDE DEF v, b
  <1>11. Shared(Byte, a.heap, b, v)
    BY <1>4, <1>6, <1>7, <1>10, SameBlock
  <1>12. Shared(Byte, a.heap, a.buf, v)
    BY <1>4, <1>6, SameBlock
  <1>13. ASSUME NEW x \in Pointer, x.data = b.data, InBounds(a.heap, x)
         PROVE  Sound(Byte, a.heap, Append(r.argv, x), b)
    <2>1. /\ Sound(Byte, r.heap, r.argv, b) /\ b.data # Null
          /\ \A e \in Blocks : Len(a.heap[e].bytes) = Len(r.heap[e].bytes)
          /\ Shared(Byte, a.heap, b, [HeldBy(r.argv) EXCEPT ![b.data] = @ + 1])
      BY <1>1, <1>6, <1>11 DEF v, w
    <2> QED BY <1>13, <2>1, SoundMore, Zenon
  <1>14. ASSUME NEW back \in Nat
         PROVE  /\ Offset(a.buf, 0, back) \in Pointer
                /\ Sound(Byte, a.heap, Append(r.argv, Offset(a.buf, 0, back)), b)
    <2> DEFINE x == Offset(a.buf, 0, back)
    <2>1. Shared(Byte, a.heap, a.buf, v) /\ 0 \in Nat
      BY <1>12
    <2>2. Narrowed(Byte, a.heap, a.buf, v, 0, back, x)
      BY <2>1, OffsetFacts
    <2> HIDE DEF x
    <2>3. x \in Pointer /\ InBounds(a.heap, x) /\ x.data = b.data
      BY <1>6, <2>2 DEF Shared, Narrowed
    <2>4. Sound(Byte, a.heap, Append(r.argv, x), b)
      BY <1>13, <2>3
    <2> QED BY <2>3, <2>4 DEF x
  <1>15. a.heap \in Memory(Byte)
    BY <1>11 DEF Shared
  <1> QED BY <1>6, <1>9, <1>13, <1>14, <1>15 DEF b

LEMMA ErrSane ==
  ASSUME NEW d, NEW r, Sane(d, r), NEW e \in Errors
  PROVE  Sane(d, [r EXCEPT !.err = e])
  <1> DEFINE q == [r EXCEPT !.err = e]
  <1>1. r \in Parse /\ r.at <= Size(r.input)
    BY DEF Sane
  <1>2. q \in Parse /\ q.heap = r.heap /\ q.input = r.input /\ q.argv = r.argv /\ q.at = r.at
    BY <1>1, Zenon DEF Parse
  <1> HIDE DEF q
  <1>3. Sane(d, q)
    BY <1>1, <1>2, SameBytes
  <1> QED BY <1>3 DEF q

LEMMA ArgFromSane ==
  ASSUME NEW d \in Blocks, NEW r, Sane(d, r)
  PROVE  Sane(d, ArgFrom(r))
  <1> DEFINE n == r.parser.blen
             arg == Slice(r, n + 2)
             a == Offset(arg.buf, 0, 2)
             p == [r.parser EXCEPT !.blen = 0, !.mindex = r.parser.mindex + 1]
             more == Append(r.argv, a)
             q == [r EXCEPT !.heap = arg.heap, !.at = r.at + n + 2, !.argv = more,
                            !.parser = p]
  <1>1. /\ r \in Parse /\ r.at \in Nat /\ n \in Nat /\ r.parser \in Fields
        /\ r.parser.mindex \in Nat /\ r.argv \in Seq(Pointer)
    BY ParseFields DEF Sane
  <1>2. "TryAgain" \in Errors
    BY DEF Errors
  <1>3. CASE r.err # "OK" \/ Len(Unread(r)) < n + 2
    <2>1. ArgFrom(r) = r \/ ArgFrom(r) = [r EXCEPT !.err = "TryAgain"]
      BY <1>3 DEF ArgFrom, ArgBytes
    <2> QED BY <1>2, <2>1, ErrSane
  <1>4. CASE ~(r.err # "OK" \/ Len(Unread(r)) < n + 2)
    <2>1. n + 2 \in Nat /\ n + 2 <= Len(Unread(r)) /\ 2 \in Nat
          /\ r.at + n + 2 \in Nat /\ r.at + n + 2 <= Size(r.input)
      <3>1. Len(Unread(r)) \in Nat /\ r.at + Len(Unread(r)) = Size(r.input)
        BY UnreadFacts
      <3> HIDE DEF n
      <3> QED BY <1>1, <1>4, <3>1
    <2>2. ArgFrom(r) = q
      BY <1>1, <1>4, Zenon DEF ArgFrom, ArgBytes, Parse
    <2>3. /\ arg.heap \in Memory(Byte) /\ arg.heap[d].refs = 0 /\ a \in Pointer
          /\ Sound(Byte, arg.heap, more, r.input)
      <3> HIDE DEF n
      <3> QED BY <2>1, SliceFacts
    <2>4. p \in Fields
      <3>1. \A x \in Fields, i \in Nat : [x EXCEPT !.blen = 0, !.mindex = i] \in Fields
        BY Zenon DEF Fields
      <3>2. r.parser.mindex + 1 \in Nat /\ r.parser \in Fields
        BY <1>1
      <3> QED BY <3>1, <3>2, Zenon
    <2> HIDE DEF p, arg, a, n
    <2>5. more \in Seq(Pointer)
      BY <1>1, <2>3
    <2> HIDE DEF more
    <2>6. /\ q \in Parse /\ q.heap = arg.heap /\ q.argv = more /\ q.input = r.input
          /\ q.at = r.at + n + 2
      BY <1>1, <2>1, <2>3, <2>4, <2>5, Zenon DEF Parse
    <2> HIDE DEF q
    <2> QED BY <2>1, <2>2, <2>3, <2>6 DEF Sane
  <1> QED BY <1>3, <1>4

LEMMA NextArgSane ==
  ASSUME NEW d \in Blocks, NEW r, Sane(d, r)
  PROVE  Sane(d, NextArg(r))
  <1>1. Sane(d, ArgLength(r))
    BY ArgLengthSane
  <1>2. Sane(d, ArgFrom(ArgLength(r)))
    BY <1>1, ArgFromSane
  <1> QED BY <1>2 DEF NextArg

LEMMA LeftFacts ==
  ASSUME NEW r \in Parse
  PROVE  Left(r) \in Nat
  BY ParseFields DEF Left

\* The loop over the arguments, turn by turn.
LEMMA ArgsTurns ==
  ASSUME NEW d \in Blocks, NEW r, Sane(d, r)
  PROVE  \E f : /\ Args(r) = f[Left(r)] /\ f[0] = r
                /\ \A k \in 1..Left(r) : f[k] = NextArg(f[k - 1])
  <1> DEFINE n == Left(r)
             V == {q \in Parse : Sane(d, q)}
             Right(f) == f = [k \in 0..n |-> IF k = 0 THEN r ELSE NextArg(f[k - 1])]
             turn == CHOOSE f : Right(f)
             G == [x \in (1..n) \X V |-> NextArg(x[2])]
  <1>1. Args(r) = turn[n]
    BY DEF Args
  <1>2. n \in Nat /\ r \in V
    <2>1. n \in Nat
      BY LeftFacts DEF Sane
    <2>2. r \in V
      BY DEF Sane
    <2> QED BY <2>1, <2>2
  <1>3. ASSUME NEW q \in V PROVE NextArg(q) \in V
    <2>1. Sane(d, q)
      OBVIOUS
    <2>2. Sane(d, NextArg(q))
      BY <2>1, NextArgSane
    <2> QED BY <2>2 DEF Sane
  <1> HIDE DEF V, n
  <1>4. G \in [(1..n) \X V -> V] /\ \A k \in 1..n, q \in V : G[<<k, q>>] = NextArg(q)
    BY <1>3
  <1> HIDE DEF G
  <1>5. PICK f \in [0..n -> V] : StepsBy(f, r, n, G)
    BY <1>2, <1>4, Stepped, Zenon
  <1>6. Right(f)
    <2>1. \A k \in 1..n : k - 1 \in 0..n
      BY <1>2
    <2>2. \A k \in 1..n : f[k] = NextArg(f[k - 1])
      BY <1>4, <1>5, <2>1, Zenon DEF StepsBy
    <2>3. \A k \in 0..n : f[k] = IF k = 0 THEN r ELSE NextArg(f[k - 1])
      BY <1>2, <1>5, <2>2 DEF StepsBy
    <2> QED BY <1>5, <2>3
  <1>7. Right(turn)
    BY <1>6, Zenon
  <1> HIDE DEF turn
  <1>8. turn[0] = r /\ \A k \in 1..n : turn[k] = NextArg(turn[k - 1])
    BY <1>2, <1>7
  <1> QED BY <1>1, <1>8 DEF n

LEMMA ArgsSane ==
  ASSUME NEW d \in Blocks, NEW r, Sane(d, r)
  PROVE  Sane(d, Args(r))
  <1> DEFINE n == Left(r)
             V == {q \in Parse : Sane(d, q)}
  <1>1. n \in Nat
    BY LeftFacts DEF Sane
  <1>2. PICK f : /\ Args(r) = f[n] /\ f[0] = r
                 /\ \A k \in 1..n : f[k] = NextArg(f[k - 1])
    BY ArgsTurns
  <1> HIDE DEF n
  <1>3. f[0] \in V
    BY <1>2 DEF Sane
  <1>4. ASSUME NEW k \in 1..n, f[k - 1] \in V PROVE f[k] \in V
    <2>1. Sane(d, f[k - 1])
      BY <1>4
    <2>2. Sane(d, NextArg(f[k - 1]))
      BY <2>1, NextArgSane
    <2> QED BY <1>2, <2>2 DEF Sane
  <1> HIDE DEF V
  <1>5. \A k \in 0..n : f[k] \in V
    BY <1>1, <1>3, <1>4, Invariance, Zenon
  <1>6. f[n] \in V
    BY <1>1, <1>5
  <1> QED BY <1>2, <1>6 DEF V

LEMMA WordSane ==
  ASSUME NEW d \in Blocks, NEW r, Sane(d, r)
  PROVE  Sane(d, NextWord(r))
  <1> DEFINE data == Unread(r)
             end == SplitAt(data)
             word == Slice(r, end - 1)
             lineEnd == data[end] = Lf
             a == IF lineEnd /\ AfterCr(r, r.at + end - 1) THEN Offset(word.buf, 0, 1)
                  ELSE word.buf
             e == IF lineEnd THEN "complete" ELSE "OK"
             more == Append(r.argv, a)
             q == [r EXCEPT !.heap = word.heap, !.at = r.at + end, !.argv = more, !.err = e]
  <1>1. r \in Parse /\ r.at \in Nat /\ r.argv \in Seq(Pointer)
    BY ParseFields DEF Sane
  <1>2. "TryAgain" \in Errors /\ "OutOfBound" \in Errors /\ e \in Errors
    BY DEF Errors
  <1>3. /\ data \in Seq(Byte) /\ Len(data) \in Nat /\ r.at + Len(data) = Size(r.input)
    BY UnreadFacts
  <1>4. end \in 0..Len(data)
    <2> HIDE DEF data
    <2> QED BY <1>3, FindFacts DEF SplitAt
  <1>5. NextWord(r) = IF r.err # "OK" THEN r ELSE WordUpTo(r, data, end)
    BY DEF NextWord
  <1>6. CASE r.err # "OK" \/ data = <<>> \/ end = 0
    <2>1. \/ NextWord(r) = r \/ NextWord(r) = [r EXCEPT !.err = "TryAgain"]
          \/ NextWord(r) = [r EXCEPT !.err = "OutOfBound"]
      BY <1>5, <1>6 DEF WordUpTo
    <2> QED BY <1>2, <2>1, ErrSane
  <1>7. CASE ~(r.err # "OK" \/ data = <<>> \/ end = 0)
    <2>1. NextWord(r) = WordUpTo(r, data, end)
      BY <1>5, <1>7
    <2>2. NextWord(r) = q
      BY <1>1, <1>7, <2>1 DEF WordUpTo, Parse
    <2> HIDE DEF e, end
    <2>3. /\ end - 1 \in Nat /\ end - 1 <= Len(Unread(r)) /\ 1 \in Nat
          /\ r.at + end \in Nat /\ r.at + end <= Size(r.input)
      BY <1>1, <1>3, <1>4, <1>7
    <2>4. /\ word.heap \in Memory(Byte) /\ word.heap[d].refs = 0 /\ word.buf \in Pointer
          /\ Sound(Byte, word.heap, Append(r.argv, word.buf), r.input)
          /\ Offset(word.buf, 0, 1) \in Pointer
          /\ Sound(Byte, word.heap, Append(r.argv, Offset(word.buf, 0, 1)), r.input)
      BY <2>3, SliceFacts
    <2> HIDE DEF word
    <2>5. a \in Pointer /\ Sound(Byte, word.heap, more, r.input)
      BY <2>4
    <2> HIDE DEF a
    <2>6. more \in Seq(Pointer)
      BY <1>1, <2>5
    <2> HIDE DEF more
    <2>7. /\ q \in Parse /\ q.heap = word.heap /\ q.argv = more /\ q.input = r.input
          /\ q.at = r.at + end
      BY <1>1, <1>2, <2>3, <2>4, <2>6, Zenon DEF Parse
    <2> HIDE DEF q
    <2> QED BY <2>2, <2>3, <2>4, <2>5, <2>7 DEF Sane
  <1> QED BY <1>6, <1>7

\* The loop over the words, turn by turn.
LEMMA WordsTurns ==
  ASSUME NEW d \in Blocks, NEW r, Sane(d, r), NEW n, n = Len(Unread(r)) + 1
  PROVE  n \in Nat /\ \E f : /\ Words(r) = f[n] /\ f[0] = r
                             /\ \A k \in 1..n : f[k] = NextWord(f[k - 1])
  <1> DEFINE V == {q \in Parse : Sane(d, q)}
             Right(f) == f = [k \in 0..n |-> IF k = 0 THEN r ELSE NextWord(f[k - 1])]
             turn == CHOOSE f : Right(f)
             G == [x \in (1..n) \X V |-> NextWord(x[2])]
  <1>1. Words(r) = turn[n]
    BY DEF Words
  <1>2. n \in Nat /\ r \in V
    <2>1. n \in Nat
      BY UnreadFacts
    <2>2. r \in V
      BY DEF Sane
    <2> QED BY <2>1, <2>2
  <1>3. ASSUME NEW q \in V PROVE NextWord(q) \in V
    <2>1. Sane(d, q)
      OBVIOUS
    <2>2. Sane(d, NextWord(q))
      BY <2>1, WordSane
    <2> QED BY <2>2 DEF Sane
  <1> HIDE DEF V
  <1>4. G \in [(1..n) \X V -> V] /\ \A k \in 1..n, q \in V : G[<<k, q>>] = NextWord(q)
    BY <1>3
  <1> HIDE DEF G
  <1>5. PICK f \in [0..n -> V] : StepsBy(f, r, n, G)
    BY <1>2, <1>4, Stepped, Zenon
  <1>6. Right(f)
    <2>1. \A k \in 1..n : k - 1 \in 0..n
      BY <1>2
    <2>2. \A k \in 1..n : f[k] = NextWord(f[k - 1])
      BY <1>4, <1>5, <2>1, Zenon DEF StepsBy
    <2>3. \A k \in 0..n : f[k] = IF k = 0 THEN r ELSE NextWord(f[k - 1])
      BY <1>2, <1>5, <2>2 DEF StepsBy
    <2> QED BY <1>5, <2>3
  <1>7. Right(turn)
    BY <1>6, Zenon
  <1> HIDE DEF turn
  <1>8. turn[0] = r /\ \A k \in 1..n : turn[k] = NextWord(turn[k - 1])
    BY <1>2, <1>7
  <1> QED BY <1>1, <1>2, <1>8

LEMMA WordsSane ==
  ASSUME NEW d \in Blocks, NEW r, Sane(d, r)
  PROVE  Sane(d, Words(r))
  <1> DEFINE n == Len(Unread(r)) + 1
             V == {q \in Parse : Sane(d, q)}
  <1>1. n \in Nat
    BY UnreadFacts
  <1> HIDE DEF n
  <1>2. PICK f : /\ Words(r) = f[n] /\ f[0] = r
                 /\ \A k \in 1..n : f[k] = NextWord(f[k - 1])
    BY WordsTurns DEF n
  <1>3. f[0] \in V
    BY <1>2 DEF Sane
  <1>4. ASSUME NEW k \in 1..n, f[k - 1] \in V PROVE f[k] \in V
    <2>1. Sane(d, f[k - 1])
      BY <1>4
    <2>2. Sane(d, NextWord(f[k - 1]))
      BY <2>1, WordSane
    <2> QED BY <1>2, <2>2 DEF Sane
  <1> HIDE DEF V
  <1>5. \A k \in 0..n : f[k] \in V
    BY <1>1, <1>3, <1>4, Invariance, Zenon
  <1>6. f[n] \in V
    BY <1>1, <1>5
  <1> QED BY <1>2, <1>6 DEF V

LEMMA ConsumedSane ==
  ASSUME NEW d, NEW r, Sane(d, r)
  PROVE  Sane(d, Consumed(r))
  <1> DEFINE b == Offset(r.input, r.at, 0)
             w == HeldBy(r.argv)
             q == [r EXCEPT !.input = b, !.at = 0]
  <1>1. /\ r \in Parse /\ r.at \in Nat /\ Shared(Byte, r.heap, r.input, w)
        /\ r.input.data # Null /\ r.argv \in Seq(Pointer) /\ r.heap[d].refs = 0
        /\ \A i \in 1..Len(r.argv) : InBounds(r.heap, r.argv[i])
    BY ParseFields DEF Sane, Sound
  <1>2. Narrowed(Byte, r.heap, r.input, w, r.at, 0, b)
    <2> HIDE DEF w
    <2>1. Shared(Byte, r.heap, r.input, w) /\ r.at \in Nat /\ 0 \in Nat
      BY <1>1
    <2> QED BY <2>1, OffsetFacts
  <1>3. Consumed(r) = q
    BY DEF Consumed
  <1> HIDE DEF b
  <1>4. Shared(Byte, r.heap, b, w) /\ b.data # Null
    BY <1>1, <1>2 DEF Narrowed
  <1>5. b \in Pointer
    BY <1>4 DEF Shared
  <1>6. Size(b) \in Nat
    <2> HIDE DEF w
    <2> QED BY <1>4, SharedFacts
  <1>7. /\ q \in Parse /\ q.heap = r.heap /\ q.argv = r.argv /\ q.input = b /\ q.at = 0
    BY <1>1, <1>5, Zenon DEF Parse
  <1> HIDE DEF q
  <1>8. Sound(Byte, q.heap, q.argv, q.input)
    BY <1>1, <1>4, <1>7 DEF Sound
  <1>9. q.at <= Size(q.input)
    BY <1>6, <1>7
  <1> QED BY <1>1, <1>3, <1>4, <1>7, <1>8, <1>9 DEF Sane

LEMMA RequestParsedSane ==
  ASSUME NEW d \in Blocks, NEW r, Sane(d, r)
  PROVE  Sane(d, RequestParsed(r))
  <1>1. Sane(d, MultibulkRequest(r))
    <2>1. Sane(d, RequestLength(r))
      BY RequestLengthSane
    <2>2. Sane(d, Args(RequestLength(r)))
      BY <2>1, ArgsSane
    <2> QED BY <2>2 DEF MultibulkRequest
  <1>2. Sane(d, InlineRequest(r))
    <2> DEFINE q == Words(r)
               e == IF q.err = "complete" THEN "OK" ELSE q.err
    <2>1. Sane(d, q)
      BY WordsSane
    <2>2. InlineRequest(r) = [q EXCEPT !.err = e]
      BY DEF InlineRequest
    <2> HIDE DEF q
    <2>3. e \in Errors
      <3>1. q.err \in Errors
        BY <2>1, ParseFields DEF Sane
      <3> QED BY <3>1 DEF Errors
    <2> HIDE DEF e
    <2>4. Sane(d, [q EXCEPT !.err = e])
      BY <2>1, <2>3, ErrSane
    <2> QED BY <2>2, <2>4
  <1>3. \/ RequestParsed(r) = Consumed(MultibulkRequest(r))
        \/ RequestParsed(r) = Consumed(InlineRequest(r))
    BY DEF RequestParsed
  <1>4. Sane(d, Consumed(MultibulkRequest(r))) /\ Sane(d, Consumed(InlineRequest(r)))
    BY <1>1, <1>2, ConsumedSane
  <1> QED BY <1>3, <1>4

LEMMA ParseRequestSane ==
  ASSUME NEW d \in Blocks, NEW r, Sane(d, r)
  PROVE  Sane(d, ParseRequest(r))
  <1> DEFINE type == RequestType(Unread(r)[1])
             p == [r.parser EXCEPT !.type = IF r.parser.type = "none" THEN type
                                            ELSE r.parser.type]
             q == [r EXCEPT !.parser = p]
  <1>1. r \in Parse /\ r.parser \in Fields /\ r.at <= Size(r.input)
    BY ParseFields DEF Sane
  <1>2. type \in {"multibulk", "inline"}
    BY DEF RequestType
  <1>3. "TryAgain" \in Errors
    BY DEF Errors
  <1>4. Sane(d, [r EXCEPT !.err = "TryAgain"])
    BY <1>3, ErrSane
  <1>5. Typed(r, type) = q
    BY <1>1 DEF Typed, Parse
  <1> HIDE DEF type
  <1>6. p \in Fields
    BY <1>1, <1>2 DEF Fields
  <1> HIDE DEF p
  <1>7. q \in Parse /\ q.heap = r.heap /\ q.input = r.input /\ q.argv = r.argv /\ q.at = r.at
    BY <1>1, <1>6, Zenon DEF Parse
  <1> HIDE DEF q
  <1>8. Sane(d, q)
    BY <1>1, <1>7, SameBytes
  <1>9. Sane(d, RequestParsed(q))
    BY <1>8, RequestParsedSane
  <1> QED BY <1>4, <1>5, <1>9 DEF ParseRequest, type

LEMMA ShownFacts ==
  ASSUME NEW B, NEW h, NEW args, NEW b, Sound(B, h, args, b), NEW i \in 1..Len(args)
  PROVE  Contents(h, args[i]) \in Seq(B)
  <1> DEFINE a == args[i]
  <1>1. a \in Pointer /\ InBounds(h, a) /\ h \in Memory(B)
    BY DEF Sound, Shared
  <1> HIDE DEF a
  <1>2. CASE a.data = Null
    BY <1>2 DEF Contents, a
  <1>3. CASE a.data # Null
    <2> DEFINE s == h[a.data].bytes
    <2>1. a.data \in Blocks /\ a.size \in Nat /\ a.offset \in Nat
      BY <1>1, <1>3 DEF Pointer
    <2>2. s \in Seq(B) /\ a.size <= Len(s)
      BY <1>1, <1>3, <2>1 DEF Memory, Block, InBounds, Capacity
    <2>3. Contents(h, a) = SubSeq(s, a.offset + 1, a.size)
      BY <1>3, Zenon DEF Contents
    <2> HIDE DEF s
    <2>4. /\ a.offset + 1 \in Int /\ a.size \in Int
          /\ \A k \in (a.offset + 1)..a.size : s[k] \in B
      BY <2>1, <2>2
    <2>5. SubSeq(s, a.offset + 1, a.size) \in Seq(B)
      BY <2>4, SubSeqProperties
    <2> QED BY <2>3, <2>5 DEF a
  <1> QED BY <1>2, <1>3

JoinElements(S, x, y, z) ==
  /\ z \in Seq(S) /\ Len(z) = Len(x) + Len(y) /\ Len(x) \in Nat /\ Len(y) \in Nat
  /\ \A i \in 1..Len(x) : z[i] = x[i]
  /\ \A i \in 1..Len(y) : z[Len(x) + i] = y[i]

LEMMA JoinFacts ==
  ASSUME NEW S, NEW x \in Seq(S), NEW y \in Seq(S)
  PROVE  JoinElements(S, x, y, x \o y)
  BY DEF JoinElements

LEMMA SameSeq ==
  ASSUME NEW S, NEW x \in Seq(S), NEW y \in Seq(S), Len(x) = Len(y),
         \A i \in 1..Len(x) : x[i] = y[i]
  PROVE  x = y
  OBVIOUS

Associates(S, x, y, v) ==
  /\ (x \o y) \o v = x \o (y \o v)
  /\ x \o y \in Seq(S) /\ y \o v \in Seq(S)
  /\ <<>> \o v = v /\ x \o <<>> = x

LEMMA Associative ==
  ASSUME NEW S, NEW x \in Seq(S), NEW y \in Seq(S), NEW v \in Seq(S)
  PROVE  Associates(S, x, y, v)
  <1>1. x \o y \in Seq(S) /\ y \o v \in Seq(S)
    OBVIOUS
  <1>2. (x \o y) \o v = x \o (y \o v)
    BY <1>1, ConcatAssociative
  <1>3. <<>> \o v = v /\ x \o <<>> = x
    BY ConcatEmptySeq
  <1> QED BY <1>1, <1>2, <1>3 DEF Associates

\* A sequence of sequences is as long as its parts together, whichever way it is put together.
Joins(S, x, y) ==
  /\ FlattenSeq(x) \in Seq(S) /\ FlattenSeq(y) \in Seq(S)
  /\ FlattenSeq(x \o y) = FlattenSeq(x) \o FlattenSeq(y)

LEMMA FlatWhole ==
  ASSUME NEW S, NEW x \in Seq(Seq(S))
  PROVE  /\ x \in [1..Len(x) -> Seq(S)] /\ Len(x) \in Nat
         /\ Flat(x, Len(x)) = FlattenSeq(x)
  <1>1. x \in [1..Len(x) -> Seq(S)] /\ Len(x) \in Nat
    OBVIOUS
  <1>2. [d \in 1..Len(x) |-> x[d]] = x
    BY <1>1
  <1> QED BY <1>1, <1>2, Zenon DEF Flat

LEMMA FlatJoin ==
  ASSUME NEW S, NEW x \in Seq(Seq(S)), NEW y \in Seq(Seq(S))
  PROVE  Joins(S, x, y)
  <1> DEFINE n == Len(x)
             m == Len(y)
             z == x \o y
             T == {k \in Nat : k <= m => Flat(z, n + k) = FlattenSeq(x) \o Flat(y, k)}
  <1>1. /\ n \in Nat /\ m \in Nat /\ z \in Seq(Seq(S)) /\ Len(z) = n + m
        /\ \A i \in 1..n : z[i] = x[i]
        /\ \A i \in 1..m : z[n + i] = y[i]
    OBVIOUS
  <1>2. /\ z \in [1..(n + m) -> Seq(S)] /\ Flat(z, n + m) = FlattenSeq(z)
        /\ x \in [1..n -> Seq(S)] /\ Flat(x, n) = FlattenSeq(x)
        /\ y \in [1..m -> Seq(S)] /\ Flat(y, m) = FlattenSeq(y)
    BY <1>1, FlatWhole, Zenon
  <1> HIDE DEF n, m, z
  <1>3. Flat(z, n) = Flat(x, n)
    <2>1. [d \in 1..n |-> z[d]] = [d \in 1..n |-> x[d]]
      BY <1>1
    <2> QED BY <2>1, Zenon DEF Flat
  <1>4. /\ \A k \in 1..(n + m) : Flat(z, k) = Flat(z, k - 1) \o z[k]
        /\ \A k \in 1..m : Flat(y, k) = Flat(y, k - 1) \o y[k]
        /\ \A k \in 0..m : Flat(y, k) \in Seq(S)
        /\ Flat(x, n) \in Seq(S) /\ Flat(y, 0) = <<>>
    <2>1. n + m \in Nat /\ n \in 0..n
      BY <1>1
    <2> QED BY <1>1, <1>2, <2>1, FlatFacts, Zenon
  <1>5. 0 \in T
    <2>1. FlattenSeq(x) \o <<>> = FlattenSeq(x)
      BY <1>2, <1>4, ConcatEmptySeq
    <2>2. n + 0 = n
      BY <1>1
    <2> QED BY <1>2, <1>3, <1>4, <2>1, <2>2, Zenon
  <1>6. ASSUME NEW k \in Nat, k \in T PROVE k + 1 \in T
    <2> SUFFICES ASSUME k + 1 <= m
                 PROVE  Flat(z, n + (k + 1)) = FlattenSeq(x) \o Flat(y, k + 1)
      OBVIOUS
    <2>1. /\ k <= m /\ k + 1 \in 1..m /\ (k + 1) - 1 = k /\ k \in 0..m
          /\ n + (k + 1) \in 1..(n + m) /\ (n + (k + 1)) - 1 = n + k
      BY <1>1
    <2>2. Flat(z, n + k) = FlattenSeq(x) \o Flat(y, k)
      BY <1>6, <2>1
    <2>3. Flat(z, n + (k + 1)) = Flat(z, n + k) \o y[k + 1]
      BY <1>1, <1>4, <2>1, Zenon
    <2>4. Flat(y, k + 1) = Flat(y, k) \o y[k + 1]
      BY <1>4, <2>1, Zenon
    <2>5. FlattenSeq(x) \in Seq(S) /\ Flat(y, k) \in Seq(S) /\ y[k + 1] \in Seq(S)
      BY <1>2, <1>4, <2>1, Zenon
    <2>6. Associates(S, FlattenSeq(x), Flat(y, k), y[k + 1])
      BY <2>5, Associative
    <2> QED BY <2>2, <2>3, <2>4, <2>6, Zenon DEF Associates
  <1> HIDE DEF T
  <1>7. m \in T
    BY <1>1, <1>5, <1>6, SetInduction, Zenon
  <1>8. m <= m
    BY <1>1
  <1>9. FlattenSeq(z) = FlattenSeq(x) \o FlattenSeq(y)
    BY <1>2, <1>7, <1>8 DEF T
  <1>10. FlattenSeq(x) \in Seq(S) /\ FlattenSeq(y) \in Seq(S)
    BY FlattenFacts
  <1> QED BY <1>9, <1>10 DEF Joins, z

FlattensMore(S, x, e) ==
  /\ FlattenSeq(<<>>) = <<>> /\ FlattenSeq(<<e>>) = e /\ FlattenSeq(x) \in Seq(S)
  /\ FlattenSeq(Append(x, e)) = FlattenSeq(x) \o e
  /\ Append(x, e) \in Seq(Seq(S)) /\ <<e>> \in Seq(Seq(S))

LEMMA FlatMore ==
  ASSUME NEW S, NEW x \in Seq(Seq(S)), NEW e \in Seq(S)
  PROVE  FlattensMore(S, x, e)
  <1> DEFINE y == <<e>>
  <1>1. y \in Seq(Seq(S)) /\ Len(y) = 1 /\ y[1] = e /\ Append(x, e) = x \o y
        /\ Append(x, e) \in Seq(Seq(S))
    OBVIOUS
  <1> HIDE DEF y
  <1>2. y \in [1..1 -> Seq(S)] /\ Flat(y, 1) = FlattenSeq(y)
    BY <1>1, FlatWhole
  <1>3. Flat(y, 0) = <<>> /\ Flat(y, 1) = Flat(y, 1 - 1) \o y[1]
    <2>1. 1 \in Nat /\ 1 \in 1..1
      OBVIOUS
    <2> QED BY <1>2, <2>1, FlatFacts, Zenon
  <1>4. FlattenSeq(y) = e
    <2>1. 1 - 1 = 0 /\ <<>> \o e = e
      BY ConcatEmptySeq
    <2> QED BY <1>1, <1>2, <1>3, <2>1, Zenon
  <1>5. Joins(S, x, y)
    BY <1>1, FlatJoin
  <1>6. FlattenSeq(<<>>) = <<>>
    BY DEF FlattenSeq
  <1> QED BY <1>1, <1>4, <1>5, <1>6, Zenon DEF Joins, FlattensMore, y

LEMMA ByteFacts ==
  /\ Cr \in Byte /\ Lf \in Byte /\ Sp \in Byte /\ <<>> \in Seq(Byte)
  /\ \A n \in Nat : <<"$", n>> \in Byte /\ <<"*", n>> \in Byte /\ <<"byte", n>> \in Byte
  /\ \A x, y \in Byte : <<x, y>> \in Seq(Byte) /\ Len(<<x, y>>) = 2
                        /\ <<x, y>>[1] = x /\ <<x, y>>[2] = y
  <1>1. Cr \in Byte /\ Lf \in Byte /\ Sp \in Byte
    BY DEF Cr, Lf, Sp, Byte, Kinds
  <1>2. \A n \in Nat : <<"$", n>> \in Byte /\ <<"*", n>> \in Byte /\ <<"byte", n>> \in Byte
    BY DEF Byte, Kinds
  <1>3. \A x, y \in Byte : <<x, y>> \in Seq(Byte) /\ Len(<<x, y>>) = 2
                           /\ <<x, y>>[1] = x /\ <<x, y>>[2] = y
    OBVIOUS
  <1> QED BY <1>1, <1>2, <1>3

\* What the arguments of a parse show.
Shown(r) == [i \in 1..Len(r.argv) |-> Contents(r.heap, r.argv[i])]

\* No argument reaches behind the last byte of the input.
Under(args, b) == \A i \in 1..Len(args) : args[i].data = b.data => args[i].size <= b.size

\* The input shows the bytes before position t of the stream B.
View(B, d, t, r) ==
  /\ Sane(d, r) /\ Under(r.argv, r.input)
  /\ B \in Seq(Byte) /\ t \in Nat /\ t <= Len(B) /\ Size(r.input) <= t
  /\ Contents(r.heap, r.input) = SubSeq(B, (t - Size(r.input)) + 1, t)

\* Where the reader stands.
Pos(t, r) == t - Len(Unread(r))

Reads(B, t, r, p, n) ==
  /\ p \in Nat /\ n \in Nat /\ p + n = t /\ t <= Len(B) /\ Len(B) \in Nat
  /\ Unread(r) \in Seq(Byte) /\ Len(Unread(r)) = n
  /\ \A i \in 1..n : Unread(r)[i] = B[p + i]

LEMMA CutElements ==
  ASSUME NEW S, NEW s \in Seq(S), NEW i \in Nat, NEW k \in Nat, i <= k, k <= Len(s)
  PROVE  /\ SubSeq(s, i + 1, k) \in Seq(S) /\ Len(SubSeq(s, i + 1, k)) = k - i
         /\ \A j \in 1..(k - i) : SubSeq(s, i + 1, k)[j] = s[i + j]
  OBVIOUS

LEMMA ViewFacts ==
  ASSUME NEW B, NEW d, NEW t, NEW r, View(B, d, t, r)
  PROVE  /\ Reads(B, t, r, Pos(t, r), Len(Unread(r)))
         /\ Pos(t, r) = (t - Size(r.input)) + r.at
         /\ r.at \in Nat /\ Size(r.input) \in Nat /\ r.at + Len(Unread(r)) = Size(r.input)
         /\ \A i \in 1..Size(r.input) :
              Contents(r.heap, r.input)[i] = B[(t - Size(r.input)) + i]
  <1> DEFINE c == Contents(r.heap, r.input)
             size == Size(r.input)
             u == Unread(r)
             n == Len(u)
             z == t - size
  <1>1. /\ u \in Seq(Byte) /\ n = size - r.at /\ n \in Nat /\ size \in Nat /\ r.at \in Nat
        /\ r.at + n = size
    BY UnreadFacts DEF View
  <1>2. /\ B \in Seq(Byte) /\ t \in Nat /\ t <= Len(B) /\ size <= t
        /\ c = SubSeq(B, z + 1, t) /\ Len(B) \in Nat
    BY DEF View
  <1>3. u = SubSeq(c, r.at + 1, Len(c))
    BY DEF Unread
  <1> DEFINE at == r.at
  <1> HIDE DEF c, size, u, n, at
  <1>4. z \in Nat /\ z <= t /\ z + size = t /\ z + at \in Nat /\ (z + at) + n = t /\ at <= size
    <2>1. /\ n \in Nat /\ size \in Nat /\ at \in Nat /\ at + n = size
          /\ t \in Nat /\ size <= t
      BY <1>1, <1>2 DEF at
    <2> QED BY <2>1
  <1> HIDE DEF z
  <1>5. /\ c \in Seq(Byte) /\ Len(c) = size /\ \A i \in 1..size : c[i] = B[z + i]
    <2>1. t - z = size
      BY <1>1, <1>2, <1>4
    <2> QED BY <1>2, <1>4, <2>1, CutElements
  <1>6. \A i \in 1..n : u[i] = B[(z + at) + i]
    <2> SUFFICES ASSUME NEW i \in 1..n PROVE u[i] = B[(z + at) + i]
      OBVIOUS
    <2>1. u = SubSeq(c, at + 1, size) /\ size - at = n /\ at \in Nat
      BY <1>1, <1>3, <1>5 DEF at
    <2>2. u[i] = c[at + i]
      BY <1>1, <1>4, <1>5, <2>1, CutElements
    <2>3. at + i \in 1..size /\ z + (at + i) = (z + at) + i
      BY <1>1, <1>4, <2>1
    <2> QED BY <1>5, <2>2, <2>3
  <1>7. t - n = z + at
    BY <1>1, <1>2, <1>4
  <1>8. Reads(B, t, r, t - n, n)
    BY <1>1, <1>2, <1>4, <1>6, <1>7, Zenon DEF Reads, u, n
  <1> QED BY <1>1, <1>5, <1>7, <1>8 DEF Pos, u, n, z, size, at, c

\* A step of a parse from r to q: k bytes are read, and new shown.
Step(B, d, t, r, q, k, new) ==
  /\ View(B, d, t, q)
  /\ Pos(t, q) = Pos(t, r) + k
  /\ Shown(q) = Shown(r) \o new
  /\ q.pushed = r.pushed /\ q.room = r.room /\ q.stop = r.stop

LEMMA ShownTyped ==
  ASSUME NEW d, NEW r, Sane(d, r)
  PROVE  Shown(r) \in Seq(Seq(Byte)) /\ Len(Shown(r)) = Len(r.argv)
  <1>1. Sound(Byte, r.heap, r.argv, r.input) /\ r.argv \in Seq(Pointer)
    BY DEF Sane, Sound
  <1>2. \A i \in 1..Len(r.argv) : Contents(r.heap, r.argv[i]) \in Seq(Byte)
    BY <1>1, ShownFacts
  <1>3. Len(r.argv) \in Nat
    BY <1>1
  <1> QED BY <1>2, <1>3 DEF Shown

\* A step that reads k bytes for no argument.
LEMMA Skips ==
  ASSUME NEW B, NEW d, NEW t, NEW r, View(B, d, t, r), NEW q, Sane(d, q),
         q.heap = r.heap, q.input = r.input, q.argv = r.argv, q.pushed = r.pushed,
         q.room = r.room, q.stop = r.stop, NEW k \in Nat, q.at = r.at + k
  PROVE  Step(B, d, t, r, q, k, <<>>)
  <1>1. View(B, d, t, q)
    BY DEF View
  <1>2. Pos(t, r) = (t - Size(r.input)) + r.at /\ Pos(t, q) = (t - Size(q.input)) + q.at
        /\ r.at \in Nat /\ Size(r.input) \in Nat /\ t \in Nat
    <2>1. t \in Nat
      BY DEF View
    <2>2. Pos(t, r) = (t - Size(r.input)) + r.at /\ r.at \in Nat /\ Size(r.input) \in Nat
      BY ViewFacts
    <2>3. Pos(t, q) = (t - Size(q.input)) + q.at
      BY <1>1, ViewFacts
    <2> QED BY <2>1, <2>2, <2>3
  <1>3. Pos(t, q) = Pos(t, r) + k
    <2> DEFINE x == Pos(t, r)
               y == Pos(t, q)
               z == Size(r.input)
               a == r.at
    <2>1. x = (t - z) + a /\ y = (t - z) + (a + k) /\ a \in Nat /\ z \in Nat /\ t \in Nat
      BY <1>2
    <2> HIDE DEF x, y, z, a
    <2>2. y = x + k
      BY <2>1
    <2> QED BY <2>2 DEF x, y
  <1>4. Shown(q) = Shown(r) /\ Shown(r) \in Seq(Seq(Byte))
    BY ShownTyped DEF Shown, View
  <1>5. Shown(r) \o <<>> = Shown(r)
    BY <1>4, ConcatEmptySeq
  <1> QED BY <1>1, <1>3, <1>4, <1>5 DEF Step

LEMMA OffsetBack ==
  ASSUME NEW b \in Pointer, b.offset <= b.size, NEW back \in Nat, back <= Size(b),
         NEW x, x = Offset(b, 0, back)
  PROVE  /\ x \in Pointer /\ x.data = b.data /\ x.offset = b.offset
         /\ x.size = b.size - back
  <1>1. b.size \in Nat /\ b.offset \in Nat /\ b.data \in Blocks \union {Null}
    BY DEF Pointer
  <1> DEFINE size == IF b.size > back THEN b.size - back ELSE 0
  <1>2. size = b.size - back /\ size \in Nat /\ b.offset <= size
    BY <1>1 DEF Size
  <1>3. SmallerOf(b.offset + 0, size) = b.offset
    BY <1>1, <1>2 DEF SmallerOf
  <1>4. x = [data |-> b.data, size |-> size, offset |-> SmallerOf(b.offset + 0, size)]
    BY DEF Offset
  <1> HIDE DEF size
  <1>5. x = [data |-> b.data, size |-> size, offset |-> b.offset]
    BY <1>3, <1>4
  <1> QED BY <1>1, <1>2, <1>5 DEF Pointer

\* What a part of a Buffer that ends before it shows.
LEMMA BackContents ==
  ASSUME NEW h \in Memory(Byte), NEW b \in Pointer, InBounds(h, b), b.data # Null,
         NEW back \in Nat, back <= Size(b),
         NEW x \in Pointer, x.data = b.data, x.offset = b.offset, x.size = b.size - back
  PROVE  Contents(h, x) = SubSeq(Contents(h, b), 1, Size(b) - back)
  <1> DEFINE s == h[b.data].bytes
             o == b.offset
             e == b.size
  <1>1. /\ s \in Seq(Byte) /\ o \in Nat /\ e \in Nat /\ o <= e /\ e <= Len(s)
        /\ back <= e - o
    BY DEF Pointer, Memory, Block, InBounds, Capacity, Size
  <1>2. /\ Contents(h, x) = SubSeq(s, o + 1, e - back)
        /\ Contents(h, b) = SubSeq(s, o + 1, e)
        /\ Size(b) - back = (e - o) - back
    BY Zenon DEF Contents, Size
  <1> HIDE DEF s, o, e
  <1>3. /\ e \in 0..Len(s) /\ o \in 0..e /\ (e - o) - back \in 0..(e - o)
        /\ o + ((e - o) - back) = e - back
    BY <1>1
  <1>4. SubSeq(SubSeq(s, o + 1, e), 1, (e - o) - back)
          = SubSeq(s, o + 1, o + ((e - o) - back))
    BY <1>1, <1>3, CutBehind
  <1> QED BY <1>2, <1>3, <1>4

\* What is read of the next m bytes.
PartOf(B, r, p, m, w) ==
  /\ SubSeq(Unread(r), 1, m) = w
  /\ w = SubSeq(B, p + 1, p + m) /\ w \in Seq(Byte) /\ Len(w) = m
  /\ \A i \in 1..m : w[i] = B[p + i]

LEMMA ReadPart ==
  ASSUME NEW B \in Seq(Byte), NEW t, NEW r, NEW p, NEW n, Reads(B, t, r, p, n),
         NEW m \in Nat, m <= n
  PROVE  PartOf(B, r, p, m, SubSeq(B, p + 1, p + m))
  <1> DEFINE u == Unread(r)
             v == SubSeq(u, 0 + 1, m)
             w == SubSeq(B, p + 1, p + m)
  <1>1. /\ p \in Nat /\ n \in Nat /\ p + n = t /\ t <= Len(B) /\ Len(B) \in Nat
        /\ u \in Seq(Byte) /\ Len(u) = n /\ \A i \in 1..n : u[i] = B[p + i]
    BY DEF Reads
  <1> HIDE DEF u
  <1>2. v \in Seq(Byte) /\ Len(v) = m /\ \A i \in 1..m : v[i] = u[i]
    <2>1. /\ 0 \in Nat /\ 0 <= m /\ m <= Len(u) /\ m - 0 = m
          /\ \A i \in 1..m : 0 + i = i
      BY <1>1
    <2> QED BY <1>1, <2>1, CutElements
  <1>3. w \in Seq(Byte) /\ Len(w) = m /\ \A i \in 1..m : w[i] = B[p + i]
    <2>1. /\ p \in Nat /\ p + m \in Nat /\ p <= p + m /\ p + m <= Len(B)
          /\ (p + m) - p = m
      BY <1>1
    <2> QED BY <1>1, <2>1, CutElements
  <1>4. \A i \in 1..m : v[i] = w[i]
    <2>1. \A i \in 1..m : i \in 1..n
      BY <1>1
    <2> QED BY <1>1, <1>2, <1>3, <2>1
  <1> HIDE DEF v, w
  <1>5. v = w
    BY <1>2, <1>3, <1>4, SameSeq
  <1>6. SubSeq(u, 1, m) = w
    <2>1. 0 + 1 = 1
      OBVIOUS
    <2> QED BY <1>5, <2>1 DEF v
  <1>7. PartOf(B, r, p, m, w)
    BY <1>3, <1>6, Zenon DEF PartOf, w, u
  <1> QED BY <1>7 DEF w

\* A step that cuts n - back of the next n bytes as an argument and reads k.
LEMMA TakesArgument ==
  ASSUME NEW B, NEW d \in Blocks, NEW t, NEW r, View(B, d, t, r),
         NEW n \in Nat, 0 < n, n <= Len(Unread(r)), NEW back \in Nat, back <= n,
         NEW a, a = Slice(r, n),
         NEW x \in Pointer, x.data = a.buf.data, x.offset = a.buf.offset,
         x.size = a.buf.size - back,
         NEW q, Sane(d, q), q.heap = a.heap, q.input = r.input, q.argv = Append(r.argv, x),
         q.pushed = r.pushed, q.room = r.room, q.stop = r.stop,
         NEW k \in Nat, q.at = r.at + k
  PROVE  Step(B, d, t, r, q, k, <<SubSeq(B, Pos(t, r) + 1, Pos(t, r) + (n - back))>>)
  <1> DEFINE b == r.input
             src == Offset(b, r.at, 0)
             w == HeldBy(r.argv)
             p == Pos(t, r)
             U == Unread(r)
  <1>1. /\ Shared(Byte, r.heap, b, w) /\ b.data # Null /\ r.at \in Nat
        /\ Sound(Byte, r.heap, r.argv, b) /\ Sane(d, r) /\ B \in Seq(Byte)
    BY ParseFields DEF Sane, Sound, View
  <1>2. /\ r.at + Len(U) = Size(b) /\ Len(U) \in Nat /\ Size(b) \in Nat
        /\ U \in Seq(Byte) /\ Reads(B, t, r, p, Len(U))
    BY <1>1, ViewFacts, UnreadFacts
  <1>3. Narrowed(Byte, r.heap, b, w, r.at, 0, src)
    <2> HIDE DEF w
    <2>1. Shared(Byte, r.heap, b, w) /\ r.at \in Nat /\ 0 \in Nat
      BY <1>1
    <2> QED BY <2>1, OffsetFacts
  <1>4. n <= Size(src) /\ Shared(Byte, r.heap, src, w) /\ src.data = b.data
        /\ src.offset = b.offset + r.at /\ src.size = b.size
    <2>1. r.at + 0 <= Size(b)
      BY <1>1, <1>2
    <2>2. /\ Shared(Byte, r.heap, src, w) /\ src.data = b.data
          /\ src.offset = b.offset + r.at /\ src.size = b.size - 0
          /\ Size(src) = (Size(b) - r.at) - 0
      BY <1>3, <2>1 DEF Narrowed
    <2>3. b.size \in Nat
      BY <1>1 DEF Shared, Pointer
    <2> HIDE DEF b, src
    <2> QED BY <1>1, <1>2, <2>2, <2>3
  <1>5. a = AppendBuffer(r.heap, EmptyBuffer, src, n)
    BY DEF Slice
  <1>6. /\ a.buf.data = src.data /\ a.buf.offset = src.offset
        /\ a.buf.size = src.offset + n
    BY <1>5 DEF AppendBuffer, EmptyBuffer
  <1>7. Contents(r.heap, src) = U
    <2> HIDE DEF w
    <2>1. r.at \in 0..Size(b)
      BY <1>1, <1>2
    <2>2. Contents(r.heap, src) = SubSeq(Contents(r.heap, b), r.at + 1, Size(b))
      <3> HIDE DEF b
      <3>1. Contents(r.heap, Offset(b, r.at, 0))
              = SubSeq(Contents(r.heap, b), r.at + 1, Size(b))
        BY <1>1, <2>1, OffsetContents
      <3> QED BY <3>1
    <2>3. Len(Contents(r.heap, b)) = Size(b)
      BY <1>1, ContentsFacts
    <2> QED BY <2>2, <2>3, Zenon DEF Unread
  <1> HIDE DEF src, w, U
  <1>8. /\ a.heap \in Memory(Byte) /\ a.buf \in Pointer /\ InBounds(a.heap, a.buf)
        /\ Size(a.buf) = n /\ Contents(a.heap, a.buf) = SubSeq(U, 1, n)
        /\ \A e \in Blocks : a.heap[e].bytes = r.heap[e].bytes
    <2>1. Shared(Byte, r.heap, src, w) /\ src.data # Null /\ n \in Nat /\ n <= Size(src)
      BY <1>1, <1>4
    <2>2. SharesIn(Byte, r.heap, src, w, n, a)
      BY <1>5, <2>1, SharesFacts
    <2> QED BY <1>7, <2>2 DEF SharesIn, Shared
  <1>9. Contents(a.heap, x) = SubSeq(B, p + 1, p + (n - back))
    <2>1. a.buf.data # Null /\ back <= Size(a.buf)
      BY <1>1, <1>4, <1>6, <1>8
    <2>2. Contents(a.heap, x) = SubSeq(SubSeq(U, 1, n), 1, n - back)
      <3>1. Contents(a.heap, x) = SubSeq(Contents(a.heap, a.buf), 1, Size(a.buf) - back)
        BY <1>8, <2>1, BackContents, Zenon
      <3> QED BY <1>8, <3>1
    <2>3. SubSeq(SubSeq(U, 0 + 1, n), 1, n - back) = SubSeq(U, 0 + 1, 0 + (n - back))
      <3>1. n \in 0..Len(U) /\ 0 \in 0..n /\ n - back \in 0..(n - 0)
        BY <1>2 DEF U
      <3> QED BY <1>2, <3>1, CutBehind
    <2>4. n - back \in Nat /\ n - back <= Len(U) /\ 0 + 1 = 1 /\ 0 + (n - back) = n - back
      BY <1>2 DEF U
    <2>5. SubSeq(U, 1, n - back) = SubSeq(B, p + 1, p + (n - back))
      <3> DEFINE m == n - back
                 at == p
      <3>1. m \in Nat /\ m <= Len(U) /\ B \in Seq(Byte) /\ Reads(B, t, r, at, Len(U))
        BY <1>1, <1>2, <2>4
      <3> HIDE DEF m, at
      <3>2. SubSeq(U, 1, m) = SubSeq(B, at + 1, at + m)
        <4>1. m \in Nat /\ m <= Len(Unread(r)) /\ Reads(B, t, r, at, Len(Unread(r)))
          BY <3>1 DEF U
        <4>2. PartOf(B, r, at, m, SubSeq(B, at + 1, at + m))
          BY <3>1, <4>1, ReadPart
        <4> QED BY <4>2, Zenon DEF PartOf, U
      <3> QED BY <3>2, Zenon DEF m, at
    <2> QED BY <2>2, <2>3, <2>4, <2>5, Zenon
  <1>10. ASSUME NEW y, y.data \in Blocks \union {Null}
         PROVE  Contents(q.heap, y) = Contents(r.heap, y)
    <2>1. y.data # Null => q.heap[y.data].bytes = r.heap[y.data].bytes
      <3> SUFFICES ASSUME y.data # Null PROVE q.heap[y.data].bytes = r.heap[y.data].bytes
        OBVIOUS
      <3>1. y.data \in Blocks
        BY <1>10
      <3>2. a.heap[y.data].bytes = r.heap[y.data].bytes
        BY <1>8, <3>1
      <3> QED BY <3>2
    <2> QED BY <2>1, SameContents
  <1>11. r.argv \in Seq(Pointer) /\ Len(r.argv) \in Nat /\ b \in Pointer
    BY <1>1 DEF Sound, Shared
  <1>12. /\ Len(q.argv) = Len(r.argv) + 1 /\ q.argv[Len(r.argv) + 1] = x
         /\ \A i \in 1..Len(r.argv) : q.argv[i] = r.argv[i]
         /\ \A i \in 1..Len(q.argv) : i \in 1..Len(r.argv) \/ i = Len(r.argv) + 1
    BY <1>11
  <1> DEFINE c == SubSeq(B, p + 1, p + (n - back))
             f == Shown(r)
             g == Shown(q)
  <1>13. g = f \o <<c>>
    <2>1. /\ f \in Seq(Seq(Byte)) /\ Len(f) = Len(r.argv)
          /\ g \in Seq(Seq(Byte)) /\ Len(g) = Len(q.argv)
      BY <1>1, ShownTyped
    <2>2. \A i \in 1..Len(r.argv) : g[i] = f[i]
      <3> SUFFICES ASSUME NEW i \in 1..Len(r.argv) PROVE g[i] = f[i]
        OBVIOUS
      <3>1. r.argv[i].data \in Blocks \union {Null}
        <4>1. r.argv[i] \in Pointer
          BY <1>11
        <4> QED BY <4>1 DEF Pointer
      <3>2. i \in 1..Len(q.argv)
        BY <1>11, <1>12
      <3> QED BY <1>10, <1>12, <3>1, <3>2 DEF Shown
    <2>3. g[Len(r.argv) + 1] = c
      <3>1. Len(r.argv) + 1 \in 1..Len(q.argv)
        BY <1>11, <1>12
      <3> QED BY <1>9, <1>12, <3>1 DEF Shown
    <2>4. c \in Seq(Byte)
      <3>1. n - back \in Nat /\ n - back <= Len(U)
        BY <1>2 DEF U
      <3> QED BY <1>1, <1>2, <3>1, ReadPart, Zenon DEF U, PartOf
    <2> HIDE DEF f, g, c
    <2> DEFINE e == f \o <<c>>
    <2>5. /\ e \in Seq(Seq(Byte)) /\ Len(e) = Len(f) + 1 /\ e[Len(f) + 1] = c
          /\ \A i \in 1..Len(f) : e[i] = f[i]
      <3> DEFINE y == <<c>>
      <3>1. y \in Seq(Seq(Byte)) /\ Len(y) = 1 /\ y[1] = c /\ 1 \in 1..Len(y)
        BY <2>4
      <3> HIDE DEF y
      <3>2. JoinElements(Seq(Byte), f, y, f \o y)
        BY <2>1, <3>1, JoinFacts
      <3>3. /\ e = f \o y /\ f \o y \in Seq(Seq(Byte)) /\ Len(f \o y) = Len(f) + 1
            /\ (f \o y)[Len(f) + 1] = c /\ \A i \in 1..Len(f) : (f \o y)[i] = f[i]
        BY <3>1, <3>2 DEF JoinElements, y
      <3> QED BY <3>3
    <2> HIDE DEF e
    <2>6. g = e
      <3>1. Len(g) = Len(e) /\ \A i \in 1..Len(g) : g[i] = e[i]
        BY <1>12, <2>1, <2>2, <2>3, <2>5, Zenon
      <3> QED BY <2>1, <2>5, <3>1, SameSeq, Zenon
    <2> QED BY <2>6 DEF e
  <1>14. Under(q.argv, q.input)
    <2>1. x.size <= b.size
      <3> DEFINE o == b.offset
                 z == b.size
                 at == r.at
                 l == Len(U)
      <3>1. x.size = ((o + at) + n) - back /\ at + l = z - o /\ n <= l
        BY <1>2, <1>4, <1>6 DEF Size, U
      <3>2. o \in Nat /\ z \in Nat /\ at \in Nat /\ l \in Nat
        BY <1>1, <1>2, <1>11, Zenon DEF Pointer
      <3> HIDE DEF o, z, at, l
      <3>3. ((o + at) + n) - back <= z
        BY <3>1, <3>2
      <3> QED BY <3>1, <3>3 DEF z
    <2>2. \A i \in 1..Len(r.argv) : r.argv[i].data = b.data => r.argv[i].size <= b.size
      BY Zenon DEF View, Under
    <2> QED BY <1>12, <2>1, <2>2 DEF Under
  <1>15. Contents(q.heap, q.input) = Contents(r.heap, r.input)
    BY <1>10, <1>11 DEF Pointer
  <1>16. View(B, d, t, q)
    BY <1>14, <1>15 DEF View
  <1>17. Pos(t, q) = Pos(t, r) + k
    <2>1. t \in Nat
      BY DEF View
    <2>2. Pos(t, r) = (t - Size(r.input)) + r.at /\ r.at \in Nat /\ Size(r.input) \in Nat
      BY ViewFacts
    <2>3. Pos(t, q) = (t - Size(q.input)) + q.at
      BY <1>16, ViewFacts
    <2> DEFINE v == Pos(t, r)
               y == Pos(t, q)
               z == Size(r.input)
               at == r.at
    <2>4. v = (t - z) + at /\ y = (t - z) + (at + k) /\ at \in Nat /\ z \in Nat
      BY <2>2, <2>3
    <2> HIDE DEF v, y, z, at
    <2>5. y = v + k
      BY <2>1, <2>4
    <2> QED BY <2>5 DEF v, y
  <1>18. q.pushed = r.pushed /\ q.room = r.room /\ q.stop = r.stop
    OBVIOUS
  <1> HIDE DEF f, g, c
  <1>19. Step(B, d, t, r, q, k, <<c>>)
    BY <1>13, <1>16, <1>17, <1>18 DEF Step, f, g
  <1>20. c = SubSeq(B, Pos(t, r) + 1, Pos(t, r) + (n - back))
    BY DEF c, p
  <1>21. QED BY <1>19, <1>20

LEMMA Consumes ==
  ASSUME NEW B, NEW d, NEW t, NEW r, View(B, d, t, r)
  PROVE  /\ Step(B, d, t, r, Consumed(r), 0, <<>>)
         /\ Consumed(r).parser = r.parser /\ Consumed(r).err = r.err
         /\ Consumed(r).argv = r.argv
  <1> DEFINE b == r.input
             c == Offset(b, r.at, 0)
             q == Consumed(r)
             U == Unread(r)
             w == HeldBy(r.argv)
  <1>1. /\ Sane(d, r) /\ Sane(d, q) /\ r \in Parse /\ t \in Nat /\ B \in Seq(Byte)
        /\ Under(r.argv, b)
    BY ConsumedSane DEF View, Sane
  <1>2. q = [r EXCEPT !.input = c, !.at = 0]
    BY DEF Consumed
  <1>3. /\ q.heap = r.heap /\ q.input = c /\ q.at = 0 /\ q.argv = r.argv /\ q.err = r.err
        /\ q.parser = r.parser /\ q.pushed = r.pushed /\ q.room = r.room /\ q.stop = r.stop
    BY <1>1, <1>2 DEF Parse
  <1>4. /\ r.at \in Nat /\ Size(b) \in Nat /\ r.at + Len(U) = Size(b)
        /\ Reads(B, t, r, Pos(t, r), Len(U)) /\ U \in Seq(Byte) /\ Len(U) \in Nat
    BY <1>1, ViewFacts, UnreadFacts
  <1>5. Shared(Byte, r.heap, b, w)
    BY <1>1 DEF Sane, Sound
  <1>6. Narrowed(Byte, r.heap, b, w, r.at, 0, c)
    <2> HIDE DEF w
    <2>1. r.at \in Nat /\ 0 \in Nat
      BY <1>4
    <2> QED BY <1>5, <2>1, OffsetFacts
  <1>7. c.data = b.data /\ c.size = b.size /\ Size(c) = Len(U)
    <2>1. r.at + 0 <= Size(b)
      BY <1>4
    <2>2. c.data = b.data /\ c.size = b.size - 0 /\ Size(c) = (Size(b) - r.at) - 0
      BY <1>6, <2>1 DEF Narrowed
    <2>3. b.size \in Nat
      BY <1>5 DEF Shared, Pointer
    <2> HIDE DEF U, c, b
    <2> QED BY <1>4, <2>2, <2>3
  <1> HIDE DEF w
  <1>8. Contents(q.heap, q.input) = U
    <2>1. r.at \in 0..Size(b)
      BY <1>4
    <2>2. Contents(r.heap, c) = SubSeq(Contents(r.heap, b), r.at + 1, Size(b))
      BY <1>5, <2>1, OffsetContents
    <2>3. Len(Contents(r.heap, b)) = Size(b)
      BY <1>5, ContentsFacts
    <2> QED BY <1>3, <2>2, <2>3 DEF Unread
  <1> HIDE DEF U, c, q
  <1> DEFINE p == Pos(t, r)
             n == Len(U)
  <1>9. p \in Nat /\ n \in Nat /\ p + n = t /\ t <= Len(B) /\ t - n = p
    <2>1. p \in Nat /\ n \in Nat /\ p + n = t /\ t <= Len(B)
      BY <1>4 DEF Reads
    <2> HIDE DEF p, n
    <2> QED BY <2>1
  <1>10. U = SubSeq(B, p + 1, t)
    <2> DEFINE v == SubSeq(B, p + 1, p + n)
    <2>1. Reads(B, t, r, p, Len(Unread(r))) /\ n \in Nat /\ n <= Len(Unread(r)) /\ B \in Seq(Byte)
      BY <1>1, <1>4 DEF U
    <2>2. PartOf(B, r, p, n, v)
      BY <2>1, ReadPart
    <2>3. v \in Seq(Byte) /\ Len(v) = n /\ \A i \in 1..n : v[i] = B[p + i]
      BY <2>2, Zenon DEF PartOf
    <2>4. \A i \in 1..n : U[i] = B[p + i]
      BY <1>4 DEF Reads, U
    <2> HIDE DEF v, p
    <2>5. U = v
      BY <1>4, <2>3, <2>4, SameSeq
    <2> QED BY <1>9, <2>5 DEF v
  <1> HIDE DEF p
  <1>11. View(B, d, t, q)
    <2>1. Size(q.input) = n /\ n <= t
      BY <1>3, <1>7, <1>9
    <2>2. Under(q.argv, q.input)
      BY <1>1, <1>3, <1>7 DEF Under
    <2> HIDE DEF n
    <2> QED BY <1>1, <1>8, <1>9, <1>10, <2>1, <2>2 DEF View
  <1>12. Pos(t, q) = p + 0
    <2>1. Pos(t, q) = (t - Size(q.input)) + q.at
      BY <1>11, ViewFacts
    <2> HIDE DEF n
    <2>2. Size(q.input) = n /\ q.at = 0
      BY <1>3, <1>7 DEF n
    <2> QED BY <1>9, <2>1, <2>2
  <1>13. Shown(q) = Shown(r) \o <<>>
    <2>1. Shown(q) = Shown(r)
      BY <1>3 DEF Shown
    <2>2. Shown(r) \in Seq(Seq(Byte))
      BY <1>1, ShownTyped
    <2> QED BY <2>1, <2>2, ConcatEmptySeq
  <1>14. Step(B, d, t, r, q, 0, <<>>)
    BY <1>3, <1>11, <1>12, <1>13 DEF Step, p
  <1> QED BY <1>3, <1>14 DEF q

\* A length line that is read moves the reader behind it.
LEMMA CountTaken ==
  ASSUME NEW B, NEW d, NEW t, NEW r, View(B, d, t, r), r.parser.mlen = 0,
         NEW line, line = LengthLine(Unread(r)), NEW q, q = RequestLength(r)
  PROVE  /\ Step(B, d, t, r, q, line.bytes, <<>>)
         /\ q.err = line.err /\ q.parser = [r.parser EXCEPT !.mlen = line.value]
         /\ q.argv = r.argv
  <1>1. Sane(d, r) /\ Sane(d, q) /\ r \in Parse
    BY RequestLengthSane, Zenon DEF View, Sane
  <1>2. line.bytes \in Nat
    <2>1. Unread(r) \in Seq(Byte) /\ Len(Unread(r)) \in Nat
      BY <1>1, UnreadFacts
    <2>2. line.bytes \in 0..Len(Unread(r))
      BY <2>1, LengthLineFacts, Zenon DEF Byte
    <2> QED BY <2>1, <2>2
  <1>3. q = WithCount(r, line)
    BY DEF RequestLength
  <1>4. /\ q.heap = r.heap /\ q.input = r.input /\ q.argv = r.argv /\ q.pushed = r.pushed
        /\ q.room = r.room /\ q.stop = r.stop /\ q.at = r.at + line.bytes
        /\ q.err = line.err /\ q.parser = [r.parser EXCEPT !.mlen = line.value]
    BY <1>1, <1>3 DEF WithCount, After, Parse
  <1>5. Step(B, d, t, r, q, line.bytes, <<>>)
    BY <1>1, <1>2, <1>4, Skips
  <1> QED BY <1>4, <1>5

LEMMA LengthTaken ==
  ASSUME NEW B, NEW d, NEW t, NEW r, View(B, d, t, r), r.parser.blen = 0,
         NEW line, line = LengthLine(Unread(r)), NEW q, q = ArgLength(r)
  PROVE  /\ Step(B, d, t, r, q, line.bytes, <<>>)
         /\ q.err = line.err /\ q.parser = [r.parser EXCEPT !.blen = line.value]
         /\ q.argv = r.argv
  <1>1. Sane(d, r) /\ Sane(d, q) /\ r \in Parse
    BY ArgLengthSane DEF View, Sane
  <1>2. line.bytes \in Nat
    <2>1. Unread(r) \in Seq(Byte) /\ Len(Unread(r)) \in Nat
      BY <1>1, UnreadFacts
    <2>2. line.bytes \in 0..Len(Unread(r))
      BY <2>1, LengthLineFacts, Zenon DEF Byte
    <2> QED BY <2>1, <2>2
  <1>3. q = WithLength(r, line)
    BY DEF ArgLength
  <1>4. /\ q.heap = r.heap /\ q.input = r.input /\ q.argv = r.argv /\ q.pushed = r.pushed
        /\ q.room = r.room /\ q.stop = r.stop /\ q.at = r.at + line.bytes
        /\ q.err = line.err /\ q.parser = [r.parser EXCEPT !.blen = line.value]
    BY <1>1, <1>3 DEF WithLength, After, Parse
  <1>5. Step(B, d, t, r, q, line.bytes, <<>>)
    BY <1>1, <1>2, <1>4, Skips
  <1> QED BY <1>4, <1>5

LEMMA ErrStep ==
  ASSUME NEW B, NEW d, NEW t, NEW r, View(B, d, t, r), NEW e \in Errors,
         NEW q, q = [r EXCEPT !.err = e]
  PROVE  Step(B, d, t, r, q, 0, <<>>) /\ q.err = e /\ q.parser = r.parser
  <1>1. Sane(d, r) /\ Sane(d, q) /\ r \in Parse /\ r.at \in Nat
    BY ErrSane, ParseFields, Zenon DEF View, Sane
  <1>2. /\ q.heap = r.heap /\ q.input = r.input /\ q.argv = r.argv /\ q.pushed = r.pushed
        /\ q.room = r.room /\ q.stop = r.stop /\ q.at = r.at + 0
        /\ q.err = e /\ q.parser = r.parser
    BY <1>1 DEF Parse
  <1>3. Step(B, d, t, r, q, 0, <<>>)
    BY <1>1, <1>2, Skips, Zenon
  <1> QED BY <1>2, <1>3

LEMMA SliceSize ==
  ASSUME NEW d \in Blocks, NEW r, Sane(d, r), NEW n \in Nat, 0 < n, n <= Len(Unread(r)),
         NEW back \in Nat, back <= n, NEW a, a = Slice(r, n), NEW x, x = Offset(a.buf, 0, back)
  PROVE  /\ x \in Pointer /\ x.data = a.buf.data /\ x.offset = a.buf.offset
         /\ x.size = a.buf.size - back
         /\ a.buf \in Pointer /\ a.buf.size - 0 = a.buf.size
  <1> DEFINE src == Offset(r.input, r.at, 0)
             b == a.buf
  <1>1. b \in Pointer
    BY SliceFacts
  <1>2. b.offset = src.offset /\ b.size = src.offset + n
    BY DEF Slice, AppendBuffer, EmptyBuffer
  <1> HIDE DEF src, b
  <1>3. b.offset \in Nat /\ b.size \in Nat /\ b.size = b.offset + n
    BY <1>1, <1>2 DEF Pointer
  <1>4. b.offset <= b.size /\ back <= Size(b) /\ b.size - 0 = b.size
    BY <1>3 DEF Size
  <1>5. x = Offset(b, 0, back)
    BY DEF b
  <1>6. x \in Pointer /\ x.data = b.data /\ x.offset = b.offset /\ x.size = b.size - back
    BY <1>1, <1>4, <1>5, OffsetBack
  <1> QED BY <1>1, <1>4, <1>6 DEF b

\* An argument of n bytes and its end of line.
ArgTaken(B, d, t, r, q, n) ==
  \/ /\ Len(Unread(r)) < n + 2
     /\ Step(B, d, t, r, q, 0, <<>>)
     /\ q.err = "TryAgain" /\ q.parser = r.parser
  \/ /\ n + 2 <= Len(Unread(r))
     /\ Step(B, d, t, r, q, n + 2, <<SubSeq(B, Pos(t, r) + 1, Pos(t, r) + n)>>)
     /\ q.err = "OK"
     /\ q.parser = [r.parser EXCEPT !.blen = 0, !.mindex = r.parser.mindex + 1]

LEMMA ArgTakenFacts ==
  ASSUME NEW B, NEW d \in Blocks, NEW t, NEW r, View(B, d, t, r), r.err = "OK"
  PROVE  ArgTaken(B, d, t, r, ArgFrom(r), r.parser.blen)
  <1> DEFINE n == r.parser.blen
             m == n + 2
             a == Slice(r, m)
             x == Offset(a.buf, 0, 2)
             q == ArgFrom(r)
  <1>1. Sane(d, r) /\ Sane(d, q) /\ r \in Parse /\ q \in Parse
    BY ArgFromSane DEF View, Sane
  <1>2. n \in Nat /\ r.at \in Nat /\ r.parser \in Fields /\ Len(Unread(r)) \in Nat
    BY <1>1, ParseFields, UnreadFacts
  <1>3. CASE Len(Unread(r)) < n + 2
    <2>1. q = [r EXCEPT !.err = "TryAgain"] /\ "TryAgain" \in Errors
      BY <1>3 DEF ArgFrom, ArgBytes, Errors
    <2> HIDE DEF q, n
    <2>2. Step(B, d, t, r, q, 0, <<>>) /\ q.err = "TryAgain" /\ q.parser = r.parser
      BY <2>1, ErrStep
    <2> QED BY <1>3, <2>2 DEF ArgTaken, q, n
  <1>4. CASE ~(Len(Unread(r)) < n + 2)
    <2>1. /\ q.heap = a.heap /\ q.input = r.input /\ q.argv = Append(r.argv, x)
          /\ q.pushed = r.pushed /\ q.room = r.room /\ q.stop = r.stop
          /\ q.at = r.at + n + 2 /\ q.err = "OK"
          /\ q.parser = [r.parser EXCEPT !.blen = 0, !.mindex = r.parser.mindex + 1]
      BY <1>1, <1>2, <1>4 DEF ArgFrom, ArgBytes, Parse
    <2> HIDE DEF q, n
    <2>2. m \in Nat /\ 0 < m /\ m <= Len(Unread(r)) /\ 2 \in Nat /\ 2 <= m /\ m - 2 = n
          /\ r.at + n + 2 = r.at + m
      BY <1>2, <1>4
    <2> HIDE DEF m
    <2>3. x \in Pointer /\ x.data = a.buf.data /\ x.offset = a.buf.offset
          /\ x.size = a.buf.size - 2
      BY <1>1, <2>2, SliceSize
    <2> HIDE DEF x, a
    <2>4. a = Slice(r, m) /\ q.at = r.at + m
      BY <2>1, <2>2 DEF a
    <2>5. Step(B, d, t, r, q, m, <<SubSeq(B, Pos(t, r) + 1, Pos(t, r) + (m - 2))>>)
      <3> DEFINE back == 2
      <3>1. back \in Nat /\ back <= m /\ x.size = a.buf.size - back
        BY <2>2, <2>3
      <3> HIDE DEF back
      <3>2. Step(B, d, t, r, q, m, <<SubSeq(B, Pos(t, r) + 1, Pos(t, r) + (m - back))>>)
        <4>1. View(B, d, t, r) /\ Sane(d, q) /\ x \in Pointer
          BY <1>1, <2>3
        <4> QED BY <2>1, <2>2, <2>3, <2>4, <3>1, <4>1, TakesArgument, Zenon
      <3> QED BY <3>2 DEF back
    <2>6. Step(B, d, t, r, q, n + 2, <<SubSeq(B, Pos(t, r) + 1, Pos(t, r) + n)>>)
      BY <2>2, <2>5, Zenon DEF m
    <2>7. n + 2 <= Len(Unread(r))
      BY <2>2 DEF m
    <2> QED BY <2>1, <2>6, <2>7 DEF ArgTaken, q, n
  <1> QED BY <1>3, <1>4

\* The next word, with what ends it as the e-th byte.
WordLength(B, p, e) == IF B[p + e] = Lf /\ B[p + (e - 1)] = Cr THEN e - 2 ELSE e - 1

WordTaken(B, d, t, r, q, e) ==
  /\ q.parser = r.parser
  /\ \/ /\ Len(Unread(r)) = 0 /\ Step(B, d, t, r, q, 0, <<>>) /\ q.err = "OutOfBound"
     \/ /\ Len(Unread(r)) # 0 /\ e = 0
        /\ Step(B, d, t, r, q, 0, <<>>) /\ q.err = "TryAgain"
     \/ /\ e \in 2..Len(Unread(r))
        /\ Step(B, d, t, r, q, e, <<SubSeq(B, Pos(t, r) + 1,
                                           Pos(t, r) + WordLength(B, Pos(t, r), e))>>)
        /\ q.err = IF B[Pos(t, r) + e] = Lf THEN "complete" ELSE "OK"

LEMMA WordTakenFacts ==
  ASSUME NEW B, NEW d \in Blocks, NEW t, NEW r, View(B, d, t, r), r.err = "OK",
         NEW e, e = SplitAt(Unread(r)), e # 1
  PROVE  WordTaken(B, d, t, r, NextWord(r), e)
  <1> DEFINE U == Unread(r)
             m == e - 1
             a == Slice(r, m)
             p == Pos(t, r)
             lineEnd == U[e] = Lf
             cr == AfterCr(r, r.at + e - 1)
             back == IF lineEnd /\ cr THEN 1 ELSE 0
             x == IF lineEnd /\ cr THEN Offset(a.buf, 0, 1) ELSE a.buf
             q == NextWord(r)
  <1>1. Sane(d, r) /\ Sane(d, q) /\ r \in Parse /\ q \in Parse
    BY WordSane DEF View, Sane
  <1>2. /\ U \in Seq(Byte) /\ Len(U) \in Nat /\ r.at \in Nat
        /\ Reads(B, t, r, p, Len(U))
    BY <1>1, ViewFacts, UnreadFacts
  <1>3. q = WordUpTo(r, U, e)
    BY DEF NextWord
  <1>4. e \in 0..Len(U)
    <2> HIDE DEF U
    <2>1. Find(U, Sp) \in 0..Len(U) /\ Find(U, Lf) \in 0..Len(U)
      BY <1>2, FindFacts
    <2> QED BY <2>1 DEF SplitAt, U
  <1>5. U = <<>> <=> Len(U) = 0
    <2> HIDE DEF U
    <2> QED BY <1>2
  <1>6. "TryAgain" \in Errors /\ "OutOfBound" \in Errors
    BY DEF Errors
  <1>7. CASE U = <<>>
    <2>1. q = [r EXCEPT !.err = "OutOfBound"]
      BY <1>3, <1>7 DEF WordUpTo
    <2> HIDE DEF q
    <2>2. Step(B, d, t, r, q, 0, <<>>) /\ q.err = "OutOfBound" /\ q.parser = r.parser
      BY <1>6, <2>1, ErrStep
    <2> QED BY <1>5, <1>7, <2>2 DEF WordTaken, q
  <1>8. CASE U # <<>> /\ e = 0
    <2>1. q = [r EXCEPT !.err = "TryAgain"]
      BY <1>3, <1>8 DEF WordUpTo
    <2> HIDE DEF q
    <2>2. Step(B, d, t, r, q, 0, <<>>) /\ q.err = "TryAgain" /\ q.parser = r.parser
      BY <1>6, <2>1, ErrStep
    <2> QED BY <1>5, <1>8, <2>2 DEF WordTaken, q
  <1>9. CASE U # <<>> /\ e # 0
    <2>1. /\ q.heap = a.heap /\ q.input = r.input /\ q.argv = Append(r.argv, x)
          /\ q.pushed = r.pushed /\ q.room = r.room /\ q.stop = r.stop
          /\ q.at = r.at + e /\ q.err = (IF lineEnd THEN "complete" ELSE "OK")
          /\ q.parser = r.parser
      BY <1>1, <1>3, <1>9 DEF WordUpTo, Parse
    <2>2. /\ e \in 2..Len(U) /\ e \in Nat /\ m \in Nat /\ 0 < m /\ m <= Len(U)
          /\ back \in Nat /\ back <= m
      BY <1>2, <1>4, <1>9
    <2>3. lineEnd <=> B[p + e] = Lf
      <3>1. e \in 1..Len(U)
        BY <1>2, <2>2
      <3> QED BY <1>2, <3>1 DEF Reads
    <2>4. cr <=> B[p + m] = Cr
      <3> DEFINE C == Contents(r.heap, r.input)
                 size == Size(r.input)
                 i == r.at + m
      <3>1. /\ size \in Nat /\ r.at + Len(U) = size /\ p = (t - size) + r.at /\ t \in Nat
            /\ \A j \in 1..size : C[j] = B[(t - size) + j]
        <4>1. t \in Nat
          BY DEF View
        <4> QED BY <4>1, ViewFacts
      <3> DEFINE at == r.at
                 l == Len(U)
                 y == p
      <3>2. at + l = size /\ y = (t - size) + at /\ at \in Nat /\ l \in Nat
        BY <1>2, <3>1
      <3> HIDE DEF size, C, at, l, y, m
      <3>3. at + m \in 1..size /\ (t - size) + (at + m) = y + m /\ at + m > 0
        BY <2>2, <3>1, <3>2 DEF l
      <3>4. C[at + m] = B[y + m]
        BY <3>1, <3>3
      <3>5. cr <=> at + m > 0 /\ C[at + m] = Cr
        BY DEF AfterCr, at, m, C
      <3> QED BY <3>3, <3>4, <3>5 DEF y
    <2> HIDE DEF lineEnd, cr, q
    <2>5. WordLength(B, p, e) = m - back
      <3>1. CASE lineEnd /\ cr
        <4>1. WordLength(B, p, e) = e - 2
          BY <2>3, <2>4, <3>1 DEF WordLength
        <4>2. m - back = e - 2
          BY <2>2, <3>1
        <4> QED BY <4>1, <4>2
      <3>2. CASE ~(lineEnd /\ cr)
        <4>1. WordLength(B, p, e) = e - 1
          BY <2>3, <2>4, <3>2 DEF WordLength
        <4>2. m - back = e - 1
          BY <2>2, <3>2
        <4> QED BY <4>1, <4>2
      <3> QED BY <3>1, <3>2
    <2>6. x \in Pointer /\ x.data = a.buf.data /\ x.offset = a.buf.offset
          /\ x.size = a.buf.size - back
      <3> DEFINE y == Offset(a.buf, 0, back)
      <3>1. /\ y \in Pointer /\ y.data = a.buf.data /\ y.offset = a.buf.offset
            /\ y.size = a.buf.size - back
            /\ a.buf \in Pointer /\ a.buf.size - 0 = a.buf.size
        <4> HIDE DEF back, m
        <4> QED BY <1>1, <2>2, SliceSize DEF U
      <3> HIDE DEF a
      <3>2. CASE lineEnd /\ cr
        BY <3>1, <3>2
      <3>3. CASE ~(lineEnd /\ cr)
        BY <3>1, <3>3
      <3> QED BY <3>2, <3>3
    <2> HIDE DEF back, x, m
    <2>7. a = Slice(r, m)
      OBVIOUS
    <2> HIDE DEF a
    <2>8. Step(B, d, t, r, q, e, <<SubSeq(B, Pos(t, r) + 1, Pos(t, r) + (m - back))>>)
      BY <1>1, <2>1, <2>2, <2>6, <2>7, TakesArgument, Zenon DEF U
    <2>9. q.err = IF B[Pos(t, r) + e] = Lf THEN "complete" ELSE "OK"
      BY <2>1, <2>3
    <2>10. Step(B, d, t, r, q, e, <<SubSeq(B, Pos(t, r) + 1,
                                          Pos(t, r) + WordLength(B, Pos(t, r), e))>>)
      BY <2>5, <2>8
    <2> QED BY <2>1, <2>2, <2>9, <2>10 DEF WordTaken, q
  <1> QED BY <1>7, <1>8, <1>9

\* What was shown in all.
Given(r) == FlattenSeq(r.pushed) \o Shown(r)

LEMMA GivenTyped ==
  ASSUME NEW d, NEW r, Sane(d, r)
  PROVE  Given(r) \in Seq(Seq(Byte)) /\ FlattenSeq(r.pushed) \in Seq(Seq(Byte))
         /\ Shown(r) \in Seq(Seq(Byte))
  <1>1. r.pushed \in Seq(Seq(Seq(Byte))) /\ Shown(r) \in Seq(Seq(Byte))
    BY ParseFields, ShownTyped DEF Sane
  <1>2. FlattenSeq(r.pushed) \in Seq(Seq(Byte))
    BY <1>1, FlattenFacts
  <1> QED BY <1>1, <1>2, Associative DEF Associates, Given

LEMMA GivenMore ==
  ASSUME NEW B, NEW d, NEW t, NEW r, View(B, d, t, r), NEW q, NEW k,
         NEW new \in Seq(Seq(Byte)), Step(B, d, t, r, q, k, new)
  PROVE  Given(q) = Given(r) \o new
  <1>1. FlattenSeq(r.pushed) \in Seq(Seq(Byte)) /\ Shown(r) \in Seq(Seq(Byte))
    BY GivenTyped DEF View
  <1>2. Associates(Seq(Byte), FlattenSeq(r.pushed), Shown(r), new)
    BY <1>1, Associative
  <1>3. q.pushed = r.pushed /\ Shown(q) = Shown(r) \o new
    BY DEF Step
  <1> QED BY <1>2, <1>3 DEF Given, Associates

LEMMA ArgsNone ==
  ASSUME NEW d \in Blocks, NEW r, Sane(d, r), r.parser.mlen = 0
  PROVE  Args(r) = r
  <1>1. Left(r) = 0
    <2>1. r.parser.mindex \in Nat
      BY ParseFields DEF Sane
    <2> QED BY <2>1 DEF Left
  <1>2. PICK f : Args(r) = f[Left(r)] /\ f[0] = r
    BY ArgsTurns
  <1> QED BY <1>1, <1>2

LEMMA FindThere ==
  ASSUME NEW B, NEW data \in Seq(B), NEW b, NEW k \in 1..Len(data), data[k] = b
  PROVE  Find(data, b) \in 1..k /\ data[Find(data, b)] = b
  <1> DEFINE S == {i \in 1..Len(data) : data[i] = b}
  <1>1. Len(data) \in Nat /\ S \subseteq Nat /\ k \in S
    OBVIOUS
  <1>2. PICK m \in S : \A i \in S : m <= i
    BY <1>1, Least, Zenon
  <1>3. m \in 1..Len(data) /\ data[m] = b /\ m <= k
    BY <1>1, <1>2
  <1>4. \A i \in 1..Len(data) : i < m => data[i] # b
    BY <1>1, <1>2, <1>3
  <1>5. Find(data, b) = m
    BY <1>3, <1>4, FindFirst
  <1> QED BY <1>1, <1>3, <1>5

\* The input shows what was taken last, and no argument reaches behind it.
Sees(B, t, h, b, args) ==
  /\ Under(args, b) /\ B \in Seq(Byte) /\ t \in Nat /\ t <= Len(B) /\ Size(b) <= t
  /\ Contents(h, b) = SubSeq(B, (t - Size(b)) + 1, t)

Showing(h, args) == [i \in 1..Len(args) |-> Contents(h, args[i])]

LEMMA SamePart ==
  ASSUME NEW S, NEW x \in Seq(S), NEW y \in Seq(S), NEW n \in Nat, n <= Len(x), n <= Len(y),
         \A i \in 1..n : x[i] = y[i], NEW i \in Nat, NEW k \in Nat, i <= k, k <= n
  PROVE  SubSeq(x, i + 1, k) = SubSeq(y, i + 1, k)
  <1> DEFINE a == SubSeq(x, i + 1, k)
             b == SubSeq(y, i + 1, k)
             l == k - i
  <1>1. l \in Nat /\ k <= Len(x) /\ k <= Len(y)
    OBVIOUS
  <1>2. a \in Seq(S) /\ Len(a) = l /\ \A j \in 1..l : a[j] = x[i + j]
    BY <1>1, CutElements
  <1>3. b \in Seq(S) /\ Len(b) = l /\ \A j \in 1..l : b[j] = y[i + j]
    BY <1>1, CutElements
  <1>4. \A j \in 1..l : x[i + j] = y[i + j]
    <2> SUFFICES ASSUME NEW j \in 1..l PROVE x[i + j] = y[i + j]
      OBVIOUS
    <2>1. i + j \in 1..n
      OBVIOUS
    <2> QED BY <2>1
  <1> HIDE DEF a, b, l
  <1>5. Len(a) = Len(b) /\ \A j \in 1..Len(a) : a[j] = b[j]
    BY <1>2, <1>3, <1>4, Zenon
  <1>6. a = b
    BY <1>2, <1>3, <1>5, SameSeq
  <1> QED BY <1>6 DEF a, b

\* What is read lies behind what an argument shows.
LEMMA FilledArgument ==
  ASSUME NEW h, NEW b, NEW w, Shared(Byte, h, b, w), b.data # Null,
         NEW data \in Seq(Byte), Len(data) <= FreeSize(h, b),
         NEW m, m = Filled(Kept(h, b), data),
         NEW a \in Pointer, InBounds(h, a), a.data = b.data => a.size <= b.size
  PROVE  Contents(m.heap, a) = Contents(h, a)
  <1> DEFINE x == h[b.data].bytes
             y == m.heap[b.data].bytes
  <1>1. m = Filled([heap |-> h, buf |-> b, overlap |-> FALSE], data)
    BY DEF Kept
  <1>2. /\ Shared(Byte, m.heap, m.buf, w) /\ m.buf.data = b.data
        /\ m.buf.size = b.size + Len(data)
    BY <1>1, FilledFacts
  <1>3. /\ \A d \in Blocks : d # b.data => m.heap[d].bytes = h[d].bytes
        /\ \A i \in 1..b.size : y[i] = x[i]
    BY <1>1, FilledContents
  <1>4. a.data \in Blocks \union {Null} /\ a.offset \in Nat /\ a.size \in Nat
        /\ a.offset <= a.size
    BY DEF InBounds, Pointer
  <1>5. CASE a.data # b.data
    <2>1. a.data # Null => m.heap[a.data].bytes = h[a.data].bytes
      BY <1>3, <1>4, <1>5
    <2> QED BY <2>1, SameContents
  <1>6. CASE a.data = b.data
    <2>1. x \in Seq(Byte) /\ b.size \in Nat /\ b.size <= Len(x)
      BY SharedFacts DEF Block
    <2>2. y \in Seq(Byte) /\ b.size <= Len(y)
      <3>1. m.heap[b.data] \in Block(Byte) /\ m.buf.size <= Len(y)
        <4>1. Shared(Byte, m.heap, m.buf, w) /\ m.buf.data = b.data /\ b.data # Null
          BY <1>2
        <4> QED BY <4>1, SharedFacts
      <3>2. y \in Seq(Byte) /\ Len(y) \in Nat
        BY <3>1 DEF Block
      <3> QED BY <1>2, <2>1, <3>1, <3>2
    <2>3. Contents(h, a) = SubSeq(x, a.offset + 1, a.size)
          /\ Contents(m.heap, a) = SubSeq(y, a.offset + 1, a.size)
      BY <1>6, Zenon DEF Contents
    <2> HIDE DEF x, y
    <2>4. SubSeq(x, a.offset + 1, a.size) = SubSeq(y, a.offset + 1, a.size)
      <3> DEFINE n == b.size
                 i == a.offset
                 k == a.size
      <3>1. n \in Nat /\ n <= Len(x) /\ n <= Len(y) /\ \A j \in 1..n : x[j] = y[j]
        BY <1>3, <2>1, <2>2 DEF x, y
      <3>2. i \in Nat /\ k \in Nat /\ i <= k /\ k <= n
        BY <1>4, <1>6
      <3> HIDE DEF n, i, k
      <3>3. SubSeq(x, i + 1, k) = SubSeq(y, i + 1, k)
        BY <2>1, <2>2, <3>1, <3>2, SamePart
      <3> QED BY <3>3, Zenon DEF i, k
    <2> QED BY <2>3, <2>4, Zenon
  <1> QED BY <1>5, <1>6

\* The n bytes that are read are seen behind the others.
LEMMA ReadSees ==
  ASSUME NEW B, NEW t, NEW h, NEW b, NEW args, Sound(Byte, h, args, b), b.data # Null,
         Sees(B, t, h, b, args), NEW n \in Nat, t + n <= Len(B), n <= FreeSize(h, b),
         NEW data \in Seq(Byte), Len(data) = n, \A j \in 1..n : data[j] = B[t + j],
         NEW m, m = Filled(Kept(h, b), data)
  PROVE  /\ Sees(B, t + n, m.heap, m.buf, args) /\ Showing(m.heap, args) = Showing(h, args)
         /\ (t + n) - Size(m.buf) = t - Size(b)
  <1> DEFINE w == HeldBy(args)
             p == t - Size(b)
             x == Contents(h, b)
             u == Size(b)
  <1>1. /\ Shared(Byte, h, b, w) /\ args \in Seq(Pointer)
        /\ \A i \in 1..Len(args) : InBounds(h, args[i])
    BY DEF Sound
  <1> HIDE DEF w
  <1>2. /\ Under(args, b) /\ B \in Seq(Byte) /\ t \in Nat /\ t <= Len(B) /\ u <= t
        /\ x = SubSeq(B, p + 1, t) /\ u \in Nat /\ p \in Nat /\ p + u = t
        /\ Len(B) \in Nat
    <2>1. Size(b) \in Nat
      BY <1>1, SharedFacts
    <2> QED BY <2>1 DEF Sees
  <1>3. data \in Seq(Byte) /\ Len(data) = n /\ \A j \in 1..n : data[j] = B[t + j]
    OBVIOUS
  <1>4. m = Filled([heap |-> h, buf |-> b, overlap |-> FALSE], data)
    BY DEF Kept
  <1>a. data \in Seq(Byte) /\ Len(data) = n /\ Len(data) <= FreeSize(h, b)
    BY <1>3
  <1> HIDE DEF u, x, p
  <1>5. /\ m.buf.data = b.data /\ m.buf.offset = b.offset /\ m.buf.size = b.size + n
    BY <1>1, <1>4, <1>a, FilledFacts
  <1>6. Contents(m.heap, m.buf) = x \o data
    BY <1>1, <1>4, <1>a, FilledContents DEF x
  <1>7. Size(m.buf) = u + n
    <2>1. b.size \in Nat /\ b.offset \in Nat /\ b.offset <= b.size
      BY <1>1, SharedFacts
    <2> QED BY <1>5, <2>1 DEF Size, u
  <1>8. Under(args, m.buf)
    <2> SUFFICES ASSUME NEW i \in 1..Len(args), args[i].data = m.buf.data
                 PROVE  args[i].size <= m.buf.size
      BY DEF Under
    <2>a. Under(args, b) /\ args[i].data = b.data
      BY <1>2, <1>5
    <2>b. args[i] \in Pointer
      BY <1>1
    <2>1. args[i].size <= b.size /\ args[i] \in Pointer
      BY <2>a, <2>b DEF Under
    <2>2. args[i].size \in Nat /\ b.size \in Nat
      BY <1>1, <2>1, SharedFacts, Zenon DEF Pointer
    <2> QED BY <1>5, <2>1, <2>2
  <1>9. (t + n) - (u + n) = p
    <2>1. p \in Nat /\ u \in Nat /\ n \in Nat /\ t = p + u
      BY <1>2
    <2> QED BY <2>1
  <1>10. x \o data = SubSeq(B, p + 1, t + n)
    <2> DEFINE k == t + n
               y == SubSeq(B, p + 1, k)
               z == x \o data
    <2>1. k \in Nat /\ p <= k /\ k <= Len(B) /\ k - p = u + n /\ t - p = u /\ p <= t
      BY <1>2
    <2> HIDE DEF k
    <2>0. B \in Seq(Byte) /\ p \in Nat /\ t \in Nat /\ t <= Len(B) /\ x = SubSeq(B, p + 1, t)
      BY <1>2
    <2>2. /\ y \in Seq(Byte) /\ Len(y) = k - p
          /\ \A j \in 1..(k - p) : y[j] = B[p + j]
      BY <2>0, <2>1, CutElements
    <2>3. x \in Seq(Byte) /\ Len(x) = t - p /\ \A j \in 1..(t - p) : x[j] = B[p + j]
      BY <2>0, <2>1, CutElements
    <2>4. JoinElements(Byte, x, data, z)
      BY <1>3, <2>3, JoinFacts
    <2> HIDE DEF y, z
    <2>5. /\ z \in Seq(Byte) /\ Len(z) = u + n
          /\ \A i \in 1..u : z[i] = x[i]
          /\ \A i \in 1..n : z[u + i] = data[i]
      BY <1>3, <2>1, <2>3, <2>4 DEF JoinElements
    <2>6. \A j \in 1..(u + n) : z[j] = y[j]
      <3> SUFFICES ASSUME NEW j \in 1..(u + n) PROVE z[j] = y[j]
        OBVIOUS
      <3>1. y[j] = B[p + j]
        BY <2>1, <2>2
      <3>2. CASE j <= u
        <4>1. j \in 1..u
          BY <3>2
        <4> QED BY <2>1, <2>3, <2>5, <3>1, <4>1
      <3>3. CASE u < j
        <4> DEFINE i == j - u
        <4>1. i \in 1..n /\ u + i = j /\ t + i = p + j
          BY <1>2, <3>3
        <4> HIDE DEF i
        <4>2. z[u + i] = B[t + i]
          BY <1>3, <2>5, <4>1
        <4> QED BY <3>1, <4>1, <4>2
      <3> QED BY <1>2, <3>2, <3>3
    <2>7. Len(z) = Len(y) /\ \A j \in 1..Len(z) : z[j] = y[j]
      BY <2>1, <2>2, <2>5, <2>6
    <2>8. z = y
      BY <2>2, <2>5, <2>7, SameSeq
    <2> QED BY <2>8 DEF z, y, k
  <1>11. Sees(B, t + n, m.heap, m.buf, args)
    <2>1. t + n \in Nat /\ u + n <= t + n
      BY <1>2
    <2> QED BY <1>2, <1>6, <1>7, <1>8, <1>9, <1>10, <2>1, Zenon DEF Sees
  <1>12. Showing(m.heap, args) = Showing(h, args)
    <2>1. ASSUME NEW i \in 1..Len(args) PROVE Contents(m.heap, args[i]) = Contents(h, args[i])
      <3> DEFINE a == args[i]
      <3>1. a \in Pointer /\ InBounds(h, a)
        BY <1>1
      <3>a. a.data = b.data => a.size <= b.size
        <4>1. Under(args, b)
          BY <1>2
        <4> QED BY <4>1 DEF Under
      <3> HIDE DEF a
      <3>2. Contents(m.heap, a) = Contents(h, a)
        BY <1>1, <1>a, <3>1, <3>a, FilledArgument
      <3> QED BY <3>2 DEF a
    <2> QED BY <2>1 DEF Showing
  <1> QED BY <1>7, <1>9, <1>11, <1>12 DEF p, u

\* The room that is made is not where an argument looks, unless nothing moves.
LEMMA RoomElsewhere ==
  ASSUME NEW h, NEW b, NEW w, Shared(Byte, h, b, w), b.data \in Blocks, w[b.data] > 0,
         NEW d \in Blocks, h[d].refs = 0, NEW size \in Nat,
         NEW g, g = AppendCapacity(h, b, size)
  PROVE  g.buf = b \/ (g.buf.data \in Blocks /\ w[g.buf.data] = 0)
  <1> DEFINE e == Unallocated(h)
  <1>1. e \in Blocks /\ h[e].refs = 0
    BY DEF Unallocated
  <1> HIDE DEF e
  <1>2. w \in [Blocks -> Nat] /\ \A x \in Blocks : h[x].refs = w[x] + Points(b, x)
    BY DEF Shared
  <1>3. w[e] = 0
    <2>1. Points(b, e) \in {0, 1}
      BY DEF Points
    <2> QED BY <1>1, <1>2, <2>1
  <1>4. h[b.data].refs # 1 /\ b.data # Null
    <2>1. Points(b, b.data) = 1
      BY DEF Points
    <2>2. w[b.data] \in Nat /\ h[b.data].refs = w[b.data] + 1
      BY <1>2, <2>1
    <2>3. b.data # Null
      BY BlocksAssumption
    <2> QED BY <2>2, <2>3
  <1>5. CASE g = Kept(h, b)
    BY <1>5 DEF Kept
  <1>6. CASE g = Reallocated(h, b, (size + b.size) - b.offset)
    <2>1. g.buf.data = e
      BY <1>6 DEF Reallocated, e
    <2> QED BY <1>1, <1>3, <2>1
  <1> QED BY <1>4, <1>5, <1>6 DEF AppendCapacity

LEMMA PrefixOfJoin ==
  ASSUME NEW S, NEW x \in Seq(S), NEW y \in Seq(S)
  PROVE  IsPrefix(x, x \o y)
  <1> DEFINE z == x \o y
  <1>1. JoinElements(S, x, y, z)
    BY JoinFacts
  <1> HIDE DEF z
  <1>2. /\ z \in Seq(S) /\ Len(z) = Len(x) + Len(y) /\ Len(x) \in Nat /\ Len(y) \in Nat
        /\ \A i \in 1..Len(x) : x[i] = z[i]
    BY <1>1 DEF JoinElements
  <1>3. Len(x) <= Len(z)
    BY <1>2
  <1>4. SubSeq(x, 1, Len(x)) = SubSeq(z, 1, Len(x))
    <2> DEFINE n == Len(x)
               o == 0
    <2>1. n \in Nat /\ n <= Len(x) /\ n <= Len(z) /\ \A i \in 1..n : x[i] = z[i]
      BY <1>2, <1>3
    <2>2. o \in Nat /\ o <= n /\ o + 1 = 1 /\ n <= n
      BY <1>2
    <2> HIDE DEF n, o
    <2>3. SubSeq(x, o + 1, n) = SubSeq(z, o + 1, n)
      BY <1>2, <2>1, <2>2, SamePart
    <2> QED BY <2>2, <2>3 DEF n
  <1>5. IsPrefix(x, z)
    BY <1>3, <1>4 DEF IsPrefix
  <1> QED BY <1>5 DEF z

LEMMA CutJoin ==
  ASSUME NEW S, NEW x \in Seq(S), NEW i \in Nat, NEW k \in Nat, i <= k, k <= Len(x)
  PROVE  /\ SubSeq(x, 1, k) = SubSeq(x, 1, i) \o SubSeq(x, i + 1, k)
         /\ SubSeq(x, 1, i) \in Seq(S) /\ SubSeq(x, i + 1, k) \in Seq(S)
  <1> DEFINE o == 0
             a == SubSeq(x, o + 1, i)
             b == SubSeq(x, i + 1, k)
             c == SubSeq(x, o + 1, k)
             z == a \o b
  <1>1. o \in Nat /\ o <= i /\ i <= Len(x) /\ o <= k /\ o = 0
    OBVIOUS
  <1> HIDE DEF o
  <1>2. a \in Seq(S) /\ Len(a) = i - o /\ \A j \in 1..(i - o) : a[j] = x[o + j]
    BY <1>1, CutElements
  <1>3. b \in Seq(S) /\ Len(b) = k - i /\ \A j \in 1..(k - i) : b[j] = x[i + j]
    BY CutElements
  <1>4. c \in Seq(S) /\ Len(c) = k - o /\ \A j \in 1..(k - o) : c[j] = x[o + j]
    BY <1>1, CutElements
  <1>5. JoinElements(S, a, b, z)
    BY <1>2, <1>3, JoinFacts, Zenon
  <1> HIDE DEF a, b, c, z
  <1>6. /\ z \in Seq(S) /\ Len(z) = Len(a) + Len(b)
        /\ \A j \in 1..Len(a) : z[j] = a[j]
        /\ \A j \in 1..Len(b) : z[Len(a) + j] = b[j]
    BY <1>5, Zenon DEF JoinElements
  <1>7. Len(a) = i /\ Len(b) = k - i /\ Len(c) = k /\ Len(z) = k
    BY <1>1, <1>2, <1>3, <1>4, <1>6
  <1>8. \A j \in 1..k : z[j] = c[j]
    <2> SUFFICES ASSUME NEW j \in 1..k PROVE z[j] = c[j]
      OBVIOUS
    <2>1. c[j] = x[j]
      <3>1. j \in 1..(k - o) /\ o + j = j
        BY <1>1
      <3> QED BY <1>4, <3>1
    <2>2. CASE j <= i
      <3>1. j \in 1..(i - o) /\ o + j = j /\ j \in 1..Len(a)
        BY <1>1, <1>7, <2>2
      <3> QED BY <1>2, <1>6, <2>1, <3>1
    <2>3. CASE i < j
      <3> DEFINE m == j - i
      <3>1. m \in 1..(k - i) /\ i + m = j /\ m \in 1..Len(b)
        BY <1>7, <2>3
      <3> HIDE DEF m
      <3>2. z[Len(a) + m] = b[m] /\ b[m] = x[j]
        BY <1>3, <1>6, <3>1, Zenon
      <3> QED BY <1>7, <2>1, <3>1, <3>2, Zenon
    <2> QED BY <2>2, <2>3
  <1>9. z = c
    BY <1>4, <1>6, <1>7, <1>8, SameSeq
  <1> QED BY <1>1, <1>2, <1>3, <1>9 DEF a, b, c, z

LEMMA JoinCancel ==
  ASSUME NEW S, NEW x \in Seq(S), NEW y \in Seq(S), NEW z \in Seq(S), x \o y = x \o z
  PROVE  y = z
  <1> DEFINE v == x \o y
  <1>1. JoinElements(S, x, y, v) /\ JoinElements(S, x, z, v)
    BY JoinFacts, Zenon
  <1> HIDE DEF v
  <1>2. Len(y) = Len(z) /\ \A i \in 1..Len(y) : y[i] = z[i]
    BY <1>1 DEF JoinElements
  <1> QED BY <1>2, SameSeq

LEMMA CutOfJoin ==
  ASSUME NEW S, NEW x \in Seq(S), NEW y \in Seq(S)
  PROVE  SubSeq(x \o y, 1, Len(x)) = x
  <1> DEFINE z == x \o y
             n == Len(x)
             a == SubSeq(z, 0 + 1, n)
  <1>1. JoinElements(S, x, y, z)
    BY JoinFacts
  <1>2. z \in Seq(S) /\ n \in Nat /\ n <= Len(z) /\ \A i \in 1..n : z[i] = x[i]
    BY <1>1 DEF JoinElements
  <1> HIDE DEF z
  <1>3. a \in Seq(S) /\ Len(a) = n - 0 /\ \A j \in 1..(n - 0) : a[j] = z[0 + j]
    <2> DEFINE o == 0
    <2>1. o \in Nat /\ o <= n
      BY <1>2
    <2> HIDE DEF o, n
    <2>2. /\ SubSeq(z, o + 1, n) \in Seq(S) /\ Len(SubSeq(z, o + 1, n)) = n - o
          /\ \A j \in 1..(n - o) : SubSeq(z, o + 1, n)[j] = z[o + j]
      BY <1>2, <2>1, CutElements
    <2> QED BY <2>2 DEF o
  <1> HIDE DEF a
  <1>4. Len(a) = Len(x) /\ \A j \in 1..Len(a) : a[j] = x[j]
    BY <1>2, <1>3
  <1>5. a = x
    BY <1>3, <1>4, SameSeq
  <1>6. a = SubSeq(z, 1, n)
    BY DEF a
  <1> QED BY <1>5, <1>6 DEF z
================================================================================
