---------------------------- MODULE ServerBytesProofs ----------------------------
(***************************************************************************)
(* Theorems about ServerBytes.tla, for every set of replies, every size of *)
(* the read buffer and every number of blocks: the memory of the server    *)
(* connection, of respBuffer_ and of the client's send buffer is accounted *)
(* for, no byte that was read is lost, repeated or overtaken, what the     *)
(* client gets are the replies that arrived whole, and the parser meets a  *)
(* type it does not know and the reads stop only where ServerBytes says.   *)
(***************************************************************************)
EXTENDS ServerBytes, OperatorProofs

--------------------------------------------------------------------------------
(* What the server sends is a sequence of bytes, and so is what is read of it. *)

ReplyByte == Kinds \X Int

LEMMA StreamFacts ==
  ASSUME NEW s \in Streams
  PROVE  /\ Len(s) \in Nat
         /\ \A c \in 1..Len(s) :
              /\ s[c].kind \in {"line", "bulk", "array"}
              /\ s[c].elements \in Seq(Nat \union {-1}) /\ Len(s[c].elements) \in Nat
              /\ s[c].kind = "line" => Len(s[c].elements) = 0
              /\ s[c].kind = "bulk" => Len(s[c].elements) = 1
              /\ \A i \in 1..Len(s[c].elements) : s[c].elements[i] \in Nat \union {-1}
  <1>1. s \in Seq(Reply)
    BY StreamsAssumption
  <1>2. \A c \in 1..Len(s) : s[c] \in Reply
    BY <1>1
  <1>3. ASSUME NEW r \in Reply
        PROVE  /\ r.kind \in {"line", "bulk", "array"}
               /\ r.elements \in Seq(Nat \union {-1}) /\ Len(r.elements) \in Nat
               /\ r.kind = "line" => Len(r.elements) = 0
               /\ r.kind = "bulk" => Len(r.elements) = 1
               /\ \A i \in 1..Len(r.elements) : r.elements[i] \in Nat \union {-1}
    <2>1. /\ r \in [kind : {"line", "bulk", "array"}, elements : Seq(Nat \union {-1})]
          /\ r.kind = "line" => r.elements = <<>>
          /\ r.kind = "bulk" => Len(r.elements) = 1
      BY DEF Reply
    <2> QED BY <2>1
  <1>4. Len(s) \in Nat
    BY <1>1
  <1> QED BY <1>2, <1>3, <1>4

LEMMA ReplyByteFacts ==
  /\ Cr \in ReplyByte /\ Lf \in ReplyByte /\ <<>> \in Seq(ReplyByte)
  /\ \A n \in Int : /\ <<"$", n>> \in ReplyByte /\ <<"*", n>> \in ReplyByte /\ <<"+", n>> \in ReplyByte
                    /\ <<"byte", n>> \in ReplyByte
  /\ \A x, y \in ReplyByte : <<x, y>> \in Seq(ReplyByte) /\ Len(<<x, y>>) = 2
                        /\ <<x, y>>[1] = x /\ <<x, y>>[2] = y
  <1>1. Cr \in ReplyByte /\ Lf \in ReplyByte /\ <<>> \in Seq(ReplyByte)
    BY DEF Cr, Lf, ReplyByte, Kinds
  <1>2. \A n \in Int : /\ <<"$", n>> \in ReplyByte /\ <<"*", n>> \in ReplyByte /\ <<"+", n>> \in ReplyByte
                       /\ <<"byte", n>> \in ReplyByte
    BY DEF ReplyByte, Kinds
  <1>3. \A x, y \in ReplyByte : <<x, y>> \in Seq(ReplyByte) /\ Len(<<x, y>>) = 2
                           /\ <<x, y>>[1] = x /\ <<x, y>>[2] = y
    OBVIOUS
  <1> QED BY <1>1, <1>2, <1>3

Spells(e, n) ==
  /\ n \in Nat \union {-1}
  /\ e \in Seq(ReplyByte) /\ Len(e) = IF n = -1 THEN 2 ELSE n + 4
  /\ e[1] = <<"$", n>> /\ e[2] = Lf
  /\ n = 0 => e[3] = Cr /\ e[4] = Lf

LEMMA ElementFacts ==
  ASSUME NEW s \in Streams, NEW c \in 1..Len(s), NEW i \in 1..Len(s[c].elements)
  PROVE  Spells(ElementOf(s, c, i), s[c].elements[i])
  <1> DEFINE n == s[c].elements[i]
             e == ElementOf(s, c, i)
  <1>1. n \in Nat \union {-1} /\ c \in Nat /\ i \in Nat
    BY StreamFacts
  <1> DEFINE byte(k) == <<"byte", 100 * c + 10 * i + k>>
             body == [k \in 1..n |-> byte(k)]
             line == <<<<"$", n>>, Lf>>
  <1>2. n = -1 => e = line
    BY DEF ElementOf
  <1>3. n # -1 => e = line \o body \o <<Cr, Lf>>
    BY DEF ElementOf
  <1>4. line \in Seq(ReplyByte) /\ Len(line) = 2 /\ line[1] = <<"$", n>> /\ line[2] = Lf
    <2>1. n \in Int
      BY <1>1
    <2>2. <<"$", n>> \in ReplyByte
      BY <2>1, ReplyByteFacts
    <2> QED BY <2>2, ReplyByteFacts
  <1>5. <<Cr, Lf>> \in Seq(ReplyByte) /\ Len(<<Cr, Lf>>) = 2 /\ <<Cr, Lf>>[1] = Cr /\ <<Cr, Lf>>[2] = Lf
    BY ReplyByteFacts
  <1>6. n # -1 => body \in Seq(ReplyByte) /\ Len(body) = n
    <2> SUFFICES ASSUME n # -1 PROVE body \in Seq(ReplyByte) /\ Len(body) = n
      OBVIOUS
    <2>1. \A k \in 1..n : 100 * c + 10 * i + k \in Int
      BY <1>1
    <2>2. \A k \in 1..n : byte(k) \in ReplyByte
      BY <2>1, ReplyByteFacts
    <2> HIDE DEF byte
    <2> QED BY <1>1, <2>2
  <1> HIDE DEF body, line, n, e
  <1>7. ASSUME n = -1 PROVE Spells(e, n)
    BY <1>1, <1>2, <1>4, <1>7 DEF Spells
  <1>8. ASSUME n # -1 PROVE Spells(e, n)
    <2> DEFINE end == <<Cr, Lf>>
               front == line \o body
    <2>1. n \in Nat /\ body \in Seq(ReplyByte) /\ Len(body) = n
      BY <1>1, <1>6, <1>8
    <2>2. front \in Seq(ReplyByte) /\ Len(front) = 2 + n /\ front[1] = line[1] /\ front[2] = line[2]
      <3>1. line \in Seq(ReplyByte) /\ body \in Seq(ReplyByte) /\ 1 \in 1..Len(line) /\ 2 \in 1..Len(line)
        BY <1>4, <2>1
      <3>2. /\ front \in Seq(ReplyByte) /\ Len(front) = Len(line) + Len(body)
            /\ \A j \in 1..Len(line) : front[j] = line[j]
        BY <3>1, Concatenation
      <3> QED BY <1>4, <2>1, <3>1, <3>2
    <2>3. end \in Seq(ReplyByte) /\ Len(end) = 2 /\ end[1] = Cr /\ end[2] = Lf
      BY <1>5
    <2>4. e = front \o end
      BY <1>3, <1>8
    <2> HIDE DEF front, end
    <2>5. /\ e \in Seq(ReplyByte) /\ Len(e) = Len(front) + Len(end)
          /\ \A j \in 1..Len(front) : e[j] = front[j]
          /\ \A j \in (Len(front) + 1)..(Len(front) + Len(end)) :
               e[j] = end[j - Len(front)]
      <3>1. front \in Seq(ReplyByte) /\ end \in Seq(ReplyByte)
        BY <2>2, <2>3
      <3>2. /\ front \o end \in Seq(ReplyByte) /\ Len(front \o end) = Len(front) + Len(end)
            /\ \A j \in 1..Len(front) : (front \o end)[j] = front[j]
            /\ \A j \in (Len(front) + 1)..(Len(front) + Len(end)) :
                 (front \o end)[j] = end[j - Len(front)]
        BY <3>1, Concatenation
      <3> QED BY <2>4, <3>2
    <2>6. e \in Seq(ReplyByte) /\ Len(e) = n + 4 /\ e[1] = <<"$", n>> /\ e[2] = Lf
      <3>1. 1 \in 1..Len(front) /\ 2 \in 1..Len(front)
        BY <2>1, <2>2
      <3>2. Len(e) = n + 4
        BY <2>1, <2>2, <2>3, <2>5
      <3>3. e[1] = <<"$", n>> /\ e[2] = Lf
        BY <1>4, <2>2, <2>5, <3>1
      <3> QED BY <2>5, <3>2, <3>3
    <2>7. n = 0 => e[3] = Cr /\ e[4] = Lf
      <3> SUFFICES ASSUME n = 0 PROVE e[3] = Cr /\ e[4] = Lf
        OBVIOUS
      <3>1. Len(front) = 2 /\ 3 \in (Len(front) + 1)..(Len(front) + Len(end))
            /\ 4 \in (Len(front) + 1)..(Len(front) + Len(end))
            /\ 3 - Len(front) = 1 /\ 4 - Len(front) = 2
        BY <2>2, <2>3
      <3> QED BY <2>3, <2>5, <3>1
    <2> QED BY <1>1, <1>8, <2>6, <2>7 DEF Spells
  <1>9. Spells(e, n)
    BY <1>7, <1>8
  <1> QED BY <1>9 DEF e, n

HeadOf(s, c) ==
  IF s[c].kind = "line" THEN <<"+", c>> ELSE <<"*", Len(s[c].elements)>>

LEMMA HeaderFacts ==
  ASSUME NEW s \in Streams, NEW c \in 1..Len(s), NEW h, h = Header(s, c)
  PROVE  /\ h \in Seq(ReplyByte)
         /\ s[c].kind = "bulk" => Len(h) = 0
         /\ s[c].kind # "bulk" => Len(h) = 2 /\ h[1] = HeadOf(s, c) /\ h[2] = Lf
  <1>1. Len(s[c].elements) \in Nat /\ c \in Int
    BY StreamFacts
  <1>2. <<"+", c>> \in ReplyByte /\ <<"*", Len(s[c].elements)>> \in ReplyByte
    <2> DEFINE n == Len(s[c].elements)
    <2>1. n \in Int /\ c \in Int
      BY <1>1
    <2> HIDE DEF n
    <2>2. <<"+", c>> \in ReplyByte /\ <<"*", n>> \in ReplyByte
      BY <2>1, ReplyByteFacts
    <2> QED BY <2>2 DEF n
  <1>3. s[c].kind \in {"line", "bulk", "array"}
    BY StreamFacts
  <1>4. CASE s[c].kind = "line"
    <2>1. h = <<HeadOf(s, c), Lf>> /\ HeadOf(s, c) \in ReplyByte
      BY <1>2, <1>4 DEF Header, HeadOf
    <2> QED BY <1>4, <2>1, ReplyByteFacts
  <1>5. CASE s[c].kind = "array"
    <2>1. h = <<HeadOf(s, c), Lf>> /\ HeadOf(s, c) \in ReplyByte
      BY <1>2, <1>5 DEF Header, HeadOf
    <2> QED BY <1>5, <2>1, ReplyByteFacts
  <1>6. CASE s[c].kind = "bulk"
    <2>1. h = <<>>
      BY <1>6 DEF Header
    <2> QED BY <1>6, <2>1, ReplyByteFacts
  <1> QED BY <1>3, <1>4, <1>5, <1>6

\* A reply and its beginnings.
Composed(s, c, n) ==
  /\ Encoded(s, c) = Begun(s, c, n) /\ Encoded(s, c) \in Seq(ReplyByte)
  /\ \A i \in 0..n : /\ Len(Begun(s, c, i)) \in Nat
                     /\ Len(Begun(s, c, i)) <= Len(Encoded(s, c))
  /\ Len(Begun(s, c, 0)) = IF s[c].kind = "bulk" THEN 0 ELSE 2
  /\ s[c].kind # "bulk" => Encoded(s, c)[1] = HeadOf(s, c) /\ Encoded(s, c)[2] = Lf
  /\ \A i \in 1..n :
       /\ Len(Begun(s, c, i)) = Len(Begun(s, c, i - 1)) + Len(ElementOf(s, c, i))
       /\ \A j \in 1..Len(ElementOf(s, c, i)) :
            Encoded(s, c)[Len(Begun(s, c, i - 1)) + j] = ElementOf(s, c, i)[j]

LEMMA BegunFacts ==
  ASSUME NEW s \in Streams, NEW c \in 1..Len(s)
  PROVE  Composed(s, c, Len(s[c].elements))
  <1> DEFINE n == Len(s[c].elements)
  <1> DEFINE E == [j \in 1..n |-> ElementOf(s, c, j)]
             h == Header(s, c)
  <1>1. n \in Nat /\ E \in [1..n -> Seq(ReplyByte)]
    <2>1. n \in Nat
      BY StreamFacts
    <2>2. \A i \in 1..n : ElementOf(s, c, i) \in Seq(ReplyByte)
      BY ElementFacts DEF Spells
    <2> QED BY <2>1, <2>2
  <1>2. /\ h \in Seq(ReplyByte)
        /\ s[c].kind = "bulk" => Len(h) = 0
        /\ s[c].kind # "bulk" => Len(h) = 2 /\ h[1] = HeadOf(s, c) /\ h[2] = Lf
    BY HeaderFacts
  <1>3. \A i \in 0..n : Begun(s, c, i) = h \o Flat(E, i)
    <2> SUFFICES ASSUME NEW i \in 0..n PROVE Begun(s, c, i) = h \o Flat(E, i)
      OBVIOUS
    <2>1. [j \in 1..i |-> ElementOf(s, c, j)] = [j \in 1..i |-> E[j]]
      BY <1>1
    <2> QED BY <2>1 DEF Begun, Flat
  <1>4. \A i \in 1..n : E[i] = ElementOf(s, c, i)
    OBVIOUS
  <1>17. Encoded(s, c) = Begun(s, c, n)
    BY DEF Encoded
  <1> HIDE DEF E, h, n
  <1>5. Flat(E, 0) = <<>> /\ \A i \in 0..n : Flat(E, i) \in Seq(ReplyByte)
    BY <1>1, FlatFacts
  <1>6. LaidOut(E, n)
    BY <1>1, FlatPlaces
  <1>7. Encoded(s, c) = Begun(s, c, n)
    BY <1>17
  <1>8. /\ n \in 0..n /\ 0 \in 0..n /\ Len(h) \in Nat
        /\ \A i \in 0..n : Len(Flat(E, i)) \in Nat /\ Len(Flat(E, i)) <= Len(Flat(E, n))
    <2>1. n \in 0..n /\ 0 \in 0..n /\ Len(h) \in Nat
      BY <1>1, <1>2
    <2>2. \A i \in 0..n : i <= n
      BY <1>1
    <2> QED BY <1>6, <2>1, <2>2 DEF LaidOut
  <1>9. \A i \in 0..n : Begun(s, c, i) \in Seq(ReplyByte)
                        /\ Len(Begun(s, c, i)) = Len(h) + Len(Flat(E, i))
    <2> SUFFICES ASSUME NEW i \in 0..n
                 PROVE  Begun(s, c, i) \in Seq(ReplyByte)
                        /\ Len(Begun(s, c, i)) = Len(h) + Len(Flat(E, i))
      OBVIOUS
    <2>1. h \in Seq(ReplyByte) /\ Flat(E, i) \in Seq(ReplyByte)
      BY <1>2, <1>5
    <2> QED BY <1>3, <2>1, Concatenation
  <1>10. /\ Encoded(s, c) = h \o Flat(E, n)
         /\ \A j \in 1..Len(h) : Encoded(s, c)[j] = h[j]
         /\ \A j \in (Len(h) + 1)..(Len(h) + Len(Flat(E, n))) :
              Encoded(s, c)[j] = Flat(E, n)[j - Len(h)]
    <2>1. h \in Seq(ReplyByte) /\ Flat(E, n) \in Seq(ReplyByte)
      BY <1>2, <1>5, <1>8
    <2>2. Encoded(s, c) = h \o Flat(E, n)
      BY <1>3, <1>7, <1>8
    <2> QED BY <2>1, <2>2, Concatenation
  <1>11. Encoded(s, c) \in Seq(ReplyByte)
    BY <1>7, <1>8, <1>9
  <1>12. ASSUME NEW i \in 0..n
         PROVE  Len(Begun(s, c, i)) \in Nat /\ Len(Begun(s, c, i)) <= Len(Encoded(s, c))
    <2> DEFINE a == Len(Flat(E, i))
               b == Len(Flat(E, n))
               x == Len(h)
    <2>1. a \in Nat /\ b \in Nat /\ a <= b /\ x \in Nat
      BY <1>8
    <2>2. Len(Begun(s, c, i)) = x + a /\ Len(Encoded(s, c)) = x + b
      BY <1>7, <1>8, <1>9
    <2> HIDE DEF a, b, x
    <2> QED BY <2>1, <2>2
  <1>13. Len(Begun(s, c, 0)) = IF s[c].kind = "bulk" THEN 0 ELSE 2
    <2>1. Len(Flat(E, 0)) = 0
      BY <1>5
    <2>2. Len(Begun(s, c, 0)) = Len(h)
      BY <1>8, <1>9, <2>1
    <2> QED BY <1>2, <2>2
  <1>14. s[c].kind # "bulk" => Encoded(s, c)[1] = HeadOf(s, c) /\ Encoded(s, c)[2] = Lf
    <2> SUFFICES ASSUME s[c].kind # "bulk"
                 PROVE  Encoded(s, c)[1] = HeadOf(s, c) /\ Encoded(s, c)[2] = Lf
      OBVIOUS
    <2>1. Len(h) = 2 /\ h[1] = HeadOf(s, c) /\ h[2] = Lf
      BY <1>2
    <2>2. 1 \in 1..Len(h) /\ 2 \in 1..Len(h)
      BY <2>1
    <2> QED BY <1>10, <2>1, <2>2
  <1>15. ASSUME NEW i \in 1..n
         PROVE  /\ Len(Begun(s, c, i)) = Len(Begun(s, c, i - 1)) + Len(E[i])
                /\ \A j \in 1..Len(E[i]) :
                     Encoded(s, c)[Len(Begun(s, c, i - 1)) + j] = E[i][j]
    <2> DEFINE a == Len(Flat(E, i - 1))
               b == Len(E[i])
               l == Len(Flat(E, n))
               x == Len(h)
               u == Len(Begun(s, c, i - 1))
               v == Len(Begun(s, c, i))
    <2>1. i - 1 \in 0..n /\ i \in 0..n /\ i <= n /\ n \in 0..n
      BY <1>1
    <2>2. v = x + Len(Flat(E, i)) /\ u = x + a
      BY <1>9, <2>1
    <2>3. Len(Flat(E, i)) = a + b /\ \A j \in 1..b : Flat(E, n)[a + j] = E[i][j]
      BY <1>6, <2>1 DEF LaidOut
    <2>4. a \in Nat /\ l \in Nat /\ x \in Nat /\ a + b <= l
      BY <1>8, <2>1, <2>3
    <2>5. b \in Nat
      BY <1>1
    <2>6. \A j \in (x + 1)..(x + l) : Encoded(s, c)[j] = Flat(E, n)[j - x]
      BY <1>10
    <2> HIDE DEF a, b, l, x, u, v
    <2>7. v = u + b
      BY <2>2, <2>3, <2>4, <2>5
    <2>8. ASSUME NEW j \in 1..b PROVE Encoded(s, c)[u + j] = E[i][j]
      <3> DEFINE k == u + j
      <3>1. k \in (x + 1)..(x + l) /\ k - x = a + j
        BY <2>2, <2>4, <2>5
      <3> HIDE DEF k
      <3>2. Encoded(s, c)[k] = Flat(E, n)[a + j]
        BY <2>6, <3>1
      <3> QED BY <2>3, <3>2 DEF k
    <2> QED BY <2>7, <2>8 DEF b, u, v
  <1>16. ASSUME NEW i \in 1..n
         PROVE  /\ Len(Begun(s, c, i)) = Len(Begun(s, c, i - 1)) + Len(ElementOf(s, c, i))
                /\ \A j \in 1..Len(ElementOf(s, c, i)) :
                     Encoded(s, c)[Len(Begun(s, c, i - 1)) + j] = ElementOf(s, c, i)[j]
    BY <1>4, <1>15
  <1>18. Composed(s, c, n)
    BY <1>7, <1>11, <1>12, <1>13, <1>14, <1>16 DEF Composed
  <1> QED BY <1>18 DEF n

\* The replies lie in the stream one behind the other.
InOrder(s, all, end, n) ==
  /\ n \in Nat
  /\ all \in Seq(ReplyByte) /\ end[0] = 0 /\ end[n] = Len(all)
  /\ \A c \in 0..n : end[c] \in Nat
  /\ \A c, d \in 0..n : c <= d => end[c] <= end[d]
  /\ \A c \in 1..n :
       /\ end[c] = end[c - 1] + Len(Encoded(s, c))
       /\ \A j \in 1..Len(Encoded(s, c)) : all[end[c - 1] + j] = Encoded(s, c)[j]

LEMMA BytesFacts ==
  ASSUME NEW s \in Streams
  PROVE  InOrder(s, Bytes[s], ReplyEnd[s], Len(s))
  <1> DEFINE n == Len(s)
             all == Bytes[s]
             end == ReplyEnd[s]
  <1> DEFINE E == [c \in 1..n |-> Encoded(s, c)]
  <1>1. n \in Nat
    BY StreamFacts
  <1>2. E \in [1..n -> Seq(ReplyByte)]
    <2>1. \A c \in 1..n : Encoded(s, c) \in Seq(ReplyByte)
      BY BegunFacts DEF Composed
    <2> QED BY <2>1
  <1>3. \A k \in 0..n : [d \in 1..k |-> Encoded(s, d)] = [d \in 1..k |-> E[d]]
    BY <1>1
  <1>4. all = Flat(E, n)
    <2>1. all = FlattenSeq([c \in 1..n |-> Encoded(s, c)])
      BY DEF Bytes
    <2> QED BY <1>1, <1>3, <2>1 DEF Flat
  <1>5. \A c \in 0..n : end[c] = Len(Flat(E, c))
    <2>1. \A c \in 0..n : end[c] = Len(FlattenSeq([d \in 1..c |-> Encoded(s, d)]))
      BY DEF ReplyEnd
    <2> QED BY <1>3, <2>1 DEF Flat
  <1>6. \A c \in 1..n : E[c] = Encoded(s, c)
    OBVIOUS
  <1> HIDE DEF E, n, all, end
  <1>7. /\ Flat(E, 0) = <<>> /\ \A k \in 0..n : Flat(E, k) \in Seq(ReplyByte)
    BY <1>1, <1>2, FlatFacts
  <1>8. LaidOut(E, n)
    BY <1>1, <1>2, FlatPlaces
  <1>9. 0 \in 0..n /\ n \in 0..n
    BY <1>1
  <1>10. all \in Seq(ReplyByte) /\ end[0] = 0 /\ end[n] = Len(all)
    BY <1>4, <1>5, <1>7, <1>9
  <1>11. \A c \in 0..n : end[c] \in Nat
    BY <1>5, <1>8 DEF LaidOut
  <1>12. \A c, d \in 0..n : c <= d => end[c] <= end[d]
    BY <1>5, <1>8 DEF LaidOut
  <1>13. ASSUME NEW c \in 1..n
         PROVE  /\ end[c] = end[c - 1] + Len(E[c])
                /\ \A j \in 1..Len(E[c]) : all[end[c - 1] + j] = E[c][j]
    <2>1. c - 1 \in 0..n /\ c \in 0..n /\ c <= n
      BY <1>1
    <2>2. /\ Len(Flat(E, c)) = Len(Flat(E, c - 1)) + Len(E[c])
          /\ \A j \in 1..Len(E[c]) : Flat(E, n)[Len(Flat(E, c - 1)) + j] = E[c][j]
      BY <1>8, <1>9, <2>1 DEF LaidOut
    <2>3. end[c] = Len(Flat(E, c)) /\ end[c - 1] = Len(Flat(E, c - 1))
      BY <1>5, <2>1
    <2> QED BY <1>4, <2>2, <2>3
  <1>14. ASSUME NEW c \in 1..n
         PROVE  /\ end[c] = end[c - 1] + Len(Encoded(s, c))
                /\ \A j \in 1..Len(Encoded(s, c)) : all[end[c - 1] + j] = Encoded(s, c)[j]
    BY <1>6, <1>13
  <1>15. InOrder(s, all, end, n)
    BY <1>1, <1>10, <1>11, <1>12, <1>14 DEF InOrder
  <1> QED BY <1>15 DEF all, end, n

--------------------------------------------------------------------------------
\* At p, the line with header h begins.
LineAt(s, p, h) == /\ p \in Nat /\ p + 2 <= Len(Bytes[s])
                   /\ Bytes[s][p + 1] = h /\ Bytes[s][p + 2] = Lf

\* What the parser leaves of an element or a reply with an empty one at its end.
Rest(s, c, i) == IF i > 0 /\ s[c].elements[i] = 0 THEN 2 ELSE 0
Unskipped(s, c) == IF c > 0 THEN Rest(s, c, Len(s[c].elements)) ELSE 0

\* Where the parser stands when it handed out c replies.
Done(s, c) == ReplyEnd[s][c] - Unskipped(s, c)

\* Where the parser would look for the i-th element if nothing were left of the one before.
Place(s, c, i) == ReplyEnd[s][c - 1] + Len(Begun(s, c, i))

Places(s, c, n) ==
  /\ n \in Nat
  /\ ReplyEnd[s][c - 1] \in Nat /\ ReplyEnd[s][c] \in Nat /\ Len(Bytes[s]) \in Nat
  /\ ReplyEnd[s][c] <= Len(Bytes[s])
  /\ \A i \in 0..n : /\ Place(s, c, i) \in Nat /\ Place(s, c, i) >= ReplyEnd[s][c - 1]
                     /\ Place(s, c, i) <= ReplyEnd[s][c]
                     /\ Rest(s, c, i) \in {0, 2}
                     /\ LineStart(s, c, i) = Place(s, c, i) - Rest(s, c, i)
  /\ Place(s, c, 0) = ReplyEnd[s][c - 1] + (IF s[c].kind = "bulk" THEN 0 ELSE 2)
  /\ Place(s, c, n) = ReplyEnd[s][c]
  /\ \A i \in 1..n : /\ Place(s, c, i) = Place(s, c, i - 1) + Len(ElementOf(s, c, i))
                     /\ \A j \in 1..Len(ElementOf(s, c, i)) :
                          Bytes[s][Place(s, c, i - 1) + j] = ElementOf(s, c, i)[j]

LEMMA PlaceFacts ==
  ASSUME NEW s \in Streams, NEW c \in 1..Len(s)
  PROVE  Places(s, c, Len(s[c].elements))
  <1> DEFINE all == Bytes[s]
             end == ReplyEnd[s]
             n == Len(s[c].elements)
             r == Encoded(s, c)
             b(k) == Len(Begun(s, c, k))
             l(k) == Len(ElementOf(s, c, k))
             p(k) == Place(s, c, k)
             m == Len(s)
             from == end[c - 1]
             to == end[c]
             size == Len(r)
             total == Len(all)
  <1>1. n \in Nat /\ m \in Nat
    BY StreamFacts
  <1>2. /\ r = Begun(s, c, n) /\ r \in Seq(ReplyByte)
        /\ \A k \in 0..n : b(k) \in Nat /\ b(k) <= size
        /\ b(0) = IF s[c].kind = "bulk" THEN 0 ELSE 2
        /\ \A k \in 1..n : /\ b(k) = b(k - 1) + l(k)
                           /\ \A j \in 1..l(k) : r[b(k - 1) + j] = ElementOf(s, c, k)[j]
    BY BegunFacts DEF Composed
  <1>3. /\ all \in Seq(ReplyByte) /\ end[m] = total
        /\ \A k \in 0..m : end[k] \in Nat
        /\ \A k, d \in 0..m : k <= d => end[k] <= end[d]
        /\ to = from + size
        /\ \A j \in 1..size : all[from + j] = r[j]
    BY BytesFacts DEF InOrder
  <1>4. \A k \in 1..n : l(k) \in Nat
    <2>1. \A k \in 1..n : ElementOf(s, c, k) \in Seq(ReplyByte)
      BY ElementFacts DEF Spells
    <2> QED BY <2>1
  <1>5. c - 1 \in 0..m /\ c \in 0..m /\ m \in 0..m /\ c <= m
    BY <1>1
  <1>6. from \in Nat /\ to \in Nat /\ total \in Nat /\ to <= total /\ size \in Nat
    BY <1>2, <1>3, <1>5
  <1>7. \A k : p(k) = from + b(k)
    BY DEF Place
  <1>8. \A k : LineStart(s, c, k) = from + (b(k) - Rest(s, c, k)) /\ Rest(s, c, k) \in {0, 2}
    BY DEF LineStart, Rest
  <1>9. b(n) = size
    BY <1>2
  <1> HIDE DEF all, end, n, r, b, l, p, m, from, to, size, total
  <1>10. ASSUME NEW k \in 0..n
         PROVE  /\ p(k) \in Nat /\ p(k) >= from /\ p(k) <= to
                /\ LineStart(s, c, k) = p(k) - Rest(s, c, k)
    <2> DEFINE x == b(k)
               y == Rest(s, c, k)
    <2>1. /\ x \in Nat /\ x <= size /\ y \in {0, 2} /\ p(k) = from + x
          /\ LineStart(s, c, k) = from + (x - y)
      BY <1>2, <1>7, <1>8
    <2> HIDE DEF x, y
    <2>2. p(k) \in Nat /\ p(k) >= from /\ p(k) <= to /\ LineStart(s, c, k) = p(k) - y
      BY <1>3, <1>6, <2>1
    <2> QED BY <2>2 DEF y
  <1>11. p(0) = from + (IF s[c].kind = "bulk" THEN 0 ELSE 2) /\ p(n) = to
    BY <1>2, <1>3, <1>7, <1>9
  <1>12. ASSUME NEW k \in 1..n
         PROVE  /\ p(k) = p(k - 1) + l(k)
                /\ \A j \in 1..l(k) : all[p(k - 1) + j] = ElementOf(s, c, k)[j]
    <2> DEFINE x == b(k - 1)
               y == l(k)
               z == b(k)
    <2>1. k - 1 \in 0..n /\ k \in 0..n
      BY <1>1
    <2>2. /\ x \in Nat /\ y \in Nat /\ z \in Nat /\ z <= size /\ z = x + y
          /\ p(k) = from + z /\ p(k - 1) = from + x
      BY <1>2, <1>4, <1>7, <2>1
    <2>3. \A j \in 1..y : r[x + j] = ElementOf(s, c, k)[j]
      BY <1>2
    <2> HIDE DEF x, y, z
    <2>4. p(k) = p(k - 1) + y
      BY <1>6, <2>2
    <2>5. ASSUME NEW j \in 1..y PROVE all[p(k - 1) + j] = ElementOf(s, c, k)[j]
      <3>1. x + j \in 1..size /\ p(k - 1) + j = from + (x + j)
        BY <1>6, <2>2
      <3> QED BY <1>3, <2>3, <3>1
    <2> QED BY <2>4, <2>5 DEF y
  <1>13. \A k \in 0..n : Rest(s, c, k) \in {0, 2}
    BY <1>8
  <1> QED BY <1>1, <1>6, <1>10, <1>11, <1>12, <1>13 DEF Places, all, end, n, l, p, from, to, total

LEMMA HeadAt ==
  ASSUME NEW s \in Streams, NEW c \in 1..Len(s), NEW p, p = ReplyEnd[s][c - 1]
  PROVE  /\ s[c].kind # "bulk" => /\ LineAt(s, p, HeadOf(s, c)) /\ LineStart(s, c, 0) = p + 2
                                 /\ p + 2 <= ReplyEnd[s][c]
         /\ s[c].kind = "bulk" => LineStart(s, c, 0) = p
         /\ s[c].kind = "line" => ReplyEnd[s][c] = p + 2
  <1> DEFINE all == Bytes[s]
             n == Len(s[c].elements)
             r == Encoded(s, c)
             to == ReplyEnd[s][c]
             size == Len(r)
             total == Len(all)
  <1>1. /\ n \in Nat /\ p \in Nat /\ to \in Nat /\ total \in Nat /\ to <= total
        /\ \A i \in 0..n : /\ Place(s, c, i) \in Nat /\ Place(s, c, i) <= to
                           /\ LineStart(s, c, i) = Place(s, c, i) - Rest(s, c, i)
        /\ Place(s, c, 0) = p + (IF s[c].kind = "bulk" THEN 0 ELSE 2)
        /\ Place(s, c, n) = to
    BY PlaceFacts DEF Places
  <1>2. s[c].kind = "line" => n = 0
    BY StreamFacts
  <1>3. /\ r \in Seq(ReplyByte) /\ \A i \in 0..n : Len(Begun(s, c, i)) <= size
        /\ Len(Begun(s, c, 0)) = IF s[c].kind = "bulk" THEN 0 ELSE 2
        /\ s[c].kind # "bulk" => r[1] = HeadOf(s, c) /\ r[2] = Lf
    BY BegunFacts DEF Composed
  <1>4. /\ to = p + size /\ \A j \in 1..size : all[p + j] = r[j]
    BY BytesFacts DEF InOrder
  <1>5. size \in Nat
    BY <1>3
  <1>6. Rest(s, c, 0) = 0
    BY DEF Rest
  <1> HIDE DEF all, n, r, to, size, total
  <1>7. 0 \in 0..n /\ Place(s, c, 0) \in Nat /\ Place(s, c, 0) <= to
        /\ LineStart(s, c, 0) = Place(s, c, 0) - 0
    BY <1>1, <1>6
  <1>8. ASSUME s[c].kind # "bulk"
        PROVE  LineAt(s, p, HeadOf(s, c)) /\ LineStart(s, c, 0) = p + 2 /\ p + 2 <= to
    <2>1. Place(s, c, 0) = p + 2 /\ 2 <= size
      BY <1>1, <1>3, <1>7, <1>8
    <2>2. LineStart(s, c, 0) = p + 2 /\ p + 2 <= to /\ p + 2 <= total
      BY <1>1, <1>7, <2>1
    <2>3. 1 \in 1..size /\ 2 \in 1..size
      BY <1>5, <2>1
    <2>4. all[p + 1] = HeadOf(s, c) /\ all[p + 2] = Lf
      BY <1>3, <1>4, <1>8, <2>3
    <2> QED BY <1>1, <2>2, <2>4 DEF LineAt, all, total
  <1>9. s[c].kind = "bulk" => LineStart(s, c, 0) = p
    BY <1>1, <1>7
  <1>10. s[c].kind = "line" => to = p + 2
    BY <1>1, <1>2
  <1> QED BY <1>8, <1>9, <1>10 DEF to

\* What an element has behind its length line.
Body(v) == IF v > 0 THEN v + 2 ELSE 0

\* The length line of an element, and where it and the element end.
Begins(s, c, i, v, p) ==
  /\ v \in Nat \union {-1} /\ LineAt(s, p, <<"$", v>>) /\ p >= ReplyEnd[s][c - 1]
  /\ LineStart(s, c, i + 1) = p + 2 + Body(v)
  /\ p + 2 + Body(v) <= ReplyEnd[s][c]

LEMMA ElementAt ==
  ASSUME NEW s \in Streams, NEW c \in 1..Len(s), NEW i \in 0..(Len(s[c].elements) - 1),
         Rest(s, c, i) = 0
  PROVE  Begins(s, c, i, s[c].elements[i + 1], LineStart(s, c, i))
  <1> DEFINE v == s[c].elements[i + 1]
             p == LineStart(s, c, i)
             k == i + 1
             e == ElementOf(s, c, k)
             n == Len(s[c].elements)
             from == ReplyEnd[s][c - 1]
             to == ReplyEnd[s][c]
             total == Len(Bytes[s])
             l == Len(e)
             w == Rest(s, c, k)
             x == Place(s, c, k)
  <1>1. n \in Nat
    BY StreamFacts
  <1>2. k \in 1..n /\ k \in 0..n /\ i \in 0..n /\ k - 1 = i /\ k > 0
    BY <1>1
  <1>3. Spells(e, v)
    <2>1. Spells(ElementOf(s, c, k), s[c].elements[k])
      BY <1>2, ElementFacts
    <2> QED BY <2>1
  <1>4. Places(s, c, n)
    BY PlaceFacts
  <1>5. w = IF v = 0 THEN 2 ELSE 0
    BY <1>2 DEF Rest
  <1> HIDE DEF k, e, n, from, to, total, l, w, x, v, p
  <1>6. /\ from \in Nat /\ to \in Nat /\ total \in Nat /\ to <= total
        /\ Place(s, c, i) \in Nat /\ Place(s, c, i) >= from /\ x <= to /\ x \in Nat
        /\ LineStart(s, c, i) = Place(s, c, i) - 0 /\ LineStart(s, c, k) = x - w
        /\ x = Place(s, c, i) + l
        /\ \A j \in 1..l : Bytes[s][Place(s, c, i) + j] = e[j]
    <2>1. /\ from \in Nat /\ to \in Nat /\ total \in Nat /\ to <= total
          /\ Place(s, c, i) \in Nat /\ Place(s, c, i) >= from
          /\ Place(s, c, k) <= to /\ Place(s, c, k) \in Nat
          /\ LineStart(s, c, i) = Place(s, c, i) - Rest(s, c, i)
          /\ LineStart(s, c, k) = Place(s, c, k) - Rest(s, c, k)
      BY <1>2, <1>4 DEF Places, from, to, total
    <2>2. /\ Place(s, c, k) = Place(s, c, k - 1) + Len(ElementOf(s, c, k))
          /\ \A j \in 1..Len(ElementOf(s, c, k)) :
               Bytes[s][Place(s, c, k - 1) + j] = ElementOf(s, c, k)[j]
      BY <1>2, <1>4 DEF Places
    <2> QED BY <1>2, <2>1, <2>2 DEF e, l, w, x
  <1>7. p = Place(s, c, i)
    BY <1>6 DEF p
  <1>8. /\ v \in Nat \union {-1} /\ l = (IF v = -1 THEN 2 ELSE v + 4)
        /\ e[1] = <<"$", v>> /\ e[2] = Lf
    BY <1>3 DEF Spells, l
  <1>9. LineAt(s, p, <<"$", v>>)
    <2>3. l \in Nat /\ l >= 2
      BY <1>8
    <2>4. Place(s, c, i) + l <= total /\ Place(s, c, i) \in Nat
      BY <1>6
    <2>1. l \in Nat /\ 1 \in 1..l /\ 2 \in 1..l /\ p + 2 <= total
      BY <1>6, <1>7, <2>3, <2>4
    <2>2. Bytes[s][p + 1] = <<"$", v>> /\ Bytes[s][p + 2] = Lf
      BY <1>6, <1>7, <1>8, <2>1
    <2> QED BY <1>6, <1>7, <2>1, <2>2 DEF LineAt, total
  <1>10. LineStart(s, c, k) = p + 2 + Body(v) /\ p + 2 + Body(v) <= to
    <2>1. CASE v = -1
      <3>1. l = 2 /\ w = 0 /\ Body(v) = 0
        BY <1>5, <1>8, <2>1 DEF Body
      <3> QED BY <1>6, <1>7, <3>1
    <2>2. CASE v = 0
      <3>1. l = 4 /\ w = 2 /\ Body(v) = 0
        BY <1>5, <1>8, <2>2 DEF Body
      <3> QED BY <1>6, <1>7, <3>1, SMTT(20)
    <2>3. CASE v \in Nat /\ v > 0
      <3>1. l = v + 4 /\ w = 0 /\ Body(v) = v + 2
        BY <1>5, <1>8, <2>3 DEF Body
      <3>2. p \in Nat /\ x \in Nat /\ x <= to /\ to \in Nat /\ x = p + l
            /\ LineStart(s, c, k) = x - w
        BY <1>6, <1>7
      <3>3. v \in Nat /\ x = p + (v + 4) /\ LineStart(s, c, k) = x
        BY <2>3, <3>1, <3>2
      <3>4. p + 2 + (v + 2) = p + (v + 4)
        BY <3>2, <3>3
      <3> QED BY <3>1, <3>2, <3>3, <3>4
    <2> QED BY <1>8, <2>1, <2>2, <2>3
  <1>11. p >= from
    BY <1>6, <1>7
  <1>12. Begins(s, c, i, v, p)
    BY <1>8, <1>9, <1>10, <1>11 DEF Begins, k, from, to
  <1> QED BY <1>12 DEF v, p

\* Behind an empty element, the end of its line.
LEMMA RestAt ==
  ASSUME NEW s \in Streams, NEW c \in 1..Len(s), NEW i \in 0..Len(s[c].elements),
         Rest(s, c, i) # 0
  PROVE  /\ LineAt(s, LineStart(s, c, i), Cr) /\ i > 0 /\ s[c].elements[i] = 0
         /\ LineStart(s, c, i) + 2 <= ReplyEnd[s][c]
         /\ LineStart(s, c, i) >= ReplyEnd[s][c - 1] + 2
  <1> DEFINE e == ElementOf(s, c, i)
             n == Len(s[c].elements)
             from == ReplyEnd[s][c - 1]
             to == ReplyEnd[s][c]
             total == Len(Bytes[s])
             x == Place(s, c, i)
             y == Place(s, c, i - 1)
             l == Len(e)
             p == LineStart(s, c, i)
             v == s[c].elements[i]
  <1>1. i > 0 /\ v = 0 /\ Rest(s, c, i) = 2
    BY DEF Rest
  <1>2. n \in Nat
    BY StreamFacts
  <1>3. i \in 1..n /\ i \in 0..n /\ i - 1 \in 0..n
    BY <1>1, <1>2
  <1>4. Spells(e, v)
    BY <1>3, ElementFacts
  <1>5. Places(s, c, n)
    BY PlaceFacts
  <1> HIDE DEF e, n, from, to, total, x, y, l, p, v
  <1>6. l = 4 /\ e[3] = Cr /\ e[4] = Lf
    BY <1>1, <1>4 DEF Spells, l
  <1>7. /\ from \in Nat /\ to \in Nat /\ total \in Nat /\ to <= total
        /\ y \in Nat /\ y >= from /\ x \in Nat /\ x <= to
        /\ p = x - 2 /\ x = y + l /\ \A j \in 1..l : Bytes[s][y + j] = e[j]
    BY <1>1, <1>3, <1>5 DEF Places, from, to, total, x, y, l, e, p
  <1>8. /\ p = y + 2 /\ p + 2 <= to /\ p + 2 <= total /\ p >= from + 2 /\ p \in Nat
        /\ p + 1 = y + 3 /\ p + 2 = y + 4
    BY <1>6, <1>7
  <1>9. Bytes[s][y + 3] = Cr /\ Bytes[s][y + 4] = Lf
    BY <1>6, <1>7, SMTT(20)
  <1>10. LineAt(s, p, Cr)
    BY <1>8, <1>9 DEF LineAt, total
  <1> QED BY <1>1, <1>8, <1>10 DEF from, to, p, v

\* The parser is done with a reply at its end, or in front of what it left of an empty element.
LEMMA DoneAt ==
  ASSUME NEW s \in Streams, NEW c \in 1..Len(s)
  PROVE  /\ Done(s, c) = LineStart(s, c, Len(s[c].elements))
         /\ Unskipped(s, c) = 0 => Done(s, c) = ReplyEnd[s][c]
         /\ Unskipped(s, c) = Rest(s, c, Len(s[c].elements))
  <1>1. Unskipped(s, c) = Rest(s, c, Len(s[c].elements))
    BY DEF Unskipped
  <1>2. /\ Len(s[c].elements) \in 0..Len(s[c].elements) /\ ReplyEnd[s][c] \in Nat
        /\ \A i \in 0..Len(s[c].elements) : LineStart(s, c, i) = Place(s, c, i) - Rest(s, c, i)
        /\ Place(s, c, Len(s[c].elements)) = ReplyEnd[s][c]
    BY PlaceFacts DEF Places
  <1>3. LineStart(s, c, Len(s[c].elements))
          = Place(s, c, Len(s[c].elements)) - Rest(s, c, Len(s[c].elements))
    BY <1>2
  <1> QED BY <1>1, <1>2, <1>3 DEF Done

LEMMA BytesTyped ==
  ASSUME NEW s \in Streams
  PROVE  Bytes[s] \in Seq(ReplyByte) /\ Len(Bytes[s]) \in Nat
  <1>1. Bytes[s] \in Seq(ReplyByte)
    BY BytesFacts DEF InOrder
  <1> QED BY <1>1

ReplyAssociates(x, y, v) ==
  /\ (x \o y) \o v = x \o (y \o v)
  /\ x \o y \in Seq(ReplyByte) /\ y \o v \in Seq(ReplyByte)
  /\ <<>> \o v = v

LEMMA ReplyAssociative ==
  ASSUME NEW x \in Seq(ReplyByte), NEW y \in Seq(ReplyByte), NEW v \in Seq(ReplyByte)
  PROVE  ReplyAssociates(x, y, v)
  <1>1. (x \o y) \o v = x \o (y \o v)
    BY ConcatAssociative
  <1>2. x \o y \in Seq(ReplyByte) /\ y \o v \in Seq(ReplyByte)
    BY ConcatProperties
  <1>3. <<>> \o v = v
    BY ConcatEmptySeq
  <1> QED BY <1>1, <1>2, <1>3 DEF ReplyAssociates

--------------------------------------------------------------------------------
(* The three Buffers a, b and c that share a heap. *)

Trio(h, a, b, c) ==
  /\ h \in Memory(ReplyByte)
  /\ a \in Pointer /\ b \in Pointer /\ c \in Pointer
  /\ InBounds(h, a) /\ InBounds(h, b) /\ InBounds(h, c)
  /\ \A d \in Blocks : h[d].refs = Points(a, d) + Points(b, d) + Points(c, d)

\* Who else looks into a block, for the first of them.
Both(b, c) == [d \in Blocks |-> Points(b, d) + Points(c, d)]

LEMMA BothFacts ==
  ASSUME NEW b, NEW c
  PROVE  /\ Both(b, c) \in [Blocks -> Nat]
         /\ \A d \in Blocks : Both(b, c)[d] = Points(b, d) + Points(c, d)
         /\ \A d \in Blocks : /\ b.data = d => Both(b, c)[d] > 0
                              /\ c.data = d => Both(b, c)[d] > 0
  <1>1. \A x, d : Points(x, d) \in {0, 1} /\ (x.data = d => Points(x, d) = 1)
    BY DEF Points
  <1> QED BY <1>1 DEF Both

LEMMA Turned ==
  ASSUME NEW h, NEW a, NEW b, NEW c, Trio(h, a, b, c)
  PROVE  Trio(h, b, a, c) /\ Trio(h, c, a, b)
  <1>1. \A x, d : Points(x, d) \in {0, 1}
    BY DEF Points
  <1> QED BY <1>1 DEF Trio

\* The first of three is one Buffer at hand, and a block is left to allocate.
LEMMA TrioShared ==
  ASSUME NEW h, NEW a, NEW b, NEW c, Trio(h, a, b, c)
  PROVE  /\ Shared(ReplyByte, h, a, Both(b, c))
         /\ \E d \in Blocks : h[d].refs = 0
  <1>1. \A x, d : Points(x, d) \in {0, 1} /\ (x.data # d => Points(x, d) = 0)
    BY DEF Points
  <1>2. Shared(ReplyByte, h, a, Both(b, c))
    <2>1. Junk \in ReplyByte
      BY DEF Junk, ReplyByte, Kinds
    <2>2. \A d \in Blocks : h[d].refs = Both(b, c)[d] + Points(a, d)
      BY <1>1, BothFacts DEF Trio
    <2> QED BY <2>1, <2>2, BothFacts DEF Trio, Shared
  <1>3. \E d \in Blocks : h[d].refs = 0
    <2>1. PICK e \in Blocks : TRUE
      BY BlocksAssumption
    <2> DEFINE of(x) == IF x.data \in Blocks THEN x.data ELSE e
    <2>2. of(a) \in Blocks /\ of(b) \in Blocks /\ of(c) \in Blocks
      OBVIOUS
    <2>3. PICK d \in Blocks : d \notin {of(a), of(b), of(c)}
      BY <2>2, BlockLeftAssumption
    <2>4. a.data # d /\ b.data # d /\ c.data # d
      BY <2>3
    <2> QED BY <1>1, <2>4 DEF Trio
  <1> QED BY <1>2, <1>3

\* The other two stay what they are when the first becomes x.
LEMMA TrioKept ==
  ASSUME NEW h, NEW a, NEW b, NEW c, Trio(h, a, b, c),
         NEW m, NEW x, Shared(ReplyByte, m, x, Both(b, c)), Spared(h, m, Both(b, c))
  PROVE  Trio(m, x, b, c)
  <1>1. /\ m \in Memory(ReplyByte) /\ x \in Pointer /\ InBounds(m, x)
        /\ \A d \in Blocks : m[d].refs = Both(b, c)[d] + Points(x, d)
    BY DEF Shared
  <1>2. ASSUME NEW y \in {b, c} PROVE InBounds(m, y)
    <2>1. y \in Pointer /\ InBounds(h, y)
      BY DEF Trio
    <2>2. CASE y.data = Null
      BY <2>1, <2>2 DEF InBounds, Capacity
    <2>3. CASE y.data # Null
      <3>1. y.data \in Blocks
        BY <2>1, <2>3 DEF Pointer
      <3>2. Both(b, c)[y.data] > 0
        BY <3>1, BothFacts
      <3>3. Len(m[y.data].bytes) = Len(h[y.data].bytes)
        BY <3>1, <3>2 DEF Spared
      <3> QED BY <2>1, <2>3, <3>3 DEF InBounds, Capacity
    <2> QED BY <2>2, <2>3
  <1>3. \A d \in Blocks : m[d].refs = Points(x, d) + Points(b, d) + Points(c, d)
    <2>1. \A y, d : Points(y, d) \in {0, 1}
      BY DEF Points
    <2> QED BY <1>1, <2>1, BothFacts
  <1> QED BY <1>1, <1>2, <1>3 DEF Trio

\* What a parse keeps is what BlocksAccounted says.
LEMMA TrioCounted ==
  ASSUME NEW h, NEW a, NEW b, NEW c, Trio(h, a, b, c)
  PROVE  Counted(h, <<a, b, c>>)
  <1> DEFINE all == <<a, b, c>>
  <1>1. Len(all) = 3 /\ all[1] = a /\ all[2] = b /\ all[3] = c
    OBVIOUS
  <1> HIDE DEF all
  <1>2. \A i \in 1..Len(all) : InBounds(h, all[i])
    BY <1>1 DEF Trio
  <1>3. ASSUME NEW d \in Blocks
        PROVE  h[d].refs = Cardinality({i \in 1..Len(all) : all[i].data = d})
    <2> DEFINE A == IF a.data = d THEN {1} ELSE {}
               B == IF b.data = d THEN {2} ELSE {}
               C == IF c.data = d THEN {3} ELSE {}
               S == {i \in 1..Len(all) : all[i].data = d}
    <2>1. S = (A \union B) \union C
      BY <1>1
    <2>2. IsFiniteSet({}) /\ Cardinality({}) = 0
      BY FS_EmptySet
    <2>3. IsFiniteSet(A) /\ Cardinality(A) = Points(a, d)
      BY <2>2, FS_Singleton DEF Points
    <2>4. IsFiniteSet(A \union B) /\ Cardinality(A \union B) = Points(a, d) + Points(b, d)
      <3>1. CASE b.data = d
        <4>1. 2 \notin A /\ A \union B = A \union {2} /\ Points(b, d) = 1
          BY <3>1 DEF Points
        <4> HIDE DEF A, B
        <4> QED BY <2>3, <4>1, FS_AddElement
      <3>2. CASE b.data # d
        <4>1. A \union B = A /\ Points(b, d) = 0 /\ Points(a, d) \in {0, 1}
          BY <3>2 DEF Points
        <4> HIDE DEF A, B
        <4> QED BY <2>3, <4>1
      <3> QED BY <3>1, <3>2
    <2> DEFINE P == A \union B
    <2>5. Cardinality(P \union C) = Points(a, d) + Points(b, d) + Points(c, d)
      <3>1. CASE c.data = d
        <4>1. 3 \notin P /\ P \union C = P \union {3} /\ Points(c, d) = 1
          BY <3>1 DEF Points
        <4> HIDE DEF A, B, C
        <4>2. Cardinality(P) + 1 = Points(a, d) + Points(b, d) + 1
          BY <2>4
        <4> HIDE DEF P
        <4> QED BY <2>4, <4>1, <4>2, FS_AddElement DEF P
      <3>2. CASE c.data # d
        <4>1. P \union C = P /\ Points(c, d) = 0 /\ Points(a, d) \in {0, 1}
              /\ Points(b, d) \in {0, 1}
          BY <3>2 DEF Points
        <4> HIDE DEF A, B, C
        <4> QED BY <2>4, <4>1
      <3> QED BY <3>1, <3>2
    <2> QED BY <2>1, <2>5 DEF Trio
  <1>4. Counted(h, all)
    BY <1>2, <1>3 DEF Counted
  <1> QED BY <1>4 DEF all

\* Bytes are appended to the first of three: only that one moves, to a free block.
Appended(h, a, b, c, size, m) ==
  /\ Trio(m.heap, m.buf, b, c)
  /\ m.buf.data = a.data \/ (m.buf.data # b.data /\ m.buf.data # c.data)
  /\ a.data # Null \/ size > 0 => m.buf.data # Null
  /\ m.overlap \in BOOLEAN

\* A block that is free for one of three is not that of another.
LEMMA FreeIsOther ==
  ASSUME NEW b, NEW c, NEW d \in Blocks, Both(b, c)[d] = 0
  PROVE  b.data # d /\ c.data # d
  BY BothFacts

LEMMA CapacityAppended ==
  ASSUME NEW h, NEW a, NEW b, NEW c, Trio(h, a, b, c), NEW size \in Nat,
         NEW m, m = AppendCapacity(h, a, size)
  PROVE  /\ Appended(h, a, b, c, size, m)
         /\ Shared(ReplyByte, m.heap, m.buf, Both(b, c))
         /\ FreeSize(m.heap, m.buf) >= size
         /\ Size(m.buf) = Size(a)
  <1> DEFINE w == Both(b, c)
  <1>1. Shared(ReplyByte, h, a, w) /\ \E d \in Blocks : h[d].refs = 0
    BY TrioShared
  <1>2. RoomMade(ReplyByte, h, a, w, size, m)
    <2> HIDE DEF w
    <2> QED BY <1>1, AppendCapacityFacts
  <1>3. /\ Shared(ReplyByte, m.heap, m.buf, w) /\ Spared(h, m.heap, w)
        /\ FreeSize(m.heap, m.buf) >= size /\ Size(m.buf) = Size(a)
        /\ m.buf.data = a.data \/ (m.buf.data \in Blocks /\ w[m.buf.data] = 0)
        /\ a.data # Null \/ size > 0 => m.buf.data # Null
        /\ m.overlap \in BOOLEAN
    BY <1>2 DEF RoomMade, Spared
  <1>4. Trio(m.heap, m.buf, b, c)
    BY <1>3, TrioKept
  <1>5. m.buf.data = a.data \/ (m.buf.data # b.data /\ m.buf.data # c.data)
    BY <1>3, FreeIsOther
  <1> QED BY <1>3, <1>4, <1>5 DEF Appended

LEMMA CapacityRecord ==
  ASSUME NEW h, NEW b, NEW size, NEW m, m = AppendCapacity(h, b, size)
  PROVE  m = [heap |-> m.heap, buf |-> m.buf, overlap |-> m.overlap]
  BY DEF AppendCapacity, Kept, Allocated, Compacted, Reallocated

LEMMA BytesAppended ==
  ASSUME NEW h, NEW a, NEW b, NEW c, Trio(h, a, b, c), NEW data \in Seq(ReplyByte),
         NEW m, m = AppendBytes(h, a, data)
  PROVE  Appended(h, a, b, c, Len(data), m)
  <1> DEFINE k == AppendCapacity(h, a, Len(data))
             w == Both(b, c)
  <1>1. Len(data) \in Nat
    OBVIOUS
  <1>2. /\ Appended(h, a, b, c, Len(data), k) /\ Shared(ReplyByte, k.heap, k.buf, w)
        /\ FreeSize(k.heap, k.buf) >= Len(data)
    BY <1>1, CapacityAppended
  <1>3. k = [heap |-> k.heap, buf |-> k.buf, overlap |-> k.overlap]
    BY CapacityRecord
  <1>4. m = Filled(k, data)
    BY DEF AppendBytes
  <1> HIDE DEF k, w
  <1>5. Len(data) <= FreeSize(k.heap, k.buf)
    <2>1. FreeSize(k.heap, k.buf) \in Nat
      BY <1>2, SharedFacts
    <2> QED BY <1>1, <1>2, <2>1
  <1>6. m = Filled([heap |-> k.heap, buf |-> k.buf, overlap |-> k.overlap], data)
    BY <1>3, <1>4
  <1>7. /\ Shared(ReplyByte, m.heap, m.buf, w) /\ Spared(k.heap, m.heap, w)
        /\ m.buf.data = k.buf.data /\ m.overlap = k.overlap
    BY <1>2, <1>5, <1>6, FilledFacts
  <1>8. Trio(k.heap, k.buf, b, c)
    BY <1>2 DEF Appended
  <1>9. Trio(m.heap, m.buf, b, c)
    BY <1>7, <1>8, TrioKept DEF w
  <1> QED BY <1>2, <1>7, <1>9 DEF Appended

\* The first n bytes that src shows are appended to the first of three, which has a block
\* of its own.
LEMMA BufferAppended ==
  ASSUME NEW h, NEW a, NEW b, NEW c, Trio(h, a, b, c), a.data # Null,
         NEW src, Trio(h, src, a, c), src.data # a.data,
         NEW n \in Nat \ {0}, n <= Size(src),
         NEW m, m = AppendBuffer(h, a, src, n)
  PROVE  Appended(h, a, b, c, n, m)
  <1> DEFINE shown == Contents(h, src)
             data == SubSeq(shown, 1, n)
  <1>1. shown \in Seq(ReplyByte) /\ Len(shown) = Size(src)
    BY TrioShared, ContentsFacts
  <1>2. m = AppendBytes(h, a, data)
    BY DEF AppendBuffer
  <1> HIDE DEF shown
  <1>3. data \in Seq(ReplyByte) /\ Len(data) = n
    <2>1. 1 \in 1..(Len(shown) + 1) /\ n \in (1 - 1)..Len(shown)
      BY <1>1
    <2> QED BY <1>1, <2>1, SubSeqProperties
  <1> HIDE DEF data
  <1> QED BY <1>2, <1>3, BytesAppended

\* What the first of three shows then, and the other two if they look into another block.
Shows(h, a, b, c, data, m) ==
  /\ Contents(m.heap, m.buf) = Contents(h, a) \o data
  /\ \A y \in {b, c} : y.data = Null \/ y.data # a.data =>
       Contents(m.heap, y) = Contents(h, y)

\* A heap with the same bytes in every block the other two look into.
LEMMA OthersShow ==
  ASSUME NEW h, NEW a, NEW b, NEW c, Trio(h, a, b, c), NEW y \in {b, c},
         NEW m, y.data \in Blocks /\ Both(b, c)[y.data] > 0 => m[y.data].bytes = h[y.data].bytes
  PROVE  Contents(m, y) = Contents(h, y)
  <1>1. CASE y.data = Null
    BY <1>1, SameContents
  <1>2. CASE y.data # Null
    <2>1. y.data \in Blocks
      BY <1>2 DEF Trio, Pointer
    <2>2. Both(b, c)[y.data] > 0
      BY <2>1, BothFacts
    <2> QED BY <2>1, <2>2, SameContents
  <1> QED BY <1>1, <1>2

LEMMA CapacityShows ==
  ASSUME NEW h, NEW a, NEW b, NEW c, Trio(h, a, b, c), NEW size \in Nat,
         NEW m, m = AppendCapacity(h, a, size)
  PROVE  /\ Contents(m.heap, m.buf) = Contents(h, a)
         /\ Contents(m.heap, b) = Contents(h, b)
         /\ Contents(m.heap, c) = Contents(h, c)
  <1> DEFINE w == Both(b, c)
  <1>1. Shared(ReplyByte, h, a, w) /\ \E d \in Blocks : h[d].refs = 0
    BY TrioShared
  <1>2. RoomMade(ReplyByte, h, a, w, size, m)
    <2> HIDE DEF w
    <2> QED BY <1>1, AppendCapacityFacts
  <1>3. /\ Contents(m.heap, m.buf) = Contents(h, a)
        /\ \A d \in Blocks : w[d] > 0 => m.heap[d].bytes = h[d].bytes
    BY <1>2 DEF RoomMade
  <1>4. \A y \in {b, c} : Contents(m.heap, y) = Contents(h, y)
    BY <1>3, OthersShow
  <1> QED BY <1>3, <1>4

LEMMA BytesShow ==
  ASSUME NEW h, NEW a, NEW b, NEW c, Trio(h, a, b, c), NEW data \in Seq(ReplyByte),
         NEW m, m = AppendBytes(h, a, data)
  PROVE  Shows(h, a, b, c, data, m)
  <1> DEFINE k == AppendCapacity(h, a, Len(data))
             w == Both(b, c)
  <1>1. Len(data) \in Nat
    OBVIOUS
  <1>2. /\ Appended(h, a, b, c, Len(data), k) /\ Shared(ReplyByte, k.heap, k.buf, w)
        /\ FreeSize(k.heap, k.buf) >= Len(data)
    BY <1>1, CapacityAppended
  <1>3. k = [heap |-> k.heap, buf |-> k.buf, overlap |-> k.overlap]
    BY CapacityRecord
  <1>4. m = Filled(k, data)
    BY DEF AppendBytes
  <1>5. /\ Contents(k.heap, k.buf) = Contents(h, a)
        /\ Contents(k.heap, b) = Contents(h, b)
        /\ Contents(k.heap, c) = Contents(h, c)
    BY <1>1, CapacityShows
  <1> HIDE DEF k, w
  <1>6. Len(data) <= FreeSize(k.heap, k.buf)
    <2>1. FreeSize(k.heap, k.buf) \in Nat
      BY <1>2, SharedFacts
    <2> QED BY <1>1, <1>2, <2>1
  <1>7. m = Filled([heap |-> k.heap, buf |-> k.buf, overlap |-> k.overlap], data)
    BY <1>3, <1>4
  <1>8. /\ Contents(m.heap, m.buf) = Contents(k.heap, k.buf) \o data
        /\ \A d \in Blocks : d # k.buf.data => m.heap[d].bytes = k.heap[d].bytes
    BY <1>2, <1>6, <1>7, FilledContents
  <1>9. /\ Trio(k.heap, k.buf, b, c)
        /\ k.buf.data = a.data \/ (k.buf.data # b.data /\ k.buf.data # c.data)
    BY <1>2 DEF Appended
  <1>10. ASSUME NEW y \in {b, c}, y.data = Null \/ y.data # a.data
         PROVE  Contents(m.heap, y) = Contents(k.heap, y)
    <2>1. CASE y.data = Null
      BY <2>1, SameContents
    <2>2. CASE y.data # Null
      <3>1. y.data \in Blocks /\ y.data # k.buf.data
        BY <1>9, <1>10, <2>2 DEF Trio, Pointer
      <3> QED BY <1>8, <3>1, SameContents
    <2> QED BY <2>1, <2>2
  <1>11. \A y \in {b, c} : y.data = Null \/ y.data # a.data =>
           Contents(m.heap, y) = Contents(h, y)
    BY <1>5, <1>10
  <1>12. Contents(m.heap, m.buf) = Contents(h, a) \o data
    BY <1>5, <1>8
  <1> QED BY <1>11, <1>12 DEF Shows

LEMMA BufferShows ==
  ASSUME NEW h, NEW a, NEW b, NEW c, Trio(h, a, b, c), a.data # Null,
         NEW src, Trio(h, src, a, c), src.data # a.data,
         NEW n \in Nat \ {0}, n <= Size(src),
         NEW m, m = AppendBuffer(h, a, src, n)
  PROVE  Shows(h, a, b, c, SubSeq(Contents(h, src), 1, n), m)
  <1> DEFINE shown == Contents(h, src)
             data == SubSeq(shown, 1, n)
  <1>1. shown \in Seq(ReplyByte) /\ Len(shown) = Size(src)
    BY TrioShared, ContentsFacts
  <1>2. m = AppendBytes(h, a, data)
    BY DEF AppendBuffer
  <1> HIDE DEF shown
  <1>3. data \in Seq(ReplyByte)
    <2>1. \A i \in 1..n : shown[i] \in ReplyByte
      BY <1>1
    <2> QED BY <2>1, SubSeqProperties
  <1> HIDE DEF data
  <1>4. Shows(h, a, b, c, data, m)
    BY <1>2, <1>3, BytesShow
  <1> QED BY <1>4 DEF data, shown

--------------------------------------------------------------------------------
(* A parse, and the loop of OnServerRead around it. *)

ReplyFields == [type : {"none", "multibulk", "inline"}, mlen : Int, mindex : Nat, blen : Int]

ReplyParse == [heap : Memory(ReplyByte), input : Pointer, at : Nat, parser : ReplyFields, resp : Pointer,
          err : Errors, send : Pointer, handed : Nat, stop : Errors \union {"no"},
          overlap : BOOLEAN]

\* The send buffer shares its block with nobody.
Alone(s, a, b) == s.data = Null \/ (s.data # a.data /\ s.data # b.data)

\* What waits for the client, the reply that is being put together, and what is unread.
OnTheWay(r) == Contents(r.heap, r.send) \o (Contents(r.heap, r.resp) \o Unread(r))

\* No memory is lost or overrun, and the bytes on their way are still z.
Good(z, r) ==
  /\ r \in ReplyParse
  /\ Trio(r.heap, r.resp, r.input, r.send) /\ r.input.data # Null
  /\ Alone(r.send, r.resp, r.input)
  /\ r.at <= Size(r.input)
  /\ OnTheWay(r) = z

\* respBuffer_ has a block of its own, and has one when an element's length is read.
Apart(r) ==
  /\ r.resp.data # r.input.data
  /\ r.parser.blen # 0 => r.resp.data # Null

LEMMA ReplyParseFields ==
  ASSUME NEW r \in ReplyParse
  PROVE  /\ r.heap \in Memory(ReplyByte) /\ r.input \in Pointer /\ r.at \in Nat
         /\ r.parser \in ReplyFields
         /\ r.parser.type \in {"none", "multibulk", "inline"} /\ r.parser.mlen \in Int
         /\ r.parser.mindex \in Nat /\ r.parser.blen \in Int
         /\ r.resp \in Pointer /\ r.err \in Errors /\ r.send \in Pointer
         /\ r.handed \in Nat /\ r.stop \in Errors \union {"no"} /\ r.overlap \in BOOLEAN
  BY DEF ReplyParse, ReplyFields

\* The input as the Buffer at hand.
LEMMA InputShared ==
  ASSUME NEW z, NEW r, Good(z, r)
  PROVE  Shared(ReplyByte, r.heap, r.input, Both(r.resp, r.send))
  <1>1. Trio(r.heap, r.input, r.resp, r.send)
    BY Turned DEF Good
  <1> QED BY <1>1, TrioShared

LEMMA ReplyUnreadFacts ==
  ASSUME NEW z, NEW r, Good(z, r)
  PROVE  /\ Unread(r) \in Seq(ReplyByte) /\ Len(Unread(r)) = Size(r.input) - r.at
         /\ Len(Unread(r)) \in Nat /\ Size(r.input) \in Nat /\ r.at \in Nat
         /\ r.at + Len(Unread(r)) = Size(r.input)
  <1>1. Shared(ReplyByte, r.heap, r.input, Both(r.resp, r.send))
    BY InputShared
  <1>2. r.at \in Nat /\ r.at <= Size(r.input)
    BY ReplyParseFields DEF Good
  <1> QED BY <1>1, <1>2, UnreadIn

\* A step that touches only the parser's fields, err and stop.
LEMMA SameReplyBytes ==
  ASSUME NEW z, NEW r, Good(z, r), NEW q \in ReplyParse, q.heap = r.heap, q.input = r.input,
         q.resp = r.resp, q.send = r.send, q.at = r.at
  PROVE  Good(z, q)
  <1>1. OnTheWay(q) = OnTheWay(r)
    BY DEF OnTheWay, Unread
  <1> QED BY <1>1 DEF Good

LEMMA ErrGood ==
  ASSUME NEW z, NEW r, Good(z, r), NEW e \in Errors, NEW q, q = [r EXCEPT !.err = e]
  PROVE  /\ Good(z, q) /\ (Apart(r) => Apart(q))
         /\ q.err = e /\ q.parser = r.parser /\ q.resp = r.resp /\ q.input = r.input
         /\ q.at = r.at
  <1>1. r \in ReplyParse
    BY DEF Good
  <1>2. /\ q \in ReplyParse /\ q.heap = r.heap /\ q.input = r.input /\ q.resp = r.resp
        /\ q.send = r.send /\ q.at = r.at /\ q.err = e /\ q.parser = r.parser
    BY <1>1 DEF ReplyParse
  <1>3. Good(z, q)
    BY <1>2, SameReplyBytes
  <1> QED BY <1>2, <1>3 DEF Apart

LEMMA ParserGood ==
  ASSUME NEW z, NEW r, Good(z, r), NEW p \in ReplyFields, NEW q, q = [r EXCEPT !.parser = p]
  PROVE  /\ Good(z, q) /\ q.parser = p /\ q.err = r.err /\ q.resp = r.resp
         /\ q.input = r.input
  <1>1. r \in ReplyParse
    BY DEF Good
  <1>2. /\ q \in ReplyParse /\ q.heap = r.heap /\ q.input = r.input /\ q.resp = r.resp
        /\ q.send = r.send /\ q.at = r.at /\ q.err = r.err /\ q.parser = p
    BY <1>1 DEF ReplyParse
  <1>3. Good(z, q)
    BY <1>2, SameReplyBytes
  <1> QED BY <1>2, <1>3

\* What m is when the next n bytes were put behind those of respBuffer_.
Puts(r, n, m) ==
  /\ Trio(m.heap, m.buf, r.input, r.send)
  /\ Alone(r.send, m.buf, r.input)
  /\ Contents(m.heap, m.buf) = Contents(r.heap, r.resp) \o SubSeq(Unread(r), 1, n)
  /\ Contents(m.heap, r.input) = Contents(r.heap, r.input)
  /\ Contents(m.heap, r.send) = Contents(r.heap, r.send)

LEMMA AppendedPuts ==
  ASSUME NEW z, NEW r, Good(z, r), r.resp.data # r.input.data, NEW n, NEW size, NEW m,
         Appended(r.heap, r.resp, r.input, r.send, size, m),
         Shows(r.heap, r.resp, r.input, r.send, SubSeq(Unread(r), 1, n), m)
  PROVE  Puts(r, n, m) /\ m.buf.data # r.input.data
  <1>1. Alone(r.send, r.resp, r.input) /\ r.input.data # Null
    BY DEF Good
  <1>2. /\ Trio(m.heap, m.buf, r.input, r.send)
        /\ m.buf.data = r.resp.data \/ (m.buf.data # r.input.data /\ m.buf.data # r.send.data)
    BY DEF Appended
  <1>3. Alone(r.send, m.buf, r.input) /\ m.buf.data # r.input.data
    BY <1>1, <1>2 DEF Alone
  <1>4. /\ Contents(m.heap, m.buf) = Contents(r.heap, r.resp) \o SubSeq(Unread(r), 1, n)
        /\ Contents(m.heap, r.input) = Contents(r.heap, r.input)
        /\ Contents(m.heap, r.send) = Contents(r.heap, r.send)
    BY <1>1 DEF Shows, Alone
  <1> QED BY <1>2, <1>3, <1>4 DEF Puts

LEMMA ReceivedGood ==
  ASSUME NEW z, NEW r, Good(z, r), NEW n \in 0..Len(Unread(r)), NEW m, Puts(r, n, m),
         NEW q, q = Received(r, m, n)
  PROVE  /\ Good(z, q) /\ q.parser = r.parser /\ q.err = r.err /\ q.resp = m.buf
         /\ q.input = r.input
  <1>1. /\ r \in ReplyParse /\ r.at \in Nat /\ r.input.data # Null /\ OnTheWay(r) = z
    BY ReplyParseFields DEF Good
  <1>2. Len(Unread(r)) \in Nat /\ r.at + Len(Unread(r)) = Size(r.input)
        /\ Len(Unread(r)) = Size(r.input) - r.at /\ Size(r.input) \in Nat
    BY ReplyUnreadFacts
  <1>3. r.at + n \in Nat /\ r.at + n <= Size(r.input)
    BY <1>1, <1>2
  <1>4. m.heap \in Memory(ReplyByte) /\ m.buf \in Pointer
    BY DEF Puts, Trio
  <1>5. q = [r EXCEPT !.heap = m.heap, !.resp = m.buf, !.at = r.at + n]
    BY <1>1 DEF Received, ReplyParse
  <1>6. /\ q \in ReplyParse /\ q.heap = m.heap /\ q.resp = m.buf /\ q.at = r.at + n
        /\ q.input = r.input /\ q.send = r.send /\ q.err = r.err /\ q.parser = r.parser
    BY <1>1, <1>3, <1>4, <1>5 DEF ReplyParse
  <1> DEFINE c == Contents(r.heap, r.input)
             x == Contents(r.heap, r.resp)
             y == SubSeq(Unread(r), 1, n)
             v == SubSeq(c, r.at + n + 1, Len(c))
  <1>7. OnTheWay(q) = z
    <2>1. c \in Seq(ReplyByte) /\ Len(c) = Size(r.input)
      BY InputShared, ContentsFacts
    <2>2. x \in Seq(ReplyByte)
      BY TrioShared, ContentsFacts DEF Good
    <2>3. Unread(r) = SubSeq(c, r.at + 1, Len(c))
      BY DEF Unread
    <2>4. Unread(q) = v
      BY <1>6 DEF Unread, Puts
    <2>5. r.at \in 0..Len(c) /\ n \in 0..(Len(c) - r.at)
      BY <1>1, <1>2, <2>1
    <2>6. y \in Seq(ReplyByte) /\ v \in Seq(ReplyByte) /\ Unread(r) = y \o v
      <3> HIDE DEF c
      <3>1. /\ SubSeq(SubSeq(c, r.at + 1, Len(c)), 1, n) = SubSeq(c, r.at + 1, r.at + n)
            /\ SubSeq(c, r.at + 1, Len(c)) = SubSeq(c, r.at + 1, r.at + n) \o v
            /\ SubSeq(c, r.at + 1, r.at + n) \in Seq(ReplyByte) /\ v \in Seq(ReplyByte)
        <4>1. Len(c) \in 0..Len(c)
          BY <2>1
        <4> QED BY <2>1, <2>5, <4>1, CutBehind
      <3> HIDE DEF v
      <3> QED BY <2>3, <3>1
    <2>7. Contents(q.heap, q.resp) = x \o y /\ Contents(q.heap, q.send) = Contents(r.heap, r.send)
      BY <1>6 DEF Puts
    <2> HIDE DEF x, y, v
    <2>8. (x \o y) \o v = x \o (y \o v)
      <3>1. ReplyAssociates(x, y, v)
        BY <2>2, <2>6, ReplyAssociative
      <3> QED BY <3>1 DEF ReplyAssociates
    <2> QED BY <1>1, <2>4, <2>6, <2>7, <2>8 DEF OnTheWay, x
  <1>8. Good(z, q)
    BY <1>1, <1>3, <1>6, <1>7 DEF Good, Puts
  <1> QED BY <1>6, <1>8

\* readInt32 with pbuf.
LEMMA CopiedGood ==
  ASSUME NEW z, NEW r, Good(z, r), Apart(r), r.err = "OK", NEW line, line = LengthLine(Unread(r)),
         NEW q, q = Copied(r, line)
  PROVE  /\ Good(z, q) /\ q.parser = r.parser /\ q.err = line.err /\ q.input = r.input
         /\ q.resp.data # q.input.data
         /\ r.resp.data # Null \/ line.err = "OK" => q.resp.data # Null
         /\ line.value \in Int
         /\ line.err # "OK" => line.value = 0
  <1> DEFINE data == Unread(r)
             taking == SubSeq(data, 1, line.bytes)
             m == AppendBytes(r.heap, r.resp, taking)
  <1>1. data \in Seq(ReplyByte) /\ Len(data) \in Nat
    BY ReplyUnreadFacts
  <1>2. /\ line.err \in Errors /\ line.bytes \in 0..Len(data) /\ line.value \in Int
        /\ line.err = "OK" => line.bytes > 0
        /\ line.err # "OK" => line.value = 0
    <2> HIDE DEF data
    <2>1. 0 \in Int /\ data \in Seq(Kinds \X Int) /\ line = LengthLine(data)
      BY <1>1 DEF ReplyByte, data
    <2> QED BY <2>1, LengthLineFacts
  <1>3. CASE line.err # "OK"
    <2>1. q = [r EXCEPT !.err = line.err]
      BY <1>3 DEF Copied
    <2>2. /\ Good(z, q) /\ q.err = line.err /\ q.parser = r.parser /\ q.resp = r.resp
          /\ q.input = r.input
      BY <1>2, <2>1, ErrGood
    <2> QED BY <1>2, <1>3, <2>2 DEF Apart
  <1>4. CASE line.err = "OK"
    <2>1. q = Received(r, m, line.bytes)
      BY <1>4 DEF Copied
    <2>2. taking \in Seq(ReplyByte) /\ Len(taking) = line.bytes
      <3> HIDE DEF data
      <3>1. 1 \in 1..(Len(data) + 1) /\ line.bytes \in (1 - 1)..Len(data)
        BY <1>1, <1>2
      <3> QED BY <1>1, <3>1, SubSeqProperties
    <2> HIDE DEF taking
    <2>3. /\ Appended(r.heap, r.resp, r.input, r.send, Len(taking), m)
          /\ Shows(r.heap, r.resp, r.input, r.send, taking, m)
      BY <2>2, BytesAppended, BytesShow DEF Good
    <2> HIDE DEF m
    <2>4. Puts(r, line.bytes, m) /\ m.buf.data # r.input.data /\ m.buf.data # Null
      <3>1. m.buf.data # Null
        BY <1>2, <1>4, <2>2, <2>3 DEF Appended
      <3>2. r.resp.data # r.input.data
        BY DEF Apart
      <3> QED BY <2>3, <3>1, <3>2, AppendedPuts DEF taking
    <2>5. /\ Good(z, q) /\ q.parser = r.parser /\ q.err = r.err /\ q.resp = m.buf
          /\ q.input = r.input
      BY <1>2, <2>1, <2>4, ReceivedGood
    <2> QED BY <1>2, <1>4, <2>4, <2>5
  <1> QED BY <1>3, <1>4

LEMMA ReplyLengthGood ==
  ASSUME NEW z, NEW r, Good(z, r), Apart(r), r.err = "OK", NEW q, q = ReplyLength(r)
  PROVE  Good(z, q) /\ Apart(q)
  <1> DEFINE line == LengthLine(Unread(r))
             c == Copied(r, line)
             e == ElementCount(r, line)
             o == [r EXCEPT !.parser.mlen = 1]
  <1>1. q = r \/ q = o \/ q = e
    BY DEF ReplyLength
  <1>2. r \in ReplyParse /\ r.parser \in ReplyFields
    BY ReplyParseFields DEF Good
  <1>3. \A p \in ReplyFields, n \in Int : /\ [p EXCEPT !.mlen = n] \in ReplyFields
                                     /\ [p EXCEPT !.mlen = n].blen = p.blen
    BY DEF ReplyFields
  <1>4. Good(z, o) /\ Apart(o)
    <2> DEFINE p == [r.parser EXCEPT !.mlen = 1]
    <2>1. o = [r EXCEPT !.parser = p]
      BY <1>2 DEF ReplyParse
    <2>2. p \in ReplyFields /\ p.blen = r.parser.blen
      BY <1>2, <1>3
    <2> HIDE DEF p, o
    <2>3. Good(z, o) /\ o.parser = p /\ o.resp = r.resp /\ o.input = r.input
      BY <2>1, <2>2, ParserGood
    <2> QED BY <2>2, <2>3 DEF Apart
  <1>5. Good(z, e) /\ Apart(e)
    <2> HIDE DEF line, c
    <2>1. /\ Good(z, c) /\ c.parser = r.parser /\ c.resp.data # c.input.data
          /\ r.resp.data # Null => c.resp.data # Null
          /\ line.value \in Int
      BY CopiedGood DEF line, c
    <2> DEFINE p == [c.parser EXCEPT !.mlen = line.value]
    <2>2. e = [c EXCEPT !.parser = p]
      BY <2>1 DEF ElementCount, c, Good, ReplyParse
    <2>3. p \in ReplyFields /\ p.blen = r.parser.blen
      BY <1>2, <1>3, <2>1
    <2> HIDE DEF p, e
    <2>4. Good(z, e) /\ e.parser = p /\ e.resp = c.resp /\ e.input = c.input
      BY <2>1, <2>2, <2>3, ParserGood
    <2> QED BY <2>1, <2>3, <2>4 DEF Apart
  <1> HIDE DEF o, e
  <1> QED BY <1>1, <1>4, <1>5

LEMMA ElementLengthGood ==
  ASSUME NEW z, NEW r, Good(z, r), Apart(r), r.err = "OK", NEW q, q = ElementLength(r)
  PROVE  Good(z, q) /\ Apart(q)
  <1> DEFINE line == LengthLine(Unread(r))
             c == Copied(r, line)
             e == WithElementLength(r, line)
  <1>1. q = r \/ q = e
    BY DEF ElementLength
  <1>2. r \in ReplyParse /\ r.parser \in ReplyFields
    BY ReplyParseFields DEF Good
  <1>3. \A p \in ReplyFields, n \in Int : /\ [p EXCEPT !.blen = n] \in ReplyFields
                                     /\ [p EXCEPT !.blen = n].blen = n
    BY DEF ReplyFields
  <1>4. Good(z, e) /\ Apart(e)
    <2> HIDE DEF line, c
    <2>1. /\ Good(z, c) /\ c.parser = r.parser /\ c.resp.data # c.input.data
          /\ line.err = "OK" => c.resp.data # Null
          /\ line.value \in Int
          /\ line.err # "OK" => line.value = 0
      BY CopiedGood DEF line, c
    <2> DEFINE p == [c.parser EXCEPT !.blen = line.value]
    <2>2. e = [c EXCEPT !.parser = p]
      BY <2>1 DEF WithElementLength, c, Good, ReplyParse
    <2>3. p \in ReplyFields /\ p.blen = line.value
      BY <1>2, <1>3, <2>1
    <2> HIDE DEF p, e
    <2>4. Good(z, e) /\ e.parser = p /\ e.resp = c.resp /\ e.input = c.input
      BY <2>1, <2>2, <2>3, ParserGood
    <2> QED BY <2>1, <2>3, <2>4 DEF Apart
  <1> HIDE DEF e
  <1> QED BY <1>1, <1>4

\* The input behind what was read, as the first of three.
LEMMA RestFacts ==
  ASSUME NEW z, NEW r, Good(z, r), NEW src, src = Offset(r.input, r.at, 0)
  PROVE  /\ Trio(r.heap, src, r.resp, r.send) /\ src.data = r.input.data
         /\ Size(src) = Len(Unread(r)) /\ Contents(r.heap, src) = Unread(r)
  <1> DEFINE w == Both(r.resp, r.send)
  <1>1. Shared(ReplyByte, r.heap, r.input, w)
    BY InputShared
  <1>2. r.at \in Nat /\ r.at <= Size(r.input) /\ Size(r.input) \in Nat
        /\ Len(Unread(r)) = Size(r.input) - r.at
    BY ReplyUnreadFacts DEF Good
  <1>3. Trio(r.heap, r.input, r.resp, r.send)
    BY Turned DEF Good
  <1> HIDE DEF w
  <1>4. Narrowed(ReplyByte, r.heap, r.input, w, r.at, 0, src)
    <2>1. Shared(ReplyByte, r.heap, r.input, w) /\ r.at \in Nat /\ 0 \in Nat
      BY <1>1, <1>2
    <2> QED BY <2>1, OffsetFacts
  <1>5. /\ Shared(ReplyByte, r.heap, src, w) /\ src.data = r.input.data
        /\ Size(src) = Len(Unread(r))
    BY <1>2, <1>4 DEF Narrowed
  <1>6. Spared(r.heap, r.heap, w)
    BY DEF Spared
  <1>7. Trio(r.heap, src, r.resp, r.send)
    BY <1>3, <1>5, <1>6, TrioKept DEF w
  <1>8. Contents(r.heap, src) = Unread(r)
    <2>1. Contents(r.heap, src) = SubSeq(Contents(r.heap, r.input), r.at + 1, Size(r.input))
      <3>1. Shared(ReplyByte, r.heap, r.input, w) /\ r.at \in 0..Size(r.input)
        BY <1>1, <1>2
      <3> QED BY <3>1, OffsetContents
    <2>2. Len(Contents(r.heap, r.input)) = Size(r.input)
      BY <1>1, ContentsFacts
    <2> QED BY <2>1, <2>2 DEF Unread
  <1> QED BY <1>5, <1>7, <1>8

\* The next n bytes go to respBuffer_, which has a block of its own.
LEMMA BytesReceived ==
  ASSUME NEW z, NEW r, Good(z, r), Apart(r), r.resp.data # Null, NEW n \in 1..Len(Unread(r)),
         NEW c, c = Received(r, AppendBuffer(r.heap, r.resp, Offset(r.input, r.at, 0), n), n)
  PROVE  Good(z, c) /\ c.resp.data # c.input.data
  <1> DEFINE src == Offset(r.input, r.at, 0)
             m == AppendBuffer(r.heap, r.resp, src, n)
  <1>1. Len(Unread(r)) \in Nat
    BY ReplyUnreadFacts
  <1>2. n \in Nat \ {0} /\ n \in 0..Len(Unread(r)) /\ n <= Len(Unread(r))
    BY <1>1
  <1>3. r.resp.data # r.input.data /\ c = Received(r, m, n)
    BY DEF Apart
  <1>4. /\ Trio(r.heap, src, r.resp, r.send) /\ src.data = r.input.data
        /\ Size(src) = Len(Unread(r)) /\ Contents(r.heap, src) = Unread(r)
    BY RestFacts
  <1> HIDE DEF src
  <1>5. Trio(r.heap, r.resp, r.input, r.send)
    BY DEF Good
  <1>6. n <= Size(src) /\ src.data # r.resp.data
    BY <1>2, <1>3, <1>4
  <1>7. /\ Appended(r.heap, r.resp, r.input, r.send, n, m)
        /\ Shows(r.heap, r.resp, r.input, r.send, SubSeq(Contents(r.heap, src), 1, n), m)
    BY <1>2, <1>3, <1>4, <1>5, <1>6, BufferAppended, BufferShows
  <1> HIDE DEF m
  <1>8. Puts(r, n, m) /\ m.buf.data # r.input.data
    BY <1>3, <1>4, <1>7, AppendedPuts
  <1>9. Good(z, c) /\ c.resp = m.buf /\ c.input = r.input
    BY <1>2, <1>3, <1>8, ReceivedGood
  <1> QED BY <1>8, <1>9

LEMMA NextIndexGood ==
  ASSUME NEW z, NEW r, Good(z, r), r.resp.data # r.input.data, NEW q, q = NextIndex(r)
  PROVE  Good(z, q) /\ Apart(q)
  <1> DEFINE p == [r.parser EXCEPT !.blen = 0, !.mindex = r.parser.mindex + 1]
  <1>1. r \in ReplyParse /\ r.parser \in ReplyFields /\ r.parser.mindex + 1 \in Nat
    BY ReplyParseFields DEF Good
  <1>2. q = [r EXCEPT !.parser = p]
    BY <1>1 DEF NextIndex, ReplyParse, ReplyFields
  <1>3. p \in ReplyFields /\ p.blen = 0
    <2> DEFINE x == r.parser
               i == r.parser.mindex + 1
               y == [x EXCEPT !.blen = 0]
    <2>1. x \in ReplyFields /\ i \in Nat
      BY <1>1
    <2>2. p = [y EXCEPT !.mindex = i]
      BY <2>1 DEF ReplyFields
    <2> HIDE DEF x, i
    <2>3. y \in ReplyFields /\ y.blen = 0
      BY <2>1 DEF ReplyFields
    <2> HIDE DEF y, p
    <2> QED BY <2>1, <2>2, <2>3 DEF ReplyFields
  <1> HIDE DEF p
  <1>4. Good(z, q) /\ q.parser = p /\ q.resp = r.resp /\ q.input = r.input
    BY <1>2, <1>3, ParserGood
  <1> QED BY <1>3, <1>4 DEF Apart

LEMMA ElementGood ==
  ASSUME NEW z, NEW r, Good(z, r), Apart(r), NEW q, q = Element(r)
  PROVE  Good(z, q) /\ Apart(q)
  <1> DEFINE n == r.parser.blen + 2
             src == Offset(r.input, r.at, 0)
             m == AppendBuffer(r.heap, r.resp, src, n)
             c == Received(r, m, n)
  <1>1. r.parser.blen \in Int /\ "TryAgain" \in Errors
    BY ReplyParseFields DEF Good, Errors
  <1>2. CASE r.err # "OK"
    BY <1>2 DEF Element
  <1>3. CASE r.err = "OK" /\ r.parser.blen <= 0
    <2>1. q = NextIndex(r)
      BY <1>3 DEF Element
    <2> QED BY <2>1, NextIndexGood DEF Apart
  <1>4. CASE /\ r.err = "OK" /\ ~(r.parser.blen <= 0)
             /\ Len(Unread(r)) < n
    <2>1. q = [r EXCEPT !.err = "TryAgain"]
      BY <1>4 DEF Element, ElementBytes
    <2> QED BY <1>1, <2>1, ErrGood
  <1>5. CASE /\ r.err = "OK" /\ ~(r.parser.blen <= 0)
             /\ ~(Len(Unread(r)) < n)
    <2>1. q = NextIndex(c)
      BY <1>5 DEF Element, ElementBytes
    <2>2. Len(Unread(r)) \in Nat
      BY ReplyUnreadFacts
    <2>3. n \in 1..Len(Unread(r)) /\ r.resp.data # Null
      BY <1>1, <1>5, <2>2 DEF Apart
    <2> HIDE DEF n, m
    <2>4. Good(z, c) /\ c.resp.data # c.input.data
      BY <2>3, BytesReceived DEF m
    <2> HIDE DEF c
    <2> QED BY <2>1, <2>4, NextIndexGood
  <1> QED BY <1>2, <1>3, <1>4, <1>5

LEMMA NextElementGood ==
  ASSUME NEW z, NEW r, Good(z, r), Apart(r)
  PROVE  Good(z, NextElement(r)) /\ Apart(NextElement(r))
  <1>1. CASE r.err # "OK"
    BY <1>1 DEF NextElement
  <1>2. CASE r.err = "OK"
    <2>1. NextElement(r) = Element(ElementLength(r))
      BY <1>2 DEF NextElement
    <2>2. Good(z, ElementLength(r)) /\ Apart(ElementLength(r))
      BY <1>2, ElementLengthGood
    <2>3. /\ Good(z, Element(ElementLength(r)))
          /\ Apart(Element(ElementLength(r)))
      BY <2>2, ElementGood
    <2> QED BY <2>1, <2>3
  <1> QED BY <1>1, <1>2

\* The loop over the elements, turn by turn.
Turns(f, r, n) == f[0] = r /\ \A k \in 1..n : f[k] = NextElement(f[k - 1])

LEMMA ElementTurns ==
  ASSUME NEW z, NEW r, Good(z, r), Apart(r)
  PROVE  \E f : Turns(f, r, Left(r)) /\ Elements(r) = f[Left(r)]
  <1> DEFINE n == Left(r)
             V == {q \in ReplyParse : Good(z, q) /\ Apart(q)}
             Right(f) == f = [k \in 0..n |-> IF k = 0 THEN r ELSE NextElement(f[k - 1])]
             turn == CHOOSE f : Right(f)
             G == [x \in (1..n) \X V |-> NextElement(x[2])]
  <1>1. Elements(r) = turn[n]
    BY DEF Elements
  <1>2. n \in Nat /\ r \in V
    <2>1. r \in ReplyParse
      BY DEF Good
    <2>2. n \in Nat
      BY <2>1, ReplyParseFields DEF Left
    <2>3. r \in V
      BY <2>1
    <2> QED BY <2>2, <2>3
  <1>3. ASSUME NEW q \in V PROVE NextElement(q) \in V
    <2>1. Good(z, q) /\ Apart(q)
      OBVIOUS
    <2>2. Good(z, NextElement(q)) /\ Apart(NextElement(q))
      BY <2>1, NextElementGood
    <2> QED BY <2>2 DEF Good
  <1> HIDE DEF V, n
  <1>4. G \in [(1..n) \X V -> V] /\ \A k \in 1..n, q \in V : G[<<k, q>>] = NextElement(q)
    BY <1>3
  <1> HIDE DEF G
  <1>5. PICK f \in [0..n -> V] : StepsBy(f, r, n, G)
    BY <1>2, <1>4, Stepped
  <1>6. Right(f)
    <2>1. \A k \in 1..n : k - 1 \in 0..n
      BY <1>2
    <2>2. \A k \in 1..n : f[k] = NextElement(f[k - 1])
      BY <1>4, <1>5, <2>1 DEF StepsBy
    <2>3. \A k \in 0..n : f[k] = IF k = 0 THEN r ELSE NextElement(f[k - 1])
      BY <1>2, <1>5, <2>2 DEF StepsBy
    <2> QED BY <1>5, <2>3
  <1>7. Right(turn)
    BY <1>6
  <1> HIDE DEF turn
  <1>8. turn[0] = r /\ \A k \in 1..n : turn[k] = NextElement(turn[k - 1])
    BY <1>2, <1>7
  <1>9. Turns(turn, r, n)
    BY <1>8 DEF Turns
  <1> QED BY <1>1, <1>9 DEF n

LEMMA ElementsGood ==
  ASSUME NEW z, NEW r, Good(z, r), Apart(r)
  PROVE  Good(z, Elements(r)) /\ Apart(Elements(r))
  <1> DEFINE n == Left(r)
             V == {q \in ReplyParse : Good(z, q) /\ Apart(q)}
  <1>1. n \in Nat
    BY ReplyParseFields DEF Left, Good
  <1>2. PICK f : Turns(f, r, n) /\ Elements(r) = f[n]
    BY ElementTurns
  <1> HIDE DEF n
  <1>3. f[0] \in V
    BY <1>2 DEF Turns, Good
  <1>4. ASSUME NEW k \in 1..n, f[k - 1] \in V PROVE f[k] \in V
    <2> DEFINE q == f[k - 1]
    <2>1. Good(z, q) /\ Apart(q)
      BY <1>4
    <2>2. f[k] = NextElement(q)
      BY <1>2 DEF Turns
    <2> HIDE DEF q
    <2>3. Good(z, f[k]) /\ Apart(f[k])
      BY <2>1, <2>2, NextElementGood
    <2> QED BY <2>3 DEF Good
  <1> HIDE DEF V
  <1>5. \A k \in 0..n : f[k] \in V
    BY <1>1, <1>3, <1>4, Invariance
  <1>6. f[n] \in V
    BY <1>1, <1>5
  <1> QED BY <1>2, <1>6 DEF V

LEMMA MultibulkReplyGood ==
  ASSUME NEW z, NEW r, Good(z, r), Apart(r), r.err = "OK"
  PROVE  Good(z, MultibulkReply(r)) /\ Apart(MultibulkReply(r))
  <1>1. Good(z, ReplyLength(r)) /\ Apart(ReplyLength(r))
    BY ReplyLengthGood
  <1>2. Good(z, Elements(ReplyLength(r))) /\ Apart(Elements(ReplyLength(r)))
    BY <1>1, ElementsGood
  <1> QED BY <1>2 DEF MultibulkReply

\* respBuffer_ without a block shares that of the input.
LEMMA LineShared ==
  ASSUME NEW z, NEW r, Good(z, r), r.resp.data = Null, NEW src, src = Offset(r.input, r.at, 0),
         NEW n \in Nat \ {0}, n <= Len(Unread(r)),
         NEW m, m = AppendBuffer(r.heap, r.resp, src, n)
  PROVE  Puts(r, n, m)
  <1> DEFINE w == Both(r.resp, r.send)
             e == src.data
             v == [w EXCEPT ![e] = @ + 1]
  <1>1. /\ Trio(r.heap, src, r.resp, r.send) /\ src.data = r.input.data
        /\ Size(src) = Len(Unread(r)) /\ Contents(r.heap, src) = Unread(r)
    BY RestFacts
  <1>2. Shared(ReplyByte, r.heap, src, w)
    BY <1>1, TrioShared
  <1>3. m = AppendBuffer(r.heap, EmptyBuffer, src, n)
    BY DEF AppendBuffer, EmptyBuffer
  <1>4. /\ r.input \in Pointer /\ r.input.data # Null /\ e = r.input.data /\ e \in Blocks
        /\ r.send \in Pointer /\ InBounds(r.heap, r.input) /\ InBounds(r.heap, r.send)
    BY <1>1 DEF Good, Trio, Pointer
  <1> HIDE DEF w
  <1>5. SharesIn(ReplyByte, r.heap, src, w, n, AppendBuffer(r.heap, EmptyBuffer, src, n))
    <2>1. /\ Shared(ReplyByte, r.heap, src, w) /\ src.data # Null /\ n \in Nat
          /\ n <= Size(src)
      BY <1>1, <1>2, <1>4
    <2> HIDE DEF e
    <2> QED BY <2>1, SharesFacts
  <1>6. /\ Shared(ReplyByte, m.heap, src, v)
        /\ m.buf \in Pointer /\ m.buf.data = e /\ InBounds(m.heap, m.buf)
        /\ \A d \in Blocks : m.heap[d].bytes = r.heap[d].bytes
        /\ Contents(m.heap, m.buf) = SubSeq(Contents(r.heap, src), 1, n)
    BY <1>3, <1>5 DEF SharesIn
  <1>7. InBounds(m.heap, r.input) /\ InBounds(m.heap, r.send)
    BY <1>4, <1>6 DEF InBounds, Capacity, Pointer
  <1>8. \A d \in Blocks : /\ w[d] = Points(r.send, d) /\ Points(r.send, d) \in {0, 1}
                          /\ Points(src, d) = Points(m.buf, d)
                          /\ Points(r.input, d) = Points(m.buf, d)
                          /\ Points(m.buf, d) = IF d = e THEN 1 ELSE 0
    <2>1. \A d \in Blocks : Points(r.resp, d) = 0
      BY BlocksAssumption DEF Points
    <2>2. \A d \in Blocks : w[d] = 0 + Points(r.send, d) /\ Points(r.send, d) \in {0, 1}
      BY <2>1, BothFacts DEF w, Points
    <2>3. \A d \in Blocks : w[d] = Points(r.send, d)
      BY <2>2
    <2> QED BY <1>1, <1>4, <1>6, <2>2, <2>3 DEF Points
  <1>9. /\ m.heap \in Memory(ReplyByte) /\ w \in [Blocks -> Nat]
        /\ \A d \in Blocks : m.heap[d].refs = v[d] + Points(src, d)
    BY <1>2, <1>6 DEF Shared
  <1>10. \A d \in Blocks : v[d] = IF d = e THEN w[d] + 1 ELSE w[d]
    BY <1>9
  <1> HIDE DEF v, e
  <1>11. \A d \in Blocks :
           m.heap[d].refs = Points(m.buf, d) + Points(r.input, d) + Points(r.send, d)
    BY <1>8, <1>9, <1>10
  <1>12. Trio(m.heap, m.buf, r.input, r.send)
    BY <1>4, <1>6, <1>7, <1>9, <1>11 DEF Trio
  <1>13. Alone(r.send, m.buf, r.input)
    BY <1>4, <1>6 DEF Good, Alone
  <1>14. Contents(m.heap, m.buf) = Contents(r.heap, r.resp) \o SubSeq(Unread(r), 1, n)
    <2>1. Contents(r.heap, r.resp) = <<>>
      BY DEF Contents
    <2> DEFINE taking == SubSeq(Unread(r), 1, n)
    <2>2. taking \in Seq(ReplyByte)
      <3>1. Unread(r) \in Seq(ReplyByte) /\ Len(Unread(r)) \in Nat
        BY ReplyUnreadFacts
      <3>2. \A i \in 1..n : Unread(r)[i] \in ReplyByte
        BY <3>1
      <3> QED BY <3>2, SubSeqProperties
    <2> HIDE DEF taking
    <2>3. <<>> \o taking = taking
      BY <2>2, ConcatEmptySeq
    <2> QED BY <1>1, <1>6, <2>1, <2>3 DEF taking
  <1>15. /\ Contents(m.heap, r.input) = Contents(r.heap, r.input)
         /\ Contents(m.heap, r.send) = Contents(r.heap, r.send)
    <2>1. \A y \in Pointer : y.data # Null => y.data \in Blocks
      BY DEF Pointer
    <2>2. \A y \in {r.input, r.send} : y.data # Null =>
            m.heap[y.data].bytes = r.heap[y.data].bytes
      BY <1>4, <1>6, <2>1
    <2> QED BY <2>2, SameContents
  <1> QED BY <1>12, <1>13, <1>14, <1>15 DEF Puts

LEMMA InlineReplyGood ==
  ASSUME NEW z, NEW r, Good(z, r), Apart(r), r.err = "OK", NEW q, q = InlineReply(r)
  PROVE  Good(z, q) /\ (q.err = "OK" \/ Apart(q))
  <1> DEFINE data == Unread(r)
             n == Find(data, Lf)
             src == Offset(r.input, r.at, 0)
             m == AppendBuffer(r.heap, r.resp, src, n)
  <1>1. data \in Seq(ReplyByte) /\ Len(data) \in Nat
    BY ReplyUnreadFacts
  <1>2. n \in 0..Len(data)
    <2> HIDE DEF data
    <2> QED BY <1>1, FindFacts
  <1> HIDE DEF n
  <1>3. InlineReply(r) = LineReply(r, n)
    BY DEF InlineReply, n
  <1>4. CASE n = 0
    <2>1. q = [r EXCEPT !.err = "TryAgain"] /\ "TryAgain" \in Errors
      BY <1>3, <1>4 DEF LineReply, Errors
    <2> QED BY <2>1, ErrGood
  <1>5. CASE n # 0
    <2>1. q = Received(r, m, n)
      BY <1>3, <1>5 DEF LineReply
    <2>2. n \in Nat \ {0} /\ n <= Len(Unread(r)) /\ n \in 0..Len(Unread(r))
      BY <1>1, <1>2, <1>5
    <2> HIDE DEF data
    <2>3. /\ Trio(r.heap, src, r.resp, r.send) /\ src.data = r.input.data
          /\ Size(src) = Len(Unread(r)) /\ Contents(r.heap, src) = Unread(r)
      BY RestFacts
    <2>4. Trio(r.heap, r.resp, r.input, r.send)
      BY DEF Good
    <2>5. Puts(r, n, m)
      <3>1. CASE r.resp.data = Null
        <4> HIDE DEF m
        <4> QED BY <2>2, <3>1, LineShared DEF m
      <3>2. CASE r.resp.data # Null
        <4>1. n <= Size(src) /\ src.data # r.resp.data
          BY <2>2, <2>3 DEF Apart
        <4> HIDE DEF src
        <4>2. /\ Appended(r.heap, r.resp, r.input, r.send, n, m)
              /\ Shows(r.heap, r.resp, r.input, r.send, SubSeq(Contents(r.heap, src), 1, n), m)
          BY <2>2, <2>3, <2>4, <3>2, <4>1, BufferAppended, BufferShows
        <4>3. r.resp.data # r.input.data
          BY DEF Apart
        <4> HIDE DEF m
        <4> QED BY <2>3, <4>2, <4>3, AppendedPuts
      <3> QED BY <3>1, <3>2
    <2> HIDE DEF m
    <2>6. Good(z, q) /\ q.err = r.err /\ q.parser = r.parser
      BY <2>1, <2>2, <2>5, ReceivedGood
    <2> QED BY <2>6
  <1> QED BY <1>4, <1>5

LEMMA ConsumedGood ==
  ASSUME NEW z, NEW r, Good(z, r), NEW q, q = Consumed(r)
  PROVE  Good(z, q) /\ q.err = r.err /\ q.at = 0 /\ (Apart(r) => Apart(q))
  <1> DEFINE b == Offset(r.input, r.at, 0)
  <1>1. /\ Trio(r.heap, b, r.resp, r.send) /\ b.data = r.input.data
        /\ Contents(r.heap, b) = Unread(r)
    BY RestFacts
  <1>2. r \in ReplyParse /\ r.input.data # Null
    BY DEF Good
  <1>3. q = [r EXCEPT !.input = b, !.at = 0]
    BY <1>2 DEF Consumed, ReplyParse
  <1> HIDE DEF b
  <1>4. Trio(r.heap, r.resp, b, r.send) /\ b \in Pointer
    BY <1>1, Turned DEF Trio
  <1>5. Size(b) \in Nat
    BY <1>1, TrioShared, SharedFacts
  <1>6. /\ q \in ReplyParse /\ q.heap = r.heap /\ q.resp = r.resp /\ q.input = b /\ q.at = 0
        /\ q.send = r.send /\ q.err = r.err /\ q.parser = r.parser
    <2>1. r \in ReplyParse /\ b \in Pointer /\ 0 \in Nat
      BY <1>2, <1>4
    <2> QED BY <1>3, <2>1 DEF ReplyParse
  <1>7. OnTheWay(q) = OnTheWay(r) /\ Alone(q.send, q.resp, q.input)
    <2>1. Contents(r.heap, b) \in Seq(ReplyByte) /\ Len(Contents(r.heap, b)) \in Nat
      BY <1>1, ReplyUnreadFacts
    <2>2. Unread(q) = Contents(r.heap, b)
      <3> DEFINE c == Contents(r.heap, b)
      <3>1. Unread(q) = SubSeq(c, 0 + 1, Len(c))
        BY <1>6 DEF Unread
      <3> HIDE DEF c
      <3>2. SubSeq(c, 1, Len(c)) = c
        BY <2>1, SubSeqFull DEF c
      <3> QED BY <3>1, <3>2 DEF c
    <2> QED BY <1>1, <1>6, <2>2 DEF OnTheWay, Alone, Good
  <1>8. Good(z, q)
    BY <1>1, <1>2, <1>4, <1>5, <1>6, <1>7 DEF Good
  <1> QED BY <1>1, <1>6, <1>8 DEF Apart

LEMMA ReplyParsedGood ==
  ASSUME NEW z, NEW r, Good(z, r), Apart(r), r.err = "OK", NEW q, q = ReplyParsed(r)
  PROVE  Good(z, q) /\ q.at = 0 /\ (q.err = "OK" \/ Apart(q))
  <1>1. q = Consumed(MultibulkReply(r)) \/ q = Consumed(InlineReply(r))
    BY DEF ReplyParsed
  <1>2. Good(z, MultibulkReply(r)) /\ Apart(MultibulkReply(r))
    BY MultibulkReplyGood
  <1>3. Good(z, InlineReply(r)) /\ (InlineReply(r).err = "OK" \/ Apart(InlineReply(r)))
    BY InlineReplyGood
  <1> QED BY <1>1, <1>2, <1>3, ConsumedGood

LEMMA ParseResponseGood ==
  ASSUME NEW z, NEW r, Good(z, r), Apart(r), r.err = "OK", r.at = 0, NEW q,
         q = ParseResponse(r)
  PROVE  Good(z, q) /\ q.at = 0 /\ (q.err = "OK" \/ Apart(q))
  <1> DEFINE type == ReplyType(Unread(r)[1])
             p == [r.parser EXCEPT !.type = IF r.parser.type = "none" THEN type
                                            ELSE r.parser.type]
             t == [r EXCEPT !.parser = p]
  <1>1. /\ r \in ReplyParse /\ r.parser \in ReplyFields
        /\ r.parser.type \in {"none", "multibulk", "inline"}
    BY ReplyParseFields DEF Good
  <1>2. CASE q = [r EXCEPT !.err = "TryAgain"] \/ q = [r EXCEPT !.err = "Unknown"]
    <2>1. "TryAgain" \in Errors /\ "Unknown" \in Errors
      BY DEF Errors
    <2> QED BY <1>2, <2>1, ErrGood
  <1>3. CASE /\ q = ReplyParsed(Typed(r, type))
             /\ ~(r.parser.type = "none" /\ type = "unknown")
    <2>1. Typed(r, type) = t
      BY <1>1 DEF Typed, ReplyParse
    <2>2. type \in {"multibulk", "inline", "unknown"}
      BY DEF ReplyType
    <2> HIDE DEF type
    <2>3. p \in ReplyFields /\ p.blen = r.parser.blen
      BY <1>1, <1>3, <2>2 DEF ReplyFields
    <2> HIDE DEF p
    <2>4. Good(z, t) /\ t.parser = p /\ t.err = r.err /\ t.resp = r.resp /\ t.input = r.input
      BY <2>3, ParserGood
    <2> HIDE DEF t
    <2>5. Apart(t)
      BY <2>3, <2>4 DEF Apart
    <2> QED BY <1>3, <2>1, <2>4, <2>5, ReplyParsedGood
  <1>4. \/ q = [r EXCEPT !.err = "TryAgain"]
        \/ q = [r EXCEPT !.err = "Unknown"]
        \/ /\ q = ReplyParsed(Typed(r, type))
           /\ ~(r.parser.type = "none" /\ type = "unknown")
    BY DEF ParseResponse
  <1> QED BY <1>2, <1>3, <1>4

LEMMA ClearedShows ==
  ASSUME NEW h, NEW b, b.size = 0, b.offset = 0
  PROVE  Contents(h, b) = <<>>
  BY SubSeqEmpty DEF Contents

\* The reply is copied to the client's send buffer and respBuffer_ is cleared.
HandedOut(p, q) ==
  /\ q.err = p.err /\ q.at = p.at /\ q.input = p.input /\ q.stop = p.stop
  /\ q.parser = NewParser /\ q.handed = p.handed + 1 /\ Size(q.resp) = 0

LEMMA HandOutGood ==
  ASSUME NEW z, NEW p, Good(z, p), NEW q, q = HandOut(p)
  PROVE  Good(z, q) /\ Apart(q) /\ HandedOut(p, q)
  <1> DEFINE shown == Contents(p.heap, p.resp)
             m == AppendBytes(p.heap, p.send, shown)
             c == Clear(m.heap, p.resp)
             w == Both(m.buf, p.input)
             s == [p EXCEPT !.send = m.buf, !.overlap = @ \/ m.overlap]
  <1>1. /\ p \in ReplyParse /\ Trio(p.heap, p.resp, p.input, p.send) /\ p.input.data # Null
        /\ p.handed \in Nat /\ p.overlap \in BOOLEAN /\ p.at <= Size(p.input)
    BY ReplyParseFields DEF Good
  <1>2. Trio(p.heap, p.send, p.resp, p.input)
    BY <1>1, Turned
  <1>3. shown \in Seq(ReplyByte)
    BY <1>1, TrioShared, ContentsFacts
  <1> HIDE DEF shown
  <1>4. Appended(p.heap, p.send, p.resp, p.input, Len(shown), m)
    BY <1>2, <1>3, BytesAppended
  <1>5. q = Cleared(s, c)
    BY <1>1 DEF HandOut, Sent, ReplyParse, shown
  <1>18. Shows(p.heap, p.send, p.resp, p.input, shown, m)
    BY <1>2, <1>3, BytesShow
  <1>19. Alone(p.send, p.resp, p.input) /\ OnTheWay(p) = z
    BY DEF Good
  <1>20. /\ Contents(m.heap, m.buf) = Contents(p.heap, p.send) \o shown
         /\ Contents(m.heap, p.input) = Contents(p.heap, p.input)
    BY <1>1, <1>18, <1>19 DEF Shows, Alone
  <1> HIDE DEF m
  <1>21. m.buf.data = Null \/ (m.buf.data # p.resp.data /\ m.buf.data # p.input.data)
    BY <1>4, <1>19 DEF Appended, Alone
  <1>6. Trio(m.heap, p.resp, m.buf, p.input) /\ m.overlap \in BOOLEAN
    BY <1>4, Turned DEF Appended
  <1>7. Shared(ReplyByte, m.heap, p.resp, w)
    BY <1>6, TrioShared
  <1>8. /\ Shared(ReplyByte, c.heap, c.buf, w) /\ Spared(m.heap, c.heap, w)
        /\ c.buf.data # Null => c.buf.data = p.resp.data /\ w[p.resp.data] = 0
        /\ \A d \in Blocks : w[d] > 0 => c.heap[d].bytes = m.heap[d].bytes
        /\ c.buf.size = 0 /\ c.buf.offset = 0
    <2> HIDE DEF w
    <2> QED BY <1>7, ClearFacts
  <1> HIDE DEF c
  <1>22. /\ Contents(c.heap, m.buf) = Contents(m.heap, m.buf)
         /\ Contents(c.heap, p.input) = Contents(m.heap, p.input)
    <2>1. \A y \in {m.buf, p.input} : Contents(c.heap, y) = Contents(m.heap, y)
      BY <1>6, <1>8, OthersShow
    <2> QED BY <2>1
  <1>23. Contents(c.heap, c.buf) = <<>>
    BY <1>8, ClearedShows
  <1>9. Trio(c.heap, c.buf, m.buf, p.input)
    BY <1>6, <1>8, TrioKept
  <1>10. c.buf.data # p.input.data
    <2>1. CASE c.buf.data = Null
      BY <1>1, <2>1
    <2>2. CASE c.buf.data # Null
      <3>1. c.buf.data = p.resp.data /\ w[p.resp.data] = 0 /\ c.buf.data \in Blocks
        BY <1>8, <1>9, <2>2 DEF Trio, Pointer
      <3> QED BY <3>1, FreeIsOther
    <2> QED BY <2>1, <2>2
  <1> HIDE DEF w
  <1>11. Trio(c.heap, c.buf, p.input, m.buf)
    <2>1. Trio(c.heap, p.input, c.buf, m.buf)
      BY <1>9, Turned
    <2> QED BY <2>1, Turned
  <1>12. /\ c.heap \in Memory(ReplyByte) /\ c.buf \in Pointer /\ m.buf \in Pointer
         /\ (p.overlap \/ m.overlap) \in BOOLEAN /\ p.handed + 1 \in Nat
    BY <1>1, <1>6, <1>11 DEF Trio
  <1>13. NewParser \in ReplyFields /\ NewParser.blen = 0
    BY DEF NewParser, ReplyFields
  <1>14. /\ s \in ReplyParse /\ s.heap = p.heap /\ s.input = p.input /\ s.at = p.at
         /\ s.send = m.buf /\ s.err = p.err /\ s.handed = p.handed /\ s.stop = p.stop
    BY <1>1, <1>12 DEF ReplyParse
  <1> HIDE DEF s
  <1>15. q = [s EXCEPT !.heap = c.heap, !.resp = c.buf, !.parser = NewParser,
                       !.handed = p.handed + 1]
    BY <1>5, <1>14 DEF Cleared, ReplyParse
  <1>16. /\ q \in ReplyParse /\ q.heap = c.heap /\ q.resp = c.buf /\ q.parser = NewParser
         /\ q.input = p.input /\ q.at = p.at /\ q.send = m.buf /\ q.err = p.err
         /\ q.handed = p.handed + 1 /\ q.stop = p.stop
    BY <1>12, <1>13, <1>14, <1>15 DEF ReplyParse
  <1>24. OnTheWay(q) = z
    <2> DEFINE x == Contents(p.heap, p.send)
               y == Unread(p)
    <2>1. x \in Seq(ReplyByte) /\ y \in Seq(ReplyByte)
      BY <1>2, TrioShared, ContentsFacts, ReplyUnreadFacts
    <2>2. Unread(q) = y
      BY <1>16, <1>20, <1>22 DEF Unread
    <2>3. Contents(q.heap, q.send) = x \o shown /\ Contents(q.heap, q.resp) = <<>>
      BY <1>16, <1>20, <1>22, <1>23
    <2>4. OnTheWay(p) = x \o (shown \o y)
      BY DEF OnTheWay, shown
    <2> HIDE DEF x, y
    <2>5. (x \o shown) \o y = x \o (shown \o y) /\ <<>> \o y = y
      <3>1. x \in Seq(ReplyByte) /\ shown \in Seq(ReplyByte) /\ y \in Seq(ReplyByte)
        BY <1>3, <2>1
      <3>2. ReplyAssociates(x, shown, y)
        BY <3>1, ReplyAssociative
      <3> QED BY <3>2 DEF ReplyAssociates
    <2> QED BY <1>19, <2>2, <2>3, <2>4, <2>5 DEF OnTheWay
  <1>25. Alone(q.send, q.resp, q.input)
    BY <1>1, <1>8, <1>16, <1>21 DEF Alone
  <1>17. Good(z, q)
    BY <1>1, <1>11, <1>16, <1>24, <1>25 DEF Good
  <1>26. HandedOut(p, q)
    BY <1>8, <1>16 DEF HandedOut, Size
  <1> QED BY <1>10, <1>13, <1>16, <1>17, <1>26 DEF Apart

LEMMA AfterParseGood ==
  ASSUME NEW z, NEW p, Good(z, p), p.err = "OK" \/ Apart(p), NEW q, q = AfterParse(p)
  PROVE  Good(z, q) /\ Apart(q) /\ q.err = "OK" /\ q.at = p.at
  <1>1. CASE p.err = "OK"
    <2>1. q = HandOut(p)
      BY <1>1 DEF AfterParse
    <2> QED BY <1>1, <2>1, HandOutGood DEF HandedOut
  <1>2. CASE p.err # "OK"
    <2>1. q = [p EXCEPT !.stop = p.err, !.err = "OK"]
      BY <1>2 DEF AfterParse
    <2>2. p \in ReplyParse /\ p.err \in Errors /\ "OK" \in Errors
      BY ReplyParseFields DEF Good, Errors
    <2>3. /\ q \in ReplyParse /\ q.heap = p.heap /\ q.input = p.input /\ q.resp = p.resp
          /\ q.send = p.send /\ q.at = p.at /\ q.err = "OK" /\ q.parser = p.parser
      BY <2>1, <2>2 DEF ReplyParse
    <2>4. Good(z, q)
      BY <2>3, SameReplyBytes
    <2> QED BY <1>2, <2>3, <2>4 DEF Apart
  <1> QED BY <1>1, <1>2

LEMMA NextReplyGood ==
  ASSUME NEW z, NEW r, Good(z, r), Apart(r), r.err = "OK", r.at = 0, NEW q, q = NextReply(r)
  PROVE  Good(z, q) /\ Apart(q) /\ q.err = "OK" /\ q.at = 0
  <1>1. q = r \/ q = AfterParse(ParseResponse(r))
    BY DEF NextReply
  <1>2. /\ Good(z, ParseResponse(r)) /\ ParseResponse(r).at = 0
        /\ ParseResponse(r).err = "OK" \/ Apart(ParseResponse(r))
    BY ParseResponseGood
  <1> QED BY <1>1, <1>2, AfterParseGood

\* The loop of OnServerRead, turn by turn.
ReplyTurns(f, r, n) == f[0] = r /\ \A k \in 1..n : f[k] = NextReply(f[k - 1])

LEMMA RepliesTurns ==
  ASSUME NEW z, NEW r, Good(z, r), Apart(r), r.err = "OK", r.at = 0
  PROVE  \E f : ReplyTurns(f, r, Size(r.input) + 1) /\ Replies(r) = f[Size(r.input) + 1]
  <1> DEFINE n == Size(r.input) + 1
             V == {q \in ReplyParse : Good(z, q) /\ Apart(q) /\ q.err = "OK" /\ q.at = 0}
             Right(f) == f = [k \in 0..n |-> IF k = 0 THEN r ELSE NextReply(f[k - 1])]
             turn == CHOOSE f : Right(f)
             G == [x \in (1..n) \X V |-> NextReply(x[2])]
  <1>1. Replies(r) = turn[n]
    BY DEF Replies
  <1>2. n \in Nat /\ r \in V
    <2>1. n \in Nat
      BY ReplyUnreadFacts
    <2>2. r \in V
      BY DEF Good
    <2> QED BY <2>1, <2>2
  <1>3. ASSUME NEW q \in V PROVE NextReply(q) \in V
    <2>1. Good(z, q) /\ Apart(q) /\ q.err = "OK" /\ q.at = 0
      OBVIOUS
    <2>2. /\ Good(z, NextReply(q)) /\ Apart(NextReply(q)) /\ NextReply(q).err = "OK"
          /\ NextReply(q).at = 0
      BY <2>1, NextReplyGood
    <2> QED BY <2>2 DEF Good
  <1> HIDE DEF V, n
  <1>4. G \in [(1..n) \X V -> V] /\ \A k \in 1..n, q \in V : G[<<k, q>>] = NextReply(q)
    BY <1>3
  <1> HIDE DEF G
  <1>5. PICK f \in [0..n -> V] : StepsBy(f, r, n, G)
    BY <1>2, <1>4, Stepped
  <1>6. Right(f)
    <2>1. \A k \in 1..n : k - 1 \in 0..n
      BY <1>2
    <2>2. \A k \in 1..n : f[k] = NextReply(f[k - 1])
      BY <1>4, <1>5, <2>1 DEF StepsBy
    <2>3. \A k \in 0..n : f[k] = IF k = 0 THEN r ELSE NextReply(f[k - 1])
      BY <1>2, <1>5, <2>2 DEF StepsBy
    <2> QED BY <1>5, <2>3
  <1>7. Right(turn)
    BY <1>6
  <1> HIDE DEF turn
  <1>8. turn[0] = r /\ \A k \in 1..n : turn[k] = NextReply(turn[k - 1])
    BY <1>2, <1>7
  <1>9. ReplyTurns(turn, r, n)
    BY <1>8 DEF ReplyTurns
  <1> QED BY <1>1, <1>9 DEF n

LEMMA RepliesGood ==
  ASSUME NEW z, NEW r, Good(z, r), Apart(r), r.err = "OK", r.at = 0
  PROVE  Good(z, Replies(r)) /\ Apart(Replies(r)) /\ Replies(r).at = 0
  <1> DEFINE n == Size(r.input) + 1
             V == {q \in ReplyParse : Good(z, q) /\ Apart(q) /\ q.err = "OK" /\ q.at = 0}
  <1>1. n \in Nat
    BY ReplyUnreadFacts
  <1>2. PICK f : ReplyTurns(f, r, n) /\ Replies(r) = f[n]
    BY RepliesTurns
  <1> HIDE DEF n
  <1>3. f[0] \in V
    BY <1>2 DEF ReplyTurns, Good
  <1>4. ASSUME NEW k \in 1..n, f[k - 1] \in V PROVE f[k] \in V
    <2> DEFINE q == f[k - 1]
    <2>1. Good(z, q) /\ Apart(q) /\ q.err = "OK" /\ q.at = 0
      BY <1>4
    <2>2. f[k] = NextReply(q)
      BY <1>2 DEF ReplyTurns
    <2> HIDE DEF q
    <2>3. Good(z, f[k]) /\ Apart(f[k]) /\ f[k].err = "OK" /\ f[k].at = 0
      BY <2>1, <2>2, NextReplyGood
    <2> QED BY <2>3 DEF Good
  <1> HIDE DEF V
  <1>5. \A k \in 0..n : f[k] \in V
    BY <1>1, <1>3, <1>4, Invariance
  <1>6. f[n] \in V
    BY <1>1, <1>5
  <1> QED BY <1>2, <1>6 DEF V

--------------------------------------------------------------------------------
(* What the parser makes of the stream: where it stands, and why it stops. *)

\* Where in the stream the parser stands, when t bytes of it were read.
ReplyPos(t, r) == t - Len(Unread(r))

\* What r has before it is the stream from there on, and what is behind it are the replies
\* that the client has (g bytes) or that wait for it, and respBuffer_.
ReplyView(s, g, t, r) ==
  /\ Len(Unread(r)) \in Nat /\ ReplyPos(t, r) \in Nat /\ ReplyPos(t, r) + Len(Unread(r)) = t
  /\ Unread(r) \in Seq(ReplyByte)
  /\ Size(r.send) \in Nat /\ Size(r.resp) \in Nat
  /\ g + Size(r.send) + Size(r.resp) = ReplyPos(t, r)
  /\ \A j \in 1..Len(Unread(r)) : Unread(r)[j] = Bytes[s][ReplyPos(t, r) + j]

LEMMA ReplyViewFacts ==
  ASSUME NEW s \in Streams, NEW g \in Nat, NEW t \in Nat, g <= t, t <= Len(Bytes[s]),
         NEW r, Good(SubSeq(Bytes[s], g + 1, t), r)
  PROVE  ReplyView(s, g, t, r)
  <1> DEFINE all == Bytes[s]
             z == SubSeq(all, g + 1, t)
             x == Contents(r.heap, r.send)
             y == Contents(r.heap, r.resp)
             w == Unread(r)
             v == y \o w
             total == Len(all)
             i == Len(x)
             j == Len(y)
             u == Len(w)
             p == ReplyPos(t, r)
  <1>1. all \in Seq(ReplyByte) /\ total \in Nat /\ t <= total
    BY BytesTyped
  <1>2. x \o v = z
    BY DEF Good, OnTheWay
  <1>3. x \in Seq(ReplyByte) /\ i = Size(r.send) /\ y \in Seq(ReplyByte) /\ j = Size(r.resp)
    <2>1. Trio(r.heap, r.resp, r.input, r.send) /\ Trio(r.heap, r.send, r.resp, r.input)
      BY Turned DEF Good
    <2> QED BY <2>1, TrioShared, ContentsFacts
  <1>4. w \in Seq(ReplyByte) /\ u \in Nat
    BY ReplyUnreadFacts
  <1>5. p = t - u
    BY DEF ReplyPos
  <1> HIDE DEF x, y, w, p
  <1>6. i \in Nat /\ j \in Nat
    BY <1>3
  <1>7. /\ v \in Seq(ReplyByte) /\ Len(v) = j + u
        /\ \A k \in (j + 1)..(j + u) : v[k] = w[k - j]
    BY <1>3, <1>4, Concatenation
  <1> HIDE DEF v
  <1>8. /\ Len(z) = i + Len(v)
        /\ \A k \in (i + 1)..(i + Len(v)) : z[k] = v[k - i]
    <2> HIDE DEF z
    <2>1. x \in Seq(ReplyByte) /\ v \in Seq(ReplyByte)
      BY <1>3, <1>7
    <2>2. /\ Len(x \o v) = Len(x) + Len(v)
          /\ \A k \in (Len(x) + 1)..(Len(x) + Len(v)) : (x \o v)[k] = v[k - Len(x)]
      BY <2>1, Concatenation
    <2> QED BY <1>2, <2>2
  <1> HIDE DEF all
  <1>9. Len(z) = t - g /\ \A k \in 1..(t - g) : z[k] = all[g + k]
    <2> DEFINE b == g + 1
    <2>1. b \in 1..(total + 1) /\ t \in (b - 1)..total /\ t - b + 1 = t - g
          /\ \A k \in 1..(t - g) : b + k - 1 = g + k
      BY <1>1
    <2> HIDE DEF b, total
    <2>2. /\ Len(SubSeq(all, b, t)) = t - b + 1
          /\ \A k \in 1..(t - b + 1) : SubSeq(all, b, t)[k] = all[b + k - 1]
      BY <1>1, <2>1, SubSeqProperties DEF total
    <2> QED BY <2>1, <2>2 DEF b
  <1> HIDE DEF z, i, j, u, total
  <1>10. t - g = i + (j + u)
    BY <1>7, <1>8, <1>9
  <1>11. p \in Nat /\ p + u = t /\ g + i + j = p
    BY <1>4, <1>5, <1>6, <1>10
  <1>12. ASSUME NEW k \in 1..u PROVE w[k] = all[p + k]
    <2> DEFINE m == j + k
               n == i + m
    <2>1. /\ m \in (j + 1)..(j + u) /\ m - j = k
          /\ n \in (i + 1)..(i + (j + u)) /\ n - i = m /\ n \in 1..(t - g) /\ g + n = p + k
      BY <1>4, <1>6, <1>10, <1>11
    <2> HIDE DEF m, n
    <2>2. v[m] = w[k] /\ z[n] = v[m] /\ z[n] = all[g + n]
      BY <1>7, <1>8, <1>9, <2>1
    <2> QED BY <2>1, <2>2
  <1> QED BY <1>3, <1>4, <1>6, <1>11, <1>12 DEF ReplyView, w, u, p, i, j, all

\* The bytes at the reader are the line with header h, as far as they were read.
LEMMA LineHere ==
  ASSUME NEW s \in Streams, NEW g, NEW t \in Nat, NEW r, ReplyView(s, g, t, r), NEW h,
         LineAt(s, ReplyPos(t, r), h)
  PROVE  /\ Len(Unread(r)) >= 1 => Unread(r)[1] = h
         /\ Len(Unread(r)) >= 2 => Unread(r)[2] = Lf
  BY DEF ReplyView, LineAt

LEMMA LengthLineHere ==
  ASSUME NEW s \in Streams, NEW g, NEW t \in Nat, NEW r, ReplyView(s, g, t, r), NEW k \in Headers,
         NEW v \in Int, LineAt(s, ReplyPos(t, r), <<k, v>>),
         NEW u, u = Len(Unread(r)), NEW line, line = LengthLine(Unread(r))
  PROVE  /\ u = 0 => line = Fails("OutOfBound")
         /\ u = 1 => line = Fails("TryAgain") /\ Find(Unread(r), Lf) = 0
         /\ u >= 2 => /\ line = [err |-> "OK", bytes |-> 2, value |-> v]
                      /\ Find(Unread(r), Lf) = 2
  <1> DEFINE data == Unread(r)
             h == <<k, v>>
  <1>1. data \in Seq(Kinds \X Int)
    BY DEF ReplyView, ReplyByte
  <1>2. h \in Headers \X Int /\ h[2] = v
    OBVIOUS
  <1>3. (Len(data) >= 1 => data[1] = h) /\ (Len(data) >= 2 => data[2] = Lf)
    BY LineHere
  <1>4. u = Len(data) /\ line = LengthLine(data)
    OBVIOUS
  <1> HIDE DEF data, h
  <1>5. /\ Len(data) = 0 => LengthLine(data) = Fails("OutOfBound") /\ Find(data, Lf) = 0
        /\ Len(data) = 1 => LengthLine(data) = Fails("TryAgain") /\ Find(data, Lf) = 0
        /\ Len(data) >= 2 => /\ LengthLine(data) = [err |-> "OK", bytes |-> 2, value |-> h[2]]
                             /\ Find(data, Lf) = 2
    BY <1>1, <1>2, <1>3, LineFound
  <1>6. /\ u = 0 => line = Fails("OutOfBound")
        /\ u = 1 => line = Fails("TryAgain") /\ Find(data, Lf) = 0
        /\ u >= 2 => /\ line = [err |-> "OK", bytes |-> 2, value |-> v]
                     /\ Find(data, Lf) = 2
    BY <1>2, <1>4, <1>5
  <1> QED BY <1>6 DEF data

LEMMA NoLineHere ==
  ASSUME NEW s \in Streams, NEW g, NEW t \in Nat, NEW r, ReplyView(s, g, t, r),
         LineAt(s, ReplyPos(t, r), Cr), NEW line, line = LengthLine(Unread(r))
  PROVE  /\ Len(Unread(r)) = 0 => line = Fails("OutOfBound")
         /\ Len(Unread(r)) # 0 => line \in {Fails("TryAgain"), Fails("unpredictable")}
  <1> DEFINE data == Unread(r)
  <1>1. data \in Seq(Kinds \X Int)
    BY DEF ReplyView, ReplyByte
  <1>2. Len(data) \in Nat /\ (Len(data) >= 1 => data[1] = Cr)
    <2>1. Len(Unread(r)) \in Nat
      BY DEF ReplyView
    <2>2. Len(Unread(r)) >= 1 => Unread(r)[1] = Cr
      BY LineHere
    <2> QED BY <2>1, <2>2
  <1>3. line = LengthLine(data)
    OBVIOUS
  <1> HIDE DEF data
  <1>4. /\ Len(data) = 0 => LengthLine(data) = Fails("OutOfBound")
        /\ Len(data) >= 1 => \/ LengthLine(data) = Fails("TryAgain")
                             \/ LengthLine(data) = Fails("unpredictable")
    BY <1>1, <1>2, NoLine
  <1>5. /\ Len(data) = 0 => line = Fails("OutOfBound")
        /\ Len(data) # 0 => line \in {Fails("TryAgain"), Fails("unpredictable")}
    BY <1>2, <1>3, <1>4
  <1> QED BY <1>5 DEF data

--------------------------------------------------------------------------------
\* The parse moved on by n bytes of the input, and only respBuffer_ took them.
Moved(r, q, n) ==
  /\ q.input = r.input /\ q.send = r.send /\ q.handed = r.handed /\ q.stop = r.stop
  /\ q.at = r.at + n

LEMMA MovedPos ==
  ASSUME NEW z, NEW r, Good(z, r), NEW q, Good(z, q), NEW n \in Int, Moved(r, q, n),
         NEW t \in Nat
  PROVE  ReplyPos(t, q) = ReplyPos(t, r) + n
  <1> DEFINE u == Len(Unread(r))
             v == Len(Unread(q))
  <1>1. /\ u = Size(r.input) - r.at /\ Size(r.input) \in Nat /\ r.at \in Nat
        /\ v = Size(q.input) - q.at /\ u \in Nat /\ v \in Nat
    BY ReplyUnreadFacts
  <1>2. q.input = r.input /\ q.at = r.at + n
    BY DEF Moved
  <1>3. ReplyPos(t, q) = t - v /\ ReplyPos(t, r) = t - u
    BY DEF ReplyPos
  <1> HIDE DEF u, v
  <1> QED BY <1>1, <1>2, <1>3

LEMMA CopiedMoves ==
  ASSUME NEW r \in ReplyParse, r.err = "OK", NEW line, NEW q, q = Copied(r, line)
  PROVE  /\ q.parser = r.parser /\ q.err = line.err
         /\ line.err # "OK" => Moved(r, q, 0)
         /\ line.err = "OK" => Moved(r, q, line.bytes)
  <1>1. r.at \in Nat /\ r.at + 0 = r.at
    BY ReplyParseFields
  <1>2. CASE line.err # "OK"
    <2>1. q = [r EXCEPT !.err = line.err]
      BY <1>2 DEF Copied
    <2> QED BY <1>1, <1>2, <2>1 DEF Moved, ReplyParse
  <1>3. CASE line.err = "OK"
    <2> DEFINE m == AppendBytes(r.heap, r.resp, SubSeq(Unread(r), 1, line.bytes))
    <2>1. q = Received(r, m, line.bytes)
      BY <1>3 DEF Copied
    <2> HIDE DEF m
    <2>2. q = [r EXCEPT !.heap = m.heap, !.resp = m.buf, !.at = r.at + line.bytes]
      BY <2>1 DEF Received, ReplyParse
    <2> QED BY <1>3, <2>2 DEF Moved, ReplyParse
  <1> QED BY <1>2, <1>3

\* The parser's fields, one of them set.
LEMMA FieldsSet ==
  ASSUME NEW p \in ReplyFields
  PROVE  /\ \A n \in Int : LET q == [p EXCEPT !.mlen = n] IN
              /\ q \in ReplyFields /\ q.type = p.type /\ q.mlen = n /\ q.mindex = p.mindex
              /\ q.blen = p.blen
         /\ \A n \in Int : LET q == [p EXCEPT !.blen = n] IN
              /\ q \in ReplyFields /\ q.type = p.type /\ q.mlen = p.mlen /\ q.mindex = p.mindex
              /\ q.blen = n
         /\ \A n \in Nat : LET q == [p EXCEPT !.mindex = n] IN
              /\ q \in ReplyFields /\ q.type = p.type /\ q.mlen = p.mlen /\ q.mindex = n
              /\ q.blen = p.blen
  BY DEF ReplyFields

\* Reply c has begun, and so many of its elements are complete.
Started(s, t, c, ps) ==
  /\ c \in 1..Len(s) /\ s[c].kind # "line" /\ ReplyEnd[s][c - 1] < t
  /\ ps \in ReplyFields /\ ps.type = "multibulk" /\ ps.mlen = Len(s[c].elements)
  /\ ps.mindex \in 0..ps.mlen

\* The parser is in front of the length line of an element, or behind it.
InFront(s, t, p, c, ps) ==
  /\ Started(s, t, c, ps) /\ ps.blen = 0 /\ p = LineStart(s, c, ps.mindex)

Behind(s, t, p, c, ps) ==
  /\ Started(s, t, c, ps) /\ ps.mindex < ps.mlen /\ Rest(s, c, ps.mindex) = 0
  /\ ps.blen = s[c].elements[ps.mindex + 1] /\ p = LineStart(s, c, ps.mindex) + 2

Inside(s, t, p, c, ps) ==
  InFront(s, t, p, c, ps) \/ (Behind(s, t, p, c, ps) /\ ps.blen > 0)

\* Why it went no further: not all of the reply is there, if nothing is left of the element
\* before.
Waits(s, t, c, ps, err) ==
  /\ err \in {"TryAgain", "OutOfBound", "unpredictable"}
  /\ ps.mindex < ps.mlen
  /\ err = "OutOfBound" => t \in LineStarts[s]
  /\ Rest(s, c, ps.mindex) = 0 => t < ReplyEnd[s][c]

LengthRead(s, t, c, r, q) ==
  /\ q.err = "OK" => /\ Behind(s, t, ReplyPos(t, q), c, q.parser) /\ Moved(r, q, 2)
                     /\ q.parser.mindex = r.parser.mindex /\ q.parser.mlen = r.parser.mlen
  /\ q.err # "OK" => /\ InFront(s, t, ReplyPos(t, q), c, q.parser) /\ Moved(r, q, 0)
                     /\ Waits(s, t, c, q.parser, q.err)
                     /\ q.parser.mindex = r.parser.mindex /\ q.parser.mlen = r.parser.mlen

TakesBlen(c, v, q) == q = [c EXCEPT !.parser.blen = v]

OnlyBlen(c, v, q) ==
  /\ q.parser \in ReplyFields /\ q.parser.type = c.parser.type
  /\ q.parser.mlen = c.parser.mlen /\ q.parser.mindex = c.parser.mindex
  /\ q.parser.blen = v /\ q.err = c.err /\ Moved(c, q, 0)

LEMMA BlenSet ==
  ASSUME NEW c \in ReplyParse, NEW v \in Int, NEW q, TakesBlen(c, v, q)
  PROVE  OnlyBlen(c, v, q)
  <1> DEFINE p == [c.parser EXCEPT !.blen = v]
  <1>1. c.parser \in ReplyFields /\ c.at + 0 = c.at
    BY ReplyParseFields
  <1>2. /\ p \in ReplyFields /\ p.type = c.parser.type /\ p.mlen = c.parser.mlen
        /\ p.mindex = c.parser.mindex /\ p.blen = v
    BY <1>1, FieldsSet
  <1>3. q = [c EXCEPT !.parser = p]
    BY DEF TakesBlen, ReplyParse
  <1> HIDE DEF p
  <1>4. /\ q.parser = p /\ q.err = c.err /\ q.input = c.input /\ q.send = c.send
        /\ q.handed = c.handed /\ q.stop = c.stop /\ q.at = c.at
    BY <1>3 DEF ReplyParse
  <1> QED BY <1>1, <1>2, <1>4 DEF OnlyBlen, Moved

LEMMA ElementLengthRead ==
  ASSUME NEW s \in Streams, NEW g \in Nat, NEW t \in Nat, g <= t, t <= Len(Bytes[s]),
         NEW r, Good(SubSeq(Bytes[s], g + 1, t), r), Apart(r), r.err = "OK", NEW c,
         InFront(s, t, ReplyPos(t, r), c, r.parser), r.parser.mindex < r.parser.mlen,
         NEW q, q = ElementLength(r)
  PROVE  LengthRead(s, t, c, r, q)
  <1> DEFINE z == SubSeq(Bytes[s], g + 1, t)
             w == Unread(r)
             u == Len(w)
             line == LengthLine(w)
             d == Copied(r, line)
             i == r.parser.mindex
             n == r.parser.mlen
             p == LineStart(s, c, i)
             v == s[c].elements[i + 1]
             end == ReplyEnd[s][c]
             from == ReplyEnd[s][c - 1]
  <1> HIDE DEF z
  <1>1. /\ c \in 1..Len(s) /\ s[c].kind # "line" /\ from < t /\ r.parser \in ReplyFields
        /\ r.parser.blen = 0 /\ n = Len(s[c].elements) /\ i \in 0..n /\ i < n
        /\ r.parser.type = "multibulk" /\ ReplyPos(t, r) = p
    BY DEF InFront, Started
  <1>2. ReplyView(s, g, t, r) /\ Good(z, r) /\ r \in ReplyParse
    BY ReplyViewFacts DEF z, Good
  <1>3. q = WithElementLength(r, line)
    BY <1>1 DEF ElementLength
  <1>4. u \in Nat /\ p + u = t /\ p \in Nat
    BY <1>1, <1>2 DEF ReplyView
  <1>5. Good(z, q)
    BY <1>2, ElementLengthGood DEF z
  <1>6. i \in 0..(Len(s[c].elements) - 1) /\ i \in 0..Len(s[c].elements) /\ i \in Nat /\ n \in Nat
    BY <1>1 DEF ReplyFields
  <1> HIDE DEF w, line, d, u
  <1>7. /\ Good(z, d) /\ d.parser = r.parser /\ d.err = line.err /\ line.value \in Int
        /\ line.err # "OK" => line.value = 0
    BY <1>2, CopiedGood DEF line, w, d
  <1>8. d \in ReplyParse /\ q = [d EXCEPT !.parser.blen = line.value]
    BY <1>3, <1>7 DEF WithElementLength, d, Good
  <1>9. /\ q.parser \in ReplyFields /\ q.parser.type = d.parser.type /\ q.parser.mlen = d.parser.mlen
        /\ q.parser.mindex = d.parser.mindex /\ q.parser.blen = line.value /\ q.err = d.err
        /\ Moved(d, q, 0)
    <2>1. d \in ReplyParse /\ line.value \in Int /\ TakesBlen(d, line.value, q)
      BY <1>7, <1>8 DEF TakesBlen
    <2>2. OnlyBlen(d, line.value, q)
      BY <2>1, BlenSet, Zenon
    <2> QED BY <2>2 DEF OnlyBlen
  <1>10. /\ line.err # "OK" => Moved(r, d, 0)
         /\ line.err = "OK" => Moved(r, d, line.bytes)
    BY <1>2, CopiedMoves DEF d
  <1>11. r.at \in Nat
    BY <1>2, ReplyParseFields
  <1>12. /\ line.err # "OK" => Moved(r, q, 0)
         /\ line.err = "OK" /\ line.bytes = 2 => Moved(r, q, 2)
    BY <1>9, <1>10, <1>11 DEF Moved
  <1>13. Started(s, t, c, q.parser) /\ q.parser.mindex = i /\ q.parser.mlen = n
    BY <1>1, <1>7, <1>9 DEF Started, from
  <1>14. from \in Nat /\ end \in Nat
    BY <1>1, PlaceFacts DEF Places
  <1>15. ASSUME u = 0 PROVE t \in LineStarts[s]
    <2>1. p = t
      BY <1>4, <1>15
    <2>2. CASE s[c].kind = "bulk"
      <3>1. n = 1 /\ LineStart(s, c, 0) = from
        BY <1>1, <2>2, StreamFacts, HeadAt
      <3>2. i = 0
        BY <1>1, <1>6, <3>1
      <3> QED BY <1>1, <1>14, <2>1, <3>1, <3>2
    <2>3. CASE s[c].kind = "array"
      <3>1. /\ c \in {d_1 \in 1..Len(s) : s[d_1].kind = "array"}
            /\ p \in {LineStart(s, c, j) : j \in 0..(Len(s[c].elements) - 1)}
        BY <1>1, <1>6, <2>3
      <3> QED BY <2>1, <3>1 DEF LineStarts
    <2> QED BY <1>1, <2>2, <2>3, StreamFacts
  <1>16. ASSUME line.err # "OK",
                line.err \in {"TryAgain", "OutOfBound", "unpredictable"},
                line.err = "OutOfBound" => u = 0,
                Rest(s, c, i) = 0 => t < end
         PROVE  LengthRead(s, t, c, r, q)
    <2>1. line.value = 0 /\ q.err = line.err /\ Moved(r, q, 0)
      BY <1>7, <1>9, <1>12, <1>16
    <2>2. ReplyPos(t, q) = ReplyPos(t, r) + 0
      BY <1>2, <1>5, <2>1, MovedPos
    <2>3. ReplyPos(t, q) = p
      BY <1>1, <1>4, <2>2
    <2>4. InFront(s, t, ReplyPos(t, q), c, q.parser)
      BY <1>9, <1>13, <2>1, <2>3 DEF InFront
    <2>5. Waits(s, t, c, q.parser, q.err)
      BY <1>1, <1>13, <1>15, <1>16, <2>1 DEF Waits
    <2> QED BY <1>13, <1>16, <2>1, <2>4, <2>5 DEF LengthRead
  <1>17. CASE Rest(s, c, i) # 0
    <2>1. LineAt(s, ReplyPos(t, r), Cr)
      BY <1>1, <1>6, <1>17, RestAt
    <2>2. /\ Len(w) = 0 => line = Fails("OutOfBound")
          /\ Len(w) # 0 => line \in {Fails("TryAgain"), Fails("unpredictable")}
      BY <1>2, <2>1, NoLineHere DEF w, line
    <2>3. /\ line.err # "OK" /\ line.err \in {"TryAgain", "OutOfBound", "unpredictable"}
          /\ line.err = "OutOfBound" => u = 0
      BY <2>2 DEF Fails, u
    <2> QED BY <1>16, <1>17, <2>3
  <1>18. CASE Rest(s, c, i) = 0
    <2>1. Begins(s, c, i, v, p)
      BY <1>1, <1>6, <1>18, ElementAt
    <2>2. /\ v \in Int /\ LineAt(s, ReplyPos(t, r), <<"$", v>>) /\ p + 2 <= end
      <3>1. v \in Nat \union {-1} /\ LineAt(s, p, <<"$", v>>) /\ p + 2 + Body(v) <= end
        BY <2>1 DEF Begins
      <3> HIDE DEF v, p, end
      <3>2. v \in Int /\ Body(v) \in Nat
        BY <3>1 DEF Body
      <3> QED BY <1>1, <1>4, <1>14, <3>1, <3>2
    <2>3. /\ u = 0 => line = Fails("OutOfBound")
          /\ u = 1 => line = Fails("TryAgain")
          /\ u >= 2 => line = [err |-> "OK", bytes |-> 2, value |-> v]
      <3>1. "$" \in Headers
        BY DEF Headers
      <3> HIDE DEF v
      <3>2. /\ ReplyView(s, g, t, r) /\ v \in Int /\ LineAt(s, ReplyPos(t, r), <<"$", v>>)
            /\ u = Len(Unread(r)) /\ line = LengthLine(Unread(r))
        BY <1>2, <2>2 DEF w, line, u
      <3> HIDE DEF p, end
      <3>3. /\ u = 0 => line = Fails("OutOfBound")
            /\ u = 1 => line = Fails("TryAgain") /\ Find(Unread(r), Lf) = 0
            /\ u >= 2 => /\ line = [err |-> "OK", bytes |-> 2, value |-> v]
                         /\ Find(Unread(r), Lf) = 2
        BY <3>1, <3>2, LengthLineHere
      <3> QED BY <3>3
    <2>4. CASE u < 2
      <3>1. t < end
        BY <1>4, <1>14, <2>2, <2>4
      <3>2. u = 0 \/ u = 1
        BY <1>4, <2>4
      <3>3. /\ line.err # "OK" /\ line.err \in {"TryAgain", "OutOfBound", "unpredictable"}
            /\ line.err = "OutOfBound" => u = 0
        BY <2>3, <3>2 DEF Fails
      <3> QED BY <1>16, <3>1, <3>3
    <2>5. CASE u >= 2
      <3>1. line.err = "OK" /\ line.bytes = 2 /\ line.value = v
        BY <2>3, <2>5
      <3>2. q.err = "OK" /\ Moved(r, q, 2)
        BY <1>7, <1>9, <1>12, <3>1
      <3>3. ReplyPos(t, q) = p + 2
        BY <1>1, <1>2, <1>5, <3>2, MovedPos
      <3>4. Behind(s, t, ReplyPos(t, q), c, q.parser)
        BY <1>1, <1>9, <1>13, <1>18, <3>1, <3>3 DEF Behind
      <3> QED BY <1>13, <3>2, <3>4 DEF LengthRead
    <2> QED BY <1>4, <2>4, <2>5
  <1> QED BY <1>17, <1>18

LEMMA ReceivedMoves ==
  ASSUME NEW r \in ReplyParse, NEW m, NEW n \in Nat, NEW q, q = Received(r, m, n)
  PROVE  /\ Moved(r, q, n) /\ q.parser = r.parser /\ q.err = r.err /\ q.at \in Nat
  <1>1. r.at \in Nat /\ r.at + n \in Nat
    BY ReplyParseFields
  <1>2. q = [r EXCEPT !.heap = m.heap, !.resp = m.buf, !.at = r.at + n]
    BY DEF Received, ReplyParse
  <1> QED BY <1>1, <1>2 DEF Moved, ReplyParse


\* What became of an element.
ElementTaken(s, t, c, r, q) ==
  /\ q.err = "OK" => /\ InFront(s, t, ReplyPos(t, q), c, q.parser)
                     /\ Moved(r, q, Body(r.parser.blen))
                     /\ q.parser.mindex = r.parser.mindex + 1
                     /\ q.parser.mlen = r.parser.mlen
  /\ q.err # "OK" => /\ Inside(s, t, ReplyPos(t, q), c, q.parser) /\ Moved(r, q, 0)
                     /\ Waits(s, t, c, q.parser, q.err)
                     /\ q.parser.mlen = r.parser.mlen

LEMMA ElementRead ==
  ASSUME NEW s \in Streams, NEW g \in Nat, NEW t \in Nat, g <= t, t <= Len(Bytes[s]),
         NEW r, Good(SubSeq(Bytes[s], g + 1, t), r), Apart(r), r.err = "OK", NEW c,
         Behind(s, t, ReplyPos(t, r), c, r.parser), NEW q, q = Element(r)
  PROVE  ElementTaken(s, t, c, r, q)
  <1> DEFINE z == SubSeq(Bytes[s], g + 1, t)
             u == Len(Unread(r))
             i == r.parser.mindex
             k == i + 1
             n == r.parser.mlen
             p == LineStart(s, c, i)
             v == r.parser.blen
             end == ReplyEnd[s][c]
  <1> HIDE DEF z
  <1>1. /\ c \in 1..Len(s) /\ s[c].kind # "line" /\ ReplyEnd[s][c - 1] < t /\ r.parser \in ReplyFields
        /\ v = s[c].elements[k] /\ n = Len(s[c].elements) /\ i \in 0..n /\ i < n
        /\ r.parser.type = "multibulk" /\ ReplyPos(t, r) = p + 2 /\ Rest(s, c, i) = 0
    BY DEF Behind, Started
  <1>2. ReplyView(s, g, t, r) /\ Good(z, r) /\ r \in ReplyParse
    BY ReplyViewFacts DEF z, Good
  <1>3. Good(z, q)
    BY <1>2, ElementGood DEF z
  <1>4. i \in 0..(Len(s[c].elements) - 1) /\ i \in Nat /\ n \in Nat
    BY <1>1 DEF ReplyFields
  <1>5. /\ v \in Nat \union {-1} /\ p \in Nat /\ LineStart(s, c, k) = p + 2 + Body(v)
        /\ p + 2 + Body(v) <= end /\ Body(v) \in Nat
    <2>1. Begins(s, c, i, s[c].elements[i + 1], p)
      BY <1>1, <1>4, ElementAt
    <2>2. Begins(s, c, i, v, p)
      BY <1>1, <2>1
    <2>3. /\ v \in Nat \union {-1} /\ LineAt(s, p, <<"$", v>>)
          /\ LineStart(s, c, k) = p + 2 + Body(v)
          /\ p + 2 + Body(v) <= end
      BY <2>2 DEF Begins
    <2>4. p \in Nat
      BY <2>3 DEF LineAt
    <2> HIDE DEF v, p, end, k
    <2>5. Body(v) \in Nat
      BY <2>3 DEF Body
    <2> QED BY <2>3, <2>4, <2>5
  <1>6. end \in Nat
    BY <1>1, PlaceFacts DEF Places
  <1>7. u \in Nat /\ p + 2 + u = t
    <2>1. u \in Nat /\ ReplyPos(t, r) + u = t
      BY <1>2 DEF ReplyView
    <2> QED BY <1>1, <2>1
  <1>8. ASSUME NEW e \in ReplyParse, e.parser = r.parser, e.err = "OK", Moved(r, e, Body(v)),
               q = NextIndex(e)
        PROVE  ElementTaken(s, t, c, r, q)
    <2> DEFINE x == [e.parser EXCEPT !.blen = 0]
               y == [x EXCEPT !.mindex = k]
    <2>1. /\ x \in ReplyFields /\ x.type = "multibulk" /\ x.mlen = n /\ x.mindex = i /\ x.blen = 0
          /\ k \in Nat
      <3> DEFINE o == e.parser
      <3>1. o \in ReplyFields /\ o.type = "multibulk" /\ o.mlen = n /\ o.mindex = i /\ 0 \in Int
        BY <1>1, <1>8
      <3>2. k \in Nat
        BY <1>4
      <3> HIDE DEF o, n, i
      <3>3. LET a == [o EXCEPT !.blen = 0] IN
              /\ a \in ReplyFields /\ a.type = o.type /\ a.mlen = o.mlen /\ a.mindex = o.mindex
              /\ a.blen = 0
        BY <3>1, FieldsSet
      <3> QED BY <3>1, <3>2, <3>3 DEF o
    <2>2. q = [e EXCEPT !.parser = y]
      BY <1>4, <1>8 DEF NextIndex, ReplyParse, ReplyFields
    <2> HIDE DEF x, k
    <2>3. /\ y \in ReplyFields /\ y.type = "multibulk" /\ y.mlen = n /\ y.mindex = k /\ y.blen = 0
      BY <2>1, FieldsSet
    <2> HIDE DEF y
    <2>4. q.parser = y /\ q.err = "OK" /\ Moved(r, q, Body(v))
      BY <1>8, <2>2 DEF Moved, ReplyParse
    <2>5. ReplyPos(t, q) = ReplyPos(t, r) + Body(v)
      BY <1>2, <1>3, <1>5, <2>4, MovedPos
    <2>6. ReplyPos(t, q) = LineStart(s, c, k)
      <3> HIDE DEF p, v
      <3> QED BY <1>1, <1>5, <2>5
    <2>7. k \in 0..n
      BY <1>1, <1>4, SMTT(20) DEF k
    <2>8. Started(s, t, c, q.parser)
      BY <1>1, <2>3, <2>4, <2>7 DEF Started
    <2>9. InFront(s, t, ReplyPos(t, q), c, q.parser)
      BY <2>3, <2>4, <2>6, <2>8 DEF InFront
    <2> QED BY <2>3, <2>4, <2>9 DEF ElementTaken, k
  <1>9. CASE v <= 0
    <2>1. q = NextIndex(r) /\ Body(v) = 0
      <3>1. q = NextIndex(r)
        BY <1>9 DEF Element
      <3> HIDE DEF v, p, end, k
      <3>2. Body(v) = 0
        BY <1>5, <1>9 DEF Body
      <3> QED BY <3>1, <3>2
    <2>2. Moved(r, r, 0)
      BY <1>2, ReplyParseFields DEF Moved
    <2> QED BY <1>2, <1>8, <2>1, <2>2
  <1>10. CASE v > 0 /\ u < v + 2
    <2>1. q = [r EXCEPT !.err = "TryAgain"]
      BY <1>5, <1>10 DEF Element, ElementBytes
    <2>2. q.err = "TryAgain" /\ q.parser = r.parser /\ Moved(r, q, 0)
      BY <1>2, <2>1, ReplyParseFields DEF Moved, ReplyParse
    <2>3. ReplyPos(t, q) = ReplyPos(t, r)
      <3>1. ReplyPos(t, q) = ReplyPos(t, r) + 0
        BY <1>2, <1>3, <2>2, MovedPos
      <3> QED BY <1>2, <3>1 DEF ReplyView
    <2>4. Inside(s, t, ReplyPos(t, q), c, q.parser)
      BY <1>10, <2>2, <2>3 DEF Inside
    <2>5. t < end
      <3>1. Body(v) = v + 2
        BY <1>10 DEF Body
      <3> HIDE DEF v, u, p, end
      <3> QED BY <1>5, <1>6, <1>7, <1>10, <3>1
    <2>6. Waits(s, t, c, q.parser, q.err)
      BY <1>1, <2>2, <2>5 DEF Waits
    <2> QED BY <2>2, <2>4, <2>6 DEF ElementTaken
  <1>11. CASE v > 0 /\ ~(u < v + 2)
    <2> DEFINE m == AppendBuffer(r.heap, r.resp, Offset(r.input, r.at, 0), v + 2)
               e == Received(r, m, v + 2)
    <2>1. q = NextIndex(e) /\ Body(v) = v + 2
      <3>1. ~(v <= 0)
        <4> HIDE DEF v
        <4> QED BY <1>5, <1>11
      <3>2. q = ElementBytes(r, v + 2)
        BY <3>1 DEF Element
      <3> HIDE DEF v
      <3>3. q = NextIndex(e)
        BY <1>11, <3>2 DEF ElementBytes
      <3> QED BY <1>11, <3>3 DEF Body
    <2> HIDE DEF m
    <2>2. v + 2 \in Nat
      BY <1>5, <2>1
    <2>7. v + 2 \in 1..u
      <3> HIDE DEF v, u
      <3> QED BY <1>5, <1>7, <1>11
    <2>3. Moved(r, e, v + 2) /\ e.parser = r.parser /\ e.err = "OK" /\ e \in ReplyParse
      <3>1. r.resp.data # Null /\ v + 2 \in 1..Len(Unread(r))
        <4>1. v # 0
          BY <1>11
        <4>2. r.resp.data # Null
          BY <4>1 DEF Apart
        <4> QED BY <2>7, <4>2
      <3>2. Good(z, e)
        BY <1>2, <3>1, BytesReceived DEF m
      <3> HIDE DEF e
      <3>3. e \in ReplyParse
        BY <3>2 DEF Good
      <3>4. Moved(r, e, v + 2) /\ e.parser = r.parser /\ e.err = r.err
        BY <1>2, <2>2, ReceivedMoves DEF e
      <3> QED BY <3>3, <3>4
    <2> QED BY <1>8, <2>1, <2>3
  <1> QED BY <1>5, <1>7, <1>9, <1>10, <1>11

\* The parse is further, by bytes of the input that only respBuffer_ took.
Onward(r, q) ==
  /\ q.input = r.input /\ q.send = r.send /\ q.handed = r.handed /\ q.stop = r.stop
  /\ q.at >= r.at

LEMMA OnwardTwice ==
  ASSUME NEW r, r.at \in Nat, NEW q, q.at \in Nat, NEW p, p.at \in Nat, Onward(r, q), Onward(q, p)
  PROVE  Onward(r, p)
  BY DEF Onward

LEMMA MovedOnward ==
  ASSUME NEW r, r.at \in Nat, NEW q, NEW n \in Nat, Moved(r, q, n)
  PROVE  Onward(r, q) /\ q.at = r.at + n
  BY DEF Moved, Onward

\* A turn of the loop over the elements.
Turn(s, t, c, r, q) ==
  /\ Onward(r, q) /\ q.parser.mlen = r.parser.mlen
  /\ Inside(s, t, ReplyPos(t, q), c, q.parser)
  /\ q.err = "OK" => /\ q.parser.mindex = r.parser.mindex + 1
                     /\ q.at >= r.at + 1
  /\ q.err # "OK" => Waits(s, t, c, q.parser, q.err)

LEMMA NextElementRead ==
  ASSUME NEW s \in Streams, NEW g \in Nat, NEW t \in Nat, g <= t, t <= Len(Bytes[s]),
         NEW r, Good(SubSeq(Bytes[s], g + 1, t), r), Apart(r), r.err = "OK", NEW c,
         Inside(s, t, ReplyPos(t, r), c, r.parser), r.parser.mindex < r.parser.mlen,
         NEW q, q = NextElement(r)
  PROVE  Turn(s, t, c, r, q)
  <1> DEFINE e == ElementLength(r)
  <1>1. q = Element(e)
    BY DEF NextElement
  <1>2. Good(SubSeq(Bytes[s], g + 1, t), e) /\ Apart(e)
    BY ElementLengthGood
  <1>3. Good(SubSeq(Bytes[s], g + 1, t), q) /\ Apart(q)
    BY <1>1, <1>2, ElementGood
  <1>4. /\ r.at \in Nat /\ r.parser.mindex \in Nat /\ e.at \in Nat /\ e.parser.blen \in Int
        /\ q.at \in Nat
    <2>1. r \in ReplyParse /\ e \in ReplyParse /\ q \in ReplyParse
      BY <1>2, <1>3 DEF Good
    <2> HIDE DEF e
    <2> QED BY <2>1, ReplyParseFields
  <1> HIDE DEF e
  <1>5. Body(e.parser.blen) \in Nat
    BY <1>4 DEF Body
  <1>6. ASSUME e.err = "OK", Behind(s, t, ReplyPos(t, e), c, e.parser), Onward(r, e),
               e.at > r.at \/ e.parser.blen > 0,
               e.parser.mindex = r.parser.mindex, e.parser.mlen = r.parser.mlen
        PROVE  Turn(s, t, c, r, q)
    <2>1. ElementTaken(s, t, c, e, q)
      BY <1>1, <1>2, <1>6, ElementRead
    <2>2. CASE q.err = "OK"
      <3>1. /\ InFront(s, t, ReplyPos(t, q), c, q.parser)
            /\ Moved(e, q, Body(e.parser.blen))
            /\ q.parser.mindex = r.parser.mindex + 1 /\ q.parser.mlen = r.parser.mlen
        BY <1>6, <2>1, <2>2 DEF ElementTaken
      <3>2. Onward(e, q) /\ q.at = e.at + Body(e.parser.blen)
        BY <1>4, <1>5, <3>1, MovedOnward
      <3>3. Onward(r, q)
        BY <1>4, <1>6, <3>2, OnwardTwice
      <3>4. q.at >= r.at + 1
        <4>1. e.at >= r.at
          BY <1>6 DEF Onward
        <4>2. CASE e.at > r.at
          BY <1>4, <1>5, <3>2, <4>2
        <4>3. CASE e.parser.blen > 0
          <5>1. Body(e.parser.blen) = e.parser.blen + 2
            BY <4>3 DEF Body
          <5> QED BY <1>4, <3>2, <4>1, <4>3, <5>1, SMTT(20)
        <4> QED BY <1>6, <4>2, <4>3
      <3> QED BY <2>2, <3>1, <3>3, <3>4 DEF Turn, Inside
    <2>3. CASE q.err # "OK"
      <3>1. /\ Inside(s, t, ReplyPos(t, q), c, q.parser) /\ Moved(e, q, 0)
            /\ Waits(s, t, c, q.parser, q.err) /\ q.parser.mlen = r.parser.mlen
        BY <1>6, <2>1, <2>3 DEF ElementTaken
      <3>2. Onward(e, q)
        BY <1>4, <3>1, MovedOnward
      <3>3. Onward(r, q)
        BY <1>4, <1>6, <3>2, OnwardTwice
      <3> QED BY <2>3, <3>1, <3>3 DEF Turn
    <2> QED BY <2>2, <2>3
  <1>7. CASE InFront(s, t, ReplyPos(t, r), c, r.parser)
    <2>1. LengthRead(s, t, c, r, e)
      BY <1>7, ElementLengthRead DEF e
    <2>2. CASE e.err = "OK"
      <3>1. /\ Behind(s, t, ReplyPos(t, e), c, e.parser) /\ Moved(r, e, 2)
            /\ e.parser.mindex = r.parser.mindex /\ e.parser.mlen = r.parser.mlen
        BY <2>1, <2>2 DEF LengthRead
      <3>2. Onward(r, e) /\ e.at = r.at + 2
        BY <1>4, <3>1, MovedOnward
      <3>3. e.at > r.at
        BY <1>4, <3>2
      <3> QED BY <1>6, <2>2, <3>1, <3>2, <3>3
    <2>3. CASE e.err # "OK"
      <3>1. /\ InFront(s, t, ReplyPos(t, e), c, e.parser) /\ Moved(r, e, 0)
            /\ Waits(s, t, c, e.parser, e.err)
            /\ e.parser.mlen = r.parser.mlen
        BY <2>1, <2>3 DEF LengthRead
      <3>2. q = e
        BY <1>1, <2>3 DEF Element
      <3>3. Onward(r, e)
        BY <1>4, <3>1, MovedOnward
      <3> QED BY <2>3, <3>1, <3>2, <3>3 DEF Turn, Inside
    <2> QED BY <2>2, <2>3
  <1>8. CASE Behind(s, t, ReplyPos(t, r), c, r.parser) /\ r.parser.blen > 0
    <2>1. e = r
      BY <1>8 DEF e, ElementLength
    <2>2. Onward(r, r)
      BY <1>4 DEF Onward
    <2> QED BY <1>6, <1>8, <2>1, <2>2
  <1> QED BY <1>7, <1>8 DEF Inside

\* What the loop has read behind its k-th turn.
TurnsRead(s, z, t, c, r, k, q) ==
  /\ Good(z, q) /\ Apart(q)
  /\ Onward(r, q) /\ q.parser.mlen = r.parser.mlen
  /\ Inside(s, t, ReplyPos(t, q), c, q.parser)
  /\ q.err = "OK" => /\ q.parser.mindex = r.parser.mindex + k
                     /\ q.at >= r.at + k
  /\ q.err # "OK" => Waits(s, t, c, q.parser, q.err)

LEMMA TurnRead ==
  ASSUME NEW s \in Streams, NEW g \in Nat, NEW t \in Nat, g <= t, t <= Len(Bytes[s]),
         NEW r, r \in ReplyParse, NEW c, NEW k \in Nat, k + r.parser.mindex < r.parser.mlen, NEW q,
         TurnsRead(s, SubSeq(Bytes[s], g + 1, t), t, c, r, k, q)
  PROVE  TurnsRead(s, SubSeq(Bytes[s], g + 1, t), t, c, r, k + 1, NextElement(q))
  <1> DEFINE z == SubSeq(Bytes[s], g + 1, t)
             e == NextElement(q)
  <1>1. CASE q.err # "OK"
    <2>1. e = q
      BY <1>1 DEF NextElement
    <2> QED BY <1>1, <2>1 DEF TurnsRead
  <1>2. CASE q.err = "OK"
    <2>1. /\ Good(z, q) /\ Apart(q) /\ Onward(r, q) /\ q.parser.mlen = r.parser.mlen
          /\ Inside(s, t, ReplyPos(t, q), c, q.parser)
          /\ q.parser.mindex = r.parser.mindex + k /\ q.at >= r.at + k
      BY <1>2 DEF TurnsRead
    <2>2. Good(z, e) /\ Apart(e)
      BY <2>1, NextElementGood
    <2> HIDE DEF e
    <2>3. q.at \in Nat /\ e.at \in Nat /\ r.at \in Nat /\ r.parser.mindex \in Nat
          /\ r.parser.mlen \in Int
      <3>1. r \in ReplyParse /\ e \in ReplyParse /\ q \in ReplyParse
        BY <2>1, <2>2 DEF Good
      <3> QED BY <3>1, ReplyParseFields
    <2>4. q.parser.mindex < q.parser.mlen
      BY <2>1, <2>3
    <2>5. Turn(s, t, c, q, e)
      BY <1>2, <2>1, <2>4, NextElementRead DEF e
    <2>6. /\ Onward(q, e) /\ e.parser.mlen = r.parser.mlen
          /\ Inside(s, t, ReplyPos(t, e), c, e.parser)
          /\ e.err = "OK" => e.parser.mindex = q.parser.mindex + 1 /\ e.at >= q.at + 1
          /\ e.err # "OK" => Waits(s, t, c, e.parser, e.err)
      BY <2>1, <2>5 DEF Turn
    <2>7. Onward(r, e)
      BY <2>1, <2>3, <2>6, OnwardTwice
    <2>8. e.err = "OK" => e.parser.mindex = r.parser.mindex + (k + 1) /\ e.at >= r.at + (k + 1)
      <3> DEFINE i == r.parser.mindex
                 j == e.parser.mindex
                 a == r.at
                 b == e.at
      <3>1. e.err = "OK" => j = (i + k) + 1 /\ b >= q.at + 1
        BY <2>1, <2>6
      <3>2. i \in Nat /\ a \in Nat /\ b \in Nat /\ q.at \in Nat /\ q.at >= a + k
        BY <2>1, <2>3
      <3> HIDE DEF i, j, a, b
      <3>3. e.err = "OK" => j = i + (k + 1) /\ b >= a + (k + 1)
        BY <3>1, <3>2
      <3> QED BY <3>3 DEF i, j, a, b
    <2>9. TurnsRead(s, z, t, c, r, k + 1, e)
      <3> HIDE DEF z
      <3> QED BY <2>2, <2>6, <2>7, <2>8 DEF TurnsRead
    <2> QED BY <2>9 DEF e
  <1> QED BY <1>1, <1>2

\* What the loop has read of reply c.
ElementsTaken(s, t, c, r, q) ==
  /\ Onward(r, q)
  /\ q.err = "OK" => ReplyPos(t, q) = Done(s, c) /\ q.at > r.at
  /\ q.err # "OK" => /\ Inside(s, t, ReplyPos(t, q), c, q.parser)
                     /\ Waits(s, t, c, q.parser, q.err)

LEMMA ElementsRead ==
  ASSUME NEW s \in Streams, NEW g \in Nat, NEW t \in Nat, g <= t, t <= Len(Bytes[s]),
         NEW r, Good(SubSeq(Bytes[s], g + 1, t), r), Apart(r), r.err = "OK", NEW c,
         Inside(s, t, ReplyPos(t, r), c, r.parser), r.parser.mindex < r.parser.mlen,
         NEW q, q = Elements(r)
  PROVE  ElementsTaken(s, t, c, r, q)
  <1> DEFINE z == SubSeq(Bytes[s], g + 1, t)
             n == Left(r)
             W == {x \in Nat \X ReplyParse : TurnsRead(s, z, t, c, r, x[1], x[2])}
  <1>1. r \in ReplyParse /\ r.at \in Nat /\ r.parser.mindex \in Nat /\ r.parser.mlen \in Int
    <2>1. r \in ReplyParse
      BY DEF Good
    <2> QED BY <2>1, ReplyParseFields
  <1>2. n \in Nat \ {0} /\ r.parser.mindex + n = r.parser.mlen
    <2> DEFINE i == r.parser.mindex
               m == r.parser.mlen
    <2>1. n = IF m > i THEN m - i ELSE 0
      BY DEF Left
    <2>2. i \in Nat /\ m \in Int /\ i < m
      BY <1>1
    <2> HIDE DEF i, m, n
    <2>3. n \in Nat \ {0} /\ i + n = m
      BY <2>1, <2>2
    <2> QED BY <2>3 DEF i, m
  <1>3. PICK f : Turns(f, r, n) /\ q = f[n]
    BY ElementTurns
  <1> HIDE DEF n
  <1>4. <<0, f[0]>> \in W
    <2>1. Onward(r, r) /\ r.parser.mindex + 0 = r.parser.mindex /\ r.at + 0 = r.at
          /\ r.at >= r.at
      BY <1>1 DEF Onward
    <2>2. TurnsRead(s, z, t, c, r, 0, r)
      <3> HIDE DEF z
      <3> QED BY <1>1, <2>1 DEF TurnsRead, z
    <2> QED BY <1>1, <1>3, <2>2 DEF Turns
  <1>5. ASSUME NEW k \in 1..n, <<k - 1, f[k - 1]>> \in W PROVE <<k, f[k]>> \in W
    <2> DEFINE p == f[k - 1]
               j == k - 1
    <2>1. j \in Nat /\ j + 1 = k /\ j + r.parser.mindex < r.parser.mlen
      BY <1>1, <1>2, <1>5
    <2>2. TurnsRead(s, z, t, c, r, j, p)
      BY <1>5
    <2>3. f[k] = NextElement(p)
      BY <1>3, <1>5 DEF Turns
    <2> HIDE DEF p, j
    <2>4. TurnsRead(s, z, t, c, r, j + 1, NextElement(p))
      BY <1>1, <2>1, <2>2, TurnRead
    <2>5. TurnsRead(s, z, t, c, r, k, f[k])
      BY <2>1, <2>3, <2>4
    <2>6. f[k] \in ReplyParse /\ k \in Nat
      BY <1>2, <1>5, <2>5 DEF TurnsRead, Good
    <2> QED BY <2>5, <2>6
  <1>6. <<n, f[n]>> \in W
    <2> HIDE DEF W
    <2> QED BY <1>2, <1>4, <1>5, StepInvariance
  <1>7. TurnsRead(s, z, t, c, r, n, q)
    BY <1>3, <1>6
  <1> HIDE DEF W, z
  <1>8. CASE q.err # "OK"
    BY <1>7, <1>8 DEF TurnsRead, ElementsTaken
  <1>9. CASE q.err = "OK"
    <2>1. /\ Onward(r, q) /\ Inside(s, t, ReplyPos(t, q), c, q.parser)
          /\ q.parser.mindex = r.parser.mlen /\ q.parser.mlen = r.parser.mlen
          /\ q.at >= r.at + n /\ Good(z, q)
      BY <1>2, <1>7, <1>9 DEF TurnsRead
    <2>2. q.at > r.at
      <3>1. q.at \in Nat
        BY <2>1, ReplyParseFields DEF Good
      <3> QED BY <1>1, <1>2, <2>1, <3>1
    <2>3. InFront(s, t, ReplyPos(t, q), c, q.parser)
      BY <1>1, <2>1 DEF Inside, Behind
    <2>4. c \in 1..Len(s) /\ ReplyPos(t, q) = LineStart(s, c, Len(s[c].elements))
      BY <2>1, <2>3 DEF InFront, Started
    <2>5. ReplyPos(t, q) = Done(s, c)
      BY <2>4, DoneAt
    <2> QED BY <1>9, <2>1, <2>2, <2>5 DEF ElementsTaken
  <1> QED BY <1>8, <1>9

\* There are no elements to read.
LEMMA NoElements ==
  ASSUME NEW z, NEW r, Good(z, r), Apart(r), r.parser.mlen = 0, r.parser.mindex = 0
  PROVE  Elements(r) = r
  <1>1. Left(r) = 0
    BY DEF Left
  <1>2. PICK f : Turns(f, r, 0) /\ Elements(r) = f[0]
    BY <1>1, ElementTurns
  <1> QED BY <1>2 DEF Turns

TypeOf(s, c) == IF s[c].kind = "line" THEN "inline" ELSE "multibulk"

\* Nothing of reply c is read.
AtStart(s, p, c, ps) ==
  /\ c \in 1..Len(s) /\ ps \in ReplyFields /\ ps.type = TypeOf(s, c)
  /\ ps.mlen = 0 /\ ps.mindex = 0 /\ ps.blen = 0 /\ p = ReplyEnd[s][c - 1]

\* It is the turn of reply c.
Facing(s, t, p, c, ps) ==
  \/ AtStart(s, p, c, ps)
  \/ Inside(s, t, p, c, ps) /\ ps.mindex < ps.mlen

\* Why a parse of reply c failed.
Short(s, t, c, err) ==
  /\ err \in {"TryAgain", "OutOfBound", "unpredictable"}
  /\ err = "OutOfBound" => t \in LineStarts[s]
  /\ Framed(s) => t < ReplyEnd[s][c]

ReplyTaken(s, t, c, r, q) ==
  /\ Onward(r, q)
  /\ q.err = "OK" => ReplyPos(t, q) = Done(s, c) /\ q.at > r.at
  /\ q.err # "OK" => Facing(s, t, ReplyPos(t, q), c, q.parser) /\ Short(s, t, c, q.err)

LEMMA WaitsShort ==
  ASSUME NEW s \in Streams, NEW t, NEW p, NEW c, NEW ps, NEW err, Inside(s, t, p, c, ps),
         Waits(s, t, c, ps, err)
  PROVE  Facing(s, t, p, c, ps) /\ Short(s, t, c, err)
  <1>1. c \in 1..Len(s) /\ ps.mindex \in 0..Len(s[c].elements)
    BY DEF Inside, InFront, Behind, Started
  <1>2. Len(s[c].elements) \in Nat
    BY <1>1, StreamFacts
  <1>3. Framed(s) => Rest(s, c, ps.mindex) = 0
    <2> DEFINE i == ps.mindex
               n == Len(s[c].elements)
    <2>1. i > 0 => i \in 1..n
      BY <1>1, <1>2
    <2> HIDE DEF i
    <2>2. Framed(s) => Rest(s, c, i) = 0
      BY <1>1, <2>1 DEF Framed, Rest
    <2> QED BY <2>2 DEF i
  <1> QED BY <1>3 DEF Waits, Facing, Short

LEMMA ElementsShort ==
  ASSUME NEW s \in Streams, NEW t, NEW c, NEW r, NEW q, ElementsTaken(s, t, c, r, q)
  PROVE  ReplyTaken(s, t, c, r, q)
  BY WaitsShort DEF ElementsTaken, ReplyTaken

\* The same of a parse that had moved on.
LEMMA ReplyTakenOnward ==
  ASSUME NEW s, NEW t, NEW c, NEW r, r.at \in Nat, NEW e, e.at \in Nat, NEW q, q.at \in Nat,
         Onward(r, e), ReplyTaken(s, t, c, e, q)
  PROVE  ReplyTaken(s, t, c, r, q)
  BY DEF Onward, ReplyTaken

OnlyMlen(c, v, q) ==
  /\ q.parser \in ReplyFields /\ q.parser.type = c.parser.type
  /\ q.parser.mlen = v /\ q.parser.mindex = c.parser.mindex
  /\ q.parser.blen = c.parser.blen /\ q.err = c.err /\ Moved(c, q, 0)

LEMMA MlenSet ==
  ASSUME NEW c \in ReplyParse, NEW v \in Int
  PROVE  OnlyMlen(c, v, [c EXCEPT !.parser.mlen = v])
  <1> DEFINE p == [c.parser EXCEPT !.mlen = v]
             q == [c EXCEPT !.parser.mlen = v]
  <1>1. c.parser \in ReplyFields /\ c.at + 0 = c.at
    BY ReplyParseFields
  <1>2. /\ p \in ReplyFields /\ p.type = c.parser.type /\ p.mlen = v
        /\ p.mindex = c.parser.mindex /\ p.blen = c.parser.blen
    BY <1>1, FieldsSet
  <1>3. q = [c EXCEPT !.parser = p]
    BY DEF ReplyParse
  <1> HIDE DEF p, q
  <1>4. /\ q.parser = p /\ q.err = c.err /\ q.input = c.input /\ q.send = c.send
        /\ q.handed = c.handed /\ q.stop = c.stop /\ q.at = c.at
    BY <1>3 DEF ReplyParse
  <1>5. OnlyMlen(c, v, q)
    BY <1>1, <1>2, <1>4 DEF Moved, OnlyMlen
  <1> QED BY <1>5 DEF q

\* The header of a reply is read.
ReplyLengthTaken(s, t, c, r, q) ==
  /\ Onward(r, q)
  /\ \/ q.err = "OK" /\ Inside(s, t, ReplyPos(t, q), c, q.parser) /\ q.parser.mindex < q.parser.mlen
     \/ /\ q.parser.mlen = 0 /\ q.parser.mindex = 0
        /\ ReplyTaken(s, t, c, r, q)

LEMMA BulkLengthRead ==
  ASSUME NEW s \in Streams, NEW g \in Nat, NEW t \in Nat, g <= t, t <= Len(Bytes[s]),
         NEW r, Good(SubSeq(Bytes[s], g + 1, t), r), Apart(r), r.err = "OK", NEW c,
         AtStart(s, ReplyPos(t, r), c, r.parser), s[c].kind = "bulk", Len(Unread(r)) # 0,
         NEW q, q = ReplyLength(r)
  PROVE  ReplyLengthTaken(s, t, c, r, q)
  <1> DEFINE z == SubSeq(Bytes[s], g + 1, t)
             u == Len(Unread(r))
             p == ReplyPos(t, r)
             v == s[c].elements[1]
  <1> HIDE DEF z
  <1>1. ReplyView(s, g, t, r) /\ Good(z, r) /\ r \in ReplyParse
    BY ReplyViewFacts DEF z, Good
  <1>2. c \in 1..Len(s) /\ p = ReplyEnd[s][c - 1] /\ r.parser.type = "multibulk"
        /\ r.parser.mlen = 0 /\ r.parser.mindex = 0 /\ r.parser.blen = 0
    BY DEF AtStart, TypeOf
  <1>3. Len(s[c].elements) = 1 /\ LineStart(s, c, 0) = p
    BY <1>2, StreamFacts, HeadAt
  <1>4. Rest(s, c, 0) = 0
    BY DEF Rest
  <1>5. LineAt(s, p, <<"$", v>>)
    <2>1. 0 \in 0..(Len(s[c].elements) - 1) /\ 0 + 1 = 1
      BY <1>3
    <2>2. Begins(s, c, 0, s[c].elements[0 + 1], LineStart(s, c, 0))
      BY <1>2, <1>4, <2>1, ElementAt
    <2> QED BY <1>3, <2>2 DEF Begins
  <1>6. p < t
    <2>1. u \in Nat /\ p \in Nat /\ p + u = t /\ u # 0
      BY <1>1 DEF ReplyView
    <2> HIDE DEF p, u
    <2> QED BY <2>1
  <1>7. Unread(r)[1][1] # "*"
    <2>1. Unread(r)[1] = <<"$", v>>
      <3>1. u >= 1
        <4>1. u \in Nat /\ u # 0
          BY <1>1 DEF ReplyView
        <4> HIDE DEF u
        <4> QED BY <4>1
      <3> QED BY <1>1, <1>5, <3>1, LineHere
    <2> QED BY <2>1
  <1>8. q = [r EXCEPT !.parser.mlen = 1]
    BY <1>2, <1>7 DEF ReplyLength
  <1>9. /\ q.parser \in ReplyFields /\ q.parser.type = "multibulk"
        /\ q.parser.mlen = 1 /\ q.parser.mindex = 0
        /\ q.parser.blen = 0 /\ q.err = "OK" /\ Moved(r, q, 0)
    <2>1. 1 \in Int
      OBVIOUS
    <2>2. OnlyMlen(r, 1, [r EXCEPT !.parser.mlen = 1])
      BY <1>1, <2>1, MlenSet
    <2> QED BY <1>2, <1>8, <2>2 DEF OnlyMlen
  <1>10. Good(z, q)
    BY <1>1, ReplyLengthGood
  <1>11. ReplyPos(t, q) = p
    <2>1. ReplyPos(t, q) = p + 0 /\ p \in Nat
      BY <1>1, <1>9, <1>10, MovedPos DEF ReplyView
    <2> QED BY <2>1
  <1>12. InFront(s, t, ReplyPos(t, q), c, q.parser)
    BY <1>2, <1>3, <1>6, <1>9, <1>11 DEF InFront, Started
  <1>13. Onward(r, q)
    BY <1>1, <1>9, MovedOnward, ReplyParseFields
  <1> QED BY <1>9, <1>12, <1>13 DEF ReplyLengthTaken, Inside

LEMMA ArrayLengthRead ==
  ASSUME NEW s \in Streams, NEW g \in Nat, NEW t \in Nat, g <= t, t <= Len(Bytes[s]),
         NEW r, Good(SubSeq(Bytes[s], g + 1, t), r), Apart(r), r.err = "OK", NEW c,
         AtStart(s, ReplyPos(t, r), c, r.parser), s[c].kind = "array", Len(Unread(r)) # 0,
         NEW q, q = ReplyLength(r)
  PROVE  ReplyLengthTaken(s, t, c, r, q)
  <1> DEFINE z == SubSeq(Bytes[s], g + 1, t)
             w == Unread(r)
             u == Len(w)
             line == LengthLine(w)
             d == Copied(r, line)
             p == ReplyPos(t, r)
             n == Len(s[c].elements)
             x == line.value
             end == ReplyEnd[s][c]
  <1> HIDE DEF z
  <1>1. ReplyView(s, g, t, r) /\ Good(z, r) /\ r \in ReplyParse /\ r.at \in Nat
    <2>1. ReplyView(s, g, t, r) /\ Good(z, r) /\ r \in ReplyParse
      BY ReplyViewFacts DEF z, Good
    <2> QED BY <2>1, ReplyParseFields
  <1>2. /\ c \in 1..Len(s) /\ p = ReplyEnd[s][c - 1] /\ r.parser.type = "multibulk"
        /\ r.parser.mlen = 0 /\ r.parser.mindex = 0 /\ r.parser.blen = 0
        /\ r.parser.type = TypeOf(s, c)
    BY DEF AtStart, TypeOf
  <1>3. /\ LineAt(s, p, <<"*", n>>) /\ LineStart(s, c, 0) = p + 2 /\ p + 2 <= end
        /\ n \in Nat
    BY <1>2, StreamFacts, HeadAt DEF HeadOf
  <1>4. u \in Nat /\ p \in Nat /\ p + u = t /\ u # 0 /\ end \in Nat
    BY <1>1, <1>2, PlaceFacts DEF ReplyView, Places
  <1>5. w[1] = <<"*", n>>
    <2>1. u >= 1
      BY <1>4
    <2> QED BY <1>1, <1>3, <2>1, LineHere
  <1>6. q = ElementCount(r, line)
    BY <1>2, <1>5 DEF ReplyLength
  <1>7. Good(z, q)
    BY <1>1, ReplyLengthGood
  <1> HIDE DEF w, line, d, u
  <1>8. /\ Good(z, d) /\ d.parser = r.parser /\ d.err = line.err /\ line.value \in Int
        /\ line.err # "OK" => line.value = 0
    BY <1>1, CopiedGood DEF line, w, d
  <1>9. d \in ReplyParse /\ x \in Int /\ q = [d EXCEPT !.parser.mlen = x]
    BY <1>6, <1>8 DEF ElementCount, d, Good
  <1> HIDE DEF x
  <1>10. /\ q.parser \in ReplyFields /\ q.parser.type = d.parser.type /\ q.parser.mlen = x
         /\ q.parser.mindex = d.parser.mindex /\ q.parser.blen = d.parser.blen /\ q.err = d.err
         /\ Moved(d, q, 0)
    <2>1. OnlyMlen(d, x, [d EXCEPT !.parser.mlen = x])
      BY <1>9, MlenSet
    <2> QED BY <1>9, <2>1 DEF OnlyMlen
  <1>11. /\ line.err # "OK" => Moved(r, d, 0)
         /\ line.err = "OK" => Moved(r, d, line.bytes)
    BY <1>1, CopiedMoves DEF d
  <1>12. /\ line.err # "OK" => Moved(r, q, 0)
         /\ line.err = "OK" /\ line.bytes = 2 => Moved(r, q, 2)
    BY <1>1, <1>10, <1>11 DEF Moved
  <1>13. /\ u = 1 => line = Fails("TryAgain")
         /\ u >= 2 => line = [err |-> "OK", bytes |-> 2, value |-> n]
    <2>1. "*" \in Headers /\ n \in Int
      BY <1>3 DEF Headers
    <2>2. /\ ReplyView(s, g, t, r) /\ LineAt(s, ReplyPos(t, r), <<"*", n>>)
          /\ u = Len(Unread(r)) /\ line = LengthLine(Unread(r))
      BY <1>1, <1>3 DEF w, line, u
    <2> HIDE DEF p, end, n
    <2>3. /\ u = 0 => line = Fails("OutOfBound")
          /\ u = 1 => line = Fails("TryAgain") /\ Find(Unread(r), Lf) = 0
          /\ u >= 2 => /\ line = [err |-> "OK", bytes |-> 2, value |-> n]
                       /\ Find(Unread(r), Lf) = 2
      BY <2>1, <2>2, LengthLineHere
    <2> QED BY <2>3
  <1>14. CASE u = 1
    <2>1. line.err = "TryAgain" /\ x = 0
      BY <1>13, <1>14 DEF Fails, x
    <2>2. q.err = "TryAgain" /\ Moved(r, q, 0)
      BY <1>8, <1>10, <1>12, <2>1
    <2>3. ReplyPos(t, q) = p
      <3>1. ReplyPos(t, q) = p + 0
        BY <1>1, <1>7, <2>2, MovedPos
      <3> QED BY <1>4, <3>1
    <2>4. AtStart(s, ReplyPos(t, q), c, q.parser)
      BY <1>2, <1>8, <1>10, <2>1, <2>3 DEF AtStart
    <2>5. Onward(r, q)
      BY <1>1, <2>2, MovedOnward
    <2>6. t < end
      <3> HIDE DEF p, end
      <3> QED BY <1>3, <1>4, <1>14
    <2>7. ReplyTaken(s, t, c, r, q)
      BY <2>2, <2>4, <2>5, <2>6 DEF ReplyTaken, Facing, Short
    <2> QED BY <1>2, <1>8, <1>10, <2>1, <2>5, <2>7 DEF ReplyLengthTaken
  <1>15. CASE u >= 2
    <2>1. line.err = "OK" /\ line.bytes = 2 /\ x = n
      BY <1>13, <1>15 DEF x
    <2>2. q.err = "OK" /\ Moved(r, q, 2)
      BY <1>8, <1>10, <1>12, <2>1
    <2>3. ReplyPos(t, q) = LineStart(s, c, 0)
      <3>1. ReplyPos(t, q) = p + 2
        BY <1>1, <1>7, <2>2, MovedPos
      <3> QED BY <1>3, <3>1
    <2>4. Onward(r, q) /\ q.at = r.at + 2
      BY <1>1, <2>2, MovedOnward
    <2>5. CASE n = 0
      <3>1. ReplyPos(t, q) = Done(s, c)
        BY <1>2, <2>3, <2>5, DoneAt
      <3>2. q.at > r.at
        BY <1>1, <2>4
      <3>3. ReplyTaken(s, t, c, r, q)
        BY <2>2, <2>4, <3>1, <3>2 DEF ReplyTaken
      <3> QED BY <1>2, <1>8, <1>10, <2>1, <2>4, <2>5, <3>3 DEF ReplyLengthTaken
    <2>6. CASE n # 0
      <3>1. ReplyEnd[s][c - 1] < t
        <4>1. p < t
          <5> HIDE DEF p
          <5> QED BY <1>4
        <4> QED BY <1>2, <4>1
      <3>2. q.parser.mindex = 0 /\ q.parser.mlen = n /\ q.parser.type = "multibulk"
            /\ q.parser.blen = 0 /\ q.parser \in ReplyFields
        BY <1>2, <1>8, <1>10, <2>1
      <3>3. Started(s, t, c, q.parser)
        BY <1>2, <1>3, <3>1, <3>2 DEF Started
      <3>4. InFront(s, t, ReplyPos(t, q), c, q.parser)
        BY <2>3, <3>2, <3>3 DEF InFront
      <3>5. q.parser.mindex < q.parser.mlen
        BY <1>3, <2>6, <3>2
      <3> QED BY <2>2, <2>4, <3>4, <3>5 DEF ReplyLengthTaken, Inside
    <2> QED BY <2>5, <2>6
  <1>16. u = 1 \/ u >= 2
    BY <1>4
  <1> QED BY <1>14, <1>15, <1>16

LEMMA OnwardPos ==
  ASSUME NEW z, NEW r, Good(z, r), NEW q, Good(z, q), Onward(r, q), NEW t \in Nat
  PROVE  /\ ReplyPos(t, q) = ReplyPos(t, r) + (q.at - r.at) /\ q.at \in Nat /\ r.at \in Nat
         /\ ReplyPos(t, r) \in Int
  <1>1. q.at \in Nat /\ r.at \in Nat
    BY ReplyUnreadFacts
  <1> DEFINE n == q.at - r.at
  <1>2. Moved(r, q, n) /\ n \in Int
    BY <1>1 DEF Onward, Moved
  <1>3. ReplyPos(t, r) \in Int
    <2>1. Len(Unread(r)) \in Nat
      BY ReplyUnreadFacts
    <2> QED BY <2>1 DEF ReplyPos
  <1> HIDE DEF n
  <1>4. ReplyPos(t, q) = ReplyPos(t, r) + n
    BY <1>2, MovedPos
  <1> QED BY <1>1, <1>3, <1>4 DEF n

LEMMA MultibulkReplyRead ==
  ASSUME NEW s \in Streams, NEW g \in Nat, NEW t \in Nat, g <= t, t <= Len(Bytes[s]),
         NEW r, Good(SubSeq(Bytes[s], g + 1, t), r), Apart(r), r.err = "OK", NEW c,
         Facing(s, t, ReplyPos(t, r), c, r.parser), s[c].kind # "line", Len(Unread(r)) # 0,
         NEW q, q = MultibulkReply(r)
  PROVE  ReplyTaken(s, t, c, r, q)
  <1> DEFINE z == SubSeq(Bytes[s], g + 1, t)
             e == ReplyLength(r)
  <1>1. q = Elements(e)
    BY DEF MultibulkReply
  <1>2. Good(z, e) /\ Apart(e)
    BY ReplyLengthGood
  <1>3. Good(z, q)
    BY <1>1, <1>2, ElementsGood
  <1>4. r.at \in Nat /\ e.at \in Nat /\ q.at \in Nat
    <2>1. r \in ReplyParse /\ e \in ReplyParse /\ q \in ReplyParse
      BY <1>2, <1>3 DEF Good
    <2> HIDE DEF e
    <2> QED BY <2>1, ReplyParseFields
  <1> HIDE DEF e
  <1>5. ASSUME e.err = "OK", Inside(s, t, ReplyPos(t, e), c, e.parser),
               e.parser.mindex < e.parser.mlen, Onward(r, e)
        PROVE  ReplyTaken(s, t, c, r, q)
    <2>1. ElementsTaken(s, t, c, e, q)
      BY <1>1, <1>2, <1>5, ElementsRead
    <2>2. ReplyTaken(s, t, c, e, q)
      BY <2>1, ElementsShort
    <2> QED BY <1>4, <1>5, <2>2, ReplyTakenOnward
  <1>6. CASE Inside(s, t, ReplyPos(t, r), c, r.parser) /\ r.parser.mindex < r.parser.mlen
    <2>1. r.parser.mlen # 0
      <3>1. r.parser.mindex \in Nat
        BY <1>6 DEF Inside, InFront, Behind, Started, ReplyFields
      <3> QED BY <1>6, <3>1
    <2>2. e = r
      BY <2>1 DEF e, ReplyLength
    <2>3. Onward(r, r)
      BY <1>4 DEF Onward
    <2> QED BY <1>5, <1>6, <2>2, <2>3
  <1>7. CASE AtStart(s, ReplyPos(t, r), c, r.parser)
    <2>1. c \in 1..Len(s)
      BY <1>7 DEF AtStart
    <2>2. ReplyLengthTaken(s, t, c, r, e)
      <3>1. CASE s[c].kind = "bulk"
        BY <1>7, <3>1, BulkLengthRead DEF e
      <3>2. CASE s[c].kind = "array"
        BY <1>7, <3>2, ArrayLengthRead DEF e
      <3> QED BY <2>1, <3>1, <3>2, StreamFacts
    <2>3. CASE /\ e.err = "OK" /\ Inside(s, t, ReplyPos(t, e), c, e.parser)
               /\ e.parser.mindex < e.parser.mlen
      BY <1>5, <2>2, <2>3 DEF ReplyLengthTaken
    <2>4. CASE /\ e.parser.mlen = 0 /\ e.parser.mindex = 0
               /\ ReplyTaken(s, t, c, r, e)
      BY <1>1, <1>2, <2>4, NoElements
    <2> QED BY <2>2, <2>3, <2>4 DEF ReplyLengthTaken
  <1> QED BY <1>6, <1>7 DEF Facing

LEMMA InlineReplyRead ==
  ASSUME NEW s \in Streams, NEW g \in Nat, NEW t \in Nat, g <= t, t <= Len(Bytes[s]),
         NEW r, Good(SubSeq(Bytes[s], g + 1, t), r), Apart(r), r.err = "OK", NEW c,
         AtStart(s, ReplyPos(t, r), c, r.parser), s[c].kind = "line", Len(Unread(r)) # 0,
         NEW q, q = InlineReply(r)
  PROVE  ReplyTaken(s, t, c, r, q)
  <1> DEFINE z == SubSeq(Bytes[s], g + 1, t)
             u == Len(Unread(r))
             n == Find(Unread(r), Lf)
             p == ReplyPos(t, r)
             end == ReplyEnd[s][c]
  <1> HIDE DEF z
  <1>1. ReplyView(s, g, t, r) /\ Good(z, r) /\ r \in ReplyParse /\ r.at \in Nat
    <2>1. ReplyView(s, g, t, r) /\ Good(z, r) /\ r \in ReplyParse
      BY ReplyViewFacts DEF z, Good
    <2> QED BY <2>1, ReplyParseFields
  <1>2. c \in 1..Len(s) /\ p = ReplyEnd[s][c - 1]
    BY DEF AtStart
  <1>3. LineAt(s, p, <<"+", c>>) /\ end = p + 2
    BY <1>2, HeadAt DEF HeadOf
  <1>4. u \in Nat /\ p \in Nat /\ p + u = t /\ u # 0 /\ end \in Nat
    BY <1>1, <1>2, PlaceFacts DEF ReplyView, Places
  <1>5. Good(z, q)
    BY <1>1, InlineReplyGood
  <1>6. q = LineReply(r, n)
    BY DEF InlineReply
  <1>7. /\ u = 1 => n = 0
        /\ u >= 2 => n = 2
    <2>1. "+" \in Headers /\ c \in Int
      BY <1>2 DEF Headers
    <2>2. ReplyView(s, g, t, r) /\ LineAt(s, ReplyPos(t, r), <<"+", c>>)
      BY <1>1, <1>3
    <2> HIDE DEF p, end, u, n
    <2>3. /\ Len(Unread(r)) = 1 => Find(Unread(r), Lf) = 0
          /\ Len(Unread(r)) >= 2 => Find(Unread(r), Lf) = 2
      <3> DEFINE line == LengthLine(Unread(r))
      <3>1. u = Len(Unread(r)) /\ line = LengthLine(Unread(r))
        BY DEF u
      <3> HIDE DEF line
      <3>2. /\ u = 0 => line = Fails("OutOfBound")
            /\ u = 1 => line = Fails("TryAgain") /\ Find(Unread(r), Lf) = 0
            /\ u >= 2 => /\ line = [err |-> "OK", bytes |-> 2, value |-> c]
                         /\ Find(Unread(r), Lf) = 2
        BY <2>1, <2>2, <3>1, LengthLineHere
      <3> QED BY <3>1, <3>2
    <2> QED BY <2>3 DEF n, u
  <1>8. CASE u = 1
    <2>1. q = [r EXCEPT !.err = "TryAgain"]
      BY <1>6, <1>7, <1>8 DEF LineReply
    <2>2. q.err = "TryAgain" /\ q.parser = r.parser /\ Moved(r, q, 0)
      BY <1>1, <2>1 DEF Moved, ReplyParse
    <2>3. ReplyPos(t, q) = p
      <3>1. ReplyPos(t, q) = p + 0
        BY <1>1, <1>5, <2>2, MovedPos
      <3> QED BY <1>4, <3>1
    <2>4. Onward(r, q)
      BY <1>1, <2>2, MovedOnward
    <2>5. t < end
      <3> HIDE DEF p, end, u
      <3> QED BY <1>3, <1>4, <1>8
    <2> QED BY <2>2, <2>3, <2>4, <2>5 DEF ReplyTaken, Facing, Short
  <1>9. CASE u >= 2
    <2> DEFINE m == AppendBuffer(r.heap, r.resp, Offset(r.input, r.at, 0), 2)
    <2>1. q = Received(r, m, 2)
      BY <1>6, <1>7, <1>9 DEF LineReply
    <2> HIDE DEF m
    <2>2. Moved(r, q, 2) /\ q.err = "OK"
      BY <1>1, <2>1, ReceivedMoves
    <2>3. ReplyPos(t, q) = end
      BY <1>1, <1>3, <1>5, <2>2, MovedPos
    <2>4. Onward(r, q) /\ q.at > r.at
      BY <1>1, <2>2, MovedOnward
    <2>5. Done(s, c) = end
      <3>1. Len(s[c].elements) = 0
        BY <1>2, StreamFacts
      <3>2. Unskipped(s, c) = 0
        BY <3>1 DEF Unskipped, Rest
      <3> QED BY <1>2, <3>2, DoneAt
    <2> QED BY <2>2, <2>3, <2>4, <2>5 DEF ReplyTaken
  <1>10. u = 1 \/ u >= 2
    <2> HIDE DEF p, end, u
    <2> QED BY <1>4
  <1> QED BY <1>8, <1>9, <1>10

\* What was read is dropped, and the parser stands where it stood.
LEMMA ConsumedStands ==
  ASSUME NEW z, NEW r, Good(z, r), NEW q, q = Consumed(r), NEW t
  PROVE  /\ ReplyPos(t, q) = ReplyPos(t, r) /\ q.parser = r.parser /\ q.err = r.err
         /\ q.send = r.send /\ q.handed = r.handed /\ q.stop = r.stop
  <1> DEFINE b == Offset(r.input, r.at, 0)
  <1>1. r \in ReplyParse /\ Size(b) = Len(Unread(r))
    BY RestFacts DEF Good
  <1>2. q = [r EXCEPT !.input = b, !.at = 0]
    BY <1>1 DEF Consumed, ReplyParse
  <1> HIDE DEF b
  <1>3. /\ q.input = b /\ q.at = 0 /\ q.parser = r.parser /\ q.err = r.err
        /\ q.send = r.send /\ q.handed = r.handed /\ q.stop = r.stop
    BY <1>1, <1>2 DEF ReplyParse
  <1>4. Good(z, q)
    BY ConsumedGood
  <1>5. Len(Unread(q)) = Size(b) - 0 /\ Size(b) \in Nat
    BY <1>3, <1>4, ReplyUnreadFacts
  <1>6. Len(Unread(q)) = Len(Unread(r))
    BY <1>1, <1>5
  <1> QED BY <1>3, <1>6 DEF ReplyPos

\* Between two replies; the type of the next may be known already.
Fresh(s, p, h, ps) ==
  /\ h \in 0..Len(s) /\ p = Done(s, h) /\ ps \in ReplyFields
  /\ ps.mlen = 0 /\ ps.mindex = 0 /\ ps.blen = 0
  /\ ps.type # "none" => /\ h < Len(s) /\ Unskipped(s, h) = 0
                         /\ ps.type = TypeOf(s, h + 1)

\* What the parser knows between two reads, when h replies were handed out.
Standing(s, t, p, h, ps) ==
  \/ Fresh(s, p, h, ps)
  \/ /\ Inside(s, t, p, h + 1, ps) /\ ps.mindex < ps.mlen
     /\ h \in 0..Len(s) /\ Unskipped(s, h) = 0

\* Why a parse behind h replies failed.
Stuck(s, t, h, err) ==
  /\ err \in {"TryAgain", "OutOfBound", "unpredictable", "Unknown"}
  /\ Done(s, h) < t
  /\ err = "OutOfBound" => t \in LineStarts[s]
  /\ err = "Unknown" <=> Unskipped(s, h) # 0
  /\ Unskipped(s, h) = 0 => h < Len(s) /\ (Framed(s) => t < ReplyEnd[s][h + 1])

ParseTaken(s, t, r, q) ==
  /\ q.send = r.send /\ q.handed = r.handed /\ q.stop = r.stop
  /\ q.err = "OK" => /\ r.handed < Len(s) /\ Unskipped(s, r.handed) = 0
                     /\ ReplyPos(t, q) = Done(s, r.handed + 1) /\ ReplyPos(t, q) > ReplyPos(t, r)
  /\ q.err # "OK" => /\ Standing(s, t, ReplyPos(t, q), r.handed, q.parser)
                     /\ Stuck(s, t, r.handed, q.err)

\* Where the parser may stand between two replies.
LEMMA DoneFacts ==
  ASSUME NEW s \in Streams, NEW h \in 0..Len(s)
  PROVE  /\ Done(s, h) \in Nat /\ ReplyEnd[s][h] \in Nat /\ Unskipped(s, h) \in {0, 2}
         /\ Done(s, h) = ReplyEnd[s][h] - Unskipped(s, h)
         /\ h = Len(s) => ReplyEnd[s][h] = Len(Bytes[s])
         /\ Unskipped(s, h) = 0 => Done(s, h) = ReplyEnd[s][h]
         /\ Unskipped(s, h) # 0 => /\ h \in 1..Len(s) /\ LineAt(s, Done(s, h), Cr)
                                  /\ Done(s, h) >= ReplyEnd[s][h - 1] + 2
  <1>1. /\ Len(s) \in Nat /\ ReplyEnd[s][h] \in Nat
        /\ h = Len(s) => ReplyEnd[s][h] = Len(Bytes[s])
    <2>1. InOrder(s, Bytes[s], ReplyEnd[s], Len(s))
      BY BytesFacts
    <2> QED BY <2>1 DEF InOrder
  <1>2. Unskipped(s, h) \in {0, 2}
    BY DEF Unskipped, Rest
  <1>3. Done(s, h) = ReplyEnd[s][h] - Unskipped(s, h)
    BY DEF Done
  <1>4. CASE Unskipped(s, h) = 0
    BY <1>1, <1>2, <1>3, <1>4
  <1>5. CASE Unskipped(s, h) # 0
    <2>1. h \in 1..Len(s)
      BY <1>1, <1>5 DEF Unskipped
    <2>2. /\ Done(s, h) = LineStart(s, h, Len(s[h].elements))
          /\ Rest(s, h, Len(s[h].elements)) # 0
      BY <1>5, <2>1, DoneAt
    <2>3. Len(s[h].elements) \in 0..Len(s[h].elements)
      BY <2>1, StreamFacts
    <2>4. LineAt(s, Done(s, h), Cr) /\ Done(s, h) >= ReplyEnd[s][h - 1] + 2
      BY <2>1, <2>2, <2>3, RestAt
    <2>5. Done(s, h) \in Nat
      BY <2>4 DEF LineAt
    <2> QED BY <1>1, <1>2, <1>3, <1>5, <2>1, <2>4, <2>5
  <1> QED BY <1>4, <1>5

\* A reply begins with a byte that tells its type.
LEMMA FirstByte ==
  ASSUME NEW s \in Streams, NEW c \in 1..Len(s)
  PROVE  \E h : LineAt(s, ReplyEnd[s][c - 1], h) /\ ReplyType(h) = TypeOf(s, c)
  <1> DEFINE p == ReplyEnd[s][c - 1]
  <1>1. CASE s[c].kind # "bulk"
    <2>1. LineAt(s, p, HeadOf(s, c))
      BY <1>1, HeadAt
    <2>2. ReplyType(HeadOf(s, c)) = TypeOf(s, c)
      BY DEF ReplyType, HeadOf, TypeOf
    <2> QED BY <2>1, <2>2
  <1>2. CASE s[c].kind = "bulk"
    <2> DEFINE v == s[c].elements[0 + 1]
    <2>1. Len(s[c].elements) = 1 /\ LineStart(s, c, 0) = p
      BY <1>2, StreamFacts, HeadAt
    <2>2. 0 \in 0..(Len(s[c].elements) - 1) /\ Rest(s, c, 0) = 0
      BY <2>1 DEF Rest
    <2>3. Begins(s, c, 0, v, LineStart(s, c, 0))
      BY <2>2, ElementAt
    <2>4. LineAt(s, p, <<"$", v>>)
      BY <2>1, <2>3 DEF Begins
    <2>5. ReplyType(<<"$", v>>) = TypeOf(s, c)
      BY <1>2 DEF ReplyType, TypeOf
    <2> QED BY <2>4, <2>5
  <1> QED BY <1>1, <1>2

LEMMA TypedRead ==
  ASSUME NEW z, NEW r, Good(z, r), NEW type \in {"multibulk", "inline"}, NEW q,
         q = Typed(r, type)
  PROVE  /\ Good(z, q) /\ (Apart(r) => Apart(q)) /\ q.err = r.err /\ Moved(r, q, 0)
         /\ r.parser.type # "none" => q = r
         /\ r.parser.type = "none" => /\ q.parser \in ReplyFields /\ q.parser.type = type
                                     /\ q.parser.mlen = r.parser.mlen
                                     /\ q.parser.mindex = r.parser.mindex
                                     /\ q.parser.blen = r.parser.blen
  <1> DEFINE p == [r.parser EXCEPT !.type = IF r.parser.type = "none" THEN type
                                            ELSE r.parser.type]
  <1>1. /\ r \in ReplyParse /\ r.parser \in ReplyFields /\ r.at \in Nat
        /\ r.parser.type \in {"none", "multibulk", "inline"}
    BY ReplyParseFields DEF Good
  <1>2. q = [r EXCEPT !.parser = p]
    BY <1>1 DEF Typed, ReplyParse
  <1>3. /\ p \in ReplyFields /\ p.blen = r.parser.blen /\ p.mlen = r.parser.mlen
        /\ p.mindex = r.parser.mindex
        /\ r.parser.type = "none" => p.type = type
        /\ r.parser.type # "none" => p = r.parser
    BY <1>1 DEF ReplyFields
  <1> HIDE DEF p
  <1>4. Good(z, q) /\ q.parser = p /\ q.err = r.err /\ q.resp = r.resp /\ q.input = r.input
    BY <1>2, <1>3, ParserGood
  <1>5. Moved(r, q, 0)
    BY <1>1, <1>2 DEF Moved, ReplyParse
  <1>6. p = r.parser => q = r
    BY <1>1, <1>2 DEF ReplyParse
  <1>7. Apart(r) => Apart(q)
    BY <1>3, <1>4 DEF Apart
  <1> QED BY <1>3, <1>4, <1>5, <1>6, <1>7

\* A parse of the reply whose turn it is.
LEMMA ReplyParsedRead ==
  ASSUME NEW s \in Streams, NEW g \in Nat, NEW t \in Nat, g <= t, t <= Len(Bytes[s]),
         NEW r, Good(SubSeq(Bytes[s], g + 1, t), r), Apart(r), r.err = "OK",
         r.handed + 1 \in 1..Len(s), r.handed \in 0..Len(s), Unskipped(s, r.handed) = 0,
         Facing(s, t, ReplyPos(t, r), r.handed + 1, r.parser), Len(Unread(r)) # 0,
         NEW q, q = ReplyParsed(r)
  PROVE  ParseTaken(s, t, r, q)
  <1> DEFINE z == SubSeq(Bytes[s], g + 1, t)
             h == r.handed
             c == h + 1
             e == IF r.parser.type = "multibulk" THEN MultibulkReply(r) ELSE InlineReply(r)
  <1>1. q = Consumed(e)
    BY DEF ReplyParsed
  <1>2. c \in 1..Len(s) /\ c - 1 = h /\ h < Len(s)
    BY StreamFacts
  <1> HIDE DEF c
  <1>3. Facing(s, t, ReplyPos(t, r), c, r.parser)
    BY DEF c
  <1>4. Good(z, e) /\ ReplyTaken(s, t, c, r, e)
    <2>1. CASE s[c].kind # "line"
      <3>1. r.parser.type = "multibulk"
        BY <1>3, <2>1 DEF Facing, AtStart, TypeOf, Inside, InFront, Behind, Started
      <3>2. e = MultibulkReply(r)
        BY <3>1
      <3> HIDE DEF e
      <3> QED BY <1>3, <2>1, <3>2, MultibulkReplyRead, MultibulkReplyGood
    <2>2. CASE s[c].kind = "line"
      <3>1. AtStart(s, ReplyPos(t, r), c, r.parser)
        BY <1>3, <2>2 DEF Facing, Inside, InFront, Behind, Started
      <3>2. e = InlineReply(r)
        BY <2>2, <3>1 DEF AtStart, TypeOf
      <3> HIDE DEF e
      <3> QED BY <2>2, <3>1, <3>2, InlineReplyRead, InlineReplyGood
    <2> QED BY <2>1, <2>2
  <1> HIDE DEF e, z
  <1>5. /\ ReplyPos(t, q) = ReplyPos(t, e) /\ q.parser = e.parser /\ q.err = e.err
        /\ q.send = e.send /\ q.handed = e.handed /\ q.stop = e.stop
    BY <1>1, <1>4, ConsumedStands
  <1>6. Onward(r, e) /\ e.send = r.send /\ e.handed = h /\ e.stop = r.stop
    BY <1>4 DEF ReplyTaken, Onward
  <1>7. CASE q.err = "OK"
    <2>1. ReplyPos(t, q) = Done(s, c) /\ e.at > r.at
      BY <1>4, <1>5, <1>7 DEF ReplyTaken
    <2>2. ReplyPos(t, q) > ReplyPos(t, r)
      <3>1. /\ ReplyPos(t, e) = ReplyPos(t, r) + (e.at - r.at) /\ e.at \in Nat /\ r.at \in Nat
            /\ ReplyPos(t, r) \in Int
        BY <1>4, <1>6, OnwardPos DEF z
      <3> DEFINE x == ReplyPos(t, e)
                 y == ReplyPos(t, r)
                 a == e.at
                 b == r.at
      <3>2. x = y + (a - b) /\ a \in Nat /\ b \in Nat /\ y \in Int /\ a > b
        BY <2>1, <3>1
      <3> HIDE DEF x, y, a, b
      <3>3. x > y
        BY <3>2
      <3> QED BY <1>5, <3>3 DEF x, y
    <2> QED BY <1>2, <1>5, <1>6, <1>7, <2>1, <2>2 DEF ParseTaken, c
  <1>8. CASE q.err # "OK"
    <2>1. Facing(s, t, ReplyPos(t, q), c, q.parser) /\ Short(s, t, c, q.err)
      BY <1>4, <1>5, <1>8 DEF ReplyTaken
    <2>2. Standing(s, t, ReplyPos(t, q), h, q.parser)
      <3>1. CASE AtStart(s, ReplyPos(t, q), c, q.parser)
        <4>1. ReplyPos(t, q) = Done(s, h)
          BY <1>2, <3>1, DoneFacts DEF AtStart
        <4>2. Fresh(s, ReplyPos(t, q), h, q.parser)
          BY <1>2, <3>1, <4>1 DEF AtStart, Fresh, c
        <4> QED BY <4>2 DEF Standing
      <3>2. CASE Inside(s, t, ReplyPos(t, q), c, q.parser) /\ q.parser.mindex < q.parser.mlen
        BY <3>2 DEF Standing, c
      <3> QED BY <2>1, <3>1, <3>2 DEF Facing
    <2>3. Done(s, h) < t
      <3>1. Done(s, h) = ReplyEnd[s][h] /\ ReplyEnd[s][h] \in Nat
        BY DoneFacts
      <3>2. CASE AtStart(s, ReplyPos(t, r), c, r.parser)
        <4>1. ReplyPos(t, r) = ReplyEnd[s][h]
          BY <1>2, <3>2 DEF AtStart
        <4>2. Len(Unread(r)) \in Nat /\ ReplyPos(t, r) + Len(Unread(r)) = t
          <5>1. ReplyView(s, g, t, r)
            BY ReplyViewFacts
          <5> QED BY <5>1 DEF ReplyView
        <4> DEFINE u == Len(Unread(r))
                   p == ReplyPos(t, r)
        <4>3. u \in Nat /\ u # 0 /\ p + u = t /\ p = ReplyEnd[s][h]
          BY <4>1, <4>2
        <4> HIDE DEF u, p
        <4> QED BY <3>1, <4>3
      <3>3. CASE Inside(s, t, ReplyPos(t, r), c, r.parser)
        <4>1. ReplyEnd[s][h] < t
          BY <1>2, <3>3 DEF Inside, InFront, Behind, Started
        <4> QED BY <3>1, <4>1
      <3> QED BY <1>3, <3>2, <3>3 DEF Facing
    <2>4. Stuck(s, t, h, q.err)
      BY <1>2, <2>1, <2>3 DEF Short, Stuck, c
    <2> QED BY <1>5, <1>6, <1>8, <2>2, <2>4 DEF ParseTaken
  <1> QED BY <1>7, <1>8

LEMMA ParseResponseRead ==
  ASSUME NEW s \in Streams, NEW g \in Nat, NEW t \in Nat, g <= t, t <= Len(Bytes[s]),
         NEW r, Good(SubSeq(Bytes[s], g + 1, t), r), Apart(r), r.err = "OK",
         Standing(s, t, ReplyPos(t, r), r.handed, r.parser), Len(Unread(r)) # 0,
         NEW q, q = ParseResponse(r)
  PROVE  ParseTaken(s, t, r, q)
  <1> DEFINE z == SubSeq(Bytes[s], g + 1, t)
             u == Len(Unread(r))
             h == r.handed
             p == ReplyPos(t, r)
             first == Unread(r)[1]
             e == Typed(r, ReplyType(first))
  <1> HIDE DEF z
  <1>1. ReplyView(s, g, t, r) /\ Good(z, r) /\ r \in ReplyParse
    BY ReplyViewFacts DEF z, Good
  <1>2. u \in Nat /\ p \in Nat /\ p + u = t /\ u >= 1 /\ p < t
    <2>1. u \in Nat /\ p \in Nat /\ p + u = t /\ u # 0
      BY <1>1 DEF ReplyView
    <2> HIDE DEF p, u
    <2> QED BY <2>1
  <1>3. Unread(r) # <<>>
    <2>1. Unread(r) = <<>> => u = 0
      OBVIOUS
    <2> QED BY <2>1
  <1>4. h \in 0..Len(s)
    BY DEF Standing, Fresh
  <1>5. CASE /\ Inside(s, t, p, h + 1, r.parser) /\ r.parser.mindex < r.parser.mlen
             /\ Unskipped(s, h) = 0
    <2>1. h + 1 \in 1..Len(s) /\ r.parser.type = "multibulk"
      BY <1>5 DEF Inside, InFront, Behind, Started
    <2>2. Typed(r, ReplyType(first)) = r
      <3> HIDE DEF first
      <3>1. r.parser \in ReplyFields
        BY <1>1, ReplyParseFields
      <3> QED BY <1>1, <2>1, <3>1 DEF Typed, ReplyParse, ReplyFields
    <2>3. q = ReplyParsed(r)
      BY <1>3, <2>1, <2>2 DEF ParseResponse
    <2> QED BY <1>4, <1>5, <2>1, <2>3, ReplyParsedRead DEF Facing
  <1>6. CASE Fresh(s, p, h, r.parser) /\ Unskipped(s, h) # 0
    <2>1. LineAt(s, p, Cr) /\ r.parser.type = "none"
      BY <1>4, <1>6, DoneFacts DEF Fresh
    <2>2. first = Cr
      BY <1>1, <1>2, <2>1, LineHere
    <2>3. q = [r EXCEPT !.err = "Unknown"]
      <3>1. ReplyType(Cr) = "unknown"
        BY DEF ReplyType, Cr
      <3> HIDE DEF first
      <3>2. ReplyType(first) = "unknown"
        BY <2>2, <3>1
      <3> QED BY <1>3, <2>1, <3>2 DEF ParseResponse, first
    <2>4. /\ q.err = "Unknown" /\ q.parser = r.parser /\ q.send = r.send /\ q.handed = h
          /\ q.stop = r.stop /\ q.heap = r.heap /\ q.input = r.input /\ q.at = r.at
      BY <1>1, <2>3 DEF ReplyParse
    <2>5. ReplyPos(t, q) = p
      BY <2>4 DEF ReplyPos, Unread
    <2>6. Done(s, h) < t
      BY <1>2, <1>6 DEF Fresh
    <2> HIDE DEF p
    <2> QED BY <1>6, <2>4, <2>5, <2>6 DEF ParseTaken, Standing, Stuck
  <1>7. CASE Fresh(s, p, h, r.parser) /\ Unskipped(s, h) = 0
    <2> DEFINE c == h + 1
    <2>1. p = ReplyEnd[s][h] /\ Len(s) \in Nat /\ (h = Len(s) => p = Len(Bytes[s]))
      BY <1>4, <1>7, DoneFacts, StreamFacts DEF Fresh
    <2>2. h < Len(s)
      <3> DEFINE n == Len(s)
                 m == Len(Bytes[s])
      <3>1. h \in 0..n /\ n \in Nat /\ (h = n => p = m) /\ p < t /\ t <= m
            /\ m \in Nat /\ p \in Nat
        BY <1>2, <1>4, <2>1, BytesTyped
      <3> HIDE DEF n, m, p, h
      <3>2. h < n
        BY <3>1
      <3> QED BY <3>2 DEF n
    <2>3. c \in 1..Len(s) /\ c - 1 = h
      BY <1>4, <2>1, <2>2
    <2> HIDE DEF c
    <2>4. PICK b : LineAt(s, p, b) /\ ReplyType(b) = TypeOf(s, c)
      BY <2>1, <2>3, FirstByte
    <2>5. first = b
      BY <1>1, <1>2, <2>4, LineHere
    <2>6. ReplyType(first) = TypeOf(s, c) /\ TypeOf(s, c) \in {"multibulk", "inline"}
      BY <2>4, <2>5 DEF TypeOf
    <2> HIDE DEF first
    <2>7. q = ReplyParsed(e)
      BY <1>3, <2>6 DEF ParseResponse, first
    <2>8. /\ Good(z, e) /\ Apart(e) /\ e.err = r.err /\ Moved(r, e, 0)
          /\ r.parser.type # "none" => e = r
          /\ r.parser.type = "none" => /\ e.parser \in ReplyFields /\ e.parser.type = TypeOf(s, c)
                                       /\ e.parser.mlen = r.parser.mlen
                                       /\ e.parser.mindex = r.parser.mindex
                                       /\ e.parser.blen = r.parser.blen
      BY <1>1, <2>6, TypedRead
    <2> HIDE DEF e
    <2>9. e.handed = h /\ e.send = r.send /\ e.stop = r.stop
      BY <2>8 DEF Moved
    <2>10. ReplyPos(t, e) = p
      <3>1. ReplyPos(t, e) = p + 0
        BY <1>1, <2>8, MovedPos
      <3> QED BY <1>2, <3>1
    <2>11. AtStart(s, p, c, e.parser)
      BY <1>7, <2>1, <2>3, <2>8 DEF Fresh, AtStart, c
    <2>12. Len(Unread(e)) # 0
      <3>1. Len(Unread(e)) = u
        <4>1. t - Len(Unread(e)) = p /\ Len(Unread(e)) \in Nat
          BY <2>8, <2>10, ReplyUnreadFacts DEF ReplyPos
        <4> DEFINE x == Len(Unread(e))
        <4> HIDE DEF x, u, p
        <4> QED BY <1>2, <4>1 DEF x
      <3> QED BY <3>1
    <2>13. ParseTaken(s, t, e, q)
      <3>1. /\ e.handed + 1 \in 1..Len(s) /\ e.handed \in 0..Len(s)
            /\ Unskipped(s, e.handed) = 0
            /\ Facing(s, t, ReplyPos(t, e), e.handed + 1, e.parser)
        BY <1>4, <1>7, <2>3, <2>9, <2>10, <2>11 DEF Facing, c
      <3> QED BY <2>7, <2>8, <2>12, <3>1, ReplyParsedRead DEF z
    <2> QED BY <2>9, <2>10, <2>13 DEF ParseTaken
  <1> QED BY <1>5, <1>6, <1>7 DEF Standing

\* What holds in the loop between two turns, when the client has g bytes.
Between(s, g, t, r) ==
  /\ Good(SubSeq(Bytes[s], g + 1, t), r) /\ Apart(r) /\ r.err = "OK" /\ r.at = 0
  /\ Standing(s, t, ReplyPos(t, r), r.handed, r.parser)
  /\ g + Size(r.send) = Done(s, r.handed)
  /\ r.stop = "no" \/ Stuck(s, t, r.handed, r.stop)

\* What a turn of the loop does.
ReplyTurn(s, g, t, r, q) ==
  /\ Between(s, g, t, q)
  /\ q.stop # "no" \/ Size(q.input) = 0 \/ ReplyPos(t, q) >= ReplyPos(t, r) + 1
  /\ r.stop # "no" \/ Size(r.input) = 0 => q = r
  /\ Unskipped(s, r.handed) # 0 => q.handed = r.handed

\* A reply ends behind its beginning.
LEMMA HandedOutBetween ==
  ASSUME NEW s \in Streams, NEW g \in Nat, NEW t \in Nat, g <= t, t <= Len(Bytes[s]),
         NEW p, Good(SubSeq(Bytes[s], g + 1, t), p), p.err = "OK", p.at = 0, p.stop = "no",
         p.handed \in 0..Len(s), p.handed < Len(s), ReplyPos(t, p) = Done(s, p.handed + 1),
         NEW q, q = HandOut(p)
  PROVE  Between(s, g, t, q) /\ ReplyPos(t, q) = ReplyPos(t, p) /\ q.stop = "no"
  <1> DEFINE z == SubSeq(Bytes[s], g + 1, t)
  <1>1. Good(z, q) /\ Apart(q) /\ HandedOut(p, q)
    BY HandOutGood
  <1>2. ReplyView(s, g, t, q)
    BY <1>1, ReplyViewFacts
  <1> HIDE DEF z
  <1>3. q.handed \in 0..Len(s)
    <2>1. Len(s) \in Nat
      BY StreamFacts
    <2> QED BY <1>1, <2>1 DEF HandedOut
  <1>4. ReplyPos(t, q) = ReplyPos(t, p)
    <2>1. /\ Len(Unread(p)) = Size(p.input) - 0 /\ Len(Unread(q)) = Size(q.input) - 0
          /\ q.input = p.input
      BY <1>1, ReplyUnreadFacts DEF z, HandedOut
    <2> QED BY <2>1 DEF ReplyPos
  <1>5. Fresh(s, ReplyPos(t, q), q.handed, q.parser)
    <2>1. q.parser = NewParser /\ q.handed = p.handed + 1
      BY <1>1 DEF HandedOut
    <2>2. q.parser \in ReplyFields /\ q.parser.type = "none" /\ q.parser.mlen = 0
          /\ q.parser.mindex = 0 /\ q.parser.blen = 0
      BY <2>1 DEF NewParser, ReplyFields
    <2> QED BY <1>3, <1>4, <2>1, <2>2 DEF Fresh
  <1>6. g + Size(q.send) = Done(s, q.handed)
    <2>1. /\ g + Size(q.send) + Size(q.resp) = ReplyPos(t, q) /\ Size(q.resp) = 0
          /\ Size(q.send) \in Nat
      BY <1>1, <1>2 DEF ReplyView, HandedOut
    <2>2. ReplyPos(t, q) = Done(s, q.handed)
      BY <1>5 DEF Fresh
    <2> DEFINE x == Size(q.send)
               y == ReplyPos(t, q)
    <2>3. g + x + 0 = y /\ x \in Nat
      BY <2>1
    <2> HIDE DEF x, y
    <2>4. g + x = y
      BY <2>3
    <2> QED BY <2>2, <2>4 DEF x, y
  <1> QED BY <1>1, <1>4, <1>5, <1>6 DEF Between, Standing, HandedOut, z

LEMMA NextReplyRead ==
  ASSUME NEW s \in Streams, NEW g \in Nat, NEW t \in Nat, g <= t, t <= Len(Bytes[s]),
         NEW r, Between(s, g, t, r), NEW q, q = NextReply(r)
  PROVE  ReplyTurn(s, g, t, r, q)
  <1> DEFINE z == SubSeq(Bytes[s], g + 1, t)
             e == ParseResponse(r)
             h == r.handed
  <1>1. CASE r.stop # "no" \/ Size(r.input) = 0
    <2>1. q = r
      BY <1>1 DEF NextReply
    <2> QED BY <1>1, <2>1 DEF ReplyTurn
  <1>2. CASE ~(r.stop # "no" \/ Size(r.input) = 0)
    <2>1. /\ Good(z, r) /\ Apart(r) /\ r.err = "OK" /\ r.at = 0 /\ r.stop = "no"
          /\ Standing(s, t, ReplyPos(t, r), h, r.parser) /\ g + Size(r.send) = Done(s, h)
          /\ Size(r.input) # 0
      BY <1>2 DEF Between
    <2>2. Len(Unread(r)) # 0
      BY <2>1, ReplyUnreadFacts
    <2>3. ParseTaken(s, t, r, e)
      BY <2>1, <2>2, ParseResponseRead
    <2>4. Good(z, e) /\ e.at = 0 /\ (e.err = "OK" \/ Apart(e))
      BY <2>1, ParseResponseGood
    <2>5. q = AfterParse(e)
      BY <1>2 DEF NextReply
    <2> HIDE DEF e, z
    <2>6. CASE e.err = "OK"
      <3>1. /\ h < Len(s) /\ Unskipped(s, h) = 0 /\ e.handed = h /\ e.stop = "no"
            /\ ReplyPos(t, e) = Done(s, h + 1) /\ ReplyPos(t, e) > ReplyPos(t, r)
        BY <2>1, <2>3, <2>6 DEF ParseTaken
      <3>2. q = HandOut(e)
        BY <2>5, <2>6 DEF AfterParse
      <3>3. h \in 0..Len(s)
        BY <2>1 DEF Standing, Fresh
      <3>4. Between(s, g, t, q) /\ ReplyPos(t, q) = ReplyPos(t, e)
        BY <2>4, <2>6, <3>1, <3>2, <3>3, HandedOutBetween DEF z
      <3>5. ReplyPos(t, q) >= ReplyPos(t, r) + 1
        <4>1. ReplyPos(t, e) \in Int /\ ReplyPos(t, r) \in Int
          BY <2>1, <2>4, OnwardPos, ReplyUnreadFacts DEF ReplyPos
        <4> QED BY <3>1, <3>4, <4>1
      <3> QED BY <1>2, <3>1, <3>4, <3>5 DEF ReplyTurn
    <2>7. CASE e.err # "OK"
      <3>1. /\ Standing(s, t, ReplyPos(t, e), h, e.parser) /\ Stuck(s, t, h, e.err)
            /\ e.handed = h /\ e.send = r.send
        BY <2>3, <2>7 DEF ParseTaken
      <3>2. q = [e EXCEPT !.stop = e.err, !.err = "OK"]
        BY <2>5, <2>7 DEF AfterParse
      <3>3. e \in ReplyParse
        BY <2>4 DEF Good
      <3>4. /\ q.stop = e.err /\ q.err = "OK" /\ q.handed = h /\ q.send = r.send
            /\ q.parser = e.parser /\ q.heap = e.heap /\ q.input = e.input /\ q.at = 0
        BY <2>4, <3>1, <3>2, <3>3 DEF ReplyParse
      <3>5. ReplyPos(t, q) = ReplyPos(t, e)
        <4>1. q.at = e.at
          BY <2>4, <3>4
        <4> QED BY <3>4, <4>1 DEF ReplyPos, Unread
      <3>6. Good(z, q) /\ Apart(q)
        BY <2>4, <2>5, AfterParseGood
      <3>7. q.stop # "no"
        BY <3>1, <3>4 DEF Stuck
      <3> QED BY <1>2, <2>1, <3>1, <3>4, <3>5, <3>6, <3>7 DEF ReplyTurn, Between, z
    <2> QED BY <2>6, <2>7
  <1> QED BY <1>1, <1>2

\* What the loop has done when it ends.
AllRead(s, g, t, r, q) ==
  /\ Between(s, g, t, q)
  /\ q.stop # "no" \/ Size(q.input) = 0
  /\ Unskipped(s, r.handed) # 0 => q.handed = r.handed

\* Behind k turns.
SoFar(s, g, t, r, k, q) ==
  /\ Between(s, g, t, q)
  /\ q.stop # "no" \/ Size(q.input) = 0 \/ ReplyPos(t, q) >= ReplyPos(t, r) + k
  /\ Unskipped(s, r.handed) # 0 => q.handed = r.handed

LEMMA SoFarNext ==
  ASSUME NEW s \in Streams, NEW g \in Nat, NEW t \in Nat, g <= t, t <= Len(Bytes[s]),
         NEW r, ReplyPos(t, r) \in Int, NEW k \in Nat, NEW p, SoFar(s, g, t, r, k, p),
         NEW q, q = NextReply(p)
  PROVE  SoFar(s, g, t, r, k + 1, q)
  <1>1. Between(s, g, t, p)
    BY DEF SoFar
  <1>2. ReplyTurn(s, g, t, p, q)
    BY <1>1, NextReplyRead
  <1>3. Between(s, g, t, q)
    BY <1>2 DEF ReplyTurn
  <1>4. ReplyPos(t, p) \in Int /\ ReplyPos(t, q) \in Int
    <2>1. Len(Unread(p)) \in Nat /\ Len(Unread(q)) \in Nat
      BY <1>1, <1>3, ReplyUnreadFacts DEF Between
    <2> QED BY <2>1 DEF ReplyPos
  <1>5. CASE p.stop # "no" \/ Size(p.input) = 0
    BY <1>2, <1>3, <1>5 DEF ReplyTurn, SoFar
  <1>6. CASE ~(p.stop # "no" \/ Size(p.input) = 0)
    <2> DEFINE x == ReplyPos(t, p)
               y == ReplyPos(t, q)
               o == ReplyPos(t, r)
    <2>1. x >= o + k
      BY <1>6 DEF SoFar
    <2>2. q.stop # "no" \/ Size(q.input) = 0 \/ y >= x + 1
      BY <1>2 DEF ReplyTurn
    <2>3. x \in Int /\ y \in Int /\ o \in Int
      BY <1>4
    <2> HIDE DEF x, y, o
    <2>4. q.stop # "no" \/ Size(q.input) = 0 \/ y >= o + (k + 1)
      BY <2>1, <2>2, <2>3
    <2>5. Unskipped(s, r.handed) # 0 => q.handed = r.handed
      BY <1>2 DEF ReplyTurn, SoFar
    <2> QED BY <1>3, <2>4, <2>5 DEF SoFar, y, o
  <1> QED BY <1>5, <1>6

LEMMA RepliesRead ==
  ASSUME NEW s \in Streams, NEW g \in Nat, NEW t \in Nat, g <= t, t <= Len(Bytes[s]),
         NEW r, Between(s, g, t, r), NEW q, q = Replies(r)
  PROVE  AllRead(s, g, t, r, q)
  <1> DEFINE n == Size(r.input) + 1
             W == {x \in Nat \X ReplyParse : SoFar(s, g, t, r, x[1], x[2])}
             z == SubSeq(Bytes[s], g + 1, t)
  <1>1. Good(z, r) /\ Apart(r) /\ r.err = "OK" /\ r.at = 0
    BY DEF Between
  <1> HIDE DEF z
  <1>2. /\ n \in Nat /\ ReplyPos(t, r) \in Nat /\ ReplyPos(t, r) + n = t + 1
    <2> DEFINE u == Len(Unread(r))
               p == ReplyPos(t, r)
               i == Size(r.input)
    <2>1. u = i - 0 /\ u \in Nat /\ i \in Nat
      BY <1>1, ReplyUnreadFacts
    <2>2. p + u = t /\ p \in Nat
      BY <1>1, ReplyViewFacts DEF ReplyView, z
    <2> HIDE DEF u, p, i
    <2>3. i + 1 \in Nat /\ p + (i + 1) = t + 1
      BY <2>1, <2>2
    <2> QED BY <2>2, <2>3 DEF p, i
  <1>3. PICK f : ReplyTurns(f, r, n) /\ q = f[n]
    BY <1>1, RepliesTurns
  <1> HIDE DEF n
  <1>4. <<0, f[0]>> \in W
    <2>1. ReplyPos(t, r) >= ReplyPos(t, r) + 0
      BY <1>2
    <2>2. SoFar(s, g, t, r, 0, r)
      BY <2>1 DEF SoFar
    <2> QED BY <1>1, <1>3, <2>2 DEF ReplyTurns, Good
  <1>5. ASSUME NEW k \in 1..n, <<k - 1, f[k - 1]>> \in W PROVE <<k, f[k]>> \in W
    <2> DEFINE p == f[k - 1]
               j == k - 1
    <2>1. j \in Nat /\ j + 1 = k /\ k \in Nat
      BY <1>2
    <2>2. SoFar(s, g, t, r, j, p)
      BY <1>5
    <2>3. f[k] = NextReply(p)
      BY <1>3 DEF ReplyTurns
    <2> HIDE DEF p, j
    <2>4. ReplyPos(t, r) \in Int
      BY <1>2
    <2>5. SoFar(s, g, t, r, j + 1, f[k])
      BY <2>1, <2>2, <2>3, <2>4, SoFarNext
    <2>6. SoFar(s, g, t, r, k, f[k])
      BY <2>1, <2>5
    <2> QED BY <2>1, <2>6 DEF SoFar, Between, Good
  <1>6. <<n, f[n]>> \in W
    <2> HIDE DEF W
    <2> QED BY <1>2, <1>4, <1>5, StepInvariance
  <1>7. SoFar(s, g, t, r, n, q)
    BY <1>3, <1>6
  <1>8. ~(ReplyPos(t, q) >= ReplyPos(t, r) + n)
    <2> DEFINE x == ReplyPos(t, q)
               y == ReplyPos(t, r)
    <2>1. x \in Nat /\ x <= t
      <3>1. Len(Unread(q)) \in Nat /\ x \in Nat /\ x + Len(Unread(q)) = t
        BY <1>7, ReplyViewFacts DEF SoFar, Between, ReplyView
      <3> HIDE DEF x
      <3> QED BY <3>1
    <2>2. y + n = t + 1
      BY <1>2
    <2> HIDE DEF x, y
    <2>3. ~(x >= y + n)
      BY <2>1, <2>2
    <2> QED BY <2>3 DEF x, y
  <1> QED BY <1>7, <1>8 DEF SoFar, AllRead

--------------------------------------------------------------------------------
(* The invariant. *)

\* What the client, its send buffer, respBuffer_ and the input have.
Waiting(h, a, b, c) == Contents(h, a) \o (Contents(h, b) \o Contents(h, c))

\* What is inductive: respBuffer_ and the send buffer have blocks of their own between
\* reads, no block is given up that a Buffer looks into, every range lies inside its block,
\* and the Buffers show what was read and not yet written.
IInv ==
  /\ stream \in Streams
  /\ taken \in 0..Len(Bytes[stream])
  /\ Trio(heap, resp, input, send)
  /\ input.data # Null
  /\ resp.data # input.data
  /\ parser \in ReplyFields
  /\ parser.blen # 0 => resp.data # Null
  /\ handed \in Nat
  /\ Alone(send, resp, input)
  /\ got \in Seq(ReplyByte)
  /\ got \o Waiting(heap, send, resp, input) = SubSeq(Bytes[stream], 1, taken)

LEMMA EmptyTrio == Trio(EmptyHeap, EmptyBuffer, EmptyBuffer, EmptyBuffer)
  <1> DEFINE e == EmptyBuffer
  <1>1. e \in Pointer /\ e.data = Null /\ e.offset = 0 /\ e.size = 0
    BY DEF EmptyBuffer, Pointer
  <1>2. EmptyHeap \in Memory(ReplyByte) /\ \A d \in Blocks : EmptyHeap[d].refs = 0
    BY DEF EmptyHeap, NoBlock, Memory, Block
  <1>3. InBounds(EmptyHeap, e)
    BY <1>1 DEF InBounds, Capacity
  <1> HIDE DEF e
  <1>4. \A d \in Blocks : Points(e, d) = 0
    BY <1>1, BlocksAssumption DEF Points
  <1>5. Trio(EmptyHeap, e, e, e)
    BY <1>1, <1>2, <1>3, <1>4 DEF Trio
  <1> QED BY <1>5 DEF e

LEMMA InitInvariant == Init => IInv
  <1> SUFFICES ASSUME Init PROVE IInv
    OBVIOUS
  <1> DEFINE e == EmptyBuffer
             m == AppendCapacity(EmptyHeap, e, InitSize)
  <1>1. /\ stream \in Streams /\ taken = 0 /\ heap = m.heap /\ input = m.buf
        /\ parser = NewParser /\ resp = e /\ send = e /\ handed = 0 /\ got = <<>>
    BY DEF Init, InitialBuffer
  <1>2. e \in Pointer /\ e.data = Null /\ e.offset = 0 /\ e.size = 0
    BY DEF EmptyBuffer, Pointer
  <1>3. Trio(EmptyHeap, e, e, e)
    BY EmptyTrio
  <1>4. InitSize \in Nat /\ InitSize > 0
    BY BufferSizesAssumption
  <1> HIDE DEF e
  <1>5. Appended(EmptyHeap, e, e, e, InitSize, m)
    BY <1>3, <1>4, CapacityAppended
  <1> HIDE DEF m
  <1>6. Trio(m.heap, m.buf, e, e) /\ m.buf.data # Null
    BY <1>4, <1>5 DEF Appended
  <1>7. Trio(m.heap, e, m.buf, e)
    BY <1>6, Turned
  <1>8. NewParser \in ReplyFields /\ NewParser.blen = 0
    BY DEF NewParser, ReplyFields
  <1>9. taken \in 0..Len(Bytes[stream])
    BY <1>1, BytesTyped
  <1>10. got \in Seq(ReplyByte)
    BY <1>1
  <1>11. got \o Waiting(heap, send, resp, input) = SubSeq(Bytes[stream], 1, taken)
    <2>1. Contents(heap, e) = <<>>
      BY <1>2, ClearedShows
    <2>2. Contents(heap, input) = <<>>
      <3>1. Contents(m.heap, m.buf) = Contents(EmptyHeap, e)
        BY <1>3, <1>4, CapacityShows DEF m
      <3>2. Contents(EmptyHeap, e) = <<>>
        BY <1>2, ClearedShows
      <3> QED BY <1>1, <3>1, <3>2
    <2>3. SubSeq(Bytes[stream], 1, taken) = <<>>
      BY <1>1, SubSeqEmpty
    <2>4. <<>> \o <<>> = <<>>
      BY ConcatEmptySeq
    <2> QED BY <1>1, <2>1, <2>2, <2>3, <2>4 DEF Waiting
  <1> QED BY <1>1, <1>2, <1>6, <1>7, <1>8, <1>9, <1>10, <1>11 DEF IInv, Alone

\* What was read lies behind what was there, and the other two see none of it.
LEMMA ReadTrio ==
  ASSUME IInv, NEW data \in Seq(ReplyByte), Len(data) <= FreeSize(heap, input),
         NEW m, m = Filled(Kept(heap, input), data)
  PROVE  /\ Trio(m.heap, resp, m.buf, send) /\ m.buf.data = input.data
         /\ Size(m.buf) = Size(input) + Len(data)
         /\ Waiting(m.heap, send, resp, m.buf) = Waiting(heap, send, resp, input) \o data
  <1> DEFINE w == Both(resp, send)
  <1>1. Trio(heap, input, resp, send)
    BY Turned DEF IInv
  <1>2. Shared(ReplyByte, heap, input, w)
    BY <1>1, TrioShared
  <1>3. m = Filled([heap |-> heap, buf |-> input, overlap |-> FALSE], data)
    BY DEF Kept
  <1> HIDE DEF w
  <1>4. /\ Shared(ReplyByte, m.heap, m.buf, w) /\ Spared(heap, m.heap, w)
        /\ m.buf.data = input.data /\ m.buf.offset = input.offset
        /\ m.buf.size = input.size + Len(data)
    BY <1>2, <1>3, FilledFacts
  <1>9. Size(m.buf) = Size(input) + Len(data)
    <2>1. input.size \in Nat /\ input.offset \in Nat /\ Len(data) \in Nat
      BY <1>2, SharedFacts
    <2> QED BY <1>4, <2>1 DEF Size
  <1>5. Trio(m.heap, m.buf, resp, send)
    BY <1>1, <1>4, TrioKept DEF w
  <1>6. /\ Contents(m.heap, m.buf) = Contents(heap, input) \o data
        /\ \A d \in Blocks : d # input.data => m.heap[d].bytes = heap[d].bytes
    BY <1>2, <1>3, FilledContents
  <1>7. \A y \in {send, resp} : Contents(m.heap, y) = Contents(heap, y)
    <2>1. /\ send.data # Null => send.data \in Blocks /\ send.data # input.data
          /\ resp.data # Null => resp.data \in Blocks /\ resp.data # input.data
      BY <1>1 DEF IInv, Alone, Trio, Pointer
    <2> QED BY <1>6, <2>1, SameContents
  <1>8. Waiting(m.heap, send, resp, m.buf) = Waiting(heap, send, resp, input) \o data
    <2> DEFINE a == Contents(heap, send)
               b == Contents(heap, resp)
               c == Contents(heap, input)
    <2>1. a \in Seq(ReplyByte) /\ b \in Seq(ReplyByte) /\ c \in Seq(ReplyByte)
      <3>1. Trio(heap, send, resp, input) /\ Trio(heap, resp, input, send)
        BY Turned DEF IInv
      <3> QED BY <1>2, <3>1, TrioShared, ContentsFacts
    <2>2. Waiting(m.heap, send, resp, m.buf) = a \o (b \o (c \o data))
      BY <1>6, <1>7 DEF Waiting
    <2>3. Waiting(heap, send, resp, input) = a \o (b \o c)
      BY DEF Waiting
    <2> HIDE DEF a, b, c
    <2>4. b \o (c \o data) = (b \o c) \o data /\ b \o c \in Seq(ReplyByte)
      <3>1. b \in Seq(ReplyByte) /\ c \in Seq(ReplyByte) /\ data \in Seq(ReplyByte)
        BY <2>1
      <3>2. ReplyAssociates(b, c, data)
        BY <3>1, ReplyAssociative
      <3> QED BY <3>2 DEF ReplyAssociates
    <2>5. a \o ((b \o c) \o data) = (a \o (b \o c)) \o data
      <3> DEFINE bc == b \o c
      <3>1. a \in Seq(ReplyByte) /\ bc \in Seq(ReplyByte) /\ data \in Seq(ReplyByte)
        BY <2>1, <2>4
      <3> HIDE DEF bc
      <3>2. ReplyAssociates(a, bc, data)
        BY <3>1, ReplyAssociative
      <3> QED BY <3>2 DEF ReplyAssociates, bc
    <2> QED BY <2>2, <2>3, <2>4, <2>5
  <1> QED BY <1>4, <1>5, <1>8, <1>9, Turned

\* The parse with which the loop of OnServerRead begins.
Begin(m) ==
  [heap |-> m.heap, input |-> m.buf, at |-> 0, parser |-> parser, resp |-> resp,
   err |-> "OK", send |-> send, handed |-> handed, stop |-> "no", overlap |-> FALSE]

LEMMA BeginGood ==
  ASSUME IInv, NEW m, Trio(m.heap, resp, m.buf, send), m.buf.data = input.data,
         NEW start, start = Begin(m), NEW z, z = Waiting(m.heap, send, resp, m.buf)
  PROVE  /\ Good(z, start) /\ Apart(start) /\ start.err = "OK" /\ start.at = 0
         /\ start.input = m.buf /\ start.send = send /\ start.parser = parser
         /\ start.handed = handed /\ start.stop = "no"
  <1>1. /\ parser \in ReplyFields /\ handed \in Nat /\ input.data # Null
        /\ resp.data # input.data /\ (parser.blen # 0 => resp.data # Null)
        /\ Alone(send, resp, m.buf)
    BY DEF IInv, Alone
  <1>2. m.heap \in Memory(ReplyByte) /\ m.buf \in Pointer /\ resp \in Pointer /\ send \in Pointer
    BY DEF Trio
  <1>3. "OK" \in Errors
    BY DEF Errors
  <1>4. start \in ReplyParse
    BY <1>1, <1>2, <1>3 DEF ReplyParse, Begin
  <1>5. Size(m.buf) \in Nat
    <2>1. Trio(m.heap, m.buf, resp, send)
      BY Turned
    <2> QED BY <2>1, TrioShared, SharedFacts
  <1>6. /\ start.heap = m.heap /\ start.input = m.buf /\ start.at = 0
        /\ start.parser = parser /\ start.resp = resp /\ start.err = "OK"
        /\ start.send = send /\ start.handed = handed /\ start.stop = "no"
    BY DEF Begin
  <1>7. OnTheWay(start) = z
    <2> DEFINE c == Contents(m.heap, m.buf)
    <2>1. c \in Seq(ReplyByte)
      <3>1. Trio(m.heap, m.buf, resp, send)
        BY Turned
      <3> QED BY <3>1, TrioShared, ContentsFacts
    <2>2. Unread(start) = SubSeq(c, 0 + 1, Len(c))
      BY <1>6 DEF Unread
    <2> HIDE DEF c
    <2>3. SubSeq(c, 1, Len(c)) = c
      BY <2>1, SubSeqFull
    <2>4. Unread(start) = Contents(m.heap, m.buf)
      BY <2>2, <2>3 DEF c
    <2> QED BY <1>6, <2>4 DEF OnTheWay, Waiting
  <1>8. Good(z, start) /\ Apart(start)
    BY <1>1, <1>4, <1>5, <1>6, <1>7 DEF Good, Apart
  <1> QED BY <1>6, <1>8

LEMMA HandledGood ==
  ASSUME IInv, NEW m, Trio(m.heap, resp, m.buf, send), m.buf.data = input.data,
         NEW q, q = Handled(m), NEW z, z = Waiting(m.heap, send, resp, m.buf)
  PROVE  Good(z, q) /\ Apart(q) /\ q.at = 0
  <1> DEFINE start == Begin(m)
  <1>1. q = Replies(start)
    BY DEF Handled, Begin
  <1>2. Good(z, start) /\ Apart(start) /\ start.err = "OK" /\ start.at = 0
    BY BeginGood
  <1> HIDE DEF start
  <1> QED BY <1>1, <1>2, RepliesGood

\* Room is made for the next read.
LEMMA GrownGood ==
  ASSUME NEW z, NEW r, Good(z, r), Apart(r), r.at = 0, NEW g, g = Grown(r)
  PROVE  /\ Trio(g.heap, r.resp, g.buf, r.send) /\ g.buf.data # Null
         /\ r.resp.data # g.buf.data
         /\ Alone(r.send, r.resp, g.buf)
         /\ Waiting(g.heap, r.send, r.resp, g.buf) = z
         /\ Size(g.buf) = Size(r.input)
         /\ r.stop \in {"no", "TryAgain"} => FreeSize(g.heap, g.buf) >= MinSize
  <1> DEFINE m == AppendCapacity(r.heap, r.input, MinSize)
  <1>1. Trio(r.heap, r.input, r.resp, r.send) /\ r.input.data # Null
        /\ Trio(r.heap, r.resp, r.input, r.send) /\ r.resp.data # r.input.data
        /\ Alone(r.send, r.resp, r.input) /\ OnTheWay(r) = z
    BY Turned DEF Good, Apart
  <1>5. Waiting(r.heap, r.send, r.resp, r.input) = z
    <2> DEFINE c == Contents(r.heap, r.input)
    <2>1. c \in Seq(ReplyByte)
      BY <1>1, TrioShared, ContentsFacts
    <2>2. Unread(r) = SubSeq(c, 0 + 1, Len(c))
      BY DEF Unread
    <2> HIDE DEF c
    <2>3. SubSeq(c, 1, Len(c)) = c
      BY <2>1, SubSeqFull
    <2>4. Unread(r) = Contents(r.heap, r.input)
      BY <2>2, <2>3 DEF c
    <2> QED BY <1>1, <2>4 DEF OnTheWay, Waiting
  <1>2. MinSize \in Nat
    BY BufferSizesAssumption
  <1>3. CASE ~(r.stop \in {"no", "TryAgain"} /\ FreeSize(r.heap, r.input) < MinSize)
    <2>1. g.heap = r.heap /\ g.buf = r.input
      BY <1>3 DEF Grown, Kept
    <2>2. FreeSize(r.heap, r.input) \in Nat
      BY <1>1, TrioShared, SharedFacts
    <2>3. r.stop \in {"no", "TryAgain"} => FreeSize(r.heap, r.input) >= MinSize
      BY <1>2, <1>3, <2>2
    <2> QED BY <1>1, <1>5, <2>1, <2>3
  <1>6. CASE r.stop \in {"no", "TryAgain"} /\ FreeSize(r.heap, r.input) < MinSize
    <2>0. g = m
      BY <1>6 DEF Grown
    <2>1. /\ Appended(r.heap, r.input, r.resp, r.send, MinSize, g)
          /\ FreeSize(g.heap, g.buf) >= MinSize /\ Size(g.buf) = Size(r.input)
      BY <1>1, <1>2, <2>0, CapacityAppended
    <2>2. /\ Trio(g.heap, g.buf, r.resp, r.send) /\ g.buf.data # Null
          /\ g.buf.data # r.resp.data
      BY <1>1, <2>1 DEF Appended
    <2>3. /\ Contents(g.heap, g.buf) = Contents(r.heap, r.input)
          /\ Contents(g.heap, r.resp) = Contents(r.heap, r.resp)
          /\ Contents(g.heap, r.send) = Contents(r.heap, r.send)
      BY <1>1, <1>2, <2>0, CapacityShows
    <2>4. Waiting(g.heap, r.send, r.resp, g.buf) = z
      BY <1>5, <2>3 DEF Waiting
    <2>5. Alone(r.send, r.resp, g.buf)
      BY <1>1, <2>1 DEF Alone, Appended
    <2> QED BY <2>1, <2>2, <2>4, <2>5, Turned
  <1> QED BY <1>3, <1>6

LEMMA WaitingTyped ==
  ASSUME IInv
  PROVE  /\ Contents(heap, send) \in Seq(ReplyByte)
         /\ Contents(heap, resp) \o Contents(heap, input) \in Seq(ReplyByte)
         /\ Waiting(heap, send, resp, input) \in Seq(ReplyByte)
  <1> DEFINE a == Contents(heap, send)
             b == Contents(heap, resp)
             c == Contents(heap, input)
  <1>1. a \in Seq(ReplyByte) /\ b \in Seq(ReplyByte) /\ c \in Seq(ReplyByte)
    <2>1. /\ Trio(heap, send, resp, input) /\ Trio(heap, resp, input, send)
          /\ Trio(heap, input, resp, send)
      BY Turned DEF IInv
    <2> QED BY <2>1, TrioShared, ContentsFacts
  <1>2. Waiting(heap, send, resp, input) = a \o (b \o c)
    BY DEF Waiting
  <1>3. Contents(heap, resp) \o Contents(heap, input) = b \o c /\ Contents(heap, send) = a
    OBVIOUS
  <1> HIDE DEF a, b, c
  <1>4. b \o c \in Seq(ReplyByte) /\ a \o (b \o c) \in Seq(ReplyByte)
    BY <1>1, ConcatProperties
  <1> QED BY <1>1, <1>2, <1>3, <1>4

\* The next n bytes of the stream are in the input, and OnServerRead ran on them.
HasRead(n, m, r) ==
  /\ stream \in Streams /\ n \in Nat /\ taken \in Nat /\ taken + n <= Len(Bytes[stream])
  /\ Trio(m.heap, resp, m.buf, send) /\ m.buf.data = input.data
  /\ Size(m.buf) = Size(input) + n
  /\ got \in Seq(ReplyByte)
  /\ got \o Waiting(m.heap, send, resp, m.buf) = SubSeq(Bytes[stream], 1, taken + n)
  /\ r = Handled(m)
  /\ n = 0 <=> FreeSize(heap, input) = 0
  /\ stop # "unpredictable"
  /\ Leaves(n, r, Grown(r))

LEMMA HasReadFacts ==
  ASSUME IInv, NEW n \in 0..Available, OnReadable(n)
  PROVE  \E m, r : HasRead(n, m, r)
  <1> DEFINE data == SubSeq(Bytes[stream], taken + 1, taken + n)
             m == Filled(Kept(heap, input), data)
             r == Handled(m)
             all == Bytes[stream]
             z == Waiting(m.heap, send, resp, m.buf)
  <1>1. /\ stream \in Streams /\ taken \in Nat /\ taken <= Len(all)
        /\ all \in Seq(ReplyByte) /\ Len(all) \in Nat
    BY BytesTyped DEF IInv
  <1>2. n \in Nat /\ n <= FreeSize(heap, input) /\ taken + n <= Len(all)
    <2>1. FreeSize(heap, input) \in Nat
      <3>1. Trio(heap, input, resp, send)
        BY Turned DEF IInv
      <3> QED BY <3>1, TrioShared, SharedFacts
    <2> QED BY <1>1, <2>1 DEF Available, SmallerOf
  <1> HIDE DEF all
  <1>3. data \in Seq(ReplyByte) /\ Len(data) = n
    <2>1. taken + 1 \in 1..(Len(all) + 1) /\ taken + n \in ((taken + 1) - 1)..Len(all)
      BY <1>1, <1>2
    <2>2. /\ SubSeq(all, taken + 1, taken + n) \in Seq(ReplyByte)
          /\ Len(SubSeq(all, taken + 1, taken + n)) = (taken + n) - (taken + 1) + 1
      <3>1. all \in Seq(ReplyByte)
        BY <1>1
      <3> QED BY <2>1, <3>1, SubSeqProperties
    <2>3. (taken + n) - (taken + 1) + 1 = n
      BY <1>1, <1>2
    <2> QED BY <2>2, <2>3 DEF all
  <1>4. /\ Leaves(n, r, Grown(r)) /\ stop # "unpredictable"
        /\ n = 0 <=> FreeSize(heap, input) = 0
    BY DEF OnReadable, ReadInto
  <1> HIDE DEF data
  <1>5. /\ Trio(m.heap, resp, m.buf, send) /\ m.buf.data = input.data
        /\ Size(m.buf) = Size(input) + n
        /\ z = Waiting(heap, send, resp, input) \o data
    BY <1>2, <1>3, ReadTrio
  <1> HIDE DEF m, r, z
  <1>6. got \o z = SubSeq(all, 1, taken + n) /\ got \in Seq(ReplyByte)
    <2> DEFINE x == Waiting(heap, send, resp, input)
               y == SubSeq(all, 1, taken)
    <2>1. got \in Seq(ReplyByte) /\ x \in Seq(ReplyByte) /\ got \o x = y
      BY WaitingTyped DEF IInv, all
    <2>2. (got \o x) \o data = got \o (x \o data)
      <3> HIDE DEF x
      <3>1. got \in Seq(ReplyByte) /\ x \in Seq(ReplyByte) /\ data \in Seq(ReplyByte)
        BY <1>3, <2>1
      <3>2. ReplyAssociates(got, x, data)
        BY <3>1, ReplyAssociative
      <3> QED BY <3>2 DEF ReplyAssociates
    <2>3. y \o data = SubSeq(all, 1, taken + n)
      <3>1. 1 \in 1..(Len(all) + 1) /\ taken \in (1 - 1)..Len(all)
            /\ taken + n \in taken..Len(all)
        BY <1>1, <1>2
      <3>2. SubSeq(all, 1, taken) \o SubSeq(all, taken + 1, taken + n)
              = SubSeq(all, 1, taken + n)
        BY <1>1, <3>1, ConcatAdjacentSubSeq
      <3> QED BY <3>2 DEF data, all
    <2> QED BY <1>5, <2>1, <2>2, <2>3
  <1>7. HasRead(n, m, r)
    BY <1>1, <1>2, <1>4, <1>5, <1>6 DEF HasRead, r, all, z
  <1> QED BY <1>7

LEMMA OnReadableInvariant ==
  ASSUME IInv, NEW n \in 0..Available, OnReadable(n)
  PROVE  IInv'
  <1>1. PICK m, r : HasRead(n, m, r)
    BY HasReadFacts
  <1> DEFINE g == Grown(r)
             z == Waiting(m.heap, send, resp, m.buf)
  <1>2. /\ stream \in Streams /\ n \in Nat /\ taken \in Nat
        /\ taken + n <= Len(Bytes[stream])
        /\ Trio(m.heap, resp, m.buf, send) /\ m.buf.data = input.data
        /\ got \in Seq(ReplyByte) /\ got \o z = SubSeq(Bytes[stream], 1, taken + n)
        /\ r = Handled(m) /\ Leaves(n, r, g)
    BY <1>1 DEF HasRead
  <1>3. Good(z, r) /\ Apart(r) /\ r.at = 0
    BY <1>2, HandledGood
  <1> HIDE DEF z
  <1>4. /\ Trio(g.heap, r.resp, g.buf, r.send) /\ g.buf.data # Null
        /\ r.resp.data # g.buf.data
        /\ Alone(r.send, r.resp, g.buf)
        /\ Waiting(g.heap, r.send, r.resp, g.buf) = z
    BY <1>3, GrownGood
  <1>5. /\ r.parser \in ReplyFields /\ r.handed \in Nat
        /\ (r.parser.blen # 0 => r.resp.data # Null)
    BY <1>3, ReplyParseFields DEF Good, Apart
  <1> HIDE DEF g
  <1>6. /\ heap' = g.heap /\ input' = g.buf /\ parser' = r.parser /\ resp' = r.resp
        /\ handed' = r.handed /\ send' = r.send /\ taken' = taken + n /\ stream' = stream
        /\ got' = got
    BY <1>2 DEF Leaves
  <1>7. (stream \in Streams /\ taken \in 0..Len(Bytes[stream]))'
    <2>1. Len(Bytes[stream]) \in Nat /\ taken + n \in 0..Len(Bytes[stream])
      BY <1>2, BytesTyped
    <2> QED BY <1>2, <1>6, <2>1 DEF Bytes
  <1>8. (got \o Waiting(heap, send, resp, input) = SubSeq(Bytes[stream], 1, taken))'
    BY <1>2, <1>4, <1>6 DEF Bytes, Waiting
  <1> QED BY <1>2, <1>4, <1>5, <1>6, <1>7, <1>8 DEF IInv, Alone

\* What another looks into has the room it had.
LEMMA SparedFree ==
  ASSUME NEW h, NEW a, NEW b, NEW c, Trio(h, a, b, c), NEW m, Spared(h, m, Both(b, c))
  PROVE  FreeSize(m, c) = FreeSize(h, c)
  <1>1. CASE c.data = Null
    BY <1>1 DEF FreeSize
  <1>2. CASE c.data # Null
    <2> DEFINE d == c.data
               w == Both(b, c)
    <2>1. d \in Blocks
      BY <1>2 DEF Trio, Pointer
    <2>2. w[d] > 0
      <3>1. Points(b, d) \in Nat /\ Points(c, d) = 1
        BY DEF Points
      <3>2. w[d] = Points(b, d) + Points(c, d)
        BY <2>1 DEF Both
      <3> HIDE DEF w, d
      <3> QED BY <3>1, <3>2
    <2>3. Len(m[d].bytes) = Len(h[d].bytes)
      BY <2>1, <2>2 DEF Spared
    <2> QED BY <1>2, <2>3 DEF FreeSize, Capacity
  <1> QED BY <1>1, <1>2

\* The socket took the first n bytes of the send buffer.
LEMMA WrittenTrio ==
  ASSUME IInv, NEW n \in 1..Size(send), NEW k, k = Written(n)
  PROVE  /\ Trio(k.heap, k.buf, resp, input)
         /\ k.buf.data \in {Null, send.data}
         /\ Contents(k.heap, k.buf) = SubSeq(Contents(heap, send), n + 1, Size(send))
         /\ Contents(k.heap, resp) = Contents(heap, resp)
         /\ Contents(k.heap, input) = Contents(heap, input)
         /\ FreeSize(k.heap, input) = FreeSize(heap, input)
         /\ Size(k.buf) = Size(send) - n
  <1> DEFINE w == Both(resp, input)
             b == Offset(send, n, 0)
             e == Clear(heap, send)
  <1>1. Trio(heap, send, resp, input)
    BY Turned DEF IInv
  <1>2. Shared(ReplyByte, heap, send, w)
    BY <1>1, TrioShared
  <1>3. Size(send) \in Nat /\ n \in Nat /\ 0 \in Nat /\ n \in 0..Size(send)
    <2>1. Size(send) \in Nat
      BY <1>2, SharedFacts
    <2> QED BY <2>1
  <1> HIDE DEF w
  <1>4. CASE ~(n < Size(send))
    <2>1. k = e /\ n = Size(send)
      BY <1>3, <1>4 DEF Written
    <2>2. /\ Shared(ReplyByte, e.heap, e.buf, w) /\ Spared(heap, e.heap, w)
          /\ \A d \in Blocks : w[d] > 0 => e.heap[d].bytes = heap[d].bytes
          /\ e.buf.size = 0 /\ e.buf.offset = 0
          /\ e.buf.data # Null => e.buf.data = send.data
      BY <1>2, ClearFacts
    <2> HIDE DEF e
    <2>3. Trio(e.heap, e.buf, resp, input)
      BY <1>1, <2>2, TrioKept DEF w
    <2>4. \A y \in {resp, input} : Contents(e.heap, y) = Contents(heap, y)
      BY <1>1, <2>2, OthersShow DEF w
    <2>5. Contents(e.heap, e.buf) = <<>>
      BY <2>2, ClearedShows
    <2>6. SubSeq(Contents(heap, send), n + 1, Size(send)) = <<>>
      BY <1>3, <2>1, SubSeqEmpty
    <2>7. FreeSize(e.heap, input) = FreeSize(heap, input)
      BY <1>1, <2>2, SparedFree DEF w
    <2>8. Size(e.buf) = Size(send) - n
      <3>1. Size(e.buf) = 0
        BY <2>2 DEF Size
      <3> QED BY <1>3, <2>1, <3>1
    <2> QED BY <2>1, <2>2, <2>3, <2>4, <2>5, <2>6, <2>7, <2>8
  <1>5. CASE n < Size(send)
    <2>1. k.heap = heap /\ k.buf = b
      BY <1>5 DEF Written, Kept
    <2>2. Narrowed(ReplyByte, heap, send, w, n, 0, b)
      BY <1>2, <1>3, OffsetFacts
    <2>3. Contents(heap, b) = SubSeq(Contents(heap, send), n + 1, Size(send))
      BY <1>2, <1>3, OffsetContents
    <2> HIDE DEF b
    <2>4. /\ Shared(ReplyByte, heap, b, w) /\ Spared(heap, heap, w) /\ b.data = send.data
          /\ Size(b) = Size(send) - n - 0
      BY <2>2 DEF Narrowed, Spared
    <2>6. Size(b) = Size(send) - n
      BY <1>3, <2>4
    <2>5. Trio(heap, b, resp, input)
      BY <1>1, <2>4, TrioKept DEF w
    <2> QED BY <2>1, <2>3, <2>4, <2>5, <2>6
  <1> QED BY <1>4, <1>5

LEMMA OnClientWritableInvariant ==
  ASSUME IInv, NEW n \in 1..Size(send), OnClientWritable(n)
  PROVE  IInv'
  <1> DEFINE k == Written(n)
             all == Contents(heap, send)
             taking == SubSeq(all, 1, n)
             left == SubSeq(all, n + 1, Size(send))
             rest == Contents(heap, resp) \o Contents(heap, input)
  <1>1. /\ heap' = k.heap /\ send' = k.buf /\ got' = got \o taking
        /\ UNCHANGED <<stream, taken, input, parser, resp, handed>>
    BY DEF OnClientWritable
  <1>2. /\ Trio(k.heap, k.buf, resp, input)
        /\ k.buf.data \in {Null, send.data}
        /\ Contents(k.heap, k.buf) = left
        /\ Contents(k.heap, resp) = Contents(heap, resp)
        /\ Contents(k.heap, input) = Contents(heap, input)
    BY WrittenTrio
  <1> HIDE DEF k
  <1>3. Trio(k.heap, resp, input, k.buf)
    <2>1. Trio(k.heap, input, k.buf, resp)
      BY <1>2, Turned
    <2> QED BY <2>1, Turned
  <1>4. Alone(k.buf, resp, input)
    BY <1>2 DEF IInv, Alone
  <1>5. (stream \in Streams /\ taken \in 0..Len(Bytes[stream]))'
    BY <1>1 DEF IInv, Bytes
  <1>6. /\ got \in Seq(ReplyByte) /\ all \in Seq(ReplyByte) /\ rest \in Seq(ReplyByte)
        /\ Waiting(heap, send, resp, input) = all \o rest
    BY WaitingTyped DEF IInv, Waiting
  <1>7. Waiting(k.heap, k.buf, resp, input) = left \o rest
    BY <1>2 DEF Waiting
  <1>8. taking \in Seq(ReplyByte) /\ left \in Seq(ReplyByte) /\ all = taking \o left
    <2>1. Len(all) = Size(send) /\ Size(send) \in Nat
      <3>1. Trio(heap, send, resp, input)
        BY Turned DEF IInv
      <3> QED BY <3>1, TrioShared, ContentsFacts, SharedFacts
    <2> HIDE DEF all
    <2>2. Len(all) \in 0..Len(all) /\ 0 \in 0..Len(all) /\ n \in 0..(Len(all) - 0)
      BY <2>1
    <2>3. /\ SubSeq(all, 0 + 1, Len(all)) = SubSeq(all, 0 + 1, 0 + n) \o SubSeq(all, 0 + n + 1, Len(all))
          /\ SubSeq(all, 0 + 1, 0 + n) \in Seq(ReplyByte)
          /\ SubSeq(all, 0 + n + 1, Len(all)) \in Seq(ReplyByte)
      BY <1>6, <2>2, CutBehind
    <2>4. SubSeq(all, 1, Len(all)) = all
      BY <1>6, SubSeqFull
    <2>5. 0 + 1 = 1 /\ 0 + n = n /\ 0 + n + 1 = n + 1
      BY <2>2
    <2> QED BY <2>1, <2>3, <2>4, <2>5
  <1> HIDE DEF all, taking, left, rest
  <1>9. (got \o taking) \o (left \o rest) = got \o (all \o rest)
        /\ got \o taking \in Seq(ReplyByte)
    <2>1. (got \o taking) \o (left \o rest) = got \o (taking \o (left \o rest))
      <3>1. left \o rest \in Seq(ReplyByte)
        BY <1>6, <1>8, ConcatProperties
      <3>2. got \in Seq(ReplyByte) /\ taking \in Seq(ReplyByte)
        BY <1>6, <1>8
      <3> DEFINE tail == left \o rest
      <3>3. tail \in Seq(ReplyByte)
        BY <3>1
      <3> HIDE DEF tail
      <3>4. ReplyAssociates(got, taking, tail)
        BY <3>2, <3>3, ReplyAssociative
      <3> QED BY <3>4 DEF ReplyAssociates, tail
    <2>2. taking \o (left \o rest) = (taking \o left) \o rest
      <3>1. taking \in Seq(ReplyByte) /\ left \in Seq(ReplyByte) /\ rest \in Seq(ReplyByte)
        BY <1>6, <1>8
      <3>2. ReplyAssociates(taking, left, rest)
        BY <3>1, ReplyAssociative
      <3> QED BY <3>2 DEF ReplyAssociates
    <2> QED BY <1>6, <1>8, <2>1, <2>2, ConcatProperties
  <1>10. got' \in Seq(ReplyByte)
         /\ (got \o Waiting(heap, send, resp, input) = SubSeq(Bytes[stream], 1, taken))'
    <2>1. got \o (all \o rest) = SubSeq(Bytes[stream], 1, taken)
      BY <1>6 DEF IInv
    <2> QED BY <1>1, <1>7, <1>9, <2>1 DEF Waiting, Bytes
  <1> QED BY <1>1, <1>3, <1>4, <1>5, <1>10 DEF IInv, Alone

LEMMA StepInvariant == IInv /\ [Next]_vars => IInv'
  <1> SUFFICES ASSUME IInv, [Next]_vars PROVE IInv'
    OBVIOUS
  <1>1. CASE \E n \in 0..Available : OnReadable(n)
    BY <1>1, OnReadableInvariant
  <1>2. CASE \E n \in 1..Size(send) : OnClientWritable(n)
    BY <1>2, OnClientWritableInvariant
  <1>3. CASE UNCHANGED vars
    <2>1. UNCHANGED <<stream, taken, heap, input, parser, resp, handed, send, got>>
      BY <1>3 DEF vars
    <2>2. (stream \in Streams /\ taken \in 0..Len(Bytes[stream]))'
      BY <2>1 DEF IInv, Bytes
    <2>3. (got \o Waiting(heap, send, resp, input) = SubSeq(Bytes[stream], 1, taken))'
      BY <2>1 DEF IInv, Waiting, Bytes
    <2> QED BY <2>1, <2>2, <2>3 DEF IInv, Alone
  <1> QED BY <1>1, <1>2, <1>3 DEF Next

LEMMA Invariant == Spec => []IInv
  BY InitInvariant, StepInvariant, PTL DEF Spec

--------------------------------------------------------------------------------
(* What the replies that were handed out are, between two reads. *)

\* What two pieces of the stream are.
LEMMA TwoPieces ==
  ASSUME NEW a \in Seq(ReplyByte), NEW b \in Seq(ReplyByte), NEW all \in Seq(ReplyByte),
         NEW t \in 0..Len(all), a \o b = SubSeq(all, 1, t)
  PROVE  /\ a = SubSeq(all, 1, Len(a)) /\ b = SubSeq(all, Len(a) + 1, t)
         /\ Len(a) <= t /\ Len(a) + Len(b) = t
  <1> DEFINE u == SubSeq(all, Len(a) + 1, t)
             x == Len(a)
             y == Len(b)
             n == Len(all)
  <1>1. x \in Nat /\ y \in Nat /\ n \in Nat /\ t \in Nat /\ t <= n
    OBVIOUS
  <1>2. Len(SubSeq(all, 1, t)) = t /\ \A i \in 1..t : SubSeq(all, 1, t)[i] = all[i]
    <2>1. 1 \in 1..(n + 1) /\ t \in (1 - 1)..n
      BY <1>1
    <2>2. /\ Len(SubSeq(all, 1, t)) = IF 1 <= t THEN t - 1 + 1 ELSE 0
          /\ \A i \in 1..(t - 1 + 1) : SubSeq(all, 1, t)[i] = all[1 + i - 1]
      BY <1>1
    <2> HIDE DEF n
    <2>3. 1..(t - 1 + 1) = 1..t /\ \A i \in 1..t : 1 + i - 1 = i
      BY <1>1
    <2> QED BY <1>1, <2>2, <2>3
  <1>3. /\ Len(a \o b) = x + y /\ \A i \in 1..y : (a \o b)[x + i] = b[i]
        /\ \A i \in 1..x : (a \o b)[i] = a[i]
    <2>1. /\ Len(a \o b) = Len(a) + Len(b)
          /\ \A i \in 1..(Len(a) + Len(b)) :
               (a \o b)[i] = IF i <= Len(a) THEN a[i] ELSE b[i - Len(a)]
      BY ConcatProperties
    <2> HIDE DEF x, y
    <2>2. /\ \A i \in 1..y : x + i \in 1..(x + y) /\ ~(x + i <= x) /\ (x + i) - x = i
          /\ \A i \in 1..x : i \in 1..(x + y) /\ i <= x
      BY <1>1
    <2> QED BY <2>1, <2>2 DEF x, y
  <1>4. x + y = t
    BY <1>2, <1>3
  <1>5. u \in Seq(ReplyByte) /\ Len(u) = y /\ \A i \in 1..y : u[i] = all[x + i]
    <2>1. x + 1 \in 1..(n + 1) /\ t \in ((x + 1) - 1)..n
      <3> HIDE DEF x, y, n
      <3> QED BY <1>1, <1>4
    <2>2. u \in Seq(ReplyByte) /\ Len(u) = t - (x + 1) + 1
      BY <2>1, SubSeqProperties
    <2>3. \A i \in 1..(t - (x + 1) + 1) : u[i] = all[(x + 1) + i - 1]
      BY <2>1, SubSeqProperties
    <2> HIDE DEF u, x, y
    <2>4. t - (x + 1) + 1 = y /\ \A i \in 1..y : (x + 1) + i - 1 = x + i
      BY <1>1, <1>4
    <2> QED BY <2>2, <2>3, <2>4
  <1> HIDE DEF u, x, y, n
  <1>6. \A i \in 1..y : b[i] = u[i]
    <2> SUFFICES ASSUME NEW i \in 1..y PROVE b[i] = u[i]
      OBVIOUS
    <2>1. x + i \in 1..t
      BY <1>1, <1>4
    <2>2. (a \o b)[x + i] = all[x + i]
      BY <1>2, <2>1
    <2> QED BY <1>3, <1>5, <2>2
  <1>7. b = u
    <2>1. Len(b) = Len(u) /\ \A i \in 1..Len(b) : b[i] = u[i]
      BY <1>5, <1>6 DEF y
    <2> QED BY <1>5, <2>1, SeqEqual
  <1>8. x <= t
    BY <1>1, <1>4
  <1>9. a = SubSeq(all, 1, x)
    <2> DEFINE v == SubSeq(all, 1, x)
    <2>1. v \in Seq(ReplyByte) /\ Len(v) = x /\ \A i \in 1..x : v[i] = all[i]
      <3>1. 1 \in 1..(n + 1) /\ x \in (1 - 1)..n /\ x - 1 + 1 = x
        BY <1>1, <1>8
      <3>2. \A i \in 1..x : 1 + i - 1 = i
        BY <1>1
      <3>3. /\ v \in Seq(ReplyByte) /\ Len(v) = x - 1 + 1
            /\ \A i \in 1..(x - 1 + 1) : v[i] = all[1 + i - 1]
        BY <3>1, SubSeqProperties DEF n
      <3> HIDE DEF v
      <3> QED BY <3>1, <3>2, <3>3
    <2> HIDE DEF v
    <2>2. \A i \in 1..x : a[i] = v[i]
      <3> SUFFICES ASSUME NEW i \in 1..x PROVE a[i] = v[i]
        OBVIOUS
      <3>1. i \in 1..t
        BY <1>1, <1>8
      <3> QED BY <1>2, <1>3, <2>1, <3>1
    <2>3. Len(a) = Len(v) /\ \A i \in 1..Len(a) : a[i] = v[i]
      BY <2>1, <2>2 DEF x
    <2>4. a = v
      BY <2>1, <2>3, SeqEqual
    <2> QED BY <2>4 DEF v
  <1> QED BY <1>4, <1>7, <1>8, <1>9 DEF u, x, y

\* Between two reads nothing of a complete reply is left to the parser, what the client has
\* or will get are the replies that were handed out, and reads stop only where they may.
Framing ==
  /\ Standing(stream, taken, taken - Size(input), handed, parser)
  /\ Len(got) + Size(send) = Done(stream, handed)
  /\ stop = "no" => Size(input) = 0
  /\ stop # "no" => Stuck(stream, taken, handed, stop)
  /\ FullOnlyAtLineStart
  /\ readable \in BOOLEAN /\ scrambled \in BOOLEAN

LEMMA SizesTyped ==
  ASSUME IInv
  PROVE  Size(input) \in Nat /\ Size(send) \in Nat /\ FreeSize(heap, input) \in Nat
  <1>1. Trio(heap, input, resp, send) /\ Trio(heap, send, resp, input)
    BY Turned DEF IInv
  <1> QED BY <1>1, TrioShared, SharedFacts

LEMMA InitFraming == Init => Framing
  <1> SUFFICES ASSUME Init PROVE Framing
    OBVIOUS
  <1> DEFINE e == EmptyBuffer
             m == AppendCapacity(EmptyHeap, e, InitSize)
  <1>1. /\ stream \in Streams /\ taken = 0 /\ heap = m.heap /\ input = m.buf
        /\ parser = NewParser /\ send = e /\ handed = 0 /\ got = <<>> /\ stop = "no"
        /\ readable = TRUE /\ scrambled = FALSE
    BY DEF Init, InitialBuffer
  <1>2. IInv
    BY InitInvariant
  <1>3. Size(send) = 0 /\ Len(got) = 0
    BY <1>1 DEF EmptyBuffer, Size
  <1>4. FreeSize(heap, input) >= InitSize /\ Size(input) = 0
    <2>1. e \in Pointer /\ e.data = Null /\ e.offset = 0 /\ e.size = 0
      BY DEF EmptyBuffer, Pointer
    <2>2. Trio(EmptyHeap, e, e, e)
      BY EmptyTrio
    <2>3. InitSize \in Nat
      BY BufferSizesAssumption
    <2>4. Size(e) = 0
      BY <2>1 DEF Size
    <2> HIDE DEF e
    <2>5. FreeSize(m.heap, m.buf) >= InitSize /\ Size(m.buf) = Size(e)
      BY <2>2, <2>3, CapacityAppended
    <2> QED BY <1>1, <2>4, <2>5
  <1>5. ~(FreeSize(heap, input) = 0)
    BY <1>2, <1>4, BufferSizesAssumption, SizesTyped
  <1>6. 0 \in 0..Len(stream) /\ Done(stream, 0) = 0
    <2>1. Len(stream) \in Nat /\ ReplyEnd[stream][0] = 0
      BY <1>1, BytesFacts, StreamFacts DEF InOrder
    <2>2. Unskipped(stream, 0) = 0
      BY DEF Unskipped
    <2> QED BY <2>1, <2>2 DEF Done
  <1>7. /\ NewParser \in ReplyFields /\ NewParser.type = "none" /\ NewParser.mlen = 0
        /\ NewParser.mindex = 0 /\ NewParser.blen = 0
    BY DEF NewParser, ReplyFields
  <1>8. Standing(stream, taken, taken - Size(input), handed, parser)
    <2>1. taken - Size(input) = 0
      BY <1>1, <1>4
    <2> QED BY <1>1, <1>6, <1>7, <2>1 DEF Standing, Fresh
  <1>9. Len(got) + Size(send) = Done(stream, handed)
    BY <1>1, <1>3, <1>6
  <1>10. FullOnlyAtLineStart /\ readable \in BOOLEAN /\ scrambled \in BOOLEAN
    BY <1>1, <1>5 DEF FullOnlyAtLineStart
  <1> QED BY <1>1, <1>4, <1>8, <1>9, <1>10 DEF Framing

\* More of the stream does not move the parser.
LEMMA StandingLater ==
  ASSUME NEW s \in Streams, NEW t \in Nat, NEW u \in Nat, t <= u, NEW p, NEW h, NEW ps,
         Standing(s, t, p, h, ps)
  PROVE  Standing(s, u, p, h, ps)
  <1>1. CASE Fresh(s, p, h, ps)
    BY <1>1 DEF Standing
  <1>2. CASE ~Fresh(s, p, h, ps)
    <2>1. /\ Inside(s, t, p, h + 1, ps) /\ ps.mindex < ps.mlen /\ h \in 0..Len(s)
          /\ Unskipped(s, h) = 0
      BY <1>2 DEF Standing
    <2>2. Started(s, t, h + 1, ps)
      BY <2>1 DEF Inside, InFront, Behind
    <2>3. ReplyEnd[s][(h + 1) - 1] \in Nat
      BY <2>1, DoneFacts
    <2> DEFINE x == ReplyEnd[s][(h + 1) - 1]
    <2>4. x < u
      <3>1. x < t /\ x \in Nat
        BY <2>2, <2>3 DEF Started
      <3> HIDE DEF x
      <3> QED BY <3>1
    <2>5. Started(s, u, h + 1, ps)
      BY <2>2, <2>4 DEF Started
    <2>6. Inside(s, u, p, h + 1, ps)
      BY <2>1, <2>5 DEF Inside, InFront, Behind
    <2> QED BY <2>1, <2>6 DEF Standing
  <1> QED BY <1>1, <1>2

\* How far the loop got with what was read.
LEMMA ReadEnds ==
  ASSUME IInv, Framing, NEW n, NEW m, NEW r, HasRead(n, m, r)
  PROVE  /\ AllRead(stream, Len(got), taken + n, Begin(m), r)
         /\ Begin(m).handed = handed
  <1> DEFINE start == Begin(m)
             s == stream
             t == taken + n
             g == Len(got)
             z == Waiting(m.heap, send, resp, m.buf)
  <1>1. /\ s \in Streams /\ n \in Nat /\ taken \in Nat /\ t <= Len(Bytes[s]) /\ t \in Nat
        /\ Trio(m.heap, resp, m.buf, send) /\ m.buf.data = input.data
        /\ Size(m.buf) = Size(input) + n /\ got \in Seq(ReplyByte) /\ g \in Nat
        /\ got \o z = SubSeq(Bytes[s], 1, t) /\ r = Handled(m)
    BY DEF HasRead
  <1>2. /\ Good(z, start) /\ Apart(start) /\ start.err = "OK" /\ start.at = 0
        /\ start.input = m.buf /\ start.send = send /\ start.parser = parser
        /\ start.handed = handed /\ start.stop = "no"
    <2> HIDE DEF start, z
    <2> QED BY <1>1, BeginGood DEF start, z
  <1>3. z \in Seq(ReplyByte)
    <2> DEFINE a == Contents(m.heap, send)
               b == Contents(m.heap, resp)
               c == Contents(m.heap, m.buf)
    <2>1. Trio(m.heap, send, resp, m.buf) /\ Trio(m.heap, m.buf, resp, send)
      BY <1>1, Turned
    <2>2. a \in Seq(ReplyByte) /\ b \in Seq(ReplyByte) /\ c \in Seq(ReplyByte)
      BY <1>1, <2>1, TrioShared, ContentsFacts
    <2>3. z = a \o (b \o c)
      BY DEF Waiting
    <2> HIDE DEF a, b, c, z
    <2>4. b \o c \in Seq(ReplyByte) /\ a \o (b \o c) \in Seq(ReplyByte)
      BY <2>2, ConcatProperties
    <2> QED BY <2>3, <2>4
  <1>4. r = Replies(start)
    BY <1>1 DEF Handled, Begin
  <1> HIDE DEF start, z
  <1>5. z = SubSeq(Bytes[s], g + 1, t) /\ g <= t
    <2>1. Bytes[s] \in Seq(ReplyByte) /\ Len(Bytes[s]) \in Nat
      BY <1>1, BytesTyped
    <2>2. t \in 0..Len(Bytes[s])
      BY <1>1, <2>1
    <2> QED BY <1>1, <1>3, <2>1, <2>2, TwoPieces
  <1>6. Standing(s, t, ReplyPos(t, start), handed, parser)
    <2>1. Len(Unread(start)) = Size(m.buf) - 0 /\ Size(m.buf) \in Nat
      BY <1>2, ReplyUnreadFacts
    <2>2. Size(input) \in Nat
      BY SizesTyped
    <2> DEFINE x == Size(input)
               y == Size(m.buf)
               u == Len(Unread(start))
    <2>3. u = y - 0 /\ y = x + n /\ x \in Nat
      BY <1>1, <2>1, <2>2
    <2> HIDE DEF x, y, u
    <2>4. (taken + n) - u = taken - x
      BY <1>1, <2>3
    <2>5. ReplyPos(t, start) = taken - Size(input)
      BY <2>4 DEF ReplyPos, u, x
    <2>6. Standing(s, taken, taken - Size(input), handed, parser)
      BY DEF Framing
    <2>7. taken <= t
      BY <1>1
    <2> QED BY <1>1, <2>5, <2>6, <2>7, StandingLater
  <1>7. Between(s, g, t, start)
    <2>1. g + Size(send) = Done(s, handed)
      BY DEF Framing
    <2> QED BY <1>2, <1>5, <1>6, <2>1 DEF Between
  <1>8. AllRead(s, g, t, start, r)
    BY <1>1, <1>4, <1>5, <1>7, RepliesRead
  <1> QED BY <1>2, <1>8 DEF start

\* Nothing of an empty element is skipped that is not left: where a read changes nothing.
LEMMA JammedStays ==
  ASSUME NEW s \in Streams, NEW t \in Nat, NEW p, NEW h, NEW ps,
         Standing(s, t, p, h, ps), Unskipped(s, h) # 0
  PROVE  p = Done(s, h)
  BY DEF Standing, Fresh

LEMMA ReadFraming ==
  ASSUME IInv, Framing, NEW n, NEW m, NEW r, HasRead(n, m, r)
  PROVE  Framing'
  <1> DEFINE s == stream
             t == taken + n
             g == Grown(r)
             l == Len(got)
  <1>1. /\ s \in Streams /\ t \in Nat /\ Leaves(n, r, g) /\ r = Handled(m)
        /\ Trio(m.heap, resp, m.buf, send) /\ m.buf.data = input.data
        /\ n = 0 <=> FreeSize(heap, input) = 0
        /\ stop # "unpredictable" /\ taken \in Nat /\ n \in Nat
    BY DEF HasRead
  <1>2. /\ Between(s, l, t, r) /\ (r.stop # "no" \/ Size(r.input) = 0)
        /\ Unskipped(s, handed) # 0 => r.handed = handed
    BY ReadEnds DEF AllRead
  <1>3. \E z : Good(z, r) /\ Apart(r) /\ r.at = 0
    BY <1>1, HandledGood
  <1>4. PICK z : Good(z, r) /\ Apart(r) /\ r.at = 0
    BY <1>3
  <1>5. /\ Size(g.buf) = Size(r.input)
        /\ r.stop \in {"no", "TryAgain"} => FreeSize(g.heap, g.buf) >= MinSize
    BY <1>4, GrownGood
  <1>6. Len(Unread(r)) = Size(r.input) - 0 /\ Size(r.input) \in Nat
    BY <1>4, ReplyUnreadFacts
  <1> HIDE DEF g
  <1>7. /\ heap' = g.heap /\ input' = g.buf /\ parser' = r.parser /\ stop' = r.stop
        /\ handed' = r.handed /\ send' = r.send /\ taken' = t /\ stream' = s
        /\ got' = got /\ readable' = (n # 0)
    BY <1>1 DEF Leaves
  <1>8. scrambled' \in BOOLEAN /\ readable' \in BOOLEAN
    BY <1>1, <1>7 DEF Leaves
  <1>9. ReplyPos(t, r) = t - Size(r.input)
    BY <1>6 DEF ReplyPos
  <1>10. Standing(s, t, t - Size(r.input), r.handed, r.parser)
    BY <1>2, <1>9 DEF Between
  <1>11. l + Size(r.send) = Done(s, r.handed)
    BY <1>2 DEF Between
  <1>12. r.stop = "no" \/ Stuck(s, t, r.handed, r.stop)
    BY <1>2 DEF Between
  <1>13. (Standing(stream, taken, taken - Size(input), handed, parser))'
    BY <1>5, <1>7, <1>10
  <1>14. (Len(got) + Size(send) = Done(stream, handed))'
    BY <1>7, <1>11 DEF Done, ReplyEnd, Unskipped, Rest
  <1>15. /\ (stop = "no" => Size(input) = 0)'
         /\ (stop # "no" => Stuck(stream, taken, handed, stop))'
    BY <1>2, <1>5, <1>7, <1>12
  <1>16. FullOnlyAtLineStart'
    <2>1. CASE n = 0 /\ taken \in LineStarts[s]
      <3>1. taken' = taken
        BY <1>1, <1>7, <2>1
      <3> QED BY <1>7, <2>1, <3>1 DEF FullOnlyAtLineStart, LineStarts
    <2>2. CASE n = 0 /\ taken \notin LineStarts[s]
      <3>1. stop = "Unknown"
        BY <1>1, <2>2 DEF Framing, FullOnlyAtLineStart
      <3>2. Stuck(s, taken, handed, stop)
        BY <3>1 DEF Framing
      <3>3. Unskipped(s, handed) # 0 /\ Done(s, handed) < taken
        BY <3>1, <3>2 DEF Stuck
      <3>4. r.handed = handed /\ t = taken
        BY <1>1, <1>2, <2>2, <3>3
      <3>5. CASE r.stop = "no"
        <4>1. t - Size(r.input) = Done(s, handed)
          BY <1>1, <1>10, <3>3, <3>4, JammedStays
        <4>2. Size(r.input) = 0
          BY <1>2, <3>5
        <4> DEFINE d == Done(s, handed)
        <4>3. t - 0 = d /\ d < taken
          BY <3>3, <4>1, <4>2
        <4> HIDE DEF d
        <4> QED BY <1>1, <3>4, <4>3
      <3>6. CASE r.stop # "no"
        <4>1. r.stop = "Unknown"
          BY <1>12, <3>3, <3>4, <3>6 DEF Stuck
        <4> QED BY <1>7, <4>1 DEF FullOnlyAtLineStart
      <3> QED BY <3>5, <3>6
    <2>3. CASE n # 0
      <3>1. CASE FreeSize(g.heap, g.buf) # 0
        BY <1>7, <2>3, <3>1 DEF FullOnlyAtLineStart
      <3>2. CASE FreeSize(g.heap, g.buf) = 0
        <4>1. r.stop \notin {"no", "TryAgain"}
          BY <1>5, <3>2, BufferSizesAssumption
        <4>2. t \in LineStarts[s] \/ r.stop \in {"Unknown", "unpredictable"}
          BY <1>12, <4>1 DEF Stuck
        <4> QED BY <1>7, <4>2 DEF FullOnlyAtLineStart, LineStarts
      <3> QED BY <3>1, <3>2
    <2> QED BY <2>1, <2>2, <2>3
  <1> QED BY <1>8, <1>13, <1>14, <1>15, <1>16 DEF Framing

LEMMA WriteFraming ==
  ASSUME IInv, Framing, NEW n \in 1..Size(send), OnClientWritable(n)
  PROVE  Framing'
  <1> DEFINE k == Written(n)
             bytes == Contents(heap, send)
             taking == SubSeq(bytes, 1, n)
  <1>1. /\ heap' = k.heap /\ send' = k.buf /\ got' = got \o taking
        /\ UNCHANGED <<stream, taken, input, parser, readable, handed, stop, scrambled>>
    BY DEF OnClientWritable
  <1>2. FreeSize(k.heap, input) = FreeSize(heap, input) /\ Size(k.buf) = Size(send) - n
    BY WrittenTrio
  <1> HIDE DEF k
  <1>3. Len(got \o taking) = Len(got) + n /\ Len(got) \in Nat
    <2>1. bytes \in Seq(ReplyByte) /\ Len(bytes) = Size(send) /\ Size(send) \in Nat
      <3>1. Trio(heap, send, resp, input)
        BY Turned DEF IInv
      <3> QED BY <3>1, TrioShared, ContentsFacts, SharedFacts
    <2> HIDE DEF bytes
    <2>2. taking \in Seq(ReplyByte) /\ Len(taking) = n
      <3>1. 1 \in 1..(Len(bytes) + 1) /\ n \in (1 - 1)..Len(bytes) /\ n - 1 + 1 = n
        BY <2>1
      <3> QED BY <2>1, <3>1, SubSeqProperties
    <2> HIDE DEF taking
    <2>3. got \in Seq(ReplyByte)
      BY DEF IInv
    <2>4. Len(got \o taking) = Len(got) + Len(taking)
      BY <2>2, <2>3, ConcatProperties
    <2> QED BY <2>2, <2>3, <2>4
  <1> HIDE DEF taking
  <1>4. Len(got \o taking) + Size(k.buf) = Len(got) + Size(send)
    <2> DEFINE x == Len(got)
               y == Size(send)
    <2>1. x \in Nat /\ y \in Nat /\ n \in Nat
      BY <1>3, SizesTyped
    <2>2. Len(got \o taking) = x + n /\ Size(k.buf) = y - n
      BY <1>2, <1>3
    <2> HIDE DEF x, y
    <2>3. Len(got \o taking) + Size(k.buf) = x + y
      BY <2>1, <2>2
    <2> QED BY <2>3 DEF x, y
  <1>5. (Len(got) + Size(send) = Done(stream, handed))'
    BY <1>1, <1>4 DEF Framing, Done, ReplyEnd, Unskipped, Rest
  <1>6. FullOnlyAtLineStart'
    BY <1>1, <1>2 DEF Framing, FullOnlyAtLineStart, LineStarts
  <1>7. (Standing(stream, taken, taken - Size(input), handed, parser))'
    BY <1>1 DEF Framing
  <1> QED BY <1>1, <1>5, <1>6, <1>7 DEF Framing

LEMMA StepFraming == IInv /\ Framing /\ [Next]_vars => Framing'
  <1> SUFFICES ASSUME IInv, Framing, [Next]_vars PROVE Framing'
    OBVIOUS
  <1>1. CASE \E n \in 0..Available : OnReadable(n)
    BY <1>1, HasReadFacts, ReadFraming
  <1>2. CASE \E n \in 1..Size(send) : OnClientWritable(n)
    BY <1>2, WriteFraming
  <1>3. CASE UNCHANGED vars
    <2>1. UNCHANGED <<stream, taken, heap, input, parser, readable, handed, stop, send, got,
                      scrambled>>
      BY <1>3 DEF vars
    <2>2. FullOnlyAtLineStart'
      BY <2>1 DEF Framing, FullOnlyAtLineStart, LineStarts
    <2>3. (Standing(stream, taken, taken - Size(input), handed, parser))'
      BY <2>1 DEF Framing
    <2>4. (Len(got) + Size(send) = Done(stream, handed))'
      BY <2>1 DEF Framing
    <2> QED BY <2>1, <2>2, <2>3, <2>4 DEF Framing
  <1> QED BY <1>1, <1>2, <1>3 DEF Next

LEMMA FramingInvariant == Spec => [](IInv /\ Framing)
  <1>1. Init => IInv /\ Framing
    BY InitInvariant, InitFraming
  <1>2. IInv /\ Framing /\ [Next]_vars => (IInv /\ Framing)'
    BY StepInvariant, StepFraming
  <1> QED BY <1>1, <1>2, PTL DEF Spec

\* What is sent and what is not yet parsed are pieces of what was read.
LEMMA GotFacts ==
  ASSUME IInv
  PROVE  /\ got \o Contents(heap, send)
              = SubSeq(Bytes[stream], 1, Len(got) + Size(send))
         /\ Len(got) \in Nat /\ Len(got) + Size(send) <= taken
  <1> DEFINE a == Contents(heap, send)
             rest == Contents(heap, resp) \o Contents(heap, input)
             all == Bytes[stream]
             x == Len(got)
             y == Size(send)
  <1>1. /\ got \in Seq(ReplyByte) /\ a \in Seq(ReplyByte) /\ rest \in Seq(ReplyByte)
        /\ all \in Seq(ReplyByte) /\ taken \in 0..Len(all)
        /\ got \o (a \o rest) = SubSeq(all, 1, taken)
    <2>1. got \o Waiting(heap, send, resp, input) = SubSeq(all, 1, taken)
      BY DEF IInv
    <2>2. Waiting(heap, send, resp, input) = a \o rest
      BY DEF Waiting
    <2> QED BY <2>1, <2>2, WaitingTyped, BytesTyped DEF IInv
  <1>2. Len(a) = y
    <2>1. Trio(heap, send, resp, input)
      BY Turned DEF IInv
    <2> QED BY <2>1, TrioShared, ContentsFacts
  <1> HIDE DEF a, rest, all
  <1>3. /\ (got \o a) \o rest = SubSeq(all, 1, taken) /\ got \o a \in Seq(ReplyByte)
    <2>1. ReplyAssociates(got, a, rest)
      BY <1>1, ReplyAssociative
    <2>2. (got \o a) \o rest = got \o (a \o rest) /\ got \o a \in Seq(ReplyByte)
      BY <2>1 DEF ReplyAssociates
    <2>3. got \o (a \o rest) = SubSeq(all, 1, taken)
      BY <1>1
    <2> QED BY <2>2, <2>3, Zenon
  <1>4. got \o a = SubSeq(all, 1, Len(got \o a)) /\ Len(got \o a) <= taken
    <2> DEFINE b == got \o a
    <2>1. b \in Seq(ReplyByte) /\ b \o rest = SubSeq(all, 1, taken)
      BY <1>3
    <2> HIDE DEF b
    <2>2. b = SubSeq(all, 1, Len(b)) /\ Len(b) <= taken
      BY <1>1, <2>1, TwoPieces
    <2> QED BY <2>2 DEF b
  <1>5. Len(got \o a) = x + y /\ x \in Nat
    <2>1. Len(got \o a) = Len(got) + Len(a)
      BY <1>1, ConcatProperties
    <2> QED BY <1>1, <1>2, <2>1
  <1> QED BY <1>4, <1>5 DEF a, all

\* Every reply has bytes.
LEMMA ReplyNotEmpty ==
  ASSUME NEW s \in Streams, NEW c \in 1..Len(s)
  PROVE  ReplyEnd[s][c - 1] + 2 <= ReplyEnd[s][c]
  <1> DEFINE p == ReplyEnd[s][c - 1]
  <1>1. CASE s[c].kind # "bulk"
    BY <1>1, HeadAt
  <1>2. CASE s[c].kind = "bulk"
    <2> DEFINE v == s[c].elements[0 + 1]
               e == ReplyEnd[s][c]
    <2>1. Len(s[c].elements) = 1 /\ LineStart(s, c, 0) = p
      BY <1>2, StreamFacts, HeadAt
    <2>2. 0 \in 0..(Len(s[c].elements) - 1) /\ Rest(s, c, 0) = 0
      BY <2>1 DEF Rest
    <2>3. Begins(s, c, 0, v, LineStart(s, c, 0))
      BY <2>2, ElementAt
    <2>4. v \in Nat \union {-1} /\ p \in Nat /\ p + 2 + Body(v) <= e /\ e \in Nat
      BY <2>1, <2>3, PlaceFacts DEF Begins, LineAt, Places
    <2> HIDE DEF v, e, p
    <2>5. Body(v) \in Nat
      BY <2>4 DEF Body
    <2>6. p + 2 <= e
      BY <2>4, <2>5
    <2> QED BY <2>6 DEF p, e
  <1> QED BY <1>1, <1>2

LEMMA FramedFacts ==
  ASSUME NEW s \in Streams, Framed(s)
  PROVE  /\ \A c \in 1..Len(s) : \A i \in 0..Len(s[c].elements) : Rest(s, c, i) = 0
         /\ \A c \in 0..Len(s) : Unskipped(s, c) = 0 /\ Done(s, c) = ReplyEnd[s][c]
  <1>1. ASSUME NEW c \in 1..Len(s), NEW i \in 0..Len(s[c].elements)
        PROVE  Rest(s, c, i) = 0
    <2>1. Len(s[c].elements) \in Nat
      BY StreamFacts
    <2>2. i > 0 => i \in 1..Len(s[c].elements)
      BY <2>1
    <2> QED BY <2>2 DEF Rest, Framed
  <1>2. ASSUME NEW c \in 0..Len(s)
        PROVE  Unskipped(s, c) = 0 /\ Done(s, c) = ReplyEnd[s][c]
    <2>1. Unskipped(s, c) = 0
      <3>1. CASE c > 0
        <4>1. c \in 1..Len(s)
          BY <3>1
        <4>2. Len(s[c].elements) \in 0..Len(s[c].elements)
          BY <4>1, StreamFacts
        <4> QED BY <1>1, <4>1, <4>2 DEF Unskipped
      <3>2. CASE ~(c > 0)
        BY <3>2 DEF Unskipped
      <3> QED BY <3>1, <3>2
    <2> QED BY <2>1, DoneFacts
  <1> QED BY <1>1, <1>2

\* Where there is no empty element, the reply behind those handed out is not complete.
LEMMA NoneWaits ==
  ASSUME IInv, Framing, Framed(stream), handed < Len(stream)
  PROVE  taken < ReplyEnd[stream][handed + 1]
  <1> DEFINE s == stream
             h == handed
             c == h + 1
             e == ReplyEnd[s][c]
  <1>1. s \in Streams /\ taken \in Nat /\ Len(s) \in Nat
    BY StreamFacts, BytesTyped DEF IInv
  <1>2. h \in 0..Len(s) /\ c \in 1..Len(s) /\ c - 1 = h
    <2>1. h \in 0..Len(s)
      BY DEF Framing, Standing, Fresh
    <2> QED BY <1>1, <2>1
  <1>3. CASE stop # "no"
    <2>1. Stuck(s, taken, h, stop) /\ Unskipped(s, h) = 0
      BY <1>1, <1>2, <1>3, FramedFacts DEF Framing
    <2> QED BY <2>1 DEF Stuck
  <1>4. CASE stop = "no"
    <2>1. Standing(s, taken, taken, h, parser)
      <3>1. taken - Size(input) = taken
        BY <1>1, <1>4 DEF Framing
      <3> QED BY <3>1 DEF Framing
    <2>2. e \in Nat
      BY <1>2, <1>1, DoneFacts
    <2>3. CASE Fresh(s, taken, h, parser)
      <3>1. taken = ReplyEnd[s][h]
        BY <1>1, <1>2, <2>3, FramedFacts DEF Fresh
      <3>2. ReplyEnd[s][c - 1] + 2 <= e
        BY <1>1, <1>2, ReplyNotEmpty
      <3> HIDE DEF e, c
      <3>3. taken + 2 <= e
        BY <1>2, <3>1, <3>2
      <3>4. taken < e
        BY <1>1, <2>2, <3>3
      <3> QED BY <3>4 DEF e, c
    <2>4. CASE ~Fresh(s, taken, h, parser)
      <3> DEFINE i == parser.mindex
                 v == s[c].elements[i + 1]
                 p == LineStart(s, c, i)
      <3>1. Inside(s, taken, taken, c, parser) /\ i < parser.mlen
        BY <2>1, <2>4 DEF Standing
      <3>2. Started(s, taken, c, parser)
        BY <3>1 DEF Inside, InFront, Behind
      <3>3. i \in 0..(Len(s[c].elements) - 1) /\ i \in 0..Len(s[c].elements)
        <4>1. parser.mlen = Len(s[c].elements) /\ i \in 0..parser.mlen
              /\ Len(s[c].elements) \in Nat
          BY <1>1, <1>2, <3>2, StreamFacts DEF Started
        <4> QED BY <3>1, <4>1
      <3>4. Rest(s, c, i) = 0
        BY <1>1, <1>2, <3>3, FramedFacts
      <3>5. Begins(s, c, i, v, p)
        BY <1>1, <1>2, <3>3, <3>4, ElementAt
      <3>6. taken = p \/ (taken = p + 2 /\ v > 0)
        BY <3>1 DEF Inside, InFront, Behind
      <3>7. v \in Nat \union {-1} /\ p \in Nat /\ p + 2 + Body(v) <= e
        BY <3>5 DEF Begins, LineAt
      <3> HIDE DEF v, p, e
      <3>8. Body(v) \in Nat /\ (v > 0 => Body(v) = v + 2)
        BY <3>7 DEF Body
      <3>9. taken < e
        BY <2>2, <3>6, <3>7, <3>8
      <3> QED BY <3>9 DEF e
    <2> QED BY <2>3, <2>4
  <1> QED BY <1>3, <1>4

\* As many replies have arrived as were handed out.
LEMMA AllHandedOut ==
  ASSUME IInv, Framing, Framed(stream)
  PROVE  Arrived = handed /\ Done(stream, handed) = ReplyEnd[stream][handed]
  <1> DEFINE s == stream
             h == handed
             n == Len(s)
             end == ReplyEnd[s]
  <1>1. s \in Streams /\ taken \in Nat /\ n \in Nat
    BY StreamFacts, BytesTyped DEF IInv
  <1>2. h \in 0..n
    BY DEF Framing, Standing, Fresh
  <1>3. Done(s, h) = end[h]
    BY <1>1, <1>2, FramedFacts
  <1>4. end[h] <= taken
    BY <1>3, GotFacts DEF Framing
  <1>5. h < n => taken < end[h + 1]
    BY NoneWaits
  <1>6. InOrder(s, Bytes[s], end, n)
    BY <1>1, BytesFacts
  <1>7. /\ \A c \in 0..n : end[c] \in Nat
        /\ \A c, d \in 0..n : c <= d => end[c] <= end[d]
    BY <1>6 DEF InOrder
  <1>8. Arrived = Cardinality({c \in 1..n : end[c] <= taken})
    BY DEF Arrived
  <1> HIDE DEF end, n, s, h
  <1>9. {c \in 1..n : end[c] <= taken} = 1..h
    <2>1. ASSUME NEW c \in 1..n, c <= h PROVE end[c] <= taken
      <3>1. end[c] <= end[h] /\ end[c] \in Nat /\ end[h] \in Nat
        BY <1>1, <1>2, <1>7, <2>1
      <3> QED BY <1>1, <1>4, <3>1
    <2>2. ASSUME NEW c \in 1..n, ~(c <= h) PROVE ~(end[c] <= taken)
      <3>1. h < n /\ h + 1 <= c /\ h + 1 \in 0..n /\ c \in 0..n
        BY <1>1, <1>2, <2>2
      <3>2. end[h + 1] <= end[c] /\ end[c] \in Nat /\ end[h + 1] \in Nat
        BY <1>7, <3>1
      <3> QED BY <1>1, <1>5, <3>1, <3>2
    <2>3. \A c \in 1..n : end[c] <= taken <=> c <= h
      BY <2>1, <2>2
    <2>4. 1..h = {c \in 1..n : c <= h}
      BY <1>1, <1>2
    <2> QED BY <2>3, <2>4
  <1>10. Cardinality(1..h) = h
    BY <1>2, FS_Interval
  <1> QED BY <1>3, <1>8, <1>9, <1>10 DEF s, h, end

--------------------------------------------------------------------------------
(* The theorems. *)

\* A block is referenced exactly by those of the input, respBuffer_ and the client's send
\* buffer that look into it: whether a line reply shares the input's block or respBuffer_
\* is appended to in pieces, Clear and the growth of the buffer give up what was taken,
\* for every sequence of replies and every cut into reads and writes.
THEOREM BlocksAreAccounted == Spec => []BlocksAccounted
  <1>1. IInv => BlocksAccounted
    <2> SUFFICES ASSUME IInv PROVE Counted(heap, <<input, resp, send>>)
      BY DEF BlocksAccounted
    <2>1. Trio(heap, input, resp, send)
      BY Turned DEF IInv
    <2> QED BY <2>1, TrioCounted
  <1> QED BY <1>1, Invariant, PTL

\* What the client got, its send buffer, respBuffer_ and the input are together what was
\* read from the server: no byte of a reply is lost, repeated or overtaken between the two
\* sockets, through sharing and copying, cut reads and writes, the growth of the buffer
\* and Clear, whatever the replies are, the empty bulk string that jams included.
THEOREM NoByteIsLost == Spec => []BytesKept
  <1>1. IInv => BytesKept
    <2> SUFFICES ASSUME IInv PROVE BytesKept
      OBVIOUS
    <2> DEFINE a == Contents(heap, send)
               b == Contents(heap, resp)
               c == Contents(heap, input)
    <2>1. /\ got \in Seq(ReplyByte)
          /\ got \o (a \o (b \o c)) = SubSeq(Bytes[stream], 1, taken)
      BY DEF IInv, Waiting
    <2>2. a \in Seq(ReplyByte) /\ b \in Seq(ReplyByte) /\ c \in Seq(ReplyByte)
      <3>1. /\ Trio(heap, send, resp, input) /\ Trio(heap, resp, input, send)
            /\ Trio(heap, input, resp, send)
        BY Turned DEF IInv
      <3> QED BY <3>1, TrioShared, ContentsFacts
    <2> HIDE DEF a, b, c
    <2>3. /\ ((got \o a) \o b) \o c = (got \o a) \o (b \o c)
          /\ (got \o a) \o (b \o c) = got \o (a \o (b \o c))
      <3>1. got \o a \in Seq(ReplyByte) /\ b \o c \in Seq(ReplyByte)
        BY <2>1, <2>2, ConcatProperties
      <3>2. ((got \o a) \o b) \o c = (got \o a) \o (b \o c)
        <4> DEFINE ga == got \o a
        <4>1. ga \in Seq(ReplyByte) /\ b \in Seq(ReplyByte) /\ c \in Seq(ReplyByte)
          BY <2>2, <3>1
        <4> HIDE DEF ga
        <4>2. ReplyAssociates(ga, b, c)
          BY <4>1, ReplyAssociative
        <4> QED BY <4>2 DEF ReplyAssociates, ga
      <3>3. (got \o a) \o (b \o c) = got \o (a \o (b \o c))
        <4> DEFINE bc == b \o c
        <4>1. got \in Seq(ReplyByte) /\ a \in Seq(ReplyByte) /\ bc \in Seq(ReplyByte)
          BY <2>1, <2>2, <3>1
        <4> HIDE DEF bc
        <4>2. ReplyAssociates(got, a, bc)
          BY <4>1, ReplyAssociative
        <4> QED BY <4>2 DEF ReplyAssociates, bc
      <3> QED BY <3>2, <3>3
    <2>4. ((got \o a) \o b) \o c = SubSeq(Bytes[stream], 1, taken)
      BY <2>1, <2>3
    <2> QED BY <2>4 DEF BytesKept, a, b, c
  <1> QED BY <1>1, Invariant, PTL

\* Wherever reads and writes end, the state is one that TypeOK describes: every range of
\* a Buffer lies inside its block, and the parser awaits no negative number of bytes.
THEOREM TypeCorrect == Spec => []TypeOK
  <1>1. IInv /\ Framing => TypeOK
    <2> SUFFICES ASSUME IInv, Framing PROVE TypeOK
      OBVIOUS
    <2>1. /\ DOMAIN heap = Blocks
          /\ InBounds(heap, input) /\ InBounds(heap, resp) /\ InBounds(heap, send)
      BY DEF IInv, Trio, Memory
    <2>2. parser \in ReplyFields /\ parser.blen >= 0
      BY DEF IInv, Framing, Standing, Fresh, Inside, InFront, Behind, ReplyFields
    <2>3. parser \in [type : {"none", "multibulk", "inline"}, mlen : Int, mindex : Nat,
                      blen : Nat]
      BY <2>2 DEF ReplyFields
    <2>4. handed \in 0..Len(stream)
      BY DEF Framing, Standing, Fresh
    <2>5. stop \in Stops
      BY DEF Framing, Stuck, Stops
    <2>6. Len(got) <= Len(Bytes[stream])
      <3> DEFINE x == Len(got)
                 y == Size(send)
                 l == Len(Bytes[stream])
      <3>1. x \in Nat /\ y \in Nat /\ x + y <= taken
        BY GotFacts, SizesTyped
      <3>2. taken \in 0..l /\ l \in Nat
        BY BytesTyped DEF IInv
      <3> HIDE DEF x, y, l
      <3>3. x <= l
        BY <3>1, <3>2
      <3> QED BY <3>3 DEF x, l
    <2> QED BY <2>1, <2>3, <2>4, <2>5, <2>6 DEF TypeOK, IInv, Framing
  <1> QED BY <1>1, FramingInvariant, PTL

\* If no element is the empty string, the client has got or will get, byte for byte, exactly
\* the replies that have arrived whole, for every sequence of replies and every cut into
\* reads: OnServerRead takes up a reply where the read before left it, leaves none of them
\* in the input, and hands none out in pieces or twice.
THEOREM EveryReplyIntact == Spec => []RepliesIntact
  <1>1. IInv /\ Framing => RepliesIntact
    <2> SUFFICES ASSUME IInv, Framing, Framed(stream)
                 PROVE  got \o Contents(heap, send)
                          = SubSeq(Bytes[stream], 1, ReplyEnd[stream][Arrived])
      BY DEF RepliesIntact
    <2>1. Len(got) + Size(send) = ReplyEnd[stream][Arrived]
      BY AllHandedOut DEF Framing
    <2> QED BY <2>1, GotFacts
  <1> QED BY <1>1, FramingInvariant, PTL

\* Wherever reads cut the replies, OnServerRead finds bytes of no reply type only in the
\* end of line of an empty bulk string that ended the reply it handed out last: no cut and
\* no partial parse makes it take up a reply anywhere but at its first byte.
THEOREM UnknownNeedsEmptyBulk == Spec => []UnknownOnlyBehindEmptyBulk
  <1>1. IInv /\ Framing => UnknownOnlyBehindEmptyBulk
    <2> DEFINE s == stream
               h == handed
               last == s[h].elements
    <2> SUFFICES ASSUME IInv, Framing, stop = "Unknown"
                 PROVE  h > 0 /\ last # <<>> /\ last[Len(last)] = 0
      BY DEF UnknownOnlyBehindEmptyBulk
    <2>1. s \in Streams /\ Len(s) \in Nat /\ h \in 0..Len(s)
      BY StreamFacts DEF IInv, Framing, Standing, Fresh
    <2>2. Unskipped(s, h) # 0
      BY <2>1, DoneFacts DEF Framing, Stuck
    <2>3. h > 0
      BY <2>1, <2>2 DEF Unskipped
    <2>4. Len(last) > 0 /\ last[Len(last)] = 0
      BY <2>2, <2>3 DEF Unskipped, Rest
    <2>5. last # <<>>
      BY <2>4
    <2> QED BY <2>3, <2>4, <2>5
  <1> QED BY <1>1, FramingInvariant, PTL

\* The server connection stops reading for good only where an array's next length line
\* begins exactly at the end of a read that filled the buffer, or where the input is jammed:
\* everywhere else OnServerRead makes room for MinSize bytes.
THEOREM FullAtLineStart == Spec => []FullOnlyAtLineStart
  <1>1. Framing => FullOnlyAtLineStart
    BY DEF Framing
  <1> QED BY <1>1, FramingInvariant, PTL
==================================================================================
