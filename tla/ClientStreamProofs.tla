-------------------------- MODULE ClientStreamProofs --------------------------
(***************************************************************************)
(* Theorems about ClientStream.tla, for every length of a command and of   *)
(* the stream and every number of requests accepted: what a session pushes *)
(* is its client's stream.                                                 *)
(***************************************************************************)
EXTENDS ClientStream, OperatorProofs

\* A session whose reads all ended after a command and whose requests were all taken
\* is itself between two commands; without a refusal its parser was Reset.
ParserInStep ==
  /\ disturbed = {} => session.at = session.from /\ Boundary(session.at)
  /\ "refused" \notin disturbed => ~session.done

IInv == TypeOK /\ StreamIntact /\ ParserInStep /\ WholeUnlessDisturbed /\ EmptyOnlyAfterRefusal

\* The invariant in terms of chains and of the sets the pieces are from.
Good ==
  /\ InStep(session) /\ session.read <= Total
  /\ Chain(pushed, 0) /\ EndOfChain(pushed, 0) = session.from
  /\ pushed \in Seq(PiecesTo(Total))
  /\ "refused" \notin disturbed => /\ ~session.done
                                   /\ pushed \in Seq(NonEmpty)
  /\ disturbed = {} => /\ session.at = session.from /\ Boundary(session.at)
                       /\ pushed \in Seq(CommandPieces)

Switches == /\ reading \in BOOLEAN /\ failed \in BOOLEAN
            /\ disturbed \subseteq {"cut", "refused"}

LEMMA GoodIsInvariant == Good /\ Switches => IInv
  <1> SUFFICES ASSUME Good, Switches PROVE IInv
    OBVIOUS
  <1>1. pushed \in Seq((0..Total) \X (0..Total))
    <2>1. PiecesTo(Total) \subseteq (0..Total) \X (0..Total)
      BY TotalAssumption DEF Piece, PiecesTo
    <2> QED BY <2>1, SeqMonotonic DEF Good
  <1>2. TypeOK
    BY <1>1 DEF Good, Switches, TypeOK, InStep
  <1>3. StreamIntact
    <2>1. pushed = <<>> <=> Len(pushed) = 0
      BY DEF Good
    <2> QED BY <2>1 DEF Good, StreamIntact, Chain, EndOfChain, InStep
  <1>4. ParserInStep
    BY DEF Good, ParserInStep
  <1>5. WholeUnlessDisturbed
    BY DEF Good, WholeUnlessDisturbed, CommandPieces, IsCommand
  <1>6. EmptyOnlyAfterRefusal
    BY DEF Good, EmptyOnlyAfterRefusal, NonEmpty
  <1> QED
    BY <1>2, <1>3, <1>4, <1>5, <1>6 DEF IInv

--------------------------------------------------------------------------------
(* The steps. *)

LEMMA InitialState == Init => Good /\ Switches
  <1> SUFFICES ASSUME Init PROVE Good /\ Switches
    OBVIOUS
  <1>1. /\ session = [from |-> 0, at |-> 0, read |-> 0, done |-> FALSE]
        /\ pushed = <<>> /\ disturbed = {} /\ reading = TRUE /\ failed = FALSE
        /\ session.done = FALSE /\ session.at = 0 /\ session.from = 0
    BY DEF Init, NewSession
  <1>2. InStep(session) /\ session.read <= Total
    BY <1>1, TotalAssumption DEF InStep, SessionState
  <1>3. Boundary(session.at)
    BY <1>1, CmdLenAssumption DEF Boundary
  <1>4. Chain(pushed, 0) /\ EndOfChain(pushed, 0) = session.from
    BY <1>1, ChainOfNone
  <1>5. \A S : pushed \in Seq(S)
    BY <1>1
  <1>6. Good
    BY <1>1, <1>2, <1>3, <1>4, <1>5 DEF Good
  <1> QED
    BY <1>1, <1>6 DEF Switches

\* More pieces behind the ones pushed: the part of Good that is about them.
LEMMA PushedMore ==
  ASSUME Good, NEW x, NEW upto \in 0..Total,
         x \in Seq(PiecesTo(upto)), Chain(x, session.from)
  PROVE  /\ Chain(pushed \o x, 0)
         /\ EndOfChain(pushed \o x, 0) = EndOfChain(x, session.from)
         /\ pushed \o x \in Seq(PiecesTo(Total))
         /\ \A S : pushed \in Seq(S) /\ x \in Seq(S) => pushed \o x \in Seq(S)
  <1>1. PiecesTo(upto) \subseteq PiecesTo(Total)
    BY TotalAssumption DEF Piece, PiecesTo
  <1>2. x \in Seq(PiecesTo(Total)) /\ pushed \in Seq(PiecesTo(Total))
    BY <1>1, SeqMonotonic DEF Good
  <1>3. Chain(pushed \o x, 0) /\ EndOfChain(pushed \o x, 0) = EndOfChain(x, session.from)
    BY <1>2, ChainsJoin DEF Good
  <1>4. \A S : pushed \in Seq(S) /\ x \in Seq(S) => pushed \o x \in Seq(S)
    OBVIOUS
  <1> QED
    BY <1>2, <1>3, <1>4

LEMMA ReadStep ==
  ASSUME Good, Switches,
         NEW upto \in session.read..Total, NEW cut \in Cuts, NEW room \in 0..MaxRoom,
         NEW full \in BOOLEAN, OnClientRead(upto, cut, room, full)
  PROVE  Good' /\ Switches'
  <1> DEFINE x == Pushed(session, upto, room)
  <1>1. /\ session.read \in Nat /\ upto \in Nat /\ session.read <= upto
        /\ upto \in 0..Total /\ room \in Nat /\ InStep(session)
    BY TotalAssumption, MaxRoomAssumption DEF Good, InStep, SessionState
  <1>2. /\ session' = AfterRead(session, upto, room)
        /\ pushed' = pushed \o x
        /\ disturbed \subseteq disturbed'
        /\ disturbed' = {} => Boundary(upto)
        /\ "refused" \notin disturbed' => ~Deferred(session, upto, room)
    BY DEF OnClientRead
  <1>3. Switches'
    <2>1. disturbed' \subseteq {"cut", "refused"}
      BY DEF OnClientRead, Switches
    <2>2. reading' \in BOOLEAN
      BY DEF OnClientRead
    <2>3. failed' \in BOOLEAN
      BY DEF OnClientRead, Failed
    <2> QED BY <2>1, <2>2, <2>3 DEF Switches
  <1> DEFINE t == AfterRead(session, upto, room)
  <1>4. /\ x \in Seq(PiecesTo(upto))
        /\ Chain(x, session.from) /\ EndOfChain(x, session.from) = t.from
        /\ InStep(t) /\ t.read = upto
        /\ ~session.done => x \in Seq(NonEmpty)
        /\ ~Deferred(session, upto, room) => ~t.done
        /\ ~session.done /\ session.from = session.at /\ Boundary(session.at) =>
             /\ x \in Seq(CommandPieces)
             /\ ~Deferred(session, upto, room) /\ Boundary(upto) =>
                  t.from = upto /\ t.at = upto
    BY <1>1, ReadFacts
  <1> HIDE DEF x, t
  <1>5. session' = t
    BY <1>2 DEF t
  <1>6. /\ Chain(pushed', 0) /\ EndOfChain(pushed', 0) = session'.from
        /\ pushed' \in Seq(PiecesTo(Total))
        /\ \A S : pushed \in Seq(S) /\ x \in Seq(S) => pushed' \in Seq(S)
    BY <1>1, <1>2, <1>5, <1>4, PushedMore
  <1>7. ASSUME "refused" \notin disturbed'
        PROVE  ~session'.done /\ pushed' \in Seq(NonEmpty)
    BY <1>2, <1>5, <1>4, <1>6, <1>7 DEF Good
  <1>8. ASSUME disturbed' = {}
        PROVE  /\ session'.at = session'.from /\ Boundary(session'.at)
               /\ pushed' \in Seq(CommandPieces)
    BY <1>2, <1>5, <1>4, <1>6, <1>8 DEF Good
  <1>9. session'.read <= Total
    BY <1>1, <1>4, <1>5
  <1> QED
    BY <1>3, <1>2, <1>5, <1>4, <1>6, <1>7, <1>8, <1>9 DEF Good

LEMMA BufferFullStep ==
  ASSUME Good, Switches, NEW room \in 0..MaxRoom, OnBufferFull(room)
  PROVE  Good' /\ Switches'
  <1> DEFINE x == Pending(session)
  <1>1. Switches'
    BY DEF OnBufferFull, Switches
  <1>2. CASE x # <<>> /\ room = 0
    <2>1. session' = session /\ pushed' = pushed /\ disturbed' = disturbed \union {"refused"}
      BY <1>2 DEF OnBufferFull
    <2> QED BY <1>1, <2>1 DEF Good
  <1>3. CASE ~(x # <<>> /\ room = 0)
    <2>1. /\ session.from \in Nat /\ session.at \in Nat /\ session.read \in Nat
          /\ session.from <= session.at /\ session.at <= session.read
          /\ session.read <= Total /\ session.at \in 0..Total
      BY TotalAssumption DEF Good, InStep, SessionState
    <2>2. /\ session' = [session EXCEPT !.from = session.at]
          /\ pushed' = pushed \o x /\ disturbed' = disturbed
      BY <1>3 DEF OnBufferFull
    <2>3. /\ session'.from = session.at /\ session'.at = session.at
          /\ session'.read = session.read /\ session'.done = session.done
          /\ InStep(session')
      BY <2>1, <2>2 DEF Good, InStep, SessionState
    <2>4. /\ x \in Seq(PiecesTo(session.at))
          /\ x \in Seq(NonEmpty)
          /\ Chain(x, session.from) /\ EndOfChain(x, session.from) = session.at
          /\ session.from = session.at => x = <<>>
      <3>1. CASE session.at > session.from
        <4>1. x = <<<<session.from, session.at>>>> /\ <<session.from, session.at>> \in Piece
          BY <2>1, <3>1 DEF Pending, Piece
        <4>2. Chain(x, session.from) /\ EndOfChain(x, session.from) = session.at
          BY <2>1, <4>1, ChainOfOne
        <4> QED BY <2>1, <3>1, <4>1, <4>2 DEF PiecesTo, NonEmpty
      <3>2. CASE ~(session.at > session.from)
        BY <2>1, <3>2, ChainOfNone DEF Pending
      <3> QED BY <3>1, <3>2
    <2> HIDE DEF x
    <2>5. /\ Chain(pushed', 0) /\ EndOfChain(pushed', 0) = session'.from
          /\ pushed' \in Seq(PiecesTo(Total))
          /\ \A S : pushed \in Seq(S) /\ x \in Seq(S) => pushed' \in Seq(S)
      BY <2>1, <2>2, <2>3, <2>4, PushedMore
    <2>6. ASSUME disturbed = {}
          PROVE  pushed' \in Seq(CommandPieces)
      <3>1. x = <<>> /\ pushed \in Seq(CommandPieces)
        BY <2>4, <2>6 DEF Good
      <3> QED BY <2>5, <3>1
    <2>7. ASSUME "refused" \notin disturbed
          PROVE  ~session.done /\ pushed' \in Seq(NonEmpty)
      BY <2>4, <2>5, <2>7 DEF Good
    <2>8. disturbed = {} => session.at = session.from /\ Boundary(session.at)
      BY DEF Good
    <2> QED BY <1>1, <2>1, <2>2, <2>3, <2>5, <2>6, <2>7, <2>8 DEF Good
  <1> QED BY <1>2, <1>3

LEMMA GoodIsInductive == Good /\ Switches /\ [Next]_vars => Good' /\ Switches'
  <1> SUFFICES ASSUME Good, Switches, [Next]_vars PROVE Good' /\ Switches'
    OBVIOUS
  <1>1. ASSUME NEW upto \in session.read..Total, NEW cut \in Cuts,
               NEW room \in 0..MaxRoom, NEW full \in BOOLEAN,
               OnClientRead(upto, cut, room, full)
        PROVE  Good' /\ Switches'
    BY <1>1, ReadStep
  <1>2. ASSUME NEW room \in 0..MaxRoom, OnBufferFull(room) PROVE Good' /\ Switches'
    BY <1>2, BufferFullStep
  <1>3. CASE OnServerWrite
    BY <1>3 DEF OnServerWrite, Good, Switches
  <1>4. CASE UNCHANGED vars
    BY <1>4 DEF vars, Good, Switches
  <1> QED
    BY <1>1, <1>2, <1>3, <1>4 DEF Next

LEMMA AlwaysIInv == Spec => []IInv
  <1>1. Spec => [](Good /\ Switches)
    BY InitialState, GoodIsInductive, PTL DEF Spec
  <1> QED
    BY <1>1, GoodIsInvariant, PTL

--------------------------------------------------------------------------------
(* The theorems. *)

\* Every variable keeps its type, and the session never holds more than was sent
\* (ClientStream.TypeOK).
THEOREM TypeCorrect == Spec => []TypeOK
  BY AlwaysIInv, PTL DEF IInv

\* What is pushed is the client's stream in consecutive pieces, none twice and none
\* lost, however its reads are cut and whatever is refused, resumed or found in a full
\* buffer (session.cpp:20-66).
THEOREM StreamIsIntact == Spec => []StreamIntact
  BY AlwaysIInv, PTL DEF IInv

\* While every read ends after a whole command and nothing is refused, the pieces are
\* the client's commands: the parser and currentCmd_ are back at a boundary after
\* each read.
THEOREM CommandsStayWhole == Spec => []WholeUnlessDisturbed
  BY AlwaysIInv, PTL DEF IInv

\* An empty request needs a refusal: without one the parser is Reset after every
\* command (session.cpp:51-57).
THEOREM EmptyNeedsRefusal == Spec => []EmptyOnlyAfterRefusal
  BY AlwaysIInv, PTL DEF IInv
================================================================================
