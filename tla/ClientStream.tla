------------------------------ MODULE ClientStream ------------------------------
(***************************************************************************)
(* One client and its session: the stream arrives in reads that end        *)
(* anywhere, and the upstream takes as many requests of each read as it    *)
(* has room for (UpstreamPool::PushRequest, TryAgain beyond).              *)
(***************************************************************************)
EXTENDS Session

CONSTANTS Total,      \* bound: the arguments the client sends
          MaxRoom     \* bound: how many requests the upstream may take of a read

ASSUME TotalAssumption == Total \in Nat
ASSUME MaxRoomAssumption == MaxRoom \in Nat

VARIABLES
  session,     \* the session
  reading,     \* EPOLLIN is wanted for its connection
  failed,      \* an error was written with NET_FLAG_CLOSE
  pushed,      \* every request pushed, in order
  disturbed    \* what happened so far: a read ended inside a command ("cut"), a
               \* request was "refused"

vars == <<session, reading, failed, pushed, disturbed>>

TypeOK == /\ session \in SessionState
          /\ session.read <= Total
          /\ reading \in BOOLEAN
          /\ failed \in BOOLEAN
          /\ pushed \in Seq((0..Total) \X (0..Total))
          /\ disturbed \subseteq {"cut", "refused"}

Init == /\ session = NewSession
        /\ reading = TRUE
        /\ failed = FALSE
        /\ pushed = <<>>
        /\ disturbed = {}

\* A read, which finds nothing new but gets a second go at what is in the buffer when
\* that is full; reading stops then.
OnClientRead(upto, cut, room, full) ==
  /\ reading /\ ~failed
  /\ full => upto = session.read
  /\ cut = "clean" => Boundary(upto) /\ upto > session.read
  /\ session' = AfterRead(session, upto, room)
  /\ pushed' = pushed \o Pushed(session, upto, room)
  /\ reading' = (~Deferred(session, upto, room) /\ ~full)
  /\ failed' = Failed(session, upto, cut, room)
  /\ disturbed' = disturbed
       \union (IF Boundary(upto) /\ cut # "line" THEN {} ELSE {"cut"})
       \union (IF Deferred(session, upto, room) THEN {"refused"} ELSE {})

\* The buffer is full, and everything in it was parsed: only currentCmd_ is pushed.
OnBufferFull(room) ==
  LET refused == Pending(session) # <<>> /\ room = 0 IN
  /\ reading /\ ~failed
  /\ session' = IF refused THEN session ELSE [session EXCEPT !.from = session.at]
  /\ pushed' = IF refused THEN pushed ELSE pushed \o Pending(session)
  /\ reading' = FALSE
  /\ disturbed' = disturbed \union (IF refused THEN {"refused"} ELSE {})
  /\ UNCHANGED failed

\* A reply to an earlier request of this client.
OnServerWrite ==
  /\ ~failed /\ pushed # <<>>
  /\ reading' = TRUE
  /\ UNCHANGED <<session, failed, pushed, disturbed>>

Next == \/ \E upto \in session.read..Total, cut \in Cuts, room \in 0..MaxRoom,
              full \in BOOLEAN : OnClientRead(upto, cut, room, full)
        \/ \E room \in 0..MaxRoom : OnBufferFull(room)
        \/ OnServerWrite

Spec == Init /\ [][Next]_vars

--------------------------------------------------------------------------------
(* Properties *)

\* Whatever was refused, resumed or cut, the requests pushed are the client's
\* stream: consecutive pieces from its start up to the first argument currentCmd_
\* holds, none twice, none lost (session.cpp:20-66).
StreamIntact ==
  /\ \A i \in 1..Len(pushed) :
        /\ pushed[i][1] = IF i = 1 THEN 0 ELSE pushed[i - 1][2]
        /\ pushed[i][1] <= pushed[i][2]
  /\ session.from = IF pushed = <<>> THEN 0 ELSE pushed[Len(pushed)][2]
  /\ session.from <= session.at
  /\ session.at <= session.read

IsCommand(piece) == Boundary(piece[1]) /\ piece[2] = piece[1] + CmdLen

\* As long as every read ends after a whole command and none is refused, exactly
\* the commands of the client are pushed.
WholeUnlessDisturbed ==
  disturbed = {} => /\ \A i \in 1..Len(pushed) : IsCommand(pushed[i])
                    /\ session.at = session.from

\* A request with no argument is pushed only after a refusal; the upstream never
\* answers it, so this is where cmdQueue_ loses step (session.cpp:51-57: no Reset).
EmptyOnlyAfterRefusal ==
  "refused" \notin disturbed => \A i \in 1..Len(pushed) : pushed[i][1] < pushed[i][2]
================================================================================
