--------------------------------- MODULE Session ---------------------------------
(***************************************************************************)
(* Session::OnClientRead (session.cpp) with CmdParser::ParseRequest and    *)
(* MultibulkParser::HandleRequest (cmd.cpp): what one read makes of the    *)
(* client's stream of commands.                                            *)
(*                                                                         *)
(* The stream is a sequence of arguments, CmdLen to a command, numbered    *)
(* from 1.  A piece of it is a pair <<b, e>>: the arguments b + 1 .. e, as *)
(* one Cmd.  A read ends after a whole command ("clean"), inside a line or *)
(* an argument, where the parser waits for more ("inside"), or inside a    *)
(* command where the next length line is to begin, after "*N" or after an  *)
(* argument ("line"): there readInt32 finds no byte at all, OutOfBound,    *)
(* and OnClientRead gives the client up.                                   *)
(***************************************************************************)
EXTENDS Naturals, Sequences

CONSTANT CmdLen    \* arguments of a command

ASSUME CmdLenAssumption == CmdLen \in Nat \ {0}

Cuts == {"clean", "inside", "line"}

Piece == Nat \X Nat

\* from, at: currentCmd_ holds the arguments from + 1 .. at, at is also how far
\* the parser is; read: how many arguments are in inputb_; done: the parser
\* finished a command and was not Reset.
SessionState == [from : Nat, at : Nat, read : Nat, done : BOOLEAN]

NewSession == [from |-> 0, at |-> 0, read |-> 0, done |-> FALSE]

Boundary(p) == p % CmdLen = 0

\* Fault: a command counts as complete once it begins.
CompletedAtStart(p, upto) == (upto + CmdLen) \div CmdLen - p \div CmdLen

\* The number of commands that end in (p, upto], and where the k-th one does.
Completed(p, upto) == upto \div CmdLen - p \div CmdLen
EndOf(p, k) == (p \div CmdLen + k) * CmdLen

\* What a read that makes the arguments up to upto available wants to push, in
\* order: what currentCmd_ holds, taken for a refused command; the empty Cmd of
\* a parser that was not Reset; and every command that is now complete.
Pending(s) == IF s.at > s.from THEN <<<<s.from, s.at>>>> ELSE <<>>

\* Fault: a parser resumed inside a command counts as finished.
StaleWhenResumed(s) == IF s.done \/ s.at > s.from THEN <<<<s.at, s.at>>>> ELSE <<>>

Stale(s) == IF s.done THEN <<<<s.at, s.at>>>> ELSE <<>>

\* Fault: currentCmd_ is not Reset after a push.
WholeAccumulated(p, upto) == [k \in 1..Completed(p, upto) |-> <<p, EndOf(p, k)>>]

\* Where the command at which the parser is begins, for currentCmd_.
Whole(p, upto) ==
  [k \in 1..Completed(p, upto) |->
     <<IF k = 1 THEN p ELSE EndOf(p, k - 1), EndOf(p, k)>>]

Pieces(s, upto) == Pending(s) \o Stale(s) \o Whole(s.at, upto)

\* The pieces that are pushed when room requests fit.
Pushed(s, upto, room) ==
  LET p == Pieces(s, upto) IN IF Len(p) <= room THEN p ELSE SubSeq(p, 1, room)

Deferred(s, upto, room) == Len(Pieces(s, upto)) > room

\* ParseRequest fails only on what follows the last complete command.
Failed(s, upto, cut, room) == ~Deferred(s, upto, room) /\ cut = "line"

\* Fault: currentCmd_ is Reset although its command was refused.
AfterReadDropsRefused(s, upto, room) ==
  LET p == Pieces(s, upto)
      next == IF Deferred(s, upto, room) THEN p[room + 1][2] ELSE upto IN
  [from |-> next, at |-> next, read |-> upto, done |-> FALSE]

\* OnClientRead.  A refused piece stays in currentCmd_ and its parser is not
\* Reset; otherwise the beginning of the next command stays there.
AfterRead(s, upto, room) ==
  LET p == Pieces(s, upto)
      refused == p[room + 1]
      rest == IF Len(p) = 0 THEN s.from ELSE p[Len(p)][2] IN
  IF Deferred(s, upto, room)
  THEN [from |-> refused[1], at |-> refused[2], read |-> upto,
        done |-> IF room = 0 /\ Pending(s) # <<>> THEN s.done ELSE TRUE]
  ELSE [from |-> rest, at |-> upto, read |-> upto, done |-> FALSE]
================================================================================
