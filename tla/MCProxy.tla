--------------------------------- MODULE MCProxy ---------------------------------
(* Two clients with one-argument commands, a queue of two entries and three       *)
(* addresses: a client can be allocated where the other one, or the server        *)
(* connection, was.  While only one of them has come, it sends up to five commands *)
(* and its reads may end inside one: a command refused, taken up again, and what  *)
(* its parser yields after it.                                                    *)
EXTENDS Proxy, TLC

CONSTANTS a1, a2, c1, c2

MCAddrs == {ServerAddr, a1, a2}
MCPeers == {Redis, c1, c2}
MCUpstreams == {Redis}
MCItems == Request \union Reply
MCCmdLen == 1
MCQueueSize == 3
MCTotal == 5
MCReadCuts == {"clean", "line"}

OnePeers == {Redis, c1}
ShortTotal == 2
ShortReadCuts == {"clean"}

\* Bound: two clients are followed while neither has sent more than two commands and no
\* connection waits to be closed after its error text.
OneLongOrTwoShort ==
  \/ \E c \in Clients : clientConn[c] = NoAddr
  \/ /\ \A c \in Clients : session[c].read <= ShortTotal
     /\ \A a \in Addrs : ~net.mem[a].closing

Symmetry == Permutations({a1, a2}) \union Permutations({c1, c2})
================================================================================
