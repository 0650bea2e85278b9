------------------------------ MODULE MCEventLoop ------------------------------
(* The server connection, one more address and two clients: an address is     *)
(* reused while the list still names its former object, and the server's is   *)
(* taken by a client.                                                         *)
EXTENDS EventLoop

CONSTANTS a1, c1, c2, bytes

MCAddrs == {ServerAddr, a1}
MCPeers == {Redis, c1, c2}
MCUpstreams == {Redis}
MCItems == {bytes}
MCMaxUnsent == 2
================================================================================
