----------------------------- MODULE MCClientStream -----------------------------
(* Four commands of two arguments: reads that bring several commands, that    *)
(* stop at each place inside one, and upstreams that take none, some or all.  *)
EXTENDS ClientStream

MCCmdLen == 2
MCTotal == 8
MCMaxRoom == 5
================================================================================
