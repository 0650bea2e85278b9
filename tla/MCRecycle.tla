------------------------------- MODULE MCRecycle -------------------------------
(* A ring of four slots and three distinct elements: the cursors wrap around  *)
(* many times and every fill level, including the full ring, is reached.      *)
EXTENDS Recycle

CONSTANTS r1, r2, r3

MCData == {r1, r2, r3}
MCSize == 4
================================================================================
