------------------------------ MODULE MCServerBytes ------------------------------
(* A status, a bulk string and an array with a nil; an empty array before one     *)
(* whose elements fit the buffer exactly; the empty bulk string; arrays with an   *)
(* empty element, in the middle and at the end.  The buffer is smaller than a     *)
(* reply and than what is pipelined.                                              *)
EXTENDS ServerBytes

Line == [kind |-> "line", elements |-> <<>>]
Bulk(n) == [kind |-> "bulk", elements |-> <<n>>]
Array(lengths) == [kind |-> "array", elements |-> lengths]

MCStreams == {
  <<Line, Bulk(2), Line, Array(<<1, -1, 2>>), Line>>,
  <<Array(<<>>), Array(<<2, 1>>), Bulk(-1)>>,
  <<Bulk(1), Bulk(0), Line>>,
  <<Bulk(-1), Array(<<-1, 0, 1>>), Line>>,
  <<Array(<<1, 0>>), Line>>}
MCBlocks == 1..5
MCInitSize == 8
MCMinSize == 3
================================================================================
