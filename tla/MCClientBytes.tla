------------------------------ MODULE MCClientBytes ------------------------------
(* Two plain commands, short ones and one with an argument that does not fit the *)
(* buffer; one with empty arguments and one with none; inline commands before    *)
(* multibulk ones; words with two spaces between.  The buffer starts at the size *)
(* of one command.                                                               *)
EXTENDS ClientBytes

Multibulk(lengths) == [form |-> "multibulk", args |-> lengths, gap |-> 1]
Inline(lengths) == [form |-> "inline", args |-> lengths, gap |-> 1]
Spaced(lengths) == [form |-> "inline", args |-> lengths, gap |-> 2]

MCStreams == {
  <<Multibulk(<<1, 1>>), Multibulk(<<2, 1>>)>>,
  <<Multibulk(<<1, 1>>), Multibulk(<<6, 1>>)>>,
  <<Multibulk(<<0, 2, 0>>), Multibulk(<<>>), Multibulk(<<1>>)>>,
  <<Inline(<<2, 1>>), Inline(<<1>>), Multibulk(<<1, 1>>)>>,
  <<Spaced(<<1, 1>>), Multibulk(<<1>>)>>}
MCBlocks == 1..5
MCPlainLen == 2
MCInitSize == 12
MCMinSize == 4
MCMaxRoom == 3
================================================================================
