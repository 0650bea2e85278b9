------------------------------- MODULE MCUpstream -------------------------------
(* Two sessions, a queue of three entries, runs of up to two commands of which *)
(* one may be empty.                                                           *)
EXTENDS Upstream, TLC

CONSTANTS s1, s2, get, nothing

MCReaders == {s1, s2}
MCCmds == {get, nothing, AuthCmd}
MCEmptyCmds == {nothing}
MCQueueSize == 4
MCRuns == {<<get>>, <<nothing>>, <<get, get>>, <<nothing, get>>}

Symmetry == Permutations(MCReaders)
================================================================================
