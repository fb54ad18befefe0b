------------------------ MODULE MCMixedContinuation ------------------------
(* Instances of the continuation of mixed scripts for TLC.                 *)
EXTENDS MixedContinuation, TLC

CONSTANTS c1, c2

\* An edit, then a shell program that is one command.
EditThenCommand == <<Edit, <<"command">>>>
\* A retry may empty the program, or make it write a literal file first.
Programs == {<<>>, <<"write", "command">>}
\* Carriers are interchangeable.
Symmetry == Permutations(Carriers)
=============================================================================
