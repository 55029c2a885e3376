----------------------------- MODULE MCFileScan -----------------------------
(* Instances of FileScan for TLC.                                          *)
EXTENDS FileScan, TLC

\* The first path is a link in a directory that Scan does not descend into.
MCWalk == <<".git/link", "env">>
MCTarget == [p \in {".git/link", "env"} |-> "f"]

MCTexts == {<<"words", "secret">>, <<"keyed", "words">>, <<"nul", "secret">>}

\* Terminals are interchangeable.
Symmetry == Permutations(Terminals)

=============================================================================
