---- MODULE MCLifecycle ----
(* Instances of Lifecycle for TLC. *)
EXTENDS Lifecycle, TLC

\* Terminals are interchangeable, and so are the daemons they start: for larger
\* instances without liveness, for which TLC must not reduce by symmetry.
Symmetry == Permutations(Terminals) \cup Permutations(Pids)
====
