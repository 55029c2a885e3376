------------------------------- MODULE MCSetup -------------------------------
(* Instances of Setup for TLC.                                             *)
EXTENDS Setup, TLC

\* Any two kinds of faults together, and overlapping commands on their own.
MCFaultSets == {S \in SUBSET (FaultKinds \ {"overlap"}) : Cardinality(S) <= 2} \cup {{"overlap"}}

Symmetry == Permutations(Procs) \cup Permutations(CAs)

=============================================================================
