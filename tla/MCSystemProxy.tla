---------------------------- MODULE MCSystemProxy ----------------------------
(* Instances of SystemProxy for TLC.                                       *)
EXTENDS SystemProxy, TLC

CONSTANTS NoHost, Corp, Local

MCAddrs == {Corp}

\* A proxy in use, and a proxy configured but switched off.
MCPriors == {[on |-> TRUE, addr |-> Corp], [on |-> FALSE, addr |-> Corp]}

OnePrior == {[on |-> TRUE, addr |-> Corp]}

\* Services and processes are interchangeable.
Symmetry == Permutations(Services) \cup Permutations(Procs)

=============================================================================
