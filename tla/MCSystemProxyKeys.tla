-------------------------- MODULE MCSystemProxyKeys --------------------------
(* Instances of SystemProxyKeys for TLC.                                   *)
EXTENDS SystemProxyKeys, TLC

\* A proxy that is configured but switched off.
LinuxPriors == {[k \in Keys("linux") |-> IF k = "mode" THEN "none" ELSE "theirs"]}

\* The same, a proxy in use, and a registry without any of the values.
WindowsPriors ==
  {[k \in Keys("windows") |-> IF k = "ProxyEnable" THEN e ELSE "theirs"] : e \in {"on", "off"}}
  \cup {[k \in Keys("windows") |-> Missing]}

MCPriors == LinuxPriors \cup WindowsPriors

Symmetry == Permutations(Procs)

=============================================================================
