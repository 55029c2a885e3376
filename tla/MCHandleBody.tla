----------------------------- MODULE MCHandleBody -----------------------------
(* Instances of HandleBody for TLC: two strings of MaxLen characters in all,   *)
(* at most three in the first and two in the second.                           *)
EXTENDS HandleBody

CONSTANTS
  m,       \* a letter that markers are made of, and secrets may be too
  MaxLen

Strings(n) == UNION {[1 .. k -> Chars] : k \in 0 .. n}

\* No pattern of the scanner starts with a quote or white space.
MCLiterals == {l \in Strings(2) : l # <<>> /\ l[1] \in Letters}

MCMarker == [l \in MCLiterals |-> IF Len(l) = 1 THEN <<m>> ELSE <<m, m>>]

\* The body that is not an object has a secret too.
MCBodies ==
  {[object |-> TRUE, fields |-> <<[kind |-> "content", text |-> s], [kind |-> k, text |-> t]>>] :
     <<s, t, k>> \in {x \in Strings(3) \X Strings(2) \X Kinds : Len(x[1]) + Len(x[2]) <= MaxLen}}
  \cup {[object |-> FALSE, fields |-> <<[kind |-> "content", text |-> <<LetterN>>]>>]}

===============================================================================
