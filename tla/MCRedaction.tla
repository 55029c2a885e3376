----------------------------- MODULE MCRedaction -----------------------------
(* Instances of Redaction for TLC: every set of at most three matches.     *)
EXTENDS Redaction

\* The matches of one pattern never overlap; entropy tokens, which are maximal
\* runs of characters, do not even touch.
Possible(matches) ==
  \A f, g \in matches : f.label = g.label /\ f # g =>
    /\ ~Overlaps(f, g)
    /\ f.label = Entropy => f.end # g.start

MCInputs == {{}} \cup {m \in {{f, g, h} : f, g, h \in Findings} : Possible(m)}

=============================================================================
