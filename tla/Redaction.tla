------------------------------ MODULE Redaction ------------------------------
(***************************************************************************)
(* From the matches of the scanner's patterns to a redacted text           *)
(* (internal/scanner: Scan in regex.go, Redact in redact.go).              *)
(*                                                                         *)
(* A finding is a label with a half-open range of bytes of the text.  What *)
(* the patterns and the entropy heuristic match is an input.  The output   *)
(* is a sequence of pieces: a byte that stays, or the marker               *)
(* [REDACTED-<LABEL>] of a finding, which stands for the finding's range.  *)
(* A piece is one element however wide its range is, so that replacing a   *)
(* range moves what follows it, as it does in the code.                    *)
(***************************************************************************)
EXTENDS Integers, Sequences, FiniteSets

CONSTANTS
  TextLen,   \* the number of bytes of the text
  Specific,  \* labels of the patterns that name one kind of secret
  Generic,   \* the catch-all labels ENV-SECRET and GENERIC-SECRET
  Entropy,   \* the label HIGH-ENTROPY
  Plain,     \* no label: a byte that is not part of a finding
  Inputs     \* the sets of matches a text may have

Labels == Specific \cup Generic \cup {Entropy}

\* No pattern matches the empty string.
Findings == {f \in [label : Labels, start : 0 .. TextLen, end : 0 .. TextLen] :
               f.start < f.end}

Byte(i) == [label |-> Plain, start |-> i, end |-> i + 1]

Text == [i \in 1 .. TextLen |-> Byte(i - 1)]

Pieces == Findings \cup {Byte(i) : i \in 0 .. TextLen - 1}

ASSUME RedactionAssumption ==
  /\ TextLen \in Nat
  /\ Entropy \notin Generic
  /\ Specific \cap Generic = {}
  /\ Plain \notin Labels
  /\ \A matches \in Inputs : matches \subseteq Findings

VARIABLES
  raw,       \* every match of a pattern or of the entropy heuristic
  rest,      \* findings the greedy loop has not looked at yet
  selected,  \* findings it has selected
  lastEnd,   \* where the last selected finding ends
  todo,      \* selected findings that are not applied yet
  out,       \* the text so far
  pc         \* "select", "apply" or "done"

vars == <<raw, rest, selected, lastEnd, todo, out, pc>>

Overlaps(f, g) == f.start < g.end /\ g.start < f.end

-----------------------------------------------------------------------------
(* Scan                                                                    *)

\* An entropy finding that overlaps a match of a pattern is not appended.
Detected(matches) ==
  {f \in matches :
     f.label = Entropy => \A g \in matches : g.label # Entropy => ~Overlaps(f, g)}

ScanYieldingToAll(matches) ==
  LET found == Detected(matches) IN
  {f \in found :
     f.label \in Generic => \A g \in found : g # f => ~Overlaps(f, g)}

\* A catch-all finding yields to any more specific one it overlaps.
Scan(matches) ==
  LET found == Detected(matches) IN
  {f \in found :
     f.label \in Generic => \A g \in found : g.label \notin Generic => ~Overlaps(f, g)}

-----------------------------------------------------------------------------
(* Redact                                                                  *)

BeforeByStart(f, g) == f.start <= g.start

\* The sort order: left to right, the wider of two that start together first.
\* The sort is not stable: equal ranges come in any order.
Before(f, g) == f.start < g.start \/ (f.start = g.start /\ f.end >= g.end)

Foremost(f, set) == f \in set /\ \A g \in set : Before(f, g)

\* The greedy loop: a finding that starts inside the last selected one is
\* dropped.
Select(f) ==
  /\ pc = "select"
  /\ Foremost(f, rest)
  /\ f.start >= lastEnd
  /\ rest' = rest \ {f}
  /\ selected' = selected \cup {f}
  /\ lastEnd' = f.end
  /\ UNCHANGED <<raw, todo, out, pc>>

Drop(f) ==
  /\ pc = "select"
  /\ Foremost(f, rest)
  /\ f.start < lastEnd
  /\ rest' = rest \ {f}
  /\ UNCHANGED <<raw, selected, lastEnd, todo, out, pc>>

SelectDone ==
  /\ pc = "select"
  /\ rest = {}
  /\ todo' = selected
  /\ pc' = "apply"
  /\ UNCHANGED <<raw, rest, selected, lastEnd, out>>

Leftmost(f) == f \in todo /\ \A g \in todo : f.start <= g.start

Rightmost(f) == f \in todo /\ \A g \in todo : g.start <= f.start

ApplyShort(f) ==
  /\ pc = "apply"
  /\ Rightmost(f)
  /\ out' = SubSeq(out, 1, f.start) \o <<f>> \o SubSeq(out, f.end, Len(out))
  /\ todo' = todo \ {f}
  /\ UNCHANGED <<raw, rest, selected, lastEnd, pc>>

\* Replacements are applied right to left, by the offsets of the original text.
Apply(f) ==
  /\ pc = "apply"
  /\ Rightmost(f)
  /\ out' = SubSeq(out, 1, f.start) \o <<f>> \o SubSeq(out, f.end + 1, Len(out))
  /\ todo' = todo \ {f}
  /\ UNCHANGED <<raw, rest, selected, lastEnd, pc>>

\* Redact returns the text and the number of findings applied.
Done ==
  /\ pc = "apply"
  /\ todo = {}
  /\ pc' = "done"
  /\ UNCHANGED <<raw, rest, selected, lastEnd, todo, out>>

-----------------------------------------------------------------------------
Init ==
  /\ raw \in Inputs
  /\ rest = Scan(raw)
  /\ selected = {}
  /\ lastEnd = -1
  /\ todo = {}
  /\ out = Text
  /\ pc = "select"

Next ==
  \/ \E f \in rest : Select(f) \/ Drop(f)
  \/ SelectDone
  \/ \E f \in todo : Apply(f)
  \/ Done

Spec == Init /\ [][Next]_vars

-----------------------------------------------------------------------------
(* Properties                                                              *)

\* Every variable holds values of the kind the code gives it.
TypeOK ==
  /\ raw \subseteq Findings
  /\ rest \subseteq Findings
  /\ selected \subseteq Findings
  /\ lastEnd \in -1 .. TextLen
  /\ todo \subseteq selected
  /\ out \in Seq(Pieces)
  /\ pc \in {"select", "apply", "done"}

\* Two selected findings never share a byte, so no replacement damages the
\* marker of another one.
SelectedDisjoint == \A f, g \in selected : f # g => ~Overlaps(f, g)

\* Every finding that Scan reports is selected, or dropped for a selected one
\* that shares a byte with it and comes before it, the wider one first: none
\* goes out untouched, and none is dropped for one that it encloses.
ReportedIsTouched ==
  \A f \in Scan(raw) \ rest :
    \E g \in selected :
      /\ Overlaps(f, g)
      /\ g.start < f.start \/ (g.start = f.start /\ g.end >= f.end)

\* At every moment the pieces of the output cover the text from the first byte
\* to the last, in order, each byte once: offsets stay valid while replacements
\* are applied, nothing is duplicated, lost or moved.
Tiles ==
  /\ out = <<>> => TextLen = 0
  /\ out # <<>> => out[1].start = 0 /\ out[Len(out)].end = TextLen
  /\ \A i \in 1 .. Len(out) - 1 : out[i].end = out[i + 1].start

\* What Redact returns: exactly the bytes outside the selected findings stay.
Redacted ==
  pc = "done" =>
    \A i \in 1 .. Len(out) :
      IF out[i].label = Plain
      THEN \A f \in selected : ~Overlaps(out[i], f)
      ELSE out[i] \in selected

\* Redact "replaces detected findings": a match of a pattern goes out with all
\* its bytes only in one case.  It is a catch-all that Scan drops for a specific
\* finding, which Redact drops in turn for one that does not touch the first.
MatchesAreRedacted ==
  pc = "done" =>
    \A f \in raw :
      \/ f.label = Entropy
      \/ \E g \in selected : Overlaps(f, g)
      \/ /\ f.label \in Generic
         /\ \E g \in Scan(raw) \ selected : g.label \in Specific /\ Overlaps(f, g)

=============================================================================
