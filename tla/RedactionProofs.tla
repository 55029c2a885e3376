--------------------------- MODULE RedactionProofs ---------------------------
(***************************************************************************)
(* What Redact guarantees for every text and every set of matches.         *)
(*                                                                         *)
(* The inductive invariant has two halves.  Selecting says that the greedy *)
(* loop has looked at findings in their order and that lastEnd is the end  *)
(* of a selected one, beyond which no other reaches; from that, two        *)
(* selected findings are disjoint and a dropped one shares a byte with the *)
(* one that reaches furthest.  Replacing says that the output still begins *)
(* with the untouched bytes up to the end of every finding not yet applied *)
(* - why the offsets of the original text stay valid - and that its pieces *)
(* are in order.                                                           *)
(***************************************************************************)
EXTENDS Redaction, SequenceTheorems, TLAPS

-----------------------------------------------------------------------------
(* The pieces of a text                                                    *)

\* A finding is a non-empty range of the text.
LEMMA FindingRange ==
  ASSUME NEW f \in Findings
  PROVE  /\ f.start \in 0 .. TextLen /\ f.end \in 0 .. TextLen
         /\ f.start \in Int /\ f.end \in Int
         /\ f.start < f.end
         /\ f.label \in Labels
         /\ f \in Pieces
BY RedactionAssumption DEF Findings, Pieces

\* So is every piece, and those without a label are single bytes.
LEMMA PieceRange ==
  ASSUME NEW p \in Pieces
  PROVE  /\ p.start \in Int /\ p.end \in Int
         /\ p.start < p.end
         /\ p.label = Plain <=> p \notin Findings
<1>1. CASE p \in Findings
  BY <1>1, FindingRange, RedactionAssumption
<1>2. CASE \E i \in 0 .. TextLen - 1 : p = Byte(i)
  <2>1. PICK i \in 0 .. TextLen - 1 : p = Byte(i)
    BY <1>2
  <2>2. p.start = i /\ p.end = i + 1 /\ p.label = Plain /\ i \in Int
    BY <2>1, RedactionAssumption DEF Byte
  <2>3. p \notin Findings
    BY <2>2, FindingRange, RedactionAssumption
  <2> QED
    BY <2>2, <2>3
<1> QED
  BY <1>1, <1>2 DEF Pieces

\* A text in which the pieces from a + 1 to b give way to one piece.
Spliced(s, a, b, f) == SubSeq(s, 1, a) \o <<f>> \o SubSeq(s, b + 1, Len(s))

\* Its pieces are the first a of the old ones, the new one, and the old ones
\* after the b-th.
LEMMA Splice ==
  ASSUME NEW s \in Seq(Pieces), NEW f \in Pieces,
         NEW a \in Nat, NEW b \in Nat, a < b, b <= Len(s)
  PROVE  /\ Spliced(s, a, b, f) \in Seq(Pieces)
         /\ Len(Spliced(s, a, b, f)) = a + 1 + Len(s) - b
         /\ \A i \in 1 .. a : Spliced(s, a, b, f)[i] = s[i]
         /\ Spliced(s, a, b, f)[a + 1] = f
         /\ \A i \in a + 2 .. Len(Spliced(s, a, b, f)) :
              /\ i + b - a - 1 \in b + 1 .. Len(s)
              /\ Spliced(s, a, b, f)[i] = s[i + b - a - 1]
<1> DEFINE l == SubSeq(s, 1, a)
           r == SubSeq(s, b + 1, Len(s))
           t == Spliced(s, a, b, f)
<1>0. Len(s) \in Nat
  BY LenProperties
<1>1. /\ l \in Seq(Pieces) /\ Len(l) = a
      /\ \A i \in 1 .. a : l[i] = s[i]
  <2>1. \A i \in 1 .. a : s[i] \in Pieces
    BY <1>0, ElementOfSeq
  <2>2. /\ SubSeq(s, 1, a) \in Seq(Pieces)
        /\ Len(SubSeq(s, 1, a)) = IF 1 <= a THEN a - 1 + 1 ELSE 0
        /\ \A i \in 1 .. a - 1 + 1 : SubSeq(s, 1, a)[i] = s[1 + i - 1]
    BY <2>1, SubSeqProperties, a \in Int, 1 \in Int
  <2> QED
    BY <2>2
<1>2. /\ r \in Seq(Pieces) /\ Len(r) = Len(s) - b
      /\ \A i \in 1 .. Len(s) - b : r[i] = s[i + b]
  <2>1. \A i \in b + 1 .. Len(s) : s[i] \in Pieces
    BY <1>0, ElementOfSeq
  <2>2. /\ SubSeq(s, b + 1, Len(s)) \in Seq(Pieces)
        /\ Len(SubSeq(s, b + 1, Len(s))) = IF b + 1 <= Len(s) THEN Len(s) - (b + 1) + 1 ELSE 0
        /\ \A i \in 1 .. Len(s) - (b + 1) + 1 : SubSeq(s, b + 1, Len(s))[i] = s[b + 1 + i - 1]
    BY <2>1, <1>0, SubSeqProperties, b + 1 \in Int, Len(s) \in Int
  <2> QED
    BY <2>2, <1>0
<1> HIDE DEF l, r, t
<1>3. <<f>> \in Seq(Pieces) /\ Len(<<f>>) = 1 /\ <<f>>[1] = f
  OBVIOUS
<1>4. /\ l \o <<f>> \in Seq(Pieces)
      /\ Len(l \o <<f>>) = a + 1
      /\ \A i \in 1 .. a + 1 : (l \o <<f>>)[i] = IF i <= a THEN l[i] ELSE <<f>>[i - a]
  BY <1>1, <1>3, ConcatProperties
<1>5. t = (l \o <<f>>) \o r
  BY DEF l, r, t, Spliced
<1>6. /\ t \in Seq(Pieces)
      /\ Len(t) = a + 1 + Len(s) - b
      /\ \A i \in 1 .. a + 1 + Len(s) - b : t[i] = IF i <= a + 1 THEN (l \o <<f>>)[i] ELSE r[i - (a + 1)]
  <2>1. /\ (l \o <<f>>) \o r \in Seq(Pieces)
        /\ Len((l \o <<f>>) \o r) = Len(l \o <<f>>) + Len(r)
        /\ \A i \in 1 .. Len(l \o <<f>>) + Len(r) :
             ((l \o <<f>>) \o r)[i] =
               IF i <= Len(l \o <<f>>) THEN (l \o <<f>>)[i] ELSE r[i - Len(l \o <<f>>)]
    <3>1. l \o <<f>> \in Seq(Pieces) /\ r \in Seq(Pieces)
      BY <1>2, <1>4
    <3> QED
      BY ONLY <3>1, ConcatProperties, Zenon
  <2>2. Len(l \o <<f>>) = a + 1 /\ Len(l \o <<f>>) + Len(r) = a + 1 + Len(s) - b
    BY <1>0, <1>2, <1>4
  <2> QED
    BY <1>5, <2>1, <2>2, Zenon
<1>7. ASSUME NEW i \in 1 .. a
      PROVE  t[i] = s[i]
  <2>1. i \in 1 .. a + 1 /\ i \in 1 .. a + 1 + Len(s) - b /\ i <= a + 1 /\ i <= a
    BY <1>0
  <2>2. t[i] = (l \o <<f>>)[i]
    BY <1>6, <2>1
  <2> QED
    BY <1>1, <1>4, <2>1, <2>2
<1>8. t[a + 1] = f
  <2>1. a + 1 - a = 1 /\ a + 1 \in 1 .. a + 1 /\ a + 1 \in 1 .. a + 1 + Len(s) - b
        /\ a + 1 <= a + 1 /\ ~(a + 1 <= a)
    BY <1>0
  <2>2. (l \o <<f>>)[a + 1] = <<f>>[a + 1 - a]
    BY <1>4, <2>1
  <2>3. t[a + 1] = (l \o <<f>>)[a + 1]
    BY <1>6, <2>1
  <2> QED
    BY <1>3, <2>1, <2>2, <2>3
<1>9. ASSUME NEW i \in a + 2 .. Len(t)
      PROVE  i + b - a - 1 \in b + 1 .. Len(s) /\ t[i] = s[i + b - a - 1]
  <2>0. Len(t) = a + 1 + Len(s) - b
    BY <1>6
  <2>1. i - (a + 1) \in 1 .. Len(s) - b /\ i \in 1 .. a + 1 + Len(s) - b /\ ~(i <= a + 1)
    <3>1. i \in a + 2 .. a + 1 + Len(s) - b
      BY <2>0
    <3> QED
      BY ONLY <3>1, <1>0, a \in Nat, b \in Nat, b <= Len(s)
  <2>2. t[i] = r[i - (a + 1)]
    BY <1>6, <2>1
  <2>3. r[i - (a + 1)] = s[(i - (a + 1)) + b]
    BY <1>2, <2>1
  <2>4. (i - (a + 1)) + b = i + b - a - 1
    BY <2>1
  <2> QED
    BY <1>0, <2>1, <2>2, <2>3, <2>4
<1> QED
  BY <1>6, <1>7, <1>8, <1>9 DEF t

-----------------------------------------------------------------------------
(* The invariant                                                           *)

Processed == Scan(raw) \ rest

InOrder == \A f \in Processed, g \in rest : Before(f, g)

Furthest ==
  /\ \A f \in selected : f.end <= lastEnd
  /\ lastEnd # -1 => \E f \in selected : f.end = lastEnd

Selecting ==
  /\ raw \in Inputs
  /\ rest \subseteq Scan(raw)
  /\ selected \subseteq Processed
  /\ todo \subseteq selected
  /\ lastEnd \in -1 .. TextLen
  /\ pc \in {"select", "apply", "done"}
  /\ pc = "select" => out = Text
  /\ InOrder
  /\ Furthest
  /\ SelectedDisjoint
  /\ ReportedIsTouched

Untouched ==
  \A f \in todo : f.end <= Len(out) /\ \A i \in 1 .. f.end : out[i] = Byte(i - 1)

Ordered ==
  \A i, j \in 1 .. Len(out) : i < j => out[i].end <= out[j].start

Applied ==
  \A i \in 1 .. Len(out) :
    IF out[i].label = Plain
    THEN \A f \in selected \ todo : ~Overlaps(out[i], f)
    ELSE out[i] \in selected \ todo

Replacing ==
  pc # "select" => Untouched /\ Ordered /\ Applied /\ (pc = "done" => todo = {})

IInv == Selecting /\ out \in Seq(Pieces) /\ Tiles /\ Replacing

\* Scan reports findings only.
LEMMA ScanReports ==
  ASSUME Selecting
  PROVE  /\ raw \subseteq Findings
         /\ Scan(raw) \subseteq Findings
         /\ rest \subseteq Findings
         /\ selected \subseteq Findings
         /\ todo \subseteq Findings
BY RedactionAssumption DEF Selecting, Processed, Scan, Detected

\* The untouched text.
LEMMA TextIsTiled ==
  /\ Text \in Seq(Pieces)
  /\ Len(Text) = TextLen
  /\ \A i \in 1 .. TextLen : Text[i] = Byte(i - 1)
BY RedactionAssumption DEF Text, Pieces

-----------------------------------------------------------------------------
(* The greedy loop                                                         *)

\* The loop begins with nothing processed and the text as it is.
LEMMA InitHolds == Init => IInv
<1> SUFFICES ASSUME Init
             PROVE  IInv
  OBVIOUS
<1>1. Text \in Seq(Pieces) /\ Len(Text) = TextLen /\ \A i \in 1 .. TextLen : Text[i] = Byte(i - 1)
  BY TextIsTiled
<1>2. Processed = {}
  BY DEF Init, Processed
<1>3. Selecting
  BY <1>2, RedactionAssumption
     DEF Init, Selecting, Processed, InOrder, Furthest, SelectedDisjoint, ReportedIsTouched
<1>4. \A i \in 1 .. TextLen : Text[i].start = i - 1 /\ Text[i].end = i
  BY <1>1, RedactionAssumption DEF Byte
<1>5. out = Text
  BY DEF Init
<1>6. Tiles
  <2>1. ASSUME out = <<>>
        PROVE  TextLen = 0
    BY <1>1, <1>5, <2>1
  <2>2. ASSUME out # <<>>
        PROVE  out[1].start = 0 /\ out[Len(out)].end = TextLen
    <3>1. Len(out) \in Nat \ {0}
      BY <1>1, <1>5, <2>2, EmptySeq
    <3> QED
      BY <1>1, <1>4, <1>5, <3>1
  <2>3. \A i \in 1 .. Len(out) - 1 : out[i].end = out[i + 1].start
    BY <1>1, <1>4, <1>5, RedactionAssumption
  <2> QED
    BY <2>1, <2>2, <2>3 DEF Tiles
<1> QED
  BY <1>1, <1>3, <1>5, <1>6 DEF IInv, Replacing, Init

\* What the two branches of the loop have in common: the finding they look at
\* comes after all that were processed and before all that are left.
LEMMA OneProcessed ==
  ASSUME Selecting, NEW f, Foremost(f, rest), rest' = rest \ {f}, raw' = raw
  PROVE  /\ f \in Findings /\ f \in Scan(raw)
         /\ Processed' = Processed \cup {f}
         /\ f \notin Processed
         /\ rest' \subseteq Scan(raw')
         /\ InOrder'
         /\ \A g \in selected : g \in Findings /\ Before(g, f)
<1>1. f \in rest /\ \A g \in rest : Before(f, g)
  BY DEF Foremost
<1>2. f \in Findings /\ f \in Scan(raw) /\ rest \subseteq Scan(raw)
  BY <1>1, ScanReports DEF Selecting
<1>3. Scan(raw)' = Scan(raw)
  BY DEF Scan, Detected
<1>4. Processed' = Processed \cup {f} /\ f \notin Processed
  BY <1>1, <1>2, <1>3 DEF Processed
<1>5. InOrder'
  <2> SUFFICES ASSUME NEW g \in Processed', NEW h \in rest'
               PROVE  Before(g, h)
    BY DEF InOrder, Before
  <2> QED
    BY <1>1, <1>4 DEF Selecting, InOrder
<1>6. \A g \in selected : g \in Findings /\ Before(g, f)
  BY <1>1, ScanReports DEF Selecting, InOrder
<1> QED
  BY <1>2, <1>3, <1>4, <1>5, <1>6

\* A selected finding starts where every other one has ended.
LEMMA SelectKeeps ==
  ASSUME IInv, NEW f \in rest, Select(f)
  PROVE  IInv'
<1> USE DEF IInv
<1>1. /\ f \in Findings /\ f \in Scan(raw)
      /\ Processed' = Processed \cup {f}
      /\ rest' \subseteq Scan(raw')
      /\ InOrder'
      /\ \A g \in selected : g \in Findings /\ Before(g, f)
  BY OneProcessed DEF Select
<1>2. f.start \in Int /\ f.end \in Int /\ f.start < f.end /\ f.end \in 0 .. TextLen
  BY <1>1, FindingRange
<1>3. \A g \in selected : g.start \in Int /\ g.end \in Int /\ g.end <= f.start
  <2> SUFFICES ASSUME NEW g \in selected
               PROVE  g.start \in Int /\ g.end \in Int /\ g.end <= f.start
    OBVIOUS
  <2>1. g.start \in Int /\ g.end \in Int
    BY <1>1, FindingRange
  <2>2. g.end <= lastEnd /\ lastEnd <= f.start /\ lastEnd \in Int
    BY RedactionAssumption DEF Selecting, Furthest, Select
  <2> QED
    BY <1>2, <2>1, <2>2
<1>4. selected' = selected \cup {f} /\ lastEnd' = f.end /\ UNCHANGED <<raw, todo, out, pc>>
  BY DEF Select
<1>5. Furthest'
  BY <1>2, <1>3, <1>4 DEF Furthest
<1>6. SelectedDisjoint'
  <2> SUFFICES ASSUME NEW g \in selected', NEW h \in selected', g # h
               PROVE  ~Overlaps(g, h)
    BY DEF SelectedDisjoint, Overlaps
  <2>1. CASE g = f
    BY <1>2, <1>3, <1>4, <2>1 DEF Overlaps
  <2>2. CASE h = f
    BY <1>2, <1>3, <1>4, <2>2 DEF Overlaps
  <2>3. CASE g \in selected /\ h \in selected
    BY <2>3 DEF Selecting, SelectedDisjoint
  <2> QED
    BY <1>4, <2>1, <2>2, <2>3
<1>7. ReportedIsTouched'
  <2> SUFFICES ASSUME NEW h \in Processed'
               PROVE  \E g \in selected' :
                        Overlaps(h, g) /\ (g.start < h.start \/ (g.start = h.start /\ g.end >= h.end))
    BY DEF ReportedIsTouched, Processed, Overlaps
  <2>1. CASE h = f
    BY <1>2, <1>4, <2>1 DEF Overlaps
  <2>2. CASE h \in Processed
    BY <1>4, <2>2 DEF Selecting, ReportedIsTouched, Processed
  <2> QED
    BY <1>1, <2>1, <2>2
<1>8. Selecting'
  BY <1>1, <1>2, <1>4, <1>5, <1>6, <1>7, RedactionAssumption DEF Selecting, Select
<1>9. out' \in Seq(Pieces) /\ Tiles' /\ Replacing'
  BY <1>4 DEF Tiles, Replacing, Select
<1> QED
  BY <1>8, <1>9

\* A dropped finding starts before the end of the selected one that reaches
\* furthest, which comes before it in the order.
LEMMA DropKeeps ==
  ASSUME IInv, NEW f \in rest, Drop(f)
  PROVE  IInv'
<1> USE DEF IInv
<1>1. /\ f \in Findings /\ f \in Scan(raw)
      /\ Processed' = Processed \cup {f}
      /\ rest' \subseteq Scan(raw')
      /\ InOrder'
      /\ \A g \in selected : g \in Findings /\ Before(g, f)
  BY OneProcessed DEF Drop
<1>2. f.start \in Int /\ f.end \in Int /\ f.start < f.end /\ f.start \in 0 .. TextLen
  BY <1>1, FindingRange
<1>3. UNCHANGED <<raw, selected, lastEnd, todo, out, pc>>
  BY DEF Drop
<1>4. PICK g \in selected : g.end = lastEnd
  <2>1. lastEnd # -1
    BY <1>2 DEF Drop, Selecting
  <2> QED
    BY <2>1 DEF Selecting, Furthest
<1>5. Overlaps(f, g) /\ (g.start < f.start \/ (g.start = f.start /\ g.end >= f.end))
  <2>1. g.start \in Int /\ g.end \in Int /\ Before(g, f)
    BY <1>1, FindingRange
  <2>2. f.start < g.end
    BY <1>4 DEF Drop
  <2> QED
    BY <1>2, <2>1, <2>2 DEF Overlaps, Before
<1>6. ReportedIsTouched'
  <2> SUFFICES ASSUME NEW h \in Processed'
               PROVE  \E k \in selected' :
                        Overlaps(h, k) /\ (k.start < h.start \/ (k.start = h.start /\ k.end >= h.end))
    BY DEF ReportedIsTouched, Processed, Overlaps
  <2>1. CASE h = f
    BY <1>3, <1>4, <1>5, <2>1
  <2>2. CASE h \in Processed
    BY <1>3, <2>2 DEF Selecting, ReportedIsTouched, Processed
  <2> QED
    BY <1>1, <2>1, <2>2
<1>7. Furthest' /\ SelectedDisjoint'
  BY <1>3 DEF Selecting, Furthest, SelectedDisjoint, Overlaps
<1>8. Selecting'
  BY <1>1, <1>3, <1>6, <1>7 DEF Selecting, Drop
<1>9. out' \in Seq(Pieces) /\ Tiles' /\ Replacing'
  BY <1>3 DEF Tiles, Replacing, Drop
<1> QED
  BY <1>8, <1>9

\* The selected findings are handed over with the text still untouched.
LEMMA SelectDoneKeeps ==
  ASSUME IInv, SelectDone
  PROVE  IInv'
<1> USE DEF IInv
<1>1. UNCHANGED <<raw, rest, selected, lastEnd, out>> /\ todo' = selected /\ pc' = "apply" /\ out = Text
  BY DEF SelectDone, Selecting
<1>2. Selecting'
  <2>1. Processed' = Processed
    BY <1>1 DEF Processed, Scan, Detected
  <2>2. InOrder' /\ Furthest' /\ SelectedDisjoint' /\ ReportedIsTouched' /\ rest' \subseteq Scan(raw')
    BY <1>1, <2>1 DEF Selecting, InOrder, Furthest, SelectedDisjoint, ReportedIsTouched, Processed,
                      Before, Overlaps, Scan, Detected
  <2> QED
    BY <1>1, <2>1, <2>2 DEF Selecting
<1>3. Untouched'
  <2> SUFFICES ASSUME NEW f \in selected
               PROVE  f.end <= Len(Text) /\ \A i \in 1 .. f.end : Text[i] = Byte(i - 1)
    BY <1>1 DEF Untouched
  <2>1. f.end \in 0 .. TextLen
    BY ScanReports, FindingRange
  <2> QED
    BY <2>1, TextIsTiled, RedactionAssumption
<1>4. Ordered' /\ Applied'
  <2>1. \A i \in 1 .. TextLen : Text[i].start = i - 1 /\ Text[i].end = i /\ Text[i].label = Plain
    BY TextIsTiled DEF Byte
  <2> QED
    BY <1>1, <2>1, TextIsTiled, RedactionAssumption DEF Ordered, Applied
<1>5. out' \in Seq(Pieces) /\ Tiles' /\ Replacing'
  BY <1>1, <1>3, <1>4 DEF Tiles, Replacing
<1> QED
  BY <1>2, <1>5

-----------------------------------------------------------------------------
(* The replacements                                                        *)

\* Selecting says nothing about the output once the loop is over.
LEMMA SelectingKept ==
  ASSUME Selecting, UNCHANGED <<raw, rest, selected, lastEnd>>,
         todo' \subseteq todo, pc' \in {"apply", "done"}
  PROVE  Selecting'
<1>1. Processed' = Processed
  BY DEF Processed, Scan, Detected
<1>2. InOrder' /\ Furthest' /\ SelectedDisjoint' /\ ReportedIsTouched' /\ rest' \subseteq Scan(raw')
  BY <1>1 DEF Selecting, InOrder, Furthest, SelectedDisjoint, ReportedIsTouched, Processed,
              Before, Overlaps, Scan, Detected
<1> QED
  BY <1>1, <1>2 DEF Selecting

\* The rightmost finding that is left lies in untouched bytes, to the right of
\* all others that are left: replacing it disturbs neither them nor the order of
\* what follows.
LEMMA ApplyKeeps ==
  ASSUME IInv, NEW f \in todo, Apply(f)
  PROVE  IInv'
<1> USE DEF IInv
<1> DEFINE a == f.start
           b == f.end
<1>1. /\ pc = "apply" /\ UNCHANGED <<raw, rest, selected, lastEnd, pc>>
      /\ todo' = todo \ {f}
      /\ \A g \in todo : g.start <= a
      /\ out' = SubSeq(out, 1, a) \o <<f>> \o SubSeq(out, b + 1, Len(out))
  BY DEF Apply, Rightmost
<1>2. /\ f \in selected /\ f \in Findings /\ f \in Pieces
      /\ a \in Nat /\ b \in Nat /\ a < b
      /\ f.label # Plain
  BY ScanReports, FindingRange, RedactionAssumption DEF Selecting
<1>3. Untouched /\ Ordered /\ Applied /\ Tiles /\ out \in Seq(Pieces)
  BY <1>1 DEF Replacing
<1>4. /\ b <= Len(out)
      /\ \A i \in 1 .. b : out[i] = Byte(i - 1) /\ out[i].start = i - 1 /\ out[i].end = i
  BY <1>3 DEF Untouched, Byte
<1>5. Len(out) \in Nat
  BY <1>3, LenProperties
<1> HIDE DEF a, b
<1>6. /\ out' \in Seq(Pieces)
      /\ Len(out') = a + 1 + Len(out) - b
      /\ \A i \in 1 .. a : out'[i] = out[i]
      /\ out'[a + 1] = f
      /\ \A i \in a + 2 .. Len(out') : i + b - a - 1 \in b + 1 .. Len(out) /\ out'[i] = out[i + b - a - 1]
  <2>1. /\ out \in Seq(Pieces) /\ f \in Pieces /\ a \in Nat /\ b \in Nat /\ a < b /\ b <= Len(out)
        /\ out' = Spliced(out, a, b, f)
    BY <1>1, <1>2, <1>3, <1>4 DEF Spliced
  <2>2. Spliced(out, a, b, f) \in Seq(Pieces)
    BY ONLY <2>1, Splice
  <2>3. Len(Spliced(out, a, b, f)) = a + 1 + Len(out) - b
    BY ONLY <2>1, Splice
  <2>4. \A i \in 1 .. a : Spliced(out, a, b, f)[i] = out[i]
    BY ONLY <2>1, Splice
  <2>5. Spliced(out, a, b, f)[a + 1] = f
    BY ONLY <2>1, Splice
  <2>6. \A i \in a + 2 .. Len(Spliced(out, a, b, f)) :
          /\ i + b - a - 1 \in b + 1 .. Len(out)
          /\ Spliced(out, a, b, f)[i] = out[i + b - a - 1]
    BY ONLY <2>1, Splice
  <2> QED
    BY ONLY <2>1, <2>2, <2>3, <2>4, <2>5, <2>6, Zenon
<1>7. \A i \in 1 .. Len(out) : out[i].start \in Int /\ out[i].end \in Int
  BY <1>3, <1>5, ElementOfSeq, PieceRange
<1>8. f.start = a /\ f.end = b
  BY DEF a, b
<1>9. Selecting'
  BY <1>1, SelectingKept
<1>10. Untouched'
  <2> SUFFICES ASSUME NEW g \in todo \ {f}
               PROVE  g.end <= Len(out') /\ \A i \in 1 .. g.end : out'[i] = Byte(i - 1)
    BY <1>1 DEF Untouched
  <2>1. g \in selected /\ g.start \in Int /\ g.end \in Int /\ g.start < g.end /\ g.start <= a
    BY <1>1, ScanReports, FindingRange DEF Selecting
  <2>2. ~Overlaps(g, f)
    BY <1>2, <2>1 DEF Selecting, SelectedDisjoint
  <2>3. g.end <= a
    BY <1>2, <1>8, <2>1, <2>2 DEF Overlaps
  <2>4. a <= Len(out')
    BY <1>2, <1>4, <1>5, <1>6
  <2>5. ASSUME NEW i \in 1 .. g.end
        PROVE  out'[i] = Byte(i - 1)
    <3>1. i \in 1 .. a /\ i \in 1 .. b
      BY <1>2, <2>1, <2>3
    <3> QED
      BY <1>4, <1>6, <3>1
  <2> QED
    BY <1>2, <1>6, <2>1, <2>3, <2>4, <2>5, LenProperties
<1>11. \A j \in b + 1 .. Len(out) : b <= out[j].start
  <2> SUFFICES ASSUME NEW j \in b + 1 .. Len(out)
               PROVE  b <= out[j].start
    OBVIOUS
  <2>1. b \in 1 .. Len(out) /\ j \in 1 .. Len(out) /\ b < j /\ b \in 1 .. b
    BY <1>2, <1>4, <1>5
  <2>2. out[b].end <= out[j].start
    BY <1>3, <2>1 DEF Ordered
  <2> QED
    BY <1>4, <2>1, <2>2
<1>12. Ordered'
  <2> SUFFICES ASSUME NEW i \in 1 .. Len(out'), NEW j \in 1 .. Len(out'), i < j
               PROVE  out'[i].end <= out'[j].start
    BY DEF Ordered
  <2>1. Len(out') \in Nat
    BY <1>6, LenProperties
  <2>2. CASE i <= a /\ j <= a
    <3>1. i \in 1 .. a /\ j \in 1 .. a /\ i \in 1 .. b /\ j \in 1 .. b
      BY <1>2, <2>1, <2>2
    <3>2. out[i].end = i /\ out[j].start = j - 1
      BY <1>4, <3>1
    <3> QED
      BY <1>6, <3>1, <3>2
  <2>3. CASE i <= a /\ j = a + 1
    <3>1. i \in 1 .. a /\ i \in 1 .. b
      BY <1>2, <2>1, <2>3
    <3>2. out'[i].end = i
      BY <1>4, <1>6, <3>1
    <3> QED
      BY <1>6, <1>8, <2>3, <3>2
  <2>4. CASE i <= a + 1 /\ j > a + 1
    <3>1. /\ j \in a + 2 .. Len(out')
          /\ j + b - a - 1 \in b + 1 .. Len(out)
      BY <1>2, <1>6, <2>1, <2>4
    <3>2. b <= out'[j].start
      BY <1>6, <1>11, <3>1
    <3>3. out'[j].start \in Int
      <4>1. out'[j] = out[j + b - a - 1] /\ j + b - a - 1 \in 1 .. Len(out)
        BY <1>2, <1>5, <1>6, <3>1
      <4> QED
        BY <1>7, <4>1
    <3>4. CASE i = a + 1
      BY <1>6, <1>8, <3>2, <3>4
    <3>5. CASE i <= a
      <4>1. i \in 1 .. a /\ i \in 1 .. b
        BY <1>2, <2>1, <3>5
      <4>2. out'[i].end = i
        BY <1>4, <1>6, <4>1
      <4> QED
        BY <1>2, <3>2, <3>3, <4>1, <4>2
    <3> QED
      BY <1>2, <2>4, <3>4, <3>5
  <2>5. CASE i > a + 1
    <3>1. /\ i \in a + 2 .. Len(out') /\ j \in a + 2 .. Len(out')
          /\ i + b - a - 1 \in 1 .. Len(out) /\ j + b - a - 1 \in 1 .. Len(out)
          /\ i + b - a - 1 < j + b - a - 1
      BY <1>2, <1>5, <1>6, <2>1, <2>5
    <3> QED
      BY <1>3, <1>6, <3>1 DEF Ordered
  <2> QED
    BY <1>2, <2>2, <2>3, <2>4, <2>5
<1>13. Applied'
  <2> SUFFICES ASSUME NEW i \in 1 .. Len(out')
               PROVE  IF out'[i].label = Plain
                      THEN \A g \in selected \ (todo \ {f}) : ~Overlaps(out'[i], g)
                      ELSE out'[i] \in selected \ (todo \ {f})
    BY <1>1 DEF Applied, Overlaps
  <2>1. Len(out') \in Nat
    BY <1>6, LenProperties
  <2>2. CASE i = a + 1
    BY <1>2, <1>6, <2>2
  <2>3. CASE i <= a
    <3>1. i \in 1 .. a /\ i \in 1 .. b /\ i \in 1 .. Len(out)
      BY <1>2, <1>4, <1>5, <2>1, <2>3
    <3>2. out'[i] = out[i] /\ out[i].end = i
      BY <1>4, <1>6, <3>1
    <3>3. ~Overlaps(out[i], f)
      BY <1>2, <1>8, <3>1, <3>2 DEF Overlaps
    <3> QED
      BY <1>3, <3>1, <3>2, <3>3 DEF Applied
  <2>4. CASE i > a + 1
    <3>1. i \in a + 2 .. Len(out')
      BY <1>2, <2>1, <2>4
    <3> DEFINE k == i + b - a - 1
    <3>2. out'[i] = out[k] /\ k \in b + 1 .. Len(out) /\ k \in 1 .. Len(out)
      BY <1>2, <1>5, <1>6, <3>1
    <3> HIDE DEF k
    <3>3. b <= out[k].start /\ out[k].start \in Int
      BY <1>7, <1>11, <3>2
    <3>4. ~Overlaps(out[k], f)
      BY <1>2, <1>8, <3>3 DEF Overlaps
    <3> QED
      BY <1>3, <3>2, <3>4 DEF Applied
  <2> QED
    BY <1>2, <2>1, <2>2, <2>3, <2>4
<1>14. Tiles'
  <2>1. out # <<>> /\ Len(out') \in Nat /\ Len(out') >= a + 1 /\ Len(out) >= 1
    BY <1>2, <1>3, <1>4, <1>5, <1>6, LenProperties, EmptySeq
  <2>2. out' # <<>>
    BY <1>2, <2>1, EmptySeq
  <2>3. out'[1].start = 0
    <3>1. CASE a = 0
      BY <1>6, <1>8, <3>1
    <3>2. CASE a > 0
      <4>1. 1 \in 1 .. a /\ 1 \in 1 .. b
        BY <1>2, <3>2
      <4> QED
        BY <1>4, <1>6, <4>1
    <3> QED
      BY <1>2, <3>1, <3>2
  <2>4. out'[Len(out')].end = TextLen
    <3>1. out[Len(out)].end = TextLen
      BY <1>3, <2>1 DEF Tiles
    <3>2. CASE b = Len(out)
      <4>1. Len(out') = a + 1 /\ b \in 1 .. b
        BY <1>2, <1>6, <3>2
      <4> QED
        BY <1>4, <1>6, <1>8, <3>1, <3>2, <4>1
    <3>3. CASE b < Len(out)
      <4>1. Len(out') \in a + 2 .. Len(out') /\ Len(out') + b - a - 1 = Len(out)
        BY <1>2, <1>5, <1>6, <3>3
      <4> QED
        BY <1>6, <3>1, <4>1
    <3> QED
      BY <1>2, <1>4, <1>5, <3>2, <3>3
  <2>5. ASSUME NEW i \in 1 .. Len(out') - 1
        PROVE  out'[i].end = out'[i + 1].start
    <3>1. \A k \in 1 .. Len(out) - 1 : out[k].end = out[k + 1].start
      BY <1>3 DEF Tiles
    <3>2. CASE i < a
      <4>1. i \in 1 .. a /\ i + 1 \in 1 .. a /\ i \in 1 .. b /\ i + 1 \in 1 .. b
        BY <1>2, <2>1, <3>2
      <4>2. out[i].end = i /\ out[i + 1].start = i + 1 - 1
        BY <1>4, <4>1
      <4> QED
        BY <1>6, <4>1, <4>2
    <3>3. CASE i = a
      <4>1. i \in 1 .. a /\ i \in 1 .. b
        BY <1>2, <3>3
      <4> QED
        BY <1>4, <1>6, <1>8, <3>3, <4>1
    <3>4. CASE i = a + 1
      <4>1. i + 1 \in a + 2 .. Len(out') /\ i + 1 + b - a - 1 = b + 1
        BY <1>2, <2>1, <3>4
      <4>2. out'[i + 1] = out[b + 1] /\ b + 1 \in b + 1 .. Len(out)
        BY <1>6, <4>1
      <4>3. b \in 1 .. Len(out) - 1 /\ b \in 1 .. b
        BY <1>2, <1>5, <4>2
      <4> QED
        BY <1>4, <1>6, <1>8, <3>1, <3>4, <4>2, <4>3
    <3>5. CASE i > a + 1
      <4>1. i \in a + 2 .. Len(out') /\ i + 1 \in a + 2 .. Len(out')
        BY <1>2, <2>1, <3>5
      <4>2. /\ i + b - a - 1 \in 1 .. Len(out) - 1
            /\ (i + b - a - 1) + 1 = i + 1 + b - a - 1
        BY <1>2, <1>5, <1>6, <4>1
      <4>3. out'[i] = out[i + b - a - 1] /\ out'[i + 1] = out[i + 1 + b - a - 1]
        BY <1>6, <4>1
      <4> QED
        BY <3>1, <4>2, <4>3
    <3> QED
      BY <1>2, <2>1, <3>2, <3>3, <3>4, <3>5
  <2> QED
    BY <2>2, <2>3, <2>4, <2>5 DEF Tiles
<1> QED
  BY <1>1, <1>6, <1>9, <1>10, <1>12, <1>13, <1>14 DEF Replacing

\* Returning changes nothing.
LEMMA DoneKeeps ==
  ASSUME IInv, Done
  PROVE  IInv'
<1> USE DEF IInv
<1>1. pc = "apply" /\ todo = {} /\ pc' = "done" /\ UNCHANGED <<raw, rest, selected, lastEnd, todo, out>>
  BY DEF Done
<1>2. Selecting'
  BY <1>1, SelectingKept
<1>3. Untouched' /\ Ordered' /\ Applied'
  BY <1>1 DEF Replacing, Untouched, Ordered, Applied, Overlaps
<1>4. out' \in Seq(Pieces) /\ Tiles' /\ Replacing'
  BY <1>1, <1>3 DEF Tiles, Replacing
<1> QED
  BY <1>2, <1>4

\* A step that changes nothing.
LEMMA StutterKeeps ==
  ASSUME IInv, UNCHANGED vars
  PROVE  IInv'
<1> USE DEF IInv, vars
<1>1. Processed' = Processed
  BY DEF Processed, Scan, Detected
<1>2. Selecting'
  <2>1. InOrder' /\ Furthest' /\ SelectedDisjoint' /\ ReportedIsTouched' /\ rest' \subseteq Scan(raw')
    BY <1>1 DEF Selecting, InOrder, Furthest, SelectedDisjoint, ReportedIsTouched, Processed,
                Before, Overlaps, Scan, Detected
  <2> QED
    BY <1>1, <2>1 DEF Selecting
<1>3. out' \in Seq(Pieces) /\ Tiles' /\ Replacing'
  BY DEF Tiles, Replacing, Untouched, Ordered, Applied, Overlaps
<1> QED
  BY <1>2, <1>3

-----------------------------------------------------------------------------
(* The theorems                                                            *)

\* The invariant holds at every moment of Scan and Redact, for every text and
\* every set of matches.
THEOREM InvariantHolds == Spec => []IInv
<1>1. IInv /\ [Next]_vars => IInv'
  <2> SUFFICES ASSUME IInv, [Next]_vars
               PROVE  IInv'
    OBVIOUS
  <2>1. ASSUME NEW f \in rest, Select(f)
        PROVE  IInv'
    BY <2>1, SelectKeeps
  <2>2. ASSUME NEW f \in rest, Drop(f)
        PROVE  IInv'
    BY <2>2, DropKeeps
  <2>3. CASE SelectDone
    BY <2>3, SelectDoneKeeps
  <2>4. ASSUME NEW f \in todo, Apply(f)
        PROVE  IInv'
    BY <2>4, ApplyKeeps
  <2>5. CASE Done
    BY <2>5, DoneKeeps
  <2>6. CASE UNCHANGED vars
    BY <2>6, StutterKeeps
  <2> QED
    BY <2>1, <2>2, <2>3, <2>4, <2>5, <2>6 DEF Next
<1> QED
  BY InitHolds, <1>1, PTL DEF Spec

\* Every variable keeps to its type.
THEOREM TypeCorrect == Spec => []TypeOK
<1>1. IInv => TypeOK
  BY ScanReports DEF IInv, Selecting, TypeOK
<1> QED
  BY InvariantHolds, <1>1, PTL

\* Redact never selects two findings that share a byte.
THEOREM AlwaysDisjoint == Spec => []SelectedDisjoint
<1>1. IInv => SelectedDisjoint
  BY DEF IInv, Selecting
<1> QED
  BY InvariantHolds, <1>1, PTL

\* Every finding that Scan reports is selected or shares a byte with a selected
\* one that comes before it.
THEOREM AlwaysTouched == Spec => []ReportedIsTouched
<1>1. IInv => ReportedIsTouched
  BY DEF IInv, Selecting
<1> QED
  BY InvariantHolds, <1>1, PTL

\* The pieces of the output cover the text, in order, each byte once, after any
\* number of replacements.
THEOREM AlwaysTiles == Spec => []Tiles
<1>1. IInv => Tiles
  BY DEF IInv
<1> QED
  BY InvariantHolds, <1>1, PTL

\* What Redact returns holds the bytes outside the selected findings, and
\* markers of selected findings, and nothing else.
THEOREM AlwaysRedacted == Spec => []Redacted
<1>1. IInv => Redacted
  BY DEF IInv, Replacing, Applied, Redacted
<1> QED
  BY InvariantHolds, <1>1, PTL

\* A match of a pattern that Scan does not report is a catch-all that overlaps a
\* specific finding which it does report.
LEMMA ScanDrops ==
  ASSUME NEW f \in raw \ Scan(raw), raw \subseteq Findings, f.label # Entropy
  PROVE  /\ f.label \in Generic
         /\ \E g \in Scan(raw) : g.label \in Specific /\ Overlaps(f, g)
<1>1. f \in Detected(raw)
  BY DEF Detected
<1>2. f.label \in Generic
  BY <1>1 DEF Scan
<1>3. PICK g \in Detected(raw) : g.label \notin Generic /\ Overlaps(f, g)
  BY <1>1 DEF Scan
<1>4. g \in Scan(raw)
  BY <1>3 DEF Scan
<1>5. Overlaps(g, f)
  BY <1>3 DEF Overlaps
<1>6. g.label # Entropy
  BY <1>5 DEF Detected
<1>7. g.label \in Specific
  BY <1>3, <1>6, FindingRange DEF Detected, Findings, Labels
<1> QED BY <1>2, <1>3, <1>4, <1>7

\* The loop leaves no finding behind.
Finished == pc # "select" => rest = {}

LEMMA LoopFinishes == Spec => []Finished
<1>1. Init => Finished
  BY DEF Init, Finished
<1>2. Finished /\ [Next]_vars => Finished'
  BY DEF Finished, Next, Select, Drop, SelectDone, Apply, Done, vars
<1> QED
  BY <1>1, <1>2, PTL DEF Spec

\* A match of a pattern shares a byte with what Redact replaced, or is a
\* catch-all dropped for a specific finding that was itself dropped: the case
\* left open is the only one.
THEOREM AlwaysMatchesAreRedacted == Spec => []MatchesAreRedacted
<1>1. IInv /\ Finished => MatchesAreRedacted
  <2> SUFFICES ASSUME IInv, Finished, pc = "done", NEW f \in raw, f.label # Entropy,
                      ~ \E g \in selected : Overlaps(f, g)
               PROVE  /\ f.label \in Generic
                      /\ \E g \in Scan(raw) \ selected : g.label \in Specific /\ Overlaps(f, g)
    BY DEF MatchesAreRedacted
  <2>1. raw \subseteq Findings /\ rest = {} /\ ReportedIsTouched
    BY ScanReports DEF IInv, Selecting, Finished
  <2>2. f \notin Scan(raw)
    BY <2>1 DEF ReportedIsTouched
  <2> QED BY <2>1, <2>2, ScanDrops
<1> QED
  BY InvariantHolds, LoopFinishes, <1>1, PTL
===============================================================================
