------------------------------ MODULE HandleBody ------------------------------
(***************************************************************************)
(* handleBody of the proxy (internal/proxy/proxy.go): the secrets found in *)
(* the content fields of a request are replaced in the bytes of its body.  *)
(*                                                                         *)
(* The secrets are found in the decoded strings of the content fields, but *)
(* replaced in the encoded bytes of the whole body, literal after literal, *)
(* in the order in which Go happens to iterate over a map.                 *)
(*                                                                         *)
(* Abstractions: a body is the sequence of its JSON strings, each between  *)
(* its quotes; keys, numbers and punctuation are left out.  The scanner is *)
(* external here: find may report any Literals that occur in a string.     *)
(* A marker [REDACTED-<LABEL>] is a few bytes like any others: a later     *)
(* literal may match across it or inside it.                               *)
(***************************************************************************)
EXTENDS Integers, Sequences, FiniteSets

CONSTANTS
  Letters,      \* characters that JSON writes as they are
  Quote,        \* the character ", written \"
  Newline,      \* the newline character, written \n
  LetterN,      \* the letter n, one of Letters
  Esc,          \* the character \ of an escape
  Literals,     \* the strings that find may report
  Marker,       \* what find reports for each of them to be replaced by
  Bodies,       \* the requests
  MaxLiterals   \* how many literals one request may hold: a bound

Chars == Letters \cup {Quote, Newline}

\* "billing" is a content string that starts with x-anthropic-billing-header.
Kinds == {"content", "billing", "structure"}

Field == [kind : Kinds, text : Seq(Chars)]

ASSUME HandleBodyAssumption ==
  /\ LetterN \in Letters
  /\ Quote # Newline /\ {Quote, Newline} \cap Letters = {}
  /\ Esc \notin Chars
  /\ Literals \subseteq Seq(Chars) \ {<<>>}
  /\ Marker \in [Literals -> Seq(Letters) \ {<<>>}]
  /\ Bodies \subseteq [object : BOOLEAN, fields : Seq(Field)]

VARIABLES
  body,   \* the request: whether it is a JSON object, and its strings
  repl,   \* the keys of the map repl, whose values are their markers
  todo,   \* the keys the replacing loop still has to visit
  out,    \* the bytes so far
  count,  \* the number of replacements
  pc      \* "collect", "replace" or "done"

vars == <<body, repl, todo, out, count, pc>>

-----------------------------------------------------------------------------
(* Strings and bytes                                                       *)

EncodeChar(c) ==
  CASE c = Quote   -> <<Esc, Quote>>
    [] c = Newline -> <<Esc, LetterN>>
    [] OTHER       -> <<c>>

\* f[1] \o ... \o f[n]
Concat(f, n) ==
  LET upto[i \in 0 .. n] == IF i = 0 THEN <<>> ELSE upto[i - 1] \o f[i] IN upto[n]

Encode(text) == Concat([i \in DOMAIN text |-> EncodeChar(text[i])], Len(text))

Quoted(text) == <<Quote>> \o Encode(text) \o <<Quote>>

\* The bytes of the first n strings of a body, and of all of them.
RawUpTo(b, n) == Concat([i \in DOMAIN b.fields |-> Quoted(b.fields[i].text)], n)

Raw(b) == RawUpTo(b, Len(b.fields))

\* Every byte carries where in the body it stood, or the first byte that it
\* replaces; a byte of a marker also carries the literal that the marker stands
\* for, and its own place in the marker.
Original(b) == [k \in DOMAIN Raw(b) |-> [sym |-> Raw(b)[k], pos |-> k, old |-> <<>>, at |-> 0]]

Marked(byte) == byte.at > 0

\* l stands at position k of a sequence of characters.
At(l, s, k) == k + Len(l) - 1 <= Len(s) /\ \A j \in DOMAIN l : s[k + j - 1] = l[j]

Occurs(l, s) == \E k \in DOMAIN s : At(l, s, k)

Symbols(bytes) == [k \in DOMAIN bytes |-> bytes[k].sym]

-----------------------------------------------------------------------------
(* Collecting                                                              *)

CollectsAll(field) == field.kind # "billing"

\* collect visits the content fields only, and add skips the billing header.
Collects(field) == field.kind = "content"

Findable(b) ==
  {l \in Literals : \E i \in DOMAIN b.fields :
                      Collects(b.fields[i]) /\ Occurs(l, b.fields[i].text)}

\* Anything but a JSON object passes through: nothing is collected.
Collect ==
  /\ pc = "collect"
  /\ repl' \in {r \in SUBSET Findable(body) : Cardinality(r) <= MaxLiterals}
  /\ ~body.object => repl' = {}
  /\ todo' = repl'
  /\ pc' = IF repl' = {} THEN "done" ELSE "replace"
  /\ UNCHANGED <<body, out, count>>

-----------------------------------------------------------------------------
(* Replacing                                                               *)

Replaced(l, byte) ==
  [i \in DOMAIN Marker[l] |-> [sym |-> Marker[l][i], pos |-> byte.pos, old |-> l, at |-> i]]

ReplaceFirst(bytes, l) ==
  IF ~Occurs(l, Symbols(bytes)) THEN bytes
  ELSE LET k == CHOOSE k \in DOMAIN bytes : /\ At(l, Symbols(bytes), k)
                                            /\ \A j \in 1 .. k - 1 : ~At(l, Symbols(bytes), j)
       IN SubSeq(bytes, 1, k - 1) \o Replaced(l, bytes[k]) \o SubSeq(bytes, k + Len(l), Len(bytes))

ReplaceDropsLast(bytes, l) ==
  LET from[k \in 1 .. Len(bytes) + 1] ==
        IF k >= Len(bytes) THEN <<>>
        ELSE IF At(l, Symbols(bytes), k)
             THEN Replaced(l, bytes[k]) \o from[k + Len(l)]
             ELSE <<bytes[k]>> \o from[k + 1]
  IN from[1]

\* bytes.ReplaceAll: from the left, occurrences that do not overlap.
ReplaceAll(bytes, l) ==
  LET from[k \in 1 .. Len(bytes) + 1] ==
        IF k > Len(bytes) THEN <<>>
        ELSE IF At(l, Symbols(bytes), k)
             THEN Replaced(l, bytes[k]) \o from[k + Len(l)]
             ELSE <<bytes[k]>> \o from[k + 1]
  IN from[1]

\* bytes.Count: the occurrences that ReplaceAll replaces.
Occurrences(bytes, l) ==
  LET from[k \in 1 .. Len(bytes) + 1] ==
        IF k > Len(bytes) THEN 0
        ELSE IF At(l, Symbols(bytes), k) THEN 1 + from[k + Len(l)] ELSE from[k + 1]
  IN from[1]

ReplaceFromBody(l) ==
  /\ pc = "replace"
  /\ l \in todo
  /\ out' = IF Occurrences(out, l) > 0 THEN ReplaceAll(Original(body), l) ELSE out
  /\ count' = count + Occurrences(out, l)
  /\ todo' = todo \ {l}
  /\ UNCHANGED <<body, repl, pc>>

ReplaceCountsLiterals(l) ==
  /\ pc = "replace"
  /\ l \in todo
  /\ out' = ReplaceAll(out, l)
  /\ count' = count + 1
  /\ todo' = todo \ {l}
  /\ UNCHANGED <<body, repl, pc>>

\* One iteration over the map, whichever key comes next.
Replace(l) ==
  /\ pc = "replace"
  /\ l \in todo
  /\ out' = ReplaceAll(out, l)
  /\ count' = count + Occurrences(out, l)
  /\ todo' = todo \ {l}
  /\ UNCHANGED <<body, repl, pc>>

Return ==
  /\ pc = "replace"
  /\ todo = {}
  /\ pc' = "done"
  /\ UNCHANGED <<body, repl, todo, out, count>>

-----------------------------------------------------------------------------
Init ==
  /\ body \in Bodies
  /\ repl = {}
  /\ todo = {}
  /\ out = Original(body)
  /\ count = 0
  /\ pc = "collect"

Next ==
  \/ Collect
  \/ \E l \in todo : Replace(l)
  \/ Return

Spec == Init /\ [][Next]_vars

-----------------------------------------------------------------------------
(* Properties                                                              *)

\* w can match bytes of a marker m: laid over m at some place, it agrees with m
\* wherever they overlap.
Meets(w, m) ==
  \E d \in 1 - Len(w) .. Len(m) - 1 :
    \A j \in DOMAIN w : d + j \in DOMAIN m => w[j] = m[d + j]

\* No collected literal can match bytes of a marker.  The code does not ensure it:
\* ENV-SECRET takes a marker for the value of a key (KEY=[REDACTED-...]), and where
\* a literal does meet a marker, the properties below that name this premise fail.
NoMarkerMet == \A l, w \in repl : ~Meets(w, Marker[l])

\* The positions of the body that an occurrence of a collected literal covers,
\* and those whose bytes are gone from the output.
Covered ==
  {x \in DOMAIN Raw(body) : \E l \in repl, k \in DOMAIN Raw(body) :
                              At(l, Raw(body), k) /\ x \in k .. k + Len(l) - 1}

Kept == {out[k].pos : k \in {k \in DOMAIN out : ~Marked(out[k])}}

Gone == DOMAIN Raw(body) \ Kept

\* No two occurrences of collected literals share a byte.
Apart ==
  \A l, m \in repl : \A k, n \in DOMAIN Raw(body) :
    At(l, Raw(body), k) /\ At(m, Raw(body), n) /\ <<l, k>> # <<m, n>> =>
      k + Len(l) <= n \/ n + Len(m) <= k

\* Unless a literal can match a marker, no collected literal is left anywhere in
\* the bytes that go upstream, in whichever order the map was iterated and however
\* the literals overlap: a later replacement never brings an earlier literal back.
FoundIsGone == pc = "done" /\ NoMarkerMet => \A l \in repl : ~Occurs(l, Symbols(out))

\* The markers, by where in the body they start.
Markers(bytes) == {bytes[k].pos : k \in {k \in DOMAIN bytes : bytes[k].at = 1}}

\* The status sent to the client is "full" exactly when the bytes hold a marker,
\* also if markers were matched; unless they can be, the count, which is taken
\* before each replacement, is the number of markers.
CountsMarkers ==
  /\ count > 0 <=> \E k \in DOMAIN out : Marked(out[k])
  /\ NoMarkerMet => count = Cardinality(Markers(out))

\* The replacement is surgical: what is no marker are bytes of the request, in
\* their order.  Unless a literal can match a marker, every marker stands for a
\* literal that was visited, and with each turned back into it the bytes are
\* those of the request.
Restorable ==
  LET Expand(e) == IF ~Marked(e) THEN <<e.sym>> ELSE IF e.at = Len(Marker[e.old]) THEN e.old ELSE <<>>
  IN /\ \A k \in DOMAIN out :
          /\ out[k].pos \in DOMAIN Raw(body)
          /\ IF Marked(out[k]) THEN out[k].old \in repl \ todo ELSE out[k].sym = Raw(body)[out[k].pos]
          /\ \A j \in 1 .. k - 1 : ~Marked(out[j]) \/ ~Marked(out[k]) => out[j].pos < out[k].pos
     /\ NoMarkerMet => Concat([k \in DOMAIN out |-> Expand(out[k])], Len(out)) = Raw(body)

\* When the occurrences lie apart and no literal can match a marker, exactly their
\* bytes are replaced, so that the order in which the map is iterated does not show.
ExactWhenApart == pc = "done" /\ Apart /\ NoMarkerMet => Gone = Covered

\* Unless a literal can match a marker, a byte of the request is only lost where a
\* literal stands that was found in a content string: the structure - a tool's
\* schema, the billing header - loses no more than its copies of those secrets.
StructureKept ==
  NoMarkerMet =>
    \A x \in Gone : \E l \in repl :
      /\ \E i \in DOMAIN body.fields :
           body.fields[i].kind = "content" /\ Occurs(l, body.fields[i].text)
      /\ \E k \in DOMAIN Raw(body) : At(l, Raw(body), k) /\ x \in k .. k + Len(l) - 1

\* The positions of the body that string i takes, with its quotes.
BytesOf(i) == Len(RawUpTo(body, i - 1)) + 1 .. Len(RawUpTo(body, i))

\* Claimed of the structural fields ("left byte-for-byte untouched") and of the
\* billing block ("stays byte-for-byte identical"): nothing in them is replaced.
\* The literals are looked for in the whole body, so a copy in them is replaced too.
StructureUntouched ==
  pc = "done" => \A i \in DOMAIN body.fields :
                   body.fields[i].kind # "content" => BytesOf(i) \cap Gone = {}

\* Claimed by handleBody ("redacts secrets in the request's user-content
\* fields"): no occurrence of a collected secret in a content string goes
\* upstream with all its bytes.  A secret with a character that JSON escapes is
\* looked for in a form the bytes do not have.
ContentRedacted ==
  LET Before(i, k) == Len(RawUpTo(body, i - 1)) + 1 + Len(Encode(SubSeq(body.fields[i].text, 1, k - 1)))
      Bytes(i, k, l) == Before(i, k) + 1 .. Before(i, k) + Len(Encode(l))
  IN pc = "done" =>
       \A i \in DOMAIN body.fields : Collects(body.fields[i]) =>
         \A l \in repl, k \in DOMAIN body.fields[i].text :
           At(l, body.fields[i].text, k) => Bytes(i, k, l) \cap Gone # {}

=============================================================================
