--------------------------- MODULE HandleBodyProofs ---------------------------
(***************************************************************************)
(* Proofs about HandleBody, for any literals, markers and requests.        *)
(***************************************************************************)
EXTENDS HandleBody, WellFoundedInduction, SequenceTheorems, FiniteSetTheorems, FunctionTheorems, TLAPS

-----------------------------------------------------------------------------
(* Induction over the natural numbers, for a set instead of a predicate.   *)

Below == {ss \in Nat \X Nat : ss[1] < ss[2]}

\* Every set of natural numbers has a least one.
LEMMA LeastNumber ==
  ASSUME NEW S, S \subseteq Nat, S # {}
  PROVE  \E m \in S : \A n \in S : m <= n
<1>1. IsWellFoundedOn(Below, Nat)
  BY NatLessThanWellFounded, Zenon DEF OpToRel, Below
<1>2. PICK m \in S : \A n \in S : ~ (<<n, m>> \in Below)
  BY <1>1, WFMin
<1>3. \A n \in S : ~ (n < m)
  BY <1>2 DEF Below
<1> QED
  BY <1>3

\* A set with zero and with the successors of its members has all numbers.
LEMMA Induction ==
  ASSUME NEW S, 0 \in S, \A n \in Nat : n \in S => n + 1 \in S
  PROVE  \A n \in Nat : n \in S
<1> SUFFICES ASSUME Nat \ S # {} PROVE FALSE
  OBVIOUS
<1>1. PICK m \in Nat \ S : \A n \in Nat \ S : m <= n
  BY LeastNumber
<1>2. m # 0 /\ m - 1 \in Nat /\ m - 1 \in S
  BY <1>1
<1> QED
  BY <1>1, <1>2

-----------------------------------------------------------------------------
(* Concatenation                                                           *)

\* The recursion of Concat defines a function.
LEMMA UptoExists ==
  ASSUME NEW f, NEW n \in Nat
  PROVE  \E h : h = [i \in 0 .. n |-> IF i = 0 THEN <<>> ELSE h[i - 1] \o f[i]]
<1> DEFINE Upto(h, m) == h = [i \in 0 .. m |-> IF i = 0 THEN <<>> ELSE h[i - 1] \o f[i]]
           S == {m \in Nat : \E h : Upto(h, m)}
<1>1. 0 \in S
  <2>1. Upto([i \in 0 .. 0 |-> <<>>], 0)
    OBVIOUS
  <2> QED
    BY <2>1, Zenon
<1>2. ASSUME NEW m \in Nat, m \in S PROVE m + 1 \in S
  <2>1. PICK h : Upto(h, m)
    BY <1>2
  <2>2. \A i \in 0 .. m : h[i] = IF i = 0 THEN <<>> ELSE h[i - 1] \o f[i]
    BY <2>1
  <2> DEFINE g == [i \in 0 .. m + 1 |-> IF i = m + 1 THEN h[m] \o f[m + 1] ELSE h[i]]
  <2>3. g[m + 1] = h[m] \o f[m + 1] /\ \A i \in 0 .. m : g[i] = h[i]
    OBVIOUS
  <2>4. DOMAIN g = 0 .. m + 1
    OBVIOUS
  <2> HIDE DEF g
  <2>5. ASSUME NEW i \in 0 .. m + 1
        PROVE  g[i] = IF i = 0 THEN <<>> ELSE g[i - 1] \o f[i]
    <3>1. CASE i = m + 1
      <4>1. i - 1 = m /\ i # 0 /\ m \in 0 .. m
        BY <3>1
      <4> QED
        BY <4>1, <3>1, <2>3
    <3>2. CASE i \in 0 .. m
      <4>1. i # 0 => i - 1 \in 0 .. m
        BY <3>2
      <4> QED
        BY <4>1, <3>2, <2>2, <2>3
    <3> QED
      BY <3>1, <3>2
  <2>6. g = [i \in 0 .. m + 1 |-> IF i = 0 THEN <<>> ELSE g[i - 1] \o f[i]]
    BY <2>4, <2>5 DEF g
  <2>7. \E x : x = [i \in 0 .. m + 1 |-> IF i = 0 THEN <<>> ELSE x[i - 1] \o f[i]]
    BY <2>6, Zenon
  <2>8. m + 1 \in Nat
    OBVIOUS
  <2> QED
    BY <2>7, <2>8, Zenon
<1> HIDE DEF S
<1>3. n \in S
  BY <1>1, <1>2, Induction
<1> QED
  BY <1>3 DEF S

Upto(f, n) == CHOOSE h : h = [i \in 0 .. n |-> IF i = 0 THEN <<>> ELSE h[i - 1] \o f[i]]

\* The function Concat reads: each value continues the one before.
LEMMA UptoRecursion ==
  ASSUME NEW f, NEW n \in Nat
  PROVE  /\ Upto(f, n)[0] = <<>>
         /\ \A i \in Nat : i + 1 <= n => Upto(f, n)[i + 1] = Upto(f, n)[i] \o f[i + 1]
<1> DEFINE h == Upto(f, n)
<1>1. h = [i \in 0 .. n |-> IF i = 0 THEN <<>> ELSE h[i - 1] \o f[i]]
  BY UptoExists, Zenon DEF Upto
<1> HIDE DEF h
<1>2. h[0] = <<>>
  BY <1>1
<1>3. ASSUME NEW i \in Nat, i + 1 <= n PROVE h[i + 1] = h[i] \o f[i + 1]
  <2>1. i + 1 \in 0 .. n /\ i + 1 # 0 /\ i + 1 - 1 = i
    BY <1>3
  <2> QED
    BY <1>1, <2>1
<1> QED
  BY <1>2, <1>3 DEF h

\* The functions for n and n + 1 sequences agree on the first n.
LEMMA UptoAgrees ==
  ASSUME NEW f, NEW n \in Nat
  PROVE  Upto(f, n)[n] = Upto(f, n + 1)[n]
<1> DEFINE S == {i \in Nat : i <= n => Upto(f, n)[i] = Upto(f, n + 1)[i]}
<1>0. n + 1 \in Nat
  OBVIOUS
<1>1. 0 \in S
  <2>1. Upto(f, n)[0] = <<>> /\ Upto(f, n + 1)[0] = <<>>
    BY <1>0, UptoRecursion, Zenon
  <2> QED
    BY <2>1
<1>2. ASSUME NEW i \in Nat, i \in S, i + 1 <= n PROVE i + 1 \in S
  <2>1. i + 1 <= n /\ i + 1 <= n + 1
    BY <1>2
  <2>2. Upto(f, n)[i + 1] = Upto(f, n)[i] \o f[i + 1]
    BY <1>0, <2>1, UptoRecursion, Zenon
  <2>3. Upto(f, n + 1)[i + 1] = Upto(f, n + 1)[i] \o f[i + 1]
    BY <1>0, <2>1, UptoRecursion, Zenon
  <2>4. Upto(f, n)[i] = Upto(f, n + 1)[i]
    BY <1>2
  <2>5. Upto(f, n)[i + 1] = Upto(f, n + 1)[i + 1]
    BY <2>2, <2>3, <2>4
  <2> QED
    BY <2>5
<1>3. \A i \in Nat : i \in S => i + 1 \in S
  BY <1>2
<1> HIDE DEF S
<1>4. n \in S
  BY <1>1, <1>3, Induction
<1> QED
  BY <1>4 DEF S

\* What Concat adds with each sequence.
LEMMA ConcatStep ==
  ASSUME NEW f
  PROVE  /\ Concat(f, 0) = <<>>
         /\ \A n \in Nat : Concat(f, n + 1) = Concat(f, n) \o f[n + 1]
<1>1. \A n : Concat(f, n) = Upto(f, n)[n]
  BY Zenon DEF Concat, Upto
<1>2. ASSUME NEW n \in Nat PROVE Concat(f, n + 1) = Concat(f, n) \o f[n + 1]
  <2>1. n + 1 \in Nat /\ n + 1 <= n + 1
    OBVIOUS
  <2>2. Upto(f, n + 1)[n + 1] = Upto(f, n + 1)[n] \o f[n + 1]
    BY <2>1, UptoRecursion, Zenon
  <2> QED
    BY <1>1, <2>1, <2>2, UptoAgrees
<1>3. Concat(f, 0) = <<>>
  BY <1>1, UptoRecursion
<1> QED
  BY <1>2, <1>3

\* Sequences of elements of T together are a sequence of elements of T.
LEMMA ConcatType ==
  ASSUME NEW T, NEW f, NEW n \in Nat, \A i \in 1 .. n : f[i] \in Seq(T)
  PROVE  Concat(f, n) \in Seq(T)
<1> DEFINE S == {i \in Nat : i <= n => Concat(f, i) \in Seq(T)}
<1>1. 0 \in S
  BY ConcatStep, EmptySeq
<1>2. ASSUME NEW i \in Nat, i \in S, i + 1 <= n PROVE i + 1 \in S
  <2>1. Concat(f, i) \in Seq(T) /\ f[i + 1] \in Seq(T)
    BY <1>2
  <2>2. Concat(f, i + 1) = Concat(f, i) \o f[i + 1]
    BY ConcatStep
  <2>3. Concat(f, i + 1) \in Seq(T)
    BY <2>1, <2>2, ConcatProperties
  <2> QED
    BY <2>3
<1>3. \A i \in Nat : i \in S => i + 1 \in S
  BY <1>2
<1> HIDE DEF S
<1>4. n \in S
  BY <1>1, <1>3, Induction
<1> QED
  BY <1>4 DEF S

-----------------------------------------------------------------------------
(* The bytes of a request                                                  *)

Sym == Chars \cup {Esc}

\* A byte of the request, and a byte of a marker.
Byte == [sym : Sym, pos : Nat, old : {<<>>}, at : {0}]
Mark == {e \in [sym : Sym, pos : Nat, old : Literals, at : Nat] :
           e.at \in 1 .. Len(Marker[e.old]) /\ e.sym = Marker[e.old][e.at]}
Elements == Byte \cup Mark

\* The encoded text of a field is a sequence of characters and escapes.
LEMMA EncodeType == ASSUME NEW text \in Seq(Chars) PROVE Encode(text) \in Seq(Sym)
<1> DEFINE f == [i \in DOMAIN text |-> EncodeChar(text[i])]
<1>1. ASSUME NEW i \in 1 .. Len(text) PROVE f[i] \in Seq(Sym)
  <2>1. text[i] \in Chars /\ f[i] = EncodeChar(text[i])
    BY LenProperties, ElementOfSeq
  <2>2. ASSUME NEW c \in Chars PROVE EncodeChar(c) \in Seq(Sym)
    <3>1. {Esc, Quote, LetterN, c} \subseteq Sym
      BY HandleBodyAssumption DEF Sym, Chars
    <3>2. <<Esc, Quote>> \in Seq(Sym) /\ <<Esc, LetterN>> \in Seq(Sym) /\ <<c>> \in Seq(Sym)
      BY <3>1
    <3> QED
      BY <3>2 DEF EncodeChar
  <2> QED
    BY <2>1, <2>2
<1> HIDE DEF f
<1>2. Concat(f, Len(text)) \in Seq(Sym)
  BY <1>1, ConcatType, LenProperties
<1> QED
  BY <1>2 DEF Encode, f

\* So are the bytes of a request.
LEMMA RawType == ASSUME NEW b \in Bodies PROVE Raw(b) \in Seq(Sym)
<1> DEFINE f == [i \in DOMAIN b.fields |-> Quoted(b.fields[i].text)]
<1>0. b.fields \in Seq(Field)
  BY HandleBodyAssumption
<1>1. ASSUME NEW i \in 1 .. Len(b.fields) PROVE f[i] \in Seq(Sym)
  <2>1. b.fields[i] \in Field /\ f[i] = Quoted(b.fields[i].text)
    BY <1>0, LenProperties, ElementOfSeq
  <2>2. Encode(b.fields[i].text) \in Seq(Sym)
    BY <2>1, EncodeType DEF Field
  <2>3. <<Quote>> \in Seq(Sym)
    BY DEF Sym, Chars
  <2>4. Quoted(b.fields[i].text) \in Seq(Sym)
    BY <2>2, <2>3, ConcatProperties DEF Quoted
  <2> QED
    BY <2>1, <2>4
<1> HIDE DEF f
<1>2. Concat(f, Len(b.fields)) \in Seq(Sym)
  BY <1>0, <1>1, ConcatType, LenProperties
<1> QED
  BY <1>2 DEF Raw, RawUpTo, f

\* The symbols of the bytes so far, one for one.
LEMMA SymbolsOf ==
  ASSUME NEW bytes \in Seq(Elements)
  PROVE  /\ Len(bytes) \in Nat /\ Symbols(bytes) \in Seq(Sym)
         /\ Len(Symbols(bytes)) = Len(bytes)
         /\ \A k \in 1 .. Len(bytes) : Symbols(bytes)[k] = bytes[k].sym
<1>1. \A k \in 1 .. Len(bytes) : bytes[k] \in Elements
  BY ElementOfSeq
<1>2. \A k \in 1 .. Len(bytes) : bytes[k].sym \in Sym
  BY <1>1 DEF Elements, Byte, Mark
<1> QED
  BY <1>2, LenProperties DEF Symbols

\* A literal and its marker are nonempty strings.
LEMMA LiteralIs ==
  ASSUME NEW l \in Literals
  PROVE  /\ Len(l) \in Nat \ {0} /\ DOMAIN l = 1 .. Len(l)
         /\ \A j \in 1 .. Len(l) : l[j] \in Chars
         /\ Len(Marker[l]) \in Nat \ {0} /\ DOMAIN Marker[l] = 1 .. Len(Marker[l])
         /\ \A j \in 1 .. Len(Marker[l]) : Marker[l][j] \in Sym
<1>1. l \in Seq(Chars) /\ l # <<>> /\ Marker[l] \in Seq(Letters) /\ Marker[l] # <<>>
  BY HandleBodyAssumption
<1>2. Letters \subseteq Sym
  BY DEF Sym, Chars
<1> QED
  BY <1>1, <1>2, EmptySeq, LenProperties, ElementOfSeq

\* What an element is, marked or not.
LEMMA ElementIs ==
  ASSUME NEW e \in Elements
  PROVE  /\ e.pos \in Nat /\ e.at \in Nat /\ e.sym \in Sym
         /\ Marked(e) => /\ e.old \in Literals /\ e.at \in 1 .. Len(Marker[e.old])
                         /\ e.sym = Marker[e.old][e.at]
<1>1. \A x \in Byte : x.pos \in Nat /\ x.at = 0 /\ x.sym \in Sym
  BY DEF Byte
<1>2. \A x \in Mark : /\ x.pos \in Nat /\ x.at \in Nat /\ x.sym \in Sym
                      /\ x.old \in Literals /\ x.at \in 1 .. Len(Marker[x.old])
                      /\ x.sym = Marker[x.old][x.at]
  BY DEF Mark
<1> QED
  BY <1>1, <1>2 DEF Elements, Marked

-----------------------------------------------------------------------------
(* The recursion of ReplaceAll and of Occurrences                          *)

\* h's value at k is made, by comb, of its value further right, at goon[k].
Downward(h, V, N, base, goon, comb) ==
  /\ h \in [1 .. N + 1 -> V]
  /\ \A k \in 1 .. N + 1 : h[k] = IF k > N THEN base ELSE comb[<<k, h[goon[k]]>>]

\* There are such functions.
LEMMA DownwardRecursion ==
  ASSUME NEW V, NEW N \in Nat, NEW base \in V,
         NEW goon \in [1 .. N -> Nat], \A k \in 1 .. N : goon[k] \in k + 1 .. N + 1,
         NEW comb \in [(1 .. N) \X V -> V]
  PROVE  \E h : Downward(h, V, N, base, goon, comb)
<1> DEFINE Value(h, k) == IF k > N THEN base ELSE comb[<<k, h[goon[k]]>>]
           Rec(h, m) == h \in [m .. N + 1 -> V] /\ \A k \in m .. N + 1 : h[k] = Value(h, k)
           S == {d \in Nat : d <= N => \E h : Rec(h, N + 1 - d)}
<1>1. 0 \in S
  <2> DEFINE h == [k \in N + 1 .. N + 1 |-> base]
  <2>1. Rec(h, N + 1)
    OBVIOUS
  <2>2. N + 1 - 0 = N + 1
    OBVIOUS
  <2>3. Rec(h, N + 1 - 0)
    BY <2>1, <2>2
  <2> QED
    BY <2>3
<1>2. ASSUME NEW d \in Nat, d \in S, d + 1 <= N PROVE \E h : Rec(h, N + 1 - (d + 1))
  <2> DEFINE m == N - d
  <2>0. /\ m \in 1 .. N /\ N + 1 - d = m + 1 /\ N + 1 - (d + 1) = m
        /\ \A k \in m .. N + 1 : k = m \/ k \in m + 1 .. N + 1
    BY <1>2
  <2>1. PICK h : Rec(h, m + 1)
    BY <1>2, <2>0
  <2> HIDE DEF m
  <2> DEFINE g == [k \in m .. N + 1 |-> IF k = m THEN Value(h, m) ELSE h[k]]
  <2>2. goon[m] \in m + 1 .. N + 1 /\ Value(h, m) \in V
    <3>1. goon[m] \in m + 1 .. N + 1
      BY <2>0
    <3>2. h[goon[m]] \in V
      BY <2>1, <3>1
    <3> QED
      BY <2>0, <3>1, <3>2
  <2>3. g[m] = Value(h, m) /\ \A k \in m + 1 .. N + 1 : g[k] = h[k]
    BY <2>0
  <2>4. g \in [m .. N + 1 -> V]
    BY <2>0, <2>1, <2>2
  <2>5. \A k \in m + 1 .. N + 1 : h[k] = Value(h, k)
    BY <2>1
  <2> HIDE DEF g
  <2>6. ASSUME NEW k \in m .. N + 1 PROVE Value(g, k) = Value(h, k)
    <3>1. CASE k > N
      BY <3>1
    <3>2. CASE ~(k > N)
      <4>1. goon[k] \in m + 1 .. N + 1
        BY <2>0, <3>2
      <4> QED
        BY <4>1, <2>3
    <3> QED
      BY <3>1, <3>2
  <2>7. \A k \in m .. N + 1 : g[k] = Value(h, k)
    BY <2>0, <2>3, <2>5
  <2> HIDE DEF Value
  <2>8. Rec(g, m)
    BY <2>4, <2>6, <2>7
  <2> QED
    BY <2>0, <2>8
<1>3. ASSUME NEW d \in Nat, d \in S PROVE d + 1 \in S
  <2>1. d + 1 <= N => \E h : Rec(h, N + 1 - (d + 1))
    BY <1>2, <1>3
  <2>2. d + 1 \in Nat
    OBVIOUS
  <2> QED
    BY <2>1, <2>2, Zenon
<1> HIDE DEF S, Rec
<1>4. N \in S
  BY <1>1, <1>3, Induction
<1>5. N + 1 - N = 1
  OBVIOUS
<1>6. \E h : Rec(h, 1)
  BY <1>4, <1>5 DEF S
<1> QED
  BY <1>6 DEF Rec, Value, Downward

Hit(bytes, l, k) == At(l, Symbols(bytes), k)

\* What ReplaceAll writes for position k, and where it goes on.
Piece(bytes, l, k) == IF Hit(bytes, l, k) THEN Replaced(l, bytes[k]) ELSE <<bytes[k]>>
GoOn(bytes, l, k) == IF Hit(bytes, l, k) THEN k + Len(l) ELSE k + 1

\* The bytes of a marker.
LEMMA ReplacedIs ==
  ASSUME NEW l \in Literals, NEW e \in Elements
  PROVE  /\ Replaced(l, e) \in Seq(Elements) /\ Len(Replaced(l, e)) = Len(Marker[l])
         /\ \A j \in 1 .. Len(Marker[l]) :
              /\ Replaced(l, e)[j] \in Elements /\ Marked(Replaced(l, e)[j])
              /\ Replaced(l, e)[j].sym = Marker[l][j] /\ Replaced(l, e)[j].pos = e.pos
              /\ Replaced(l, e)[j].old = l /\ Replaced(l, e)[j].at = j
<1> DEFINE r == Replaced(l, e)
           M == Len(Marker[l])
<1>0. M \in Nat \ {0} /\ DOMAIN Marker[l] = 1 .. M /\ \A j \in 1 .. M : Marker[l][j] \in Sym
  BY LiteralIs
<1>1. r = [j \in 1 .. M |-> [sym |-> Marker[l][j], pos |-> e.pos, old |-> l, at |-> j]]
  BY <1>0 DEF Replaced
<1> HIDE DEF r
<1>2. ASSUME NEW j \in 1 .. M
      PROVE  /\ r[j] \in Elements /\ Marked(r[j]) /\ r[j].sym = Marker[l][j] /\ r[j].pos = e.pos
             /\ r[j].old = l /\ r[j].at = j
  <2>1. r[j] = [sym |-> Marker[l][j], pos |-> e.pos, old |-> l, at |-> j]
    BY <1>1
  <2>2. e.pos \in Nat /\ Marker[l][j] \in Sym /\ j \in Nat /\ j > 0
    BY <1>0, ElementIs
  <2>3. r[j] \in Mark
    BY <2>1, <2>2 DEF Mark
  <2> QED
    BY <2>1, <2>2, <2>3 DEF Elements, Marked
<1>3. r \in Seq(Elements) /\ Len(r) = M
  BY <1>0, <1>1, <1>2
<1> QED
  BY <1>2, <1>3 DEF r

\* ReplaceAll goes on further right, at most at the end, and writes elements.
LEMMA GoOnType ==
  ASSUME NEW bytes \in Seq(Elements), NEW l \in Literals, NEW k \in 1 .. Len(bytes)
  PROVE  /\ GoOn(bytes, l, k) \in k + 1 .. Len(bytes) + 1
         /\ Piece(bytes, l, k) \in Seq(Elements)
<1>1. bytes[k] \in Elements /\ Len(bytes) \in Nat
  BY ElementOfSeq, LenProperties
<1>2. Hit(bytes, l, k) => k + Len(l) - 1 <= Len(bytes)
  BY SymbolsOf DEF Hit, At
<1>3. Replaced(l, bytes[k]) \in Seq(Elements)
  BY <1>1, ReplacedIs
<1>4. GoOn(bytes, l, k) \in k + 1 .. Len(bytes) + 1
  BY <1>1, <1>2, LiteralIs DEF GoOn
<1> QED
  BY <1>1, <1>3, <1>4 DEF Piece

LEMMA ReplaceAllScans ==
  ASSUME NEW bytes \in Seq(Elements), NEW l \in Literals
  PROVE  \E h : /\ ReplaceAll(bytes, l) = h[1] /\ h[Len(bytes) + 1] = <<>>
                /\ \A k \in 1 .. Len(bytes) : h[k] = Piece(bytes, l, k) \o h[GoOn(bytes, l, k)]
<1> DEFINE N == Len(bytes)
           Form(h) ==
             [k \in 1 .. N + 1 |->
                IF k > N THEN <<>>
                ELSE IF At(l, Symbols(bytes), k)
                     THEN Replaced(l, bytes[k]) \o h[k + Len(l)]
                     ELSE <<bytes[k]>> \o h[k + 1]]
           Value(h, k) == IF k > N THEN <<>> ELSE Piece(bytes, l, k) \o h[GoOn(bytes, l, k)]
           from == CHOOSE h : h = Form(h)
<1>0. N \in Nat
  BY LenProperties
<1>1. ASSUME NEW h PROVE Form(h) = [k \in 1 .. N + 1 |-> Value(h, k)]
  BY Zenon DEF Piece, GoOn, Hit
<1>2. ReplaceAll(bytes, l) = from[1]
  BY Zenon DEF ReplaceAll
<1>3. \E h : h = [k \in 1 .. N + 1 |-> Value(h, k)]
  <2> DEFINE V == Seq(Elements)
             goon == [k \in 1 .. N |-> GoOn(bytes, l, k)]
             comb == [x \in (1 .. N) \X V |-> Piece(bytes, l, x[1]) \o x[2]]
  <2>1. \A k \in 1 .. N : goon[k] = GoOn(bytes, l, k) /\ goon[k] \in k + 1 .. N + 1
    BY GoOnType
  <2>2. \A k \in 1 .. N : \A v \in V : comb[<<k, v>>] = Piece(bytes, l, k) \o v
    OBVIOUS
  <2>3. comb \in [(1 .. N) \X V -> V]
    <3>1. \A k \in 1 .. N : \A v \in V : Piece(bytes, l, k) \o v \in V
      BY GoOnType, ConcatProperties
    <3> QED
      BY <3>1
  <2>4. <<>> \in V
    BY EmptySeq
  <2> HIDE DEF V, goon, comb, N
  <2>5. \A k \in 1 .. N : goon[k] \in k + 1 .. N + 1
    BY <2>1
  <2>10. goon \in [1 .. N -> Nat]
    BY <1>0, <2>5 DEF goon
  <2>6. \E h : Downward(h, V, N, <<>>, goon, comb)
    BY <1>0, <2>3, <2>4, <2>5, <2>10, DownwardRecursion
  <2>7. PICK h : Downward(h, V, N, <<>>, goon, comb)
    BY <2>6
  <2>11. /\ h \in [1 .. N + 1 -> V]
         /\ \A k \in 1 .. N + 1 : h[k] = IF k > N THEN <<>> ELSE comb[<<k, h[goon[k]]>>]
    BY <2>7 DEF Downward
  <2>8. ASSUME NEW k \in 1 .. N + 1 PROVE h[k] = Value(h, k)
    <3>1. CASE k > N
      BY <2>11, <3>1
    <3>2. CASE ~(k > N)
      <4>1. k \in 1 .. N
        BY <1>0, <3>2
      <4>2. h[goon[k]] \in V
        BY <1>0, <2>5, <2>11, <4>1
      <4>3. h[k] = comb[<<k, h[goon[k]]>>]
        BY <2>11, <3>2
      <4>4. goon[k] = GoOn(bytes, l, k)
        BY <2>1, <4>1
      <4> QED
        BY <2>2, <3>2, <4>1, <4>2, <4>3, <4>4
    <3> QED
      BY <3>1, <3>2
  <2> HIDE DEF Value
  <2>9. h = [k \in 1 .. N + 1 |-> Value(h, k)]
    BY <2>11, <2>8
  <2> QED
    BY <2>9, Zenon
<1>4. from = [k \in 1 .. N + 1 |-> Value(from, k)]
  <2> HIDE DEF Form, Value, N
  <2>1. \E h : h = Form(h)
    BY <1>1, <1>3, Zenon
  <2>2. from = Form(from)
    BY <2>1, Zenon
  <2> QED
    BY <1>1, <2>2, Zenon
<1> HIDE DEF from, Form
<1>5. \A k \in 1 .. N + 1 : from[k] = Value(from, k)
  <2> HIDE DEF Value
  <2> QED
    BY <1>4
<1> HIDE DEF N
<1>6. from[N + 1] = <<>>
  BY <1>0, <1>5
<1>7. ASSUME NEW k \in 1 .. N PROVE from[k] = Piece(bytes, l, k) \o from[GoOn(bytes, l, k)]
  <2>1. k \in 1 .. N + 1 /\ ~(k > N)
    BY <1>0
  <2> QED
    BY <1>5, <2>1, Zenon
<1> QED
  BY <1>2, <1>6, <1>7, Zenon DEF N

LEMMA OccurrencesScans ==
  ASSUME NEW bytes \in Seq(Elements), NEW l \in Literals
  PROVE  \E h : /\ Occurrences(bytes, l) = h[1] /\ h[Len(bytes) + 1] = 0
                /\ \A k \in 1 .. Len(bytes) :
                     h[k] = IF Hit(bytes, l, k) THEN 1 + h[GoOn(bytes, l, k)] ELSE h[GoOn(bytes, l, k)]
<1> DEFINE N == Len(bytes)
           Form(h) ==
             [k \in 1 .. N + 1 |->
                IF k > N THEN 0
                ELSE IF At(l, Symbols(bytes), k) THEN 1 + h[k + Len(l)] ELSE h[k + 1]]
           Value(h, k) ==
             IF k > N THEN 0
             ELSE IF Hit(bytes, l, k) THEN 1 + h[GoOn(bytes, l, k)] ELSE h[GoOn(bytes, l, k)]
           from == CHOOSE h : h = Form(h)
<1>0. N \in Nat
  BY LenProperties
<1>1. ASSUME NEW h PROVE Form(h) = [k \in 1 .. N + 1 |-> Value(h, k)]
  BY Zenon DEF GoOn, Hit
<1>2. Occurrences(bytes, l) = from[1]
  BY Zenon DEF Occurrences
<1>3. \E h : h = [k \in 1 .. N + 1 |-> Value(h, k)]
  <2> DEFINE goon == [k \in 1 .. N |-> GoOn(bytes, l, k)]
             comb == [x \in (1 .. N) \X Nat |-> IF Hit(bytes, l, x[1]) THEN 1 + x[2] ELSE x[2]]
  <2>1. \A k \in 1 .. N : goon[k] = GoOn(bytes, l, k) /\ goon[k] \in k + 1 .. N + 1
    BY GoOnType
  <2>2. \A k \in 1 .. N : \A v \in Nat : comb[<<k, v>>] = IF Hit(bytes, l, k) THEN 1 + v ELSE v
    OBVIOUS
  <2>3. comb \in [(1 .. N) \X Nat -> Nat]
    OBVIOUS
  <2> HIDE DEF goon, comb
  <2>4. 0 \in Nat
    OBVIOUS
  <2> HIDE DEF N
  <2>5. \A k \in 1 .. N : goon[k] \in k + 1 .. N + 1
    BY <2>1
  <2>10. goon \in [1 .. N -> Nat]
    BY <1>0, <2>5 DEF goon
  <2>6. \E h : Downward(h, Nat, N, 0, goon, comb)
    BY <1>0, <2>3, <2>4, <2>5, <2>10, DownwardRecursion
  <2>7. PICK h : Downward(h, Nat, N, 0, goon, comb)
    BY <2>6
  <2>11. /\ h \in [1 .. N + 1 -> Nat]
         /\ \A k \in 1 .. N + 1 : h[k] = IF k > N THEN 0 ELSE comb[<<k, h[goon[k]]>>]
    BY <2>7 DEF Downward
  <2>8. ASSUME NEW k \in 1 .. N + 1 PROVE h[k] = Value(h, k)
    <3>1. CASE k > N
      BY <2>11, <3>1
    <3>2. CASE ~(k > N)
      <4>1. k \in 1 .. N
        BY <1>0, <3>2
      <4>2. h[goon[k]] \in Nat
        BY <1>0, <2>5, <2>11, <4>1
      <4>3. h[k] = comb[<<k, h[goon[k]]>>]
        BY <2>11, <3>2
      <4>4. goon[k] = GoOn(bytes, l, k)
        BY <2>1, <4>1
      <4> QED
        BY <2>2, <3>2, <4>1, <4>2, <4>3, <4>4
    <3> QED
      BY <3>1, <3>2
  <2> HIDE DEF Value
  <2>9. h = [k \in 1 .. N + 1 |-> Value(h, k)]
    BY <2>11, <2>8
  <2> QED
    BY <2>9, Zenon
<1>4. from = [k \in 1 .. N + 1 |-> Value(from, k)]
  <2> HIDE DEF Form, Value, N
  <2>1. \E h : h = Form(h)
    BY <1>1, <1>3, Zenon
  <2>2. from = Form(from)
    BY <2>1, Zenon
  <2> QED
    BY <1>1, <2>2, Zenon
<1> HIDE DEF from, Form
<1>5. \A k \in 1 .. N + 1 : from[k] = Value(from, k)
  <2> HIDE DEF Value
  <2> QED
    BY <1>4
<1> HIDE DEF N
<1>6. /\ from[N + 1] = 0
      /\ \A k \in 1 .. N :
           from[k] = IF Hit(bytes, l, k) THEN 1 + from[GoOn(bytes, l, k)] ELSE from[GoOn(bytes, l, k)]
  BY <1>0, <1>5
<1> QED
  BY <1>2, <1>6, Zenon DEF N

-----------------------------------------------------------------------------
(* What ReplaceAll makes of the bytes, byte for byte                       *)

Start(bytes, l, k) == IF Hit(bytes, l, k) THEN 1 ELSE 0

\* Byte j of the marker at position k, or the byte that stands there.
Elem(bytes, l, k, j) == IF j = 0 THEN bytes[k] ELSE Replaced(l, bytes[k])[j]

\* q is what ReplaceAll makes of bytes from position k on: its element i is byte
\* off[i] of the marker for the literal at src[i], or the byte that stands there.
Reads(bytes, l, k, q, src, off) ==
  /\ q \in Seq(Elements)
  /\ src \in [1 .. Len(q) + 1 -> k .. Len(bytes) + 1]
  /\ off \in [1 .. Len(q) + 1 -> 0 .. Len(Marker[l])]
  /\ src[1] = k /\ off[1] = Start(bytes, l, k)
  /\ src[Len(q) + 1] = Len(bytes) + 1
  /\ \A i \in 1 .. Len(q) :
       /\ src[i] <= Len(bytes)
       /\ q[i] = Elem(bytes, l, src[i], off[i])
       /\ off[i] = 0 <=> ~Hit(bytes, l, src[i])
       /\ IF off[i] \in 1 .. Len(Marker[l]) - 1
          THEN src[i + 1] = src[i] /\ off[i + 1] = off[i] + 1
          ELSE src[i + 1] = GoOn(bytes, l, src[i]) /\ off[i + 1] = Start(bytes, l, src[i + 1])

\* H are the n positions from k on at which ReplaceAll replaces, and every byte is
\* read or stands where one of them is replaced.
Takes(bytes, l, k, q, src, off, H, n) ==
  /\ H \subseteq k .. Len(bytes) /\ IsFiniteSet(H) /\ Cardinality(H) = n
  /\ \A s \in H : Hit(bytes, l, s) /\ \E i \in 1 .. Len(q) : src[i] = s /\ off[i] = 1
  /\ \A i \in 1 .. Len(q) : off[i] > 0 => src[i] \in H
  /\ \A s \in k .. Len(bytes) :
       \/ \E i \in 1 .. Len(q) : src[i] = s
       \/ \E h \in H : s \in h .. h + Len(l) - 1

LEMMA PieceIs ==
  ASSUME NEW bytes \in Seq(Elements), NEW l \in Literals, NEW k \in 1 .. Len(bytes)
  PROVE  /\ Piece(bytes, l, k) \in Seq(Elements)
         /\ Len(Piece(bytes, l, k)) = IF Hit(bytes, l, k) THEN Len(Marker[l]) ELSE 1
         /\ Len(Piece(bytes, l, k)) \in Nat \ {0}
         /\ \A j \in 1 .. Len(Piece(bytes, l, k)) :
              Piece(bytes, l, k)[j] = Elem(bytes, l, k, IF Hit(bytes, l, k) THEN j ELSE 0)
<1>0. bytes[k] \in Elements /\ Len(Marker[l]) \in Nat \ {0}
  BY ElementOfSeq, LiteralIs
<1>1. CASE Hit(bytes, l, k)
  <2>1. Piece(bytes, l, k) = Replaced(l, bytes[k]) /\ Len(Replaced(l, bytes[k])) = Len(Marker[l])
    BY <1>0, <1>1, ReplacedIs DEF Piece
  <2>2. \A j \in 1 .. Len(Marker[l]) : Elem(bytes, l, k, j) = Replaced(l, bytes[k])[j]
    BY <1>0 DEF Elem
  <2> QED
    BY <1>0, <1>1, <2>1, <2>2, GoOnType
<1>2. CASE ~Hit(bytes, l, k)
  <2>1. Piece(bytes, l, k) = <<bytes[k]>>
    BY <1>2 DEF Piece
  <2>2. Len(<<bytes[k]>>) = 1 /\ <<bytes[k]>>[1] = bytes[k] /\ <<bytes[k]>> \in Seq(Elements)
    BY <1>0
  <2> QED
    BY <1>2, <2>1, <2>2 DEF Elem
<1> QED
  BY <1>1, <1>2

\* What is read from where position k goes on, with k's own piece before it, is
\* what is read from k.
LEMMA ReadsOneMore ==
  ASSUME NEW bytes \in Seq(Elements), NEW l \in Literals, NEW k \in 1 .. Len(bytes),
         NEW q, NEW src, NEW off, NEW H, NEW n \in Nat,
         Reads(bytes, l, GoOn(bytes, l, k), q, src, off),
         Takes(bytes, l, GoOn(bytes, l, k), q, src, off, H, n)
  PROVE  \E s2, o2, H2 :
           /\ Reads(bytes, l, k, Piece(bytes, l, k) \o q, s2, o2)
           /\ Takes(bytes, l, k, Piece(bytes, l, k) \o q, s2, o2, H2,
                    IF Hit(bytes, l, k) THEN 1 + n ELSE n)
<1> DEFINE N == Len(bytes)
           M == Len(Marker[l])
           Q == Len(q)
           c == Piece(bytes, l, k)
           P == Len(c)
           g == GoOn(bytes, l, k)
           p == c \o q
           s2 == [i \in 1 .. P + Q + 1 |-> IF i <= P THEN k ELSE src[i - P]]
           o2 == [i \in 1 .. P + Q + 1 |->
                    IF i <= P THEN IF Hit(bytes, l, k) THEN i ELSE 0 ELSE off[i - P]]
           H2 == IF Hit(bytes, l, k) THEN H \cup {k} ELSE H
<1>1. /\ N \in Nat /\ Q \in Nat /\ P \in Nat \ {0} /\ M \in Nat \ {0}
      /\ k \in 1 .. N /\ g \in k + 1 .. N + 1
      /\ q \in Seq(Elements) /\ c \in Seq(Elements)
  BY GoOnType, LenProperties, PieceIs, LiteralIs DEF Reads
<1>2. /\ p \in Seq(Elements) /\ Len(p) = P + Q
      /\ \A i \in 1 .. P : p[i] = c[i]
      /\ \A i \in 1 .. Q : p[i + P] = q[i]
  <2>1. /\ p \in Seq(Elements) /\ Len(p) = P + Q
        /\ \A i \in 1 .. P + Q : p[i] = IF i <= P THEN c[i] ELSE q[i - P]
    BY <1>1, ConcatProperties
  <2> HIDE DEF p, P, Q, c
  <2>2. \A i \in 1 .. Q : i + P \in 1 .. P + Q /\ ~(i + P <= P) /\ i + P - P = i
    BY <1>1
  <2>3. \A i \in 1 .. P : i \in 1 .. P + Q /\ i <= P
    BY <1>1
  <2>4. \A i \in 1 .. P : p[i] = c[i]
    BY <2>1, <2>3
  <2>5. ASSUME NEW i \in 1 .. Q PROVE p[i + P] = q[i]
    <3> DEFINE j == i + P
    <3>1. j \in 1 .. P + Q /\ ~(j <= P) /\ j - P = i
      BY <1>1
    <3> HIDE DEF j
    <3>2. p[j] = q[j - P]
      BY <2>1, <3>1
    <3> QED
      BY <3>1, <3>2 DEF j
  <2> QED
    BY <2>1, <2>4, <2>5
<1>3. /\ src \in [1 .. Q + 1 -> g .. N + 1] /\ off \in [1 .. Q + 1 -> 0 .. M]
      /\ src[1] = g /\ off[1] = Start(bytes, l, g) /\ src[Q + 1] = N + 1
  BY DEF Reads
<1>4. P = IF Hit(bytes, l, k) THEN M ELSE 1
  BY PieceIs
<1>5. \A j \in 1 .. P : c[j] = Elem(bytes, l, k, IF Hit(bytes, l, k) THEN j ELSE 0)
  BY PieceIs
<1> HIDE DEF p, P, Q, M, N, g, c
<1>6. /\ \A i \in 1 .. P : s2[i] = k /\ o2[i] = IF Hit(bytes, l, k) THEN i ELSE 0
      /\ \A i \in 1 .. Q + 1 : s2[i + P] = src[i] /\ o2[i + P] = off[i]
  <2>1. \A i \in 1 .. Q + 1 : i + P \in 1 .. P + Q + 1 /\ ~(i + P <= P) /\ i + P - P = i
    BY <1>1
  <2>2. \A i \in 1 .. P : i \in 1 .. P + Q + 1 /\ i <= P
    BY <1>1
  <2>3. /\ \A i \in 1 .. P + Q + 1 : s2[i] = IF i <= P THEN k ELSE src[i - P]
        /\ \A i \in 1 .. P + Q + 1 :
             o2[i] = IF i <= P THEN IF Hit(bytes, l, k) THEN i ELSE 0 ELSE off[i - P]
    OBVIOUS
  <2> HIDE DEF s2, o2
  <2>4. ASSUME NEW i \in 1 .. P PROVE s2[i] = k /\ o2[i] = IF Hit(bytes, l, k) THEN i ELSE 0
    BY <2>2, <2>3
  <2>5. ASSUME NEW i \in 1 .. Q + 1 PROVE s2[i + P] = src[i] /\ o2[i + P] = off[i]
    <3> DEFINE j == i + P
    <3>1. j \in 1 .. P + Q + 1 /\ ~(j <= P) /\ j - P = i
      BY <1>1
    <3> HIDE DEF j
    <3>2. s2[j] = src[j - P] /\ o2[j] = off[j - P]
      BY <2>3, <3>1
    <3> QED
      BY <3>1, <3>2 DEF j
  <2> QED
    BY <2>4, <2>5
<1>7. \A i \in 1 .. P + Q + 1 : i \in 1 .. P \/ \E j \in 1 .. Q + 1 : i = j + P
  <2>1. ASSUME NEW i \in 1 .. P + Q + 1, ~(i \in 1 .. P) PROVE i - P \in 1 .. Q + 1 /\ i = (i - P) + P
    BY <1>1, <2>1
  <2> QED
    BY <2>1
<1>8. s2 \in [1 .. P + Q + 1 -> k .. N + 1] /\ o2 \in [1 .. P + Q + 1 -> 0 .. M]
  <2>1. ASSUME NEW i \in 1 .. P + Q + 1 PROVE s2[i] \in k .. N + 1 /\ o2[i] \in 0 .. M
    <3>1. CASE i \in 1 .. P
      BY <1>1, <1>4, <1>6, <3>1
    <3>2. ASSUME NEW j \in 1 .. Q + 1, i = j + P PROVE s2[i] \in k .. N + 1 /\ o2[i] \in 0 .. M
      <4>1. src[j] \in g .. N + 1 /\ off[j] \in 0 .. M
        BY <1>3
      <4> QED
        BY <1>1, <1>6, <3>2, <4>1
    <3> QED
      BY <1>7, <3>1, <3>2
  <2> QED
    BY <2>1
<1> HIDE DEF s2, o2
<1>9. s2[1] = k /\ o2[1] = Start(bytes, l, k) /\ s2[P + Q + 1] = N + 1
  <2>1. 1 \in 1 .. P /\ Q + 1 \in 1 .. Q + 1 /\ (Q + 1) + P = P + Q + 1
    BY <1>1
  <2>2. s2[(Q + 1) + P] = src[Q + 1]
    BY <1>6, <2>1
  <2> QED
    BY <1>3, <1>6, <2>1, <2>2 DEF Start
<1>10. ASSUME NEW i \in 1 .. P + Q
       PROVE  /\ s2[i] <= N
              /\ p[i] = Elem(bytes, l, s2[i], o2[i])
              /\ o2[i] = 0 <=> ~Hit(bytes, l, s2[i])
              /\ IF o2[i] \in 1 .. M - 1
                 THEN s2[i + 1] = s2[i] /\ o2[i + 1] = o2[i] + 1
                 ELSE s2[i + 1] = GoOn(bytes, l, s2[i]) /\ o2[i + 1] = Start(bytes, l, s2[i + 1])
  <2>1. CASE i \in 1 .. P
    <3>1. /\ s2[i] = k /\ s2[i] <= N /\ o2[i] = IF Hit(bytes, l, k) THEN i ELSE 0
          /\ p[i] = Elem(bytes, l, k, o2[i]) /\ (o2[i] = 0 <=> ~Hit(bytes, l, k))
      <4>1. s2[i] = k /\ o2[i] = IF Hit(bytes, l, k) THEN i ELSE 0
        BY <1>6, <2>1
      <4>2. p[i] = c[i] /\ c[i] = Elem(bytes, l, k, IF Hit(bytes, l, k) THEN i ELSE 0)
        BY <1>2, <1>5, <2>1, Zenon
      <4>3. p[i] = Elem(bytes, l, k, o2[i])
        BY <4>1, <4>2, Zenon
      <4>4. i # 0 /\ k <= N
        BY <1>1, <2>1
      <4> QED
        BY <4>1, <4>3, <4>4
    <3>2. CASE i < P
      <4>1. i + 1 \in 1 .. P /\ i \in 1 .. M - 1 /\ Hit(bytes, l, k)
        BY <1>1, <1>4, <2>1, <3>2
      <4>2. s2[i + 1] = k /\ o2[i + 1] = i + 1
        BY <1>6, <4>1
      <4> QED
        BY <3>1, <4>1, <4>2
    <3>3. CASE i = P
      <4>1. ~(o2[i] \in 1 .. M - 1)
        BY <1>1, <1>4, <3>1, <3>3
      <4>2. 1 \in 1 .. Q + 1 /\ i + 1 = 1 + P
        BY <1>1, <3>3
      <4>3. s2[i + 1] = src[1] /\ o2[i + 1] = off[1]
        BY <1>6, <4>2
      <4>4. s2[i + 1] = GoOn(bytes, l, s2[i]) /\ o2[i + 1] = Start(bytes, l, s2[i + 1])
        BY <1>3, <3>1, <4>3 DEF g
      <4> QED
        BY <3>1, <4>1, <4>4
    <3> QED
      BY <1>1, <2>1, <3>2, <3>3
  <2>2. ASSUME NEW j \in 1 .. Q + 1, i = j + P
        PROVE  /\ s2[i] <= N
               /\ p[i] = Elem(bytes, l, s2[i], o2[i])
               /\ o2[i] = 0 <=> ~Hit(bytes, l, s2[i])
               /\ IF o2[i] \in 1 .. M - 1
                  THEN s2[i + 1] = s2[i] /\ o2[i + 1] = o2[i] + 1
                  ELSE s2[i + 1] = GoOn(bytes, l, s2[i]) /\ o2[i + 1] = Start(bytes, l, s2[i + 1])
    <3>1. j \in 1 .. Q /\ j + 1 \in 1 .. Q + 1 /\ i + 1 = (j + 1) + P
      BY <1>1, <2>2
    <3>2. s2[i] = src[j] /\ o2[i] = off[j] /\ s2[i + 1] = src[j + 1] /\ o2[i + 1] = off[j + 1] /\ p[i] = q[j]
      BY <1>2, <1>6, <2>2, <3>1
    <3>3. /\ src[j] <= N
          /\ q[j] = Elem(bytes, l, src[j], off[j])
          /\ off[j] = 0 <=> ~Hit(bytes, l, src[j])
          /\ IF off[j] \in 1 .. M - 1
             THEN src[j + 1] = src[j] /\ off[j + 1] = off[j] + 1
             ELSE src[j + 1] = GoOn(bytes, l, src[j]) /\ off[j + 1] = Start(bytes, l, src[j + 1])
      BY <3>1 DEF Reads, N, M, Q
    <3> QED
      BY <3>2, <3>3
  <2>3. i \in 1 .. P + Q + 1
    BY <1>1
  <2> QED
    BY <1>7, <2>1, <2>2, <2>3
<1>11. Reads(bytes, l, k, p, s2, o2)
  BY <1>2, <1>8, <1>9, <1>10 DEF Reads, N, M
<1>12. /\ H \subseteq g .. N /\ IsFiniteSet(H) /\ Cardinality(H) = n
       /\ \A s \in H : Hit(bytes, l, s) /\ \E i \in 1 .. Q : src[i] = s /\ off[i] = 1
       /\ \A i \in 1 .. Q : off[i] > 0 => src[i] \in H
       /\ \A s \in g .. N : \/ \E i \in 1 .. Q : src[i] = s
                            \/ \E h \in H : s \in h .. h + Len(l) - 1
  BY DEF Takes, N, Q, g
<1>13. /\ H2 \subseteq k .. N /\ IsFiniteSet(H2)
       /\ Cardinality(H2) = IF Hit(bytes, l, k) THEN 1 + n ELSE n
  <2>1. H \subseteq k .. N /\ k \notin H /\ k \in k .. N
    BY <1>1, <1>12
  <2>2. /\ IsFiniteSet(H \cup {k})
        /\ Cardinality(H \cup {k}) = IF k \in H THEN Cardinality(H) ELSE Cardinality(H) + 1
    BY <1>12, FS_AddElement
  <2> QED
    BY <1>12, <2>1, <2>2
<1>14. ASSUME NEW i \in 1 .. Q
       PROVE  i + P \in 1 .. P + Q /\ s2[i + P] = src[i] /\ o2[i + P] = off[i]
  <2>1. i + P \in 1 .. P + Q /\ i \in 1 .. Q + 1
    BY <1>1
  <2> QED
    BY <1>6, <2>1
<1>15. ASSUME NEW s \in H2
       PROVE  Hit(bytes, l, s) /\ \E i \in 1 .. P + Q : s2[i] = s /\ o2[i] = 1
  <2>1. CASE s \in H
    <3>1. PICK i \in 1 .. Q : src[i] = s /\ off[i] = 1
      BY <1>12, <2>1
    <3> QED
      BY <1>12, <1>14, <2>1, <3>1
  <2>2. CASE s = k /\ Hit(bytes, l, k)
    <3>1. 1 \in 1 .. P /\ 1 \in 1 .. P + Q
      BY <1>1
    <3> QED
      BY <1>6, <2>2, <3>1
  <2> QED
    BY <2>1, <2>2
<1>16. ASSUME NEW i \in 1 .. P + Q, o2[i] > 0 PROVE s2[i] \in H2
  <2>1. CASE i \in 1 .. P
    BY <1>6, <1>16, <2>1
  <2>2. ASSUME NEW j \in 1 .. Q + 1, i = j + P PROVE s2[i] \in H2
    <3>1. j \in 1 .. Q
      BY <1>1, <2>2
    <3> QED
      BY <1>12, <1>14, <1>16, <2>2, <3>1
  <2>3. i \in 1 .. P + Q + 1
    BY <1>1
  <2> QED
    BY <1>7, <2>1, <2>2, <2>3
<1>17. ASSUME NEW s \in k .. N
       PROVE  \/ \E i \in 1 .. P + Q : s2[i] = s
              \/ \E h \in H2 : s \in h .. h + Len(l) - 1
  <2>1. CASE s \in g .. N
    <3>1. CASE \E i \in 1 .. Q : src[i] = s
      BY <1>14, <3>1
    <3>2. CASE \E h \in H : s \in h .. h + Len(l) - 1
      BY <3>2
    <3> QED
      BY <1>12, <2>1, <3>1, <3>2
  <2>2. CASE ~(s \in g .. N)
    <3>1. CASE Hit(bytes, l, k)
      <4>1. g = k + Len(l) /\ Len(l) \in Nat
        BY <3>1, LiteralIs DEF g, GoOn
      <4>2. s \in k .. k + Len(l) - 1
        BY <1>1, <2>2, <4>1
      <4> QED
        BY <3>1, <4>2
    <3>2. CASE ~Hit(bytes, l, k)
      <4>1. g = k + 1
        BY <3>2 DEF g, GoOn
      <4>2. s = k /\ 1 \in 1 .. P /\ 1 \in 1 .. P + Q
        BY <1>1, <2>2, <4>1
      <4> QED
        BY <1>6, <4>2
    <3> QED
      BY <3>1, <3>2
  <2> QED
    BY <2>1, <2>2
<1> HIDE DEF H2
<1>18. Takes(bytes, l, k, p, s2, o2, H2, IF Hit(bytes, l, k) THEN 1 + n ELSE n)
  BY <1>2, <1>13, <1>15, <1>16, <1>17 DEF Takes, N
<1> QED
  BY <1>11, <1>18, Zenon DEF p, c

\* What ReplaceAll makes of the bytes is read off them from left to right, and
\* Occurrences counts what it replaces.
LEMMA ReplaceAllReads ==
  ASSUME NEW bytes \in Seq(Elements), NEW l \in Literals
  PROVE  /\ Occurrences(bytes, l) \in Nat
         /\ \E src, off, H : /\ Reads(bytes, l, 1, ReplaceAll(bytes, l), src, off)
                             /\ Takes(bytes, l, 1, ReplaceAll(bytes, l), src, off, H, Occurrences(bytes, l))
<1> DEFINE N == Len(bytes)
<1>0. N \in Nat
  BY LenProperties
<1>1. PICK h : /\ ReplaceAll(bytes, l) = h[1] /\ h[N + 1] = <<>>
               /\ \A k \in 1 .. N : h[k] = Piece(bytes, l, k) \o h[GoOn(bytes, l, k)]
  BY ReplaceAllScans, Zenon
<1>2. PICK g : /\ Occurrences(bytes, l) = g[1] /\ g[N + 1] = 0
               /\ \A k \in 1 .. N :
                    g[k] = IF Hit(bytes, l, k) THEN 1 + g[GoOn(bytes, l, k)] ELSE g[GoOn(bytes, l, k)]
  BY OccurrencesScans, Zenon
<1> DEFINE Read(k) == /\ g[k] \in Nat
                      /\ \E src, off, H : Reads(bytes, l, k, h[k], src, off)
                                          /\ Takes(bytes, l, k, h[k], src, off, H, g[k])
           S == {d \in Nat : \A k \in 1 .. N + 1 : k >= N + 1 - d => Read(k)}
<1>3. Read(N + 1)
  <2> DEFINE src == [i \in 1 .. 1 |-> N + 1]
             off == [i \in 1 .. 1 |-> 0]
  <2>1. ~Hit(bytes, l, N + 1)
    BY <1>0, SymbolsOf, LiteralIs DEF Hit, At
  <2>2. Len(Marker[l]) \in Nat
    BY LiteralIs
  <2>3. Reads(bytes, l, N + 1, <<>>, src, off)
    <3>1. <<>> \in Seq(Elements) /\ Len(<<>>) = 0
      BY EmptySeq
    <3>2. src \in [1 .. 0 + 1 -> N + 1 .. N + 1] /\ off \in [1 .. 0 + 1 -> 0 .. Len(Marker[l])]
      BY <1>0, <2>2
    <3>3. src[1] = N + 1 /\ off[1] = Start(bytes, l, N + 1) /\ src[0 + 1] = N + 1
      BY <2>1 DEF Start
    <3>4. 1 .. 0 = {}
      OBVIOUS
    <3> HIDE DEF src, off
    <3> QED
      BY <3>1, <3>2, <3>3, <3>4 DEF Reads
  <2>4. Takes(bytes, l, N + 1, <<>>, src, off, {}, 0)
    <3>1. N + 1 .. N = {} /\ Len(<<>>) = 0 /\ 1 .. 0 = {}
      BY <1>0
    <3> HIDE DEF src, off, N
    <3> QED
      BY <3>1, FS_EmptySet DEF Takes, N
  <2> HIDE DEF src, off
  <2>5. Reads(bytes, l, N + 1, h[N + 1], src, off) /\ Takes(bytes, l, N + 1, h[N + 1], src, off, {}, g[N + 1])
    BY <1>1, <1>2, <2>3, <2>4
  <2>6. g[N + 1] \in Nat
    BY <1>2
  <2> QED
    BY <2>5, <2>6, Zenon
<1>4. ASSUME NEW k \in 1 .. N, Read(GoOn(bytes, l, k)) PROVE Read(k)
  <2> DEFINE m == GoOn(bytes, l, k)
  <2>1. PICK src, off, H : Reads(bytes, l, m, h[m], src, off) /\ Takes(bytes, l, m, h[m], src, off, H, g[m])
    BY <1>4, Zenon
  <2>2. g[m] \in Nat
    BY <1>4, Zenon
  <2>3. \E s2, o2, H2 :
           /\ Reads(bytes, l, k, Piece(bytes, l, k) \o h[m], s2, o2)
           /\ Takes(bytes, l, k, Piece(bytes, l, k) \o h[m], s2, o2, H2,
                    IF Hit(bytes, l, k) THEN 1 + g[m] ELSE g[m])
    BY <2>1, <2>2, ReadsOneMore, Zenon
  <2>4. h[k] = Piece(bytes, l, k) \o h[m] /\ g[k] = IF Hit(bytes, l, k) THEN 1 + g[m] ELSE g[m]
    BY <1>1, <1>2, Zenon
  <2>5. g[k] \in Nat
    BY <2>2, <2>4
  <2> QED
    BY <2>3, <2>4, <2>5, Zenon
<1> HIDE DEF Read
<1>5. 0 \in S
  BY <1>0, <1>3
<1>6. ASSUME NEW d \in Nat, d \in S PROVE d + 1 \in S
  <2>1. ASSUME NEW k \in 1 .. N + 1, k >= N + 1 - (d + 1) PROVE Read(k)
    <3>1. CASE k = N + 1
      BY <1>3, <3>1
    <3>2. CASE k # N + 1
      <4>1. k \in 1 .. N /\ GoOn(bytes, l, k) \in k + 1 .. N + 1
        BY <1>0, <3>2, GoOnType
      <4>2. GoOn(bytes, l, k) \in 1 .. N + 1 /\ GoOn(bytes, l, k) >= N + 1 - d
        BY <1>0, <2>1, <4>1
      <4> QED
        BY <1>4, <1>6, <4>1, <4>2
    <3> QED
      BY <3>1, <3>2
  <2> QED
    BY <2>1
<1> HIDE DEF S
<1>7. N \in S
  BY <1>0, <1>5, <1>6, Induction
<1>8. Read(1)
  BY <1>0, <1>7 DEF S
<1> QED
  BY <1>1, <1>2, <1>8, Zenon DEF Read

\* What is read at a place, and what at the next.
LEMMA ReadIs ==
  ASSUME NEW bytes \in Seq(Elements), NEW l \in Literals, NEW q, NEW src, NEW off,
         Reads(bytes, l, 1, q, src, off), NEW i \in 1 .. Len(q)
  PROVE  /\ q \in Seq(Elements) /\ Len(q) \in Nat /\ i + 1 \in 1 .. Len(q) + 1 /\ q[i] \in Elements
         /\ Len(bytes) \in Nat /\ Len(Marker[l]) \in Nat
         /\ src[i] \in 1 .. Len(bytes) /\ src[i + 1] \in 1 .. Len(bytes) + 1
         /\ off[i] \in 0 .. Len(Marker[l]) /\ off[i + 1] \in 0 .. Len(Marker[l])
         /\ i = Len(q) => src[i + 1] = Len(bytes) + 1
         /\ q[i].pos = bytes[src[i]].pos
         /\ off[i] = 0 => q[i] = bytes[src[i]] /\ ~Hit(bytes, l, src[i])
         /\ off[i] > 0 => /\ Hit(bytes, l, src[i])
                          /\ Marked(q[i]) /\ q[i].old = l /\ q[i].at = off[i]
<1>1. /\ q \in Seq(Elements) /\ Len(q) \in Nat /\ i + 1 \in 1 .. Len(q) + 1 /\ i \in 1 .. Len(q) + 1
      /\ q[i] \in Elements /\ Len(bytes) \in Nat /\ Len(Marker[l]) \in Nat
  BY LenProperties, ElementOfSeq, LiteralIs DEF Reads
<1>2. /\ src[i] \in 1 .. Len(bytes) + 1 /\ src[i + 1] \in 1 .. Len(bytes) + 1
      /\ off[i] \in 0 .. Len(Marker[l]) /\ off[i + 1] \in 0 .. Len(Marker[l])
  BY <1>1 DEF Reads
<1>3. /\ src[i] <= Len(bytes) /\ q[i] = Elem(bytes, l, src[i], off[i])
      /\ (off[i] = 0 <=> ~Hit(bytes, l, src[i])) /\ src[Len(q) + 1] = Len(bytes) + 1
  BY DEF Reads
<1>4. src[i] \in 1 .. Len(bytes) /\ bytes[src[i]] \in Elements
  BY <1>1, <1>2, <1>3, ElementOfSeq
<1>5. CASE off[i] = 0
  BY <1>1, <1>2, <1>3, <1>4, <1>5 DEF Elem
<1>6. CASE off[i] # 0
  <2>1. q[i] = Replaced(l, bytes[src[i]])[off[i]] /\ off[i] \in 1 .. Len(Marker[l])
    BY <1>1, <1>2, <1>3, <1>6 DEF Elem
  <2>2. Marked(q[i]) /\ q[i].old = l /\ q[i].at = off[i] /\ q[i].pos = bytes[src[i]].pos
    <3> DEFINE e == bytes[src[i]]
    <3>1. e \in Elements
      BY <1>4
    <3> HIDE DEF e
    <3>2. \A j \in 1 .. Len(Marker[l]) :
            /\ Marked(Replaced(l, e)[j]) /\ Replaced(l, e)[j].old = l
            /\ Replaced(l, e)[j].at = j /\ Replaced(l, e)[j].pos = e.pos
      BY <3>1, ReplacedIs
    <3> QED
      BY <2>1, <3>2 DEF e
  <2> QED
    BY <1>1, <1>2, <1>3, <1>4, <1>6, <2>2
<1> QED
  BY <1>5, <1>6

LEMMA NextIs ==
  ASSUME NEW bytes \in Seq(Elements), NEW l \in Literals, NEW q, NEW src, NEW off,
         Reads(bytes, l, 1, q, src, off), NEW i \in 1 .. Len(q)
  PROVE  /\ off[i] = 0 => src[i + 1] = src[i] + 1
         /\ off[i] > 0 /\ off[i] < Len(Marker[l]) => src[i + 1] = src[i] /\ off[i + 1] = off[i] + 1
         /\ off[i] = Len(Marker[l]) => src[i + 1] = src[i] + Len(l)
         /\ ~(off[i] > 0 /\ off[i] < Len(Marker[l])) =>
              off[i + 1] = IF Hit(bytes, l, src[i + 1]) THEN 1 ELSE 0
<1>1. /\ Len(Marker[l]) \in Nat \ {0} /\ off[i] \in 0 .. Len(Marker[l])
  BY ReadIs, LiteralIs
<1>2. IF off[i] \in 1 .. Len(Marker[l]) - 1
      THEN src[i + 1] = src[i] /\ off[i + 1] = off[i] + 1
      ELSE src[i + 1] = GoOn(bytes, l, src[i]) /\ off[i + 1] = Start(bytes, l, src[i + 1])
  BY DEF Reads
<1>3. off[i] = 0 <=> ~Hit(bytes, l, src[i])
  BY DEF Reads
<1>4. GoOn(bytes, l, src[i]) = IF off[i] = 0 THEN src[i] + 1 ELSE src[i] + Len(l)
  BY <1>3 DEF GoOn
<1> HIDE DEF Hit
<1> QED
  BY <1>1, <1>2, <1>4 DEF Start

\* Two bytes of the result come from the same marker, or from left to right.
LEMMA SourceInOrder ==
  ASSUME NEW bytes \in Seq(Elements), NEW l \in Literals, NEW q, NEW src, NEW off,
         Reads(bytes, l, 1, q, src, off),
         NEW i \in 1 .. Len(q), NEW j \in 1 .. Len(q), i < j
  PROVE  src[i] < src[j] \/ (src[i] = src[j] /\ off[i] > 0 /\ off[j] > off[i])
<1> DEFINE Before(x, y) == src[x] < src[y] \/ (src[x] = src[y] /\ off[x] > 0 /\ off[y] > off[x])
           S == {d \in Nat : i + 1 + d <= Len(q) => Before(i, i + 1 + d)}
<1>0. Len(q) \in Nat /\ Len(l) \in Nat \ {0} /\ Len(Marker[l]) \in Nat
  BY ReadIs, LiteralIs
<1>1. ASSUME NEW x \in 1 .. Len(q), x + 1 <= Len(q) PROVE Before(x, x + 1)
  <2>1. src[x] \in Nat /\ src[x + 1] \in Nat /\ off[x] \in 0 .. Len(Marker[l])
    BY ReadIs
  <2>2. /\ off[x] = 0 => src[x + 1] = src[x] + 1
        /\ off[x] > 0 /\ off[x] < Len(Marker[l]) => src[x + 1] = src[x] /\ off[x + 1] = off[x] + 1
        /\ off[x] = Len(Marker[l]) => src[x + 1] = src[x] + Len(l)
    BY NextIs
  <2> QED
    BY <1>0, <2>1, <2>2
<1>2. ASSUME NEW x \in 1 .. Len(q) PROVE src[x] \in Nat /\ off[x] \in Nat
  <2>1. src[x] \in 1 .. Len(bytes) /\ off[x] \in 0 .. Len(Marker[l])
    BY ReadIs
  <2> QED
    BY <1>0, <2>1
<1>3. 0 \in S
  <2>1. i + 1 + 0 = i + 1
    BY <1>0
  <2> QED
    BY <1>1, <2>1
<1>4. ASSUME NEW d \in Nat, d \in S PROVE d + 1 \in S
  <2>1. CASE i + 1 + (d + 1) <= Len(q)
    <3> DEFINE x == i + 1 + d
    <3>1. x \in 1 .. Len(q) /\ x + 1 \in 1 .. Len(q) /\ x + 1 = i + 1 + (d + 1) /\ x + 1 <= Len(q)
      BY <1>0, <2>1
    <3>2. Before(i, x)
      BY <1>0, <1>4, <3>1
    <3> HIDE DEF x
    <3>3. Before(x, x + 1)
      BY <1>1, <3>1
    <3>4. Before(i, x + 1)
      BY <1>2, <3>1, <3>2, <3>3
    <3> QED
      BY <3>1, <3>4
  <2> QED
    BY <2>1
<1> HIDE DEF S, Before
<1>5. j - (i + 1) \in S
  <2>1. j - (i + 1) \in Nat
    BY <1>0
  <2> QED
    BY <1>3, <1>4, <2>1, Induction
<1>6. i + 1 + (j - (i + 1)) = j
  BY <1>0
<1>7. Before(i, j)
  BY <1>5, <1>6 DEF S
<1> QED
  BY <1>7 DEF Before

-----------------------------------------------------------------------------
(* What one replacement keeps                                              *)

\* Bytes of the request stand in their order, among themselves and to the markers.
Ordered(bytes) ==
  \A j, k \in 1 .. Len(bytes) :
    j < k /\ (~Marked(bytes[j]) \/ ~Marked(bytes[k])) => bytes[j].pos < bytes[k].pos

LEMMA StillOrdered ==
  ASSUME NEW bytes \in Seq(Elements), NEW l \in Literals, NEW q, NEW src, NEW off,
         Reads(bytes, l, 1, q, src, off), Ordered(bytes)
  PROVE  Ordered(q)
<1> SUFFICES ASSUME NEW i \in 1 .. Len(q), NEW j \in 1 .. Len(q), i < j,
                    ~Marked(q[i]) \/ ~Marked(q[j])
             PROVE  q[i].pos < q[j].pos
  BY DEF Ordered
<1>1. /\ src[i] \in 1 .. Len(bytes) /\ src[j] \in 1 .. Len(bytes)
      /\ q[i].pos = bytes[src[i]].pos /\ q[j].pos = bytes[src[j]].pos
      /\ ~Marked(q[i]) => off[i] = 0 /\ q[i] = bytes[src[i]]
      /\ ~Marked(q[j]) => off[j] = 0 /\ q[j] = bytes[src[j]]
      /\ off[i] \in Nat /\ off[j] \in Nat
  BY ReadIs
<1>2. src[i] < src[j]
  BY <1>1, SourceInOrder
<1> QED
  BY <1>1, <1>2 DEF Ordered

\* A marker stands for the literal, or was there before.
LEMMA MarksAre ==
  ASSUME NEW bytes \in Seq(Elements), NEW l \in Literals, NEW q, NEW src, NEW off,
         Reads(bytes, l, 1, q, src, off), NEW i \in 1 .. Len(q)
  PROVE  Marked(q[i]) => \/ q[i].old = l
                         \/ \E k \in 1 .. Len(bytes) : Marked(bytes[k]) /\ q[i].old = bytes[k].old
<1>1. off[i] \in Nat /\ src[i] \in 1 .. Len(bytes)
  BY ReadIs
<1>2. CASE off[i] = 0
  <2>1. q[i] = bytes[src[i]]
    BY <1>2, ReadIs
  <2> QED
    BY <1>1, <2>1
<1>3. CASE off[i] > 0
  BY <1>3, ReadIs
<1> QED
  BY <1>1, <1>2, <1>3

\* There is a marker when there was one before, or something was replaced.
LEMMA MarkedStill ==
  ASSUME NEW bytes \in Seq(Elements), NEW l \in Literals, NEW q, NEW src, NEW off, NEW H, NEW n \in Nat,
         Reads(bytes, l, 1, q, src, off), Takes(bytes, l, 1, q, src, off, H, n)
  PROVE  (\E i \in 1 .. Len(q) : Marked(q[i])) <=> n > 0 \/ \E k \in 1 .. Len(bytes) : Marked(bytes[k])
<1>1. CASE n > 0
  <2>1. H # {}
    BY <1>1, FS_EmptySet DEF Takes
  <2>2. PICK s \in H : \E i \in 1 .. Len(q) : src[i] = s /\ off[i] = 1
    BY <2>1 DEF Takes
  <2>3. PICK i \in 1 .. Len(q) : off[i] = 1
    BY <2>2
  <2>4. Marked(q[i])
    BY <2>3, ReadIs
  <2> QED
    BY <1>1, <2>4
<1>2. CASE n = 0
  <2>1. H = {}
    BY <1>2, FS_EmptySet DEF Takes
  <2>2. \A i \in 1 .. Len(q) : off[i] = 0 /\ q[i] = bytes[src[i]] /\ src[i] \in 1 .. Len(bytes)
    <3>1. \A i \in 1 .. Len(q) : ~(off[i] > 0)
      BY <2>1 DEF Takes
    <3> QED
      BY <3>1, ReadIs
  <2>3. \A k \in 1 .. Len(bytes) : \E i \in 1 .. Len(q) : src[i] = k
    BY <2>1 DEF Takes
  <2> QED
    BY <1>2, <2>2, <2>3
<1> QED
  BY <1>1, <1>2

-----------------------------------------------------------------------------
(* Where no literal can match a marker                                     *)

Follows(e, f) == f.at = e.at + 1 /\ f.old = e.old /\ f.pos = e.pos

\* The markers are whole: next to each of their bytes stands the next.
Runs(bytes) ==
  \A k \in 1 .. Len(bytes) : Marked(bytes[k]) =>
    /\ bytes[k].at > 1 => k > 1 /\ Follows(bytes[k - 1], bytes[k])
    /\ bytes[k].at < Len(Marker[bytes[k].old]) => k < Len(bytes) /\ Follows(bytes[k], bytes[k + 1])

\* The whole marker stands around each of its bytes.
LEMMA RunIs ==
  ASSUME NEW bytes \in Seq(Elements), Runs(bytes), NEW k \in 1 .. Len(bytes), Marked(bytes[k])
  PROVE  /\ \A i \in Nat : bytes[k].at + i <= Len(Marker[bytes[k].old]) =>
              /\ k + i \in 1 .. Len(bytes) /\ bytes[k + i].at = bytes[k].at + i
              /\ bytes[k + i].old = bytes[k].old /\ bytes[k + i].pos = bytes[k].pos
         /\ \A i \in Nat : i < bytes[k].at =>
              /\ k - i \in 1 .. Len(bytes) /\ bytes[k - i].at = bytes[k].at - i
              /\ bytes[k - i].old = bytes[k].old /\ bytes[k - i].pos = bytes[k].pos
<1> DEFINE a == bytes[k].at
           o == bytes[k].old
           M == Len(Marker[o])
           Up(i) == /\ k + i \in 1 .. Len(bytes) /\ bytes[k + i].at = a + i
                    /\ bytes[k + i].old = o /\ bytes[k + i].pos = bytes[k].pos
           Down(i) == /\ k - i \in 1 .. Len(bytes) /\ bytes[k - i].at = a - i
                      /\ bytes[k - i].old = o /\ bytes[k - i].pos = bytes[k].pos
           S == {i \in Nat : a + i <= M => Up(i)}
           T == {i \in Nat : i < a => Down(i)}
<1>0. /\ Len(bytes) \in Nat /\ a \in Nat /\ a > 0 /\ M \in Nat
      /\ \A x \in 1 .. Len(bytes) : bytes[x].at \in Nat
  <2>1. Len(bytes) \in Nat /\ \A x \in 1 .. Len(bytes) : bytes[x].at \in Nat /\ bytes[x] \in Elements
    BY LenProperties, ElementOfSeq, ElementIs
  <2>2. o \in Literals
    BY <2>1, ElementIs
  <2>3. M \in Nat
    BY <2>2, LiteralIs
  <2> QED
    BY <2>1, <2>3 DEF Marked
<1>1. \A x \in 1 .. Len(bytes) : bytes[x].at > 0 =>
        /\ bytes[x].at > 1 =>
             /\ x > 1 /\ bytes[x].at = bytes[x - 1].at + 1
             /\ bytes[x].old = bytes[x - 1].old /\ bytes[x].pos = bytes[x - 1].pos
        /\ bytes[x].at < Len(Marker[bytes[x].old]) =>
             /\ x < Len(bytes) /\ bytes[x + 1].at = bytes[x].at + 1
             /\ bytes[x + 1].old = bytes[x].old /\ bytes[x + 1].pos = bytes[x].pos
  BY DEF Runs, Follows, Marked
<1>2. Up(0) /\ Down(0)
  <2>1. k + 0 = k /\ k - 0 = k /\ a + 0 = a /\ a - 0 = a
    BY <1>0
  <2> QED
    BY <2>1
<1> HIDE DEF a, o, M
<1>3. ASSUME NEW i \in Nat, i \in S PROVE i + 1 \in S
  <2>1. CASE a + (i + 1) <= M
    <3> DEFINE x == k + i
    <3>1. Up(i) /\ x + 1 = k + (i + 1)
      BY <1>0, <1>3, <2>1
    <3>2. x \in 1 .. Len(bytes) /\ bytes[x].at = a + i /\ bytes[x].old = o /\ bytes[x].pos = bytes[k].pos
      BY <3>1
    <3> HIDE DEF x
    <3>3. bytes[x].at > 0 /\ bytes[x].at < Len(Marker[bytes[x].old])
      BY <1>0, <2>1, <3>2 DEF M
    <3>4. /\ x < Len(bytes) /\ bytes[x + 1].at = bytes[x].at + 1
          /\ bytes[x + 1].old = bytes[x].old /\ bytes[x + 1].pos = bytes[x].pos
      BY <1>1, <3>2, <3>3
    <3>5. x + 1 \in 1 .. Len(bytes) /\ bytes[x + 1].at = a + (i + 1)
      BY <1>0, <3>2, <3>4
    <3> QED
      BY <3>1, <3>2, <3>4, <3>5
  <2> QED
    BY <2>1
<1>4. ASSUME NEW i \in Nat, i \in T PROVE i + 1 \in T
  <2>1. CASE i + 1 < a
    <3> DEFINE x == k - i
    <3>1. Down(i) /\ x - 1 = k - (i + 1)
      BY <1>0, <1>4, <2>1
    <3>2. x \in 1 .. Len(bytes) /\ bytes[x].at = a - i /\ bytes[x].old = o /\ bytes[x].pos = bytes[k].pos
      BY <3>1
    <3> HIDE DEF x
    <3>3. bytes[x].at > 1 /\ bytes[x].at > 0
      BY <1>0, <2>1, <3>2
    <3>4. /\ x > 1 /\ bytes[x].at = bytes[x - 1].at + 1
          /\ bytes[x].old = bytes[x - 1].old /\ bytes[x].pos = bytes[x - 1].pos
      BY <1>1, <3>2, <3>3
    <3>5. x - 1 \in 1 .. Len(bytes)
      BY <1>0, <3>2, <3>4
    <3>6. bytes[x - 1].at \in Nat
      BY <1>0, <3>5
    <3>7. bytes[x - 1].at = a - (i + 1)
      BY <1>0, <3>2, <3>4, <3>6
    <3> QED
      BY <3>1, <3>2, <3>4, <3>5, <3>7
  <2> QED
    BY <2>1
<1>5. 0 \in S /\ 0 \in T
  BY <1>2
<1> HIDE DEF S, T
<1>6. \A i \in Nat : i \in S /\ i \in T
  BY <1>3, <1>4, <1>5, Induction
<1> QED
  BY <1>6 DEF S, T, a, o, M

\* Every occurrence of the literal is of bytes of the request.
Clean(bytes, l) ==
  \A k \in 1 .. Len(bytes) : Hit(bytes, l, k) =>
    \A j \in 1 .. Len(l) : k + j - 1 \in 1 .. Len(bytes) /\ ~Marked(bytes[k + j - 1])

\* A literal that cannot match a marker occurs in bytes of the request only.
LEMMA Unmet ==
  ASSUME NEW bytes \in Seq(Elements), Runs(bytes), NEW l \in Literals,
         \A x \in 1 .. Len(bytes) : Marked(bytes[x]) => ~Meets(l, Marker[bytes[x].old])
  PROVE  Clean(bytes, l)
<1> SUFFICES ASSUME NEW k \in 1 .. Len(bytes), Hit(bytes, l, k), NEW j \in 1 .. Len(l)
             PROVE  k + j - 1 \in 1 .. Len(bytes) /\ ~Marked(bytes[k + j - 1])
  BY DEF Clean
<1> DEFINE x == k + j - 1
<1>0. Len(bytes) \in Nat /\ Len(l) \in Nat \ {0} /\ DOMAIN l = 1 .. Len(l)
  BY LenProperties, LiteralIs
<1>1. /\ k + Len(l) - 1 <= Len(bytes)
      /\ \A i \in 1 .. Len(l) : k + i - 1 \in 1 .. Len(bytes) /\ bytes[k + i - 1].sym = l[i]
  <2>1. k + Len(l) - 1 <= Len(bytes) /\ \A i \in 1 .. Len(l) : Symbols(bytes)[k + i - 1] = l[i]
    BY <1>0, SymbolsOf DEF Hit, At
  <2>2. \A i \in 1 .. Len(l) : k + i - 1 \in 1 .. Len(bytes)
    BY <1>0, <2>1
  <2> QED
    BY <2>1, <2>2, SymbolsOf
<1>2. x \in 1 .. Len(bytes)
  BY <1>1
<1> SUFFICES ASSUME Marked(bytes[x]) PROVE FALSE
  BY <1>2
<1> DEFINE a == bytes[x].at
           m == Marker[bytes[x].old]
           d == a - j
<1>3. /\ a \in 1 .. Len(m) /\ Len(m) \in Nat /\ DOMAIN m = 1 .. Len(m) /\ bytes[x].old \in Literals
      /\ \A y \in 1 .. Len(bytes) :
           Marked(bytes[y]) /\ bytes[y].old = bytes[x].old => bytes[y].sym = m[bytes[y].at]
  <2>1. \A y \in 1 .. Len(bytes) : bytes[y] \in Elements
    BY ElementOfSeq
  <2>2. bytes[x].old \in Literals /\ a \in 1 .. Len(m)
    BY <1>2, <2>1, ElementIs
  <2>3. \A y \in 1 .. Len(bytes) : Marked(bytes[y]) => bytes[y].sym = Marker[bytes[y].old][bytes[y].at]
    BY <2>1, ElementIs
  <2> QED
    BY <2>2, <2>3, LiteralIs
<1>4. /\ \A i \in Nat : a + i <= Len(m) =>
           /\ x + i \in 1 .. Len(bytes) /\ bytes[x + i].at = a + i /\ bytes[x + i].old = bytes[x].old
      /\ \A i \in Nat : i < a =>
           /\ x - i \in 1 .. Len(bytes) /\ bytes[x - i].at = a - i /\ bytes[x - i].old = bytes[x].old
  BY <1>2, RunIs
<1> HIDE DEF a, m
<1>5. ASSUME NEW i \in 1 .. Len(l), d + i \in 1 .. Len(m) PROVE l[i] = m[d + i]
  <2> DEFINE y == k + i - 1
  <2>1. y \in 1 .. Len(bytes) /\ bytes[y].sym = l[i]
    BY <1>1
  <2>2. bytes[y].at = d + i /\ bytes[y].old = bytes[x].old
    <3>1. CASE i >= j
      <4>1. i - j \in Nat /\ a + (i - j) = d + i /\ x + (i - j) = y /\ a + (i - j) <= Len(m)
        BY <1>0, <1>3, <1>5, <3>1
      <4> HIDE DEF x, y, d
      <4> QED
        BY <1>4, <4>1
    <3>2. CASE i < j
      <4>1. j - i \in Nat /\ a - (j - i) = d + i /\ x - (j - i) = y /\ j - i < a
        BY <1>0, <1>3, <1>5, <3>2
      <4> HIDE DEF x, y, d
      <4> QED
        BY <1>4, <4>1
    <3> QED
      BY <3>1, <3>2
  <2> HIDE DEF x, y, d
  <2>3. Marked(bytes[y])
    BY <1>3, <1>5, <2>2 DEF Marked
  <2> QED
    BY <1>3, <2>1, <2>2, <2>3
<1>6. d \in 1 - Len(l) .. Len(m) - 1
  BY <1>0, <1>3
<1>7. Meets(l, m)
  BY <1>0, <1>3, <1>5, <1>6 DEF Meets
<1> QED
  BY <1>2, <1>7 DEF m

\* The markers stay whole.
LEMMA StillRuns ==
  ASSUME NEW bytes \in Seq(Elements), NEW l \in Literals, NEW q, NEW src, NEW off,
         Reads(bytes, l, 1, q, src, off), Runs(bytes), Clean(bytes, l)
  PROVE  Runs(q)
<1> DEFINE M == Len(Marker[l])
<1>0. /\ Len(bytes) \in Nat /\ M \in Nat \ {0} /\ Len(l) \in Nat \ {0}
      /\ \A k \in 1 .. Len(bytes) : bytes[k].at \in Nat
  BY LenProperties, LiteralIs, ElementOfSeq, ElementIs
<1>1. src[1] = 1 /\ off[1] \in {0, 1}
  BY DEF Reads, Start
<1>2. ASSUME NEW i \in 1 .. Len(q), Marked(q[i])
      PROVE  /\ q[i].at > 1 => i > 1 /\ Follows(q[i - 1], q[i])
             /\ q[i].at < Len(Marker[q[i].old]) => i < Len(q) /\ Follows(q[i], q[i + 1])
  <2>0. /\ Len(q) \in Nat /\ i + 1 \in 1 .. Len(q) + 1
        /\ src[i] \in 1 .. Len(bytes) /\ src[i + 1] \in 1 .. Len(bytes) + 1
        /\ off[i] \in 0 .. M
        /\ i = Len(q) => src[i + 1] = Len(bytes) + 1
        /\ q[i].pos = bytes[src[i]].pos
        /\ off[i] = 0 => q[i] = bytes[src[i]]
        /\ off[i] > 0 => Hit(bytes, l, src[i]) /\ q[i].old = l /\ q[i].at = off[i]
    BY ReadIs
  <2>1. /\ off[i] = 0 => src[i + 1] = src[i] + 1
        /\ off[i] > 0 /\ off[i] < M => src[i + 1] = src[i] /\ off[i + 1] = off[i] + 1
        /\ off[i] = 0 => off[i + 1] = IF Hit(bytes, l, src[i + 1]) THEN 1 ELSE 0
    BY NextIs, <1>0
  <2>2. ASSUME i < Len(q)
        PROVE  /\ i + 1 \in 1 .. Len(q) /\ src[i + 1] \in 1 .. Len(bytes)
               /\ q[i + 1].pos = bytes[src[i + 1]].pos
               /\ off[i + 1] = 0 => q[i + 1] = bytes[src[i + 1]]
               /\ off[i + 1] > 0 => q[i + 1].old = l /\ q[i + 1].at = off[i + 1]
    <3>1. i + 1 \in 1 .. Len(q)
      BY <2>0, <2>2
    <3> QED
      BY <3>1, ReadIs
  <2>3. ASSUME i > 1
        PROVE  /\ i - 1 \in 1 .. Len(q) /\ src[i - 1] \in 1 .. Len(bytes) /\ off[i - 1] \in 0 .. M
               /\ q[i - 1].pos = bytes[src[i - 1]].pos
               /\ off[i - 1] = 0 => q[i - 1] = bytes[src[i - 1]] /\ src[i] = src[i - 1] + 1
               /\ off[i - 1] > 0 => /\ Hit(bytes, l, src[i - 1])
                                    /\ q[i - 1].old = l /\ q[i - 1].at = off[i - 1]
               /\ off[i - 1] > 0 /\ off[i - 1] < M => src[i] = src[i - 1] /\ off[i] = off[i - 1] + 1
               /\ off[i - 1] = M => src[i] = src[i - 1] + Len(l)
               /\ ~(off[i - 1] > 0 /\ off[i - 1] < M) => off[i] \in {0, 1}
    <3> DEFINE x == i - 1
    <3>1. x \in 1 .. Len(q) /\ x + 1 = i
      BY <2>0, <2>3
    <3> HIDE DEF x
    <3>2. /\ src[x] \in 1 .. Len(bytes) /\ off[x] \in 0 .. M
          /\ q[x].pos = bytes[src[x]].pos
          /\ off[x] = 0 => q[x] = bytes[src[x]]
          /\ off[x] > 0 => Hit(bytes, l, src[x]) /\ q[x].old = l /\ q[x].at = off[x]
      BY <3>1, ReadIs
    <3>3. /\ off[x] = 0 => src[x + 1] = src[x] + 1
          /\ off[x] > 0 /\ off[x] < M => src[x + 1] = src[x] /\ off[x + 1] = off[x] + 1
          /\ off[x] = M => src[x + 1] = src[x] + Len(l)
          /\ ~(off[x] > 0 /\ off[x] < M) => off[x + 1] \in {0, 1}
      BY <3>1, NextIs
    <3> QED
      BY <3>1, <3>2, <3>3 DEF x
  <2>4. CASE off[i] > 0
    <3>1. ASSUME q[i].at > 1 PROVE i > 1 /\ Follows(q[i - 1], q[i])
      <4>1. off[i] > 1 /\ off[i] = q[i].at
        BY <2>0, <2>4, <3>1
      <4>2. i > 1
        BY <1>1, <2>0, <4>1
      <4>3. off[i - 1] > 0 /\ off[i - 1] < M
        BY <2>3, <4>1, <4>2
      <4> QED
        BY <2>0, <2>3, <2>4, <4>1, <4>2, <4>3 DEF Follows
    <3>2. ASSUME q[i].at < Len(Marker[q[i].old]) PROVE i < Len(q) /\ Follows(q[i], q[i + 1])
      <4>1. off[i] < M /\ src[i + 1] = src[i] /\ off[i + 1] = off[i] + 1
        BY <2>0, <2>1, <2>4, <3>2
      <4>2. i < Len(q)
        BY <1>0, <2>0, <4>1
      <4> QED
        BY <2>0, <2>2, <2>4, <4>1, <4>2 DEF Follows
    <3> QED
      BY <3>1, <3>2
  <2>5. CASE off[i] = 0
    <3> DEFINE k == src[i]
    <3>0. k \in 1 .. Len(bytes) /\ q[i] = bytes[k] /\ Marked(bytes[k])
      BY <1>2, <2>0, <2>5
    <3>1. /\ bytes[k].at > 1 => k > 1 /\ Follows(bytes[k - 1], bytes[k])
          /\ bytes[k].at < Len(Marker[bytes[k].old]) => k < Len(bytes) /\ Follows(bytes[k], bytes[k + 1])
      BY <3>0 DEF Runs
    <3>2. ASSUME q[i].at > 1 PROVE i > 1 /\ Follows(q[i - 1], q[i])
      <4>1. k > 1 /\ Follows(bytes[k - 1], bytes[k])
        BY <3>0, <3>1, <3>2
      <4>2. i > 1
        BY <1>1, <2>0, <4>1
      <4>3. Marked(bytes[k - 1])
        <5>1. k - 1 \in 1 .. Len(bytes)
          BY <1>0, <3>0, <4>1
        <5>2. bytes[k - 1].at \in Nat /\ bytes[k].at = bytes[k - 1].at + 1 /\ bytes[k].at > 1
          BY <1>0, <3>0, <3>2, <4>1, <5>1 DEF Follows
        <5> QED
          BY <5>2 DEF Marked
      <4>4. ~(off[i - 1] > 0 /\ off[i - 1] < M)
        BY <2>3, <2>5, <4>2
      <4>5. off[i - 1] # M
        <5> SUFFICES ASSUME off[i - 1] = M PROVE FALSE
          OBVIOUS
        <5>1. Hit(bytes, l, src[i - 1]) /\ src[i - 1] \in 1 .. Len(bytes) /\ k = src[i - 1] + Len(l)
          BY <1>0, <2>3, <4>2
        <5>2. ~Marked(bytes[src[i - 1] + Len(l) - 1])
          <6>1. Len(l) \in 1 .. Len(l)
            BY <1>0
          <6> QED
            BY <5>1, <6>1 DEF Clean
        <5> QED
          BY <4>3, <5>1, <5>2
      <4>6. off[i - 1] = 0
        BY <1>0, <2>3, <4>2, <4>4, <4>5
      <4>7. q[i - 1] = bytes[k - 1]
        BY <2>3, <4>2, <4>6
      <4> QED
        BY <3>0, <4>1, <4>2, <4>7
    <3>3. ASSUME q[i].at < Len(Marker[q[i].old]) PROVE i < Len(q) /\ Follows(q[i], q[i + 1])
      <4>1. k < Len(bytes) /\ Follows(bytes[k], bytes[k + 1])
        BY <3>0, <3>1, <3>3
      <4>2. src[i + 1] = k + 1 /\ i < Len(q) /\ k + 1 \in 1 .. Len(bytes)
        BY <1>0, <2>0, <2>1, <2>5, <3>0, <4>1
      <4>3. Marked(bytes[k + 1])
        BY <1>0, <3>0, <4>1 DEF Follows, Marked
      <4>4. ~Hit(bytes, l, k + 1)
        <5> SUFFICES ASSUME Hit(bytes, l, k + 1) PROVE FALSE
          OBVIOUS
        <5>1. 1 \in 1 .. Len(l) /\ (k + 1) + 1 - 1 = k + 1
          BY <1>0, <2>0
        <5>2. ~Marked(bytes[(k + 1) + 1 - 1])
          BY <4>2, <5>1 DEF Clean
        <5> QED
          BY <4>3, <5>1, <5>2
      <4>5. q[i + 1] = bytes[k + 1]
        BY <2>1, <2>2, <2>5, <4>2, <4>4
      <4> QED
        BY <3>0, <4>1, <4>2, <4>5
    <3> QED
      BY <3>2, <3>3
  <2> QED
    BY <2>0, <2>4, <2>5
<1> QED
  BY <1>2 DEF Runs

\* A literal in the result stands in the bytes too, at a position that
\* ReplaceAll has passed over.
LEMMA HitIsOld ==
  ASSUME NEW bytes \in Seq(Elements), NEW l \in Literals, NEW q, NEW src, NEW off,
         Reads(bytes, l, 1, q, src, off), NEW w \in Literals, Clean(q, w),
         NEW i \in 1 .. Len(q), Hit(q, w, i)
  PROVE  src[i] \in 1 .. Len(bytes) /\ Hit(bytes, w, src[i]) /\ ~Hit(bytes, l, src[i])
<1>0. /\ q \in Seq(Elements) /\ Len(q) \in Nat /\ Len(bytes) \in Nat
      /\ Len(w) \in Nat \ {0} /\ DOMAIN w = 1 .. Len(w)
  BY LenProperties, LiteralIs DEF Reads
<1>1. ASSUME NEW j \in 1 .. Len(w)
      PROVE  i + j - 1 \in 1 .. Len(q) /\ q[i + j - 1].sym = w[j] /\ ~Marked(q[i + j - 1])
  <2>1. i + j - 1 \in 1 .. Len(q) /\ ~Marked(q[i + j - 1])
    BY DEF Clean
  <2>2. Symbols(q)[i + j - 1] = w[j]
    BY <1>0 DEF Hit, At
  <2> QED
    BY <1>0, <2>1, <2>2, SymbolsOf
<1>2. ASSUME NEW j \in 1 .. Len(w)
      PROVE  /\ src[i + j - 1] \in 1 .. Len(bytes) /\ ~Hit(bytes, l, src[i + j - 1])
             /\ q[i + j - 1] = bytes[src[i + j - 1]]
             /\ src[i + j] = src[i + j - 1] + 1
  <2> DEFINE m == i + j - 1
  <2>1. m \in 1 .. Len(q) /\ i + j = m + 1 /\ ~Marked(q[m])
    BY <1>0, <1>1
  <2> HIDE DEF m
  <2>2. /\ src[m] \in 1 .. Len(bytes) /\ off[m] \in 0 .. Len(Marker[l]) /\ Len(Marker[l]) \in Nat
        /\ off[m] = 0 => q[m] = bytes[src[m]] /\ ~Hit(bytes, l, src[m])
        /\ off[m] > 0 => Marked(q[m])
    BY <2>1, ReadIs
  <2>3. off[m] = 0
    BY <2>1, <2>2
  <2>4. src[m + 1] = src[m] + 1
    BY <2>1, <2>3, NextIs
  <2> QED
    BY <2>1, <2>2, <2>3, <2>4 DEF m
<1> DEFINE S == {j \in Nat : j < Len(w) => src[i + j] = src[i] + j}
<1>3. src[i] \in 1 .. Len(bytes) /\ ~Hit(bytes, l, src[i])
  <2>1. 1 \in 1 .. Len(w) /\ i + 1 - 1 = i
    BY <1>0
  <2> QED
    BY <1>2, <2>1
<1>4. 0 \in S
  BY <1>0, <1>3
<1>5. ASSUME NEW j \in Nat, j \in S PROVE j + 1 \in S
  <2>1. CASE j + 1 < Len(w)
    <3>1. j + 1 \in 1 .. Len(w) /\ i + (j + 1) - 1 = i + j /\ src[i + j] = src[i] + j
      BY <1>0, <1>5, <2>1
    <3>2. src[i + (j + 1)] = src[i + j] + 1
      BY <1>2, <3>1
    <3> QED
      BY <1>3, <3>1, <3>2
  <2> QED
    BY <2>1, <1>0
<1> HIDE DEF S
<1>6. \A j \in Nat : j \in S
  BY <1>4, <1>5, Induction
<1>7. ASSUME NEW j \in 1 .. Len(w)
      PROVE  src[i] + j - 1 \in 1 .. Len(bytes) /\ bytes[src[i] + j - 1].sym = w[j]
  <2>1. j - 1 \in Nat /\ j - 1 < Len(w) /\ i + (j - 1) = i + j - 1
    BY <1>0
  <2>2. src[i + j - 1] = src[i] + (j - 1)
    BY <1>6, <2>1 DEF S
  <2>3. src[i] + (j - 1) = src[i] + j - 1
    BY <1>3
  <2> QED
    BY <1>1, <1>2, <2>2, <2>3
<1>8. Hit(bytes, w, src[i])
  <2>1. src[i] + Len(w) - 1 <= Len(bytes)
    BY <1>0, <1>3, <1>7
  <2> QED
    BY <1>0, <1>7, <2>1, SymbolsOf DEF Hit, At
<1> QED
  BY <1>3, <1>8

\* What ReplaceAll has replaced is gone, and what was not there does not appear.
LEMMA OccursNoMore ==
  ASSUME NEW bytes \in Seq(Elements), NEW l \in Literals, NEW q, NEW src, NEW off,
         Reads(bytes, l, 1, q, src, off), NEW w \in Literals, Clean(q, w),
         w # l => ~Occurs(w, Symbols(bytes))
  PROVE  ~Occurs(w, Symbols(q))
<1>1. q \in Seq(Elements)
  BY DEF Reads
<1> SUFFICES ASSUME Occurs(w, Symbols(q)) PROVE FALSE
  OBVIOUS
<1>2. PICK i \in 1 .. Len(q) : Hit(q, w, i)
  BY <1>1, SymbolsOf, LenProperties DEF Occurs, Hit
<1>3. src[i] \in 1 .. Len(bytes) /\ Hit(bytes, w, src[i]) /\ ~Hit(bytes, l, src[i])
  BY <1>2, HitIsOld
<1>4. Occurs(w, Symbols(bytes))
  BY <1>3, SymbolsOf, LenProperties DEF Occurs, Hit
<1> QED
  BY <1>3, <1>4

\* Every replacement adds one marker, and no marker is lost.
LEMMA StillCounted ==
  ASSUME NEW bytes \in Seq(Elements), NEW l \in Literals, NEW q, NEW src, NEW off, NEW H, NEW n \in Nat,
         Reads(bytes, l, 1, q, src, off), Takes(bytes, l, 1, q, src, off, H, n),
         Clean(bytes, l), Ordered(bytes),
         NEW size \in Nat, \A k \in 1 .. Len(bytes) : bytes[k].pos \in 1 .. size
  PROVE  /\ Cardinality(Markers(bytes)) \in Nat
         /\ Cardinality(Markers(q)) = Cardinality(Markers(bytes)) + n
<1> DEFINE new == {bytes[s].pos : s \in H}
<1>0. /\ Len(bytes) \in Nat /\ DOMAIN bytes = 1 .. Len(bytes) /\ Len(l) \in Nat \ {0}
      /\ q \in Seq(Elements) /\ DOMAIN q = 1 .. Len(q)
  BY LenProperties, LiteralIs DEF Reads
<1>1. /\ H \subseteq 1 .. Len(bytes) /\ IsFiniteSet(H) /\ Cardinality(H) = n
      /\ \A s \in H : Hit(bytes, l, s) /\ \E i \in 1 .. Len(q) : src[i] = s /\ off[i] = 1
      /\ \A i \in 1 .. Len(q) : off[i] > 0 => src[i] \in H
      /\ \A s \in 1 .. Len(bytes) : \/ \E i \in 1 .. Len(q) : src[i] = s
                                    \/ \E h \in H : s \in h .. h + Len(l) - 1
  BY DEF Takes
\* No marked byte stands where something is replaced.
<1>2. ASSUME NEW h \in H, NEW s \in h .. h + Len(l) - 1 PROVE s \in 1 .. Len(bytes) /\ ~Marked(bytes[s])
  <2>1. h \in 1 .. Len(bytes) /\ Hit(bytes, l, h) /\ s - h + 1 \in 1 .. Len(l) /\ h + (s - h + 1) - 1 = s
    BY <1>0, <1>1
  <2> QED
    BY <2>1 DEF Clean
<1>3. \A h \in H : h \in 1 .. Len(bytes) /\ ~Marked(bytes[h])
  <2>1. \A h \in H : h \in h .. h + Len(l) - 1
    BY <1>0, <1>1
  <2> QED
    BY <1>2, <2>1
<1>4. ASSUME NEW s \in H, NEW k \in 1 .. Len(bytes), k # s PROVE bytes[s].pos # bytes[k].pos
  <2>1. s \in 1 .. Len(bytes) /\ ~Marked(bytes[s]) /\ (s < k \/ k < s)
    BY <1>0, <1>3, <1>4
  <2>2. bytes[s].pos \in Nat /\ bytes[k].pos \in Nat
    BY <2>1
  <2>3. bytes[s].pos < bytes[k].pos \/ bytes[k].pos < bytes[s].pos
    BY <2>1 DEF Ordered
  <2> QED
    BY <2>2, <2>3
<1>5. IsFiniteSet(new) /\ Cardinality(new) = n
  <2> DEFINE f == [s \in H |-> bytes[s].pos]
  <2>1. f \in [H -> new] /\ (\A s, t \in H : f[s] = f[t] => s = t) /\ \A p \in new : \E s \in H : f[s] = p
    BY <1>3, <1>4
  <2> HIDE DEF f, new
  <2>2. f \in Bijection(H, new)
    BY <2>1, Fun_IsBij
  <2> QED
    BY <1>1, <2>2, FS_Bijection DEF ExistsBijection
<1>6. /\ Markers(bytes) = {bytes[k].pos : k \in {k \in 1 .. Len(bytes) : bytes[k].at = 1}}
      /\ Markers(q) = {q[k].pos : k \in {k \in 1 .. Len(q) : q[k].at = 1}}
  BY <1>0 DEF Markers
<1>7. IsFiniteSet(Markers(bytes))
  <2>1. Markers(bytes) \in SUBSET (1 .. size)
    BY <1>6
  <2>2. IsFiniteSet(1 .. size)
    BY FS_Interval
  <2> QED
    BY <2>1, <2>2, FS_Subset
<1>8. Markers(bytes) \cap new = {}
  <2> SUFFICES ASSUME NEW k \in 1 .. Len(bytes), bytes[k].at = 1, NEW s \in H, bytes[k].pos = bytes[s].pos
               PROVE  FALSE
    BY <1>6
  <2>1. Marked(bytes[k]) /\ ~Marked(bytes[s])
    BY <1>3 DEF Marked
  <2> QED
    BY <1>4, <2>1
<1>9. Markers(q) = Markers(bytes) \cup new
  <2>1. ASSUME NEW i \in 1 .. Len(q), q[i].at = 1 PROVE q[i].pos \in Markers(bytes) \cup new
    <3>1. /\ src[i] \in 1 .. Len(bytes) /\ off[i] \in Nat /\ q[i].pos = bytes[src[i]].pos
          /\ off[i] = 0 => q[i] = bytes[src[i]]
      BY ReadIs
    <3>2. CASE off[i] = 0
      BY <1>6, <2>1, <3>1, <3>2
    <3>3. CASE off[i] > 0
      BY <1>1, <3>1, <3>3
    <3> QED
      BY <3>1, <3>2, <3>3
  <2>2. ASSUME NEW s \in H PROVE bytes[s].pos \in Markers(q)
    <3>1. PICK i \in 1 .. Len(q) : src[i] = s /\ off[i] = 1
      BY <1>1
    <3>2. q[i].at = off[i] /\ q[i].pos = bytes[src[i]].pos
      <4>1. off[i] > 0
        BY <3>1
      <4> QED
        BY <4>1, ReadIs
    <3> QED
      BY <1>6, <3>1, <3>2
  <2>3. ASSUME NEW k \in 1 .. Len(bytes), bytes[k].at = 1 PROVE bytes[k].pos \in Markers(q)
    <3>1. Marked(bytes[k])
      BY <2>3 DEF Marked
    <3>2. PICK i \in 1 .. Len(q) : src[i] = k
      BY <1>1, <1>2, <3>1
    <3>3. /\ off[i] \in Nat /\ (off[i] = 0 => q[i] = bytes[k])
      BY <3>2, ReadIs
    <3>4. off[i] = 0
      <4>1. ~(off[i] > 0)
        BY <1>1, <1>3, <3>1, <3>2
      <4> QED
        BY <3>3, <4>1
    <3> QED
      BY <1>6, <2>3, <3>3, <3>4
  <2>4. Markers(q) \subseteq Markers(bytes) \cup new
    BY <1>6, <2>1
  <2>5. Markers(bytes) \cup new \subseteq Markers(q)
    BY <1>6, <2>2, <2>3
  <2> QED
    BY <2>4, <2>5
<1> HIDE DEF new
<1>10. Cardinality(Markers(bytes)) \in Nat /\ Cardinality({}) = 0
  BY <1>7, FS_CardinalityType, FS_EmptySet
<1>11. Cardinality(Markers(q)) =
         Cardinality(Markers(bytes)) + Cardinality(new) - Cardinality(Markers(bytes) \cap new)
  BY <1>5, <1>7, <1>9, FS_Union
<1>12. Cardinality(new) = n /\ Cardinality(Markers(bytes) \cap new) = 0
  BY <1>5, <1>8, <1>10
<1> QED
  BY <1>10, <1>11, <1>12

-----------------------------------------------------------------------------
(* The bytes so far cover the request, where no literal can match a marker *)

\* Where in the request an element stands, and how many of its bytes it is: the
\* last byte of a marker is all of its literal, and the others are none.
PosOf(raw, bytes, k) == IF k = Len(bytes) + 1 THEN Len(raw) + 1 ELSE bytes[k].pos
Width(e) == IF ~Marked(e) THEN 1 ELSE IF e.at = Len(Marker[e.old]) THEN Len(e.old) ELSE 0

\* The elements follow each other in the request without a gap; a byte is the one
\* that stands there, a marker stands where its literal does.
Covers(raw, bytes) ==
  /\ PosOf(raw, bytes, 1) = 1
  /\ \A k \in 1 .. Len(bytes) :
       /\ bytes[k].pos \in 1 .. Len(raw)
       /\ PosOf(raw, bytes, k + 1) = bytes[k].pos + Width(bytes[k])
       /\ ~Marked(bytes[k]) => raw[bytes[k].pos] = bytes[k].sym
       /\ Marked(bytes[k]) => At(bytes[k].old, raw, bytes[k].pos)

LEMMA WidthIs ==
  ASSUME NEW e \in Elements
  PROVE  /\ Width(e) \in Nat
         /\ ~Marked(e) => Width(e) = 1
         /\ Marked(e) /\ Width(e) # 0 => e.at = Len(Marker[e.old]) /\ Width(e) = Len(e.old)
<1>1. CASE Marked(e)
  <2>1. Len(e.old) \in Nat
    BY <1>1, ElementIs, LiteralIs
  <2> QED
    BY <1>1, <2>1 DEF Width
<1>2. CASE ~Marked(e)
  BY <1>2 DEF Width
<1> QED
  BY <1>1, <1>2

\* Where the elements of bytes that cover the request stand.
LEMMA CoversIs ==
  ASSUME NEW raw \in Seq(Sym), NEW bytes \in Seq(Elements), Covers(raw, bytes)
  PROVE  /\ Len(raw) \in Nat /\ Len(bytes) \in Nat
         /\ \A k \in 1 .. Len(bytes) + 1 : PosOf(raw, bytes, k) \in 1 .. Len(raw) + 1
         /\ \A k \in 1 .. Len(bytes) :
              /\ bytes[k] \in Elements
              /\ PosOf(raw, bytes, k) = bytes[k].pos
              /\ PosOf(raw, bytes, k + 1) = PosOf(raw, bytes, k) + Width(bytes[k])
              /\ Width(bytes[k]) \in Nat
<1>1. Len(raw) \in Nat /\ Len(bytes) \in Nat
  BY LenProperties
<1>2. ASSUME NEW k \in 1 .. Len(bytes)
      PROVE  /\ bytes[k] \in Elements
             /\ PosOf(raw, bytes, k) = bytes[k].pos
             /\ PosOf(raw, bytes, k) \in 1 .. Len(raw)
             /\ PosOf(raw, bytes, k + 1) = PosOf(raw, bytes, k) + Width(bytes[k])
             /\ Width(bytes[k]) \in Nat
  <2>1. bytes[k] \in Elements /\ k # Len(bytes) + 1
    BY <1>1, ElementOfSeq
  <2>2. PosOf(raw, bytes, k) = bytes[k].pos
    BY <2>1 DEF PosOf
  <2> QED
    BY <2>1, <2>2, ElementIs, WidthIs DEF Covers
<1>3. PosOf(raw, bytes, Len(bytes) + 1) \in 1 .. Len(raw) + 1
  BY <1>1 DEF PosOf
<1>4. ASSUME NEW k \in 1 .. Len(bytes) + 1 PROVE PosOf(raw, bytes, k) \in 1 .. Len(raw) + 1
  <2>1. CASE k = Len(bytes) + 1
    BY <1>3, <2>1
  <2>2. CASE k # Len(bytes) + 1
    <3>1. k \in 1 .. Len(bytes)
      BY <1>1, <2>2
    <3>2. PosOf(raw, bytes, k) \in 1 .. Len(raw)
      BY <1>2, <3>1
    <3> QED
      BY <1>1, <3>2
  <2> QED
    BY <2>1, <2>2
<1> QED
  BY <1>1, <1>2, <1>4

\* Without a marker, elements that follow each other stand for bytes that do.
LEMMA PlainRun ==
  ASSUME NEW raw \in Seq(Sym), NEW bytes \in Seq(Elements), Covers(raw, bytes),
         NEW k \in 1 .. Len(bytes), NEW n \in Nat, k + n <= Len(bytes) + 1,
         \A i \in Nat : i < n => ~Marked(bytes[k + i])
  PROVE  \A i \in Nat : i <= n => PosOf(raw, bytes, k + i) = bytes[k].pos + i
<1> DEFINE S == {i \in Nat : i <= n => PosOf(raw, bytes, k + i) = bytes[k].pos + i}
<1>0. Len(bytes) \in Nat /\ bytes[k].pos \in Nat /\ PosOf(raw, bytes, k) = bytes[k].pos
  BY CoversIs, ElementIs
<1>1. 0 \in S
  BY <1>0
<1>2. ASSUME NEW i \in Nat, i \in S PROVE i + 1 \in S
  <2>1. CASE i + 1 <= n
    <3>1. k + i \in 1 .. Len(bytes) /\ k + (i + 1) = (k + i) + 1
      BY <1>0, <2>1
    <3>2. ~Marked(bytes[k + i]) /\ PosOf(raw, bytes, k + i) = bytes[k].pos + i
      BY <1>2, <2>1
    <3>3. PosOf(raw, bytes, k + (i + 1)) = (bytes[k].pos + i) + 1
      BY <3>1, <3>2, CoversIs DEF Width
    <3> QED
      BY <1>0, <3>3
  <2> QED
    BY <2>1
<1> HIDE DEF S
<1>3. \A i \in Nat : i \in S
  BY <1>1, <1>2, Induction
<1> QED
  BY <1>3 DEF S

\* A literal that stands in the bytes so far stands in the request.
LEMMA HitInRequest ==
  ASSUME NEW raw \in Seq(Sym), NEW bytes \in Seq(Elements), Covers(raw, bytes),
         NEW l \in Literals, Clean(bytes, l), NEW k \in 1 .. Len(bytes), Hit(bytes, l, k)
  PROVE  /\ At(l, raw, bytes[k].pos)
         /\ PosOf(raw, bytes, k + Len(l)) = bytes[k].pos + Len(l)
<1>0. /\ Len(bytes) \in Nat /\ Len(raw) \in Nat /\ bytes[k].pos \in Nat
      /\ Len(l) \in Nat \ {0} /\ DOMAIN l = 1 .. Len(l)
  BY CoversIs, ElementIs, LiteralIs
<1>1. k + Len(l) - 1 <= Len(bytes) /\ \A j \in 1 .. Len(l) : Symbols(bytes)[k + j - 1] = l[j]
  BY <1>0, SymbolsOf DEF Hit, At
<1>2. ASSUME NEW i \in Nat, i < Len(l)
      PROVE  /\ k + i \in 1 .. Len(bytes) /\ i + 1 \in 1 .. Len(l)
             /\ bytes[k + i].sym = l[i + 1] /\ ~Marked(bytes[k + i])
  <2>1. k + i \in 1 .. Len(bytes) /\ i + 1 \in 1 .. Len(l) /\ k + (i + 1) - 1 = k + i
    BY <1>0, <1>1, <1>2
  <2>2. bytes[k + i].sym = l[i + 1]
    BY <1>1, <2>1, SymbolsOf
  <2> QED
    BY <2>1, <2>2 DEF Clean
<1>3. \A i \in Nat : i <= Len(l) => PosOf(raw, bytes, k + i) = bytes[k].pos + i
  <2>1. k + Len(l) <= Len(bytes) + 1 /\ Len(l) \in Nat
    BY <1>0, <1>1
  <2> QED
    BY <1>2, <2>1, PlainRun
<1>4. ASSUME NEW j \in 1 .. Len(l)
      PROVE  bytes[k].pos + j - 1 \in 1 .. Len(raw) /\ raw[bytes[k].pos + j - 1] = l[j]
  <2> DEFINE i == j - 1
  <2>1. i \in Nat /\ i < Len(l) /\ i + 1 = j /\ bytes[k].pos + j - 1 = bytes[k].pos + i
    BY <1>0
  <2> HIDE DEF i
  <2>2. k + i \in 1 .. Len(bytes) /\ bytes[k + i].sym = l[j] /\ ~Marked(bytes[k + i])
    BY <1>2, <2>1
  <2>3. PosOf(raw, bytes, k + i) = bytes[k].pos + i /\ PosOf(raw, bytes, k + i) = bytes[k + i].pos
    <3>1. i <= Len(l)
      BY <1>0, <2>1
    <3>2. PosOf(raw, bytes, k + i) = bytes[k].pos + i
      BY <1>3, <2>1, <3>1
    <3>3. PosOf(raw, bytes, k + i) = bytes[k + i].pos
      BY <2>2, CoversIs, Zenon
    <3> QED
      BY <3>2, <3>3
  <2>4. bytes[k + i].pos \in 1 .. Len(raw) /\ raw[bytes[k + i].pos] = bytes[k + i].sym
    BY <2>2 DEF Covers
  <2> QED
    BY <2>1, <2>2, <2>3, <2>4
<1>5. bytes[k].pos + Len(l) - 1 <= Len(raw)
  BY <1>0, <1>4
<1> QED
  BY <1>0, <1>3, <1>4, <1>5 DEF At

\* ReplaceAll leaves no gap.
\* ReplaceAll leaves no gap.
LEMMA StillCovers ==
  ASSUME NEW raw \in Seq(Sym), NEW bytes \in Seq(Elements), Covers(raw, bytes),
         NEW l \in Literals, Clean(bytes, l), NEW q, NEW src, NEW off,
         Reads(bytes, l, 1, q, src, off)
  PROVE  Covers(raw, q)
<1>0. /\ q \in Seq(Elements) /\ Len(q) \in Nat /\ Len(bytes) \in Nat
      /\ Len(Marker[l]) \in Nat \ {0} /\ Len(l) \in Nat
  BY LenProperties, LiteralIs DEF Reads
<1>1. ASSUME NEW i \in 1 .. Len(q) + 1 PROVE PosOf(raw, q, i) = PosOf(raw, bytes, src[i])
  <2>1. CASE i = Len(q) + 1
    BY <2>1 DEF Reads, PosOf
  <2>2. CASE i \in 1 .. Len(q)
    <3>1. i # Len(q) + 1 /\ src[i] # Len(bytes) + 1 /\ q[i].pos = bytes[src[i]].pos
      BY <1>0, <2>2, ReadIs
    <3> QED
      BY <3>1 DEF PosOf
  <2> QED
    BY <1>0, <2>1, <2>2
<1>2. PosOf(raw, q, 1) = 1
  <2>1. 1 \in 1 .. Len(q) + 1 /\ src[1] = 1
    BY <1>0 DEF Reads
  <2> QED
    BY <1>1, <2>1 DEF Covers
<1>3. ASSUME NEW i \in 1 .. Len(q)
      PROVE  /\ q[i].pos \in 1 .. Len(raw)
             /\ PosOf(raw, q, i + 1) = q[i].pos + Width(q[i])
             /\ ~Marked(q[i]) => raw[q[i].pos] = q[i].sym
             /\ Marked(q[i]) => At(q[i].old, raw, q[i].pos)
  <2> DEFINE k == src[i]
  <2>1. /\ k \in 1 .. Len(bytes) /\ q[i].pos = bytes[k].pos /\ off[i] \in 0 .. Len(Marker[l])
        /\ PosOf(raw, q, i + 1) = PosOf(raw, bytes, src[i + 1])
        /\ off[i] = 0 => q[i] = bytes[k]
        /\ off[i] > 0 => Hit(bytes, l, k) /\ Marked(q[i]) /\ q[i].old = l /\ q[i].at = off[i]
    <3>1. /\ k \in 1 .. Len(bytes) /\ q[i].pos = bytes[k].pos /\ off[i] \in 0 .. Len(Marker[l])
          /\ off[i] = 0 => q[i] = bytes[k]
          /\ off[i] > 0 => Hit(bytes, l, k) /\ Marked(q[i]) /\ q[i].old = l /\ q[i].at = off[i]
      BY ReadIs
    <3>2. i + 1 \in 1 .. Len(q) + 1
      BY <1>0
    <3> QED
      BY <1>1, <3>1, <3>2
  <2>2. /\ off[i] = 0 => src[i + 1] = k + 1
        /\ off[i] > 0 /\ off[i] < Len(Marker[l]) => src[i + 1] = k
        /\ off[i] = Len(Marker[l]) => src[i + 1] = k + Len(l)
    BY NextIs
  <2> HIDE DEF k
  <2>3. bytes[k].pos \in 1 .. Len(raw) /\ PosOf(raw, bytes, k) = bytes[k].pos
    BY <2>1, CoversIs DEF Covers
  <2>4. CASE off[i] = 0
    BY <2>1, <2>2, <2>4 DEF Covers
  <2>5. CASE off[i] > 0
    <3>1. At(l, raw, bytes[k].pos) /\ PosOf(raw, bytes, k + Len(l)) = bytes[k].pos + Len(l)
      BY <2>1, <2>5, HitInRequest
    <3>2. CASE off[i] < Len(Marker[l])
      <4>1. Width(q[i]) = 0
        BY <1>0, <2>1, <2>5, <3>2 DEF Width
      <4>2. bytes[k].pos + 0 = bytes[k].pos
        BY <2>3
      <4> QED
        BY <2>1, <2>2, <2>3, <2>5, <3>1, <3>2, <4>1, <4>2
    <3>3. CASE off[i] = Len(Marker[l])
      <4>1. Width(q[i]) = Len(l)
        BY <1>0, <2>1, <2>5, <3>3 DEF Width
      <4> QED
        BY <2>1, <2>2, <2>3, <2>5, <3>1, <3>3, <4>1
    <3> QED
      BY <1>0, <2>1, <3>2, <3>3
  <2> QED
    BY <1>0, <2>1, <2>4, <2>5
<1> QED
  BY <1>2, <1>3 DEF Covers

\* Elements stand in their order.
LEMMA InOrder ==
  ASSUME NEW raw \in Seq(Sym), NEW bytes \in Seq(Elements), Covers(raw, bytes),
         NEW i \in 1 .. Len(bytes), NEW j \in 1 .. Len(bytes), i < j
  PROVE  bytes[i].pos + Width(bytes[i]) <= bytes[j].pos
<1> DEFINE P(k) == PosOf(raw, bytes, k)
           S == {d \in Nat : i + 1 + d <= Len(bytes) + 1 => P(i + 1) <= P(i + 1 + d)}
<1>0. /\ Len(bytes) \in Nat /\ Len(raw) \in Nat
      /\ \A k \in 1 .. Len(bytes) + 1 : P(k) \in Nat
      /\ \A k \in 1 .. Len(bytes) : P(k) <= P(k + 1)
      /\ P(i + 1) = bytes[i].pos + Width(bytes[i]) /\ P(j) = bytes[j].pos
  <2>1. Len(bytes) \in Nat /\ Len(raw) \in Nat
    BY CoversIs
  <2>2. \A k \in 1 .. Len(bytes) + 1 : P(k) \in Nat
    BY <2>1, CoversIs
  <2>3. ASSUME NEW k \in 1 .. Len(bytes) PROVE P(k) <= P(k + 1)
    <3>1. P(k + 1) = P(k) + Width(bytes[k]) /\ Width(bytes[k]) \in Nat
      BY CoversIs
    <3>2. P(k) \in Nat
      BY <2>1, <2>2
    <3> QED
      BY <3>1, <3>2
  <2>4. P(i + 1) = bytes[i].pos + Width(bytes[i]) /\ P(j) = bytes[j].pos
    BY CoversIs
  <2> QED
    BY <2>1, <2>2, <2>3, <2>4
<1> HIDE DEF P
<1>1. 0 \in S
  BY <1>0
<1>2. ASSUME NEW d \in Nat, d \in S PROVE d + 1 \in S
  <2>1. CASE i + 1 + (d + 1) <= Len(bytes) + 1
    <3>1. i + 1 + d \in 1 .. Len(bytes) /\ i + 1 + (d + 1) = (i + 1 + d) + 1 /\ i + 1 \in 1 .. Len(bytes) + 1
      BY <1>0, <2>1
    <3>2. P(i + 1) <= P(i + 1 + d) /\ P(i + 1 + d) <= P(i + 1 + (d + 1))
      BY <1>0, <1>2, <3>1
    <3>3. P(i + 1) \in Nat /\ P(i + 1 + d) \in Nat /\ P(i + 1 + (d + 1)) \in Nat
      BY <1>0, <2>1, <3>1
    <3> QED
      BY <3>2, <3>3
  <2> QED
    BY <2>1
<1> HIDE DEF S
<1>3. j - (i + 1) \in S
  <2>1. j - (i + 1) \in Nat
    BY <1>0
  <2> QED
    BY <1>1, <1>2, <2>1, Induction
<1>4. i + 1 + (j - (i + 1)) = j /\ i + 1 + (j - (i + 1)) <= Len(bytes) + 1
  BY <1>0
<1>5. P(i + 1) <= P(j)
  BY <1>3, <1>4 DEF S
<1> QED
  BY <1>0, <1>5

\* Every position of the request belongs to an element.
LEMMA Covering ==
  ASSUME NEW raw \in Seq(Sym), NEW bytes \in Seq(Elements), Covers(raw, bytes),
         NEW x \in 1 .. Len(raw)
  PROVE  \E k \in 1 .. Len(bytes) : bytes[k].pos <= x /\ x < bytes[k].pos + Width(bytes[k])
<1> DEFINE P(k) == PosOf(raw, bytes, k)
           S == {k \in 1 .. Len(bytes) + 1 : x < P(k)}
<1>0. Len(bytes) \in Nat /\ Len(raw) \in Nat /\ P(1) = 1 /\ P(Len(bytes) + 1) = Len(raw) + 1
  BY CoversIs DEF Covers, PosOf
<1>1. \A k \in 1 .. Len(bytes) : P(k) = bytes[k].pos /\ P(k + 1) = P(k) + Width(bytes[k])
  BY CoversIs
<1>2. \A k \in 1 .. Len(bytes) + 1 : P(k) \in Nat
  BY <1>0, CoversIs
<1> HIDE DEF P
<1>3. S # {} /\ S \subseteq Nat
  BY <1>0
<1>4. PICK m \in S : \A n \in S : m <= n
  BY <1>3, LeastNumber
<1>5. m - 1 \in 1 .. Len(bytes) /\ m - 1 \in 1 .. Len(bytes) + 1 /\ m - 1 + 1 = m /\ m - 1 < m
  BY <1>0, <1>4
<1>6. P(m - 1) <= x /\ x < P(m)
  BY <1>2, <1>4, <1>5
<1> QED
  BY <1>1, <1>5, <1>6

\* With every marker turned back into its literal the bytes are the request's.
Expanded(e) ==
  IF ~Marked(e) THEN <<e.sym>> ELSE IF e.at = Len(Marker[e.old]) THEN e.old ELSE <<>>

LEMMA ExpandsToRequest ==
  ASSUME NEW raw \in Seq(Sym), NEW bytes \in Seq(Elements), Covers(raw, bytes)
  PROVE  Concat([k \in DOMAIN bytes |-> Expanded(bytes[k])], Len(bytes)) = raw
<1> DEFINE f == [k \in DOMAIN bytes |-> Expanded(bytes[k])]
           P(k) == PosOf(raw, bytes, k)
           S == {n \in Nat : n <= Len(bytes) => Concat(f, n) = SubSeq(raw, 1, P(n + 1) - 1)}
<1>0. /\ Len(bytes) \in Nat /\ Len(raw) \in Nat
      /\ P(1) = 1 /\ P(Len(bytes) + 1) = Len(raw) + 1
      /\ \A k \in 1 .. Len(bytes) + 1 : P(k) \in 1 .. Len(raw) + 1
  BY CoversIs DEF Covers, PosOf
<1>1. ASSUME NEW p \in 0 .. Len(raw)
      PROVE  /\ SubSeq(raw, 1, p) \in Seq(Sym) /\ Len(SubSeq(raw, 1, p)) = p
             /\ \A i \in 1 .. p : SubSeq(raw, 1, p)[i] = raw[i]
  <2>1. p \in Int /\ \A i \in 1 .. p : raw[i] \in Sym
    BY <1>0, ElementOfSeq
  <2>2. SubSeq(raw, 1, p) \in Seq(Sym) /\ Len(SubSeq(raw, 1, p)) = IF 1 <= p THEN p - 1 + 1 ELSE 0
    BY <2>1, SubSeqProperties
  <2>3. \A i \in 1 .. p - 1 + 1 : SubSeq(raw, 1, p)[i] = raw[1 + i - 1]
    BY <2>1, SubSeqProperties
  <2> QED
    BY <1>0, <2>2, <2>3
<1>2. ASSUME NEW k \in 1 .. Len(bytes)
      PROVE  /\ f[k] \in Seq(Sym) /\ P(k) \in 1 .. Len(raw)
             /\ P(k + 1) = P(k) + Len(f[k]) /\ Len(f[k]) \in Nat
             /\ \A i \in 1 .. Len(f[k]) : f[k][i] = raw[P(k) + i - 1]
  <2>1. /\ bytes[k] \in Elements /\ f[k] = Expanded(bytes[k]) /\ P(k) = bytes[k].pos
        /\ P(k + 1) = P(k) + Width(bytes[k])
    BY CoversIs, LenProperties
  <2>2. P(k) \in 1 .. Len(raw)
    BY <2>1 DEF Covers
  <2> HIDE DEF P, f
  <2>3. CASE Marked(bytes[k]) /\ bytes[k].at = Len(Marker[bytes[k].old])
    <3>1. f[k] = bytes[k].old /\ Width(bytes[k]) = Len(bytes[k].old) /\ bytes[k].old \in Literals
      BY <2>1, <2>3, ElementIs DEF Expanded, Width
    <3>2. At(f[k], raw, P(k))
      BY <2>1, <2>3, <3>1 DEF Covers
    <3>3. Len(f[k]) \in Nat /\ DOMAIN f[k] = 1 .. Len(f[k])
      BY <3>1, LiteralIs
    <3>4. \A i \in 1 .. Len(f[k]) : f[k][i] = raw[P(k) + i - 1]
      BY <3>2, <3>3 DEF At
    <3>5. f[k] \in Seq(Sym)
      BY <3>1, HandleBodyAssumption, SeqMonotonic DEF Sym
    <3> QED
      BY <2>1, <2>2, <3>1, <3>3, <3>4, <3>5
  <2>5. CASE Marked(bytes[k]) /\ bytes[k].at # Len(Marker[bytes[k].old])
    <3>1. f[k] = <<>> /\ Width(bytes[k]) = 0
      BY <2>1, <2>5 DEF Expanded, Width
    <3>2. f[k] \in Seq(Sym) /\ Len(f[k]) = 0 /\ 1 .. 0 = {}
      BY <3>1, EmptySeq
    <3> QED
      BY <2>1, <2>2, <3>1, <3>2
  <2>4. CASE ~Marked(bytes[k])
    <3>1. f[k] = <<bytes[k].sym>> /\ Width(bytes[k]) = 1
      BY <2>1, <2>4 DEF Expanded, Width
    <3>2. raw[P(k)] = bytes[k].sym
      BY <2>1, <2>4 DEF Covers
    <3>3. raw[P(k)] \in Sym
      BY <2>2, ElementOfSeq
    <3>4. f[k] \in Seq(Sym) /\ Len(f[k]) = 1 /\ f[k][1] = raw[P(k)]
      BY <3>1, <3>2, <3>3
    <3>5. \A i \in 1 .. Len(f[k]) : f[k][i] = raw[P(k) + i - 1]
      BY <2>2, <3>4
    <3> QED
      BY <2>1, <2>2, <3>1, <3>4, <3>5
  <2> QED
    BY <2>3, <2>4, <2>5
<1> HIDE DEF f, P
<1>3. 0 \in S
  <2>1. SubSeq(raw, 1, 0) = <<>>
    BY SubSeqEmpty
  <2>2. P(0 + 1) - 1 = 0
    BY <1>0
  <2> QED
    BY <2>1, <2>2, ConcatStep
<1>4. ASSUME NEW n \in Nat, n \in S PROVE n + 1 \in S
  <2>1. CASE n + 1 <= Len(bytes)
    <3> DEFINE k == n + 1
               a == SubSeq(raw, 1, P(k) - 1)
               c == SubSeq(raw, 1, P(k + 1) - 1)
    <3>1. k \in 1 .. Len(bytes) /\ k \in 1 .. Len(bytes) + 1 /\ k + 1 \in 1 .. Len(bytes) + 1
      BY <1>0, <2>1
    <3>2. Concat(f, k) = Concat(f, n) \o f[k] /\ Concat(f, n) = a
      <4>1. Concat(f, n) = a
        BY <1>0, <1>4, <2>1
      <4>2. Concat(f, n + 1) = Concat(f, n) \o f[n + 1]
        BY ConcatStep
      <4> QED
        BY <4>1, <4>2, Zenon
    <3> HIDE DEF k
    <3>3. P(k) - 1 \in 0 .. Len(raw) /\ P(k + 1) - 1 \in 0 .. Len(raw) /\ P(k) \in Nat /\ P(k + 1) \in Nat
      BY <1>0, <3>1
    <3>4. a \in Seq(Sym) /\ Len(a) = P(k) - 1 /\ \A i \in 1 .. P(k) - 1 : a[i] = raw[i]
      BY <1>1, <3>3
    <3>5. c \in Seq(Sym) /\ Len(c) = P(k + 1) - 1 /\ \A i \in 1 .. P(k + 1) - 1 : c[i] = raw[i]
      BY <1>1, <3>3
    <3> HIDE DEF a, c
    <3>6. f[k] \in Seq(Sym) /\ P(k + 1) = P(k) + Len(f[k]) /\ Len(f[k]) \in Nat
      BY <1>2, <3>1
    <3>7. /\ a \o f[k] \in Seq(Sym) /\ Len(a \o f[k]) = Len(a) + Len(f[k])
          /\ \A i \in 1 .. Len(a) + Len(f[k]) :
               (a \o f[k])[i] = IF i <= Len(a) THEN a[i] ELSE f[k][i - Len(a)]
      BY <3>4, <3>6, ConcatProperties
    <3>8. Len(a \o f[k]) = Len(c) /\ Len(c) = P(k) - 1 + Len(f[k])
      BY <3>3, <3>4, <3>5, <3>6, <3>7
    <3>9. ASSUME NEW i \in 1 .. Len(c) PROVE (a \o f[k])[i] = c[i]
      <4>1. CASE i <= Len(a)
        <5>1. i \in 1 .. P(k) - 1 /\ i \in 1 .. Len(a) + Len(f[k]) /\ i \in 1 .. P(k + 1) - 1
          BY <3>3, <3>4, <3>5, <3>6, <3>8, <4>1
        <5> QED
          BY <3>4, <3>5, <3>7, <4>1, <5>1
      <4>2. CASE ~(i <= Len(a))
        <5>1. /\ i - Len(a) \in 1 .. Len(f[k]) /\ i \in 1 .. Len(a) + Len(f[k])
              /\ P(k) + (i - Len(a)) - 1 = i /\ i \in 1 .. P(k + 1) - 1
          <6> DEFINE x == P(k)
                     w == Len(f[k])
          <6>1. /\ x \in Nat /\ w \in Nat
                /\ Len(a) = x - 1 /\ Len(c) = x - 1 + w /\ P(k + 1) - 1 = x - 1 + w
            BY <3>3, <3>4, <3>5, <3>6, <3>8
          <6> HIDE DEF x, w
          <6>2. i \in 1 .. x - 1 + w /\ i > x - 1
            BY <4>2, <6>1
          <6>3. i - (x - 1) \in 1 .. w /\ i \in 1 .. (x - 1) + w /\ x + (i - (x - 1)) - 1 = i
            BY <6>1, <6>2
          <6> QED
            BY <6>1, <6>2, <6>3 DEF x, w
        <5>2. f[k][i - Len(a)] = raw[P(k) + (i - Len(a)) - 1]
          BY <1>2, <3>1, <5>1
        <5> QED
          BY <3>5, <3>7, <4>2, <5>1, <5>2
      <4> QED
        BY <4>1, <4>2
    <3>10. a \o f[k] = c
      BY <3>5, <3>7, <3>8, <3>9, SeqEqual
    <3> QED
      BY <3>2, <3>10 DEF k, c
  <2> QED
    BY <2>1
<1> HIDE DEF S
<1>5. Concat(f, Len(bytes)) = SubSeq(raw, 1, P(Len(bytes) + 1) - 1)
  <2>1. Len(bytes) \in S
    BY <1>0, <1>3, <1>4, Induction
  <2> QED
    BY <1>0, <2>1 DEF S
<1>6. SubSeq(raw, 1, Len(raw)) = raw
  BY SubSeqFull
<1>7. P(Len(bytes) + 1) - 1 = Len(raw)
  BY <1>0
<1> QED
  BY <1>5, <1>6, <1>7 DEF f

-----------------------------------------------------------------------------
(* The inductive invariant                                                 *)

TypeInv ==
  /\ body \in Bodies
  /\ repl \subseteq Findable(body)
  /\ todo \subseteq repl
  /\ out \in Seq(Elements)
  /\ count \in Nat
  /\ pc \in {"collect", "replace", "done"}
  /\ pc = "collect" => repl = {} /\ todo = {}
  /\ pc = "done" => todo = {}

\* What is no marker stands where it stood, and only literals that the loop has
\* visited have markers.
OutInv ==
  /\ \A k \in 1 .. Len(out) :
       /\ out[k].pos \in 1 .. Len(Raw(body))
       /\ IF Marked(out[k]) THEN out[k].old \in repl \ todo ELSE out[k].sym = Raw(body)[out[k].pos]
  /\ Ordered(out)

CountInv == count > 0 <=> \E k \in 1 .. Len(out) : Marked(out[k])

\* Where no literal can match a marker, the markers stay whole and stand where
\* their literals did, and no literal that the loop has visited is left.
UnmetInv ==
  NoMarkerMet =>
    /\ Covers(Raw(body), out)
    /\ Runs(out)
    /\ count = Cardinality(Markers(out))
    /\ \A w \in repl \ todo : ~Occurs(w, Symbols(out))

IInv == TypeInv /\ OutInv /\ CountInv /\ UnmetInv

\* What may be found is a literal, and one that stands in a content string.
LEMMA FindableIs ==
  ASSUME NEW b \in Bodies, NEW l \in Findable(b)
  PROVE  /\ l \in Literals
         /\ \E i \in DOMAIN b.fields : b.fields[i].kind = "content" /\ Occurs(l, b.fields[i].text)
BY DEF Findable, Collects

\* The bytes of the request, before any is replaced.
LEMMA OriginalIs ==
  ASSUME NEW b \in Bodies
  PROVE  /\ Original(b) \in Seq(Elements) /\ Len(Original(b)) = Len(Raw(b))
         /\ \A k \in 1 .. Len(Original(b)) :
              /\ ~Marked(Original(b)[k]) /\ Original(b)[k].pos = k
              /\ Original(b)[k].sym = Raw(b)[k]
         /\ Covers(Raw(b), Original(b)) /\ Ordered(Original(b)) /\ Runs(Original(b))
         /\ Cardinality(Markers(Original(b))) = 0
<1> DEFINE raw == Raw(b)
           o == Original(b)
<1>1. raw \in Seq(Sym) /\ Len(raw) \in Nat /\ DOMAIN raw = 1 .. Len(raw)
  BY RawType, LenProperties
<1>2. o = [k \in 1 .. Len(raw) |-> [sym |-> raw[k], pos |-> k, old |-> <<>>, at |-> 0]]
  BY <1>1 DEF Original
<1> HIDE DEF raw, o
<1>3. ASSUME NEW k \in 1 .. Len(raw)
      PROVE  o[k] \in Elements /\ o[k].sym = raw[k] /\ o[k].pos = k /\ ~Marked(o[k]) /\ o[k].at = 0
  <2>1. raw[k] \in Sym /\ k \in Nat
    BY <1>1, ElementOfSeq
  <2> QED
    BY <1>2, <2>1 DEF Elements, Byte, Marked
<1>4. o \in Seq(Elements) /\ Len(o) = Len(raw)
  BY <1>1, <1>2, <1>3
<1>5. ASSUME NEW k \in 1 .. Len(raw) + 1 PROVE PosOf(raw, o, k) = k
  BY <1>1, <1>3, <1>4 DEF PosOf
<1>6. Covers(raw, o)
  <2>1. PosOf(raw, o, 1) = 1
    BY <1>1, <1>5
  <2>2. ASSUME NEW k \in 1 .. Len(raw) PROVE PosOf(raw, o, k + 1) = k + 1
    BY <1>1, <1>5
  <2> QED
    BY <1>3, <1>4, <2>1, <2>2 DEF Covers, Width
<1>7. Ordered(o) /\ Runs(o)
  BY <1>3, <1>4 DEF Ordered, Runs
<1>8. Cardinality(Markers(o)) = 0
  <2>1. {k \in DOMAIN o : o[k].at = 1} = {}
    BY <1>2, <1>3
  <2>2. Markers(o) = {}
    BY <2>1 DEF Markers
  <2> QED
    BY <2>2, FS_EmptySet
<1> QED
  BY <1>3, <1>4, <1>6, <1>7, <1>8 DEF raw, o

LEMMA InitIInv == Init => IInv
<1> SUFFICES ASSUME Init PROVE IInv
  OBVIOUS
<1>1. body \in Bodies /\ repl = {} /\ todo = {} /\ out = Original(body) /\ count = 0 /\ pc = "collect"
  BY DEF Init
<1>2. TypeInv
  BY <1>1, OriginalIs DEF TypeInv
<1>3. OutInv
  BY <1>1, OriginalIs DEF OutInv
<1>4. UnmetInv
  BY <1>1, OriginalIs DEF UnmetInv
<1>5. CountInv
  BY <1>1, OriginalIs DEF CountInv
<1> QED
  BY <1>2, <1>3, <1>4, <1>5 DEF IInv

\* While nothing is visited the bytes have no markers: collecting keeps the rest.
LEMMA CollectIInv == IInv /\ Collect => IInv'
<1> SUFFICES ASSUME IInv, Collect PROVE IInv'
  OBVIOUS
<1>1. /\ repl' \subseteq Findable(body) /\ todo' = repl'
      /\ body' = body /\ out' = out /\ count' = count /\ repl = {} /\ todo = {}
      /\ pc' \in {"replace", "done"} /\ (pc' = "done" => repl' = {})
  BY DEF Collect, IInv, TypeInv
<1>2. TypeInv'
  BY <1>1 DEF IInv, TypeInv
<1>3. OutInv'
  BY <1>1 DEF IInv, OutInv
<1>4. NoMarkerMet
  BY <1>1 DEF NoMarkerMet
<1>5. UnmetInv'
  BY <1>1, <1>4 DEF IInv, UnmetInv
<1>6. CountInv'
  BY <1>1 DEF IInv, CountInv
<1> QED
  BY <1>2, <1>3, <1>5, <1>6 DEF IInv

\* One iteration: the literal is gone, and those visited before stay away.
LEMMA ReplaceIInv == ASSUME IInv, NEW l \in todo, Replace(l) PROVE IInv'
<1> DEFINE q == ReplaceAll(out, l)
           n == Occurrences(out, l)
           raw == Raw(body)
<1>1. /\ body' = body /\ repl' = repl /\ pc' = pc /\ pc = "replace"
      /\ out' = q /\ todo' = todo \ {l} /\ count' = count + n
  BY DEF Replace
<1>2. /\ body \in Bodies /\ l \in Findable(body) /\ l \in Literals /\ l \in repl
      /\ out \in Seq(Elements) /\ raw \in Seq(Sym) /\ count \in Nat /\ repl \subseteq Literals
      /\ Len(raw) \in Nat /\ Len(out) \in Nat
  BY RawType, FindableIs, LenProperties DEF IInv, TypeInv
<1>3. n \in Nat /\ \E src, off, H : Reads(out, l, 1, q, src, off) /\ Takes(out, l, 1, q, src, off, H, n)
  BY <1>2, ReplaceAllReads, Zenon
<1> HIDE DEF q, n, raw
<1>4. PICK src, off, H : Reads(out, l, 1, q, src, off) /\ Takes(out, l, 1, q, src, off, H, n)
  BY <1>3
<1>5. q \in Seq(Elements) /\ Len(q) \in Nat
  BY <1>4, LenProperties DEF Reads
<1>6. repl' \ todo' = (repl \ todo) \cup {l}
  BY <1>1, <1>2 DEF IInv, TypeInv
<1>7. /\ \A k \in 1 .. Len(out) :
           /\ out[k].pos \in 1 .. Len(raw)
           /\ IF Marked(out[k]) THEN out[k].old \in repl \ todo ELSE out[k].sym = raw[out[k].pos]
      /\ Ordered(out)
  BY DEF IInv, OutInv, raw
<1>8. ASSUME NEW i \in 1 .. Len(q)
      PROVE  /\ q[i].pos \in 1 .. Len(raw)
             /\ IF Marked(q[i]) THEN q[i].old \in repl' \ todo' ELSE q[i].sym = raw[q[i].pos]
  <2>1. /\ src[i] \in 1 .. Len(out) /\ off[i] \in Nat /\ q[i].pos = out[src[i]].pos
        /\ off[i] = 0 => q[i] = out[src[i]]
        /\ off[i] > 0 => Marked(q[i]) /\ q[i].old = l
    BY <1>2, <1>4, ReadIs
  <2>2. CASE off[i] = 0
    BY <1>6, <1>7, <2>1, <2>2
  <2>3. CASE off[i] > 0
    BY <1>6, <1>7, <2>1, <2>3
  <2> QED
    BY <2>1, <2>2, <2>3
<1>9. OutInv'
  <2>1. Ordered(q)
    BY <1>2, <1>4, <1>7, StillOrdered
  <2> QED
    BY <1>1, <1>8, <2>1 DEF OutInv, raw
<1>10. TypeInv'
  BY <1>1, <1>2, <1>3, <1>5 DEF IInv, TypeInv
<1>11. CountInv'
  <2>1. (\E i \in 1 .. Len(q) : Marked(q[i])) <=> n > 0 \/ \E k \in 1 .. Len(out) : Marked(out[k])
    BY <1>2, <1>3, <1>4, MarkedStill
  <2>2. count > 0 <=> \E k \in 1 .. Len(out) : Marked(out[k])
    BY DEF IInv, CountInv
  <2>3. count + n > 0 <=> count > 0 \/ n > 0
    BY <1>2, <1>3
  <2> QED
    BY <1>1, <2>1, <2>2, <2>3 DEF CountInv
<1>12. ASSUME NoMarkerMet
       PROVE  /\ Covers(raw, q) /\ Runs(q) /\ count' = Cardinality(Markers(q))
              /\ \A w \in repl' \ todo' : ~Occurs(w, Symbols(q))
  <2>1. /\ Covers(raw, out) /\ Runs(out) /\ count = Cardinality(Markers(out))
        /\ \A w \in repl \ todo : ~Occurs(w, Symbols(out))
    BY <1>12 DEF IInv, UnmetInv, raw
  <2>2. \A w, o \in repl : ~Meets(w, Marker[o])
    BY <1>12 DEF NoMarkerMet
  <2>3. Clean(out, l)
    <3>1. \A x \in 1 .. Len(out) : Marked(out[x]) => ~Meets(l, Marker[out[x].old])
      BY <1>2, <1>7, <2>2
    <3> QED
      BY <1>2, <2>1, <3>1, Unmet
  <2>4. Covers(raw, q) /\ Runs(q)
    BY <1>2, <1>4, <2>1, <2>3, StillCovers, StillRuns
  <2>5. count' = Cardinality(Markers(q))
    <3>1. Cardinality(Markers(q)) = Cardinality(Markers(out)) + n
      BY <1>2, <1>3, <1>4, <1>7, <2>3, StillCounted
    <3> QED
      BY <1>1, <2>1, <3>1
  <2>6. ASSUME NEW w \in repl' \ todo' PROVE ~Occurs(w, Symbols(q))
    <3>1. w \in repl /\ w \in Literals /\ (w # l => ~Occurs(w, Symbols(out)))
      BY <1>1, <1>2, <1>6, <2>1
    <3>2. \A x \in 1 .. Len(q) : Marked(q[x]) => ~Meets(w, Marker[q[x].old])
      BY <1>1, <1>8, <2>2, <3>1
    <3>3. Clean(q, w)
      BY <1>5, <2>4, <3>1, <3>2, Unmet
    <3> QED
      BY <1>2, <1>4, <3>1, <3>3, OccursNoMore
  <2> QED
    BY <2>4, <2>5, <2>6
<1>13. UnmetInv'
  <2>1. NoMarkerMet' => NoMarkerMet
    BY <1>1 DEF NoMarkerMet
  <2> QED
    BY <1>1, <1>12, <2>1 DEF UnmetInv, raw
<1> QED
  BY <1>9, <1>10, <1>11, <1>13 DEF IInv

\* What goes upstream are bytes of the request in their order and markers of
\* visited literals, and where no literal can match a marker the markers are whole,
\* as many as were counted, and none of the visited literals is left.
THEOREM InvariantInductive == Spec => []IInv
<1>1. Init => IInv
  BY InitIInv
<1>2. IInv /\ [Next]_vars => IInv'
  <2> SUFFICES ASSUME IInv, [Next]_vars PROVE IInv'
    OBVIOUS
  <2>1. CASE Collect
    BY <2>1, CollectIInv
  <2>2. ASSUME NEW l \in todo, Replace(l) PROVE IInv'
    BY <2>2, ReplaceIInv
  <2>3. CASE Return
    BY <2>3 DEF Return, IInv, TypeInv, OutInv, CountInv, UnmetInv, NoMarkerMet
  <2>4. CASE UNCHANGED vars
    BY <2>4 DEF vars, IInv, TypeInv, OutInv, CountInv, UnmetInv, NoMarkerMet
  <2> QED
    BY <2>1, <2>2, <2>3, <2>4 DEF Next
<1> QED
  BY <1>1, <1>2, PTL DEF Spec

\* The variables of handleBody keep their types, and no literal is still to be
\* visited before there are any or after handleBody has returned.
THEOREM TypeCorrect == Spec => []TypeInv
<1>1. IInv => TypeInv
  BY DEF IInv
<1> QED
  BY <1>1, InvariantInductive, PTL

-----------------------------------------------------------------------------
(* The properties                                                          *)

\* Unless a literal can match a marker, no collected literal goes upstream anywhere
\* in the bytes, in whichever order the map was iterated.
THEOREM AlwaysFoundIsGone == Spec => []FoundIsGone
<1>1. IInv => FoundIsGone
  BY DEF IInv, TypeInv, UnmetInv, FoundIsGone
<1> QED
  BY <1>1, InvariantInductive, PTL

\* The status is "full" exactly when the bytes hold a marker, whatever the literals
\* match; unless they can match one, the count is the number of markers.
THEOREM AlwaysCountsMarkers == Spec => []CountsMarkers
<1>1. IInv => CountsMarkers
  <2> SUFFICES ASSUME IInv PROVE CountsMarkers
    OBVIOUS
  <2>1. DOMAIN out = 1 .. Len(out)
    BY LenProperties DEF IInv, TypeInv
  <2> QED
    BY <2>1 DEF IInv, CountInv, UnmetInv, CountsMarkers
<1> QED
  BY <1>1, InvariantInductive, PTL

\* What is no marker are bytes of the request in their order; unless a literal can
\* match a marker, with every marker turned back it is the request.
THEOREM AlwaysRestorable == Spec => []Restorable
<1>1. IInv => Restorable
  <2> SUFFICES ASSUME IInv PROVE Restorable
    OBVIOUS
  <2>1. /\ body \in Bodies /\ Raw(body) \in Seq(Sym) /\ out \in Seq(Elements)
        /\ Len(out) \in Nat /\ DOMAIN out = 1 .. Len(out)
        /\ DOMAIN Raw(body) = 1 .. Len(Raw(body))
    BY RawType, LenProperties DEF IInv, TypeInv
  <2>2. ASSUME NEW k \in DOMAIN out
        PROVE  /\ out[k].pos \in DOMAIN Raw(body)
               /\ IF Marked(out[k]) THEN out[k].old \in repl \ todo ELSE out[k].sym = Raw(body)[out[k].pos]
               /\ \A j \in 1 .. k - 1 : ~Marked(out[j]) \/ ~Marked(out[k]) => out[j].pos < out[k].pos
    <3>1. /\ out[k].pos \in DOMAIN Raw(body)
          /\ IF Marked(out[k]) THEN out[k].old \in repl \ todo ELSE out[k].sym = Raw(body)[out[k].pos]
      BY <2>1 DEF IInv, OutInv
    <3>2. ASSUME NEW j \in 1 .. k - 1, ~Marked(out[j]) \/ ~Marked(out[k]) PROVE out[j].pos < out[k].pos
      <4>1. j \in 1 .. Len(out) /\ k \in 1 .. Len(out) /\ j < k
        BY <2>1
      <4> QED
        BY <3>2, <4>1 DEF IInv, OutInv, Ordered
    <3> QED
      BY <3>1, <3>2
  <2>3. NoMarkerMet => Concat([k \in DOMAIN out |-> Expanded(out[k])], Len(out)) = Raw(body)
    BY <2>1, ExpandsToRequest DEF IInv, UnmetInv
  <2> QED
    BY <2>2, <2>3 DEF Restorable, Expanded
<1> QED
  BY <1>1, InvariantInductive, PTL

\* What the bytes have lost was a literal's, where no literal can match a marker.
LEMMA GoneIs ==
  ASSUME IInv, NoMarkerMet, NEW x \in Gone
  PROVE  \E l \in repl, k \in 1 .. Len(Raw(body)) : At(l, Raw(body), k) /\ x \in k .. k + Len(l) - 1
<1> DEFINE raw == Raw(body)
<1>1. /\ raw \in Seq(Sym) /\ Len(raw) \in Nat /\ DOMAIN raw = 1 .. Len(raw)
      /\ out \in Seq(Elements) /\ Covers(raw, out) /\ DOMAIN out = 1 .. Len(out)
  BY RawType, LenProperties DEF IInv, TypeInv, UnmetInv
<1>2. x \in 1 .. Len(raw) /\ \A k \in 1 .. Len(out) : ~Marked(out[k]) => out[k].pos # x
  BY <1>1 DEF Gone, Kept
<1> HIDE DEF raw
<1>3. PICK k \in 1 .. Len(out) : out[k].pos <= x /\ x < out[k].pos + Width(out[k])
  BY <1>1, <1>2, Covering
<1>4. out[k] \in Elements /\ out[k].pos \in Nat /\ out[k].pos \in 1 .. Len(raw) /\ Width(out[k]) \in Nat
  BY <1>1, ElementOfSeq, ElementIs, WidthIs DEF Covers
<1>5. Marked(out[k])
  <2> SUFFICES ASSUME ~Marked(out[k]) PROVE FALSE
    OBVIOUS
  <2>1. Width(out[k]) = 1
    BY <1>4, WidthIs
  <2>2. out[k].pos = x
    BY <1>2, <1>3, <1>4, <2>1
  <2> QED
    BY <1>2, <2>2
<1>6. Width(out[k]) = Len(out[k].old)
  <2>1. Width(out[k]) # 0
    BY <1>2, <1>3, <1>4
  <2> QED
    BY <1>4, <1>5, <2>1, WidthIs
<1>7. out[k].old \in repl /\ At(out[k].old, raw, out[k].pos)
  BY <1>1, <1>5 DEF IInv, OutInv, Covers
<1>8. x \in out[k].pos .. out[k].pos + Len(out[k].old) - 1
  BY <1>2, <1>3, <1>4, <1>6
<1> QED
  BY <1>4, <1>7, <1>8 DEF raw

\* Unless a literal can match a marker, a byte is only lost where a literal stands
\* that stands in a content string too.
THEOREM AlwaysStructureKept == Spec => []StructureKept
<1>1. IInv => StructureKept
  <2> SUFFICES ASSUME IInv, NoMarkerMet, NEW x \in Gone
               PROVE  \E l \in repl :
                        /\ \E i \in DOMAIN body.fields :
                             body.fields[i].kind = "content" /\ Occurs(l, body.fields[i].text)
                        /\ \E k \in DOMAIN Raw(body) : At(l, Raw(body), k) /\ x \in k .. k + Len(l) - 1
    BY DEF StructureKept
  <2>1. body \in Bodies /\ DOMAIN Raw(body) = 1 .. Len(Raw(body)) /\ repl \subseteq Findable(body)
    BY RawType, LenProperties DEF IInv, TypeInv
  <2>2. PICK l \in repl : \E k \in 1 .. Len(Raw(body)) : At(l, Raw(body), k) /\ x \in k .. k + Len(l) - 1
    BY GoneIs
  <2>3. \E i \in DOMAIN body.fields : body.fields[i].kind = "content" /\ Occurs(l, body.fields[i].text)
    BY <2>1, FindableIs
  <2> QED
    BY <2>1, <2>2, <2>3
<1> QED
  BY <1>1, InvariantInductive, PTL

\* A literal of the request that no marker reaches into still stands in the bytes.
LEMMA UntouchedIsThere ==
  ASSUME NEW raw \in Seq(Sym), NEW bytes \in Seq(Elements), Covers(raw, bytes),
         NEW l \in Literals, NEW p \in 1 .. Len(raw), At(l, raw, p),
         \A k \in 1 .. Len(bytes) : Marked(bytes[k]) =>
           bytes[k].pos + Len(bytes[k].old) <= p \/ p + Len(l) <= bytes[k].pos
  PROVE  \E c \in 1 .. Len(bytes) : Hit(bytes, l, c)
<1>0. /\ Len(raw) \in Nat /\ Len(bytes) \in Nat
      /\ Len(l) \in Nat \ {0} /\ DOMAIN l = 1 .. Len(l)
      /\ p + Len(l) - 1 <= Len(raw)
      /\ \A j \in 1 .. Len(l) : raw[p + j - 1] = l[j]
  BY CoversIs, LiteralIs DEF At
\* Whatever element reaches into the literal is a byte.
<1>1. ASSUME NEW k \in 1 .. Len(bytes), bytes[k].pos < p + Len(l),
             p < bytes[k].pos + Width(bytes[k])
      PROVE  ~Marked(bytes[k]) /\ Width(bytes[k]) = 1
  <2>1. bytes[k].pos \in Nat /\ Width(bytes[k]) \in Nat
    BY ElementIs, CoversIs
  <2>2. ~Marked(bytes[k])
    <3> SUFFICES ASSUME Marked(bytes[k]) PROVE FALSE
      OBVIOUS
    <3>1. Len(bytes[k].old) \in Nat /\ Width(bytes[k]) \in {0, Len(bytes[k].old)}
      BY CoversIs, ElementIs, LiteralIs DEF Width
    <3>2. bytes[k].pos + Len(bytes[k].old) <= p \/ p + Len(l) <= bytes[k].pos
      OBVIOUS
    <3> QED
      BY <1>0, <1>1, <2>1, <3>1, <3>2
  <2> QED
    BY <2>2 DEF Width
<1>2. PICK c \in 1 .. Len(bytes) : bytes[c].pos <= p /\ p < bytes[c].pos + Width(bytes[c])
  BY Covering
<1>3. ~Marked(bytes[c]) /\ bytes[c].pos = p
  <2>1. bytes[c].pos \in Nat /\ Width(bytes[c]) \in Nat
    BY ElementIs, CoversIs
  <2>2. bytes[c].pos < p + Len(l)
    BY <1>0, <1>2, <2>1
  <2>3. ~Marked(bytes[c]) /\ Width(bytes[c]) = 1
    BY <1>1, <1>2, <2>2
  <2> QED
    BY <1>2, <2>1, <2>3
<1> DEFINE There(j) == c + j \in 1 .. Len(bytes) /\ bytes[c + j].pos = p + j /\ ~Marked(bytes[c + j])
           S == {j \in Nat : j < Len(l) => There(j)}
<1>4. 0 \in S
  <2>1. c + 0 = c /\ p + 0 = p
    OBVIOUS
  <2> QED
    BY <1>3, <2>1
<1>5. ASSUME NEW j \in Nat, j \in S PROVE j + 1 \in S
  <2>1. CASE j + 1 < Len(l)
    <3> DEFINE k == c + j
    <3>1. k \in 1 .. Len(bytes) /\ bytes[k].pos = p + j /\ ~Marked(bytes[k])
      BY <1>0, <1>5, <2>1
    <3>2. k + 1 = c + (j + 1)
      OBVIOUS
    <3> HIDE DEF k
    <3>3. PosOf(raw, bytes, k + 1) = p + j + 1 /\ p + j + 1 <= Len(raw)
      BY <1>0, <2>1, <3>1, CoversIs DEF Width
    <3>4. k + 1 \in 1 .. Len(bytes) /\ bytes[k + 1].pos = p + (j + 1)
      BY <1>0, <3>1, <3>3 DEF PosOf
    <3>5. Width(bytes[k + 1]) \in Nat
      BY <3>4, CoversIs
    <3>6. bytes[k + 1].pos < p + Len(l) /\ p < bytes[k + 1].pos + Width(bytes[k + 1])
      BY <1>0, <2>1, <3>4, <3>5
    <3>7. ~Marked(bytes[k + 1])
      BY <1>1, <3>4, <3>6
    <3> QED
      BY <3>2, <3>4, <3>7
  <2> QED
    BY <2>1
<1> HIDE DEF S
<1>6. \A j \in Nat : j \in S
  BY <1>4, <1>5, Induction
<1>7. ASSUME NEW j \in 1 .. Len(l)
      PROVE  c + j - 1 \in 1 .. Len(bytes) /\ bytes[c + j - 1].sym = l[j]
  <2>1. j - 1 \in Nat /\ j - 1 < Len(l) /\ c + (j - 1) = c + j - 1 /\ p + (j - 1) = p + j - 1
    BY <1>0
  <2>2. There(j - 1)
    BY <1>6, <2>1 DEF S
  <2>3. /\ c + j - 1 \in 1 .. Len(bytes) /\ bytes[c + j - 1].pos = p + j - 1
        /\ ~Marked(bytes[c + j - 1])
    BY <2>1, <2>2
  <2>4. raw[bytes[c + j - 1].pos] = bytes[c + j - 1].sym
    BY <2>3 DEF Covers
  <2> QED
    BY <1>0, <2>3, <2>4
<1>8. c + Len(l) - 1 <= Len(bytes)
  <2>1. Len(l) \in 1 .. Len(l)
    BY <1>0
  <2>2. c + Len(l) - 1 \in 1 .. Len(bytes)
    BY <1>7, <2>1
  <2> QED
    BY <1>0, <2>2
<1>9. Hit(bytes, l, c)
  BY <1>0, <1>7, <1>8, SymbolsOf DEF Hit, At
<1> QED
  BY <1>9

\* When the occurrences lie apart and no literal can match a marker, exactly their
\* bytes are replaced: an occurrence that lost a byte to no marker would be there.
THEOREM AlwaysExactWhenApart == Spec => []ExactWhenApart
<1>1. IInv => ExactWhenApart
  <2> SUFFICES ASSUME IInv, pc = "done", Apart, NoMarkerMet PROVE Gone = Covered
    BY DEF ExactWhenApart
  <2> DEFINE raw == Raw(body)
  <2>1. /\ body \in Bodies /\ raw \in Seq(Sym) /\ Len(raw) \in Nat /\ DOMAIN raw = 1 .. Len(raw)
        /\ out \in Seq(Elements) /\ Covers(raw, out) /\ Runs(out)
        /\ Len(out) \in Nat /\ DOMAIN out = 1 .. Len(out)
        /\ todo = {} /\ repl \subseteq Literals
    BY RawType, LenProperties, FindableIs DEF IInv, TypeInv, UnmetInv
  <2>2. /\ \A l, m \in repl : \A k, n \in 1 .. Len(raw) :
             At(l, raw, k) /\ At(m, raw, n) /\ <<l, k>> # <<m, n>> =>
               k + Len(l) <= n \/ n + Len(m) <= k
        /\ \A l \in repl : ~Occurs(l, Symbols(out))
        /\ \A k \in 1 .. Len(out) : Marked(out[k]) => out[k].old \in repl
    BY <2>1 DEF Apart, IInv, UnmetInv, OutInv
  <2>3. ASSUME NEW k \in 1 .. Len(out)
        PROVE  /\ out[k] \in Elements /\ out[k].pos \in 1 .. Len(raw)
               /\ Marked(out[k]) => At(out[k].old, raw, out[k].pos)
    BY <2>1, CoversIs DEF Covers
  <2>4. Gone = {x \in 1 .. Len(raw) : \A k \in 1 .. Len(out) : ~Marked(out[k]) => out[k].pos # x}
    BY <2>1 DEF Gone, Kept
  <2>5. Covered = {x \in 1 .. Len(raw) : \E l \in repl, k \in 1 .. Len(raw) :
                                           At(l, raw, k) /\ x \in k .. k + Len(l) - 1}
    BY <2>1 DEF Covered
  <2>6. ASSUME NEW x \in Gone PROVE x \in Covered
    BY <2>4, <2>5, GoneIs
  <2> HIDE DEF raw
  <2>7. ASSUME NEW x \in Covered PROVE x \in Gone
    <3> SUFFICES ASSUME x \notin Gone PROVE FALSE
      OBVIOUS
    <3>1. PICK l \in repl, p \in 1 .. Len(raw) : At(l, raw, p) /\ x \in p .. p + Len(l) - 1
      BY <2>5
    <3>2. PICK m \in 1 .. Len(out) : ~Marked(out[m]) /\ out[m].pos = x
      BY <2>4, <2>5
    <3>3. l \in Literals /\ Len(l) \in Nat \ {0} /\ x \in Nat /\ Width(out[m]) = 1
      BY <2>1, <2>5, <3>2, LiteralIs DEF Width
    <3>4. ASSUME NEW k \in 1 .. Len(out), Marked(out[k])
          PROVE  out[k].pos + Len(out[k].old) <= p \/ p + Len(l) <= out[k].pos
      <4>1. /\ out[k].old \in repl /\ At(out[k].old, raw, out[k].pos) /\ out[k].pos \in 1 .. Len(raw)
        BY <2>2, <2>3, <3>4
      <4>2. CASE <<out[k].old, out[k].pos>> # <<l, p>>
        BY <2>2, <3>1, <4>1, <4>2
      \* The last byte of that marker stands for all bytes of the occurrence.
      <4>3. CASE out[k].old = l /\ out[k].pos = p
        <5>1. PICK z \in 1 .. Len(out) : /\ out[z].pos = p /\ out[z].old = l
                                         /\ Marked(out[z]) /\ Width(out[z]) = Len(l)
          <6> DEFINE d == Len(Marker[l]) - out[k].at
          <6>1. out[k].at \in 1 .. Len(Marker[l]) /\ Len(Marker[l]) \in Nat
            BY <2>3, <3>3, <3>4, <4>3, ElementIs, LiteralIs
          <6>2. d \in Nat /\ out[k].at + d = Len(Marker[l])
            BY <6>1
          <6> HIDE DEF d
          <6>3. /\ k + d \in 1 .. Len(out) /\ out[k + d].at = out[k].at + d
                /\ out[k + d].old = l /\ out[k + d].pos = p
            <7>1. \A i \in Nat : out[k].at + i <= Len(Marker[out[k].old]) =>
                    /\ k + i \in 1 .. Len(out) /\ out[k + i].at = out[k].at + i
                    /\ out[k + i].old = out[k].old /\ out[k + i].pos = out[k].pos
              BY <2>1, <3>4, RunIs
            <7>2. out[k].at + d <= Len(Marker[out[k].old])
              BY <4>3, <6>1, <6>2
            <7> QED
              BY <4>3, <6>2, <7>1, <7>2
          <6>4. Marked(out[k + d]) /\ Width(out[k + d]) = Len(l)
            BY <6>1, <6>2, <6>3 DEF Marked, Width
          <6> QED
            BY <6>3, <6>4
        <5>2. CASE z < m
          <6>1. out[z].pos + Width(out[z]) <= out[m].pos
            BY <2>1, <5>2, InOrder
          <6> QED
            BY <3>1, <3>2, <3>3, <5>1, <6>1
        <5>3. CASE m < z
          <6>1. out[m].pos + Width(out[m]) <= out[z].pos
            BY <2>1, <5>3, InOrder
          <6> QED
            BY <3>1, <3>2, <3>3, <5>1, <6>1
        <5>4. z # m
          BY <3>2, <5>1
        <5> QED
          BY <2>1, <5>2, <5>3, <5>4
      <4> QED
        BY <4>2, <4>3
    <3>5. PICK c \in 1 .. Len(out) : Hit(out, l, c)
      BY <2>1, <3>1, <3>3, <3>4, UntouchedIsThere
    <3>6. Occurs(l, Symbols(out))
      BY <2>1, <3>5 DEF Occurs, Hit, Symbols
    <3> QED
      BY <2>2, <3>6
  <2> QED
    BY <2>4, <2>5, <2>6, <2>7
<1> QED
  BY <1>1, InvariantInductive, PTL

===============================================================================
