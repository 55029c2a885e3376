----------------------------- MODULE FileScanProofs -----------------------------
(***************************************************************************)
(* Proofs about FileScan, for any files, links, walks, texts, terminals    *)
(* and enabled faults.                                                     *)
(***************************************************************************)
EXTENDS FileScan, SequenceTheorems, FiniteSetTheorems, TLAPS

-----------------------------------------------------------------------------
(* Texts                                                                   *)

\* Redacting a text changes its passages one by one.
LEMMA RedactedText ==
  ASSUME NEW text \in Seq(Passages)
  PROVE  /\ Redact(text) \in Seq(Passages)
         /\ Len(Redact(text)) = Len(text)
         /\ \A i \in 1 .. Len(text) : Redact(text)[i] = Replaced(text[i])
<1>1. Len(text) \in Nat /\ DOMAIN text = 1 .. Len(text) /\ \A i \in 1 .. Len(text) : text[i] \in Passages
  BY LenProperties, ElementOfSeq
<1>2. \A x \in Passages : Replaced(x) \in Passages
  BY DEF Replaced, Found, Passages
<1> DEFINE new == [i \in 1 .. Len(text) |-> Replaced(text[i])]
<1>3. Redact(text) = new
  BY <1>1 DEF Redact
<1>4. new \in [1 .. Len(text) -> Passages]
  BY <1>1, <1>2
<1>5. new \in Seq(Passages)
  BY <1>1, <1>4, SeqDef
<1>6. DOMAIN new = 1 .. Len(text)
  OBVIOUS
<1> HIDE DEF new
<1>7. DOMAIN new = 1 .. Len(new) /\ Len(new) \in Nat
  BY <1>5, LenProperties
<1>8. Len(new) = Len(text)
  BY <1>1, <1>6, <1>7
<1>9. \A i \in 1 .. Len(text) : new[i] = Replaced(text[i])
  BY DEF new
<1> QED BY <1>3, <1>5, <1>8, <1>9

\* No secret is left in a redacted text, which is as little binary as the text.
LEMMA RedactedIsClean ==
  ASSUME NEW text \in Seq(Passages)
  PROVE  /\ \A i \in DOMAIN Redact(text) : ~Raw(Redact(text)[i])
         /\ text # <<>> => Redact(text) # <<>>
         /\ ~LooksBinary(text) => ~LooksBinary(Redact(text))
<1>1. /\ Len(text) \in Nat
      /\ text # <<>> => Len(text) # 0
      /\ \A i \in 1 .. Len(text) : text[i] \in Passages
      /\ DOMAIN Redact(text) = 1 .. Len(text)
      /\ Redact(text) # <<>> => Len(text) # 0
  BY LenProperties, ElementOfSeq, RedactedText, EmptySeq
<1>2. \A x \in Passages : ~Raw(Replaced(x)) /\ (Replaced(x) = "nul" => x = "nul")
  BY DEF Replaced, Raw, Found, Passages
<1>3. \A i \in DOMAIN Redact(text) : ~Raw(Redact(text)[i])
  BY <1>1, <1>2, RedactedText
<1>4. text # <<>> => Redact(text) # <<>>
  BY <1>1, RedactedText, EmptySeq
<1>5. ASSUME LooksBinary(Redact(text)) PROVE LooksBinary(text)
  <2>1. Len(text) # 0 /\ 1 \in 1 .. Len(text) /\ text # <<>>
    BY <1>1, <1>5, EmptySeq DEF LooksBinary
  <2>2. Redact(text)[1] = Replaced(text[1]) /\ text[1] \in Passages
    BY <1>1, <2>1, RedactedText
  <2> QED BY <1>2, <1>5, <2>1, <2>2 DEF LooksBinary
<1> QED BY <1>3, <1>4, <1>5

\* A third redaction changes nothing.
LEMMA RedactedTwice ==
  ASSUME NEW text \in Seq(Passages)
  PROVE  Redact(Redact(Redact(text))) = Redact(Redact(text))
<1> DEFINE once  == Redact(text)
           twice == Redact(once)
           more  == Redact(twice)
<1>1. once \in Seq(Passages) /\ Len(once) = Len(text)
  BY RedactedText
<1>2. twice \in Seq(Passages) /\ Len(twice) = Len(text)
  BY <1>1, RedactedText
<1>3. more \in Seq(Passages) /\ Len(more) = Len(text)
  BY <1>2, RedactedText
<1>4. \A i \in 1 .. Len(text) :
        text[i] \in Passages /\ once[i] = Replaced(text[i]) /\ twice[i] = Replaced(once[i]) /\ more[i] = Replaced(twice[i])
  BY <1>1, <1>2, RedactedText, ElementOfSeq
<1>5. \A x \in Passages : Replaced(Replaced(Replaced(x))) = Replaced(Replaced(x))
  BY DEF Replaced, Found, Passages
<1>6. \A i \in 1 .. Len(text) : more[i] = twice[i]
  BY <1>4, <1>5
<1> HIDE DEF once, twice, more
<1>7. more = twice
  BY <1>2, <1>3, <1>6, SeqEqual
<1> QED BY <1>7 DEF once, twice, more

\* The findings of a text can be counted.
LEMMA FindingsCount ==
  ASSUME NEW text \in Seq(Passages)
  PROVE  /\ Cardinality(Findings(text)) \in Nat
         /\ Findings(text) # {} => Cardinality(Findings(text)) # 0
<1>1. Findings(text) \subseteq 1 .. Len(text) /\ Len(text) \in Nat
  BY LenProperties DEF Findings
<1>2. IsFiniteSet(1 .. Len(text))
  BY <1>1, FS_Interval
<1>3. IsFiniteSet(Findings(text))
  BY <1>1, <1>2, FS_Subset
<1> QED BY <1>3, FS_CardinalityType, FS_EmptySet

\* What a write may leave.
LEMMA WrittenText ==
  ASSUME NEW text \in Seq(Passages), NEW current \in Seq(Passages) \cup {Absent},
         NEW new \in Written(text, current)
  PROVE  /\ new \in Seq(Passages) \cup {Absent}
         /\ \/ new = text
            \/ new = current
            \/ /\ current # Absent
               /\ \E i \in 1 .. Len(current) :
                    /\ new # Absent
                    /\ Len(new) = Len(text) + 1
                    /\ \A j \in 1 .. Len(text) : new[j] = text[j]
                    /\ new[Len(text) + 1] = current[i]
<1>1. CASE new = text \/ new = current
  BY <1>1
<1>2. CASE new \notin {text, current}
  <2>1. current # Absent /\ current \in Seq(Passages)
    BY <1>2 DEF Written
  <2>2. PICK i \in DOMAIN current : new = Append(text, current[i])
    BY <1>2, <2>1 DEF Written
  <2>3. i \in 1 .. Len(current) /\ current[i] \in Passages
    BY <2>1, <2>2, LenProperties, ElementOfSeq
  <2>4. /\ new \in Seq(Passages)
        /\ Len(new) = Len(text) + 1
        /\ \A j \in 1 .. Len(text) : new[j] = text[j]
        /\ new[Len(text) + 1] = current[i]
    BY <2>2, <2>3, AppendProperties
  <2>5. new # Absent
    BY <2>4, FileScanAssumption
  <2> QED BY <2>1, <2>3, <2>4, <2>5
<1> QED BY <1>1, <1>2

\* What a failed write may leave.
LEMMA PartOfText ==
  ASSUME NEW text \in Seq(Passages), NEW n \in 0 .. Len(text) - 1
  PROVE  /\ SubSeq(text, 1, n) \in Seq(Passages)
         /\ Len(SubSeq(text, 1, n)) = n
         /\ \A i \in 1 .. n : SubSeq(text, 1, n)[i] = text[i]
<1>1. Len(text) \in Nat
  BY LenProperties
<1>2. n \in Nat /\ n <= Len(text) /\ n \in 1 - 1 .. Len(text) /\ 1 \in 1 .. Len(text) + 1
  BY <1>1
<1>3. SubSeq(text, 1, n) \in Seq(Passages)
  BY <1>1, <1>2, SubSeqProperties
<1>4. Len(SubSeq(text, 1, n)) = n
  BY <1>1, <1>2, SubSeqProperties
<1>5. \A i \in 1 .. n : SubSeq(text, 1, n)[i] = text[1 + i - 1]
  BY <1>1, <1>2, <1>4, SubSeqProperties
<1>6. \A i \in 1 .. n : 1 + i - 1 = i
  BY <1>2
<1> QED BY <1>3, <1>4, <1>5, <1>6

-----------------------------------------------------------------------------
(* Types                                                                   *)

Busy(t) == pc[t] \in {"trunc", "write"}

\* A file is being redacted because it was read, held a finding and did not look
\* binary.
BusyInv ==
  \A t \in Terminals :
    /\ Busy(t) => mode[t] = "redact" /\ todo[t] # <<>> /\ mem[t] # <<>> /\ ~LooksBinary(mem[t])
    /\ pc[t] = "idle" => mode[t] = "report"

TypeInv == TypeOK /\ BusyInv

\* The path a command is at.
LEMMA HeadPath ==
  ASSUME TypeOK, NEW t \in Terminals, todo[t] # <<>>
  PROVE  /\ Head(todo[t]) \in Paths
         /\ Tail(todo[t]) \in Seq(Paths)
         /\ At(t) \in Files
<1>1. todo[t] \in Seq(Paths)
  BY DEF TypeOK
<1>2. Head(todo[t]) \in Paths /\ Tail(todo[t]) \in Seq(Paths)
  BY <1>1, HeadTailProperties
<1> QED BY <1>2, FileScanAssumption DEF At

\* Every step keeps the types.
THEOREM TypesInductive == TypeInv /\ [Next]_vars => TypeInv'
<1> SUFFICES ASSUME TypeInv, [Next]_vars
             PROVE  TypeInv'
  OBVIOUS
<1> USE DEF command, vars, Note, NoteIfRedacting, Goto, NextPath, Walks,
            Counted, Exits, TypeInv, TypeOK, BusyInv, Busy
<1>1. ASSUME NEW t \in Terminals, NEW m \in {"report", "redact"}, Begin(t, m)
      PROVE  TypeInv'
  BY <1>1, FileScanAssumption DEF Begin, FaultKinds
<1>2. ASSUME NEW t \in Terminals, ScanGoesOn(t) PROVE TypeInv'
  BY <1>2, HeadPath DEF ScanGoesOn
<1>3. ASSUME NEW t \in Terminals, ScanReports(t) PROVE TypeInv'
  <2>1. At(t) \in Files /\ Tail(todo[t]) \in Seq(Paths)
    BY <1>3, HeadPath DEF ScanReports
  <2>2. file[At(t)] \in Seq(Passages)
    BY <1>3, <2>1 DEF ScanReports, HasFindings, Readable
  <2>3. Cardinality(Findings(file[At(t)])) \in Nat
    BY <2>2, FindingsCount
  <2> QED BY <1>3, <2>1, <2>3 DEF ScanReports
<1>4. ASSUME NEW t \in Terminals, RedactFileGoesOn(t) PROVE TypeInv'
  BY <1>4, HeadPath DEF RedactFileGoesOn
<1>5. ASSUME NEW t \in Terminals, RedactFileReads(t) PROVE TypeInv'
  <2>1. At(t) \in Files
    BY <1>5, HeadPath DEF RedactFileReads
  <2>2. file[At(t)] \in Seq(Passages) /\ ~LooksBinary(file[At(t)])
    BY <1>5, <2>1 DEF RedactFileReads, HasFindings, Readable
  <2>3. Findings(file[At(t)]) # {}
    BY <1>5 DEF RedactFileReads, HasFindings
  <2>4. file[At(t)] # <<>>
    BY <2>2, <2>3, EmptySeq, LenProperties DEF Findings
  <2>5. seen' \subseteq FaultKinds
    BY <1>5, FileScanAssumption DEF RedactFileReads
  <2> QED BY <1>5, <2>2, <2>4, <2>5 DEF RedactFileReads
<1>6. ASSUME NEW t \in Terminals, ReadFails(t) PROVE TypeInv'
  BY <1>6, HeadPath, FileScanAssumption DEF ReadFails
<1>7. ASSUME NEW t \in Terminals, Truncate(t) PROVE TypeInv'
  <2>1. At(t) \in Files /\ <<>> \in Seq(Passages)
    BY <1>7, HeadPath, EmptySeq DEF Truncate
  <2> QED BY <1>7, <2>1 DEF Truncate
<1>8. ASSUME NEW t \in Terminals, Write(t) PROVE TypeInv'
  <2>1. todo[t] # <<>> /\ At(t) \in Files /\ Tail(todo[t]) \in Seq(Paths)
    BY <1>8, HeadPath DEF Write
  <2>2. Cardinality(Findings(mem[t])) \in Nat
    BY FindingsCount
  <2>3. Redact(mem[t]) \in Seq(Passages) /\ <<>> \in Seq(Passages)
    BY RedactedText, EmptySeq
  <2>4. file' \in [Files -> Seq(Passages) \cup {Absent}]
    <3>1. file[At(t)] \in Seq(Passages) \cup {Absent}
      BY <2>1
    <3>2. \A new \in Written(Redact(mem[t]), file[At(t)]) : new \in Seq(Passages) \cup {Absent}
      BY <2>3, <3>1, WrittenText
    <3> QED BY <1>8, <2>1, <3>2 DEF Write
  <2> QED BY <1>8, <2>1, <2>2, <2>3, <2>4 DEF Write
<1>9. ASSUME NEW t \in Terminals, WriteFails(t) PROVE TypeInv'
  <2>1. todo[t] # <<>> /\ At(t) \in Files /\ Tail(todo[t]) \in Seq(Paths)
    BY <1>9, HeadPath DEF WriteFails
  <2>2. Cardinality(Findings(mem[t])) \in Nat
    BY FindingsCount
  <2>3. Redact(mem[t]) \in Seq(Passages) /\ <<>> \in Seq(Passages)
    BY RedactedText, EmptySeq
  <2>4. file' \in [Files -> Seq(Passages) \cup {Absent}]
    <3>1. Len(Redact(mem[t])) = Len(mem[t])
      BY RedactedText
    <3>2. \A n \in 0 .. Len(mem[t]) - 1 : SubSeq(Redact(mem[t]), 1, n) \in Seq(Passages)
      BY <2>3, <3>1, PartOfText
    <3> QED BY <1>9, <2>1, <3>2 DEF WriteFails
  <2>5. seen' \subseteq FaultKinds
    BY <1>9, FileScanAssumption DEF WriteFails
  <2> QED BY <1>9, <2>1, <2>2, <2>3, <2>4, <2>5 DEF WriteFails
<1>10. ASSUME NEW t \in Terminals, Finish(t) PROVE TypeInv'
  BY <1>10, EmptySeq DEF Finish
<1>11. ASSUME NEW t \in Terminals, Killed(t) PROVE TypeInv'
  BY <1>11, EmptySeq, FileScanAssumption DEF Killed
<1>12. ASSUME NEW f \in Files, NEW text \in Texts \cup {Absent}, Saves(f, text)
      PROVE  TypeInv'
  BY <1>12, FileScanAssumption DEF Saves
<1>13. CASE UNCHANGED vars
  BY <1>13 DEF vars
<1> HIDE DEF TypeInv, TypeOK, BusyInv
<1> QED
  BY <1>1, <1>2, <1>3, <1>4, <1>5, <1>6, <1>7, <1>8, <1>9, <1>10, <1>11,
     <1>12, <1>13 DEF Next

\* The types hold.
LEMMA TypesHold == Spec => []TypeInv
<1>1. Init => TypeInv
  BY FileScanAssumption, EmptySeq DEF Init, TypeInv, TypeOK, BusyInv, Busy
<1> QED
  BY <1>1, TypesInductive, PTL DEF Spec

\* Every variable holds values of the kind the code gives it.
THEOREM TypeCorrect == Spec => []TypeOK
<1>1. TypeInv => TypeOK
  BY DEF TypeInv
<1> QED
  BY <1>1, TypesHold, PTL

-----------------------------------------------------------------------------
(* What a step does to a file                                              *)

\* The kinds of faults that have happened stay so.
LEMMA SeenGrows == [Next]_vars => seen \subseteq seen'
  BY DEF Next, vars, Note, NoteIfRedacting, Begin, ScanGoesOn, ScanReports, RedactFileGoesOn, RedactFileReads,
     ReadFails, Truncate, Write, WriteFails, Finish, Killed, Saves

\* A write leaves a text that holds no secret, or one that was there before.
LEMMA WriteOutcome ==
  ASSUME NEW text \in Seq(Passages), text # <<>>, ~LooksBinary(text),
         NEW current \in Seq(Passages) \cup {Absent},
         NEW new \in Written(Redact(text), current)
  PROVE  /\ current # Absent /\ ~LooksBinary(current) => new # Absent /\ ~LooksBinary(new)
         /\ new # Absent /\ (\E i \in DOMAIN new : Raw(new[i]))
              => current # Absent /\ \E i \in DOMAIN current : Raw(current[i])
<1> DEFINE red == Redact(text)
<1>1. /\ red \in Seq(Passages) /\ red # <<>> /\ ~LooksBinary(red)
      /\ \A i \in DOMAIN red : ~Raw(red[i])
  BY RedactedText, RedactedIsClean
<1>2. red # Absent
  BY <1>1, FileScanAssumption
<1> HIDE DEF red
<1>3. CASE new = red
  BY <1>1, <1>2, <1>3
<1>4. CASE new = current
  BY <1>4
<1>5. CASE new \notin {red, current}
  <2>1. /\ current # Absent /\ new # Absent /\ new \in Seq(Passages) \cup {Absent}
        /\ \E i \in 1 .. Len(current) :
             /\ Len(new) = Len(red) + 1
             /\ \A j \in 1 .. Len(red) : new[j] = red[j]
             /\ new[Len(red) + 1] = current[i]
    BY <1>1, <1>5, WrittenText DEF red
  <2>2. PICK i \in 1 .. Len(current) :
             /\ Len(new) = Len(red) + 1
             /\ \A j \in 1 .. Len(red) : new[j] = red[j]
             /\ new[Len(red) + 1] = current[i]
    BY <2>1
  <2>3. Len(red) \in Nat \ {0} /\ DOMAIN red = 1 .. Len(red)
    BY <1>1, EmptySeq, LenProperties
  <2>4. new \in Seq(Passages) /\ DOMAIN new = 1 .. Len(red) + 1 /\ i \in DOMAIN current
    BY <2>1, <2>2, LenProperties
  <2>5. ~LooksBinary(new)
    <3>1. new[1] = red[1]
      BY <2>2, <2>3
    <3> QED BY <1>1, <3>1 DEF LooksBinary
  <2>6. ASSUME NEW j \in DOMAIN new, Raw(new[j]) PROVE Raw(current[i])
    <3>1. CASE j \in 1 .. Len(red)
      BY <1>1, <2>2, <2>3, <2>6, <3>1
    <3>2. CASE j = Len(red) + 1
      BY <2>2, <2>6, <3>2
    <3> QED BY <2>3, <2>4, <3>1, <3>2
  <2> QED BY <2>1, <2>4, <2>5, <2>6
<1> QED BY <1>3, <1>4, <1>5 DEF red

\* So does a write that fails.
LEMMA FailOutcome ==
  ASSUME NEW text \in Seq(Passages), ~LooksBinary(text), NEW n \in 0 .. Len(text) - 1
  PROVE  LET new == SubSeq(Redact(text), 1, n) IN
           new # Absent /\ ~LooksBinary(new) /\ \A i \in DOMAIN new : ~Raw(new[i])
<1> DEFINE red == Redact(text)
           new == SubSeq(red, 1, n)
<1>1. /\ red \in Seq(Passages) /\ ~LooksBinary(red) /\ Len(red) = Len(text) /\ Len(text) \in Nat
      /\ DOMAIN red = 1 .. Len(red) /\ \A i \in DOMAIN red : ~Raw(red[i])
  BY RedactedText, RedactedIsClean, LenProperties
<1> HIDE DEF red
<1>2. /\ new \in Seq(Passages) /\ Len(new) = n
      /\ \A i \in 1 .. n : new[i] = red[i]
  BY <1>1, PartOfText
<1>3. DOMAIN new = 1 .. n
  BY <1>2, LenProperties
<1>4. new # Absent
  BY <1>2, FileScanAssumption
<1> HIDE DEF new
<1>5. \A i \in DOMAIN new : ~Raw(new[i])
  BY <1>1, <1>2, <1>3
<1>6. ASSUME LooksBinary(new) PROVE FALSE
  <2>1. n # 0
    BY <1>2, <1>6, EmptySeq DEF LooksBinary
  <2>2. 1 \in 1 .. n /\ red # <<>>
    BY <1>1, <2>1, EmptySeq
  <2> QED BY <1>1, <1>2, <1>6, <2>2 DEF LooksBinary
<1> QED BY <1>4, <1>5, <1>6 DEF new, red

\* Unless its user touches it, a file that is being redacted stays a text, and
\* holds no secret once it was truncated.
TextInv ==
  Without({"race"}) =>
    \A t \in Terminals : Busy(t) =>
      /\ file[At(t)] # Absent
      /\ ~LooksBinary(file[At(t)])
      /\ pc[t] = "write" => ~HasRaw(At(t))

\* Whoever has written a file, it holds a secret only if it did before, and it
\* stays a text; its user saves it only while nobody redacts it.
FileOutcome(f) ==
  \/ Redacting(f) = {} /\ \A t \in Terminals : f \notin since'[t]
  \/ /\ HasRaw(f)' => HasRaw(f)
     /\ file[f] # Absent /\ ~LooksBinary(file[f]) => file'[f] # Absent /\ ~LooksBinary(file'[f])

LEMMA FileStep ==
  ASSUME TypeInv, TextInv, [Next]_vars, Without({"race"})', NEW f \in Files
  PROVE  FileOutcome(f)
<1>1. Without({"race"})
  BY SeenGrows DEF Without
<1>2. ASSUME file'[f] = file[f] PROVE FileOutcome(f)
  BY <1>2 DEF FileOutcome, HasRaw
<1>3. ASSUME NEW t \in Terminals, Truncate(t) PROVE FileOutcome(f)
  <2>1. CASE At(t) = f
    <3>1. file'[f] = <<>>
      BY <1>3, <2>1 DEF Truncate, TypeInv, TypeOK
    <3>2. <<>> # Absent /\ ~LooksBinary(<<>>) /\ DOMAIN <<>> = {}
      <4>1. <<>> \in Seq(Passages) /\ DOMAIN <<>> = {}
        BY EmptySeq
      <4> QED BY <4>1, FileScanAssumption DEF LooksBinary
    <3> QED BY <3>1, <3>2 DEF FileOutcome, HasRaw
  <2>2. CASE At(t) # f
    BY <1>2, <1>3, <2>2 DEF Truncate, TypeInv, TypeOK
  <2> QED BY <2>1, <2>2
<1>4. ASSUME NEW t \in Terminals, Write(t) PROVE FileOutcome(f)
  <2>1. CASE At(t) = f
    <3>1. file'[f] \in Written(Redact(mem[t]), file[f])
      BY <1>4, <2>1 DEF Write, TypeInv, TypeOK
    <3>2. mem[t] \in Seq(Passages) /\ mem[t] # <<>> /\ ~LooksBinary(mem[t])
      BY <1>4 DEF Write, TypeInv, TypeOK, BusyInv, Busy
    <3>3. file[f] \in Seq(Passages) \cup {Absent} /\ file[f] # Absent /\ ~LooksBinary(file[f])
      BY <1>1, <1>4, <2>1 DEF Write, TypeInv, TypeOK, TextInv, Busy
    <3>4. /\ file[f] # Absent /\ ~LooksBinary(file[f]) => file'[f] # Absent /\ ~LooksBinary(file'[f])
          /\ file'[f] # Absent /\ (\E i \in DOMAIN file'[f] : Raw(file'[f][i]))
               => file[f] # Absent /\ \E i \in DOMAIN file[f] : Raw(file[f][i])
      BY <3>1, <3>2, <3>3, WriteOutcome
    <3> QED BY <3>3, <3>4 DEF FileOutcome, HasRaw
  <2>2. CASE At(t) # f
    BY <1>2, <1>4, <2>2 DEF Write, TypeInv, TypeOK
  <2> QED BY <2>1, <2>2
<1>5. ASSUME NEW t \in Terminals, WriteFails(t) PROVE FileOutcome(f)
  <2>1. CASE At(t) = f /\ pc[t] = "write"
    <3>1. mem[t] \in Seq(Passages) /\ ~LooksBinary(mem[t])
      BY <2>1 DEF TypeInv, TypeOK, BusyInv, Busy
    <3>2. PICK n \in 0 .. Len(mem[t]) - 1 : file'[f] = SubSeq(Redact(mem[t]), 1, n)
      BY <1>5, <2>1 DEF WriteFails, TypeInv, TypeOK
    <3>3. file'[f] # Absent /\ ~LooksBinary(file'[f]) /\ \A i \in DOMAIN file'[f] : ~Raw(file'[f][i])
      BY <3>1, <3>2, FailOutcome
    <3> QED BY <3>3 DEF FileOutcome, HasRaw
  <2>2. CASE At(t) # f \/ pc[t] = "trunc"
    BY <1>2, <1>5, <2>2 DEF WriteFails, TypeInv, TypeOK
  <2> QED BY <1>5, <2>1, <2>2 DEF WriteFails
<1>6. ASSUME NEW g \in Files, NEW text \in Texts \cup {Absent}, Saves(g, text) PROVE FileOutcome(f)
  <2>1. CASE g = f
    <3>1. Redacting(f) = {}
      BY <1>6, <2>1 DEF Saves, NoteIfRedacting, Note, Without
    <3> QED BY <1>6, <2>1, <3>1 DEF Saves, FileOutcome
  <2>2. CASE g # f
    BY <1>2, <1>6, <2>2 DEF Saves, TypeInv, TypeOK
  <2> QED BY <2>1, <2>2
<1>7. ASSUME UNCHANGED file PROVE FileOutcome(f)
  BY <1>2, <1>7
<1> QED
  BY <1>3, <1>4, <1>5, <1>6, <1>7 DEF Next, vars, Begin, ScanGoesOn, ScanReports, RedactFileGoesOn,
     RedactFileReads, ReadFails, Finish, Killed

\* Who is redacting a file has read it just now, or goes on with it.
LEMMA BusyStep ==
  ASSUME TypeInv, [Next]_vars, NEW u \in Terminals, Busy(u)'
  PROVE  \/ RedactFileReads(u)
         \/ /\ Busy(u) /\ UNCHANGED <<todo[u], mem[u]>>
            /\ UNCHANGED pc[u] \/ Truncate(u)
<1> DEFINE Goal == \/ RedactFileReads(u)
                   \/ /\ Busy(u) /\ UNCHANGED <<todo[u], mem[u]>>
                      /\ UNCHANGED pc[u] \/ Truncate(u)
<1> SUFFICES Goal
  OBVIOUS
<1> USE DEF command, vars, Note, NoteIfRedacting, Goto, NextPath, Walks,
            Counted, Exits, TypeInv, TypeOK, Busy
<1>1. ASSUME NEW t \in Terminals, NEW m \in {"report", "redact"}, Begin(t, m)
      PROVE  Goal
  BY <1>1 DEF Begin
<1>2. ASSUME NEW t \in Terminals, ScanGoesOn(t)
      PROVE  Goal
  BY <1>2 DEF ScanGoesOn
<1>3. ASSUME NEW t \in Terminals, ScanReports(t)
      PROVE  Goal
  BY <1>3 DEF ScanReports
<1>4. ASSUME NEW t \in Terminals, RedactFileGoesOn(t)
      PROVE  Goal
  BY <1>4 DEF RedactFileGoesOn
<1>5. ASSUME NEW t \in Terminals, RedactFileReads(t)
      PROVE  Goal
  BY <1>5 DEF RedactFileReads
<1>6. ASSUME NEW t \in Terminals, ReadFails(t)
      PROVE  Goal
  BY <1>6 DEF ReadFails
<1>7. ASSUME NEW t \in Terminals, Truncate(t)
      PROVE  Goal
  BY <1>7 DEF Truncate
<1>8. ASSUME NEW t \in Terminals, Write(t)
      PROVE  Goal
  BY <1>8 DEF Write
<1>9. ASSUME NEW t \in Terminals, WriteFails(t)
      PROVE  Goal
  BY <1>9 DEF WriteFails
<1>10. ASSUME NEW t \in Terminals, Finish(t)
      PROVE  Goal
  BY <1>10 DEF Finish
<1>11. ASSUME NEW t \in Terminals, Killed(t)
      PROVE  Goal
  BY <1>11 DEF Killed
<1>12. ASSUME NEW f \in Files, NEW text \in Texts \cup {Absent}, Saves(f, text)
      PROVE  Goal
  BY <1>12 DEF Saves
<1>13. CASE UNCHANGED vars
  BY <1>13 DEF vars
<1> QED
  BY <1>1, <1>2, <1>3, <1>4, <1>5, <1>6, <1>7, <1>8, <1>9, <1>10, <1>11,
     <1>12, <1>13 DEF Next

\* Texts stay texts while they are redacted.
LEMMA TextInductive == TypeInv /\ TypeInv' /\ TextInv /\ [Next]_vars => TextInv'
<1> SUFFICES ASSUME TypeInv, TypeInv', TextInv, [Next]_vars, Without({"race"})', NEW u \in Terminals, Busy(u)'
             PROVE  /\ file'[At(u)'] # Absent
                    /\ ~LooksBinary(file'[At(u)'])
                    /\ pc'[u] = "write" => ~HasRaw(At(u))'
  BY DEF TextInv, HasRaw
<1>1. Without({"race"})
  BY SeenGrows DEF Without
<1>2. todo'[u] # <<>> /\ At(u)' \in Files
  <2>1. todo'[u] # <<>>
    BY DEF TypeInv, BusyInv
  <2>2. todo'[u] \in Seq(Paths)
    BY DEF TypeInv, TypeOK
  <2>3. Head(todo'[u]) \in Paths
    BY <2>1, <2>2, HeadTailProperties
  <2> QED BY <2>1, <2>3, FileScanAssumption DEF At
<1>3. CASE RedactFileReads(u)
  <2>1. At(u)' = At(u) /\ file' = file /\ pc'[u] = "trunc"
    BY <1>3 DEF RedactFileReads, Goto, At, TypeInv, TypeOK
  <2>2. file[At(u)] # Absent /\ ~LooksBinary(file[At(u)])
    BY <1>3 DEF RedactFileReads, HasFindings, Readable
  <2> QED BY <2>1, <2>2
<1>4. CASE /\ Busy(u) /\ UNCHANGED <<todo[u], mem[u]>>
           /\ UNCHANGED pc[u] \/ Truncate(u)
  <2>1. At(u)' = At(u)
    BY <1>4 DEF At
  <2>2. u \in Redacting(At(u))
    BY <1>4 DEF Redacting, Busy
  <2>3. FileOutcome(At(u))
    BY <1>2, <2>1, FileStep
  <2>4. /\ HasRaw(At(u))' => HasRaw(At(u))
        /\ file[At(u)] # Absent /\ ~LooksBinary(file[At(u)]) => file'[At(u)] # Absent /\ ~LooksBinary(file'[At(u)])
    BY <2>1, <2>2, <2>3 DEF FileOutcome, HasRaw
  <2>5. file'[At(u)'] # Absent /\ ~LooksBinary(file'[At(u)'])
    BY <1>1, <1>4, <2>1, <2>4 DEF TextInv
  <2>6. CASE UNCHANGED pc[u]
    BY <1>1, <1>4, <2>4, <2>5, <2>6 DEF TextInv
  <2>7. CASE Truncate(u)
    <3>1. file'[At(u)] = <<>>
      BY <1>2, <2>1, <2>7 DEF Truncate, TypeInv, TypeOK
    <3>2. DOMAIN <<>> = {}
      BY EmptySeq
    <3> QED BY <2>1, <2>5, <3>1, <3>2 DEF HasRaw
  <2> QED BY <1>4, <2>6, <2>7
<1> QED BY <1>3, <1>4, BusyStep

\* A file that is being redacted is a text, and holds no secret once truncated.
LEMMA TextHolds == Spec => []TextInv
<1>1. Init => TextInv
  BY DEF Init, TextInv, Busy
<1> QED
  BY <1>1, TextInductive, TypesHold, PTL DEF Spec

-----------------------------------------------------------------------------
(* done, and no secrets found                                              *)

\* The paths that a command has still to process.
Left(t) == {todo[t][i] : i \in DOMAIN todo[t]} \cap listed[t]

\* Where a command that has met a secret has still to come.
Ahead(t, paths) ==
  \A p \in paths : Target[p] \in since[t] /\ HasRaw(Target[p]) => p \in Left(t)

\* A command that stays where it is has the same secrets ahead.
LEMMA AheadStays ==
  ASSUME TypeInv, TextInv, [Next]_vars, Without({"race"})',
         NEW t \in Terminals, NEW paths \in SUBSET Paths, Ahead(t, paths),
         UNCHANGED <<todo[t], listed[t]>>, since'[t] \subseteq since[t]
  PROVE  Ahead(t, paths)'
<1> SUFFICES ASSUME NEW p \in paths, Target[p] \in since'[t], HasRaw(Target[p])'
             PROVE  p \in Left(t)'
  BY DEF Ahead
<1>1. Target[p] \in Files
  BY FileScanAssumption
<1>2. HasRaw(Target[p])
  BY <1>1, FileStep DEF FileOutcome
<1>3. p \in Left(t)
  BY <1>2 DEF Ahead
<1> QED BY <1>3 DEF Left

\* A command that passes over a path without a secret has no other one behind.
LEMMA AheadMoves ==
  ASSUME TypeInv, TextInv, [Next]_vars, Without({"race"})',
         NEW t \in Terminals, NEW paths \in SUBSET Paths, Ahead(t, paths),
         todo[t] # <<>>, NextPath(t), UNCHANGED <<listed[t], since[t]>>,
         Head(todo[t]) \in paths \cap listed[t] => ~HasRaw(At(t))
  PROVE  Ahead(t, paths)'
<1> SUFFICES ASSUME NEW p \in paths, Target[p] \in since'[t], HasRaw(Target[p])'
             PROVE  p \in Left(t)'
  BY DEF Ahead
<1>1. Target[p] \in Files
  BY FileScanAssumption
<1>2. HasRaw(Target[p])
  BY <1>1, FileStep DEF FileOutcome
<1>3. p \in Left(t)
  BY <1>2 DEF Ahead
<1>4. PICK i \in DOMAIN todo[t] : todo[t][i] = p
  BY <1>3 DEF Left
<1>5. p # Head(todo[t])
  BY <1>2, <1>3 DEF At, Left
<1>6. /\ todo[t] \in Seq(Paths) /\ Len(todo[t]) \in Nat /\ DOMAIN todo[t] = 1 .. Len(todo[t])
      /\ Head(todo[t]) = todo[t][1]
      /\ Tail(todo[t]) \in Seq(Paths)
      /\ Len(Tail(todo[t])) = Len(todo[t]) - 1
      /\ \A j \in 1 .. Len(todo[t]) - 1 : Tail(todo[t])[j] = todo[t][j + 1]
  BY HeadTailProperties, LenProperties DEF TypeInv, TypeOK
<1>7. i # 1 /\ i \in 1 .. Len(todo[t])
  BY <1>4, <1>5, <1>6
<1>8. i - 1 \in 1 .. Len(todo[t]) - 1 /\ i - 1 + 1 = i
  BY <1>6, <1>7
<1>9. Tail(todo[t])[i - 1] = p /\ DOMAIN Tail(todo[t]) = 1 .. Len(todo[t]) - 1
  BY <1>4, <1>6, <1>8, LenProperties
<1>10. todo'[t] = Tail(todo[t])
  BY DEF NextPath, TypeInv, TypeOK
<1> QED BY <1>3, <1>8, <1>9, <1>10 DEF Left

\* At its beginning a command has every secret ahead.
LEMMA AheadOfAll ==
  ASSUME TypeInv, NEW t \in Terminals, NEW m \in {"report", "redact"}, Begin(t, m), NEW paths \in SUBSET Paths
  PROVE  Ahead(t, paths)'
<1> SUFFICES ASSUME NEW p \in paths, HasRaw(Target[p])'
             PROVE  p \in Left(t)'
  BY DEF Ahead
<1>1. file[Target[p]] # Absent
  BY DEF Begin, HasRaw
<1>2. p \in listed'[t] /\ todo'[t] = Walk
  BY <1>1 DEF Begin, TypeInv, TypeOK
<1>3. \E i \in DOMAIN Walk : Walk[i] = p
  BY FileScanAssumption, LenProperties DEF Paths
<1> QED BY <1>2, <1>3 DEF Left

\* A file that a command passes over holds no secret.
LEMMA NothingFound ==
  ASSUME NEW t \in Terminals, Listed(t), Passed(t)
  PROVE  ~HasRaw(At(t))
BY DEF Passed, HasFindings, Readable, HasRaw, Findings, Found, Raw

DoneInv ==
  Without({"race", "disk", "unreadable"}) =>
    \A t \in Terminals : mode[t] = "redact" => Ahead(t, Paths)

\* A command that redacts leaves no secret behind it.
LEMMA DoneInductive == TypeInv /\ TextInv /\ DoneInv /\ [Next]_vars => DoneInv'
<1> SUFFICES ASSUME TypeInv, TextInv, DoneInv, [Next]_vars,
                    Without({"race", "disk", "unreadable"})', NEW u \in Terminals, mode'[u] = "redact"
             PROVE  Ahead(u, Paths)'
  BY DEF DoneInv
<1>a. Without({"race", "disk", "unreadable"}) /\ Without({"race"}) /\ Without({"race"})'
  BY SeenGrows DEF Without
<1>b. mode[u] = "redact" => Ahead(u, Paths)
  BY <1>a DEF DoneInv
<1> USE DEF command, vars, Goto, Walks, Exits, TypeInv, TypeOK
<1>1. ASSUME NEW t \in Terminals, NEW m \in {"report", "redact"}, Begin(t, m)
      PROVE  Ahead(u, Paths)'
  <2>1. CASE u = t
    BY <1>1, <2>1, AheadOfAll
  <2>2. CASE u # t
    <3>1. UNCHANGED <<todo[u], listed[u], mode[u], since[u]>>
      BY <1>1, <2>2 DEF Begin, Counted, NextPath
    <3> QED BY <1>a, <1>b, <3>1, AheadStays
  <2> QED BY <2>1, <2>2
<1>2. ASSUME NEW t \in Terminals, ScanGoesOn(t) PROVE Ahead(u, Paths)'
  <2>1. CASE u = t
    BY <1>2, <2>1 DEF ScanGoesOn
  <2>2. CASE u # t
    <3>1. UNCHANGED <<todo[u], listed[u], mode[u], since[u]>>
      BY <1>2, <2>2 DEF ScanGoesOn, Counted, NextPath
    <3> QED BY <1>a, <1>b, <3>1, AheadStays
  <2> QED BY <2>1, <2>2
<1>3. ASSUME NEW t \in Terminals, ScanReports(t) PROVE Ahead(u, Paths)'
  <2>1. CASE u = t
    BY <1>3, <2>1 DEF ScanReports
  <2>2. CASE u # t
    <3>1. UNCHANGED <<todo[u], listed[u], mode[u], since[u]>>
      BY <1>3, <2>2 DEF ScanReports, Counted, NextPath
    <3> QED BY <1>a, <1>b, <3>1, AheadStays
  <2> QED BY <2>1, <2>2
<1>4. ASSUME NEW t \in Terminals, RedactFileGoesOn(t) PROVE Ahead(u, Paths)'
  <2>1. CASE u = t
    <3>1. todo[t] # <<>> /\ NextPath(t) /\ UNCHANGED <<listed[t], since[t], mode[t]>>
      BY <1>4, HeadPath DEF RedactFileGoesOn, Counted, BusyInv, Busy
    <3>2. Head(todo[t]) \in Paths \cap listed[t] => ~HasRaw(At(t))
      BY <1>4, NothingFound DEF RedactFileGoesOn, Listed
    <3> QED BY <1>a, <1>b, <2>1, <3>1, <3>2, AheadMoves
  <2>2. CASE u # t
    <3>1. UNCHANGED <<todo[u], listed[u], mode[u], since[u]>>
      BY <1>4, <2>2 DEF RedactFileGoesOn, Counted, NextPath
    <3> QED BY <1>a, <1>b, <3>1, AheadStays
  <2> QED BY <2>1, <2>2
<1>5. ASSUME NEW t \in Terminals, RedactFileReads(t) PROVE Ahead(u, Paths)'
  <2>1. CASE u = t
    <3>1. UNCHANGED <<todo[u], listed[u], since[u], mode[u]>>
      BY <1>5, <2>1 DEF RedactFileReads
    <3> QED BY <1>a, <1>b, <3>1, AheadStays
  <2>2. CASE u # t
    <3>1. UNCHANGED <<todo[u], listed[u], mode[u], since[u]>>
      BY <1>5, <2>2 DEF RedactFileReads, Counted, NextPath
    <3> QED BY <1>a, <1>b, <3>1, AheadStays
  <2> QED BY <2>1, <2>2
<1>6. ASSUME NEW t \in Terminals, ReadFails(t) PROVE Ahead(u, Paths)'
  <2>1. CASE u = t
    BY <1>6, <2>1 DEF ReadFails, Note, Without
  <2>2. CASE u # t
    <3>1. UNCHANGED <<todo[u], listed[u], mode[u], since[u]>>
      BY <1>6, <2>2 DEF ReadFails, Counted, NextPath
    <3> QED BY <1>a, <1>b, <3>1, AheadStays
  <2> QED BY <2>1, <2>2
<1>7. ASSUME NEW t \in Terminals, Truncate(t) PROVE Ahead(u, Paths)'
  <2>1. CASE u = t
    <3>1. UNCHANGED <<todo[u], listed[u], since[u], mode[u]>>
      BY <1>7, <2>1 DEF Truncate
    <3> QED BY <1>a, <1>b, <3>1, AheadStays
  <2>2. CASE u # t
    <3>1. UNCHANGED <<todo[u], listed[u], mode[u], since[u]>>
      BY <1>7, <2>2 DEF Truncate, Counted, NextPath
    <3> QED BY <1>a, <1>b, <3>1, AheadStays
  <2> QED BY <2>1, <2>2
<1>8. ASSUME NEW t \in Terminals, Write(t) PROVE Ahead(u, Paths)'
  <2>1. CASE u = t
    <3>1. todo[t] # <<>> /\ NextPath(t) /\ UNCHANGED <<listed[t], since[t], mode[t]>>
      BY <1>8, HeadPath DEF Write, Counted, BusyInv, Busy
    <3>2. ~HasRaw(At(t))
      BY <1>8, <1>a DEF Write, TextInv, Busy
    <3> QED BY <1>a, <1>b, <2>1, <3>1, <3>2, AheadMoves
  <2>2. CASE u # t
    <3>1. UNCHANGED <<todo[u], listed[u], mode[u], since[u]>>
      BY <1>8, <2>2 DEF Write, Counted, NextPath
    <3> QED BY <1>a, <1>b, <3>1, AheadStays
  <2> QED BY <2>1, <2>2
<1>9. ASSUME NEW t \in Terminals, WriteFails(t) PROVE Ahead(u, Paths)'
  <2>1. CASE u = t
    BY <1>9, <2>1 DEF WriteFails, Note, Without
  <2>2. CASE u # t
    <3>1. UNCHANGED <<todo[u], listed[u], mode[u], since[u]>>
      BY <1>9, <2>2 DEF WriteFails, Counted, NextPath
    <3> QED BY <1>a, <1>b, <3>1, AheadStays
  <2> QED BY <2>1, <2>2
<1>10. ASSUME NEW t \in Terminals, Finish(t) PROVE Ahead(u, Paths)'
  <2>1. CASE u = t
    BY <1>10, <2>1 DEF Finish
  <2>2. CASE u # t
    <3>1. UNCHANGED <<todo[u], listed[u], mode[u], since[u]>>
      BY <1>10, <2>2 DEF Finish, Counted, NextPath
    <3> QED BY <1>a, <1>b, <3>1, AheadStays
  <2> QED BY <2>1, <2>2
<1>11. ASSUME NEW t \in Terminals, Killed(t) PROVE Ahead(u, Paths)'
  <2>1. CASE u = t
    BY <1>11, <2>1 DEF Killed
  <2>2. CASE u # t
    <3>1. UNCHANGED <<todo[u], listed[u], mode[u], since[u]>>
      BY <1>11, <2>2 DEF Killed, Counted, NextPath
    <3> QED BY <1>a, <1>b, <3>1, AheadStays
  <2> QED BY <2>1, <2>2
<1>12. ASSUME NEW f \in Files, NEW text \in Texts \cup {Absent}, Saves(f, text)
      PROVE  Ahead(u, Paths)'
  <2>1. UNCHANGED <<todo[u], listed[u], mode[u]>> /\ since'[u] \subseteq since[u]
    BY <1>12 DEF Saves
  <2> QED BY <1>a, <1>b, <2>1, AheadStays
<1>13. CASE UNCHANGED vars
  <2>1. UNCHANGED <<todo[u], listed[u], mode[u], since[u]>>
    BY <1>13 DEF vars
  <2> QED BY <1>a, <1>b, <2>1, AheadStays
<1> HIDE DEF TypeInv, TypeOK
<1> QED
  BY <1>1, <1>2, <1>3, <1>4, <1>5, <1>6, <1>7, <1>8, <1>9, <1>10, <1>11,
     <1>12, <1>13 DEF Next

\* What a command said stands until its terminal begins another one.
LEMMA LastStep ==
  ASSUME TypeInv, [Next]_vars, NEW u \in Terminals
  PROVE  \/ last'[u] = "nothing"
         \/ Finish(u)
         \/ last'[u] = last[u] /\ since'[u] \subseteq since[u]
<1> DEFINE Goal == \/ last'[u] = "nothing"
                   \/ Finish(u)
                   \/ last'[u] = last[u] /\ since'[u] \subseteq since[u]
<1> SUFFICES Goal
  OBVIOUS
<1> USE DEF command, vars, Goto, Walks, Exits, TypeInv, TypeOK, NextPath,
            Counted
<1>1. ASSUME NEW t \in Terminals, NEW m \in {"report", "redact"}, Begin(t, m)
      PROVE  Goal
  BY <1>1 DEF Begin
<1>2. ASSUME NEW t \in Terminals, ScanGoesOn(t) PROVE Goal
  BY <1>2 DEF ScanGoesOn
<1>3. ASSUME NEW t \in Terminals, ScanReports(t) PROVE Goal
  BY <1>3 DEF ScanReports
<1>4. ASSUME NEW t \in Terminals, RedactFileGoesOn(t) PROVE Goal
  BY <1>4 DEF RedactFileGoesOn
<1>5. ASSUME NEW t \in Terminals, RedactFileReads(t) PROVE Goal
  BY <1>5 DEF RedactFileReads
<1>6. ASSUME NEW t \in Terminals, ReadFails(t) PROVE Goal
  BY <1>6 DEF ReadFails
<1>7. ASSUME NEW t \in Terminals, Truncate(t) PROVE Goal
  BY <1>7 DEF Truncate
<1>8. ASSUME NEW t \in Terminals, Write(t) PROVE Goal
  BY <1>8 DEF Write
<1>9. ASSUME NEW t \in Terminals, WriteFails(t) PROVE Goal
  BY <1>9 DEF WriteFails
<1>10. ASSUME NEW t \in Terminals, Finish(t) PROVE Goal
  BY <1>10 DEF Finish
<1>11. ASSUME NEW t \in Terminals, Killed(t) PROVE Goal
  BY <1>11 DEF Killed
<1>12. ASSUME NEW f \in Files, NEW text \in Texts \cup {Absent}, Saves(f, text)
      PROVE  Goal
  BY <1>12 DEF Saves
<1>13. CASE UNCHANGED vars
  BY <1>13 DEF vars
<1> QED
  BY <1>1, <1>2, <1>3, <1>4, <1>5, <1>6, <1>7, <1>8, <1>9, <1>10, <1>11,
     <1>12, <1>13 DEF Next

\* A command that said done keeps its word.
LEMMA DoneMeansInductive ==
  TypeInv /\ TypeInv' /\ TextInv /\ DoneInv /\ DoneMeansRedacted /\ [Next]_vars => DoneMeansRedacted'
<1> SUFFICES ASSUME TypeInv, TypeInv', TextInv, DoneInv, DoneMeansRedacted, [Next]_vars, NEW u \in Terminals,
                    last'[u] = "done", Without({"race", "disk", "unreadable"})', NEW f \in Met(u, Paths)'
             PROVE  ~HasRaw(f)'
  BY DEF DoneMeansRedacted
<1>1. Without({"race", "disk", "unreadable"}) /\ Without({"race"})'
  BY SeenGrows DEF Without
<1>2. PICK p \in Paths : f = Target[p] /\ f \in since'[u]
  BY DEF Met
<1>3. f \in Files
  BY <1>2 DEF TypeInv, TypeOK
<1>4. CASE last'[u] = last[u] /\ since'[u] \subseteq since[u]
  <2>1. ~HasRaw(f)
    BY <1>1, <1>2, <1>4 DEF DoneMeansRedacted, Met
  <2> QED BY <1>1, <1>2, <1>3, <2>1, FileStep DEF FileOutcome
<1>5. CASE Finish(u)
  <2>1. mode[u] = "redact" /\ todo[u] = <<>> /\ UNCHANGED <<file, since>>
    BY <1>5 DEF Finish, TypeInv, TypeOK
  <2>2. Ahead(u, Paths)
    BY <1>1, <1>5, <2>1 DEF DoneInv, Finish
  <2>3. Left(u) = {}
    BY <2>1, EmptySeq DEF Left
  <2> QED BY <1>2, <2>1, <2>2, <2>3 DEF Ahead, HasRaw
<1> QED BY <1>4, <1>5, LastStep

\* "done" means that no secret is left in a file that the command met and that
\* its user has not touched since: whatever other scans run or are killed at the
\* same time, runScan's walk and RedactFile's silent returns pass over none.
THEOREM AlwaysDoneMeansRedacted == Spec => []DoneMeansRedacted
<1>1. Init => DoneInv /\ DoneMeansRedacted
  BY DEF Init, DoneInv, DoneMeansRedacted
<1> QED
  BY <1>1, DoneInductive, DoneMeansInductive, TypesHold, TextHolds, PTL DEF Spec

CleanInv ==
  Without({"race", "unreadable"}) =>
    \A t \in Terminals :
      mode[t] = "report" /\ pc[t] = "walk" /\ count[t] = 0 => Ahead(t, Paths \ Skipped)

\* A command that reports leaves no secret behind it without counting one.
LEMMA CleanInductive == TypeInv /\ TextInv /\ CleanInv /\ [Next]_vars => CleanInv'
<1> SUFFICES ASSUME TypeInv, TextInv, CleanInv, [Next]_vars,
                    Without({"race", "unreadable"})', NEW u \in Terminals,
                    mode'[u] = "report", pc'[u] = "walk", count'[u] = 0
             PROVE  Ahead(u, Paths \ Skipped)'
  BY DEF CleanInv
<1>a. Without({"race", "unreadable"}) /\ Without({"race"}) /\ Without({"race"})'
  BY SeenGrows DEF Without
<1>b. mode[u] = "report" /\ pc[u] = "walk" /\ count[u] = 0 => Ahead(u, Paths \ Skipped)
  BY <1>a DEF CleanInv
<1> USE DEF command, vars, Goto, Walks, Exits, TypeInv, TypeOK
<1>1. ASSUME NEW t \in Terminals, NEW m \in {"report", "redact"}, Begin(t, m)
      PROVE  Ahead(u, Paths \ Skipped)'
  <2>1. CASE u = t
    BY <1>1, <2>1, AheadOfAll
  <2>2. CASE u # t
    <3>1. UNCHANGED <<todo[u], listed[u], mode[u], since[u], pc[u], count[u]>>
      BY <1>1, <2>2 DEF Begin, Counted, NextPath
    <3> QED BY <1>a, <1>b, <3>1, AheadStays
  <2> QED BY <2>1, <2>2
<1>2. ASSUME NEW t \in Terminals, ScanGoesOn(t) PROVE Ahead(u, Paths \ Skipped)'
  <2>1. CASE u = t
    <3>1. todo[t] # <<>> /\ NextPath(t) /\ UNCHANGED <<listed[t], since[t], mode[t], count[t], pc[t]>>
      BY <1>2 DEF ScanGoesOn
    <3>2. Head(todo[t]) \in (Paths \ Skipped) \cap listed[t] => ~HasRaw(At(t))
      BY <1>2, NothingFound DEF ScanGoesOn, Listed
    <3> QED BY <1>a, <1>b, <2>1, <3>1, <3>2, AheadMoves
  <2>2. CASE u # t
    <3>1. UNCHANGED <<todo[u], listed[u], mode[u], since[u], pc[u], count[u]>>
      BY <1>2, <2>2 DEF ScanGoesOn, Counted, NextPath
    <3> QED BY <1>a, <1>b, <3>1, AheadStays
  <2> QED BY <2>1, <2>2
<1>3. ASSUME NEW t \in Terminals, ScanReports(t) PROVE Ahead(u, Paths \ Skipped)'
  <2>1. CASE u = t
    <3>1. At(t) \in Files /\ file[At(t)] \in Seq(Passages) /\ Findings(file[At(t)]) # {}
      BY <1>3, HeadPath DEF ScanReports, HasFindings, Readable
    <3>2. Cardinality(Findings(file[At(t)])) \in Nat \ {0}
      BY <3>1, FindingsCount
    <3>3. count'[t] = count[t] + Cardinality(Findings(file[At(t)])) /\ count[t] \in Nat
      BY <1>3 DEF ScanReports
    <3> QED BY <2>1, <3>2, <3>3
  <2>2. CASE u # t
    <3>1. UNCHANGED <<todo[u], listed[u], mode[u], since[u], pc[u], count[u]>>
      BY <1>3, <2>2 DEF ScanReports, Counted, NextPath
    <3> QED BY <1>a, <1>b, <3>1, AheadStays
  <2> QED BY <2>1, <2>2
<1>4. ASSUME NEW t \in Terminals, RedactFileGoesOn(t) PROVE Ahead(u, Paths \ Skipped)'
  <2>1. CASE u = t
    BY <1>4, <2>1 DEF RedactFileGoesOn
  <2>2. CASE u # t
    <3>1. UNCHANGED <<todo[u], listed[u], mode[u], since[u], pc[u], count[u]>>
      BY <1>4, <2>2 DEF RedactFileGoesOn, Counted, NextPath
    <3> QED BY <1>a, <1>b, <3>1, AheadStays
  <2> QED BY <2>1, <2>2
<1>5. ASSUME NEW t \in Terminals, RedactFileReads(t) PROVE Ahead(u, Paths \ Skipped)'
  <2>1. CASE u = t
    BY <1>5, <2>1 DEF RedactFileReads
  <2>2. CASE u # t
    <3>1. UNCHANGED <<todo[u], listed[u], mode[u], since[u], pc[u], count[u]>>
      BY <1>5, <2>2 DEF RedactFileReads, Counted, NextPath
    <3> QED BY <1>a, <1>b, <3>1, AheadStays
  <2> QED BY <2>1, <2>2
<1>6. ASSUME NEW t \in Terminals, ReadFails(t) PROVE Ahead(u, Paths \ Skipped)'
  <2>1. CASE u = t
    BY <1>6, <2>1 DEF ReadFails, Note, Without
  <2>2. CASE u # t
    <3>1. UNCHANGED <<todo[u], listed[u], mode[u], since[u], pc[u], count[u]>>
      BY <1>6, <2>2 DEF ReadFails, Counted, NextPath
    <3> QED BY <1>a, <1>b, <3>1, AheadStays
  <2> QED BY <2>1, <2>2
<1>7. ASSUME NEW t \in Terminals, Truncate(t) PROVE Ahead(u, Paths \ Skipped)'
  <2>1. CASE u = t
    BY <1>7, <2>1 DEF Truncate, BusyInv, Busy
  <2>2. CASE u # t
    <3>1. UNCHANGED <<todo[u], listed[u], mode[u], since[u], pc[u], count[u]>>
      BY <1>7, <2>2 DEF Truncate, Counted, NextPath
    <3> QED BY <1>a, <1>b, <3>1, AheadStays
  <2> QED BY <2>1, <2>2
<1>8. ASSUME NEW t \in Terminals, Write(t) PROVE Ahead(u, Paths \ Skipped)'
  <2>1. CASE u = t
    BY <1>8, <2>1 DEF Write, Counted, BusyInv, Busy
  <2>2. CASE u # t
    <3>1. UNCHANGED <<todo[u], listed[u], mode[u], since[u], pc[u], count[u]>>
      BY <1>8, <2>2 DEF Write, Counted, NextPath
    <3> QED BY <1>a, <1>b, <3>1, AheadStays
  <2> QED BY <2>1, <2>2
<1>9. ASSUME NEW t \in Terminals, WriteFails(t) PROVE Ahead(u, Paths \ Skipped)'
  <2>1. CASE u = t
    BY <1>9, <2>1 DEF WriteFails, Counted, BusyInv, Busy
  <2>2. CASE u # t
    <3>1. UNCHANGED <<todo[u], listed[u], mode[u], since[u], pc[u], count[u]>>
      BY <1>9, <2>2 DEF WriteFails, Counted, NextPath
    <3> QED BY <1>a, <1>b, <3>1, AheadStays
  <2> QED BY <2>1, <2>2
<1>10. ASSUME NEW t \in Terminals, Finish(t) PROVE Ahead(u, Paths \ Skipped)'
  <2>1. CASE u = t
    BY <1>10, <2>1 DEF Finish
  <2>2. CASE u # t
    <3>1. UNCHANGED <<todo[u], listed[u], mode[u], since[u], pc[u], count[u]>>
      BY <1>10, <2>2 DEF Finish, Counted, NextPath
    <3> QED BY <1>a, <1>b, <3>1, AheadStays
  <2> QED BY <2>1, <2>2
<1>11. ASSUME NEW t \in Terminals, Killed(t) PROVE Ahead(u, Paths \ Skipped)'
  <2>1. CASE u = t
    BY <1>11, <2>1 DEF Killed
  <2>2. CASE u # t
    <3>1. UNCHANGED <<todo[u], listed[u], mode[u], since[u], pc[u], count[u]>>
      BY <1>11, <2>2 DEF Killed, Counted, NextPath
    <3> QED BY <1>a, <1>b, <3>1, AheadStays
  <2> QED BY <2>1, <2>2
<1>12. ASSUME NEW f \in Files, NEW text \in Texts \cup {Absent}, Saves(f, text)
      PROVE  Ahead(u, Paths \ Skipped)'
  <2>1. UNCHANGED <<todo[u], listed[u], mode[u], pc[u], count[u]>> /\ since'[u] \subseteq since[u]
    BY <1>12 DEF Saves
  <2> QED BY <1>a, <1>b, <2>1, AheadStays
<1>13. CASE UNCHANGED vars
  <2>1. UNCHANGED <<todo[u], listed[u], mode[u], since[u], pc[u], count[u]>>
    BY <1>13 DEF vars
  <2> QED BY <1>a, <1>b, <2>1, AheadStays
<1> HIDE DEF TypeInv, TypeOK
<1> QED
  BY <1>1, <1>2, <1>3, <1>4, <1>5, <1>6, <1>7, <1>8, <1>9, <1>10, <1>11,
     <1>12, <1>13 DEF Next

\* A command that found no secret keeps its word.
LEMMA CleanMeansInductive ==
  TypeInv /\ TypeInv' /\ TextInv /\ CleanInv /\ CleanMeansClean /\ [Next]_vars => CleanMeansClean'
<1> SUFFICES ASSUME TypeInv, TypeInv', TextInv, CleanInv, CleanMeansClean, [Next]_vars, NEW u \in Terminals,
                    last'[u] = "clean", Without({"race", "unreadable"})', NEW f \in Met(u, Paths \ Skipped)'
             PROVE  ~HasRaw(f)'
  BY DEF CleanMeansClean
<1>1. Without({"race", "unreadable"}) /\ Without({"race"})'
  BY SeenGrows DEF Without
<1>2. PICK p \in Paths \ Skipped : f = Target[p] /\ f \in since'[u]
  BY DEF Met
<1>3. f \in Files
  BY <1>2 DEF TypeInv, TypeOK
<1>4. CASE last'[u] = last[u] /\ since'[u] \subseteq since[u]
  <2>1. ~HasRaw(f)
    BY <1>1, <1>2, <1>4 DEF CleanMeansClean, Met
  <2> QED BY <1>1, <1>2, <1>3, <2>1, FileStep DEF FileOutcome
<1>5. CASE Finish(u)
  <2>1. mode[u] = "report" /\ count[u] = 0 /\ todo[u] = <<>> /\ UNCHANGED <<file, since>>
    BY <1>5 DEF Finish, TypeInv, TypeOK
  <2>2. Ahead(u, Paths \ Skipped)
    BY <1>1, <1>5, <2>1 DEF CleanInv, Finish
  <2>3. Left(u) = {}
    BY <2>1, EmptySeq DEF Left
  <2> QED BY <1>2, <2>1, <2>2, <2>3 DEF Ahead, HasRaw
<1> QED BY <1>4, <1>5, LastStep

\* "no secrets found" means that there is none outside the directories that Scan
\* never descends into and the files above its limit, however many scans redact
\* the same files while this one walks.
THEOREM AlwaysCleanMeansClean == Spec => []CleanMeansClean
<1>1. Init => CleanInv /\ CleanMeansClean
  BY DEF Init, CleanInv, CleanMeansClean
<1> QED
  BY <1>1, CleanInductive, CleanMeansInductive, TypesHold, TextHolds, PTL DEF Spec

-----------------------------------------------------------------------------
(* A file is what its user saved, redacted or not                          *)

\* One scan at a time redacts a file: what it holds in memory is what its user
\* saved, redacted before or not, and the file is that or empty.
OwnInv ==
  /\ \A t, u \in Terminals : Busy(t) /\ Busy(u) /\ At(t) = At(u) => t = u
  /\ \A t \in Terminals : Busy(t) =>
       /\ mem[t] \in Redactions(saved[At(t)])
       /\ file[At(t)] = IF pc[t] = "trunc" THEN mem[t] ELSE <<>>
  /\ \A f \in Files :
       file[f] \in Redactions(saved[f]) \/ \E t \in Redacting(f) : pc[t] = "write"

OnlyInv == Without({"race", "overlap", "kill", "disk"}) => OwnInv

\* To redact once more what was redacted any number of times is to redact it any
\* number of times.
LEMMA RedactionsClosed ==
  ASSUME NEW original \in Seq(Passages) \cup {Absent}, NEW text \in Redactions(original),
         text \in Seq(Passages), ~LooksBinary(text)
  PROVE  Redact(text) \in Redactions(original)
<1>1. original \in Seq(Passages) /\ ~LooksBinary(original)
  BY FileScanAssumption DEF Redactions
<1>2. text \in {original, Redact(original), Redact(Redact(original))}
  BY <1>1, FileScanAssumption DEF Redactions
<1>3. Redact(Redact(Redact(original))) = Redact(Redact(original))
  BY <1>1, RedactedTwice
<1> QED BY <1>1, <1>2, <1>3, FileScanAssumption DEF Redactions

\* Without faults, who reads a file is alone with it, and what it reads is whole.
LEMMA ReaderIsAlone ==
  ASSUME TypeInv, OwnInv, NEW u \in Terminals, RedactFileReads(u), "overlap" \notin seen'
  PROVE  /\ At(u) \in Files /\ At(u)' = At(u) /\ UNCHANGED <<file, saved>>
         /\ pc'[u] = "trunc" /\ mem'[u] = file[At(u)]
         /\ \A t \in Terminals \ {u} : UNCHANGED <<pc[t], todo[t]>>
         /\ Redacting(At(u)) = {}
         /\ file[At(u)] \in Redactions(saved[At(u)])
<1>1. At(u) \in Files
  BY HeadPath DEF RedactFileReads, Walks, TypeInv
<1>2. Redacting(At(u)) = {}
  BY DEF RedactFileReads, NoteIfRedacting, Note
<1> QED BY <1>1, <1>2 DEF RedactFileReads, Goto, At, TypeInv, TypeOK, OwnInv

\* Without faults, nobody else writes a file that is being redacted.
LEMMA OwnerStep ==
  ASSUME TypeInv, OwnInv, [Next]_vars, Without({"race", "overlap", "kill", "disk"})',
         NEW u \in Terminals, NEW f \in Files, At(u) = f, Busy(u), Busy(u)'
  PROVE  \/ Truncate(u)
         \/ UNCHANGED <<file[f], saved[f], pc[u]>>
<1> DEFINE Goal == \/ Truncate(u)
                   \/ UNCHANGED <<file[f], saved[f], pc[u]>>
<1> SUFFICES Goal
  OBVIOUS
<1> USE DEF command, vars, Goto, Walks, Exits, TypeInv, TypeOK
<1>1. ASSUME NEW t \in Terminals, NEW m \in {"report", "redact"}, Begin(t, m)
      PROVE  Goal
  BY <1>1 DEF Begin, Busy
<1>2. ASSUME NEW t \in Terminals, ScanGoesOn(t) PROVE Goal
  BY <1>2 DEF ScanGoesOn, Busy
<1>3. ASSUME NEW t \in Terminals, ScanReports(t) PROVE Goal
  BY <1>3 DEF ScanReports, Busy
<1>4. ASSUME NEW t \in Terminals, RedactFileGoesOn(t) PROVE Goal
  BY <1>4 DEF RedactFileGoesOn, Busy
<1>5. ASSUME NEW t \in Terminals, RedactFileReads(t) PROVE Goal
  BY <1>5 DEF RedactFileReads, Busy
<1>6. ASSUME NEW t \in Terminals, ReadFails(t) PROVE Goal
  BY <1>6 DEF ReadFails, Busy
<1>7. ASSUME NEW t \in Terminals, Truncate(t) PROVE Goal
  <2>1. CASE u # t
    <3>1. At(t) # f
      BY <1>7, <2>1 DEF Truncate, OwnInv, Busy
    <3> QED BY <1>7, <2>1, <3>1 DEF Truncate
  <2> QED BY <1>7, <2>1
<1>8. ASSUME NEW t \in Terminals, Write(t) PROVE Goal
  <2>1. u # t
    BY <1>8 DEF Write, Counted, Busy
  <2>2. At(t) # f
    BY <1>8, <2>1 DEF Write, OwnInv, Busy
  <2>3. pc' = [pc EXCEPT ![t] = "walk"] /\ saved' = saved
    BY <1>8 DEF Write, Counted
  <2>4. file'[f] = file[f]
    BY <1>8, <2>2 DEF Write
  <2> QED BY <2>1, <2>3, <2>4
<1>9. ASSUME NEW t \in Terminals, WriteFails(t) PROVE Goal
  BY <1>9 DEF WriteFails, Note, Without
<1>10. ASSUME NEW t \in Terminals, Finish(t) PROVE Goal
  BY <1>10 DEF Finish, Busy
<1>11. ASSUME NEW t \in Terminals, Killed(t) PROVE Goal
  BY <1>11 DEF Killed, Note, Without
<1>12. ASSUME NEW g \in Files, NEW text \in Texts \cup {Absent}, Saves(g, text)
      PROVE  Goal
  <2>1. CASE g = f
    <3>1. u \in Redacting(g)
      BY <2>1 DEF Redacting, Busy
    <3> QED BY <1>12, <3>1 DEF Saves, NoteIfRedacting, Note, Without
  <2>2. CASE g # f
    BY <1>12, <2>2 DEF Saves
  <2> QED BY <2>1, <2>2
<1>13. CASE UNCHANGED vars
  BY <1>13 DEF vars
<1> HIDE DEF TypeInv, TypeOK
<1> QED
  BY <1>1, <1>2, <1>3, <1>4, <1>5, <1>6, <1>7, <1>8, <1>9, <1>10, <1>11,
     <1>12, <1>13 DEF Next

\* Without faults, every file stays what its user saved, redacted or not.
LEMMA WholeStep ==
  ASSUME TypeInv, OwnInv, [Next]_vars, Without({"race", "overlap", "kill", "disk"})', NEW f \in Files
  PROVE  file'[f] \in Redactions(saved'[f]) \/ \E w \in Redacting(f)' : pc'[w] = "write"
<1> DEFINE Goal == file'[f] \in Redactions(saved'[f]) \/ \E w \in Redacting(f)' : pc'[w] = "write"
           Writes(w) == pc[w] = "write" /\ At(w) = f
<1>a. file[f] \in Redactions(saved[f]) \/ \E w \in Terminals : Writes(w)
  BY DEF OwnInv, Redacting
<1>b. ASSUME UNCHANGED <<file[f], saved[f]>>, \A w \in Terminals : Writes(w) => UNCHANGED <<pc[w], todo[w]>>
      PROVE  Goal
  <2>1. \A w \in Terminals : Writes(w) => w \in Redacting(f)' /\ pc'[w] = "write"
    BY <1>b DEF Redacting, At
  <2> QED BY <1>a, <1>b, <2>1
<1> SUFFICES Goal
  OBVIOUS
<1> USE DEF command, vars, Goto, Walks, Exits, TypeInv, TypeOK
<1>1. ASSUME NEW t \in Terminals, NEW m \in {"report", "redact"}, Begin(t, m)
      PROVE  Goal
  <2>1. UNCHANGED <<file, saved>> /\ \A w \in Terminals : Writes(w) => UNCHANGED <<pc[w], todo[w]>>
    BY <1>1 DEF Begin, NextPath
  <2> QED BY <2>1, <1>b
<1>2. ASSUME NEW t \in Terminals, ScanGoesOn(t) PROVE Goal
  <2>1. UNCHANGED <<file, saved>> /\ \A w \in Terminals : Writes(w) => UNCHANGED <<pc[w], todo[w]>>
    BY <1>2 DEF ScanGoesOn, NextPath
  <2> QED BY <2>1, <1>b
<1>3. ASSUME NEW t \in Terminals, ScanReports(t) PROVE Goal
  <2>1. UNCHANGED <<file, saved>> /\ \A w \in Terminals : Writes(w) => UNCHANGED <<pc[w], todo[w]>>
    BY <1>3 DEF ScanReports, NextPath
  <2> QED BY <2>1, <1>b
<1>4. ASSUME NEW t \in Terminals, RedactFileGoesOn(t) PROVE Goal
  <2>1. UNCHANGED <<file, saved>> /\ \A w \in Terminals : Writes(w) => UNCHANGED <<pc[w], todo[w]>>
    BY <1>4 DEF RedactFileGoesOn, NextPath
  <2> QED BY <2>1, <1>b
<1>5. ASSUME NEW t \in Terminals, RedactFileReads(t) PROVE Goal
  <2>1. UNCHANGED <<file, saved>> /\ \A w \in Terminals : Writes(w) => UNCHANGED <<pc[w], todo[w]>>
    BY <1>5 DEF RedactFileReads, NextPath
  <2> QED BY <2>1, <1>b
<1>6. ASSUME NEW t \in Terminals, ReadFails(t) PROVE Goal
  <2>1. UNCHANGED <<file, saved>> /\ \A w \in Terminals : Writes(w) => UNCHANGED <<pc[w], todo[w]>>
    BY <1>6 DEF ReadFails, NextPath
  <2> QED BY <2>1, <1>b
<1>7. ASSUME NEW t \in Terminals, Truncate(t) PROVE Goal
  <2>1. CASE At(t) = f
    <3>1. t \in Redacting(f)' /\ pc'[t] = "write"
      BY <1>7, <2>1 DEF Truncate, Redacting, At
    <3> QED BY <3>1
  <2>2. CASE At(t) # f
    <3>1. UNCHANGED <<file[f], saved>> /\ \A w \in Terminals : Writes(w) => UNCHANGED <<pc[w], todo[w]>>
      BY <1>7, <2>2 DEF Truncate
    <3> QED BY <3>1, <1>b
  <2> QED BY <2>1, <2>2
<1>8. ASSUME NEW t \in Terminals, Write(t) PROVE Goal
  <2>1. CASE At(t) = f
    <3>1. mem[t] \in Redactions(saved[f]) /\ file[f] = <<>>
      BY <1>8, <2>1 DEF Write, OwnInv, Busy
    <3>2. mem[t] \in Seq(Passages) /\ ~LooksBinary(mem[t])
      BY <1>8 DEF Write, BusyInv, Busy
    <3>3. Written(Redact(mem[t]), file[f]) = {Redact(mem[t])}
      BY <3>1 DEF Written
    <3>4. file'[f] = Redact(mem[t])
      <4>1. \E new \in Written(Redact(mem[t]), file[f]) : file' = [file EXCEPT ![f] = new]
        BY <1>8, <2>1 DEF Write
      <4>3. file' = [file EXCEPT ![f] = Redact(mem[t])]
        BY <3>3, <4>1
      <4>4. DOMAIN file = Files
        OBVIOUS
      <4> DEFINE new == Redact(mem[t])
      <4> HIDE DEF new
      <4>5. file' = [file EXCEPT ![f] = new]
        BY <4>3 DEF new
      <4>6. file'[f] = new
        BY <4>4, <4>5
      <4> QED BY <4>6 DEF new
    <3>5. saved' = saved
      BY <1>8 DEF Write
    <3>6. Redact(mem[t]) \in Redactions(saved[f])
      <4>1. saved[f] \in Seq(Passages) \cup {Absent}
        OBVIOUS
      <4> QED BY <3>1, <3>2, <4>1, RedactionsClosed
    <3> QED BY <3>4, <3>5, <3>6
  <2>2. CASE At(t) # f
    <3>1. UNCHANGED <<file[f], saved>>
      BY <1>8, <2>2 DEF Write
    <3>2. \A w \in Terminals : Writes(w) => UNCHANGED <<pc[w], todo[w]>>
      BY <1>8, <2>2 DEF Write, Counted, NextPath
    <3> QED BY <3>1, <3>2, <1>b
  <2> QED BY <2>1, <2>2
<1>9. ASSUME NEW t \in Terminals, WriteFails(t) PROVE Goal
  BY <1>9 DEF WriteFails, Note, Without
<1>10. ASSUME NEW t \in Terminals, Finish(t) PROVE Goal
  <2>1. UNCHANGED <<file, saved>> /\ \A w \in Terminals : Writes(w) => UNCHANGED <<pc[w], todo[w]>>
    BY <1>10 DEF Finish, NextPath
  <2> QED BY <2>1, <1>b
<1>11. ASSUME NEW t \in Terminals, Killed(t) PROVE Goal
  BY <1>11 DEF Killed, Note, Without
<1>12. ASSUME NEW g \in Files, NEW text \in Texts \cup {Absent}, Saves(g, text)
      PROVE  Goal
  <2>1. CASE g = f
    <3>1. file'[f] = saved'[f]
      BY <1>12, <2>1 DEF Saves
    <3> QED BY <3>1 DEF Redactions
  <2>2. CASE g # f
    <3>1. UNCHANGED <<file[f], saved[f]>> /\ \A w \in Terminals : Writes(w) => UNCHANGED <<pc[w], todo[w]>>
      BY <1>12, <2>2 DEF Saves
    <3> QED BY <3>1, <1>b
  <2> QED BY <2>1, <2>2
<1>13. CASE UNCHANGED vars
  <2>1. UNCHANGED <<file, saved>> /\ \A w \in Terminals : Writes(w) => UNCHANGED <<pc[w], todo[w]>>
    BY <1>13 DEF vars, NextPath
  <2> QED BY <2>1, <1>b
<1> HIDE DEF TypeInv, TypeOK, Goal
<1> QED
  BY <1>1, <1>2, <1>3, <1>4, <1>5, <1>6, <1>7, <1>8, <1>9, <1>10, <1>11,
     <1>12, <1>13 DEF Next

\* Redacting in place stays the business of one scan.
LEMMA OwnInductive == TypeInv /\ OwnInv /\ [Next]_vars /\ Without({"race", "overlap", "kill", "disk"})' => OwnInv'
<1> SUFFICES ASSUME TypeInv, OwnInv, [Next]_vars, Without({"race", "overlap", "kill", "disk"})'
             PROVE  OwnInv'
  OBVIOUS
<1>0. "overlap" \notin seen'
  BY DEF Without
<1>1. ASSUME NEW t \in Terminals, NEW u \in Terminals, Busy(t)', Busy(u)', At(t)' = At(u)', t # u PROVE FALSE
  <2>1. ASSUME NEW x \in Terminals, NEW y \in Terminals, x # y, RedactFileReads(x), Busy(y)', At(x)' = At(y)'
        PROVE  FALSE
    <3>1. /\ At(x)' = At(x) /\ UNCHANGED <<pc[y], todo[y]>> /\ Redacting(At(x)) = {}
      BY <1>0, <2>1, ReaderIsAlone
    <3>2. y \in Redacting(At(x))
      BY <2>1, <3>1 DEF Busy, Redacting, At
    <3> QED BY <3>1, <3>2
  <2>2. CASE RedactFileReads(t) \/ RedactFileReads(u)
    BY <1>1, <2>1, <2>2
  <2>3. CASE ~RedactFileReads(t) /\ ~RedactFileReads(u)
    <3>1. Busy(t) /\ UNCHANGED todo[t]
      BY <1>1, <2>3, BusyStep
    <3>2. Busy(u) /\ UNCHANGED todo[u]
      BY <1>1, <2>3, BusyStep
    <3>3. At(t) = At(u)
      BY <1>1, <3>1, <3>2 DEF At
    <3> QED BY <1>1, <3>1, <3>2, <3>3 DEF OwnInv
  <2> QED BY <2>2, <2>3
<1>2. ASSUME NEW u \in Terminals, Busy(u)'
      PROVE  /\ mem'[u] \in Redactions(saved'[At(u)'])
             /\ file'[At(u)'] = IF pc'[u] = "trunc" THEN mem'[u] ELSE <<>>
  <2>1. CASE RedactFileReads(u)
    BY <1>0, <2>1, ReaderIsAlone
  <2>2. CASE Busy(u) /\ UNCHANGED <<todo[u], mem[u]>>
    <3>1. At(u)' = At(u)
      BY <2>2 DEF At
    <3>2. /\ mem[u] \in Redactions(saved[At(u)])
          /\ file[At(u)] = IF pc[u] = "trunc" THEN mem[u] ELSE <<>>
      BY <2>2 DEF OwnInv
    <3>3. CASE Truncate(u)
      <4>1. At(u) \in Files
        BY <3>3, HeadPath DEF Truncate, TypeInv, BusyInv, Busy
      <4>2. file'[At(u)] = <<>> /\ pc'[u] = "write" /\ saved' = saved
        BY <3>3, <4>1 DEF Truncate, Goto, TypeInv, TypeOK
      <4> QED BY <2>2, <3>1, <3>2, <4>2
    <3>4. PICK f \in Files : f = At(u)
      BY <2>2, HeadPath DEF TypeInv, BusyInv
    <3>5. CASE UNCHANGED <<file[f], saved[f], pc[u]>>
      BY <2>2, <3>1, <3>2, <3>4, <3>5
    <3> QED BY <1>2, <2>2, <3>3, <3>4, <3>5, OwnerStep
  <2> QED BY <1>2, <2>1, <2>2, BusyStep
<1>3. \A f \in Files : file'[f] \in Redactions(saved'[f]) \/ \E w \in Redacting(f)' : pc'[w] = "write"
  BY WholeStep
<1>4. \A t, u \in Terminals : Busy(t)' /\ Busy(u)' /\ At(t)' = At(u)' => t = u
  BY <1>1
<1>5. \A u \in Terminals : Busy(u)' =>
        /\ mem'[u] \in Redactions(saved'[At(u)'])
        /\ file'[At(u)'] = IF pc'[u] = "trunc" THEN mem'[u] ELSE <<>>
  BY <1>2
<1> QED BY <1>3, <1>4, <1>5 DEF OwnInv, Redactions, LooksBinary

\* Redacting in place loses nothing: as long as the user saves no file that is
\* being redacted, no two scans redact one, none is killed and none fails to
\* write, every file is what its user saved, redacted or not, or is empty only
\* between the truncation and the write of os.WriteFile.
THEOREM AlwaysOnlyRedacted == Spec => []OnlyRedacted
<1>1. Init => OnlyInv
  <2>1. Init => \A f \in Files : file[f] \in Redactions(saved[f])
    BY DEF Init, Redactions
  <2>2. Init => \A t \in Terminals : ~Busy(t)
    BY DEF Init, Busy
  <2> QED BY <2>1, <2>2 DEF OnlyInv, OwnInv
<1>2. TypeInv /\ OnlyInv /\ [Next]_vars => OnlyInv'
  <2>1. [Next]_vars /\ Without({"race", "overlap", "kill", "disk"})' => Without({"race", "overlap", "kill", "disk"})
    BY SeenGrows DEF Without
  <2> QED BY <2>1, OwnInductive DEF OnlyInv, Without
<1>3. TypeInv /\ OnlyInv => OnlyRedacted
  <2> SUFFICES ASSUME OwnInv, NEW f \in Files, NEW t \in Redacting(f), pc[t] = "write"
               PROVE  file[f] = <<>>
    BY DEF OnlyInv, OwnInv, OnlyRedacted
  <2>1. Busy(t) /\ At(t) = f /\ t \in Terminals
    BY DEF Redacting, Busy
  <2> QED BY <2>1 DEF OwnInv
<1> QED
  BY <1>1, <1>2, <1>3, TypesHold, PTL DEF Spec

=============================================================================
