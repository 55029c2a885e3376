---------------------------- MODULE ProxyServerProofs ----------------------------
(***************************************************************************)
(* Proofs about ProxyServer, for any hosts, lines, servers, connections    *)
(* and enabled faults.                                                     *)
(***************************************************************************)
EXTENDS ProxyServer, SequenceTheorems, TLAPS

-----------------------------------------------------------------------------
(* The allowlist                                                           *)

\* A line that names something matches exactly what it is meant to name.
THEOREM MatchIsNames ==
  ASSUME NEW allow \in SUBSET Line, NEW host \in Hosts,
         \A line \in allow : line.form \in {"exact", "wild"} => line.host # <<>>
  PROVE  Match(allow, host) <=> \E line \in allow : Names(line, host)
<1> SUFFICES ASSUME NEW line \in allow, line.form = "wild"
             PROVE  EndsWith(host, line.host) <=>
                      \E n \in 1 .. Len(host) : SubSeq(host, n, Len(host)) = line.host
  BY DEF Match, Names
<1> DEFINE tail == line.host
<1>1. host \in Seq(Labels) /\ tail \in Seq(Labels) /\ tail # <<>>
  BY ProxyServerAssumption DEF Line
<1>2. Len(host) \in Nat /\ Len(tail) \in Nat /\ Len(tail) > 0
  BY <1>1, EmptySeq
<1>3. ASSUME EndsWith(host, tail)
      PROVE  \E n \in 1 .. Len(host) : SubSeq(host, n, Len(host)) = tail
  <2>1. Len(host) - Len(tail) + 1 \in 1 .. Len(host)
    BY <1>2, <1>3 DEF EndsWith
  <2> QED BY <1>3, <2>1 DEF EndsWith
<1>4. ASSUME NEW n \in 1 .. Len(host), SubSeq(host, n, Len(host)) = tail
      PROVE  EndsWith(host, tail)
  <2>1. Len(tail) = Len(host) - n + 1
    <3>1. n \in 1 .. Len(host) + 1 /\ Len(host) \in 0 .. Len(host)
      BY <1>2
    <3>2. Len(SubSeq(host, n, Len(host))) = IF n <= Len(host) THEN Len(host) - n + 1 ELSE 0
      BY <1>1, <3>1, SubSeqProperties
    <3> QED BY <1>2, <1>4, <3>2
  <2>2. n = Len(host) - Len(tail) + 1 /\ Len(host) >= Len(tail)
    BY <1>2, <2>1
  <2> QED BY <1>4, <2>2 DEF EndsWith
<1> QED BY <1>3, <1>4

\* What the text of allow.txt holds after a line was added at its end, at its
\* start, or joined to its last line.
LEMMA LineAdded ==
  ASSUME NEW text \in Seq(Line), NEW line \in Line
  PROVE  /\ Append(text, line) \in Seq(Line)
         /\ LinesOf(Append(text, line)) = LinesOf(text) \cup {line}
         /\ <<line>> \o text \in Seq(Line)
         /\ LinesOf(<<line>> \o text) = LinesOf(text) \cup {line}
         /\ [text EXCEPT ![Len(text)] = Merged] \in Seq(Line)
         /\ LinesOf([text EXCEPT ![Len(text)] = Merged]) \subseteq LinesOf(text) \cup {Merged}
<1>1. Merged \in Line
  BY EmptySeq DEF Merged, Line
<1> DEFINE last == Append(text, line)
           first == <<line>> \o text
           joined == [text EXCEPT ![Len(text)] = Merged]
<1>2. /\ last \in Seq(Line) /\ Len(last) = Len(text) + 1
      /\ \A i \in 1 .. Len(text) : last[i] = text[i]
      /\ last[Len(text) + 1] = line
  BY AppendProperties
<1>3. LinesOf(last) = LinesOf(text) \cup {line}
  BY <1>2 DEF LinesOf
<1>4. <<line>> \in Seq(Line) /\ Len(<<line>>) = 1 /\ <<line>>[1] = line
  OBVIOUS
<1>5. /\ first \in Seq(Line) /\ Len(first) = 1 + Len(text)
      /\ \A i \in 1 .. 1 + Len(text) : first[i] = IF i <= 1 THEN line ELSE text[i - 1]
  BY <1>4, ConcatProperties
<1>6. first[1] = line /\ \A i \in 1 .. Len(text) : first[i + 1] = text[i]
  BY <1>5
<1> HIDE DEF last, first, joined
<1>7. LinesOf(first) = LinesOf(text) \cup {line}
  <2>1. ASSUME NEW x \in LinesOf(first) PROVE x \in LinesOf(text) \cup {line}
    BY <1>5, <2>1 DEF LinesOf
  <2>2. ASSUME NEW x \in LinesOf(text) PROVE x \in LinesOf(first)
    <3>1. PICK i \in 1 .. Len(text) : text[i] = x
      BY <2>2 DEF LinesOf
    <3>2. Len(text) \in Nat
      OBVIOUS
    <3>3. i + 1 \in 1 .. Len(first) /\ first[i + 1] = x
      BY <1>5, <1>6, <3>1, <3>2
    <3> QED BY <1>5, <3>3 DEF LinesOf
  <2>3. line \in LinesOf(first)
    BY <1>5, <1>6 DEF LinesOf
  <2> QED BY <2>1, <2>2, <2>3
<1>8. joined \in Seq(Line) /\ Len(joined) = Len(text)
  <2>1. CASE text = <<>>
    <3>1. [<<>> EXCEPT ![0] = Merged] = <<>> /\ Len(text) = 0
      BY <2>1, EmptySeq
    <3>2. joined = text
      BY <2>1, <3>1 DEF joined
    <3> QED BY <3>2
  <2>2. CASE text # <<>>
    <3>1. Len(text) \in 1 .. Len(text)
      BY <2>2, EmptySeq
    <3> QED BY <1>1, <3>1, ExceptSeq DEF joined
  <2> QED BY <2>1, <2>2
<1>9. LinesOf(joined) \subseteq LinesOf(text) \cup {Merged}
  <2>1. \A i \in 1 .. Len(text) : joined[i] \in {text[i], Merged}
    BY DEF joined
  <2> QED BY <1>8, <2>1 DEF LinesOf
<1> QED BY <1>2, <1>3, <1>5, <1>7, <1>8, <1>9 DEF last, first, joined

\* What allow and the user make of the lines of allow.txt.
LEMMA AllowAdds ==
  ASSUME allowTxt \in Seq(Line), NEW line \in Lines, Allow(line)
  PROVE  /\ line \in Line
         /\ allowTxt' \in Seq(Line)
         /\ terminated => LinesOf(allowTxt') = LinesOf(allowTxt) \cup {line}
         /\ LinesOf(allowTxt') \subseteq LinesOf(allowTxt) \cup {line, Merged}
         /\ Merged.form = "other"
<1>1. line \in Line
  BY ProxyServerAssumption
<1>2. CASE terminated
  <2>1. allowTxt' = Append(allowTxt, line)
    BY <1>2 DEF Allow, Appended
  <2>2. allowTxt' \in Seq(Line) /\ LinesOf(allowTxt') = LinesOf(allowTxt) \cup {line}
    BY <1>1, <2>1, LineAdded
  <2> QED BY <1>1, <2>2 DEF Merged
<1>3. CASE ~terminated
  <2>1. allowTxt' = [allowTxt EXCEPT ![Len(allowTxt)] = Merged]
    BY <1>3 DEF Allow, Appended
  <2>2. allowTxt' \in Seq(Line) /\ LinesOf(allowTxt') \subseteq LinesOf(allowTxt) \cup {Merged}
    BY <1>1, <2>1, LineAdded
  <2> QED BY <1>1, <1>3, <2>2 DEF Merged
<1> QED BY <1>2, <1>3

LEMMA UserAddsOne ==
  ASSUME allowTxt \in Seq(Line), NEW line \in Lines, UserAdds(line)
  PROVE  /\ line \in Line
         /\ allowTxt' \in Seq(Line)
         /\ LinesOf(allowTxt') = LinesOf(allowTxt) \cup {line}
<1>1. line \in Line
  BY ProxyServerAssumption
<1>2. CASE allowTxt' = Append(allowTxt, line)
  BY <1>1, <1>2, LineAdded
<1>3. CASE allowTxt' = <<line>> \o allowTxt
  BY <1>1, <1>3, LineAdded
<1> QED BY <1>2, <1>3 DEF UserAdds

-----------------------------------------------------------------------------
(* Types                                                                   *)

\* No connection is one.
LEMMA NoConnection == NoConn \in Connection
  BY DEF NoConn, Connection

\* Forwarding keeps the types.
LEMMA ForwardTypes ==
  ASSUME conn \in [Conns -> Connection], NEW c \in Conns,
         NEW out \in {"whole", "redacted", "part"},
         NEW status \in {"none", "clean", "full", "passthrough"},
         Forward(c, out, status)
  PROVE  conn' \in [Conns -> Connection]
<1> DEFINE k == [conn[c] EXCEPT !.stage = "forwarded", !.out = out, !.status = status]
<1>1. conn[c] \in Connection
  OBVIOUS
<1>2. k \in Connection
  BY <1>1 DEF Connection
<1>3. conn' = [conn EXCEPT ![c] = k]
  BY <1>1 DEF Forward, Connection
<1> QED BY <1>2, <1>3

\* Every step keeps the types.
THEOREM TypesInductive == TypeOK /\ [Next]_vars => TypeOK'
<1> SUFFICES ASSUME TypeOK, [Next]_vars
             PROVE  TypeOK'
  OBVIOUS
<1> USE ProxyServerAssumption
<1> USE DEF file, proxy, vars, Note, NoteIf, FaultKinds, TypeOK
<1>1. ASSUME NEW line \in Lines, Allow(line) PROVE TypeOK'
  BY <1>1, AllowAdds DEF Allow
<1>2. ASSUME NEW line \in Lines, UserAdds(line) PROVE TypeOK'
  BY <1>2, UserAddsOne DEF UserAdds
<1>3. ASSUME UserClears PROVE TypeOK'
  BY <1>3, EmptySeq DEF UserClears
<1>4. ASSUME New PROVE TypeOK'
  <2>1. LinesOf(allowTxt) \subseteq Line
    BY ElementOfSeq DEF LinesOf
  <2> QED BY <1>4, <2>1 DEF New, NewAllowlist
<1>5. ASSUME ProcessEnds PROVE TypeOK'
  BY <1>5, NoConnection DEF ProcessEnds, NoConn
<1>6. ASSUME NEW s \in Servers, Start(s) PROVE TypeOK'
  BY <1>6 DEF Start
<1>7. ASSUME NEW s \in Servers, Serve(s) PROVE TypeOK'
  BY <1>7 DEF Serve
<1>8. ASSUME StartFails PROVE TypeOK'
  BY <1>8 DEF StartFails
<1>9. ASSUME Stop PROVE TypeOK'
  <2>1. conn' \in [Conns -> Connection]
    BY <1>9, NoConnection DEF Stop, ClosedWith
  <2> QED BY <1>9, <2>1 DEF Stop
<1>10. ASSUME NEW c \in Conns, Accept(c) PROVE TypeOK'
  <2> PICK s \in Servers : conn' = [conn EXCEPT ![c].stage = "accepted", ![c].srv = s]
    BY <1>10 DEF Accept
  <2> DEFINE k == [conn[c] EXCEPT !.stage = "accepted", !.srv = s]
  <2>1. conn[c] \in Connection
    OBVIOUS
  <2>2. k \in Connection
    BY <2>1 DEF Connection
  <2>3. conn' = [conn EXCEPT ![c] = k]
    BY <2>1 DEF Connection
  <2>4. conn' \in [Conns -> Connection]
    BY <2>2, <2>3
  <2> QED BY <1>10, <2>4 DEF Accept
<1>11. ASSUME NEW c \in Conns, NEW host \in Hosts, Connect(c, host) PROVE TypeOK'
  <2> DEFINE k == [conn[c] EXCEPT !.stage = "ready", !.host = host, !.srv = None,
                                !.via = IF Match(patterns, host) THEN "mitm" ELSE "tunnel"]
  <2>1. conn[c] \in Connection
    OBVIOUS
  <2>2. k \in Connection
    BY <2>1 DEF Connection
  <2>3. conn' = [conn EXCEPT ![c] = k]
    BY <1>11, <2>1 DEF Connect, Connection
  <2>4. conn' \in [Conns -> Connection]
    BY <2>2, <2>3
  <2> QED BY <1>11, <2>4 DEF Connect
<1>12. ASSUME NEW c \in Conns, NEW host \in Hosts, NEW body \in {"words", "secret"}, PlainRequest(c, host, body)
      PROVE  TypeOK'
  <2> DEFINE k == [conn[c] EXCEPT !.stage = "reading", !.host = host, !.via = "plain", !.body = body]
  <2>1. conn[c] \in Connection
    OBVIOUS
  <2>2. k \in Connection
    BY <2>1 DEF Connection
  <2>3. conn' = [conn EXCEPT ![c] = k]
    BY <1>12, <2>1 DEF PlainRequest, Connection
  <2>4. conn' \in [Conns -> Connection]
    BY <2>2, <2>3
  <2> QED BY <1>12, <2>4 DEF PlainRequest
<1>13. ASSUME NEW c \in Conns, NEW body \in {"none", "words", "secret"}, Request(c, body)
      PROVE  TypeOK'
  <2> DEFINE k == [conn[c] EXCEPT !.stage = "reading", !.body = body, !.out = "none", !.status = "none"]
  <2>1. conn[c] \in Connection
    OBVIOUS
  <2>2. k \in Connection
    BY <2>1 DEF Connection
  <2>3. conn' = [conn EXCEPT ![c] = k]
    BY <1>13, <2>1 DEF Request, Connection
  <2>4. conn' \in [Conns -> Connection]
    BY <2>2, <2>3
  <2> QED BY <1>13, <2>4 DEF Request
<1>14. ASSUME NEW c \in Conns, HandleRequest(c) PROVE TypeOK'
  BY <1>14, ForwardTypes DEF HandleRequest
<1>15. ASSUME NEW c \in Conns, HandleRequestReadFails(c) PROVE TypeOK'
  BY <1>15, ForwardTypes DEF HandleRequestReadFails
<1>16. ASSUME NEW c \in Conns, Tunnel(c) PROVE TypeOK'
  BY <1>16, ForwardTypes DEF Tunnel
<1>17. ASSUME NEW c \in Conns, Answer(c) PROVE TypeOK'
  <2> DEFINE k == [conn[c] EXCEPT !.stage = "answered"]
  <2>1. conn[c] \in Connection
    OBVIOUS
  <2>2. k \in Connection
    BY <2>1 DEF Connection
  <2>3. conn' = [conn EXCEPT ![c] = k]
    BY <1>17, <2>1 DEF Answer, Connection
  <2>4. conn' \in [Conns -> Connection]
    BY <2>2, <2>3
  <2> QED BY <1>17, <2>4 DEF Answer
<1>18. ASSUME NEW c \in Conns, UpstreamFails(c) PROVE TypeOK'
  <2> DEFINE k == [conn[c] EXCEPT !.stage = "answered", !.status = "none"]
  <2>1. conn[c] \in Connection
    OBVIOUS
  <2>2. k \in Connection
    BY <2>1 DEF Connection
  <2>3. conn' = [conn EXCEPT ![c] = k]
    BY <1>18, <2>1 DEF UpstreamFails, Connection
  <2>4. conn' \in [Conns -> Connection]
    BY <2>2, <2>3
  <2> QED BY <1>18, <2>4 DEF UpstreamFails
<1>19. ASSUME NEW c \in Conns, Disconnect(c) PROVE TypeOK'
  BY <1>19, NoConnection DEF Disconnect
<1>20. CASE UNCHANGED vars
  BY <1>20 DEF vars
<1> HIDE DEF TypeOK
<1> QED
  BY <1>1, <1>2, <1>3, <1>4, <1>5, <1>6, <1>7, <1>8, <1>9, <1>10, <1>11,
     <1>12, <1>13, <1>14, <1>15, <1>16, <1>17, <1>18, <1>19, <1>20 DEF Next

\* Every variable holds values of the kind the code gives it.
THEOREM TypeCorrect == Spec => []TypeOK
<1>1. Init => TypeOK
  BY ProxyServerAssumption, EmptySeq, NoConnection DEF Init, TypeOK
<1> QED
  BY <1>1, TypesInductive, PTL DEF Spec

-----------------------------------------------------------------------------
(* What allow has promised                                                 *)

\* What allow has added is a line of the file, as long as every line is
\* terminated.
FileInv ==
  "unterminated" \notin seen => terminated /\ added \subseteq LinesOf(allowTxt)

\* Only a line that is not meant to name a host may hold none.
Named(lines) == \A line \in lines : line.form \in {"exact", "wild"} => line.host # <<>>

NamedInv == Named(added) /\ Named(LinesOf(allowTxt)) /\ Named(patterns)

\* The patterns of a process hold every line it was promised to.
PatternInv ==
  up /\ Without({"unterminated", "unreadable"}) =>
    \A line \in Defaults \cup promised : line.form # "comment" => line \in patterns

\* The file keeps what was added, and a process what the file held.
LEMMA PatternsInductive == TypeOK /\ FileInv /\ PatternInv /\ [Next]_vars => FileInv' /\ PatternInv'
<1> SUFFICES ASSUME TypeOK, FileInv, PatternInv, [Next]_vars
             PROVE  FileInv' /\ PatternInv'
  OBVIOUS
<1> USE ProxyServerAssumption
<1> USE DEF file, proxy, vars, Note, NoteIf, FaultKinds, FileInv,
            PatternInv, Without, TypeOK
<1>1. ASSUME NEW line \in Lines, Allow(line) PROVE FileInv' /\ PatternInv'
  BY <1>1, AllowAdds DEF Allow
<1>2. ASSUME NEW line \in Lines, UserAdds(line) PROVE FileInv' /\ PatternInv'
  BY <1>2, UserAddsOne DEF UserAdds
<1>3. ASSUME UserClears PROVE FileInv' /\ PatternInv'
  BY <1>3 DEF UserClears, LinesOf
<1>4. ASSUME New PROVE FileInv' /\ PatternInv'
  BY <1>4 DEF New, NewAllowlist
<1>5. ASSUME ProcessEnds PROVE FileInv' /\ PatternInv'
  BY <1>5 DEF ProcessEnds, NoConn
<1>6. ASSUME NEW s \in Servers, Start(s) PROVE FileInv' /\ PatternInv'
  BY <1>6 DEF Start
<1>7. ASSUME NEW s \in Servers, Serve(s) PROVE FileInv' /\ PatternInv'
  BY <1>7 DEF Serve
<1>8. ASSUME StartFails PROVE FileInv' /\ PatternInv'
  BY <1>8 DEF StartFails
<1>9. ASSUME Stop PROVE FileInv' /\ PatternInv'
  BY <1>9 DEF Stop, ClosedWith, NoConn
<1>10. ASSUME NEW c \in Conns, Accept(c) PROVE FileInv' /\ PatternInv'
  BY <1>10 DEF Accept
<1>11. ASSUME NEW c \in Conns, NEW host \in Hosts, Connect(c, host)
      PROVE  FileInv' /\ PatternInv'
  BY <1>11 DEF Connect
<1>12. ASSUME NEW c \in Conns, NEW host \in Hosts, NEW body \in {"words", "secret"}, PlainRequest(c, host, body)
      PROVE  FileInv' /\ PatternInv'
  BY <1>12 DEF PlainRequest
<1>13. ASSUME NEW c \in Conns, NEW body \in {"none", "words", "secret"}, Request(c, body)
      PROVE  FileInv' /\ PatternInv'
  BY <1>13 DEF Request
<1>14. ASSUME NEW c \in Conns, HandleRequest(c) PROVE FileInv' /\ PatternInv'
  BY <1>14 DEF HandleRequest, Forward
<1>15. ASSUME NEW c \in Conns, HandleRequestReadFails(c) PROVE FileInv' /\ PatternInv'
  BY <1>15 DEF HandleRequestReadFails, Forward
<1>16. ASSUME NEW c \in Conns, Tunnel(c) PROVE FileInv' /\ PatternInv'
  BY <1>16 DEF Tunnel, Forward
<1>17. ASSUME NEW c \in Conns, Answer(c) PROVE FileInv' /\ PatternInv'
  BY <1>17 DEF Answer
<1>18. ASSUME NEW c \in Conns, UpstreamFails(c) PROVE FileInv' /\ PatternInv'
  BY <1>18 DEF UpstreamFails
<1>19. ASSUME NEW c \in Conns, Disconnect(c) PROVE FileInv' /\ PatternInv'
  BY <1>19 DEF Disconnect, NoConn
<1>20. CASE UNCHANGED vars
  BY <1>20 DEF vars
<1> QED
  BY <1>1, <1>2, <1>3, <1>4, <1>5, <1>6, <1>7, <1>8, <1>9, <1>10, <1>11,
     <1>12, <1>13, <1>14, <1>15, <1>16, <1>17, <1>18, <1>19, <1>20 DEF Next

\* No line that is meant to name a host holds none.
LEMMA NamedInductive == TypeOK /\ NamedInv /\ [Next]_vars => NamedInv'
<1> SUFFICES ASSUME TypeOK, NamedInv, [Next]_vars
             PROVE  NamedInv'
  OBVIOUS
<1> USE ProxyServerAssumption
<1> USE DEF file, proxy, vars, Note, NoteIf, FaultKinds, NamedInv, Named,
            TypeOK
<1>1. ASSUME NEW line \in Lines, Allow(line) PROVE NamedInv'
  BY <1>1, AllowAdds DEF Allow
<1>2. ASSUME NEW line \in Lines, UserAdds(line) PROVE NamedInv'
  BY <1>2, UserAddsOne DEF UserAdds
<1>3. ASSUME UserClears PROVE NamedInv'
  BY <1>3 DEF UserClears, LinesOf
<1>4. ASSUME New PROVE NamedInv'
  BY <1>4 DEF New, NewAllowlist
<1>5. ASSUME ProcessEnds PROVE NamedInv'
  BY <1>5 DEF ProcessEnds, NoConn
<1>6. ASSUME NEW s \in Servers, Start(s) PROVE NamedInv'
  BY <1>6 DEF Start
<1>7. ASSUME NEW s \in Servers, Serve(s) PROVE NamedInv'
  BY <1>7 DEF Serve
<1>8. ASSUME StartFails PROVE NamedInv'
  BY <1>8 DEF StartFails
<1>9. ASSUME Stop PROVE NamedInv'
  BY <1>9 DEF Stop, ClosedWith, NoConn
<1>10. ASSUME NEW c \in Conns, Accept(c) PROVE NamedInv'
  BY <1>10 DEF Accept
<1>11. ASSUME NEW c \in Conns, NEW host \in Hosts, Connect(c, host) PROVE NamedInv'
  BY <1>11 DEF Connect
<1>12. ASSUME NEW c \in Conns, NEW host \in Hosts, NEW body \in {"words", "secret"}, PlainRequest(c, host, body)
      PROVE  NamedInv'
  BY <1>12 DEF PlainRequest
<1>13. ASSUME NEW c \in Conns, NEW body \in {"none", "words", "secret"}, Request(c, body)
      PROVE  NamedInv'
  BY <1>13 DEF Request
<1>14. ASSUME NEW c \in Conns, HandleRequest(c) PROVE NamedInv'
  BY <1>14 DEF HandleRequest, Forward
<1>15. ASSUME NEW c \in Conns, HandleRequestReadFails(c) PROVE NamedInv'
  BY <1>15 DEF HandleRequestReadFails, Forward
<1>16. ASSUME NEW c \in Conns, Tunnel(c) PROVE NamedInv'
  BY <1>16 DEF Tunnel, Forward
<1>17. ASSUME NEW c \in Conns, Answer(c) PROVE NamedInv'
  BY <1>17 DEF Answer
<1>18. ASSUME NEW c \in Conns, UpstreamFails(c) PROVE NamedInv'
  BY <1>18 DEF UpstreamFails
<1>19. ASSUME NEW c \in Conns, Disconnect(c) PROVE NamedInv'
  BY <1>19 DEF Disconnect, NoConn
<1>20. CASE UNCHANGED vars
  BY <1>20 DEF vars
<1> QED
  BY <1>1, <1>2, <1>3, <1>4, <1>5, <1>6, <1>7, <1>8, <1>9, <1>10, <1>11,
     <1>12, <1>13, <1>14, <1>15, <1>16, <1>17, <1>18, <1>19, <1>20 DEF Next

-----------------------------------------------------------------------------
(* Connections                                                             *)

\* Nothing is open without a process.
DownInv ==
  ~up => /\ \A s \in Servers : srv[s] = "unused"
         /\ \A c \in Conns : conn[c].stage = "none"

\* A process that has ended leaves nothing open.
LEMMA DownInductive == TypeOK /\ DownInv /\ [Next]_vars => DownInv'
<1> SUFFICES ASSUME TypeOK, DownInv, [Next]_vars
             PROVE  DownInv'
  OBVIOUS
<1> USE DEF file, proxy, vars, Note, NoteIf, FaultKinds, DownInv, TypeOK
<1>1. ASSUME NEW line \in Lines, Allow(line) PROVE DownInv'
  BY <1>1 DEF Allow
<1>2. ASSUME NEW line \in Lines, UserAdds(line) PROVE DownInv'
  BY <1>2 DEF UserAdds
<1>3. ASSUME UserClears PROVE DownInv'
  BY <1>3 DEF UserClears
<1>4. ASSUME New PROVE DownInv'
  BY <1>4 DEF New
<1>5. ASSUME ProcessEnds PROVE DownInv'
  BY <1>5 DEF ProcessEnds, NoConn
<1>6. ASSUME NEW s \in Servers, Start(s) PROVE DownInv'
  BY <1>6 DEF Start
<1>7. ASSUME NEW s \in Servers, Serve(s) PROVE DownInv'
  BY <1>7 DEF Serve
<1>8. ASSUME StartFails PROVE DownInv'
  BY <1>8 DEF StartFails
<1>9. ASSUME Stop PROVE DownInv'
  BY <1>9 DEF Stop, ClosedWith, NoConn
<1>10. ASSUME NEW c \in Conns, Accept(c) PROVE DownInv'
  BY <1>10 DEF Accept
<1>11. ASSUME NEW c \in Conns, NEW host \in Hosts, Connect(c, host) PROVE DownInv'
  BY <1>11 DEF Connect
<1>12. ASSUME NEW c \in Conns, NEW host \in Hosts, NEW body \in {"words", "secret"}, PlainRequest(c, host, body)
      PROVE  DownInv'
  BY <1>12 DEF PlainRequest
<1>13. ASSUME NEW c \in Conns, NEW body \in {"none", "words", "secret"}, Request(c, body)
      PROVE  DownInv'
  BY <1>13 DEF Request
<1>14. ASSUME NEW c \in Conns, HandleRequest(c) PROVE DownInv'
  BY <1>14 DEF HandleRequest, Forward
<1>15. ASSUME NEW c \in Conns, HandleRequestReadFails(c) PROVE DownInv'
  BY <1>15 DEF HandleRequestReadFails, Forward
<1>16. ASSUME NEW c \in Conns, Tunnel(c) PROVE DownInv'
  BY <1>16 DEF Tunnel, Forward
<1>17. ASSUME NEW c \in Conns, Answer(c) PROVE DownInv'
  BY <1>17 DEF Answer
<1>18. ASSUME NEW c \in Conns, UpstreamFails(c) PROVE DownInv'
  BY <1>18 DEF UpstreamFails
<1>19. ASSUME NEW c \in Conns, Disconnect(c) PROVE DownInv'
  BY <1>19 DEF Disconnect, NoConn
<1>20. CASE UNCHANGED vars
  BY <1>20 DEF vars
<1> QED
  BY <1>1, <1>2, <1>3, <1>4, <1>5, <1>6, <1>7, <1>8, <1>9, <1>10, <1>11,
     <1>12, <1>13, <1>14, <1>15, <1>16, <1>17, <1>18, <1>19, <1>20 DEF Next

\* Which way a connection goes, and what has gone over it.
Way(k) ==
  /\ k.stage \in {"ready", "reading", "forwarded", "answered"} =>
       \/ k.via = "plain" /\ "plain" \in seen
       \/ k.via = "mitm" /\ Match(patterns, k.host)
       \/ k.via = "tunnel" /\ ~Match(patterns, k.host)
  /\ k.stage \in {"forwarded", "answered"} =>
       /\ k.via = "tunnel" => k.out = "whole" /\ k.status = "none"
       /\ k.via # "tunnel" /\ k.body = "secret" =>
            k.out = "redacted" \/ ("cut" \in seen /\ k.status \notin {"clean", "full"})

WayInv == \A c \in Conns : Way(conn[c])

\* Each step of a connection keeps to its way, and the patterns of a process
\* never change.
LEMMA WayInductive == TypeOK /\ DownInv /\ WayInv /\ [Next]_vars => WayInv'
<1> SUFFICES ASSUME TypeOK, DownInv, WayInv, [Next]_vars
             PROVE  WayInv'
  OBVIOUS
<1> USE DEF file, proxy, vars, Note, NoteIf, FaultKinds, WayInv, Way,
            TypeOK, Connection
<1>1. ASSUME NEW line \in Lines, Allow(line) PROVE WayInv'
  BY <1>1 DEF Allow
<1>2. ASSUME NEW line \in Lines, UserAdds(line) PROVE WayInv'
  BY <1>2 DEF UserAdds
<1>3. ASSUME UserClears PROVE WayInv'
  BY <1>3 DEF UserClears
<1>4. ASSUME New PROVE WayInv'
  BY <1>4 DEF New, DownInv
<1>5. ASSUME ProcessEnds PROVE WayInv'
  BY <1>5 DEF ProcessEnds, NoConn
<1>6. ASSUME NEW s \in Servers, Start(s) PROVE WayInv'
  BY <1>6 DEF Start
<1>7. ASSUME NEW s \in Servers, Serve(s) PROVE WayInv'
  BY <1>7 DEF Serve
<1>8. ASSUME StartFails PROVE WayInv'
  BY <1>8 DEF StartFails
<1>9. ASSUME Stop PROVE WayInv'
  BY <1>9 DEF Stop, ClosedWith, NoConn
<1>10. ASSUME NEW c \in Conns, Accept(c) PROVE WayInv'
  BY <1>10 DEF Accept
<1>11. ASSUME NEW c \in Conns, NEW host \in Hosts, Connect(c, host) PROVE WayInv'
  BY <1>11 DEF Connect
<1>12. ASSUME NEW c \in Conns, NEW host \in Hosts, NEW body \in {"words", "secret"}, PlainRequest(c, host, body)
      PROVE  WayInv'
  BY <1>12 DEF PlainRequest
<1>13. ASSUME NEW c \in Conns, NEW body \in {"none", "words", "secret"}, Request(c, body)
      PROVE  WayInv'
  BY <1>13 DEF Request
<1>14. ASSUME NEW c \in Conns, HandleRequest(c) PROVE WayInv'
  BY <1>14 DEF HandleRequest, Forward
<1>15. ASSUME NEW c \in Conns, HandleRequestReadFails(c) PROVE WayInv'
  BY <1>15 DEF HandleRequestReadFails, Forward
<1>16. ASSUME NEW c \in Conns, Tunnel(c) PROVE WayInv'
  BY <1>16 DEF Tunnel, Forward
<1>17. ASSUME NEW c \in Conns, Answer(c) PROVE WayInv'
  BY <1>17 DEF Answer
<1>18. ASSUME NEW c \in Conns, UpstreamFails(c) PROVE WayInv'
  BY <1>18 DEF UpstreamFails
<1>19. ASSUME NEW c \in Conns, Disconnect(c) PROVE WayInv'
  BY <1>19 DEF Disconnect, NoConn
<1>20. CASE UNCHANGED vars
  BY <1>20 DEF vars
<1> QED
  BY <1>1, <1>2, <1>3, <1>4, <1>5, <1>6, <1>7, <1>8, <1>9, <1>10, <1>11,
     <1>12, <1>13, <1>14, <1>15, <1>16, <1>17, <1>18, <1>19, <1>20 DEF Next

\* The invariant of allowlist and connections.
WayFacts == FileInv /\ PatternInv /\ NamedInv /\ DownInv /\ WayInv

LEMMA WayHolds == Spec => []WayFacts
<1>1. Init => WayFacts
  BY EmptySeq DEF Init, WayFacts, FileInv, PatternInv, NamedInv, Named, LinesOf, DownInv, WayInv, Way, NoConn
<1>2. TypeOK /\ WayFacts /\ [Next]_vars => WayFacts'
  BY PatternsInductive, NamedInductive, DownInductive, WayInductive DEF WayFacts
<1> QED
  BY <1>1, <1>2, TypeCorrect, PTL DEF Spec

\* A secret never leaves for a host that was promised, at any time, over
\* whichever connection (AddedAreRedacted).
THEOREM AlwaysAddedAreRedacted == Spec => []AddedAreRedacted
<1>1. TypeOK /\ WayFacts => AddedAreRedacted
  <2> SUFFICES ASSUME TypeOK, WayFacts, Without({"unterminated", "unreadable", "cut"}),
                      NEW c \in Conns, conn[c].stage \in {"forwarded", "answered"},
                      conn[c].body = "secret",
                      NEW line \in Defaults \cup promised, Names(line, conn[c].host)
               PROVE  conn[c].out = "redacted"
    BY DEF AddedAreRedacted
  <2>1. up
    BY DEF WayFacts, DownInv
  <2>2. line \in patterns
    BY <2>1 DEF WayFacts, PatternInv, Without, Names
  <2>3. Match(patterns, conn[c].host)
    <3>1. conn[c].host \in Hosts \cup {<<>>}
      BY DEF TypeOK, Connection
    <3>2. CASE conn[c].host \in Hosts
      BY <2>2, <3>2, MatchIsNames DEF TypeOK, WayFacts, NamedInv, Named
    <3>3. CASE conn[c].host = <<>>
      BY <2>2, <3>3 DEF Names, Match
    <3> QED BY <3>1, <3>2, <3>3
  <2>4. conn[c].via # "tunnel" /\ "cut" \notin seen
    BY <2>3 DEF WayFacts, WayInv, Way, Without
  <2> QED BY <2>4 DEF WayFacts, WayInv, Way
<1> QED
  BY <1>1, WayHolds, TypeCorrect, PTL

\* What no line names goes through untouched, and an answer says "full" or
\* "clean" only to a request that carried no secret any more
\* (OthersAreTunnelled).
THEOREM AlwaysOthersAreTunnelled == Spec => []OthersAreTunnelled
<1>1. TypeOK /\ WayFacts => OthersAreTunnelled
  <2> SUFFICES ASSUME TypeOK, WayFacts, "plain" \notin seen,
                      NEW c \in Conns, conn[c].stage \in {"forwarded", "answered"}
               PROVE  /\ (\A line \in patterns : ~Names(line, conn[c].host)) =>
                           conn[c].out = "whole" /\ conn[c].status = "none"
                      /\ conn[c].status \in {"full", "clean"} /\ conn[c].body = "secret" =>
                           conn[c].out = "redacted"
    BY DEF OthersAreTunnelled, Without
  <2>1. Way(conn[c])
    BY DEF WayFacts, WayInv
  <2>2. ASSUME Match(patterns, conn[c].host) PROVE \E line \in patterns : Names(line, conn[c].host)
    <3>1. conn[c].host \in Hosts \cup {<<>>}
      BY DEF TypeOK, Connection
    <3>2. CASE conn[c].host \in Hosts
      BY <2>2, <3>2, MatchIsNames DEF TypeOK, WayFacts, NamedInv, Named
    <3>3. CASE conn[c].host = <<>>
      <4>1. PICK line \in patterns : \/ line.form = "exact" /\ conn[c].host = line.host
                                     \/ line.form = "wild" /\ EndsWith(conn[c].host, line.host)
        BY <2>2 DEF Match
      <4>2. CASE line.form = "exact"
        BY <4>1, <4>2 DEF Names
      <4>3. CASE line.form = "wild"
        <5>1. line.host \in Seq(Labels) /\ line.host # <<>>
          BY <4>3 DEF TypeOK, Line, WayFacts, NamedInv, Named
        <5>2. Len(line.host) \in Nat /\ Len(line.host) > 0 /\ Len(<<>>) = 0
          BY <5>1, EmptySeq
        <5>3. Len(conn[c].host) >= Len(line.host)
          BY <4>1, <4>3 DEF EndsWith
        <5> QED BY <3>3, <5>2, <5>3
      <4> QED BY <4>1, <4>2, <4>3
    <3> QED BY <3>1, <3>2, <3>3
  <2> QED BY <2>1, <2>2 DEF Way
<1> QED
  BY <1>1, WayHolds, TypeCorrect, PTL

-----------------------------------------------------------------------------
(* Start and Stop                                                          *)

\* A Stop closes what its Start has opened, unless Start was called again.
LEMMA StopInductive == TypeOK /\ StopCloses /\ [Next]_vars => StopCloses'
<1> SUFFICES ASSUME TypeOK, StopCloses, [Next]_vars
             PROVE  StopCloses'
  OBVIOUS
<1> USE ProxyServerAssumption
<1> USE DEF file, proxy, vars, Note, NoteIf, FaultKinds, StopCloses, Open,
            Without, TypeOK
<1>1. ASSUME NEW line \in Lines, Allow(line) PROVE StopCloses'
  BY <1>1 DEF Allow
<1>2. ASSUME NEW line \in Lines, UserAdds(line) PROVE StopCloses'
  BY <1>2 DEF UserAdds
<1>3. ASSUME UserClears PROVE StopCloses'
  BY <1>3 DEF UserClears
<1>4. ASSUME New PROVE StopCloses'
  BY <1>4 DEF New
<1>5. ASSUME ProcessEnds PROVE StopCloses'
  BY <1>5 DEF ProcessEnds, NoConn
<1>6. ASSUME NEW s \in Servers, Start(s) PROVE StopCloses'
  BY <1>6 DEF Start
<1>7. ASSUME NEW s \in Servers, Serve(s) PROVE StopCloses'
  BY <1>7 DEF Serve
<1>8. ASSUME StartFails PROVE StopCloses'
  BY <1>8 DEF StartFails
<1>9. ASSUME Stop PROVE StopCloses'
  BY <1>9 DEF Stop, ClosedWith, NoConn
<1>10. ASSUME NEW c \in Conns, Accept(c) PROVE StopCloses'
  BY <1>10 DEF Accept
<1>11. ASSUME NEW c \in Conns, NEW host \in Hosts, Connect(c, host) PROVE StopCloses'
  BY <1>11 DEF Connect
<1>12. ASSUME NEW c \in Conns, NEW host \in Hosts, NEW body \in {"words", "secret"}, PlainRequest(c, host, body)
      PROVE  StopCloses'
  BY <1>12 DEF PlainRequest
<1>13. ASSUME NEW c \in Conns, NEW body \in {"none", "words", "secret"}, Request(c, body)
      PROVE  StopCloses'
  BY <1>13 DEF Request
<1>14. ASSUME NEW c \in Conns, HandleRequest(c) PROVE StopCloses'
  BY <1>14 DEF HandleRequest, Forward
<1>15. ASSUME NEW c \in Conns, HandleRequestReadFails(c) PROVE StopCloses'
  BY <1>15 DEF HandleRequestReadFails, Forward
<1>16. ASSUME NEW c \in Conns, Tunnel(c) PROVE StopCloses'
  BY <1>16 DEF Tunnel, Forward
<1>17. ASSUME NEW c \in Conns, Answer(c) PROVE StopCloses'
  BY <1>17 DEF Answer
<1>18. ASSUME NEW c \in Conns, UpstreamFails(c) PROVE StopCloses'
  BY <1>18 DEF UpstreamFails
<1>19. ASSUME NEW c \in Conns, Disconnect(c) PROVE StopCloses'
  BY <1>19 DEF Disconnect, NoConn
<1>20. CASE UNCHANGED vars
  BY <1>20 DEF vars
<1> QED
  BY <1>1, <1>2, <1>3, <1>4, <1>5, <1>6, <1>7, <1>8, <1>9, <1>10, <1>11,
     <1>12, <1>13, <1>14, <1>15, <1>16, <1>17, <1>18, <1>19, <1>20 DEF Next

\* While the proxy runs its server is open, and nothing else stays open but what
\* a goroutine is about to close (StopCloses).
THEOREM AlwaysStopCloses == Spec => []StopCloses
<1>1. Init => StopCloses
  BY DEF Init, StopCloses, Open
<1> QED
  BY <1>1, StopInductive, TypeCorrect, PTL DEF Spec

=============================================================================
