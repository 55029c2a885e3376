------------------------------ MODULE ProxyServer ------------------------------
(***************************************************************************)
(* The proxy as a server: New, Start, Stop and Addr (internal/proxy,       *)
(* proxy.go), the allowlist that decides which hosts are decrypted         *)
(* (allowlist.go), the command that extends it (runAllow in main.go), and  *)
(* the way of a request through the handlers.                              *)
(*                                                                         *)
(* A host is a sequence of labels; a line of allow.txt has a form:         *)
(*   "exact", "wild"   a host name, or *. and a host name                  *)
(*   "other"           anything else that is meant to name a host: with a  *)
(*                     port, as a URL, or two lines without a line break   *)
(*   "comment"         a comment or an empty line                          *)
(* Letter case and surrounding blanks, which are ignored, are left out.    *)
(* What handleBody does to a body is the subject of HandleBody: here it    *)
(* finds the secrets.  goproxy and net/http are modelled from their use:   *)
(* each CONNECT takes its connection away from the server; Close closes    *)
(* the connections that are left and the listeners that Serve has taken.   *)
(***************************************************************************)
EXTENDS Integers, Sequences, FiniteSets

CONSTANTS
  Hosts,     \* hosts that clients connect to
  Lines,     \* lines that a user may add: a bound
  Defaults,  \* the lines of DefaultAllowHosts
  MaxLines,  \* lines of allow.txt: a bound
  Servers,   \* the http.Servers of one process: a bound
  Conns,     \* client connections at one time: a bound
  Faults,    \* which events of FaultKinds may happen
  MaxSeen,   \* how many kinds of them in one behaviour: a bound
  None       \* no server

\* "unterminated"  allow.txt is left without a final line break by an editor
\* "unreadable"    allow.txt cannot be opened by New
\* "cut"           reading a body fails halfway
\* "plain"         a client sends a request without CONNECT
\* "again"         Start is called on a proxy that runs
FaultKinds == {"unterminated", "unreadable", "cut", "plain", "again"}

Labels == UNION {{h[i] : i \in DOMAIN h} : h \in Hosts}
Line == [form : {"exact", "wild", "other", "comment"}, host : Seq(Labels)]

ASSUME ProxyServerAssumption ==
  /\ Hosts \subseteq Seq(Labels)
  /\ Lines \subseteq Line
  /\ Defaults \subseteq Line
  /\ \A line \in Lines \cup Defaults : line.form \in {"exact", "wild"} => line.host # <<>>
  /\ Faults \subseteq FaultKinds
  /\ None \notin Servers

VARIABLES
  allowTxt,    \* the lines of allow.txt
  terminated,  \* the last of them ends in a line break
  added,       \* history: what allow has reported as added
  up,          \* there is a process with a Proxy
  patterns,    \* the allowlist of that Proxy
  promised,    \* history: what had been added when it was loaded
  srv,         \* each http.Server: "unused", "spawned", "serving", "closing", "closed"
  server,      \* p.server
  listener,    \* p.listener, as the server it was opened for
  running,     \* p.running
  conn,        \* each connection of a client
  seen         \* history: the kinds of faults that have happened

file  == <<allowTxt, terminated, added>>
proxy == <<srv, server, listener, running>>
vars  == <<file, up, patterns, promised, proxy, conn, seen>>

Note(kind) ==
  /\ kind \in Faults
  /\ seen' = seen \cup {kind}
  /\ Cardinality(seen') <= MaxSeen

NoteIf(condition, kind) == IF condition THEN Note(kind) ELSE UNCHANGED seen

-----------------------------------------------------------------------------
(* The allowlist                                                           *)

EndsWith(host, tail) ==
  /\ Len(host) >= Len(tail)
  /\ SubSeq(host, Len(host) - Len(tail) + 1, Len(host)) = tail

\* NewAllowlist drops comments.
NewAllowlist(lines) == {line \in lines : line.form # "comment"}

MatchAnyone(allow, host) ==
  \E line \in allow :
    line.form \in {"exact", "wild"} /\ line.host[Len(line.host)] = host[Len(host)]

MatchExactly(allow, host) == \E line \in allow : line.form # "other" /\ host = line.host

\* Match, of a host without its port.
Match(allow, host) ==
  \E line \in allow :
    \/ line.form = "exact" /\ host = line.host
    \/ line.form = "wild" /\ EndsWith(host, line.host)

LinesOf(text) == {text[i] : i \in DOMAIN text}

Merged == [form |-> "other", host |-> <<>>]

\* What appending a line makes of allow.txt: a last line without a line break
\* becomes one with it.
Appended(line) ==
  IF terminated THEN Append(allowTxt, line)
  ELSE [allowTxt EXCEPT ![Len(allowTxt)] = Merged]

\* redactr allow.
Allow(line) ==
  /\ line.form # "comment"
  /\ Len(allowTxt) < MaxLines
  /\ allowTxt' = Appended(line)
  /\ terminated' = TRUE
  /\ added' = added \cup {line}
  /\ UNCHANGED <<up, patterns, promised, proxy, conn, seen>>

\* The user adds a line by hand, as the last or the first one.
UserAdds(line) ==
  /\ Len(allowTxt) < MaxLines
  /\ \/ allowTxt' = Append(allowTxt, line) /\ terminated /\ terminated' \in BOOLEAN
     \/ allowTxt' = <<line>> \o allowTxt /\ UNCHANGED terminated
  /\ NoteIf(~terminated', "unterminated")
  /\ UNCHANGED <<added, up, patterns, promised, proxy, conn>>

\* The user empties the file.
UserClears ==
  /\ allowTxt # <<>>
  /\ allowTxt' = <<>>
  /\ terminated' = TRUE
  /\ added' = {}
  /\ UNCHANGED <<up, patterns, promised, proxy, conn, seen>>

-----------------------------------------------------------------------------
(* The process                                                             *)

Connection ==
  [stage : {"none", "accepted", "ready", "reading", "forwarded", "answered"},
   srv : Servers \cup {None},
   via : {"none", "mitm", "tunnel", "plain"},
   host : Hosts \cup {<<>>},
   body : {"none", "words", "secret"},
   out : {"none", "whole", "redacted", "part"},
   status : {"none", "clean", "full", "passthrough"}]

NoConn == [stage |-> "none", srv |-> None, via |-> "none", host |-> <<>>,
           body |-> "none", out |-> "none", status |-> "none"]

\* New loads the allowlist once.
New ==
  /\ ~up
  /\ up' = TRUE
  /\ \/ /\ patterns' = NewAllowlist(Defaults \cup LinesOf(allowTxt))
        /\ UNCHANGED seen
     \/ patterns' = NewAllowlist(Defaults) /\ Note("unreadable")
  /\ promised' = added
  /\ UNCHANGED <<file, proxy, conn>>

\* The process ends, and the system closes what it had open.
ProcessEnds ==
  /\ up
  /\ up' = FALSE
  /\ patterns' = {}
  /\ promised' = {}
  /\ srv' = [s \in Servers |-> "unused"]
  /\ server' = None
  /\ listener' = None
  /\ running' = FALSE
  /\ conn' = [c \in Conns |-> NoConn]
  /\ UNCHANGED <<file, seen>>

\* The servers with an open listener.
Open == {s \in Servers : srv[s] \in {"spawned", "serving", "closing"}}

\* The mutex makes Start and Stop one step each.  Port 0 is always free; any
\* other port is taken as long as a listener of an earlier Start is open.
Start(s) ==
  /\ up
  /\ srv[s] = "unused"
  /\ srv' = [srv EXCEPT ![s] = "spawned"]
  /\ server' = s
  /\ listener' = s
  /\ running' = TRUE
  /\ NoteIf(running, "again")
  /\ UNCHANGED <<file, up, patterns, promised, conn>>

\* Listen fails and p.listener is nil; whether the proxy runs is left alone.
StartFails ==
  /\ up
  /\ listener' = None
  /\ NoteIf(running, "again")
  /\ UNCHANGED <<file, up, patterns, promised, srv, server, running, conn>>

\* The goroutine of a Start takes the listener, or finds the server closed and
\* closes the listener.
Serve(s) ==
  /\ srv[s] \in {"spawned", "closing"}
  /\ srv' = [srv EXCEPT ![s] = IF @ = "spawned" THEN "serving" ELSE "closed"]
  /\ UNCHANGED <<file, up, patterns, promised, server, listener, running, conn, seen>>

\* Closing a server closes the connections that are still its own.
ClosedWith(s) == [c \in Conns |-> IF conn[c].srv = s THEN NoConn ELSE conn[c]]

StopKeepsServer ==
  /\ up /\ running
  /\ running' = FALSE
  /\ UNCHANGED <<file, up, patterns, promised, srv, server, listener, conn, seen>>

StopKeepsRunning ==
  /\ up /\ running
  /\ srv' = [srv EXCEPT ![server] = IF @ = "serving" THEN "closed" ELSE "closing"]
  /\ conn' = ClosedWith(server)
  /\ UNCHANGED <<file, up, patterns, promised, server, listener, running, seen>>

Stop ==
  /\ up /\ running
  /\ running' = FALSE
  /\ srv' = [srv EXCEPT ![server] = CASE @ = "spawned" -> "closing"
                                      [] @ = "serving" -> "closed"
                                      [] OTHER         -> @]
  /\ conn' = ClosedWith(server)
  /\ UNCHANGED <<file, up, patterns, promised, server, listener, seen>>

-----------------------------------------------------------------------------
(* Connections and requests                                                *)

Accept(c) ==
  /\ conn[c].stage = "none"
  /\ \E s \in Servers :
       /\ srv[s] = "serving"
       /\ conn' = [conn EXCEPT ![c].stage = "accepted", ![c].srv = s]
  /\ UNCHANGED <<file, up, patterns, promised, proxy, seen>>

\* The handler of CONNECT: decrypt, or tunnel.
Connect(c, host) ==
  /\ conn[c].stage = "accepted"
  /\ conn' = [conn EXCEPT ![c].stage = "ready", ![c].host = host,
                          ![c].srv = None,
                          ![c].via = IF Match(patterns, host) THEN "mitm" ELSE "tunnel"]
  /\ UNCHANGED <<file, up, patterns, promised, proxy, seen>>

\* A client sends a request; one without CONNECT reaches the same handlers.
Request(c, body) ==
  /\ conn[c].stage \in {"ready", "answered"}
  /\ conn' = [conn EXCEPT ![c].stage = "reading", ![c].body = body,
                          ![c].out = "none", ![c].status = "none"]
  /\ UNCHANGED <<file, up, patterns, promised, proxy, seen>>

PlainRequest(c, host, body) ==
  /\ conn[c].stage = "accepted"
  /\ Note("plain")
  /\ conn' = [conn EXCEPT ![c].stage = "reading", ![c].host = host,
                          ![c].via = "plain", ![c].body = body]
  /\ UNCHANGED <<file, up, patterns, promised, proxy>>

Forward(c, out, status) ==
  conn' = [conn EXCEPT ![c].stage = "forwarded", ![c].out = out, ![c].status = status]

\* The handler of requests: read, redact, set the status.
HandleRequest(c) ==
  /\ conn[c].stage = "reading" /\ conn[c].via # "tunnel"
  /\ IF conn[c].body = "secret" THEN Forward(c, "redacted", "full")
     ELSE Forward(c, "whole", "clean")
  /\ UNCHANGED <<file, up, patterns, promised, proxy, seen>>

\* What was read before the error goes out as it is.
HandleRequestReadFails(c) ==
  /\ conn[c].stage = "reading" /\ conn[c].via # "tunnel"
  /\ conn[c].body # "none"
  /\ Note("cut")
  /\ Forward(c, "part", "passthrough")
  /\ UNCHANGED <<file, up, patterns, promised, proxy>>

Tunnel(c) ==
  /\ conn[c].stage = "reading" /\ conn[c].via = "tunnel"
  /\ Forward(c, "whole", "none")
  /\ UNCHANGED <<file, up, patterns, promised, proxy, seen>>

\* The handler of responses stamps the status; without a response the client
\* sees none.
Answer(c) ==
  /\ conn[c].stage = "forwarded"
  /\ conn' = [conn EXCEPT ![c].stage = "answered"]
  /\ UNCHANGED <<file, up, patterns, promised, proxy, seen>>

UpstreamFails(c) ==
  /\ conn[c].stage = "forwarded"
  /\ conn' = [conn EXCEPT ![c].stage = "answered", ![c].status = "none"]
  /\ UNCHANGED <<file, up, patterns, promised, proxy, seen>>

Disconnect(c) ==
  /\ conn[c].stage # "none"
  /\ conn' = [conn EXCEPT ![c] = NoConn]
  /\ UNCHANGED <<file, up, patterns, promised, proxy, seen>>

-----------------------------------------------------------------------------
Init ==
  /\ allowTxt = <<>> /\ terminated = TRUE /\ added = {}
  /\ up = FALSE /\ patterns = {} /\ promised = {}
  /\ srv = [s \in Servers |-> "unused"]
  /\ server = None /\ listener = None /\ running = FALSE
  /\ conn = [c \in Conns |-> NoConn]
  /\ seen = {}

Next ==
  \/ \E line \in Lines : Allow(line) \/ UserAdds(line)
  \/ UserClears
  \/ New \/ ProcessEnds
  \/ \E s \in Servers : Start(s) \/ Serve(s)
  \/ StartFails \/ Stop
  \/ \E c \in Conns :
       \/ Accept(c)
       \/ \E host \in Hosts : \/ Connect(c, host)
                              \/ \E body \in {"words", "secret"} : PlainRequest(c, host, body)
       \/ \E body \in {"none", "words", "secret"} : Request(c, body)
       \/ HandleRequest(c) \/ HandleRequestReadFails(c) \/ Tunnel(c)
       \/ Answer(c) \/ UpstreamFails(c) \/ Disconnect(c)

Spec == Init /\ [][Next]_vars

\* The Go scheduler runs the goroutine that Start has begun.
FairSpec == Spec /\ \A s \in Servers : WF_vars(Serve(s))

-----------------------------------------------------------------------------
(* Properties                                                              *)

\* Every variable holds values of the kind the code gives it.
TypeOK ==
  /\ allowTxt \in Seq(Line)
  /\ terminated \in BOOLEAN
  /\ added \subseteq Line
  /\ up \in BOOLEAN
  /\ patterns \subseteq Line
  /\ promised \subseteq Line
  /\ srv \in [Servers -> {"unused", "spawned", "serving", "closing", "closed"}]
  /\ server \in Servers \cup {None}
  /\ listener \in Servers \cup {None}
  /\ running \in BOOLEAN
  /\ conn \in [Conns -> Connection]
  /\ seen \subseteq FaultKinds

Without(kinds) == seen \cap kinds = {}

\* A line is meant to name a host if it is that host or a domain it is in.
Names(line, host) ==
  \/ line.form = "exact" /\ line.host = host
  \/ line.form = "wild" /\ \E n \in 1 .. Len(host) : SubSeq(host, n, Len(host)) = line.host

\* "added ... restart the daemon to apply": no secret leaves for a host that
\* allow reported as added before the proxy was started, or for a default one,
\* over any connection that outlives whatever Start and Stop do.
AddedAreRedacted ==
  Without({"unterminated", "unreadable", "cut"}) =>
    \A c \in Conns :
      /\ conn[c].stage \in {"forwarded", "answered"}
      /\ conn[c].body = "secret"
      /\ \E line \in Defaults \cup promised : Names(line, conn[c].host)
      => conn[c].out = "redacted"

\* "Everything else is tunnelled untouched": what goes through a CONNECT to a
\* host that no line names arrives as it was sent, and nothing is stamped on
\* the answer; and an answer that says "full" or "clean" was to a request that
\* carried no secret any more.
OthersAreTunnelled ==
  Without({"plain"}) =>
    \A c \in Conns :
      conn[c].stage \in {"forwarded", "answered"} =>
        /\ (\A line \in patterns : ~Names(line, conn[c].host)) =>
              conn[c].out = "whole" /\ conn[c].status = "none"
        /\ conn[c].status \in {"full", "clean"} /\ conn[c].body = "secret" =>
              conn[c].out = "redacted"

\* After Stop nothing is served, and at most a goroutine that has not begun
\* keeps the port; while the proxy runs, Addr is the address that is open.
StopCloses ==
  Without({"again"}) =>
    /\ running => listener = server /\ srv[server] \in {"spawned", "serving"}
    /\ \A s \in Open : srv[s] = "closing" \/ (running /\ s = server)

\* After Stop the port becomes free, unless somebody starts the proxy again.
PortIsFreed ==
  up /\ ~running /\ Without({"again"}) ~> running \/ Open = {} \/ ~Without({"again"})

=============================================================================
