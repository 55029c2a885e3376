# A verification project for redactr-community

TLA+ models of redactr-community, checked with TLC and, where it matters most,
proved with TLAPS. Redactr is a local HTTPS proxy written in Go that replaces
secrets in the requests of AI tools; its commands route the whole machine
through it and back. Paths below are relative to the repository (`src/`).

## The system

| component | state it keeps | operations | module |
|---|---|---|---|
| system proxy switch (`internal/systemproxy`) | OS proxy settings; snapshot file `proxy-state.json` | `Set`, `Revert`, `IsSet`, one implementation per OS | `SystemProxy` (macOS), `SystemProxyKeys` (Linux, Windows), abstractly `ProxySwitch` |
| daemon manager (`internal/daemon`) | `daemon.json` (pid, port), the detached process | `IsRunning`, `Start`, `Stop` | `Lifecycle` |
| commands (`cmd/redactr/main.go`) | none of their own | `enable`, `disable [--untrust]`, `start`, `run`, `shell`, `__daemon`, `scan`, `allow`, `telemetry`; `status`, `doctor`, `ca` | `Lifecycle` and `Setup` (the first six), `FileScan`, `ProxyServer`, `Setup`; the last three only report |
| request bodies (`internal/proxy/proxy.go`, `handleBody`) | the map of literals to replace | collect, replace | `HandleBody` |
| proxy server (rest of `proxy.go`) | `listener`, `server`, `running`, goproxy's global CA | `New`, `Start`, `Stop`, `Addr`, CONNECT, request and response handlers | `ProxyServer` |
| allowlist (`internal/proxy/allowlist.go`) | patterns; `allow.txt` | `LoadAllowlist`, `Match`; `allow` appends | `ProxyServer` |
| scanner (`internal/scanner`) | compiled patterns | `Scan`, `Redact`, entropy | `Redaction` |
| file scan (`internal/filescan`) | the files | `Scan`, `RedactFile`, `runScan` | `FileScan` |
| CA and trust (`internal/certgen`, `internal/catrust`) | `ca.pem`, `ca.key`, OS trust store | `LoadOrCreateCA`, `Install`, `Remove`, `IsTrusted` | `Setup` |
| configuration (`internal/config`, `internal/cli`) | `config.json`, the directory | `Load`, `Save`, `Migrate`, `SetTelemetry`, first-run banner | `Setup` |
| telemetry (`internal/telemetry`, `telemetry/worker`) | session id, tickers | `Run`, `beat`; one request handler | whether a proxy sends: `Setup` |

How they interact. `enable` makes sure that a CA exists and is trusted, calls
`daemon.Start`, then `systemproxy.Set`. `daemon.Start` re-executes the binary as
`__daemon`, waits until the port answers and writes `daemon.json`. `disable`
calls `systemproxy.Revert`, then `daemon.Stop`, which signals the daemon; the
daemon's handler calls `systemproxy.Revert` too. So up to three processes work
on the same snapshot file and the same OS settings with no lock between them.
Inside the proxy each request goes through `handleBody`, which asks
`scanner.Scan` for the secrets of each content string; `scan --redact` uses
`scanner.Redact` on files.

What is hard here, in the order in which it matters:

* the switch is a sequence of commands that change the machine, any of which can
  fail and between any of which the process can be killed; what is left behind
  must be undoable, because *"if the daemon dies, all internet breaks"* (design
  document of the system-wide proxy, §9); and those who call `Revert`, `disable`
  and the daemon, do not look at its error;
* the lifecycle: bounded waits, signals that race their handlers, pid files
  that name dead processes, a port that somebody else listens on;
* a directory that every command reads and writes without a lock, in files that
  are truncated before they are written: consent, the CA, the user's settings;
* replacing text by literals in encoded bytes, in the random order of a Go map;
* rewriting the user's files in place, while the user and other scans work on them;
* offsets that are computed before the text they point into is changed.

The properties that make each part correct are the ones listed with the runs
below; the hazards, each at its line, are listed in `PROJECT.json`.

## The modules

**ProxySwitch** is the abstract promise of `internal/systemproxy`: traffic is
routed only while a snapshot exists, and the snapshot goes only when nothing is
routed. `SystemProxy` and `SystemProxyKeys` instantiate it with a refinement
mapping (`routed`: a service points at Redactr, respectively `IsSet`; `snapped`:
the state file exists) and check it as a property. `Lifecycle` looks at the switch
from its callers' side: one step each to create the state file, write it, route,
restore and forget, each of which can fail as the detailed modules say it can.

**SystemProxy** (`darwin.go`, `systemproxy.go`). `os` is the live setting of
every slot (https, http) of every service, `file` the state file (absent, torn,
or a snapshot), and each process has the locals of its call: `pc`, `todo` (the
services its loop has left), `cur`, `mem` (the snapshot in memory), `failed`
(`firstErr`). Each `networksetup` command and each file operation is one action:
`SetStat`, `ListServices`, `ReadServiceState`, `CreateStateFile`,
`WriteStateFile`, `SetSecureWebProxy`, `SetWebProxy`, `SetBypassDomains`,
`SetDone`; `RevertStat`, `LoadState`, `RevertHTTPS`, `RevertHTTP`,
`RemoveStateFile`. `SetFails`, `SaveFails` and `Killed` end a call early;
`Plug`, `Unplug`, `Edit` are the machine and its user. `orig` remembers what the
user last chose and `seen` which kinds of faults have happened: a property
states the faults it excludes by naming them. The bypass list is recorded as
overwritten only: no code ever restores it. `Recoverable` and `OffMeansRestored`
speak of where traffic goes (`Effective`), which is what `Revert` restores; that it
does not restore the rest is what the run `SystemProxyRestores` shows. Any error of
`os.Stat` but "does not exist" counts as a file that is there (fault "stat").

**SystemProxyKeys** (`linux.go`, `windows.go`). The same protocol on a few keys;
the variable `platform` is chosen once. The two differ in the keys, in the order
of `Set` (`SetOrder`: Windows names the server before it switches it on), in
values that may be missing, and in what a failing command means.

**Lifecycle** (`daemon.go`, `detach_*.go`, `main.go`). Terminals run `enable`,
`disable`, `start`, or `run` (which stands for `shell` too); daemons are processes
`boot → bound → serving → r_look → r_user → r_remove → exit → dead`. `bound`
is the window in which the daemon listens but has not called `signal.Notify` yet.
`file` is the state file: absent, torn, the user's settings, or a snapshot that was
taken while traffic was routed already (`ours`, and `r_ours` for its restoring).
`port` is whoever listens on 8080, `pidfile` the content of `daemon.json`. `last`
and `seen` are history. The two bounded waits (`Start`, 30 attempts; `Stop`, 3 s)
may run out at any moment, so no property depends on time. That the machine runs
Windows is an initial choice, treated as a kind of fault: there the interrupt is
not delivered, and a pid may look alive when its process has ended (`PidAlive`).
The CA steps of `enable` are in `Setup`. `Revert` fails here in every way it can: a
state file that does not parse, a command that does not take effect (the file is
removed all the same), a file that stays. Both of its callers go on as if it had
succeeded, as in the code (`main.go:269`, `:307`).

**Setup** (`config.go`, `cli.go`, `ca.go`, `catrust/*.go`, `client.go`,
`main.go`). What the commands do before, and next to, serving: `Migrate` (a stat
of each directory, a rename), `SetTelemetry` and `MaybeShowFirstRun` (load, mkdir,
truncate, write), `LoadOrCreateCA` (stat; read the certificate, read the key; or
generate, write the certificate, write the key), the pairing check of `proxy.New`,
listening, the look for consent, and `catrust`'s three operations on three
systems. `dir` and `legacy` are the two directories with the content of
`config.json`, `ca.pem` and `ca.key`; a file can be torn. A CA is named by its
key pair. A process that has begun as `enable` goes on as the daemon it spawned.
`StopDaemon` (`disable`, with `--untrust` or without) need not end the daemon: `Stop`
gives up after three seconds and removes `daemon.json` (`daemon.go:83-94`), and on
Windows the interrupt never arrives. Such a daemon is `stray`: it goes on serving,
holds the port, and no `disable` finds it any more.
`consent` is what the last `telemetry` command told the user. A serving proxy
sends telemetry if it found the consent when it started; it keeps the
configuration it found in `conf`. `run` of a graphical tool, which starts no
proxy, is not among the commands.

**ProxyServer** (`proxy.go` but `handleBody`, `allowlist.go`, `runAllow`).
`allowTxt` is the file as a sequence of lines, with `terminated` telling whether
the last has its line break; `patterns` is what `New` made of it. A host is a
sequence of labels, so that `*.` patterns are suffixes. `srv` follows each
`http.Server` from the goroutine of `Start` (`spawned`) through `Serve`
(`serving`) and `Close` (`closing` if it comes before `Serve`, else `closed`);
`server`, `listener` and `running` are the fields of the `Proxy`. A connection
goes from accepted, by CONNECT, to decrypted or tunnelled, and then through
requests; `out` is what upstream received, `status` what the client is told.

**FileScan** (`filescan.go`, `runScan`). A text is a sequence of passages:
ordinary words, a secret, a marker, and the two shapes (`keyed`, `keymark`) for
which redaction is not idempotent: an assignment whose value was replaced is
found again by the catch-all pattern. `Scan` passes over directories and large
files that `scan --redact` rewrites. `todo` are the paths a walk has left; it is
sure to come to those in `listed`, which were there when it began, and may come to
others. `os.WriteFile` is two steps, and two writers mix (`Written`). `saved`,
`since`, `last` and `seen` are history.

**Redaction** (`regex.go`, `redact.go`). The matches of the patterns are an
input; `Scan` is the suppression of entropy and catch-all findings, and the
state machine is `Redact`: the greedy selection in sort order, then the
replacement from right to left. The output is a sequence of pieces, a byte that
stays or the marker of a finding, so that a wrong offset shows.

**HandleBody** (`proxy.go`). A body is the sequence of its JSON strings with
quotes and escapes, a string being content, the billing header or structure.
Literals are looked for in decoded strings and replaced in encoded bytes, one
iteration of the map per step, in any order. A marker is a sequence of ordinary
letters, which a later literal may match across or inside, as the code's
`bytes.ReplaceAll` would: `ENV-SECRET` (`regex.go:68`) takes a marker for the value
of a key. Every byte remembers its position in the request, and every byte of a
marker its literal, so the properties can say which bytes are gone and which
markers are left. Which fields `collect` visits is abstracted to the kind of a string.

The `MC...` modules give the constants that a `.cfg` cannot write (sets of
records, symmetry). Operators such as `SnapshotAlways` or `ApplyShort` that no
action uses are faulty variants of the definition that follows them: with such
a variant in its place the property named in `PROJECT.json` must fail.

## The runs

States are distinct states; all runs take under two and a half minutes on two cores.

| run | instance | checks |
|---|---|---|
| SystemProxyFaults | 2 services, 2 processes, 1 prior; kills, failing commands, failing removal, and at most one of the five other faults (all but overlaps) in a behaviour; 411 k states | `Recoverable`, `OffMeansRestored`, `SuccessMeansOn`, `SnapshotKept`, `ImplementsSwitch` |
| SystemProxyKeys | both platforms, 2 processes, all faults but edit, at most one noted kind in a behaviour; 2.1 M | `Recoverable`, `OffMeansRestored`, `SuccessMeansOn`, `OnlyChosenRoutes`, `ImplementsSwitch` |
| Lifecycle | 2 terminals, 2 daemons, all eleven faults, one kind in a behaviour; 116 k | `Undoable`, `NoDeadProxy`, `OnMeansOn`, `OffMeansOff`, `NoOrphan`, `CommandsEnd`, `DisableStops` |
| Setup | 2 processes, 3 CAs, 3 systems, fresh or installed (this version or an older one), all seven faults, any two kinds in a behaviour, overlaps alone; 2.1 M | `NothingLeftBehind`, `ConsentKept`, `CALoads`, `SignsWithDisk`, `DaemonIsTrusted`, `UntrustRemoves` |
| ProxyServer | 3 hosts, 2 lines (a wildcard, a comment) and a default, 2 servers, 1 connection, all five faults, one kind in a behaviour; 324 k | `AddedAreRedacted`, `OthersAreTunnelled`, `StopCloses`, `PortIsFreed` |
| FileScan | 2 scans, 1 file under 2 paths, 3 texts, all five faults, at most two kinds in a behaviour; 959 k | `OnlyRedacted`, `DoneMeansRedacted`, `CleanMeansClean` |
| Redaction | every set of at most 3 matches on 5 bytes, 5 labels; 301 k | `ReportedIsTouched`, `Tiles`, `Redacted`, `MatchesAreRedacted` |
| HandleBody | 2 strings of at most 3 and 2 characters, 4 in all, 2 literals of at most 2, markers of 1 and 2 letters that literals may hold; 117 k | `FoundIsGone`, `CountsMarkers`, `Restorable`, `ExactWhenApart`, `StructureKept` |

Why these bounds are enough for what they are used for. Two services are what it
takes for a call to stop between services, two processes for every pairwise
interleaving of `Set` and `Revert`; a third caller only repeats the second. One
prior is enough for `SystemProxyFaults`, whose properties compare routes: a proxy in
use; the run that compares settings has three. `Lifecycle` needs a daemon that
serves and one that an `enable` after it, or beside it, starts: two. Each property
of it excludes its faults by name, so one kind in a behaviour tests each exclusion;
its invariants were also checked, once and outside the listed runs, with three
daemons and any three kinds in a behaviour (5.8 M states), which is too long to
repeat with liveness. `Setup` needs a CA that was trusted, one that replaced it and
one that replaced that, or two that concurrent first runs generate: three; two
processes give every pairwise race on a file. In `ProxyServer` a request meets one
allowlist and one server, so a second connection only repeats the first; two servers
are what a second `Start` needs, and two lines what an append needs to run into
another. In `FileScan` the file is in a skipped directory under one path and outside
under the other; two writers are what it takes to mix. In `Redaction` two findings
can nest, touch, start or end together, and a third makes the chains. Five bytes
leave room for three disjoint findings with bytes between them. In `HandleBody` two
literals can overlap, nest or touch a quote or an escape, and the second string
gives the replacement something to hit by accident. The letter of the markers is one
of the letters of the secrets, so that literals can match one, a part of one, or
across its border. `MaxSeen` (in five modules) bounds how many kinds of the noted
faults one behaviour may hold: every property excludes some kinds by name, so a
behaviour with more kinds tests fewer of them. `FaultSets` (`Setup`) names the sets
of kinds instead: any two, and overlapping commands without another fault, since all
but `NothingLeftBehind` exclude overlaps. Each excluded kind of `Lifecycle`,
`Setup`, `ProxyServer` and `FileScan` is needed: without it TLC finds a violation in
the same run (but that overlapping commands leave no outcome in `last`, so that
`OnMeansOn` and `OffMeansOff` name them for the reader only). So is the premise `NoMarkerMet` of `HandleBody` in each of the five
properties that have it. The Linux instance starts from one prior, a configured
proxy that is switched off, and the Windows one from three (in use, off, no values
at all); `MaxLiterals` (`HandleBody`) the literals of one request; `Pids`
(`Lifecycle`) the daemons that are ever started: when all are used a further
`enable` that needs one can only fail; `CAs` (`Setup`) likewise the CAs ever
generated, `MaxLines` and `Servers` (`ProxyServer`) the lines of the file and the
calls of `Start` in one process, `MaxLen` (`FileScan`) the mixtures of two writers.
Symmetry is used only in runs without liveness.

Deadlock is checked for the two switches, `ProxyServer` and `FileScan`, where
something can always begin. It is not for `Redaction` and `HandleBody`, which end,
nor for `Lifecycle` and `Setup`, where the daemons and the CAs can be used up.

Fairness. `Lifecycle` assumes weak fairness of the steps of a process that is in
the middle of something: the operating system schedules it and its commands
return. `ProxyServer` assumes it of the goroutine that `Start` has
begun, which the Go scheduler runs sooner or later: `PortIsFreed` says that the
port becomes free although `Stop` may have come before `Serve`. Nothing is
assumed about users, signals, kills or faults.

### Runs that find a violation

Each checks one statement of a comment, test or document that the code
contradicts; `PROJECT.json` quotes it under `findings`.

* **SetupFresh** (`CreatesDirectory`): on a machine without Redactr `enable`, as
  the first command, generates the CA into a directory nobody has created, and
  ends with a CA error; any `start` before it creates the directory.
* **SystemProxyRestores** (`RevertRestores`): after a `Set` and a `Revert` that both
  succeed a macOS slot that was off has Redactr's host and port instead of its own
  (`darwin.go:137-142`, `:152-157`); the design says *"revert restores prior on/off +
  host/port"* and `systemproxy.go:47` *"Revert restores the snapshot"*. The bypass list
  is not restored either, and not even recorded.
* **HandleBodyStructure** (`StructureUntouched`): a secret of the content that also
  stands in a tool's schema, in another structural field or in the billing block is
  replaced there too, against *"left byte-for-byte untouched"* (`proxy.go:48-51`,
  `:64-68`, `schema_test.go:15-16`). What does hold is `StructureKept`: nothing else
  of the structure changes.
* **HandleBodyEscaped** (`ContentRedacted`): a secret with a quote, backslash or
  newline is not found in the encoded bytes.

What the faults excluded by the passing properties do is as informative:

* overlapping `Set`s may replace a snapshot; a restoring command that fails, an
  unopened registry key or an unreadable value loses it, because `Revert` deletes
  the file all the same (`darwin.go:162`) and the next `Set` records Redactr's own
  address as the user's setting;
* where `Revert` fails, `disable` prints that Redactr is off all the same and the
  daemon exits: a state file that a kill or a full disk left torn, or that cannot be
  read, keeps the traffic routed, now to a dead port, and so does a failed command,
  after which the snapshot is gone too (`OffMeansOff`, `NoDeadProxy`, `Undoable`). A
  failing `os.Stat` makes `Set` route without a snapshot;
* a daemon that is killed, or signalled between `Listen` and `Notify`, leaves the
  traffic routed to a dead port, and only `disable` brings it back (`Undoable`);
  so does `redactr start` in one terminal, `enable` in another, and Ctrl-C in the
  first, because `start` and `run` revert nothing (`NoDeadProxy`, "foreground");
* overlapping `enable`s leave an orphan, and on Windows every `disable` does; one that
  outlives `disable --untrust` goes on serving with a CA nobody trusts, which is why
  `DaemonIsTrusted` speaks of the daemon on record only;
* overlapping commands, or a failed write, turn telemetry on against the user's
  answer; `telemetry off` does not stop a proxy that is sending; when the old
  directory could not be moved, an answer is stored in a new one, and whoever
  deletes that one brings the old directory's answer back;
* a kill or a full disk between `ca.pem` and `ca.key`, or two first runs at once,
  leave a CA that never loads again; nothing repairs it;
* after the directory was deleted, the new CA counts as trusted because the old
  one has the same name, and on macOS neither is removed by `disable --untrust`;
* `allow` after a line without a line break adds nothing, and says it did;
* a request whose body breaks off goes out as it is; a request without CONNECT is
  redacted whatever its host; a second `Start` leaks the first listener;
* `scan --redact` loses what its user saves, mixes with a second scan, leaves an
  empty file when killed, and reports redactions it could not write.

In `Redaction`, `MatchesAreRedacted` names the only matches that go out: a
catch-all dropped by `Scan` for a specific finding that `Redact` drops for a third
one. Text of that shape: `john@db.mysql://h/password=abcdefgh`. In `HandleBody` a
literal may end in a quote (`GENERIC-SECRET`) and then takes a delimiter elsewhere
in the body, so that the body is no JSON any more; no property claims it is.

`NoMarkerMet`, the premise of `HandleBody`, is one that the code does not ensure.
Take two content strings, `AWS_ACCESS_KEY_ID=AKIA...` and
`AWS_ACCESS_KEY_ID=[REDACTED-AWS-ACCESS-KEY]` (an answer quoted back, say): the
first yields the key as a literal, the second, by `ENV-SECRET`, the whole
assignment. If the map comes to the assignment first, replacing the key makes it
appear again (`FoundIsGone`); if it comes to the key first, the assignment then
takes the new marker with it, the count is three for two markers (`CountsMarkers`),
the prefix is lost although the two lie apart (`ExactWhenApart`, `StructureKept`),
and what a marker stands for was never in the request (`Restorable`). What holds
even then is stated without the premise: the status is right, what is no marker are
bytes of the request in order, and every marker stands for a literal that was
visited.

## The proofs

Everything in this section holds for every value of the constants that satisfies
the module's assumption, for any subset of the faults, and without the bounds of
the runs. The faults that a property excludes by name stay its premise: each is
needed (see above).

**SystemProxyProofs** proves `[]TypeOK`, `[]Recoverable`, `[]OffMeansRestored`,
`[]SuccessMeansOn` and `SnapshotKept`. None of the invariants is inductive: whether
`Revert` may remove the file depends on what its loop has done, on what it holds in
memory, and on what the other callers are about to do. The invariant `IInv` is a
conjunction of named parts, one for each such fact - a snapshot in memory or on
disk records the user's routing; what a caller has read so far is right; what a
`Set` has visited points at Redactr unless a `Revert` is at work; the slots a
`Revert` has passed are restored; nobody routes anything before the file is
complete - relative to `Unbroken`, so that a fault of the excluded kinds releases
it. The proof has one lemma per group of actions and one step per part. From `IInv`
follows that the calls implement `ProxySwitch`: `StepsImplementSwitch` maps every
step, until a breaking fault, to a step of the abstract switch or to a stutter (a
command that sets a slot is `Route` if it is the first one to point at Redactr, one
that restores is `Restore` if it is the last), and `SwitchImplemented` concludes
`Spec => ImplementsSwitch`. It needs no assumption on the faults: a breaking fault is
noted in the state that it leads to, and `ImplementsSwitch` asks nothing of that step.

**SystemProxyKeysProofs** proves for Linux and Windows `[]TypeOK`, `[]Recoverable`,
`[]OffMeansRestored`, `[]SuccessMeansOn`, `[]OnlyChosenRoutes` and `ImplementsSwitch`.
It assumes that the mark of a missing value is none of the values, as it is in the
code, where a missing value is no string at all. The calls go over keys in a fixed
order, so the facts about a call speak of the first `at[p]` keys (`Visits`: they are
all keys, each once). The invariant `Parts` holds until a fault that defeats the
snapshot: a `Set` is alone (`Exclusion`); a complete file holds the user's settings,
and without one they are live (`FileInv`); what a call has read, set and restored so
far (`CallInv`); every key is Redactr's or the user's (`ValueInv`); on Windows the
enable flag and the server never combine to a route of nobody's (`RouteInv`, where
the orders matter: `Set` writes the server first, `Revert` the flag).

**RedactionProofs** proves for texts of any length, any labels and any matches
`[]TypeOK`, `[]SelectedDisjoint`, `[]ReportedIsTouched`, `[]Tiles`, `[]Redacted` and
`[]MatchesAreRedacted`. The argument: the selected findings end before `lastEnd` and
every finding left starts no earlier than any selected one; while replacements are
applied, the output is the untouched prefix of the text up to the start of the
leftmost piece replaced, so that the offsets of what is left still point at the same
bytes. Lemma `Splice` states what a replacement does to a tiled sequence, `ScanDrops`
what `Scan` passes on to `Redact`.

**SetupProofs** proves all five invariants of the run and its action property. It
first proves types together with what a step needs to make sense
(`TypeInv`): a process that writes `config.json` has a configuration in memory, one
that writes the CA has a pair in memory and a directory to write to, and every
certificate found anywhere has been generated. Three arguments rest on it, each
with an invariant of its own. `Migrated`: as long as the old directory is there and
its move has not failed, there is no new one and no command has come further than
to the move; so no interleaving of migrations leaves settings behind. `OneAtATime`:
without the fault `overlap`, at most one command is under way (the daemon continues
the command that starts it). With it, `SignInv` follows what is in memory and what
is on disk from reading or writing the CA until the proxy is stopped; it needs that
nobody generates a CA while a proxy listens, which holds because a proxy that
listens has left a certificate on disk. `LoadInv` says that between two generations
the directory holds no CA or a complete one, also the directory that is still to be
moved, so that whatever the certificate says to load can be loaded.

Consent takes three invariants, one for each way to break it. `RefusalInv`: what is
stored, and what a command is about to store, turns telemetry on only if the last
answer did. `AnswerInv`: a consent is stored, but while the file is
truncated, and whoever is about to save has it in memory. `SendInv`: a refusal is
under way only while nothing sends. The attempt to prove the first of them found
that `ConsentKept` was too strong: a failed move and a deleted directory together
revive an answer that each of them alone does not (TLC confirms it as soon as two
kinds of faults may meet, which is why the run now allows two); the property says
so. `TrustInv` keeps every trusted CA to the one on disk, which gives
`UntrustRemoves`; `DaemonInv` adds that from `spawn` on, what is on disk is trusted
and on Linux the copy that `update` activates is the same CA (`DaemonIsTrusted`); a
daemon that `disable` has given up on is `stray` and no part of it, but of `SignInv`
and `SendInv`, which speak of all that serve.

**LifecycleProofs** proves all five invariants of the run. `PortInv`: the port is
held by exactly the process that is between its Listen and its exit. `Solo`: unless
commands overlap, whoever is busy is one command and the daemon it starts or stops;
with it each of the others needs to follow only one command. `UndoInv`: without what
makes a `Revert` fail, nobody is about to route without the user's settings in the
state file, and who has restored leaves nothing routed (`Undoable`). `LiveInv`:
traffic is routed only after the port has answered, and restored before its daemon
exits; a daemon that `Start` gives up and kills was never routed to (`NoDeadProxy`).
`OffInv` and `OnInv` carry what the last command said through everything that happens
until the next one (`OffMeansOff`, `OnMeansOn`). `OrphanInv`: a daemon that has been
spawned is awaited by its command, which will record or kill it, or is on record
(`NoOrphan`). `SwitchUsed` closes the gap to the modules that look inside the switch:
until commands overlap, a snapshot is not taken or a `Revert` fails (`SwitchBroken`),
everything that happens on the machine - also a command that is killed between its
steps, a torn state file, or one that stays - uses the switch as `ProxySwitch`, which
the three implementations refine until such a fault, specifies it.

**ProxyServerProofs** proves `[]AddedAreRedacted`, `[]OthersAreTunnelled` and
`[]StopCloses`. `MatchIsNames` says that the suffix comparison of `Match` finds the
hosts a line is meant to name; it holds only for lines that do name something, which
is why `ProxyServerAssumption` asks for it: the form `exact` or `wild` is, by
definition, that of a line with a host name, and `*.` alone is of the form `other`.
`PatternInv` follows a line from `allow.txt` to the patterns of the next process,
`WayInv` a connection from its CONNECT to its answer, `StopInv` the servers that
`Start` forgot or `Stop` closed.

**FileScanProofs** proves `[]OnlyRedacted`, `[]DoneMeansRedacted` and
`[]CleanMeansClean` for any number of scans, files and links. What `Redact` does to a
text comes first (`RedactedIsClean`; `RedactedTwice`: a third pass changes nothing).
`FileStep` is the heart of the two promises: as long as no user saves a file that is
being redacted, no step of anybody puts a secret into a file that had none, even if
two scans mix in it. So the paths that can still hold a secret are those that a walk
has ahead (`Ahead`), and at its end it has none. `OwnInv` is behind `OnlyRedacted`:
without a second scan, what a scan holds in memory is a redaction of what the user
saved, and the file is that or empty.

**HandleBodyProofs** proves all five invariants of the run, for requests, literals
and markers of any length and any order of the map. What they say of strings goes
through the recursive functions of the model, so the module first derives, from the
library's theorem that `<` on the natural numbers is well-founded, an induction
over a set of numbers (`LeastNumber`, `Induction`), which needs no operator as a
parameter. With it follow that the recursions define functions (`UptoExists`,
`DownwardRecursion`) and what they compute. `ReplaceAllReads`: the result of
`ReplaceAll` can be read off the bytes from left to right, its i-th byte being the one
at `src[i]` (`off[i] = 0`) or byte `off[i]` of the marker for the literal that begins
there, and `Occurrences` counts those beginnings.

Two parts of the invariant hold whatever the literals match, markers included: the
bytes of the request stay in order and a marker belongs to a visited literal (`OutInv`),
and something has been counted exactly if there is a marker (`CountInv`). The third,
`UnmetInv`, has the premise of the properties, that no collected literal can match a
byte of a marker. The premise speaks of two strings only; that it is enough needs that
markers stay whole (`Runs`, kept by `StillRuns`), because only then does a literal that
reaches into a marker lie over it in one of the ways `Meets` enumerates (`Unmet`). So
an occurrence consists of bytes of the request, which are neighbours in the input too,
and stood there before at a position that `ReplaceAll` passed over (`HitIsOld`,
`OccursNoMore`): no visited literal comes back, which is why no order of the map
matters for `FoundIsGone`, and every replacement adds one marker (`StillCounted`).
`Covers` says that bytes and markers follow each other in the request without a gap;
`StillCovers` keeps it over a replacement, `InOrder`, `Covering` and `ExpandsToRequest`
draw from it `Restorable`; `UntouchedIsThere` says that an occurrence no marker stands
for is still in the bytes, so that with the literals apart nothing but their
occurrences is gone, and all of it (`ExactWhenApart`). `StructureKept` needs in
addition only that each marker's literal was collected.

Only model-checked: liveness (`CommandsEnd`, `DisableStops`, `PortIsFreed`), since fairness and ENABLED are out of the prover's reach. Every
other property of a passing run is proved. The four runs that find a violation stay
with TLC by their nature.

## Not modelled

Pattern matching and entropy (regular expressions and floating point over text;
their results are inputs - note that `regexp` rejects the lookaheads of three
patterns, `PASSWORD`, `URL` and `REGISTRATION-ID`, and `regex.go:29-32` then drops
them without a word); X.509, TLS, goproxy and HTTP; `IssueCert`, which only its
test calls; the formatting of output; `status`, `doctor` and `ca`, which change
nothing; the session identifier of telemetry and its rotation, which nothing reads
but the collector; the telemetry worker, a stateless validation of one request;
packaging. `registry.go` looks up a name in a table.

## Plan

Every component that keeps state in the table above is in a module, and every
safety and action property of a passing run has its theorem. What could still be
added: the daemon's view of telemetry beyond whether it sends (tickers, the
session identifier), if anything comes to depend on it; and, for `HandleBody`,
further characters that a client may write as an escape (`\/`, `\u003c`), which
only add cases to what `HandleBodyEscaped` shows.
