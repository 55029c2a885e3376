-------------------------------- MODULE Setup --------------------------------
(***************************************************************************)
(* What the commands of redactr do before a proxy serves: they move the    *)
(* data directory of older versions (internal/config), record consent and  *)
(* first run in config.json (internal/cli), load or generate the local CA  *)
(* (internal/certgen), and `enable` makes the operating system trust it    *)
(* (internal/catrust); cmd/redactr/main.go puts these in order.  A proxy   *)
(* that serves in a terminal sends telemetry (internal/telemetry) if it    *)
(* found the user's consent when it started.                               *)
(*                                                                         *)
(* The directory is shared by all commands, without a lock.  Every file is *)
(* written by os.WriteFile, which truncates first: two steps here.         *)
(*                                                                         *)
(* Abstractions: a certificate or a private key is named by the CA it was  *)
(* generated for; the port is free exactly when no process serves (what    *)
(* else may listen there is the subject of Lifecycle); `start` stands for  *)
(* start, run and shell when no proxy answers yet, `run` for run and shell *)
(* when one does; the daemon that enable starts is the continuation of the *)
(* command.                                                                *)
(***************************************************************************)
EXTENDS FiniteSets, Naturals

CONSTANTS
  Procs,      \* processes that run a command
  CAs,        \* the certificate authorities that may be generated: a bound
  Platforms,  \* subset of {"darwin", "linux", "windows"}
  FaultSets,  \* which events of FaultKinds may happen together: a bound
  Absent,     \* no such file or directory
  Torn        \* a file without its content: written in part, or only truncated

\* "overlap"  a command is begun while another one is under way
\* "crash"    a command is killed halfway
\* "disk"     a file of the directory cannot be written
\* "rename"   the directory of the older version cannot be moved
\* "trust"    a command on the trust store fails, or the user cancels it
\* "wipe"     the user deletes the data directory between two commands
\* "late"     `telemetry off` is begun while a proxy is sending telemetry
FaultKinds == {"overlap", "crash", "disk", "rename", "trust", "wipe", "late"}

Commands == {"start", "run", "enable", "on", "off", "disable", "daemon"}

Config == [telemetry : BOOLEAN, firstRun : BOOLEAN]

File(content) == content \cup {Absent, Torn}

Contents == [conf : File(Config), cert : File(CAs), key : File(CAs)]

ASSUME SetupAssumption ==
  /\ Platforms \subseteq {"darwin", "linux", "windows"}
  /\ FaultSets \subseteq SUBSET FaultKinds
  /\ Absent # Torn
  /\ {Absent, Torn} \cap (Config \cup CAs) = {}
  /\ Absent \notin Contents

VARIABLES
  platform,  \* the operating system
  dir,       \* ~/.redactr
  legacy,    \* ~/.redactr-community
  copied,    \* Linux: the certificate file in /usr/local/share/ca-certificates
  trusted,   \* the CAs that TLS clients of the machine accept
  minted,    \* the CAs that have been generated
  pc,        \* the next step of each process
  cmd,       \* the command it runs
  conf,      \* the configuration it has in memory, or a proxy sends by
  cert, key, \* the CA it has in memory
  consent,   \* history: what the last `telemetry` command has told the user
  seen       \* history: the kinds of faults that have happened

files   == <<dir, legacy>>
store   == <<copied, trusted>>
locals  == <<conf, cert, key>>
history == <<consent, seen>>
vars    == <<platform, dir, legacy, copied, trusted, minted, pc, cmd, conf, cert, key,
             consent, seen>>

\* "ca_error"   newProxy has ended the process
\* "no_dir"     the same, because the directory does not exist
\* "untrusted"  `disable --untrust` has come to its end
EndPhases   == {"idle", "ca_error", "no_dir", "untrusted"}
StepPhases  == {"stat_new", "stat_old", "rename", "load", "mkdir", "truncate", "write",
                "port", "ca_stat", "ca_cert", "ca_key", "gen_cert", "gen_key",
                "gen_key_write", "pair", "listen", "consent", "en_stat", "is_trusted", "install",
                "update", "spawn", "stop", "remove", "refresh"}

\* "stray"  a daemon that goes on serving although daemon.json does not name it
Serving(p) == pc[p] \in {"serving", "stray"}

AtRest(p) == pc[p] \in EndPhases \cup {"serving", "stray"}

Quiet == \A p \in Procs : AtRest(p)

Listening(p) == pc[p] \in {"consent", "serving", "stray"}

\* Client.Run sends until the process ends.
Sends(p) == Serving(p) /\ conf[p] # Absent

Goto(p, label) == pc' = [pc EXCEPT ![p] = label]

\* The process ends or a command returns: what it had in memory is gone.
End(p, label) ==
  /\ Goto(p, label)
  /\ cmd' = [cmd EXCEPT ![p] = "start"]
  /\ conf' = [conf EXCEPT ![p] = Absent]
  /\ cert' = [cert EXCEPT ![p] = Absent]
  /\ key' = [key EXCEPT ![p] = Absent]

Note(kind) ==
  /\ seen' = seen \cup {kind}
  /\ seen' \in FaultSets

EmptyDir == [conf |-> Absent, cert |-> Absent, key |-> Absent]

-----------------------------------------------------------------------------
(* Every command begins with config.Migrate.                               *)

\* The first step of a command after Migrate.
First(c) ==
  CASE c \in {"start", "run", "on", "off"} -> "load"
    [] c = "enable"  -> "en_stat"
    [] c = "daemon"  -> "ca_stat"
    [] c = "disable" -> "stop"

Begin(p, c) ==
  /\ pc[p] \in EndPhases
  /\ c # "daemon"
  /\ cmd' = [cmd EXCEPT ![p] = c]
  /\ Goto(p, "stat_new")
  /\ IF ~Quiet THEN Note("overlap")
     ELSE IF c = "off" /\ \E q \in Procs : Sends(q) THEN Note("late")
     ELSE UNCHANGED seen
  /\ UNCHANGED <<platform, files, store, minted, locals, consent>>

MigrateStatNewForSome(p) ==
  /\ pc[p] = "stat_new"
  /\ Goto(p, IF dir # Absent \/ cmd[p] = "on" THEN First(cmd[p]) ELSE "stat_old")
  /\ UNCHANGED <<platform, files, store, minted, cmd, locals, history>>

MigrateStatNew(p) ==
  /\ pc[p] = "stat_new"
  /\ Goto(p, IF dir # Absent THEN First(cmd[p]) ELSE "stat_old")
  /\ UNCHANGED <<platform, files, store, minted, cmd, locals, history>>

MigrateStatOld(p) ==
  /\ pc[p] = "stat_old"
  /\ Goto(p, IF legacy = Absent THEN First(cmd[p]) ELSE "rename")
  /\ UNCHANGED <<platform, files, store, minted, cmd, locals, history>>

\* os.Rename moves a directory onto nothing or onto an empty directory; its
\* error is ignored.
Renames == legacy # Absent /\ dir \in {Absent, EmptyDir}

MigrateRename(p) ==
  /\ pc[p] = "rename"
  /\ IF Renames THEN dir' = legacy /\ legacy' = Absent ELSE UNCHANGED files
  /\ Goto(p, First(cmd[p]))
  /\ UNCHANGED <<platform, store, minted, cmd, locals, history>>

RenameFails(p) ==
  /\ pc[p] = "rename"
  /\ Note("rename")
  /\ Goto(p, First(cmd[p]))
  /\ UNCHANGED <<platform, files, store, minted, cmd, locals, consent>>

-----------------------------------------------------------------------------
(* config.json: SetTelemetry and MaybeShowFirstRun                         *)

\* config.Load: without a file that parses, nothing is on.
Loaded ==
  IF dir # Absent /\ dir.conf \in Config
  THEN dir.conf
  ELSE [telemetry |-> FALSE, firstRun |-> FALSE]

\* Where a command goes on when its configuration is saved, or not.
AfterSave(p) == IF cmd[p] = "start" THEN "ca_stat" ELSE "port"

\* The answer to `telemetry on` or `telemetry off`, which is printed whether
\* the flag could be saved or not.
Answer(p) ==
  /\ consent' = (cmd[p] = "on")
  /\ End(p, "idle")

IsTelemetry(p) == cmd[p] \in {"on", "off"}

LoadConfigAnew(p) ==
  /\ pc[p] = "load"
  /\ conf' = [conf EXCEPT ![p] = [telemetry |-> cmd[p] = "on", firstRun |-> TRUE]]
  /\ Goto(p, "mkdir")
  /\ UNCHANGED <<platform, files, store, minted, cmd, cert, key, history>>

\* SetTelemetry loads, changes and saves; MaybeShowFirstRun saves only if the
\* banner has not been shown before.
LoadConfig(p) ==
  /\ pc[p] = "load"
  /\ IF IsTelemetry(p)
     THEN /\ conf' = [conf EXCEPT ![p] = [Loaded EXCEPT !.telemetry = (cmd[p] = "on")]]
          /\ Goto(p, "mkdir")
     ELSE IF Loaded.firstRun
     THEN Goto(p, AfterSave(p)) /\ UNCHANGED conf
     ELSE /\ conf' = [conf EXCEPT ![p] = [Loaded EXCEPT !.firstRun = TRUE]]
          /\ Goto(p, "mkdir")
  /\ UNCHANGED <<platform, files, store, minted, cmd, cert, key, history>>

SaveMkdir(p) ==
  /\ pc[p] = "mkdir"
  /\ dir' = IF dir = Absent THEN EmptyDir ELSE dir
  /\ Goto(p, "truncate")
  /\ UNCHANGED <<platform, legacy, store, minted, cmd, locals, history>>

SaveTruncate(p) ==
  /\ pc[p] = "truncate"
  /\ dir' = [dir EXCEPT !.conf = Torn]
  /\ Goto(p, "write")
  /\ UNCHANGED <<platform, legacy, store, minted, cmd, locals, history>>

SaveWrite(p) ==
  /\ pc[p] = "write"
  /\ dir' = [dir EXCEPT !.conf = conf[p]]
  /\ IF IsTelemetry(p)
     THEN Answer(p)
     ELSE /\ conf' = [conf EXCEPT ![p] = Absent]
          /\ Goto(p, AfterSave(p))
          /\ UNCHANGED <<cmd, cert, key, consent>>
  /\ UNCHANGED <<platform, legacy, store, minted, seen>>

\* Save fails at the directory, or with the file truncated; nobody looks at its
\* error.
SaveFails(p) ==
  /\ pc[p] \in {"mkdir", "write"}
  /\ Note("disk")
  /\ IF IsTelemetry(p)
     THEN Answer(p)
     ELSE /\ conf' = [conf EXCEPT ![p] = Absent]
          /\ Goto(p, AfterSave(p))
          /\ UNCHANGED <<cmd, cert, key, consent>>
  /\ UNCHANGED <<platform, files, store, minted>>

-----------------------------------------------------------------------------
(* newProxy: LoadOrCreateCA, then proxy.New                                *)

\* ensureProxy of `run` and `shell` uses a proxy that answers on the port.
EnsureProxy(p) ==
  /\ pc[p] = "port"
  /\ IF \E q \in Procs : Listening(q)
     THEN End(p, "idle")
     ELSE Goto(p, "ca_stat") /\ UNCHANGED <<cmd, locals>>
  /\ UNCHANGED <<platform, files, store, minted, history>>

CertExists == dir # Absent /\ dir.cert # Absent

KeyLoads == dir # Absent /\ dir.key \in CAs

CAExistsNever == FALSE

CAExistsByDir == dir # Absent

\* LoadOrCreateCA looks for the certificate only.
CAExists == CertExists

CAStat(p) ==
  /\ pc[p] = "ca_stat"
  /\ Goto(p, IF CAExists THEN "ca_cert" ELSE "gen_cert")
  /\ UNCHANGED <<platform, files, store, minted, cmd, locals, history>>

\* LoadCA returns an error for a file that is missing and panics on one that
\* holds no PEM block; the process ends either way.
LoadCert(p) ==
  /\ pc[p] = "ca_cert"
  /\ IF CertExists /\ dir.cert # Torn
     THEN /\ cert' = [cert EXCEPT ![p] = dir.cert]
          /\ Goto(p, "ca_key")
          /\ UNCHANGED <<cmd, conf, key>>
     ELSE End(p, "ca_error")
  /\ UNCHANGED <<platform, files, store, minted, history>>

LoadKey(p) ==
  /\ pc[p] = "ca_key"
  /\ IF KeyLoads
     THEN /\ key' = [key EXCEPT ![p] = dir.key]
          /\ Goto(p, "pair")
          /\ UNCHANGED <<cmd, conf, cert>>
     ELSE End(p, "ca_error")
  /\ UNCHANGED <<platform, files, store, minted, history>>

\* GenerateCA makes a new pair and creates the certificate file, for which the
\* directory has to exist.
GenerateCA(p, c) ==
  /\ pc[p] = "gen_cert"
  /\ c \notin minted
  /\ dir # Absent
  /\ minted' = minted \cup {c}
  /\ cert' = [cert EXCEPT ![p] = c]
  /\ key' = [key EXCEPT ![p] = c]
  /\ dir' = [dir EXCEPT !.cert = Torn]
  /\ Goto(p, "gen_key")
  /\ UNCHANGED <<platform, legacy, store, cmd, conf, history>>

NoDirectory(p) ==
  /\ pc[p] = "gen_cert"
  /\ dir = Absent
  /\ End(p, "no_dir")
  /\ UNCHANGED <<platform, files, store, minted, history>>

\* The certificate is complete before the key file is created.
WriteCert(p) ==
  /\ pc[p] = "gen_key"
  /\ dir' = [dir EXCEPT !.cert = cert[p], !.key = Torn]
  /\ Goto(p, "gen_key_write")
  /\ UNCHANGED <<platform, legacy, store, minted, cmd, locals, history>>

WriteKey(p) ==
  /\ pc[p] = "gen_key_write"
  /\ dir' = [dir EXCEPT !.key = key[p]]
  /\ Goto(p, "pair")
  /\ UNCHANGED <<platform, legacy, store, minted, cmd, locals, history>>

GenerateFails(p) ==
  /\ pc[p] \in {"gen_cert", "gen_key", "gen_key_write"}
  /\ dir # Absent
  /\ Note("disk")
  /\ End(p, "ca_error")
  /\ UNCHANGED <<platform, files, store, minted, consent>>

\* proxy.New accepts a certificate and a key that belong together (buildTLSCert).
\* The proxy that `enable` makes here only serves to generate the CA.
Pair(p) ==
  /\ pc[p] = "pair"
  /\ IF cert[p] # key[p]
     THEN End(p, "ca_error")
     ELSE /\ Goto(p, IF cmd[p] = "enable" THEN "is_trusted" ELSE "listen")
          /\ UNCHANGED <<cmd, locals>>
  /\ UNCHANGED <<platform, files, store, minted, history>>

Listen(p) ==
  /\ pc[p] = "listen"
  /\ IF \E q \in Procs : Listening(q)
     THEN End(p, "idle")
     ELSE /\ Goto(p, IF cmd[p] = "daemon" THEN "serving" ELSE "consent")
          /\ UNCHANGED <<cmd, locals>>
  /\ UNCHANGED <<platform, files, store, minted, history>>

\* start, run and shell look for the consent once, and only after they listen.
StartTelemetry(p) ==
  /\ pc[p] = "consent"
  /\ IF Loaded.telemetry THEN conf' = [conf EXCEPT ![p] = Loaded] ELSE UNCHANGED conf
  /\ Goto(p, "serving")
  /\ UNCHANGED <<platform, files, store, minted, cmd, cert, key, history>>

-----------------------------------------------------------------------------
(* enable, and disable --untrust                                           *)

EnableStat(p) ==
  /\ pc[p] = "en_stat"
  /\ Goto(p, IF CertExists THEN "is_trusted" ELSE "ca_stat")
  /\ UNCHANGED <<platform, files, store, minted, cmd, locals, history>>

\* The subject of the certificate, which is the same for every CA, can be read.
CommonName == CertExists /\ dir.cert # Torn

IsTrustedByCert == CommonName

\* Linux looks for a file, the other systems for a certificate with that name.
IsTrusted ==
  IF platform = "linux" THEN copied # Absent ELSE CommonName /\ trusted # {}

EnableTrust(p) ==
  /\ pc[p] = "is_trusted"
  /\ Goto(p, IF IsTrusted THEN "spawn" ELSE "install")
  /\ cert' = [cert EXCEPT ![p] = Absent]
  /\ key' = [key EXCEPT ![p] = Absent]
  /\ UNCHANGED <<platform, files, store, minted, cmd, conf, history>>

Installable == IF platform = "linux" THEN CertExists ELSE CommonName

\* On Linux the file is copied, whatever it holds, and the list of trusted
\* certificates is rebuilt.
Install(p) ==
  /\ pc[p] = "install"
  /\ Installable
  /\ IF platform = "linux"
     THEN copied' = dir.cert /\ Goto(p, "update") /\ UNCHANGED trusted
     ELSE trusted' = trusted \cup {dir.cert} /\ Goto(p, "spawn") /\ UNCHANGED copied
  /\ UNCHANGED <<platform, files, minted, cmd, locals, history>>

\* There is no certificate to install.
InstallNothing(p) ==
  /\ pc[p] = "install"
  /\ ~Installable
  /\ End(p, "idle")
  /\ UNCHANGED <<platform, files, store, minted, history>>

UpdateCertificates(p) ==
  /\ pc[p] \in {"update", "refresh"}
  /\ trusted' = {copied} \cap CAs
  /\ IF pc[p] = "update"
     THEN Goto(p, "spawn") /\ UNCHANGED <<cmd, locals>>
     ELSE End(p, "untrusted")
  /\ UNCHANGED <<platform, files, copied, minted, history>>

\* A failing command ends enable; disable ignores it.
TrustFails(p) ==
  /\ pc[p] \in {"install", "update", "remove", "refresh"}
  /\ Note("trust")
  /\ End(p, IF cmd[p] = "enable" THEN "idle" ELSE "untrusted")
  /\ UNCHANGED <<platform, files, store, minted, consent>>

\* The daemon that daemon.json names serves.
DaemonServes(q) == pc[q] = "serving" /\ cmd[q] = "daemon"

\* daemon.Start: the child is a process of its own and begins with main.
\* Windows takes every process that daemon.json may name for alive: also an earlier
\* child that found the port taken.
Spawn(p) ==
  /\ pc[p] = "spawn"
  /\ \/ /\ \/ \E q \in Procs : DaemonServes(q)
           \/ platform = "windows" /\ \E q \in Procs : Listening(q)
        /\ End(p, "idle")
     \/ /\ \A q \in Procs : ~DaemonServes(q)
        /\ cmd' = [cmd EXCEPT ![p] = "daemon"]
        /\ Goto(p, "stat_new")
        /\ UNCHANGED locals
  /\ UNCHANGED <<platform, files, store, minted, history>>

\* disable, with --untrust or without.  It removes daemon.json three seconds after
\* its signal at the latest, whether the daemon has ended (gone) or not; Windows
\* does not deliver the signal.
StopDaemon(p) ==
  /\ pc[p] = "stop"
  /\ \E gone \in IF platform = "windows" THEN {FALSE} ELSE BOOLEAN, untrust \in BOOLEAN :
       LET Ends(q) == IF q = p THEN ~untrust ELSE gone /\ DaemonServes(q)
       IN  /\ pc' = [q \in Procs |-> IF Ends(q) THEN "idle"
                                    ELSE IF q = p THEN "remove"
                                    ELSE IF DaemonServes(q) THEN "stray" ELSE pc[q]]
           /\ cmd' = [q \in Procs |-> IF Ends(q) THEN "start" ELSE cmd[q]]
           /\ conf' = [q \in Procs |-> IF Ends(q) THEN Absent ELSE conf[q]]
           /\ cert' = [q \in Procs |-> IF Ends(q) THEN Absent ELSE cert[q]]
           /\ key' = [q \in Procs |-> IF Ends(q) THEN Absent ELSE key[q]]
  /\ UNCHANGED <<platform, files, store, minted, history>>

\* What is left of the certificates with the name after one deletion: macOS
\* deletes one, or none if the name is ambiguous; Windows deletes all.
Left ==
  IF platform = "windows" \/ Cardinality(trusted) <= 1
  THEN {{}}
  ELSE {trusted} \cup {trusted \ {c} : c \in trusted}

RemoveOnly(p) ==
  /\ pc[p] = "remove"
  /\ copied' = Absent
  /\ IF CommonName /\ platform # "linux" THEN trusted' \in Left ELSE UNCHANGED trusted
  /\ End(p, "untrusted")
  /\ UNCHANGED <<platform, files, minted, history>>

Remove(p) ==
  /\ pc[p] = "remove"
  /\ IF platform = "linux"
     THEN copied' = Absent /\ Goto(p, "refresh") /\ UNCHANGED <<trusted, cmd, locals>>
     ELSE /\ IF CommonName THEN trusted' \in Left ELSE UNCHANGED trusted
          /\ End(p, "untrusted")
          /\ UNCHANGED copied
  /\ UNCHANGED <<platform, files, minted, history>>

-----------------------------------------------------------------------------
(* Users and the machine                                                   *)

\* The user ends a proxy, the tool that `run` has launched ends, or a daemon that
\* has been told to stop ends after all.
Stop(p) ==
  /\ Serving(p)
  /\ End(p, "idle")
  /\ UNCHANGED <<platform, files, store, minted, history>>

Killed(p) ==
  /\ ~AtRest(p)
  /\ Note("crash")
  /\ End(p, "idle")
  /\ UNCHANGED <<platform, files, store, minted, consent>>

\* The user deletes the directory, and with it daemon.json; a proxy may be serving.
Wipe ==
  /\ Quiet
  /\ dir # Absent
  /\ Note("wipe")
  /\ dir' = Absent
  /\ consent' = FALSE
  /\ pc' = [q \in Procs |-> IF DaemonServes(q) THEN "stray" ELSE pc[q]]
  /\ UNCHANGED <<platform, legacy, store, minted, cmd, locals>>

-----------------------------------------------------------------------------
\* A machine without Redactr, or one with a complete installation, of this
\* version or of an older one, whose CA may have been trusted.
Installation(c, on) ==
  [conf |-> [telemetry |-> on, firstRun |-> TRUE], cert |-> c, key |-> c]

Init ==
  /\ platform \in Platforms
  /\ \/ /\ dir = Absent /\ legacy = Absent
        /\ minted = {} /\ trusted = {} /\ consent = FALSE
     \/ \E c \in CAs, on \in BOOLEAN :
          /\ \/ dir = Installation(c, on) /\ legacy = Absent
             \/ legacy = Installation(c, on) /\ dir = Absent
          /\ minted = {c} /\ trusted \in {{}, {c}} /\ consent = on
  /\ copied = IF platform = "linux" /\ trusted # {} THEN CHOOSE c \in trusted : TRUE ELSE Absent
  /\ pc = [p \in Procs |-> "idle"]
  /\ cmd = [p \in Procs |-> "start"]
  /\ conf = [p \in Procs |-> Absent]
  /\ cert = [p \in Procs |-> Absent]
  /\ key = [p \in Procs |-> Absent]
  /\ seen = {}

ConfigStep(p) ==
  \/ MigrateStatNew(p) \/ MigrateStatOld(p) \/ MigrateRename(p) \/ RenameFails(p)
  \/ LoadConfig(p) \/ SaveMkdir(p) \/ SaveTruncate(p) \/ SaveWrite(p) \/ SaveFails(p)

ProxyStep(p) ==
  \/ EnsureProxy(p) \/ CAStat(p) \/ LoadCert(p) \/ LoadKey(p)
  \/ \E c \in CAs : GenerateCA(p, c)
  \/ NoDirectory(p) \/ WriteCert(p) \/ WriteKey(p) \/ GenerateFails(p)
  \/ Pair(p) \/ Listen(p) \/ StartTelemetry(p)

TrustStep(p) ==
  \/ EnableStat(p) \/ EnableTrust(p) \/ Install(p) \/ InstallNothing(p)
  \/ UpdateCertificates(p) \/ TrustFails(p) \/ Spawn(p) \/ StopDaemon(p) \/ Remove(p)

Next ==
  \/ \E p \in Procs :
       \/ \E c \in Commands : Begin(p, c)
       \/ ConfigStep(p) \/ ProxyStep(p) \/ TrustStep(p)
       \/ Stop(p) \/ Killed(p)
  \/ Wipe

Spec == Init /\ [][Next]_vars

-----------------------------------------------------------------------------
(* Properties                                                              *)

Free(kinds) == seen \cap kinds = {}

\* Every variable holds values of the kind the code gives it.
TypeOK ==
  /\ platform \in Platforms
  /\ dir \in Contents \cup {Absent}
  /\ legacy \in Contents \cup {Absent}
  /\ copied \in File(CAs)
  /\ trusted \subseteq minted
  /\ minted \subseteq CAs
  /\ pc \in [Procs -> EndPhases \cup StepPhases \cup {"serving", "stray"}]
  /\ cmd \in [Procs -> Commands]
  /\ conf \in [Procs -> Config \cup {Absent}]
  /\ cert \in [Procs -> CAs \cup {Absent}]
  /\ key \in [Procs -> CAs \cup {Absent}]
  /\ consent \in BOOLEAN
  /\ seen \subseteq FaultKinds

\* Settings of an older version are never left behind: no command works on a
\* new directory while the old one still holds the user's consent and CA,
\* however many commands migrate at the same time.
NothingLeftBehind == legacy # Absent /\ dir # Absent => "rename" \in seen

\* The configuration that the next command will work with.
Stored == IF dir = Absent /\ legacy # Absent THEN legacy.conf.telemetry ELSE Loaded.telemetry

\* What is stored is what the last `telemetry` command told the user.  Only a
\* failed write, overlapping commands, or the loss of the new directory after the
\* old one could not be moved can turn telemetry on against the last answer; a
\* kill can lose a consent, never a refusal.  A proxy sends only with consent,
\* unless it was sending already when the consent was withdrawn.
ConsentKept ==
  /\ Stored /\ Free({"overlap", "disk"}) /\ ~({"rename", "wipe"} \subseteq seen) => consent
  /\ Quiet /\ consent /\ Free({"overlap", "disk", "rename", "crash"}) => Stored
  /\ Free({"overlap", "disk", "wipe", "late"}) => \A p \in Procs : Sends(p) => consent

\* Once any command has come through, the CA always loads: a command ends with
\* a CA error only after a command was killed, a write failed, or two commands
\* generated a CA at the same time.
CALoads ==
  Free({"overlap", "crash", "disk"}) => \A p \in Procs : pc[p] # "ca_error"

\* The CA that a proxy signs with is the one on disk, which the tools launched
\* by `run` are told to trust - also when the proxy generated it itself.
SignsWithDisk ==
  Free({"overlap", "wipe"}) =>
    \A p \in Procs : Serving(p) => dir # Absent /\ dir.cert = cert[p] /\ dir.key = key[p]

\* The daemon on record signs with a CA that the clients of the machine trust.
\* IsTrusted looks at a name or a path, so this does not survive a CA that was
\* generated anew, nor on Linux a copy without an update.  It says nothing of a
\* daemon that is no longer on record: one that disable has told to stop may go on
\* serving, on Windows for good, with a CA that --untrust has removed.
DaemonIsTrusted ==
  Free({"overlap", "wipe", "rename", "trust", "crash"}) =>
    \A p \in Procs : DaemonServes(p) => cert[p] \in trusted

\* `disable --untrust` leaves no CA of Redactr in the trust store.
UntrustRemoves ==
  [][\A p \in Procs :
       pc[p] # "untrusted" /\ pc'[p] = "untrusted" =>
         trusted' = {} \/ seen' \cap {"overlap", "wipe", "rename", "trust"} # {}]_vars

\* Claimed by runEnable ("ensure CA exists (newProxy creates it if missing)"):
\* no command fails because the data directory does not exist.
CreatesDirectory == \A p \in Procs : pc[p] # "no_dir"

=============================================================================
