------------------------------ MODULE Lifecycle ------------------------------
(***************************************************************************)
(* The life of Redactr on one machine: the commands enable, disable, start,*)
(* run and shell (cmd/redactr/main.go), the detached daemon they start and *)
(* stop (internal/daemon), port 8080, the pid file daemon.json, and the    *)
(* system proxy switch (internal/systemproxy): whether traffic is routed   *)
(* to 127.0.0.1:8080, and what the state file holds.                       *)
(*                                                                         *)
(* Every terminal runs one command at a time; nothing serialises the       *)
(* terminals, the daemons and the signals.  Time is not modelled: the two  *)
(* bounded waits of the daemon package may run out at any moment.          *)
(*                                                                         *)
(* Abstractions: the pid file is read and written whole; a pid is used     *)
(* once; all services are routed, or restored, in one step that may fail   *)
(* (SystemProxy looks inside those steps); CA trust is left out (see       *)
(* Setup).                                                                 *)
(***************************************************************************)
EXTENDS Integers, FiniteSets

CONSTANTS
  Terminals,  \* processes of the command line
  Pids,       \* processes that `enable` may start as daemons: a bound
  Faults,     \* which events of FaultKinds may happen
  MaxSeen,    \* how many kinds of them in one behaviour: a bound
  None        \* no process

\* "overlap"     a command is begun, or a daemon is signalled from outside,
\*               while another process is in the middle of something
\* "cli"         a command is killed halfway, outside the case "torn"
\* "daemon"      a daemon is killed without a chance to revert
\* "early"       a signal from outside reaches a daemon that listens already
\*               but has not registered its signal handler yet
\* "foreground"  a proxy is run by `redactr start`, run or shell
\* "disk"        the pid file of a daemon that answers cannot be written
\* "torn"        a command is killed, or fails, while it writes the state file
\* "stat"        os.Stat of the state file fails although there is none
\* "restore"     Revert cannot read the state file, or a restoring command fails
\* "remove"      the state file or the pid file cannot be removed
\* "windows"     the machine runs Windows, from the start
FaultKinds == {"overlap", "cli", "daemon", "early", "foreground", "disk",
               "torn", "stat", "restore", "remove", "windows"}

ASSUME LifecycleAssumption ==
  /\ Terminals \cap Pids = {}
  /\ None \notin Terminals \cup Pids
  /\ Faults \subseteq FaultKinds

VARIABLES
  routed,   \* the system proxy points at 127.0.0.1:8080
  file,     \* proxy-state.json
  port,     \* the process that listens on 8080
  pidfile,  \* the pid in daemon.json
  pc,       \* the next step of each process
  child,    \* the daemon an enable has started, or a disable is stopping
  last,     \* history: the outcome of the last command, while none overlap
  seen      \* history: the kinds of faults that have happened

switch  == <<routed, file>>
history == <<last, seen>>
vars    == <<routed, file, port, pidfile, pc, child, last, seen>>

\* What the state file holds: the user's settings; settings that were Redactr's
\* already; no complete snapshot, which is what a write leaves that was begun.
Contents == {"absent", "torn", "user", "ours"}

\* "s_user", "s_ours": about to write such a snapshot; "r_user", "r_ours": about
\* to restore it.
WritePhases   == {"s_user", "s_ours"}
RevertPhases  == {"r_look", "r_user", "r_ours", "r_remove"}
CommandPhases == {"e_check", "e_wait", "s_look", "s_route", "d_stop", "d_wait",
                  "f_look", "f_boot"} \cup WritePhases \cup RevertPhases
\* "unborn" and "dead": the process does not exist yet, or any more.
DaemonPhases  == {"unborn", "boot", "bound", "serving", "exit", "dead"} \cup RevertPhases

Idle(t) == pc[t] = "idle"
Alive(p) == pc[p] \notin {"unborn", "dead"}

\* The processes that are in the middle of something.
Busy == {t \in Terminals : pc[t] \in CommandPhases}
          \cup {p \in Pids : pc[p] \in {"boot", "exit"} \cup RevertPhases}

Goto(x, label) == pc' = [pc EXCEPT ![x] = label]

\* A process ends, and with it its listening socket.
Release(x) == port' = IF port = x THEN None ELSE port

\* What last says of a command that ends.
Outcome(outcome) == IF "overlap" \in seen THEN "none" ELSE outcome

\* A command ends with an outcome.
Finish(t, outcome) ==
  /\ Goto(t, "idle")
  /\ child' = [child EXCEPT ![t] = None]
  /\ last' = Outcome(outcome)

NoteAll(kinds) ==
  /\ kinds \subseteq Faults
  /\ seen' = seen \cup kinds
  /\ Cardinality(seen') <= MaxSeen

Note(kind) == NoteAll({kind})

\* Whatever routes traffic service by service, and ends early, may have routed
\* a part of it by then.
PartlyRouted(x) ==
  \/ UNCHANGED routed
  \/ pc[x] \in {"s_route", "r_ours"} /\ routed' = TRUE

\* A new event is an overlap unless everybody else is at rest.
Begins(kinds) ==
  /\ NoteAll(kinds \cup IF Busy = {} THEN {} ELSE {"overlap"})
  /\ last' = IF Busy = {} THEN last ELSE "none"

-----------------------------------------------------------------------------
(* enable                                                                  *)

BeginEnable(t) ==
  /\ Idle(t)
  /\ Goto(t, "e_check")
  /\ Begins({})
  /\ UNCHANGED <<switch, port, pidfile, child>>

IsRunningByFile == {pidfile # None}

Windows == "windows" \in seen

\* What pidAlive may say: on Windows also of a process that has ended, as long
\* as somebody holds a handle to it.
PidAlive(p) == IF Windows /\ ~Alive(p) THEN BOOLEAN ELSE {Alive(p)}

\* What IsRunning may say: the pid file names a live process and the port answers.
IsRunning == IF pidfile # None /\ port # None THEN PidAlive(pidfile) ELSE {FALSE}

StartAlreadyUp(t) ==
  /\ pc[t] = "e_check"
  /\ TRUE \in IsRunning
  /\ Goto(t, "s_look")
  /\ UNCHANGED <<switch, port, pidfile, child, history>>

StartSpawn(t, p) ==
  /\ pc[t] = "e_check"
  /\ FALSE \in IsRunning
  /\ pc[p] = "unborn"
  /\ pc' = [pc EXCEPT ![t] = "e_wait", ![p] = "boot"]
  /\ child' = [child EXCEPT ![t] = p]
  /\ UNCHANGED <<switch, port, pidfile, history>>

\* The port answers - whoever it is that listens - and the pid file is written.
StartAnswered(t) ==
  /\ pc[t] = "e_wait"
  /\ port # None
  /\ pidfile' = child[t]
  /\ Goto(t, "s_look")
  /\ UNCHANGED <<switch, port, child, history>>

\* The pid file is not written, or left without content, which counts as none:
\* Start fails and leaves its daemon alive.
StartUnrecorded(t) ==
  /\ pc[t] = "e_wait"
  /\ port # None
  /\ Note("disk")
  /\ pidfile' \in {pidfile, None}
  /\ Finish(t, "failed")
  /\ UNCHANGED <<switch, port>>

StartTimeoutLeaves(t) ==
  /\ pc[t] = "e_wait"
  /\ Finish(t, "failed")
  /\ UNCHANGED <<switch, port, pidfile, seen>>

StartWaitsForever(t) == FALSE /\ StartTimeoutLeaves(t)

\* After thirty attempts Start kills the child it gave up on.
StartTimeout(t) ==
  /\ pc[t] = "e_wait"
  /\ pc' = [pc EXCEPT ![t] = "idle", ![child[t]] = "dead"]
  /\ Release(child[t])
  /\ child' = [child EXCEPT ![t] = None]
  /\ last' = Outcome("failed")
  /\ PartlyRouted(child[t])
  /\ UNCHANGED <<file, pidfile, seen>>

\* The settings are read, and the state file created, only if there is none.
SetLook(t) ==
  /\ pc[t] = "s_look"
  /\ \/ file # "absent" /\ Goto(t, "s_route") /\ UNCHANGED <<file, seen>>
     \/ /\ file = "absent"
        /\ file' = "torn"
        /\ Goto(t, IF routed THEN "s_ours" ELSE "s_user")
        /\ UNCHANGED seen
     \/ file = "absent" /\ Note("stat") /\ Goto(t, "s_route") /\ UNCHANGED file
  /\ UNCHANGED <<routed, port, pidfile, child, last>>

SetWrite(t) ==
  /\ pc[t] \in WritePhases
  /\ file' = IF pc[t] = "s_ours" THEN "ours" ELSE "user"
  /\ Goto(t, "s_route")
  /\ UNCHANGED <<routed, port, pidfile, child, history>>

SetRoute(t) ==
  /\ pc[t] = "s_route"
  /\ routed' = TRUE
  /\ Finish(t, "on")
  /\ UNCHANGED <<file, port, pidfile, seen>>

\* A step of enable fails and the command exits at once.
EnableFails(t) ==
  /\ pc[t] \in {"e_check", "s_look", "s_route"} \cup WritePhases
  /\ IF pc[t] \in WritePhases THEN Note("torn") ELSE UNCHANGED seen
  /\ PartlyRouted(t)
  /\ Finish(t, "failed")
  /\ UNCHANGED <<file, port, pidfile>>

-----------------------------------------------------------------------------
(* Revert, run by disable and by a daemon that was told to stop.           *)

\* What follows Revert.
AfterRevert(x) == IF x \in Pids THEN "exit" ELSE "d_stop"

RevertLookOnly(x) ==
  /\ pc[x] = "r_look"
  /\ Goto(x, IF file = "user" THEN "r_remove" ELSE AfterRevert(x))
  /\ UNCHANGED <<switch, port, pidfile, child, history>>

\* Nothing to do without a state file; with one that does not parse, or cannot
\* be read, Revert returns an error that neither of its callers looks at.
RevertLook(x) ==
  /\ pc[x] = "r_look"
  /\ \/ file \in {"absent", "torn"} /\ Goto(x, AfterRevert(x)) /\ UNCHANGED seen
     \/ file = "user" /\ Goto(x, "r_user") /\ UNCHANGED seen
     \/ file = "ours" /\ Goto(x, "r_ours") /\ UNCHANGED seen
     \/ file \in {"user", "ours"} /\ Note("restore") /\ Goto(x, AfterRevert(x))
  /\ UNCHANGED <<switch, port, pidfile, child, last>>

\* A service whose command fails stays routed; Revert goes on.
RevertRestore(x) ==
  /\ pc[x] \in {"r_user", "r_ours"}
  /\ \/ routed' = (pc[x] = "r_ours") /\ UNCHANGED seen
     \/ Note("restore") /\ PartlyRouted(x)
  /\ Goto(x, "r_remove")
  /\ UNCHANGED <<file, port, pidfile, child, last>>

\* The state file is removed whether or not every command succeeded.
RevertRemove(x) ==
  /\ pc[x] = "r_remove"
  /\ \/ file' = "absent" /\ UNCHANGED seen
     \/ Note("remove") /\ UNCHANGED file
  /\ Goto(x, AfterRevert(x))
  /\ UNCHANGED <<routed, port, pidfile, child, last>>

-----------------------------------------------------------------------------
(* disable                                                                 *)

BeginDisable(t) ==
  /\ Idle(t)
  /\ Goto(t, "r_look")
  /\ Begins({})
  /\ UNCHANGED <<switch, port, pidfile, child>>

SignalledExits(p) ==
  IF pc[p] \in {"boot", "bound"} THEN "dead" ELSE IF pc[p] = "serving" THEN "exit" ELSE pc[p]

SignalledIgnores(p) == IF pc[p] \in {"boot", "bound"} THEN "dead" ELSE pc[p]

\* The signal ends a daemon without a handler; one with a handler starts its
\* own Revert; later signals wait in the channel for ever.
Signalled(p) ==
  CASE pc[p] \in {"boot", "bound"} -> "dead"
    [] pc[p] = "serving"           -> "r_look"
    [] OTHER                       -> pc[p]

DropsPort(p) == IF Signalled(p) = "dead" THEN Release(p) ELSE UNCHANGED port

StopNothing(t) ==
  /\ pc[t] = "d_stop"
  /\ pidfile = None
  /\ Finish(t, "off")
  /\ UNCHANGED <<switch, port, pidfile, seen>>

\* On Windows an interrupt cannot be sent to another process.
StopSignal(t) ==
  /\ pc[t] = "d_stop"
  /\ pidfile # None
  /\ child' = [child EXCEPT ![t] = pidfile]
  /\ IF Windows
     THEN Goto(t, "d_wait") /\ UNCHANGED port
     ELSE /\ pc' = [pc EXCEPT ![t] = "d_wait", ![pidfile] = Signalled(pidfile)]
          /\ DropsPort(pidfile)
  /\ UNCHANGED <<switch, pidfile, history>>

StopKeepsPidfile(t) ==
  /\ pc[t] = "d_wait"
  /\ Finish(t, "off")
  /\ UNCHANGED <<switch, port, pidfile, seen>>

\* The pid file is removed once the daemon is gone, or after three seconds; the
\* command ends the same when it cannot be removed.
StopWaited(t) ==
  /\ pc[t] = "d_wait"
  /\ \/ pidfile' = None /\ UNCHANGED seen
     \/ Note("remove") /\ UNCHANGED pidfile
  /\ Finish(t, "off")
  /\ UNCHANGED <<switch, port>>

-----------------------------------------------------------------------------
(* The daemon                                                              *)

\* It listens, or finds the port taken and exits.
DaemonListen(p) ==
  /\ pc[p] = "boot"
  /\ IF port = None
     THEN port' = p /\ Goto(p, "bound")
     ELSE UNCHANGED port /\ Goto(p, "dead")
  /\ UNCHANGED <<switch, pidfile, child, history>>

DaemonNotify(p) ==
  /\ pc[p] = "bound"
  /\ Goto(p, "serving")
  /\ UNCHANGED <<switch, port, pidfile, child, history>>

DaemonExit(p) ==
  /\ pc[p] = "exit"
  /\ Goto(p, "dead")
  /\ Release(p)
  /\ UNCHANGED <<switch, pidfile, child, history>>

-----------------------------------------------------------------------------
(* start, run and shell: a proxy in the foreground, without a system proxy *)
(* of its own; run and shell use the one that listens already, if any.     *)

BeginForeground(t) ==
  /\ Idle(t)
  /\ Goto(t, "f_boot")
  /\ Begins({"foreground"})
  /\ UNCHANGED <<switch, port, pidfile, child>>

BeginRun(t) ==
  /\ Idle(t)
  /\ Goto(t, "f_look")
  /\ Begins({"foreground"})
  /\ UNCHANGED <<switch, port, pidfile, child>>

\* ensureProxy: does the port answer?
EnsureProxy(t) ==
  /\ pc[t] = "f_look"
  /\ Goto(t, IF port # None THEN "f_using" ELSE "f_boot")
  /\ UNCHANGED <<switch, port, pidfile, child, history>>

ForegroundListen(t) ==
  /\ pc[t] = "f_boot"
  /\ IF port = None
     THEN port' = t /\ Goto(t, "f_serving")
     ELSE UNCHANGED port /\ Goto(t, "idle")
  /\ UNCHANGED <<switch, pidfile, child, history>>

\* A signal ends it, or the end of the tool it was started for; nothing is
\* reverted.
ForegroundStop(t) ==
  /\ pc[t] \in {"f_serving", "f_using"}
  /\ Goto(t, "idle")
  /\ Release(t)
  /\ UNCHANGED <<switch, pidfile, child, history>>

-----------------------------------------------------------------------------
(* Signals and crashes                                                     *)

\* SIGINT or SIGTERM from outside, at logout or by hand.
Term(p) ==
  /\ pc[p] \in {"bound", "serving"}
  /\ Goto(p, Signalled(p))
  /\ DropsPort(p)
  /\ NoteAll(IF pc[p] = "bound" THEN {"early"} ELSE IF Busy = {} THEN {} ELSE {"overlap"})
  /\ last' = "none"
  /\ UNCHANGED <<switch, pidfile, child>>

DaemonKilled(p) ==
  /\ Alive(p)
  /\ Note("daemon")
  /\ Goto(p, "dead")
  /\ Release(p)
  /\ PartlyRouted(p)
  /\ last' = "none"
  /\ UNCHANGED <<file, pidfile, child>>

CommandKilled(t) ==
  /\ pc[t] \in CommandPhases
  /\ Note(IF pc[t] \in WritePhases THEN "torn" ELSE "cli")
  /\ PartlyRouted(t)
  /\ Finish(t, "none")
  /\ UNCHANGED <<file, port, pidfile>>

-----------------------------------------------------------------------------
Init ==
  /\ routed = FALSE /\ file = "absent"
  /\ port = None /\ pidfile = None
  /\ pc = [x \in Terminals \cup Pids |-> IF x \in Pids THEN "unborn" ELSE "idle"]
  /\ child = [t \in Terminals |-> None]
  /\ last = "none"
  /\ seen \in {{}, {"windows"} \cap Faults}

Revert(x) == RevertLook(x) \/ RevertRestore(x) \/ RevertRemove(x)

CommandStep(t) ==
  \/ StartAlreadyUp(t)
  \/ \E p \in Pids : StartSpawn(t, p)
  \/ StartAnswered(t) \/ StartUnrecorded(t) \/ StartTimeout(t)
  \/ SetLook(t) \/ SetWrite(t) \/ SetRoute(t) \/ EnableFails(t)
  \/ Revert(t)
  \/ StopNothing(t) \/ StopSignal(t) \/ StopWaited(t)
  \/ EnsureProxy(t) \/ ForegroundListen(t)

DaemonStep(p) == DaemonListen(p) \/ DaemonNotify(p) \/ Revert(p) \/ DaemonExit(p)

Next ==
  \/ \E t \in Terminals : \/ BeginEnable(t) \/ BeginDisable(t)
                          \/ BeginForeground(t) \/ BeginRun(t)
                          \/ CommandStep(t)
                          \/ ForegroundStop(t) \/ CommandKilled(t)
  \/ \E p \in Pids : DaemonStep(p) \/ Term(p) \/ DaemonKilled(p)

Spec == Init /\ [][Next]_vars

\* The operating system keeps scheduling the processes that are in the middle
\* of something; nobody has to type a command or send a signal.
Fairness ==
  /\ \A t \in Terminals : WF_vars(CommandStep(t))
  /\ \A p \in Pids : WF_vars(DaemonStep(p))

FairSpec == Spec /\ Fairness

-----------------------------------------------------------------------------
(* Properties                                                              *)

\* Every variable holds values of the kind the code gives it.
TypeOK ==
  /\ routed \in BOOLEAN
  /\ file \in Contents
  /\ port \in Terminals \cup Pids \cup {None}
  /\ pidfile \in Pids \cup {None}
  /\ pc \in [Terminals \cup Pids -> {"idle", "f_serving", "f_using"} \cup CommandPhases \cup DaemonPhases]
  /\ child \in [Terminals -> Pids \cup {None}]
  /\ last \in {"none", "on", "off", "failed"}
  /\ seen \subseteq FaultKinds

Without(kinds) == seen \cap kinds = {}
AtRest == Busy = {}

\* What leaves traffic routed although Revert has run, or has nothing to restore
\* it from; neither the daemon nor disable looks at what Revert returns.
RevertBroken == {"overlap", "torn", "stat", "restore"}

\* As long as traffic is routed to Redactr the state file holds the user's own
\* settings for disable to restore - whichever command is killed, however the
\* daemon dies, whether or not files can be removed.
Undoable == Without(RevertBroken) => (routed => file = "user")

\* The machine is never left with its traffic routed to a dead port ("if the
\* daemon dies, all internet breaks"): a daemon that is stopped by a signal or
\* by disable reverts first, a failed enable routes nothing to a daemon it has
\* killed.
NoDeadProxy ==
  Without(RevertBroken \cup {"daemon", "early", "foreground"}) => (routed => port \in Pids)

\* What ends a daemon, or leaves one that is not on record.
DaemonBroken == {"overlap", "cli", "daemon", "early", "foreground", "disk", "windows"}

\* "Redactr is on": after a successful enable traffic is routed, a daemon
\* serves it, and it is the one disable will find in the pid file - whatever
\* state file, pid file or half restored settings earlier commands have left.
OnMeansOn ==
  Without(DaemonBroken) /\ AtRest /\ last = "on" =>
    /\ routed
    /\ port = pidfile /\ port \in Pids
    /\ pc[port] \in {"bound", "serving"}

\* "Redactr is off": after disable nothing is routed, and nothing is left to
\* restore or on record unless it could not be removed; also after a daemon or
\* a command was killed.
OffMeansOff ==
  Without(RevertBroken) /\ AtRest /\ last = "off" =>
    /\ ~routed
    /\ Without({"remove"}) => file = "absent" /\ pidfile = None

\* At rest a daemon that serves is the one in the pid file: none is ever left
\* running where disable cannot find it.
NoOrphan ==
  Without({"overlap", "cli", "disk", "windows"}) /\ AtRest =>
    \A p \in Pids : pc[p] \in {"bound", "serving"} => pidfile = p

\* Every command ends, whatever happens to the daemon it waits for.
CommandsEnd == \A t \in Terminals : t \in Busy ~> t \notin Busy

\* A daemon that disable has told to stop is gone in the end, also when
\* disable stopped waiting for it; on Windows it is never told.
DisableStops ==
  \A p \in Pids :
    (~Windows /\ \E t \in Terminals : pc[t] = "d_wait" /\ child[t] = p) ~> ~Alive(p)

=============================================================================
