--------------------------- MODULE SystemProxyKeys ---------------------------
(***************************************************************************)
(* The system-proxy switch of internal/systemproxy on Linux (linux.go:     *)
(* GNOME settings) and on Windows (windows.go: the registry).              *)
(*                                                                         *)
(* Both keep the proxy in a few keys that Set overwrites and Revert        *)
(* restores one command at a time; both read the keys into the state file  *)
(* proxy-state.json before the first Set.  They differ in the keys, in the *)
(* order in which Set writes them, in what is done when a command fails,   *)
(* and in that a registry value may be missing.                            *)
(*                                                                         *)
(* Abstractions: a value is Redactr's, the user's or empty; opening a      *)
(* registry key for writing is part of the step that follows it in Set.    *)
(***************************************************************************)
EXTENDS Integers, Sequences, FiniteSets

CONSTANTS
  Procs,    \* the processes that call Set and Revert
  Priors,   \* the settings a user may have chosen, on both platforms
  Faults,   \* which events of FaultKinds may happen
  MaxSeen,  \* how many kinds of the noted ones in one behaviour: a bound
  Absent,   \* the state file does not exist
  Torn,     \* the state file exists but holds no complete snapshot
  Missing   \* there is no such registry value, or no entry in the snapshot

\* "crash"    a caller is killed between two of its steps
\* "command"  a command of Set, or the creation of the file, fails
\* "remove"   the state file cannot be removed
\* "torn"     the state file is left truncated (killed or failed while writing)
\* "read"     a registry value cannot be read for the snapshot
\* "open"     Revert cannot open the registry key
\* "restore"  a restoring command of Revert fails
\* "overlap"  a Set runs while another call is in progress
\* "edit"     the user changes a setting after the snapshot was begun
\* "stat"     os.Stat of the state file fails although there is none
FaultKinds ==
  {"crash", "command", "remove", "torn", "read", "open", "restore", "overlap", "edit", "stat"}

LinuxKeys == <<"mode", "https-host", "https-port", "http-host", "http-port">>

\* Snapshot and Revert visit the values of the registry in this order.
WindowsKeys == <<"ProxyEnable", "ProxyServer", "ProxyOverride">>

Platforms == {"linux", "windows"}

Ordered(platf) == IF platf = "linux" THEN LinuxKeys ELSE WindowsKeys

Keys(platf) == {Ordered(platf)[i] : i \in DOMAIN Ordered(platf)}

\* What Set writes.
Ours(k) ==
  CASE k = "mode" -> "manual" [] k = "ProxyEnable" -> "on" [] OTHER -> "ours"

Values(k) ==
  CASE k = "mode"        -> {"manual", "none"}
    [] k = "ProxyEnable" -> {"on", "off", Missing}
    [] OTHER             -> {"ours", "theirs", Missing}

Marks == {"manual", "none", "on", "off", "ours", "theirs", Missing}

Snapshots(platf) == [Keys(platf) -> Marks]

\* A setting that the machine can have.
IsStore(f, platf) == f \in Snapshots(platf) /\ \A k \in Keys(platf) : f[k] \in Values(k)

ASSUME SystemProxyKeysAssumption ==
  /\ \A f \in Priors : \E w \in Platforms : IsStore(f, w)
  /\ \A f \in Priors : \A k \in DOMAIN f : f[k] # "ours"
  /\ Faults \subseteq FaultKinds
  /\ Absent # Torn
  /\ Missing \notin {"manual", "none", "on", "off", "ours", "theirs"}
  /\ \A w \in Platforms : {Absent, Torn} \cap Snapshots(w) = {}

VARIABLES
  platform,  \* the machine, chosen once
  store,     \* the live settings
  file,      \* the state file
  pc,        \* the next step of each process
  at,        \* how many keys its loop has done
  mem,       \* the snapshot it holds in memory
  failed,    \* whether a command of its Revert has failed (firstErr # nil)
  orig,      \* history: what the user last chose
  seen       \* history: the kinds of faults that have happened

callVars == <<pc, at, mem, failed>>
history  == <<orig, seen>>
vars     == <<platform, store, file, pc, at, mem, failed, orig, seen>>

SetPhases    == {"stat", "snap", "write", "set"}
RevertPhases == {"r_stat", "r_load", "r_open", "r_set"}
EndPhases    == {"idle", "set_ok", "set_err", "revert_ok", "revert_err"}

InSet(p) == pc[p] \in SetPhases
Ended(p) == pc[p] \in EndPhases

Empty == [k \in Keys(platform) |-> Missing]

ServerFirst == <<"ProxyServer", "ProxyEnable", "ProxyOverride">>

EnableFirst == IF platform = "linux" THEN LinuxKeys ELSE WindowsKeys

\* On Windows Set names the server before it switches the proxy on.
SetOrder == IF platform = "linux" THEN LinuxKeys ELSE ServerFirst

RestoredWhenSaved(k, saved, current) == IF saved = Missing THEN current ELSE saved

\* What Revert makes of a key: the saved value, or no value at all; only
\* ProxyEnable is switched off instead of deleted.
Restored(k, saved, current) ==
  IF k = "ProxyEnable" /\ saved = Missing THEN "off" ELSE saved

SameSetting(k, a, b) == Restored(k, a, a) = Restored(k, b, b)

\* isSetOS: what the command status reports.
IsSet ==
  IF platform = "linux"
  THEN \A k \in {"mode", "https-host", "https-port"} : store[k] = Ours(k)
  ELSE \A k \in {"ProxyEnable", "ProxyServer"} : store[k] = Ours(k)

SnapshotLive == file # Absent \/ \E p \in Procs : ~Ended(p)

-----------------------------------------------------------------------------
(* Frame of one step of a call.                                            *)

Goto(p, label) == pc' = [pc EXCEPT ![p] = label]

\* A loop over the keys begins, and goes on.
Begin(p, label) == Goto(p, label) /\ at' = [at EXCEPT ![p] = 0]

NextKey(p) == at' = [at EXCEPT ![p] = @ + 1]

\* A call returns: its local variables go out of scope.
Return(p, label) ==
  /\ pc' = [pc EXCEPT ![p] = label]
  /\ at' = [at EXCEPT ![p] = 0]
  /\ mem' = [mem EXCEPT ![p] = Empty]
  /\ failed' = [failed EXCEPT ![p] = FALSE]

Note(kind) ==
  /\ kind \in Faults
  /\ seen' = seen \cup {kind}
  /\ Cardinality(seen') <= MaxSeen

\* A Set overlaps with any call, a Revert only with a Set.
BeginCall(p, label, others) ==
  /\ Ended(p)
  /\ Goto(p, label)
  /\ IF others = {} THEN UNCHANGED seen ELSE Note("overlap")
  /\ UNCHANGED <<platform, store, file, at, mem, failed, orig>>

-----------------------------------------------------------------------------
(* Set                                                                     *)

BeginSet(p) == BeginCall(p, "stat", {q \in Procs \ {p} : ~Ended(q)})

SnapshotAlways == TRUE

\* Only snapshot if there is no snapshot yet.
NeedsSnapshot == file = Absent

\* Any error of os.Stat but "does not exist" is taken for a file that is there.
SetStat(p) ==
  /\ pc[p] = "stat"
  /\ \/ Begin(p, IF NeedsSnapshot THEN "snap" ELSE "set") /\ UNCHANGED seen
     \/ file = Absent /\ Note("stat") /\ Begin(p, "set")
  /\ UNCHANGED <<platform, store, file, mem, failed, orig>>

\* snapshotGSettings, snapshotRegistry: one key is read.  The registry's reader
\* takes a value that it cannot read for one that does not exist.
SnapshotKey(p) ==
  /\ pc[p] = "snap"
  /\ at[p] < Len(Ordered(platform))
  /\ LET k == Ordered(platform)[at[p] + 1] IN
       \/ mem' = [mem EXCEPT ![p][k] = store[k]] /\ UNCHANGED seen
       \/ platform = "windows" /\ Note("read") /\ UNCHANGED mem
  /\ NextKey(p)
  /\ UNCHANGED <<platform, store, file, pc, failed, orig>>

\* saveState: the file is created or truncated, then written.
CreateStateFile(p) ==
  /\ pc[p] = "snap"
  /\ at[p] = Len(Ordered(platform))
  /\ file' = Torn
  /\ Goto(p, "write")
  /\ UNCHANGED <<platform, store, at, mem, failed, history>>

WriteStateFile(p) ==
  /\ pc[p] = "write"
  /\ file' = mem[p]
  /\ mem' = [mem EXCEPT ![p] = Empty]
  /\ Begin(p, "set")
  /\ UNCHANGED <<platform, store, failed, history>>

SetKeyUnchecked(p) ==
  /\ pc[p] = "set"
  /\ at[p] < Len(SetOrder)
  /\ LET k == SetOrder[at[p] + 1] IN store' = [store EXCEPT ![k] = Ours(k)] \/ UNCHANGED store
  /\ NextKey(p)
  /\ UNCHANGED <<platform, file, pc, mem, failed, history>>

SetKey(p) ==
  /\ pc[p] = "set"
  /\ at[p] < Len(SetOrder)
  /\ LET k == SetOrder[at[p] + 1] IN store' = [store EXCEPT ![k] = Ours(k)]
  /\ NextKey(p)
  /\ UNCHANGED <<platform, file, pc, mem, failed, history>>

SetDone(p) ==
  /\ pc[p] = "set"
  /\ at[p] = Len(SetOrder)
  /\ Return(p, "set_ok")
  /\ UNCHANGED <<platform, store, file, history>>

\* A command, or the creation of the file, fails: Set returns at once and
\* leaves behind what it has done so far.
SetFails(p) ==
  /\ "command" \in Faults
  /\ pc[p] \in {"snap", "set"}
  /\ pc[p] = "set" => at[p] < Len(SetOrder)
  /\ Return(p, "set_err")
  /\ UNCHANGED <<platform, store, file, history>>

\* The write fails after the file was truncated (a full disk).
SaveFails(p) ==
  /\ pc[p] = "write"
  /\ Note("torn")
  /\ Return(p, "set_err")
  /\ UNCHANGED <<platform, store, file, orig>>

-----------------------------------------------------------------------------
(* Revert                                                                  *)

BeginRevert(p) == BeginCall(p, "r_stat", {q \in Procs : InSet(q)})

\* Nothing to do when there is no state file.
RevertStat(p) ==
  /\ pc[p] = "r_stat"
  /\ \/ file = Absent /\ Return(p, "revert_ok") /\ UNCHANGED seen
     \/ /\ IF file = Absent THEN Note("stat") ELSE UNCHANGED seen
        /\ Goto(p, "r_load")
        /\ UNCHANGED <<at, mem, failed>>
  /\ UNCHANGED <<platform, store, file, orig>>

\* loadState fails on a file that is gone by now or does not parse.
LoadState(p) ==
  /\ pc[p] = "r_load"
  /\ IF file \in {Absent, Torn}
     THEN Return(p, "revert_err")
     ELSE /\ mem' = [mem EXCEPT ![p] = file]
          /\ Begin(p, IF platform = "linux" THEN "r_set" ELSE "r_open")
          /\ UNCHANGED failed
  /\ UNCHANGED <<platform, store, file, history>>

\* A registry key that does not open: the state file is removed all the same.
OpenKey(p) ==
  /\ pc[p] = "r_open"
  /\ \/ Goto(p, "r_set") /\ UNCHANGED <<file, at, mem, failed, seen>>
     \/ Note("open") /\ file' = Absent /\ Return(p, "revert_err")
  /\ UNCHANGED <<platform, store, orig>>

\* One restoring command.  Linux remembers in firstErr that it failed, Windows
\* does not look; both go on.
RestoreKey(p) ==
  /\ pc[p] = "r_set"
  /\ at[p] < Len(Ordered(platform))
  /\ LET k == Ordered(platform)[at[p] + 1] IN
       \/ /\ store' = [store EXCEPT ![k] = Restored(k, mem[p][k], @)]
          /\ UNCHANGED <<failed, seen>>
       \/ /\ Note("restore")
          /\ failed' = [failed EXCEPT ![p] = (platform = "linux")]
          /\ UNCHANGED store
  /\ NextKey(p)
  /\ UNCHANGED <<platform, file, pc, mem, orig>>

RemoveStateFileEarly(p) ==
  /\ pc[p] = "r_set"
  /\ at[p] = 0
  /\ file' = Absent
  /\ NextKey(p)
  /\ UNCHANGED <<platform, store, pc, mem, failed, history>>

\* The state file is removed whether or not every command succeeded; nobody
\* looks at the result of the removal.
RemoveStateFile(p) ==
  /\ pc[p] = "r_set"
  /\ at[p] = Len(Ordered(platform))
  /\ file' \in {Absent} \cup IF "remove" \in Faults THEN {file} ELSE {}
  /\ Return(p, IF failed[p] THEN "revert_err" ELSE "revert_ok")
  /\ UNCHANGED <<platform, store, history>>

-----------------------------------------------------------------------------
(* Everything the callers do not control.                                  *)

\* The process is killed in the middle of a call.
Killed(p) ==
  /\ ~Ended(p)
  /\ IF pc[p] = "write" THEN Note("torn") ELSE "crash" \in Faults /\ UNCHANGED seen
  /\ Return(p, "idle")
  /\ UNCHANGED <<platform, store, file, orig>>

\* The user chooses other settings.
Edit(new) ==
  /\ DOMAIN new = DOMAIN store
  /\ new # store
  /\ store' = new
  /\ orig' = new
  /\ IF SnapshotLive THEN Note("edit") ELSE UNCHANGED seen
  /\ UNCHANGED <<platform, file, callVars>>

-----------------------------------------------------------------------------
Init ==
  /\ platform \in Platforms
  /\ store \in Priors /\ DOMAIN store = Keys(platform)
  /\ file = Absent
  /\ pc = [p \in Procs |-> "idle"]
  /\ at = [p \in Procs |-> 0]
  /\ mem = [p \in Procs |-> Empty]
  /\ failed = [p \in Procs |-> FALSE]
  /\ orig = store
  /\ seen = {}

SetStep(p) ==
  \/ SetStat(p) \/ SnapshotKey(p) \/ CreateStateFile(p) \/ WriteStateFile(p)
  \/ SetKey(p) \/ SetDone(p) \/ SetFails(p) \/ SaveFails(p)

RevertStep(p) ==
  \/ RevertStat(p) \/ LoadState(p) \/ OpenKey(p) \/ RestoreKey(p) \/ RemoveStateFile(p)

Next ==
  \/ \E p \in Procs : BeginSet(p) \/ BeginRevert(p) \/ SetStep(p) \/ RevertStep(p) \/ Killed(p)
  \/ \E new \in Priors : Edit(new)

Spec == Init /\ [][Next]_vars

-----------------------------------------------------------------------------
(* Properties                                                              *)

\* Every variable holds values of the kind the code gives it.
TypeOK ==
  /\ platform \in Platforms
  /\ IsStore(store, platform)
  /\ file \in Snapshots(platform) \cup {Absent, Torn}
  /\ pc \in [Procs -> SetPhases \cup RevertPhases \cup EndPhases]
  /\ at \in [Procs -> 0 .. Len(Ordered(platform))]
  /\ mem \in [Procs -> Snapshots(platform)]
  /\ failed \in [Procs -> BOOLEAN]
  /\ orig \in Priors
  /\ seen \subseteq FaultKinds

\* The faults that defeat the snapshot; a killed caller or a failed command of
\* Set is not one of them.
Breaking == {"torn", "read", "open", "restore", "overlap", "edit", "stat"}

Unbroken == seen \cap Breaking = {}

\* Every key that differs from what the user chose is recorded in the state file
\* as the user chose it, after Sets and Reverts that failed or were killed
\* between any two keys, and with two Reverts at work on the same keys.
Recoverable ==
  Unbroken =>
    \A k \in Keys(platform) : ~SameSetting(k, store[k], orig[k]) =>
      file \notin {Absent, Torn} /\ SameSetting(k, file[k], orig[k])

\* Without a state file every key is as the user chose it, the host and the port
\* of a proxy that was switched off included.
OffMeansRestored ==
  Unbroken /\ file = Absent =>
    \A k \in Keys(platform) : SameSetting(k, store[k], orig[k])

\* When Set reports success, status reports the proxy as set, and the web proxy
\* for http, which status does not look at, is Redactr too.
SuccessMeansOn ==
  Unbroken => \A p \in Procs : pc[p] = "set" /\ at[p] = Len(SetOrder) =>
                IsSet /\ \A k \in Keys(platform) : store[k] = Ours(k)

\* Where Windows sends traffic.
Route == IF store["ProxyEnable"] = "on" THEN store["ProxyServer"] ELSE Missing

\* On Windows traffic goes where the user chose or to Redactr, and nowhere else,
\* at every step of Set and of Revert and wherever one of them stops halfway: a
\* server the user had switched off is never switched on.
OnlyChosenRoutes ==
  Unbroken /\ platform = "windows" =>
    \/ Route = "ours"
    \/ Route = (IF orig["ProxyEnable"] = "on" THEN orig["ProxyServer"] ELSE Missing)

\* Set and Revert implement the two-step switch their callers rely on.
Switch == INSTANCE ProxySwitch WITH routed <- IsSet, snapped <- file # Absent

ImplementsSwitch ==
  Switch!Init /\ [][seen' \cap Breaking = {} => [Switch!Next]_<<IsSet, file # Absent>>]_vars

=============================================================================
