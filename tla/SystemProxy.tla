----------------------------- MODULE SystemProxy -----------------------------
(***************************************************************************)
(* The macOS system-proxy switch of internal/systemproxy (darwin.go, with  *)
(* the snapshot file of systemproxy.go).                                   *)
(*                                                                         *)
(* Set records the proxy settings of every active network service in the   *)
(* state file proxy-state.json and then points each service at the local   *)
(* proxy; Revert restores what the file records and deletes it.  Both are  *)
(* sequences of `networksetup` commands and file operations, one step each *)
(* here.  Several processes run them: the CLI commands enable and disable, *)
(* and the daemon when a signal stops it.  Nothing serialises the callers, *)
(* any command may fail, a caller may be killed between two steps, and     *)
(* network services and the user's own settings change meanwhile.          *)
(*                                                                         *)
(* Abstractions: host:port is one address; the two `get` commands of       *)
(* readServiceState are one step; services are visited in any order.       *)
(***************************************************************************)
EXTENDS Naturals, FiniteSets

CONSTANTS
  Services,     \* the network services of the machine
  Procs,        \* the processes that call Set and Revert
  Addrs,        \* proxy addresses other than Redactr's
  NoAddr,       \* the empty address
  RedactrAddr,  \* 127.0.0.1:8080
  Priors,       \* the settings a user may have chosen for a service
  Faults,       \* which events of FaultKinds may happen
  MaxSeen,      \* how many of the noted kinds in one behaviour: a bound
  Absent,       \* the state file does not exist
  Torn,         \* the state file exists but holds no complete snapshot
  Missing       \* the snapshot has no entry for a service

\* "crash"    a caller is killed between two of its steps
\* "command"  a command of Set, or the creation of the file, fails
\* "remove"   the state file cannot be removed
\* "torn"     the state file is left truncated (killed or failed while writing)
\* "restore"  a restoring command of Revert fails
\* "overlap"  a Set runs while another call is in progress
\* "plug"     a service becomes active after the snapshot was begun
\* "edit"     the user changes a service after the snapshot was begun
\* "stat"     os.Stat of the state file fails although there is none
FaultKinds ==
  {"crash", "command", "remove", "torn", "restore", "overlap", "plug", "edit", "stat"}

Slots == {"https", "http"}

Settings == [on : BOOLEAN, addr : Addrs \cup {NoAddr, RedactrAddr}]

ServiceState == [Slots -> Settings]

Snapshots == [Services -> ServiceState \cup {Missing}]

ASSUME SystemProxyAssumption ==
  /\ NoAddr # RedactrAddr
  /\ RedactrAddr \notin Addrs
  /\ Priors \subseteq [on : BOOLEAN, addr : Addrs \cup {NoAddr}]
  /\ Faults \subseteq FaultKinds
  /\ Absent # Torn
  /\ {Absent, Torn} \cap Snapshots = {}
  /\ Missing \notin ServiceState

VARIABLES
  os,      \* os[s][k]: the live setting of slot k of service s
  bypass,  \* the services whose bypass list Redactr has overwritten
  active,  \* the services `networksetup -listallnetworkservices` lists
  file,    \* the state file
  pc,      \* the next step of each process
  todo,    \* the services its loop still has to visit
  cur,     \* the service its loop is at
  mem,     \* the snapshot it holds in memory
  failed,  \* whether a command of its Revert has failed (firstErr # nil)
  orig,    \* history: what the user last chose for each service
  seen     \* history: the kinds of faults that have happened

callVars == <<pc, todo, cur, mem, failed>>
osVars   == <<os, bypass, active>>
history  == <<orig, seen>>
vars     == <<os, bypass, active, file, pc, todo, cur, mem, failed, orig, seen>>

SetPhases    == {"stat", "snap_list", "snap_read", "snap_write",
                 "list", "https", "http", "bypass"}
RevertPhases == {"r_stat", "r_load", "r_https", "r_http"}
EndPhases    == {"idle", "set_ok", "set_err", "revert_ok", "revert_err"}

InSet(p)    == pc[p] \in SetPhases
InRevert(p) == pc[p] \in RevertPhases
Ended(p)    == pc[p] \in EndPhases

Empty == [s \in Services |-> Missing]
Recorded(snap) == {s \in Services : snap[s] # Missing}

-----------------------------------------------------------------------------
(* What the settings mean.                                                 *)

Ours == [on |-> TRUE, addr |-> RedactrAddr]

\* Where a slot sends traffic; a slot switched off, or on without a host,
\* sends it nowhere in particular.
Effective(setting) == IF setting.on THEN setting.addr ELSE NoAddr

\* A service routes as the given state does.
Same(a, b) == \A k \in Slots : Effective(a[k]) = Effective(b[k])

RestoredOff(saved, current) == [current EXCEPT !.on = FALSE]

\* The result of the restoring command for one slot: the saved host and port
\* are set again, which also switches the slot on, or the slot is switched off
\* with whatever host it has.  So a slot that was off gets neither its host nor
\* its port back (RevertRestores), and no command restores the bypass list.
Restored(saved, current) ==
  IF saved.on /\ saved.addr # NoAddr
  THEN saved
  ELSE [current EXCEPT !.on = FALSE]

PointsAtUs(s) == \E k \in Slots : os[s][k] = Ours

\* From the moment a Set takes its snapshot until the file is gone and no call
\* is left, the user's own settings live in the snapshot.
SnapshotLive == file # Absent \/ \E p \in Procs : ~Ended(p)

-----------------------------------------------------------------------------
(* Frame of one step of a call.                                            *)

Goto(p, label) == pc' = [pc EXCEPT ![p] = label]

\* A call returns: its local variables go out of scope.
Return(p, label) ==
  /\ pc' = [pc EXCEPT ![p] = label]
  /\ todo' = [todo EXCEPT ![p] = {}]
  /\ cur' = [cur EXCEPT ![p] = Missing]
  /\ mem' = [mem EXCEPT ![p] = Empty]
  /\ failed' = [failed EXCEPT ![p] = FALSE]

Note(kind) ==
  /\ seen' = seen \cup {kind}
  /\ Cardinality(seen') <= MaxSeen

May(kind) == kind \in Faults

-----------------------------------------------------------------------------
(* Set                                                                     *)

\* A call may begin whenever its process is not in one; running a Set beside
\* another call is the "overlap" fault, two Reverts may always overlap.
BeginSet(p) ==
  /\ Ended(p)
  /\ Goto(p, "stat")
  /\ IF \A q \in Procs \ {p} : Ended(q)
     THEN UNCHANGED seen
     ELSE May("overlap") /\ Note("overlap")
  /\ UNCHANGED <<osVars, file, todo, cur, mem, failed, orig>>

SnapshotAlways == TRUE

\* Only snapshot if there is no snapshot yet.
NeedsSnapshot == file = Absent

\* Any error of os.Stat but "does not exist" is taken for a file that is there.
SetStat(p) ==
  /\ pc[p] = "stat"
  /\ \/ Goto(p, IF NeedsSnapshot THEN "snap_list" ELSE "list") /\ UNCHANGED seen
     \/ file = Absent /\ May("stat") /\ Note("stat") /\ Goto(p, "list")
  /\ UNCHANGED <<osVars, file, todo, cur, mem, failed, orig>>

\* listServices, for the snapshot or for the commands.
ListServices(p) ==
  /\ pc[p] \in {"snap_list", "list"}
  /\ todo' = [todo EXCEPT ![p] = active]
  /\ Goto(p, IF pc[p] = "list" THEN "https" ELSE "snap_read")
  /\ UNCHANGED <<osVars, file, cur, mem, failed, history>>

ReadServiceState(p, s) ==
  /\ pc[p] = "snap_read"
  /\ s \in todo[p]
  /\ mem' = [mem EXCEPT ![p][s] = os[s]]
  /\ todo' = [todo EXCEPT ![p] = @ \ {s}]
  /\ UNCHANGED <<osVars, file, pc, cur, failed, history>>

\* saveState is os.WriteFile: the file is created or truncated, then written.
CreateStateFile(p) ==
  /\ pc[p] = "snap_read"
  /\ todo[p] = {}
  /\ file' = Torn
  /\ Goto(p, "snap_write")
  /\ UNCHANGED <<osVars, todo, cur, mem, failed, history>>

WriteStateFile(p) ==
  /\ pc[p] = "snap_write"
  /\ file' = mem[p]
  /\ mem' = [mem EXCEPT ![p] = Empty]
  /\ Goto(p, "list")
  /\ UNCHANGED <<osVars, todo, cur, failed, history>>

SetSlot(s, k) == os' = [os EXCEPT ![s][k] = Ours]

SetSecureWebProxy(p, s) ==
  /\ pc[p] = "https"
  /\ s \in todo[p]
  /\ SetSlot(s, "https")
  /\ todo' = [todo EXCEPT ![p] = @ \ {s}]
  /\ cur' = [cur EXCEPT ![p] = s]
  /\ Goto(p, "http")
  /\ UNCHANGED <<bypass, active, file, mem, failed, history>>

SetWebProxyUnchecked(p) ==
  /\ pc[p] = "http"
  /\ SetSlot(cur[p], "http") \/ UNCHANGED os
  /\ Goto(p, "bypass")
  /\ UNCHANGED <<bypass, active, file, todo, cur, mem, failed, history>>

SetWebProxy(p) ==
  /\ pc[p] = "http"
  /\ SetSlot(cur[p], "http")
  /\ Goto(p, "bypass")
  /\ UNCHANGED <<bypass, active, file, todo, cur, mem, failed, history>>

SetBypassDomains(p) ==
  /\ pc[p] = "bypass"
  /\ bypass' = bypass \cup {cur[p]}
  /\ cur' = [cur EXCEPT ![p] = Missing]
  /\ Goto(p, "https")
  /\ UNCHANGED <<os, active, file, todo, mem, failed, history>>

SetDone(p) ==
  /\ pc[p] = "https"
  /\ todo[p] = {}
  /\ Return(p, "set_ok")
  /\ UNCHANGED <<osVars, file, history>>

\* A command, or the creation of the file, fails: Set returns at once and
\* leaves behind what it has done so far.
SetFails(p) ==
  /\ May("command")
  /\ \/ pc[p] \in {"snap_list", "list", "http", "bypass", "snap_read"}
     \/ pc[p] = "https" /\ todo[p] # {}
  /\ Return(p, "set_err")
  /\ UNCHANGED <<osVars, file, history>>

\* The write fails after the file was truncated (a full disk).
SaveFails(p) ==
  /\ May("torn")
  /\ pc[p] = "snap_write"
  /\ Return(p, "set_err")
  /\ Note("torn")
  /\ UNCHANGED <<osVars, file, orig>>

-----------------------------------------------------------------------------
(* Revert                                                                  *)

BeginRevert(p) ==
  /\ Ended(p)
  /\ Goto(p, "r_stat")
  /\ IF \A q \in Procs : ~InSet(q)
     THEN UNCHANGED seen
     ELSE May("overlap") /\ Note("overlap")
  /\ UNCHANGED <<osVars, file, todo, cur, mem, failed, orig>>

\* Nothing to do when there is no state file.
RevertStat(p) ==
  /\ pc[p] = "r_stat"
  /\ \/ file = Absent /\ Return(p, "revert_ok") /\ UNCHANGED seen
     \/ /\ IF file = Absent THEN May("stat") /\ Note("stat") ELSE UNCHANGED seen
        /\ Goto(p, "r_load")
        /\ UNCHANGED <<todo, cur, mem, failed>>
  /\ UNCHANGED <<osVars, file, orig>>

\* loadState fails on a file that is gone by now or does not parse; Revert
\* then returns without restoring anything and leaves the file as it is.
LoadState(p) ==
  /\ pc[p] = "r_load"
  /\ IF file \in {Absent, Torn}
     THEN Return(p, "revert_err")
     ELSE /\ mem' = [mem EXCEPT ![p] = file]
          /\ todo' = [todo EXCEPT ![p] = Recorded(file)]
          /\ Goto(p, "r_https")
          /\ UNCHANGED <<cur, failed>>
  /\ UNCHANGED <<osVars, file, history>>

\* One restoring command: it takes effect, or fails and is remembered in
\* firstErr while the loop goes on.
RestoreSlot(p, s, k) ==
  \/ /\ os' = [os EXCEPT ![s][k] = Restored(mem[p][s][k], @)]
     /\ UNCHANGED <<failed, seen>>
  \/ /\ May("restore")
     /\ failed' = [failed EXCEPT ![p] = TRUE]
     /\ Note("restore")
     /\ UNCHANGED os

RevertHTTPS(p, s) ==
  /\ pc[p] = "r_https"
  /\ s \in todo[p]
  /\ RestoreSlot(p, s, "https")
  /\ todo' = [todo EXCEPT ![p] = @ \ {s}]
  /\ cur' = [cur EXCEPT ![p] = s]
  /\ Goto(p, "r_http")
  /\ UNCHANGED <<bypass, active, file, mem, orig>>

RevertHTTP(p) ==
  /\ pc[p] = "r_http"
  /\ RestoreSlot(p, cur[p], "http")
  /\ cur' = [cur EXCEPT ![p] = Missing]
  /\ Goto(p, "r_https")
  /\ UNCHANGED <<bypass, active, file, todo, mem, orig>>

RemoveStateFileEarly(p) ==
  /\ pc[p] = "r_https"
  /\ file' = Absent
  /\ Return(p, "revert_ok")
  /\ UNCHANGED <<osVars, history>>

\* After the loop the state file is removed whether or not every command
\* succeeded; nobody looks at the result of the removal.
RemoveStateFile(p) ==
  /\ pc[p] = "r_https"
  /\ todo[p] = {}
  /\ file' \in {Absent} \cup IF May("remove") THEN {file} ELSE {}
  /\ Return(p, IF failed[p] THEN "revert_err" ELSE "revert_ok")
  /\ UNCHANGED <<osVars, history>>

-----------------------------------------------------------------------------
(* Everything the callers do not control.                                  *)

\* The process is killed in the middle of a call.
Killed(p) ==
  /\ ~Ended(p)
  /\ IF pc[p] = "snap_write"
     THEN May("torn") /\ Note("torn")
     ELSE May("crash") /\ UNCHANGED seen
  /\ Return(p, "idle")
  /\ UNCHANGED <<osVars, file, orig>>

\* A service becomes active, with settings the user chose earlier.
Plug(s) ==
  /\ s \notin active
  /\ active' = active \cup {s}
  /\ IF SnapshotLive THEN May("plug") /\ Note("plug") ELSE UNCHANGED seen
  /\ UNCHANGED <<os, bypass, file, callVars, orig>>

Unplug(s) ==
  /\ s \in active
  /\ active' = active \ {s}
  /\ UNCHANGED <<os, bypass, file, callVars, history>>

\* The user chooses other settings for an active service.
Edit(s, new) ==
  /\ s \in active
  /\ os' = [os EXCEPT ![s] = new]
  /\ orig' = [orig EXCEPT ![s] = new]
  /\ os' # os
  /\ IF SnapshotLive THEN May("edit") /\ Note("edit") ELSE UNCHANGED seen
  /\ UNCHANGED <<bypass, active, file, callVars>>

-----------------------------------------------------------------------------
Init ==
  /\ os \in [Services -> [Slots -> Priors]]
  /\ bypass = {}
  /\ active \in SUBSET Services
  /\ file = Absent
  /\ pc = [p \in Procs |-> "idle"]
  /\ todo = [p \in Procs |-> {}]
  /\ cur = [p \in Procs |-> Missing]
  /\ mem = [p \in Procs |-> Empty]
  /\ failed = [p \in Procs |-> FALSE]
  /\ orig = os
  /\ seen = {}

SetStep(p) ==
  \/ SetStat(p)
  \/ ListServices(p)
  \/ \E s \in Services : ReadServiceState(p, s)
  \/ CreateStateFile(p)
  \/ WriteStateFile(p)
  \/ \E s \in Services : SetSecureWebProxy(p, s)
  \/ SetWebProxy(p)
  \/ SetBypassDomains(p)
  \/ SetDone(p)
  \/ SetFails(p)
  \/ SaveFails(p)

RevertStep(p) ==
  \/ RevertStat(p)
  \/ LoadState(p)
  \/ \E s \in Services : RevertHTTPS(p, s)
  \/ RevertHTTP(p)
  \/ RemoveStateFile(p)

Environment ==
  \/ \E s \in Services : Plug(s) \/ Unplug(s)
  \/ \E s \in Services, new \in [Slots -> Priors] : Edit(s, new)

Next ==
  \/ \E p \in Procs : \/ BeginSet(p)
                      \/ BeginRevert(p)
                      \/ SetStep(p)
                      \/ RevertStep(p)
                      \/ Killed(p)
  \/ Environment

Spec == Init /\ [][Next]_vars

-----------------------------------------------------------------------------
(* Properties                                                              *)

\* Every variable holds values of the kind the code gives it.
TypeOK ==
  /\ os \in [Services -> ServiceState]
  /\ bypass \subseteq Services
  /\ active \subseteq Services
  /\ file \in Snapshots \cup {Absent, Torn}
  /\ pc \in [Procs -> SetPhases \cup RevertPhases \cup EndPhases]
  /\ todo \in [Procs -> SUBSET Services]
  /\ cur \in [Procs -> Services \cup {Missing}]
  /\ mem \in [Procs -> Snapshots]
  /\ failed \in [Procs -> BOOLEAN]
  /\ orig \in [Services -> [Slots -> Priors]]
  /\ seen \subseteq FaultKinds

\* The faults that defeat the snapshot; a killed caller or a failed command of
\* Set is not one of them.
Breaking == {"torn", "restore", "overlap", "plug", "edit", "stat"}

Unbroken == seen \cap Breaking = {}

\* The user's routing can always be recovered: as long as a service points at
\* Redactr, the state file records the routing the user chose for it, so that
\* Revert can bring it back - after callers killed at any step, failed Sets,
\* repeated Sets and Reverts that run at the same time.
SnapshotRecoverable ==
  \A s \in Services :
    PointsAtUs(s) =>
      /\ file \notin {Absent, Torn}
      /\ file[s] # Missing
      /\ Same(file[s], orig[s])

Recoverable == Unbroken => SnapshotRecoverable

\* Without a state file every service routes as the user chose: the file never
\* disappears before the last service has been restored.  This is about where
\* traffic goes, not about the host kept beside a proxy that is off.
OffMeansRestored ==
  Unbroken /\ file = Absent => \A s \in Services : Same(os[s], orig[s])

\* Set reports success only when the traffic of every active service goes
\* through Redactr, whatever failed or was killed before this Set.
SuccessMeansOn ==
  Unbroken => \A p \in Procs : pc[p] = "https" /\ todo[p] = {} =>
                \A s \in active, k \in Slots : os[s][k] = Ours

\* A complete snapshot is never replaced by another one: a second Set, even
\* after a Set that failed or was killed halfway, keeps the prior state the
\* first one recorded.  Two Sets at the same time are the exception.
SnapshotKept ==
  [][file \notin {Absent, Torn} /\ "overlap" \notin seen' => file' \in {file, Absent}]_vars

Routed == \E s \in Services : PointsAtUs(s)

\* Set and Revert implement the two-step switch their callers rely on
\* (ProxySwitch), with the state file created first and removed last, until one
\* of the faults that defeat the snapshot.
Switch == INSTANCE ProxySwitch WITH routed <- Routed, snapped <- file # Absent

ImplementsSwitch ==
  Switch!Init /\ [][seen' \cap Breaking = {} => [Switch!Next]_<<Routed, file # Absent>>]_vars

\* "revert restores prior on/off + host/port": when every call has ended without
\* a fault and there is no state file, every service has the settings the user
\* chose.  It does not hold: a slot that was off keeps Redactr's host and port.
RevertRestores ==
  (\A p \in Procs : Ended(p)) /\ file = Absent => \A s \in Services : os[s] = orig[s]

=============================================================================
