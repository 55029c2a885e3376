--------------------------- MODULE SystemProxyProofs ---------------------------
(***************************************************************************)
(* Proofs about SystemProxy, for any set of services, processes, addresses *)
(* and enabled faults.                                                     *)
(***************************************************************************)
EXTENDS SystemProxy, TLAPS

-----------------------------------------------------------------------------
(* Facts about the data.                                                   *)

\* The address a slot is given by Set is a setting.
LEMMA OursIsASetting == Ours \in Settings
  BY DEF Ours, Settings

\* What the user may choose is a state a service can be in, and never routes
\* to Redactr.
LEMMA UserStates ==
  ASSUME NEW u \in [Slots -> Priors]
  PROVE  /\ u \in ServiceState
         /\ \A k \in Slots : Effective(u[k]) # RedactrAddr
  BY SystemProxyAssumption DEF ServiceState, Settings, Effective

\* Restoring a slot gives a setting that routes as the saved one does.
LEMMA RestoredRoutes ==
  ASSUME NEW saved \in Settings, NEW current \in Settings
  PROVE  /\ Restored(saved, current) \in Settings
         /\ Effective(Restored(saved, current)) = Effective(saved)
  BY SystemProxyAssumption DEF Restored, Settings, Effective

\* A snapshot is not the absent file, nor a torn one.
LEMMA SnapshotIsComplete ==
  ASSUME NEW snap \in Snapshots
  PROVE  snap # Absent /\ snap # Torn
  BY SystemProxyAssumption

\* The entry of a recorded service is a state of it.
LEMMA RecordedEntry ==
  ASSUME NEW snap \in Snapshots, NEW s \in Recorded(snap)
  PROVE  s \in Services /\ snap[s] \in ServiceState
  BY DEF Snapshots, Recorded

\* No service is recorded in the empty snapshot, which is one.
LEMMA EmptySnapshot == Empty \in Snapshots /\ Recorded(Empty) = {}
  BY DEF Empty, Snapshots, Recorded

-----------------------------------------------------------------------------
(* Types.  That the loops of Set and Revert find a service, and a snapshot *)
(* entry for it, is part of what makes the types inductive.                *)

LoopInv(p) ==
  /\ pc[p] \in {"http", "bypass"} => cur[p] \in Services
  /\ pc[p] \in {"r_https", "r_http"} => todo[p] \subseteq Recorded(mem[p])
  /\ pc[p] = "r_http" => cur[p] \in Recorded(mem[p])

TypeInv == TypeOK /\ \A p \in Procs : LoopInv(p)

\* Writing a setting into a slot keeps the live settings well typed.
LEMMA SlotUpdate ==
  ASSUME os \in [Services -> ServiceState],
         NEW s \in Services, NEW k \in Slots, NEW v \in Settings
  PROVE  [os EXCEPT ![s][k] = v] \in [Services -> ServiceState]
  BY DEF ServiceState

\* ... and changes that slot only.
LEMMA SlotAfter ==
  ASSUME os \in [Services -> ServiceState],
         NEW s \in Services, NEW k \in Slots, NEW v,
         os' = [os EXCEPT ![s][k] = v]
  PROVE  /\ os'[s][k] = v
         /\ \A t \in Services, j \in Slots : (t # s \/ j # k) => os'[t][j] = os[t][j]
  BY DEF ServiceState

\* One restoring command keeps the types.
LEMMA RestoreSlotTypes ==
  ASSUME TypeOK, NEW p \in Procs, NEW s \in Recorded(mem[p]), NEW k \in Slots,
         RestoreSlot(p, s, k)
  PROVE  /\ os' \in [Services -> ServiceState]
         /\ failed' \in [Procs -> BOOLEAN]
         /\ seen' \subseteq FaultKinds
<1>1. mem[p] \in Snapshots
  BY DEF TypeOK
<1>2. s \in Services /\ mem[p][s] \in ServiceState
  BY <1>1, RecordedEntry
<1>3. mem[p][s][k] \in Settings /\ os[s][k] \in Settings
  BY <1>2 DEF ServiceState, TypeOK
<1>4. Restored(mem[p][s][k], os[s][k]) \in Settings
  BY <1>3, RestoredRoutes
<1>5. [os EXCEPT ![s][k] = Restored(mem[p][s][k], os[s][k])] \in [Services -> ServiceState]
  BY <1>2, <1>4, SlotUpdate DEF TypeOK
<1>6. os' \in [Services -> ServiceState]
  BY <1>2, <1>5 DEF RestoreSlot, TypeOK
<1>7. failed' \in [Procs -> BOOLEAN]
  BY DEF RestoreSlot, TypeOK
<1>8. seen' \subseteq FaultKinds
  BY DEF RestoreSlot, Note, FaultKinds, TypeOK
<1> QED BY <1>6, <1>7, <1>8

\* The types are inductive.
THEOREM TypesInductive == TypeInv /\ [Next]_vars => TypeInv'
<1> SUFFICES ASSUME TypeInv, [Next]_vars
             PROVE  TypeInv'
  OBVIOUS
<1> USE EmptySnapshot
<1>1. ASSUME NEW p \in Procs, BeginSet(p) PROVE TypeInv'
  BY <1>1 DEF BeginSet, Goto, Note, FaultKinds, TypeInv, TypeOK, LoopInv, SetPhases, RevertPhases, EndPhases, osVars, history, callVars, Ended
<1>2. ASSUME NEW p \in Procs, SetStat(p) PROVE TypeInv'
  BY <1>2 DEF SetStat, Goto, Note, FaultKinds, TypeInv, TypeOK, LoopInv, SetPhases, RevertPhases, EndPhases, osVars, history, callVars, Ended
<1>3. ASSUME NEW p \in Procs, ListServices(p) PROVE TypeInv'
  BY <1>3 DEF ListServices, Goto, TypeInv, TypeOK, LoopInv, SetPhases, RevertPhases, EndPhases, osVars, history, callVars, Ended
<1>4. ASSUME NEW p \in Procs, NEW s \in Services, ReadServiceState(p, s) PROVE TypeInv'
  <2>1. os[s] \in ServiceState /\ mem[p] \in Snapshots
    BY DEF TypeInv, TypeOK
  <2>2. [mem[p] EXCEPT ![s] = os[s]] \in Snapshots
    BY <2>1 DEF Snapshots
  <2>3. mem' = [mem EXCEPT ![p] = [mem[p] EXCEPT ![s] = os[s]]] /\ mem' \in [Procs -> Snapshots]
    BY <1>4, <2>2 DEF ReadServiceState, TypeInv, TypeOK
  <2>4. TypeOK'
    BY <1>4, <2>3 DEF ReadServiceState, TypeInv, TypeOK, osVars, history
  <2>5. ASSUME NEW q \in Procs PROVE LoopInv(q)'
    BY <1>4, <2>3, <2>5 DEF ReadServiceState, TypeInv, TypeOK, LoopInv
  <2> QED BY <2>4, <2>5 DEF TypeInv
<1>5. ASSUME NEW p \in Procs, CreateStateFile(p) PROVE TypeInv'
  BY <1>5 DEF CreateStateFile, Goto, TypeInv, TypeOK, LoopInv, SetPhases, RevertPhases, EndPhases, osVars, history, callVars, Ended
<1>6. ASSUME NEW p \in Procs, WriteStateFile(p) PROVE TypeInv'
  BY <1>6 DEF WriteStateFile, Goto, TypeInv, TypeOK, LoopInv, SetPhases, RevertPhases, EndPhases, osVars, history, callVars, Ended
<1>7. ASSUME NEW p \in Procs, NEW s \in Services, SetSecureWebProxy(p, s) PROVE TypeInv'
  <2>1. os' \in [Services -> ServiceState]
    BY <1>7, OursIsASetting, SlotUpdate DEF SetSecureWebProxy, SetSlot, Slots, TypeInv, TypeOK
  <2>2. TypeOK'
    BY <1>7, <2>1 DEF SetSecureWebProxy, Goto, SetPhases, TypeInv, TypeOK, history
  <2>3. ASSUME NEW q \in Procs PROVE LoopInv(q)'
    BY <1>7, <2>3 DEF SetSecureWebProxy, Goto, TypeInv, TypeOK, LoopInv
  <2> QED BY <2>2, <2>3 DEF TypeInv
<1>8. ASSUME NEW p \in Procs, SetWebProxy(p) PROVE TypeInv'
  <2>1. cur[p] \in Services
    BY <1>8 DEF SetWebProxy, TypeInv, LoopInv
  <2>2. os' \in [Services -> ServiceState]
    BY <1>8, <2>1, OursIsASetting, SlotUpdate DEF SetWebProxy, SetSlot, Slots, TypeInv, TypeOK
  <2>3. TypeOK'
    BY <1>8, <2>2 DEF SetWebProxy, Goto, SetPhases, TypeInv, TypeOK, history
  <2>4. ASSUME NEW q \in Procs PROVE LoopInv(q)'
    BY <1>8, <2>4 DEF SetWebProxy, Goto, TypeInv, TypeOK, LoopInv
  <2> QED BY <2>3, <2>4 DEF TypeInv
<1>9. ASSUME NEW p \in Procs, SetBypassDomains(p) PROVE TypeInv'
  BY <1>9 DEF SetBypassDomains, Goto, TypeInv, TypeOK, LoopInv, SetPhases, RevertPhases, EndPhases, osVars, history, callVars, Ended
<1>10. ASSUME NEW p \in Procs, SetDone(p) PROVE TypeInv'
  BY <1>10 DEF SetDone, Return, TypeInv, TypeOK, LoopInv, SetPhases, RevertPhases, EndPhases, osVars, history, callVars, Ended
<1>11. ASSUME NEW p \in Procs, SetFails(p) PROVE TypeInv'
  BY <1>11 DEF SetFails, Return, TypeInv, TypeOK, LoopInv, SetPhases, RevertPhases, EndPhases, osVars, history, callVars, Ended
<1>12. ASSUME NEW p \in Procs, SaveFails(p) PROVE TypeInv'
  BY <1>12 DEF SaveFails, Return, Note, FaultKinds, TypeInv, TypeOK, LoopInv, SetPhases, RevertPhases, EndPhases, osVars, history, callVars, Ended
<1>13. ASSUME NEW p \in Procs, BeginRevert(p) PROVE TypeInv'
  BY <1>13 DEF BeginRevert, Goto, Note, FaultKinds, TypeInv, TypeOK, LoopInv, SetPhases, RevertPhases, EndPhases, osVars, history, callVars, Ended
<1>14. ASSUME NEW p \in Procs, RevertStat(p) PROVE TypeInv'
  <2>1. CASE Return(p, "revert_ok") /\ UNCHANGED seen
    <3>1. TypeOK'
      BY <1>14, <2>1 DEF RevertStat, Return, EndPhases, TypeInv, TypeOK, osVars
    <3>2. ASSUME NEW q \in Procs PROVE LoopInv(q)'
      BY <1>14, <2>1, <3>2 DEF RevertStat, Return, TypeInv, TypeOK, LoopInv
    <3> QED BY <3>1, <3>2 DEF TypeInv
  <2>2. CASE Goto(p, "r_load") /\ UNCHANGED <<todo, cur, mem, failed>>
    BY <1>14, <2>2 DEF RevertStat, Goto, Note, FaultKinds, TypeInv, TypeOK, LoopInv, SetPhases, RevertPhases, EndPhases, osVars
  <2> QED BY <1>14, <2>1, <2>2 DEF RevertStat
<1>15. ASSUME NEW p \in Procs, LoadState(p) PROVE TypeInv'
  <2>1. CASE file \in {Absent, Torn}
    <3>1. TypeOK'
      BY <1>15, <2>1 DEF LoadState, Return, EndPhases, TypeInv, TypeOK, osVars, history
    <3>2. ASSUME NEW q \in Procs PROVE LoopInv(q)'
      BY <1>15, <2>1, <3>2 DEF LoadState, Return, TypeInv, TypeOK, LoopInv
    <3> QED BY <3>1, <3>2 DEF TypeInv
  <2>2. CASE file \notin {Absent, Torn}
    <3>1. file \in Snapshots /\ Recorded(file) \subseteq Services
      BY <2>2 DEF TypeInv, TypeOK, Recorded
    <3>2. TypeOK'
      BY <1>15, <2>2, <3>1 DEF LoadState, Goto, RevertPhases, TypeInv, TypeOK, osVars, history
    <3>3. ASSUME NEW q \in Procs PROVE LoopInv(q)'
      BY <1>15, <2>2, <3>3 DEF LoadState, Goto, TypeInv, TypeOK, LoopInv
    <3> QED BY <3>2, <3>3 DEF TypeInv
  <2> QED BY <2>1, <2>2
<1>16. ASSUME NEW p \in Procs, NEW s \in Services, RevertHTTPS(p, s) PROVE TypeInv'
  <2>1. s \in Recorded(mem[p])
    BY <1>16 DEF RevertHTTPS, TypeInv, LoopInv
  <2>2. RestoreSlot(p, s, "https")
    BY <1>16 DEF RevertHTTPS
  <2>3. os' \in [Services -> ServiceState] /\ failed' \in [Procs -> BOOLEAN] /\ seen' \subseteq FaultKinds
    BY <2>1, <2>2, RestoreSlotTypes DEF TypeInv, Slots
  <2>4. TypeOK'
    BY <1>16, <2>3 DEF RevertHTTPS, Goto, RevertPhases, TypeInv, TypeOK
  <2>5. ASSUME NEW q \in Procs PROVE LoopInv(q)'
    BY <1>16, <2>1, <2>5 DEF RevertHTTPS, Goto, TypeInv, TypeOK, LoopInv
  <2> QED BY <2>4, <2>5 DEF TypeInv
<1>17. ASSUME NEW p \in Procs, RevertHTTP(p) PROVE TypeInv'
  <2>1. cur[p] \in Recorded(mem[p])
    BY <1>17 DEF RevertHTTP, TypeInv, LoopInv
  <2>2. RestoreSlot(p, cur[p], "http")
    BY <1>17 DEF RevertHTTP
  <2>3. os' \in [Services -> ServiceState] /\ failed' \in [Procs -> BOOLEAN] /\ seen' \subseteq FaultKinds
    BY <2>1, <2>2, RestoreSlotTypes DEF TypeInv, Slots
  <2>4. TypeOK'
    BY <1>17, <2>3 DEF RevertHTTP, Goto, RevertPhases, TypeInv, TypeOK
  <2>5. ASSUME NEW q \in Procs PROVE LoopInv(q)'
    BY <1>17, <2>5 DEF RevertHTTP, Goto, TypeInv, TypeOK, LoopInv
  <2> QED BY <2>4, <2>5 DEF TypeInv
<1>18. ASSUME NEW p \in Procs, RemoveStateFile(p) PROVE TypeInv'
  BY <1>18 DEF RemoveStateFile, Return, TypeInv, TypeOK, LoopInv, SetPhases, RevertPhases, EndPhases, osVars, history, callVars, Ended
<1>19. ASSUME NEW p \in Procs, Killed(p) PROVE TypeInv'
  BY <1>19 DEF Killed, Return, Note, FaultKinds, TypeInv, TypeOK, LoopInv, SetPhases, RevertPhases, EndPhases, osVars, history, callVars, Ended
<1>20. ASSUME NEW s \in Services, Plug(s) PROVE TypeInv'
  BY <1>20 DEF Plug, Note, FaultKinds, TypeInv, TypeOK, LoopInv, SetPhases, RevertPhases, EndPhases, osVars, history, callVars, Ended
<1>21. ASSUME NEW s \in Services, Unplug(s) PROVE TypeInv'
  BY <1>21 DEF Unplug, Goto, TypeInv, TypeOK, LoopInv, SetPhases, RevertPhases, EndPhases, osVars, history, callVars, Ended
<1>22. ASSUME NEW s \in Services, NEW new \in [Slots -> Priors], Edit(s, new) PROVE TypeInv'
  <2>1. new \in ServiceState
    BY UserStates
  <2>2. TypeOK'
    BY <1>22, <2>1 DEF Edit, Note, FaultKinds, TypeInv, TypeOK, callVars
  <2>3. ASSUME NEW q \in Procs PROVE LoopInv(q)'
    BY <1>22, <2>3 DEF Edit, TypeInv, LoopInv, callVars
  <2> QED BY <2>2, <2>3 DEF TypeInv
<1>23. CASE UNCHANGED vars
  BY <1>23 DEF vars, TypeInv, TypeOK, LoopInv, SetPhases, RevertPhases, EndPhases
<1> QED
  BY <1>1, <1>2, <1>3, <1>4, <1>5, <1>6, <1>7, <1>8, <1>9, <1>10, <1>11, <1>12, <1>13, <1>14, <1>15, <1>16, <1>17, <1>18, <1>19, <1>20, <1>21, <1>22, <1>23 DEF Next, SetStep, RevertStep, Environment

-----------------------------------------------------------------------------
(* The inductive invariant.  Every part but the types speaks of executions *)
(* in which none of the breaking faults has happened so far.               *)

\* A slot of a service routes as the user chose.
Clean(s, k) == Effective(os[s][k]) = Effective(orig[s][k])

\* The entries of a snapshot are the user's own settings.
Faithful(snap) == \A s \in Recorded(snap) : Same(snap[s], orig[s])

\* Nothing has been changed when there is no complete snapshot yet; with one,
\* only slots of recorded services have, and no active service is missing.
FileInv ==
  /\ file \in {Absent, Torn} => \A s \in Services, k \in Slots : Clean(s, k)
  /\ file = Torn => \E p \in Procs : pc[p] = "snap_write"
  /\ file \notin {Absent, Torn} =>
       /\ Faithful(file)
       /\ active \subseteq Recorded(file)
       /\ \A s \in Services, k \in Slots :
            Clean(s, k) \/ (s \in Recorded(file) /\ os[s][k] = Ours)

\* A Set runs alone.
Exclusion == \A p, q \in Procs : InSet(p) /\ p # q => Ended(q)

\* What the local variables of a Set hold while it takes the snapshot ...
SnapInv(p) ==
  /\ Ended(p) \/ pc[p] \in {"stat", "snap_list"} => mem[p] = Empty
  /\ pc[p] \in {"snap_list", "snap_read"} => file = Absent
  /\ pc[p] = "snap_write" => file = Torn /\ todo[p] = {}
  /\ pc[p] \in {"snap_read", "snap_write"} =>
       /\ Faithful(mem[p])
       /\ active \subseteq Recorded(mem[p]) \cup todo[p]

\* ... and while it changes the services it has listed.
ChangeInv(p) ==
  /\ pc[p] \in {"list", "https", "http", "bypass"} => file \notin {Absent, Torn}
  /\ pc[p] \in {"https", "http", "bypass"} =>
       /\ todo[p] \subseteq Recorded(file)
       /\ \A s \in active \ todo[p] :
            /\ os[s]["https"] = Ours
            /\ os[s]["http"] = Ours \/ (pc[p] = "http" /\ s = cur[p])
  /\ pc[p] \in {"http", "bypass"} => cur[p] \in Recorded(file)

\* What a Revert has still to restore.
RevertInv(p) ==
  pc[p] \in {"r_https", "r_http"} =>
    /\ Faithful(mem[p])
    /\ \A s \in Services, k \in Slots :
         \/ Clean(s, k)
         \/ s \in todo[p]
         \/ pc[p] = "r_http" /\ s = cur[p] /\ k = "http"

CallInv(p) == SnapInv(p) /\ ChangeInv(p) /\ RevertInv(p)

Parts == FileInv /\ Exclusion /\ \A p \in Procs : CallInv(p)

IInv == TypeInv /\ (Unbroken => Parts)

\* What has happened stays recorded, so an execution that is unbroken now has
\* been so before.
LEMMA SeenGrows == [Next]_vars => seen \subseteq seen'
  BY DEF Next, SetStep, RevertStep, Environment, vars, osVars, callVars, history, Note, RestoreSlot,
     BeginSet, SetStat, ListServices, ReadServiceState, CreateStateFile, WriteStateFile, SetSecureWebProxy, SetWebProxy, SetBypassDomains, SetDone, SetFails, SaveFails, BeginRevert, RevertStat, LoadState, RevertHTTPS, RevertHTTP, RemoveStateFile, Killed, Plug, Unplug, Edit

\* One restoring command of a Revert that has a faithful snapshot makes its
\* slot route as the user chose, and leaves the others alone.
LEMMA RestoreClean ==
  ASSUME TypeInv, NEW p \in Procs, NEW s \in Recorded(mem[p]), NEW k \in Slots,
         RestoreSlot(p, s, k), "restore" \notin seen', UNCHANGED orig, Faithful(mem[p])
  PROVE  \A t \in Services, j \in Slots :
           IF t = s /\ j = k THEN Clean(t, j)' ELSE os'[t][j] = os[t][j]
<1>1. s \in Services /\ mem[p][s] \in ServiceState
  BY RecordedEntry DEF TypeInv, TypeOK
<1>2. mem[p][s][k] \in Settings /\ os[s][k] \in Settings
  BY <1>1 DEF ServiceState, TypeInv, TypeOK
<1>3. os' = [os EXCEPT ![s][k] = Restored(mem[p][s][k], os[s][k])]
  BY <1>1 DEF RestoreSlot, Note, TypeInv, TypeOK
<1>4. PICK v : v = Restored(mem[p][s][k], os[s][k])
  OBVIOUS
<1>5. os \in [Services -> ServiceState] /\ os' = [os EXCEPT ![s][k] = v]
  BY <1>3, <1>4 DEF TypeInv, TypeOK
<1>6. /\ os'[s][k] = v
      /\ \A t \in Services, j \in Slots : (t # s \/ j # k) => os'[t][j] = os[t][j]
  BY <1>1, <1>5 DEF ServiceState
<1>7. Effective(os'[s][k]) = Effective(mem[p][s][k])
  BY <1>2, <1>4, <1>6, RestoredRoutes
<1>8. Effective(mem[p][s][k]) = Effective(orig[s][k])
  BY DEF Faithful, Same
<1> QED BY <1>6, <1>7, <1>8 DEF Clean

\* Every step of an unbroken execution keeps the parts.
THEOREM PartsInductive ==
  TypeInv /\ Parts /\ [Next]_vars /\ Unbroken' => Parts'
<1> SUFFICES ASSUME TypeInv, Parts, [Next]_vars, Unbroken'
             PROVE  Parts'
  OBVIOUS
<1> USE EmptySnapshot DEF InSet, InRevert, Ended, SetPhases, RevertPhases, EndPhases
<1>1. ASSUME NEW p \in Procs, BeginSet(p) PROVE Parts'
  <2>1. FileInv'
    BY <1>1 DEF BeginSet, Goto, Note, osVars, history, callVars, TypeInv, TypeOK, Parts, FileInv, CallInv, SnapInv, Clean, Faithful, Unbroken, Breaking
  <2>2. Exclusion'
    <3>1. \A q \in Procs \ {p} : Ended(q)
      BY <1>1 DEF BeginSet, Note, Unbroken, Breaking
    <3> QED BY <1>1, <3>1 DEF BeginSet, Goto, Exclusion, TypeInv, TypeOK, Parts
  <2>3. ASSUME NEW q \in Procs PROVE SnapInv(q)'
    BY <1>1, <2>3 DEF BeginSet, Goto, Note, osVars, history, callVars, TypeInv, TypeOK, Parts, Exclusion, CallInv, SnapInv, Faithful, Unbroken, Breaking
  <2>4. ASSUME NEW q \in Procs PROVE ChangeInv(q)'
    BY <1>1, <2>4 DEF BeginSet, Goto, Note, osVars, history, callVars, TypeInv, TypeOK, Parts, Exclusion, CallInv, ChangeInv, Unbroken, Breaking
  <2>5. ASSUME NEW q \in Procs PROVE RevertInv(q)'
    BY <1>1, <2>5 DEF BeginSet, Goto, Note, osVars, history, callVars, TypeInv, TypeOK, Parts, Exclusion, CallInv, RevertInv, Faithful, Clean, Unbroken, Breaking
  <2> QED BY <2>1, <2>2, <2>3, <2>4, <2>5 DEF Parts, CallInv
<1>2. ASSUME NEW p \in Procs, SetStat(p) PROVE Parts'
  <2>1. FileInv'
    BY <1>2 DEF SetStat, Goto, osVars, history, callVars, TypeInv, TypeOK, Parts, FileInv, CallInv, SnapInv, Clean, Faithful, Unbroken, Breaking
  <2>2. Exclusion'
    BY <1>2 DEF SetStat, Goto, osVars, history, callVars, TypeInv, TypeOK, Parts, Exclusion, Unbroken, Breaking
  <2>3. ASSUME NEW q \in Procs PROVE SnapInv(q)'
    BY <1>2, <2>3 DEF SetStat, NeedsSnapshot, Goto, osVars, history, TypeInv, TypeOK, Parts, CallInv, SnapInv, Faithful
  <2>4. ASSUME NEW q \in Procs PROVE ChangeInv(q)'
    <3>1. file # Torn
      BY <1>2 DEF SetStat, Parts, FileInv, Exclusion
    <3> QED
      BY <1>2, <2>4, <3>1 DEF SetStat, NeedsSnapshot, Goto, Note, osVars, TypeInv, TypeOK, Parts, CallInv, ChangeInv, Unbroken, Breaking
  <2>5. ASSUME NEW q \in Procs PROVE RevertInv(q)'
    BY <1>2, <2>5 DEF SetStat, Goto, osVars, history, callVars, TypeInv, TypeOK, Parts, Exclusion, CallInv, RevertInv, Faithful, Clean, Unbroken, Breaking
  <2> QED BY <2>1, <2>2, <2>3, <2>4, <2>5 DEF Parts, CallInv
<1>3. ASSUME NEW p \in Procs, ListServices(p) PROVE Parts'
  <2>1. FileInv'
    BY <1>3 DEF ListServices, Goto, osVars, history, callVars, TypeInv, TypeOK, Parts, FileInv, CallInv, SnapInv, Clean, Faithful, Unbroken, Breaking
  <2>2. Exclusion'
    BY <1>3 DEF ListServices, Goto, osVars, history, callVars, TypeInv, TypeOK, Parts, Exclusion, Unbroken, Breaking
  <2>3. ASSUME NEW q \in Procs PROVE SnapInv(q)'
    BY <1>3, <2>3 DEF ListServices, Goto, osVars, history, callVars, TypeInv, TypeOK, Parts, Exclusion, CallInv, SnapInv, Faithful, Unbroken, Breaking
  <2>4. ASSUME NEW q \in Procs PROVE ChangeInv(q)'
    <3>1. pc[p] = "list" => active \subseteq Recorded(file)
      BY <1>3 DEF ListServices, Parts, FileInv, CallInv, ChangeInv
    <3> QED
      BY <1>3, <2>4, <3>1 DEF ListServices, Goto, osVars, history, TypeInv, TypeOK, Parts, CallInv, ChangeInv
  <2>5. ASSUME NEW q \in Procs PROVE RevertInv(q)'
    BY <1>3, <2>5 DEF ListServices, Goto, osVars, history, callVars, TypeInv, TypeOK, Parts, Exclusion, CallInv, RevertInv, Faithful, Clean, Unbroken, Breaking
  <2> QED BY <2>1, <2>2, <2>3, <2>4, <2>5 DEF Parts, CallInv
<1>4. ASSUME NEW p \in Procs, NEW s \in Services, ReadServiceState(p, s) PROVE Parts'
  <2>1. FileInv'
    BY <1>4 DEF ReadServiceState, Goto, osVars, history, callVars, TypeInv, TypeOK, Parts, FileInv, CallInv, SnapInv, Clean, Faithful, Unbroken, Breaking
  <2>2. Exclusion'
    BY <1>4 DEF ReadServiceState, Goto, osVars, history, callVars, TypeInv, TypeOK, Parts, Exclusion, Unbroken, Breaking
  <2>3. ASSUME NEW q \in Procs PROVE SnapInv(q)'
    <3>1. os[s] \in ServiceState /\ Same(os[s], orig[s])
      BY <1>4 DEF ReadServiceState, TypeInv, TypeOK, Parts, FileInv, CallInv, SnapInv, Clean, Same
    <3>2. mem[p] \in Snapshots /\ mem'[p] = [mem[p] EXCEPT ![s] = os[s]]
      BY <1>4 DEF ReadServiceState, TypeInv, TypeOK
    <3>3. Recorded(mem'[p]) = Recorded(mem[p]) \cup {s}
      BY <3>1, <3>2, SystemProxyAssumption DEF Recorded, Snapshots
    <3>4. \A t \in Recorded(mem'[p]) : t = s \/ mem'[p][t] = mem[p][t]
      BY <3>2 DEF Recorded, Snapshots
    <3>5. Faithful(mem[p]) /\ active \subseteq Recorded(mem[p]) \cup todo[p]
      BY <1>4 DEF ReadServiceState, Parts, CallInv, SnapInv
    <3>6. mem'[p][s] = os[s]
      BY <3>2 DEF Snapshots
    <3>7. Faithful(mem[p])'
      BY <1>4, <3>1, <3>3, <3>4, <3>5, <3>6 DEF ReadServiceState, Faithful, history
    <3>8. (active \subseteq Recorded(mem[p]) \cup todo[p])'
      BY <1>4, <3>3, <3>5 DEF ReadServiceState, osVars, TypeInv, TypeOK
    <3>9. CASE q = p
      BY <1>4, <3>7, <3>8, <3>9 DEF ReadServiceState, Parts, CallInv, SnapInv
    <3>10. CASE q # p
      BY <1>4, <2>3, <3>10 DEF ReadServiceState, Parts, Exclusion, CallInv, SnapInv, TypeInv, TypeOK
    <3> QED BY <3>9, <3>10
  <2>4. ASSUME NEW q \in Procs PROVE ChangeInv(q)'
    BY <1>4, <2>4 DEF ReadServiceState, Goto, osVars, history, callVars, TypeInv, TypeOK, Parts, Exclusion, CallInv, ChangeInv, Unbroken, Breaking
  <2>5. ASSUME NEW q \in Procs PROVE RevertInv(q)'
    BY <1>4, <2>5 DEF ReadServiceState, Goto, osVars, history, callVars, TypeInv, TypeOK, Parts, Exclusion, CallInv, RevertInv, Faithful, Clean, Unbroken, Breaking
  <2> QED BY <2>1, <2>2, <2>3, <2>4, <2>5 DEF Parts, CallInv
<1>5. ASSUME NEW p \in Procs, CreateStateFile(p) PROVE Parts'
  <2>1. FileInv'
    BY <1>5 DEF CreateStateFile, Goto, osVars, history, callVars, TypeInv, TypeOK, Parts, FileInv, CallInv, SnapInv, Clean, Faithful, Unbroken, Breaking
  <2>2. Exclusion'
    BY <1>5 DEF CreateStateFile, Goto, osVars, history, callVars, TypeInv, TypeOK, Parts, Exclusion, Unbroken, Breaking
  <2>3. ASSUME NEW q \in Procs PROVE SnapInv(q)'
    BY <1>5, <2>3 DEF CreateStateFile, Goto, osVars, history, callVars, TypeInv, TypeOK, Parts, Exclusion, CallInv, SnapInv, Faithful, Unbroken, Breaking
  <2>4. ASSUME NEW q \in Procs PROVE ChangeInv(q)'
    BY <1>5, <2>4 DEF CreateStateFile, Goto, osVars, history, callVars, TypeInv, TypeOK, Parts, Exclusion, CallInv, ChangeInv, Unbroken, Breaking
  <2>5. ASSUME NEW q \in Procs PROVE RevertInv(q)'
    BY <1>5, <2>5 DEF CreateStateFile, Goto, osVars, history, callVars, TypeInv, TypeOK, Parts, Exclusion, CallInv, RevertInv, Faithful, Clean, Unbroken, Breaking
  <2> QED BY <2>1, <2>2, <2>3, <2>4, <2>5 DEF Parts, CallInv
<1>6. ASSUME NEW p \in Procs, WriteStateFile(p) PROVE Parts'
  <2>1. FileInv'
    <3>1. file' = mem[p] /\ mem[p] \in Snapshots
      BY <1>6 DEF WriteStateFile, TypeInv, TypeOK
    <3>2. file' # Absent /\ file' # Torn
      BY <3>1, SnapshotIsComplete
    <3>3. Faithful(mem[p]) /\ active \subseteq Recorded(mem[p])
      BY <1>6 DEF WriteStateFile, Parts, CallInv, SnapInv
    <3>4. \A s \in Services, k \in Slots : Clean(s, k)
      BY <1>6 DEF WriteStateFile, Parts, CallInv, SnapInv, FileInv
    <3> QED
      BY <1>6, <3>1, <3>2, <3>3, <3>4 DEF WriteStateFile, FileInv, Faithful, Clean, osVars, history
  <2>2. Exclusion'
    BY <1>6 DEF WriteStateFile, Goto, osVars, history, callVars, TypeInv, TypeOK, Parts, Exclusion, Unbroken, Breaking
  <2>3. ASSUME NEW q \in Procs PROVE SnapInv(q)'
    BY <1>6, <2>3 DEF WriteStateFile, Goto, osVars, history, callVars, TypeInv, TypeOK, Parts, Exclusion, CallInv, SnapInv, Faithful, Unbroken, Breaking
  <2>4. ASSUME NEW q \in Procs PROVE ChangeInv(q)'
    <3>1. file' # Absent /\ file' # Torn
      BY <1>6, SnapshotIsComplete DEF WriteStateFile, TypeInv, TypeOK
    <3> QED
      BY <1>6, <2>4, <3>1 DEF WriteStateFile, Goto, Parts, Exclusion, ChangeInv, TypeInv, TypeOK
  <2>5. ASSUME NEW q \in Procs PROVE RevertInv(q)'
    BY <1>6, <2>5 DEF WriteStateFile, Goto, osVars, history, callVars, TypeInv, TypeOK, Parts, Exclusion, CallInv, RevertInv, Faithful, Clean, Unbroken, Breaking
  <2> QED BY <2>1, <2>2, <2>3, <2>4, <2>5 DEF Parts, CallInv
<1>7. ASSUME NEW p \in Procs, NEW s \in Services, SetSecureWebProxy(p, s) PROVE Parts'
  <2>1. FileInv'
    <3>1. s \in Services /\ s \in Recorded(file) /\ file \notin {Absent, Torn}
      BY <1>7 DEF SetSecureWebProxy, Parts, CallInv, ChangeInv, Recorded
    <3>2. /\ os'[s]["https"] = Ours
          /\ \A t \in Services, j \in Slots :
               (t # s \/ j # "https") => os'[t][j] = os[t][j]
      BY <1>7, <3>1, SlotAfter DEF SetSecureWebProxy, SetSlot, Slots, TypeInv, TypeOK
    <3>3. UNCHANGED <<file, active, orig>>
      BY <1>7 DEF SetSecureWebProxy, history
    <3>4. Faithful(file) /\ active \subseteq Recorded(file)
      BY <3>1 DEF Parts, FileInv
    <3>5. \A t \in Services, j \in Slots :
            Clean(t, j)' \/ (t \in Recorded(file) /\ os'[t][j] = Ours)
      BY <3>1, <3>2, <3>3 DEF Parts, FileInv, Clean
    <3> QED BY <3>1, <3>3, <3>4, <3>5 DEF FileInv, Faithful
  <2>2. Exclusion'
    BY <1>7 DEF SetSecureWebProxy, Goto, SetSlot, osVars, history, callVars, TypeInv, TypeOK, Parts, Exclusion, Unbroken, Breaking
  <2>3. ASSUME NEW q \in Procs PROVE SnapInv(q)'
    BY <1>7, <2>3 DEF SetSecureWebProxy, Goto, SetSlot, osVars, history, callVars, TypeInv, TypeOK, Parts, Exclusion, CallInv, SnapInv, Faithful, Unbroken, Breaking
  <2>4. ASSUME NEW q \in Procs PROVE ChangeInv(q)'
    <3>1. /\ os'[s]["https"] = Ours
          /\ \A t \in Services, j \in Slots :
               (t # s \/ j # "https") => os'[t][j] = os[t][j]
      BY <1>7, SlotAfter DEF SetSecureWebProxy, SetSlot, Slots, TypeInv, TypeOK
    <3>2. CASE q # p
      BY <1>7, <2>4, <3>2 DEF SetSecureWebProxy, Goto, Parts, Exclusion, ChangeInv, TypeInv, TypeOK
    <3>3. CASE q = p
      <4>1. /\ file \notin {Absent, Torn}
            /\ todo[p] \subseteq Recorded(file)
            /\ \A t \in active \ todo[p] : os[t]["https"] = Ours /\ os[t]["http"] = Ours
        BY <1>7 DEF SetSecureWebProxy, Parts, CallInv, ChangeInv
      <4>2. /\ pc'[p] = "http" /\ todo'[p] = todo[p] \ {s} /\ cur'[p] = s
            /\ UNCHANGED <<file, active>>
        BY <1>7 DEF SetSecureWebProxy, Goto, TypeInv, TypeOK
      <4>3. s \in Recorded(file) /\ todo'[p] \subseteq Recorded(file)
        BY <1>7, <4>1, <4>2 DEF SetSecureWebProxy
      <4>4. \A t \in active \ todo'[p] :
              os'[t]["https"] = Ours /\ (os'[t]["http"] = Ours \/ t = s)
        BY <3>1, <4>1, <4>2 DEF TypeInv, TypeOK, Slots
      <4> QED BY <3>3, <4>1, <4>2, <4>3, <4>4 DEF ChangeInv
    <3> QED BY <3>2, <3>3
  <2>5. ASSUME NEW q \in Procs PROVE RevertInv(q)'
    BY <1>7, <2>5 DEF SetSecureWebProxy, Goto, SetSlot, osVars, history, callVars, TypeInv, TypeOK, Parts, Exclusion, CallInv, RevertInv, Faithful, Clean, Unbroken, Breaking
  <2> QED BY <2>1, <2>2, <2>3, <2>4, <2>5 DEF Parts, CallInv
<1>8. ASSUME NEW p \in Procs, SetWebProxy(p) PROVE Parts'
  <2>1. FileInv'
    <3>1. cur[p] \in Services /\ cur[p] \in Recorded(file) /\ file \notin {Absent, Torn}
      BY <1>8 DEF SetWebProxy, Parts, CallInv, ChangeInv, Recorded
    <3>2. /\ os'[cur[p]]["http"] = Ours
          /\ \A t \in Services, j \in Slots :
               (t # cur[p] \/ j # "http") => os'[t][j] = os[t][j]
      BY <1>8, <3>1, SlotAfter DEF SetWebProxy, SetSlot, Slots, TypeInv, TypeOK
    <3>3. UNCHANGED <<file, active, orig>>
      BY <1>8 DEF SetWebProxy, history
    <3>4. Faithful(file) /\ active \subseteq Recorded(file)
      BY <3>1 DEF Parts, FileInv
    <3>5. \A t \in Services, j \in Slots :
            Clean(t, j)' \/ (t \in Recorded(file) /\ os'[t][j] = Ours)
      BY <3>1, <3>2, <3>3 DEF Parts, FileInv, Clean
    <3> QED BY <3>1, <3>3, <3>4, <3>5 DEF FileInv, Faithful
  <2>2. Exclusion'
    BY <1>8 DEF SetWebProxy, Goto, SetSlot, osVars, history, callVars, TypeInv, TypeOK, Parts, Exclusion, Unbroken, Breaking
  <2>3. ASSUME NEW q \in Procs PROVE SnapInv(q)'
    BY <1>8, <2>3 DEF SetWebProxy, Goto, SetSlot, osVars, history, callVars, TypeInv, TypeOK, Parts, Exclusion, CallInv, SnapInv, Faithful, Unbroken, Breaking
  <2>4. ASSUME NEW q \in Procs PROVE ChangeInv(q)'
    <3>1. cur[p] \in Services
      BY <1>8 DEF SetWebProxy, TypeInv, LoopInv
    <3>2. /\ os'[cur[p]]["http"] = Ours
          /\ \A t \in Services, j \in Slots :
               (t # cur[p] \/ j # "http") => os'[t][j] = os[t][j]
      BY <1>8, <3>1, SlotAfter DEF SetWebProxy, SetSlot, Slots, TypeInv, TypeOK
    <3>3. CASE q # p
      BY <1>8, <2>4, <3>3 DEF SetWebProxy, Goto, Parts, Exclusion, ChangeInv, TypeInv, TypeOK
    <3>4. CASE q = p
      <4>1. /\ file \notin {Absent, Torn}
            /\ todo[p] \subseteq Recorded(file) /\ cur[p] \in Recorded(file)
            /\ \A t \in active \ todo[p] :
                 os[t]["https"] = Ours /\ (os[t]["http"] = Ours \/ t = cur[p])
        BY <1>8 DEF SetWebProxy, Parts, CallInv, ChangeInv
      <4>2. pc'[p] = "bypass" /\ UNCHANGED <<file, active, todo, cur>>
        BY <1>8 DEF SetWebProxy, Goto, TypeInv, TypeOK
      <4>3. \A t \in active \ todo[p] : os'[t]["https"] = Ours /\ os'[t]["http"] = Ours
        BY <3>2, <4>1 DEF TypeInv, TypeOK, Slots
      <4> QED BY <3>4, <4>1, <4>2, <4>3 DEF ChangeInv
    <3> QED BY <3>3, <3>4
  <2>5. ASSUME NEW q \in Procs PROVE RevertInv(q)'
    BY <1>8, <2>5 DEF SetWebProxy, Goto, SetSlot, osVars, history, callVars, TypeInv, TypeOK, Parts, Exclusion, CallInv, RevertInv, Faithful, Clean, Unbroken, Breaking
  <2> QED BY <2>1, <2>2, <2>3, <2>4, <2>5 DEF Parts, CallInv
<1>9. ASSUME NEW p \in Procs, SetBypassDomains(p) PROVE Parts'
  <2>1. FileInv'
    BY <1>9 DEF SetBypassDomains, Goto, osVars, history, callVars, TypeInv, TypeOK, Parts, FileInv, CallInv, SnapInv, Clean, Faithful, Unbroken, Breaking
  <2>2. Exclusion'
    BY <1>9 DEF SetBypassDomains, Goto, osVars, history, callVars, TypeInv, TypeOK, Parts, Exclusion, Unbroken, Breaking
  <2>3. ASSUME NEW q \in Procs PROVE SnapInv(q)'
    BY <1>9, <2>3 DEF SetBypassDomains, Goto, osVars, history, callVars, TypeInv, TypeOK, Parts, Exclusion, CallInv, SnapInv, Faithful, Unbroken, Breaking
  <2>4. ASSUME NEW q \in Procs PROVE ChangeInv(q)'
    BY <1>9, <2>4 DEF SetBypassDomains, Goto, osVars, history, callVars, TypeInv, TypeOK, Parts, Exclusion, CallInv, ChangeInv, Unbroken, Breaking
  <2>5. ASSUME NEW q \in Procs PROVE RevertInv(q)'
    BY <1>9, <2>5 DEF SetBypassDomains, Goto, osVars, history, callVars, TypeInv, TypeOK, Parts, Exclusion, CallInv, RevertInv, Faithful, Clean, Unbroken, Breaking
  <2> QED BY <2>1, <2>2, <2>3, <2>4, <2>5 DEF Parts, CallInv
<1>10. ASSUME NEW p \in Procs, SetDone(p) PROVE Parts'
  <2>1. FileInv'
    BY <1>10 DEF SetDone, Return, osVars, history, callVars, TypeInv, TypeOK, Parts, FileInv, CallInv, SnapInv, Clean, Faithful, Unbroken, Breaking
  <2>2. Exclusion'
    BY <1>10 DEF SetDone, Return, osVars, history, callVars, TypeInv, TypeOK, Parts, Exclusion, Unbroken, Breaking
  <2>3. ASSUME NEW q \in Procs PROVE SnapInv(q)'
    BY <1>10, <2>3 DEF SetDone, Return, osVars, history, callVars, TypeInv, TypeOK, Parts, Exclusion, CallInv, SnapInv, Faithful, Unbroken, Breaking
  <2>4. ASSUME NEW q \in Procs PROVE ChangeInv(q)'
    BY <1>10, <2>4 DEF SetDone, Return, osVars, history, callVars, TypeInv, TypeOK, Parts, Exclusion, CallInv, ChangeInv, Unbroken, Breaking
  <2>5. ASSUME NEW q \in Procs PROVE RevertInv(q)'
    BY <1>10, <2>5 DEF SetDone, Return, osVars, history, callVars, TypeInv, TypeOK, Parts, Exclusion, CallInv, RevertInv, Faithful, Clean, Unbroken, Breaking
  <2> QED BY <2>1, <2>2, <2>3, <2>4, <2>5 DEF Parts, CallInv
<1>11. ASSUME NEW p \in Procs, SetFails(p) PROVE Parts'
  <2>1. FileInv'
    BY <1>11 DEF SetFails, Return, osVars, history, callVars, TypeInv, TypeOK, Parts, FileInv, CallInv, SnapInv, Clean, Faithful, Unbroken, Breaking
  <2>2. Exclusion'
    BY <1>11 DEF SetFails, Return, osVars, history, callVars, TypeInv, TypeOK, Parts, Exclusion, Unbroken, Breaking
  <2>3. ASSUME NEW q \in Procs PROVE SnapInv(q)'
    BY <1>11, <2>3 DEF SetFails, Return, osVars, history, callVars, TypeInv, TypeOK, Parts, Exclusion, CallInv, SnapInv, Faithful, Unbroken, Breaking
  <2>4. ASSUME NEW q \in Procs PROVE ChangeInv(q)'
    BY <1>11, <2>4 DEF SetFails, Return, osVars, history, callVars, TypeInv, TypeOK, Parts, Exclusion, CallInv, ChangeInv, Unbroken, Breaking
  <2>5. ASSUME NEW q \in Procs PROVE RevertInv(q)'
    BY <1>11, <2>5 DEF SetFails, Return, osVars, history, callVars, TypeInv, TypeOK, Parts, Exclusion, CallInv, RevertInv, Faithful, Clean, Unbroken, Breaking
  <2> QED BY <2>1, <2>2, <2>3, <2>4, <2>5 DEF Parts, CallInv
<1>12. ASSUME NEW p \in Procs, SaveFails(p) PROVE Parts'
  <2>1. FileInv'
    BY <1>12 DEF SaveFails, Return, Note, osVars, history, callVars, TypeInv, TypeOK, Parts, FileInv, CallInv, SnapInv, Clean, Faithful, Unbroken, Breaking
  <2>2. Exclusion'
    BY <1>12 DEF SaveFails, Return, Note, osVars, history, callVars, TypeInv, TypeOK, Parts, Exclusion, Unbroken, Breaking
  <2>3. ASSUME NEW q \in Procs PROVE SnapInv(q)'
    BY <1>12, <2>3 DEF SaveFails, Return, Note, osVars, history, callVars, TypeInv, TypeOK, Parts, Exclusion, CallInv, SnapInv, Faithful, Unbroken, Breaking
  <2>4. ASSUME NEW q \in Procs PROVE ChangeInv(q)'
    BY <1>12, <2>4 DEF SaveFails, Return, Note, osVars, history, callVars, TypeInv, TypeOK, Parts, Exclusion, CallInv, ChangeInv, Unbroken, Breaking
  <2>5. ASSUME NEW q \in Procs PROVE RevertInv(q)'
    BY <1>12, <2>5 DEF SaveFails, Return, Note, osVars, history, callVars, TypeInv, TypeOK, Parts, Exclusion, CallInv, RevertInv, Faithful, Clean, Unbroken, Breaking
  <2> QED BY <2>1, <2>2, <2>3, <2>4, <2>5 DEF Parts, CallInv
<1>13. ASSUME NEW p \in Procs, BeginRevert(p) PROVE Parts'
  <2>1. FileInv'
    BY <1>13 DEF BeginRevert, Goto, Note, osVars, history, callVars, TypeInv, TypeOK, Parts, FileInv, CallInv, SnapInv, Clean, Faithful, Unbroken, Breaking
  <2>2. Exclusion'
    BY <1>13 DEF BeginRevert, Goto, Note, osVars, history, callVars, TypeInv, TypeOK, Parts, Exclusion, Unbroken, Breaking
  <2>3. ASSUME NEW q \in Procs PROVE SnapInv(q)'
    BY <1>13, <2>3 DEF BeginRevert, Goto, Note, osVars, history, callVars, TypeInv, TypeOK, Parts, Exclusion, CallInv, SnapInv, Faithful, Unbroken, Breaking
  <2>4. ASSUME NEW q \in Procs PROVE ChangeInv(q)'
    BY <1>13, <2>4 DEF BeginRevert, Goto, Note, osVars, history, callVars, TypeInv, TypeOK, Parts, Exclusion, CallInv, ChangeInv, Unbroken, Breaking
  <2>5. ASSUME NEW q \in Procs PROVE RevertInv(q)'
    BY <1>13, <2>5 DEF BeginRevert, Goto, Note, osVars, history, callVars, TypeInv, TypeOK, Parts, Exclusion, CallInv, RevertInv, Faithful, Clean, Unbroken, Breaking
  <2> QED BY <2>1, <2>2, <2>3, <2>4, <2>5 DEF Parts, CallInv
<1>14. ASSUME NEW p \in Procs, RevertStat(p) PROVE Parts'
  <2>1. FileInv'
    BY <1>14 DEF RevertStat, Goto, Return, osVars, history, callVars, TypeInv, TypeOK, Parts, FileInv, CallInv, SnapInv, Clean, Faithful, Unbroken, Breaking
  <2>2. Exclusion'
    BY <1>14 DEF RevertStat, Goto, Return, osVars, history, callVars, TypeInv, TypeOK, Parts, Exclusion, Unbroken, Breaking
  <2>3. ASSUME NEW q \in Procs PROVE SnapInv(q)'
    BY <1>14, <2>3 DEF RevertStat, Goto, Return, osVars, history, callVars, TypeInv, TypeOK, Parts, Exclusion, CallInv, SnapInv, Faithful, Unbroken, Breaking
  <2>4. ASSUME NEW q \in Procs PROVE ChangeInv(q)'
    BY <1>14, <2>4 DEF RevertStat, Goto, Return, osVars, history, callVars, TypeInv, TypeOK, Parts, Exclusion, CallInv, ChangeInv, Unbroken, Breaking
  <2>5. ASSUME NEW q \in Procs PROVE RevertInv(q)'
    BY <1>14, <2>5 DEF RevertStat, Goto, Return, osVars, history, callVars, TypeInv, TypeOK, Parts, Exclusion, CallInv, RevertInv, Faithful, Clean, Unbroken, Breaking
  <2> QED BY <2>1, <2>2, <2>3, <2>4, <2>5 DEF Parts, CallInv
<1>15. ASSUME NEW p \in Procs, LoadState(p) PROVE Parts'
  <2>1. FileInv'
    BY <1>15 DEF LoadState, Goto, Return, osVars, history, callVars, TypeInv, TypeOK, Parts, FileInv, CallInv, SnapInv, Clean, Faithful, Unbroken, Breaking
  <2>2. Exclusion'
    BY <1>15 DEF LoadState, Goto, Return, osVars, history, callVars, TypeInv, TypeOK, Parts, Exclusion, Unbroken, Breaking
  <2>3. ASSUME NEW q \in Procs PROVE SnapInv(q)'
    BY <1>15, <2>3 DEF LoadState, Goto, Return, osVars, history, callVars, TypeInv, TypeOK, Parts, Exclusion, CallInv, SnapInv, Faithful, Unbroken, Breaking
  <2>4. ASSUME NEW q \in Procs PROVE ChangeInv(q)'
    BY <1>15, <2>4 DEF LoadState, Goto, Return, osVars, history, callVars, TypeInv, TypeOK, Parts, Exclusion, CallInv, ChangeInv, Unbroken, Breaking
  <2>5. ASSUME NEW q \in Procs PROVE RevertInv(q)'
    <3>1. CASE q # p
      BY <1>15, <2>5, <3>1 DEF LoadState, Goto, Return, Parts, CallInv, RevertInv, Faithful, Clean, TypeInv, TypeOK, osVars, history
    <3>2. CASE q = p /\ file \in {Absent, Torn}
      BY <1>15, <3>2 DEF LoadState, Return, RevertInv, TypeInv, TypeOK
    <3>3. CASE q = p /\ file \notin {Absent, Torn}
      <4>1. pc'[p] = "r_https" /\ mem'[p] = file /\ todo'[p] = Recorded(file) /\ UNCHANGED <<os, orig>>
        BY <1>15, <3>3 DEF LoadState, Goto, TypeInv, TypeOK, osVars, history
      <4>2. Faithful(file) /\ \A s \in Services, k \in Slots : Clean(s, k) \/ s \in Recorded(file)
        BY <3>3 DEF Parts, FileInv
      <4> QED BY <3>3, <4>1, <4>2 DEF RevertInv, Faithful, Clean
    <3> QED BY <3>1, <3>2, <3>3
  <2> QED BY <2>1, <2>2, <2>3, <2>4, <2>5 DEF Parts, CallInv
<1>16. ASSUME NEW p \in Procs, NEW s \in Services, RevertHTTPS(p, s) PROVE Parts'
  <2>1. FileInv'
    <3>1. \A t \in Services, j \in Slots :
            IF t = s /\ j = "https" THEN Clean(t, j)' ELSE os'[t][j] = os[t][j]
      <4>1. s \in Recorded(mem[p]) /\ Faithful(mem[p]) /\ RestoreSlot(p, s, "https") /\ UNCHANGED orig
        BY <1>16 DEF RevertHTTPS, Parts, CallInv, RevertInv, TypeInv, LoopInv
      <4>2. "restore" \notin seen'
        BY DEF Unbroken, Breaking
      <4> QED BY <4>1, <4>2, RestoreClean DEF Slots
    <3>2. UNCHANGED <<file, active, orig>>
      BY <1>16 DEF RevertHTTPS
    <3>3. /\ file \in {Absent, Torn} => \A t \in Services, j \in Slots : Clean(t, j)'
          /\ file \notin {Absent, Torn} => \A t \in Services, j \in Slots :
               Clean(t, j)' \/ (t \in Recorded(file) /\ os'[t][j] = Ours)
      BY <3>1, <3>2 DEF Parts, FileInv, Clean
    <3>4. file = Torn => \E q \in Procs : pc'[q] = "snap_write"
      BY <1>16 DEF RevertHTTPS, Goto, Parts, FileInv, TypeInv, TypeOK
    <3> QED BY <3>2, <3>3, <3>4 DEF Parts, FileInv, Faithful
  <2>2. Exclusion'
    BY <1>16 DEF RevertHTTPS, Goto, RestoreSlot, Note, osVars, history, callVars, TypeInv, TypeOK, Parts, Exclusion, Unbroken, Breaking
  <2>3. ASSUME NEW q \in Procs PROVE SnapInv(q)'
    BY <1>16, <2>3 DEF RevertHTTPS, Goto, RestoreSlot, Note, osVars, history, callVars, TypeInv, TypeOK, Parts, Exclusion, CallInv, SnapInv, Faithful, Unbroken, Breaking
  <2>4. ASSUME NEW q \in Procs PROVE ChangeInv(q)'
    BY <1>16, <2>4 DEF RevertHTTPS, Goto, RestoreSlot, Note, osVars, history, callVars, TypeInv, TypeOK, Parts, Exclusion, CallInv, ChangeInv, Unbroken, Breaking
  <2>5. ASSUME NEW q \in Procs PROVE RevertInv(q)'
    <3>1. \A t \in Services, j \in Slots :
            IF t = s /\ j = "https" THEN Clean(t, j)' ELSE os'[t][j] = os[t][j]
      <4>1. s \in Recorded(mem[p]) /\ Faithful(mem[p]) /\ RestoreSlot(p, s, "https") /\ UNCHANGED orig
        BY <1>16 DEF RevertHTTPS, Parts, CallInv, RevertInv, TypeInv, LoopInv
      <4>2. "restore" \notin seen'
        BY DEF Unbroken, Breaking
      <4> QED BY <4>1, <4>2, RestoreClean DEF Slots
    <3>2. UNCHANGED <<file, active, orig>>
      BY <1>16 DEF RevertHTTPS
    <3>3. Faithful(mem[q])' = Faithful(mem[q])
      BY <1>16, <3>2 DEF RevertHTTPS, Faithful
    <3>4. CASE q # p
      BY <1>16, <2>5, <3>1, <3>2, <3>3, <3>4 DEF RevertHTTPS, Goto, Parts, CallInv, RevertInv, Clean, TypeInv, TypeOK
    <3>5. CASE q = p
      <4>1. pc'[p] = "r_http" /\ todo'[p] = todo[p] \ {s} /\ cur'[p] = s
        BY <1>16 DEF RevertHTTPS, Goto, TypeInv, TypeOK
      <4>2. RevertInv(p) /\ pc[p] = "r_https"
        BY <1>16 DEF RevertHTTPS, Parts, CallInv
      <4>3. \A t \in Services, j \in Slots : Clean(t, j) => Clean(t, j)'
        BY <3>1, <3>2 DEF Clean
      <4> QED BY <3>1, <3>3, <3>5, <4>1, <4>2, <4>3 DEF RevertInv, Slots
    <3> QED BY <3>4, <3>5
  <2> QED BY <2>1, <2>2, <2>3, <2>4, <2>5 DEF Parts, CallInv
<1>17. ASSUME NEW p \in Procs, RevertHTTP(p) PROVE Parts'
  <2>1. FileInv'
    <3>1. \A t \in Services, j \in Slots :
            IF t = cur[p] /\ j = "http" THEN Clean(t, j)' ELSE os'[t][j] = os[t][j]
      <4>1. cur[p] \in Recorded(mem[p]) /\ Faithful(mem[p]) /\ RestoreSlot(p, cur[p], "http") /\ UNCHANGED orig
        BY <1>17 DEF RevertHTTP, Parts, CallInv, RevertInv, TypeInv, LoopInv
      <4>2. "restore" \notin seen'
        BY DEF Unbroken, Breaking
      <4> QED BY <4>1, <4>2, RestoreClean DEF Slots
    <3>2. UNCHANGED <<file, active, orig>>
      BY <1>17 DEF RevertHTTP
    <3>3. /\ file \in {Absent, Torn} => \A t \in Services, j \in Slots : Clean(t, j)'
          /\ file \notin {Absent, Torn} => \A t \in Services, j \in Slots :
               Clean(t, j)' \/ (t \in Recorded(file) /\ os'[t][j] = Ours)
      BY <3>1, <3>2 DEF Parts, FileInv, Clean
    <3>4. file = Torn => \E q \in Procs : pc'[q] = "snap_write"
      BY <1>17 DEF RevertHTTP, Goto, Parts, FileInv, TypeInv, TypeOK
    <3> QED BY <3>2, <3>3, <3>4 DEF Parts, FileInv, Faithful
  <2>2. Exclusion'
    BY <1>17 DEF RevertHTTP, Goto, RestoreSlot, Note, osVars, history, callVars, TypeInv, TypeOK, Parts, Exclusion, Unbroken, Breaking
  <2>3. ASSUME NEW q \in Procs PROVE SnapInv(q)'
    BY <1>17, <2>3 DEF RevertHTTP, Goto, RestoreSlot, Note, osVars, history, callVars, TypeInv, TypeOK, Parts, Exclusion, CallInv, SnapInv, Faithful, Unbroken, Breaking
  <2>4. ASSUME NEW q \in Procs PROVE ChangeInv(q)'
    BY <1>17, <2>4 DEF RevertHTTP, Goto, RestoreSlot, Note, osVars, history, callVars, TypeInv, TypeOK, Parts, Exclusion, CallInv, ChangeInv, Unbroken, Breaking
  <2>5. ASSUME NEW q \in Procs PROVE RevertInv(q)'
    <3>1. \A t \in Services, j \in Slots :
            IF t = cur[p] /\ j = "http" THEN Clean(t, j)' ELSE os'[t][j] = os[t][j]
      <4>1. cur[p] \in Recorded(mem[p]) /\ Faithful(mem[p]) /\ RestoreSlot(p, cur[p], "http") /\ UNCHANGED orig
        BY <1>17 DEF RevertHTTP, Parts, CallInv, RevertInv, TypeInv, LoopInv
      <4>2. "restore" \notin seen'
        BY DEF Unbroken, Breaking
      <4> QED BY <4>1, <4>2, RestoreClean DEF Slots
    <3>2. UNCHANGED <<file, active, orig>>
      BY <1>17 DEF RevertHTTP
    <3>3. Faithful(mem[q])' = Faithful(mem[q])
      BY <1>17, <3>2 DEF RevertHTTP, Faithful
    <3>4. CASE q # p
      BY <1>17, <2>5, <3>1, <3>2, <3>3, <3>4 DEF RevertHTTP, Goto, Parts, CallInv, RevertInv, Clean, TypeInv, TypeOK
    <3>5. CASE q = p
      <4>1. pc'[p] = "r_https" /\ todo'[p] = todo[p]
        BY <1>17 DEF RevertHTTP, Goto, TypeInv, TypeOK
      <4>2. RevertInv(p) /\ pc[p] = "r_http"
        BY <1>17 DEF RevertHTTP, Parts, CallInv
      <4>3. \A t \in Services, j \in Slots : Clean(t, j) => Clean(t, j)'
        BY <3>1, <3>2 DEF Clean
      <4> QED BY <3>1, <3>3, <3>5, <4>1, <4>2, <4>3 DEF RevertInv, Slots
    <3> QED BY <3>4, <3>5
  <2> QED BY <2>1, <2>2, <2>3, <2>4, <2>5 DEF Parts, CallInv
<1>18. ASSUME NEW p \in Procs, RemoveStateFile(p) PROVE Parts'
  <2>1. FileInv'
    <3>1. \A s \in Services, k \in Slots : Clean(s, k)
      BY <1>18 DEF RemoveStateFile, Parts, CallInv, RevertInv
    <3>2. file' = Absent \/ file' = file
      BY <1>18 DEF RemoveStateFile
    <3>3. CASE file' = Absent
      BY <1>18, <3>1, <3>3, SystemProxyAssumption DEF RemoveStateFile, FileInv, Clean, osVars, history
    <3>4. CASE file' = file
      BY <1>18, <3>1, <3>4 DEF RemoveStateFile, Return, Parts, FileInv, Clean, Faithful, osVars, history, TypeInv, TypeOK
    <3> QED BY <3>2, <3>3, <3>4
  <2>2. Exclusion'
    BY <1>18 DEF RemoveStateFile, Return, osVars, history, callVars, TypeInv, TypeOK, Parts, Exclusion, Unbroken, Breaking
  <2>3. ASSUME NEW q \in Procs PROVE SnapInv(q)'
    BY <1>18, <2>3 DEF RemoveStateFile, Return, osVars, history, callVars, TypeInv, TypeOK, Parts, Exclusion, CallInv, SnapInv, Faithful, Unbroken, Breaking
  <2>4. ASSUME NEW q \in Procs PROVE ChangeInv(q)'
    BY <1>18, <2>4 DEF RemoveStateFile, Return, osVars, history, callVars, TypeInv, TypeOK, Parts, Exclusion, CallInv, ChangeInv, Unbroken, Breaking
  <2>5. ASSUME NEW q \in Procs PROVE RevertInv(q)'
    BY <1>18, <2>5 DEF RemoveStateFile, Return, osVars, history, callVars, TypeInv, TypeOK, Parts, Exclusion, CallInv, RevertInv, Faithful, Clean, Unbroken, Breaking
  <2> QED BY <2>1, <2>2, <2>3, <2>4, <2>5 DEF Parts, CallInv
<1>19. ASSUME NEW p \in Procs, Killed(p) PROVE Parts'
  <2>1. FileInv'
    BY <1>19 DEF Killed, Return, Note, osVars, history, callVars, TypeInv, TypeOK, Parts, FileInv, CallInv, SnapInv, Clean, Faithful, Unbroken, Breaking
  <2>2. Exclusion'
    BY <1>19 DEF Killed, Return, Note, osVars, history, callVars, TypeInv, TypeOK, Parts, Exclusion, Unbroken, Breaking
  <2>3. ASSUME NEW q \in Procs PROVE SnapInv(q)'
    BY <1>19, <2>3 DEF Killed, Return, Note, osVars, history, callVars, TypeInv, TypeOK, Parts, Exclusion, CallInv, SnapInv, Faithful, Unbroken, Breaking
  <2>4. ASSUME NEW q \in Procs PROVE ChangeInv(q)'
    BY <1>19, <2>4 DEF Killed, Return, Note, osVars, history, callVars, TypeInv, TypeOK, Parts, Exclusion, CallInv, ChangeInv, Unbroken, Breaking
  <2>5. ASSUME NEW q \in Procs PROVE RevertInv(q)'
    BY <1>19, <2>5 DEF Killed, Return, Note, osVars, history, callVars, TypeInv, TypeOK, Parts, Exclusion, CallInv, RevertInv, Faithful, Clean, Unbroken, Breaking
  <2> QED BY <2>1, <2>2, <2>3, <2>4, <2>5 DEF Parts, CallInv
<1>20. ASSUME NEW s \in Services, Plug(s) PROVE Parts'
  <2>1. FileInv'
    BY <1>20 DEF Plug, Note, SnapshotLive, osVars, history, callVars, TypeInv, TypeOK, Parts, FileInv, CallInv, SnapInv, Clean, Faithful, Unbroken, Breaking
  <2>2. Exclusion'
    BY <1>20 DEF Plug, Note, SnapshotLive, osVars, history, callVars, TypeInv, TypeOK, Parts, Exclusion, Unbroken, Breaking
  <2>3. ASSUME NEW q \in Procs PROVE SnapInv(q)'
    BY <1>20, <2>3 DEF Plug, Note, SnapshotLive, osVars, history, callVars, TypeInv, TypeOK, Parts, Exclusion, CallInv, SnapInv, Faithful, Unbroken, Breaking
  <2>4. ASSUME NEW q \in Procs PROVE ChangeInv(q)'
    BY <1>20, <2>4 DEF Plug, Note, SnapshotLive, osVars, history, callVars, TypeInv, TypeOK, Parts, Exclusion, CallInv, ChangeInv, Unbroken, Breaking
  <2>5. ASSUME NEW q \in Procs PROVE RevertInv(q)'
    BY <1>20, <2>5 DEF Plug, Note, SnapshotLive, osVars, history, callVars, TypeInv, TypeOK, Parts, Exclusion, CallInv, RevertInv, Faithful, Clean, Unbroken, Breaking
  <2> QED BY <2>1, <2>2, <2>3, <2>4, <2>5 DEF Parts, CallInv
<1>21. ASSUME NEW s \in Services, Unplug(s) PROVE Parts'
  <2>1. FileInv'
    BY <1>21 DEF Unplug, osVars, history, callVars, TypeInv, TypeOK, Parts, FileInv, CallInv, SnapInv, Clean, Faithful, Unbroken, Breaking
  <2>2. Exclusion'
    BY <1>21 DEF Unplug, osVars, history, callVars, TypeInv, TypeOK, Parts, Exclusion, Unbroken, Breaking
  <2>3. ASSUME NEW q \in Procs PROVE SnapInv(q)'
    BY <1>21, <2>3 DEF Unplug, osVars, history, callVars, TypeInv, TypeOK, Parts, Exclusion, CallInv, SnapInv, Faithful, Unbroken, Breaking
  <2>4. ASSUME NEW q \in Procs PROVE ChangeInv(q)'
    BY <1>21, <2>4 DEF Unplug, osVars, history, callVars, TypeInv, TypeOK, Parts, Exclusion, CallInv, ChangeInv, Unbroken, Breaking
  <2>5. ASSUME NEW q \in Procs PROVE RevertInv(q)'
    BY <1>21, <2>5 DEF Unplug, osVars, history, callVars, TypeInv, TypeOK, Parts, Exclusion, CallInv, RevertInv, Faithful, Clean, Unbroken, Breaking
  <2> QED BY <2>1, <2>2, <2>3, <2>4, <2>5 DEF Parts, CallInv
<1>22. ASSUME NEW s \in Services, NEW new \in [Slots -> Priors], Edit(s, new) PROVE Parts'
  <2>1. FileInv'
    BY <1>22 DEF Edit, Note, SnapshotLive, osVars, history, callVars, TypeInv, TypeOK, Parts, FileInv, CallInv, SnapInv, Clean, Faithful, Unbroken, Breaking
  <2>2. Exclusion'
    BY <1>22 DEF Edit, Note, SnapshotLive, osVars, history, callVars, TypeInv, TypeOK, Parts, Exclusion, Unbroken, Breaking
  <2>3. ASSUME NEW q \in Procs PROVE SnapInv(q)'
    BY <1>22, <2>3 DEF Edit, Note, SnapshotLive, osVars, history, callVars, TypeInv, TypeOK, Parts, Exclusion, CallInv, SnapInv, Faithful, Unbroken, Breaking
  <2>4. ASSUME NEW q \in Procs PROVE ChangeInv(q)'
    BY <1>22, <2>4 DEF Edit, Note, SnapshotLive, osVars, history, callVars, TypeInv, TypeOK, Parts, Exclusion, CallInv, ChangeInv, Unbroken, Breaking
  <2>5. ASSUME NEW q \in Procs PROVE RevertInv(q)'
    BY <1>22, <2>5 DEF Edit, Note, SnapshotLive, osVars, history, callVars, TypeInv, TypeOK, Parts, Exclusion, CallInv, RevertInv, Faithful, Clean, Unbroken, Breaking
  <2> QED BY <2>1, <2>2, <2>3, <2>4, <2>5 DEF Parts, CallInv
<1>23. CASE UNCHANGED vars
  BY <1>23 DEF vars, Parts, FileInv, Exclusion, CallInv, SnapInv, ChangeInv, RevertInv, Faithful, Clean
<1> QED
  BY <1>1, <1>2, <1>3, <1>4, <1>5, <1>6, <1>7, <1>8, <1>9, <1>10, <1>11, <1>12, <1>13, <1>14, <1>15, <1>16, <1>17, <1>18, <1>19, <1>20, <1>21, <1>22, <1>23 DEF Next, SetStep, RevertStep, Environment

\* Every variable keeps its type, under any of the faults (TypeOK).
THEOREM TypeCorrect == Spec => []TypeOK
<1>1. Init => TypeInv
  <2> SUFFICES ASSUME Init PROVE TypeInv
    OBVIOUS
  <2>1. os \in [Services -> ServiceState] /\ orig \in [Services -> [Slots -> Priors]]
    BY UserStates DEF Init
  <2> QED BY <2>1, EmptySnapshot DEF Init, TypeInv, TypeOK, LoopInv, EndPhases
<1>2. TypeInv => TypeOK
  BY DEF TypeInv
<1> QED BY <1>1, <1>2, TypesInductive, PTL DEF Spec

\* The inductive invariant holds of every reachable state.
THEOREM InvariantHolds == Spec => []IInv
<1>1. Init => IInv
  <2> SUFFICES ASSUME Init PROVE IInv
    OBVIOUS
  <2>1. os \in [Services -> ServiceState] /\ orig \in [Services -> [Slots -> Priors]]
    BY UserStates DEF Init
  <2>2. TypeInv
    BY <2>1, EmptySnapshot DEF Init, TypeInv, TypeOK, LoopInv, EndPhases
  <2>3. FileInv
    BY SystemProxyAssumption DEF Init, FileInv, Clean
  <2>4. Exclusion /\ \A p \in Procs : CallInv(p)
    BY DEF Init, Exclusion, InSet, SetPhases, CallInv, SnapInv, ChangeInv, RevertInv
  <2> QED BY <2>2, <2>3, <2>4 DEF IInv, Parts
<1>2. IInv /\ [Next]_vars => IInv'
  <2> SUFFICES ASSUME IInv, [Next]_vars PROVE IInv'
    OBVIOUS
  <2>1. TypeInv'
    BY TypesInductive DEF IInv
  <2>2. Unbroken' => Unbroken
    BY SeenGrows DEF Unbroken
  <2>3. Unbroken' => Parts'
    BY <2>2, PartsInductive DEF IInv
  <2> QED BY <2>1, <2>3 DEF IInv
<1> QED BY <1>1, <1>2, PTL DEF Spec

\* As long as none of the breaking faults has happened, the state file records
\* the user's routing of every service that points at Redactr (Recoverable):
\* whatever the callers killed, the commands failed and the calls repeated.
THEOREM AlwaysRecoverable == Spec => []Recoverable
<1>1. IInv => Recoverable
  <2> SUFFICES ASSUME IInv, Unbroken, NEW s \in Services, PointsAtUs(s)
               PROVE  file \notin {Absent, Torn} /\ s \in Recorded(file) /\ Same(file[s], orig[s])
    BY DEF Recoverable, SnapshotRecoverable, Recorded
  <2>1. PICK k \in Slots : os[s][k] = Ours
    BY DEF PointsAtUs
  <2>2. ~Clean(s, k)
    <3>1. Effective(os[s][k]) = RedactrAddr
      BY <2>1 DEF Ours, Effective
    <3>2. Effective(orig[s][k]) # RedactrAddr
      BY UserStates DEF IInv, TypeInv, TypeOK
    <3> QED BY <3>1, <3>2 DEF Clean
  <2>3. file \notin {Absent, Torn} /\ s \in Recorded(file) /\ Faithful(file)
    BY <2>2 DEF IInv, Parts, FileInv
  <2> QED BY <2>3 DEF Faithful
<1> QED BY <1>1, InvariantHolds, PTL

\* Without a state file every service routes as the user chose, as long as none
\* of the breaking faults has happened (OffMeansRestored).
THEOREM AlwaysOffRestored == Spec => []OffMeansRestored
<1>1. IInv => OffMeansRestored
  BY DEF IInv, OffMeansRestored, Parts, FileInv, Clean, Same
<1> QED BY <1>1, InvariantHolds, PTL

\* A Set that returns success leaves every active service pointing at Redactr,
\* as long as none of the breaking faults has happened (SuccessMeansOn).
THEOREM AlwaysSuccessMeansOn == Spec => []SuccessMeansOn
<1>1. IInv => SuccessMeansOn
  <2> SUFFICES ASSUME IInv, Unbroken, NEW p \in Procs, pc[p] = "https", todo[p] = {},
                      NEW s \in active, NEW k \in Slots
               PROVE  os[s][k] = Ours
    BY DEF SuccessMeansOn
  <2> QED BY DEF IInv, Parts, CallInv, ChangeInv, Slots
<1> QED BY <1>1, InvariantHolds, PTL

-----------------------------------------------------------------------------
(* The snapshot is kept whatever else goes wrong, so its invariant depends  *)
(* on the absence of overlapping Sets alone.                               *)

NoOverlap == "overlap" \notin seen

\* Where the calls that take a snapshot find the file.
PhaseInv(p) ==
  /\ pc[p] \in {"snap_list", "snap_read"} => file = Absent
  /\ pc[p] = "snap_write" => file = Torn

KeptInv == TypeOK /\ (NoOverlap => Exclusion /\ \A p \in Procs : PhaseInv(p))

\* Every step keeps it.
THEOREM KeptInductive == KeptInv /\ TypeOK' /\ [Next]_vars => KeptInv'
<1> SUFFICES ASSUME KeptInv, TypeOK', [Next]_vars, NoOverlap'
             PROVE  Exclusion' /\ \A p \in Procs : PhaseInv(p)'
  BY DEF KeptInv
<1> USE DEF InSet, Ended, SetPhases, RevertPhases, EndPhases, Exclusion, PhaseInv
<1>a. Exclusion /\ \A p \in Procs : PhaseInv(p)
  BY SeenGrows DEF KeptInv, NoOverlap
<1>b. pc \in [Procs -> SetPhases \cup RevertPhases \cup EndPhases]
  BY DEF KeptInv, TypeOK
<1>1. ASSUME NEW p \in Procs, BeginSet(p)
      PROVE  Exclusion' /\ \A q \in Procs : PhaseInv(q)'
  <2>1. \A q \in Procs \ {p} : Ended(q)
    BY <1>1 DEF BeginSet, Note, NoOverlap
  <2> QED BY <1>a, <1>b, <1>1, <2>1 DEF BeginSet, Goto
<1>2. ASSUME NEW p \in Procs, SetStat(p)
      PROVE  Exclusion' /\ \A q \in Procs : PhaseInv(q)'
  BY <1>a, <1>b, <1>2 DEF SetStat, Goto, NeedsSnapshot
<1>3. ASSUME NEW p \in Procs, ListServices(p)
      PROVE  Exclusion' /\ \A q \in Procs : PhaseInv(q)'
  BY <1>a, <1>b, <1>3 DEF ListServices, Goto
<1>4. ASSUME NEW p \in Procs, NEW s \in Services, ReadServiceState(p, s)
      PROVE  Exclusion' /\ \A q \in Procs : PhaseInv(q)'
  BY <1>a, <1>b, <1>4 DEF ReadServiceState, history
<1>5. ASSUME NEW p \in Procs, CreateStateFile(p)
      PROVE  Exclusion' /\ \A q \in Procs : PhaseInv(q)'
  BY <1>a, <1>b, <1>5 DEF CreateStateFile, Goto
<1>6. ASSUME NEW p \in Procs, WriteStateFile(p)
      PROVE  Exclusion' /\ \A q \in Procs : PhaseInv(q)'
  BY <1>a, <1>b, <1>6 DEF WriteStateFile, Goto
<1>7. ASSUME NEW p \in Procs, NEW s \in Services, SetSecureWebProxy(p, s)
      PROVE  Exclusion' /\ \A q \in Procs : PhaseInv(q)'
  BY <1>a, <1>b, <1>7 DEF SetSecureWebProxy, Goto, history
<1>8. ASSUME NEW p \in Procs, SetWebProxy(p)
      PROVE  Exclusion' /\ \A q \in Procs : PhaseInv(q)'
  BY <1>a, <1>b, <1>8 DEF SetWebProxy, Goto, history
<1>9. ASSUME NEW p \in Procs, SetBypassDomains(p)
      PROVE  Exclusion' /\ \A q \in Procs : PhaseInv(q)'
  BY <1>a, <1>b, <1>9 DEF SetBypassDomains, Goto
<1>10. ASSUME NEW p \in Procs, SetDone(p)
      PROVE  Exclusion' /\ \A q \in Procs : PhaseInv(q)'
  BY <1>a, <1>b, <1>10 DEF SetDone, Return
<1>11. ASSUME NEW p \in Procs, SetFails(p)
      PROVE  Exclusion' /\ \A q \in Procs : PhaseInv(q)'
  BY <1>a, <1>b, <1>11 DEF SetFails, Return
<1>12. ASSUME NEW p \in Procs, SaveFails(p)
      PROVE  Exclusion' /\ \A q \in Procs : PhaseInv(q)'
  BY <1>a, <1>b, <1>12 DEF SaveFails, Return, Note
<1>13. ASSUME NEW p \in Procs, BeginRevert(p)
      PROVE  Exclusion' /\ \A q \in Procs : PhaseInv(q)'
  <2>1. \A q \in Procs : ~InSet(q)
    BY <1>13 DEF BeginRevert, Note, NoOverlap
  <2> QED BY <1>a, <1>b, <1>13, <2>1 DEF BeginRevert, Goto
<1>14. ASSUME NEW p \in Procs, RevertStat(p)
      PROVE  Exclusion' /\ \A q \in Procs : PhaseInv(q)'
  BY <1>a, <1>b, <1>14 DEF RevertStat, Goto, Return
<1>15. ASSUME NEW p \in Procs, LoadState(p)
      PROVE  Exclusion' /\ \A q \in Procs : PhaseInv(q)'
  BY <1>a, <1>b, <1>15 DEF LoadState, Goto, Return
<1>16. ASSUME NEW p \in Procs, NEW s \in Services, RevertHTTPS(p, s)
      PROVE  Exclusion' /\ \A q \in Procs : PhaseInv(q)'
  BY <1>a, <1>b, <1>16 DEF RevertHTTPS, Goto, RestoreSlot, Note
<1>17. ASSUME NEW p \in Procs, RevertHTTP(p)
      PROVE  Exclusion' /\ \A q \in Procs : PhaseInv(q)'
  BY <1>a, <1>b, <1>17 DEF RevertHTTP, Goto, RestoreSlot, Note
<1>18. ASSUME NEW p \in Procs, RemoveStateFile(p)
      PROVE  Exclusion' /\ \A q \in Procs : PhaseInv(q)'
  BY <1>a, <1>b, <1>18 DEF RemoveStateFile, Return
<1>19. ASSUME NEW p \in Procs, Killed(p)
      PROVE  Exclusion' /\ \A q \in Procs : PhaseInv(q)'
  BY <1>a, <1>b, <1>19 DEF Killed, Return, Note
<1>20. ASSUME NEW s \in Services, Plug(s)
      PROVE  Exclusion' /\ \A q \in Procs : PhaseInv(q)'
  BY <1>a, <1>b, <1>20 DEF Plug, Note, callVars
<1>21. ASSUME NEW s \in Services, Unplug(s)
      PROVE  Exclusion' /\ \A q \in Procs : PhaseInv(q)'
  BY <1>a, <1>b, <1>21 DEF Unplug, history, callVars
<1>22. ASSUME NEW s \in Services, NEW new \in [Slots -> Priors], Edit(s, new)
      PROVE  Exclusion' /\ \A q \in Procs : PhaseInv(q)'
  BY <1>a, <1>b, <1>22 DEF Edit, Note, callVars
<1>23. CASE UNCHANGED vars
  BY <1>a, <1>23 DEF vars
<1> QED
  BY <1>1, <1>2, <1>3, <1>4, <1>5, <1>6, <1>7, <1>8, <1>9, <1>10, <1>11, <1>12, <1>13, <1>14, <1>15, <1>16, <1>17, <1>18, <1>19, <1>20, <1>21, <1>22, <1>23 DEF Next, SetStep, RevertStep, Environment

\* A complete snapshot is only ever removed, never replaced, while no Set runs
\* beside another call (SnapshotKept): the call that writes one has found none,
\* whatever commands failed and whichever callers were killed since.
THEOREM AlwaysSnapshotKept == Spec => SnapshotKept
<1>1. Init => KeptInv
  <2> SUFFICES ASSUME Init PROVE KeptInv
    OBVIOUS
  <2>1. os \in [Services -> ServiceState] /\ orig \in [Services -> [Slots -> Priors]]
    BY UserStates DEF Init
  <2>2. TypeOK
    BY <2>1, EmptySnapshot DEF Init, TypeOK, EndPhases
  <2> QED BY <2>2 DEF Init, KeptInv, Exclusion, PhaseInv, InSet, SetPhases
<1>2. KeptInv /\ [Next]_vars =>
        (file \notin {Absent, Torn} /\ "overlap" \notin seen' => file' \in {file, Absent})
  <2> SUFFICES ASSUME KeptInv, Next, file \notin {Absent, Torn}, "overlap" \notin seen'
               PROVE  file' \in {file, Absent}
    BY DEF vars
  <2>1. \A p \in Procs : pc[p] \notin {"snap_read", "snap_write"}
    BY SeenGrows DEF KeptInv, NoOverlap, PhaseInv
  <2> QED
    BY <2>1 DEF Next, SetStep, RevertStep, Environment, osVars, callVars, history, BeginSet, SetStat, ListServices, ReadServiceState, CreateStateFile, WriteStateFile, SetSecureWebProxy, SetWebProxy, SetBypassDomains, SetDone, SetFails, SaveFails, BeginRevert, RevertStat, LoadState, RevertHTTPS, RevertHTTP, RemoveStateFile, Killed, Plug, Unplug, Edit
<1> QED BY <1>1, <1>2, TypeCorrect, KeptInductive, PTL DEF Spec, SnapshotKept

-----------------------------------------------------------------------------
(* The two-step switch.  A step of Set or Revert takes, routes, restores or *)
(* forgets as ProxySwitch says, or changes nothing that it speaks of.       *)

\* Nothing points at Redactr where everything routes as the user chose.
LEMMA CleanIsNotRouted ==
  ASSUME TypeOK, \A s \in Services, k \in Slots : Clean(s, k)
  PROVE  ~Routed
<1> SUFFICES ASSUME NEW s \in Services, NEW k \in Slots, os[s][k] = Ours
             PROVE  FALSE
  BY DEF Routed, PointsAtUs
<1>1. Effective(os[s][k]) = RedactrAddr
  BY DEF Effective, Ours
<1>2. Effective(orig[s][k]) # RedactrAddr
  BY UserStates DEF TypeOK
<1> QED BY <1>1, <1>2 DEF Clean

\* Nothing is routed or restored where no setting changes.
LEMMA SameRouting ==
  ASSUME UNCHANGED os
  PROVE  Routed' = Routed
<1>1. \A s \in Services : PointsAtUs(s)' <=> PointsAtUs(s)
  BY DEF PointsAtUs
<1> QED BY <1>1, Zenon DEF Routed

\* What is routed is recorded.
LEMMA RoutedIsRecorded ==
  ASSUME TypeOK, FileInv
  PROVE  file \in {Absent, Torn} => ~Routed
  BY CleanIsNotRouted DEF FileInv

\* A Set points a slot at Redactr.
LEMMA SetRoutes ==
  ASSUME TypeOK, NEW s \in Services, NEW k \in Slots, SetSlot(s, k)
  PROVE  Routed'
<1>1. os'[s][k] = Ours
  BY SlotAfter DEF SetSlot, TypeOK
<1> QED BY <1>1 DEF Routed, PointsAtUs

\* A restoring command never points anything at Redactr.
LEMMA RestoreDoesNotRoute ==
  ASSUME TypeInv, TypeOK', NEW p \in Procs, NEW s \in Recorded(mem[p]), NEW k \in Slots,
         RestoreSlot(p, s, k), "restore" \notin seen', UNCHANGED orig, Faithful(mem[p]), ~Routed
  PROVE  ~Routed'
<1> SUFFICES ASSUME NEW t \in Services, NEW j \in Slots, os'[t][j] = Ours
             PROVE  FALSE
  BY DEF Routed, PointsAtUs
<1>1. CASE t = s /\ j = k
  <2>1. Clean(t, j)'
    BY <1>1, RestoreClean
  <2>2. Effective(os'[t][j]) = RedactrAddr
    BY DEF Effective, Ours
  <2>3. Effective(orig'[t][j]) # RedactrAddr
    BY UserStates DEF TypeOK
  <2> QED BY <2>1, <2>2, <2>3 DEF Clean
<1>2. CASE ~(t = s /\ j = k)
  BY <1>2, RestoreClean DEF Routed, PointsAtUs
<1> QED BY <1>1, <1>2

SwitchStep == [Switch!Next]_<<Routed, file # Absent>>

\* Every step of an unbroken execution is one of the abstract switch, or none.
THEOREM StepsImplementSwitch ==
  TypeInv /\ Parts /\ TypeInv' /\ Parts' /\ [Next]_vars /\ Unbroken' => SwitchStep
<1> SUFFICES ASSUME TypeInv, Parts, TypeInv', Parts', [Next]_vars, Unbroken'
             PROVE  SwitchStep
  OBVIOUS
<1> USE DEF SwitchStep, Switch!Next, Switch!TakeSnapshot, Switch!Route, Switch!Restore, Switch!Forget
<1>a. ASSUME UNCHANGED <<os, file>> PROVE SwitchStep
  BY <1>a DEF Routed, PointsAtUs
<1>b. file \in {Absent, Torn} => ~Routed
  BY RoutedIsRecorded DEF TypeInv, Parts
<1>c. ASSUME NEW p \in Procs, NEW s \in Recorded(mem[p]), NEW k \in Slots,
             RestoreSlot(p, s, k), pc[p] \in {"r_https", "r_http"}, UNCHANGED <<file, orig>>
      PROVE  SwitchStep
  <2>1. "restore" \notin seen'
    BY DEF Unbroken, Breaking
  <2>2. Faithful(mem[p])
    BY <1>c DEF Parts, CallInv, RevertInv
  <2>3. TypeInv /\ TypeOK' /\ UNCHANGED orig
    BY <1>c DEF TypeInv
  <2>4. ~Routed => ~Routed'
    BY <1>c, <2>1, <2>2, <2>3, RestoreDoesNotRoute
  <2> QED BY <1>b, <1>c, <2>4 DEF TypeInv, Routed
<1>d. ASSUME NEW s \in Services, NEW k \in Slots, SetSlot(s, k), file \notin {Absent, Torn}, UNCHANGED file
      PROVE  SwitchStep
  BY <1>d, SetRoutes DEF TypeInv
<1>1. ASSUME NEW p \in Procs,
             \/ BeginSet(p) \/ SetStat(p) \/ ListServices(p) \/ SetBypassDomains(p)
             \/ SetDone(p) \/ SetFails(p) \/ SaveFails(p)
             \/ BeginRevert(p) \/ RevertStat(p) \/ LoadState(p) \/ Killed(p)
      PROVE  SwitchStep
  BY <1>1, <1>a DEF BeginSet, SetStat, ListServices, SetBypassDomains, SetDone, SetFails, SaveFails,
     BeginRevert, RevertStat, LoadState, Killed, osVars
<1>2. ASSUME NEW p \in Procs, NEW s \in Services, ReadServiceState(p, s) PROVE SwitchStep
  BY <1>2, <1>a DEF ReadServiceState, osVars
<1>3. ASSUME NEW p \in Procs, CreateStateFile(p) PROVE SwitchStep
  <2>1. file = Absent /\ file' = Torn /\ UNCHANGED os
    BY <1>3 DEF CreateStateFile, osVars, Parts, CallInv, SnapInv
  <2>2. Routed' = Routed
    BY <2>1, SameRouting
  <2>3. ~Routed /\ file' # Absent
    BY <1>b, <2>1, SystemProxyAssumption
  <2>4. Switch!TakeSnapshot
    BY <2>1, <2>2, <2>3, Zenon DEF Routed
  <2> QED BY <2>4
<1>4. ASSUME NEW p \in Procs, WriteStateFile(p) PROVE SwitchStep
  <2>1. file = Torn /\ file' # Absent /\ UNCHANGED os
    BY <1>4, SnapshotIsComplete DEF WriteStateFile, osVars, Parts, CallInv, SnapInv, TypeInv, TypeOK
  <2>2. Routed' = Routed
    BY <2>1, SameRouting
  <2> QED BY <2>1, <2>2, SystemProxyAssumption
<1>5. ASSUME NEW p \in Procs, NEW s \in Services, SetSecureWebProxy(p, s) PROVE SwitchStep
  BY <1>5, <1>d DEF SetSecureWebProxy, Slots, Parts, CallInv, ChangeInv
<1>6. ASSUME NEW p \in Procs, SetWebProxy(p) PROVE SwitchStep
  BY <1>6, <1>d DEF SetWebProxy, Slots, Parts, CallInv, ChangeInv, TypeInv, LoopInv
<1>7. ASSUME NEW p \in Procs, NEW s \in Services, RevertHTTPS(p, s) PROVE SwitchStep
  BY <1>7, <1>c DEF RevertHTTPS, Slots, TypeInv, LoopInv
<1>8. ASSUME NEW p \in Procs, RevertHTTP(p) PROVE SwitchStep
  BY <1>8, <1>c DEF RevertHTTP, Slots, TypeInv, LoopInv
<1>9. ASSUME NEW p \in Procs, RemoveStateFile(p) PROVE SwitchStep
  <2>1. \A s \in Services, k \in Slots : Clean(s, k)
    BY <1>9 DEF RemoveStateFile, Parts, CallInv, RevertInv
  <2>2. ~Routed
    BY <2>1, CleanIsNotRouted DEF TypeInv
  <2>3. Routed' = Routed
    BY <1>9, SameRouting DEF RemoveStateFile, osVars
  <2>4. file' \in {Absent} \cup IF May("remove") THEN {file} ELSE {}
    BY <1>9 DEF RemoveStateFile
  <2>5. CASE file' = file
    BY <2>3, <2>5, Zenon
  <2>6. CASE file' = Absent
    <3>1. Switch!Forget
      BY <2>2, <2>3, <2>6, Zenon DEF Routed
    <3> QED BY <3>1
  <2> QED BY <2>4, <2>5, <2>6
<1>10. ASSUME NEW s \in Services, Plug(s) \/ Unplug(s) PROVE SwitchStep
  BY <1>10, <1>a DEF Plug, Unplug
<1>11. ASSUME NEW s \in Services, NEW new \in [Slots -> Priors], Edit(s, new) PROVE SwitchStep
  <2>1. file = Absent /\ file' = Absent
    BY <1>11 DEF Edit, Note, SnapshotLive, Unbroken, Breaking
  <2>2. TypeOK' /\ (\A t \in Services, k \in Slots : Clean(t, k)')
    BY <2>1 DEF TypeInv, Parts, FileInv
  <2>3. ASSUME NEW t \in Services, NEW k \in Slots, os'[t][k] = Ours PROVE FALSE
    <3>1. Effective(os'[t][k]) = RedactrAddr
      BY <2>3 DEF Effective, Ours
    <3>2. Effective(orig'[t][k]) # RedactrAddr
      BY <2>2, UserStates DEF TypeOK
    <3> QED BY <2>2, <3>1, <3>2 DEF Clean
  <2>4. ~Routed'
    BY <2>3 DEF Routed, PointsAtUs
  <2>5. ~Routed
    BY <1>b, <2>1
  <2>6. Routed' = Routed
    BY <2>4, <2>5, Zenon DEF Routed
  <2> QED BY <2>1, <2>6, Zenon
<1>12. CASE UNCHANGED vars
  BY <1>12, <1>a DEF vars
<1> QED
  BY <1>1, <1>2, <1>3, <1>4, <1>5, <1>6, <1>7, <1>8, <1>9, <1>10, <1>11, <1>12
     DEF Next, SetStep, RevertStep, Environment

\* Set and Revert implement the switch that their callers rely on (ProxySwitch)
\* until a breaking fault - callers may be killed, commands of Set fail and the
\* file resist its removal.
THEOREM SwitchImplemented == Spec => ImplementsSwitch
<1>1. Init => Switch!Init
  <2> SUFFICES ASSUME Init PROVE ~Routed /\ file = Absent
    BY DEF Switch!Init, Routed
  <2>1. os \in [Services -> [Slots -> Priors]] /\ file = Absent
    BY DEF Init
  <2>2. ASSUME NEW s \in Services, NEW k \in Slots, os[s][k] = Ours PROVE FALSE
    BY <2>1, <2>2, UserStates DEF Effective, Ours
  <2> QED BY <2>1, <2>2 DEF Routed, PointsAtUs
<1>2. IInv /\ IInv' /\ [Next]_vars
        => [seen' \cap Breaking = {} => [Switch!Next]_<<Routed, file # Absent>>]_vars
  <2>1. [Next]_vars /\ Unbroken' => Unbroken
    BY SeenGrows DEF Unbroken
  <2> QED BY <2>1, StepsImplementSwitch DEF IInv, Unbroken, SwitchStep
<1> QED BY <1>1, <1>2, InvariantHolds, PTL DEF Spec, ImplementsSwitch

=============================================================================
