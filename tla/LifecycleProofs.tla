----------------------------- MODULE LifecycleProofs -----------------------------
(***************************************************************************)
(* Proofs about Lifecycle, for any terminals, daemons and enabled faults.  *)
(***************************************************************************)
EXTENDS Lifecycle, TLAPS

-----------------------------------------------------------------------------
(* Types                                                                   *)

\* Who may be where, and the daemon a command waits for.
StepInv ==
  /\ \A t \in Terminals : pc[t] \in {"idle", "f_serving", "f_using"} \cup CommandPhases
  /\ \A p \in Pids : pc[p] \in DaemonPhases
  /\ \A t \in Terminals : pc[t] = "e_wait" => child[t] \in Pids

TypeInv == TypeOK /\ StepInv

\* What a step that may end early makes of the routing.
LEMMA PartlyMeans ==
  ASSUME NEW x, PartlyRouted(x)
  PROVE  routed' = routed \/ (pc[x] \in {"s_route", "r_ours"} /\ routed' = TRUE)
BY DEF PartlyRouted

\* Every step keeps the types, and every process where its kind can be.
THEOREM TypesInductive == TypeInv /\ [Next]_vars => TypeInv'
<1> SUFFICES ASSUME TypeInv, [Next]_vars
             PROVE  TypeInv'
  OBVIOUS
<1> USE LifecycleAssumption
<1> USE DEF Idle, Alive, Goto, Release, Finish, Outcome, Note, NoteAll, Begins, switch,
            history, RevertPhases, WritePhases, CommandPhases, DaemonPhases, TypeInv,
            TypeOK, StepInv, Contents
<1>1. ASSUME NEW t \in Terminals, BeginEnable(t) PROVE TypeInv'
  BY <1>1 DEF BeginEnable, FaultKinds
<1>2. ASSUME NEW t \in Terminals, BeginDisable(t) PROVE TypeInv'
  BY <1>2 DEF BeginDisable, FaultKinds
<1>3. ASSUME NEW t \in Terminals, BeginForeground(t) PROVE TypeInv'
  BY <1>3 DEF BeginForeground, FaultKinds
<1>4. ASSUME NEW t \in Terminals, BeginRun(t) PROVE TypeInv'
  BY <1>4 DEF BeginRun, FaultKinds
<1>5. ASSUME NEW t \in Terminals, StartAlreadyUp(t) PROVE TypeInv'
  BY <1>5 DEF StartAlreadyUp
<1>6. ASSUME NEW t \in Terminals, NEW p \in Pids, StartSpawn(t, p) PROVE TypeInv'
  BY <1>6 DEF StartSpawn
<1>7. ASSUME NEW t \in Terminals, StartAnswered(t) PROVE TypeInv'
  BY <1>7 DEF StartAnswered
<1>8. ASSUME NEW t \in Terminals, StartUnrecorded(t) PROVE TypeInv'
  BY <1>8 DEF StartUnrecorded, FaultKinds
<1>9. ASSUME NEW t \in Terminals, StartTimeout(t) PROVE TypeInv'
  BY <1>9 DEF StartTimeout, PartlyRouted
<1>10. ASSUME NEW t \in Terminals, SetLook(t) PROVE TypeInv'
  BY <1>10 DEF SetLook, FaultKinds
<1>11. ASSUME NEW t \in Terminals, SetRoute(t) PROVE TypeInv'
  BY <1>11 DEF SetRoute
<1>12. ASSUME NEW t \in Terminals, EnableFails(t) PROVE TypeInv'
  BY <1>12 DEF EnableFails, PartlyRouted, FaultKinds
<1>13. ASSUME NEW x \in Terminals \cup Pids, RevertLook(x) PROVE TypeInv'
  <2>1. seen' \subseteq FaultKinds
    BY <1>13 DEF RevertLook, FaultKinds
  <2>2. pc' = [pc EXCEPT ![x] = pc'[x]] /\ pc'[x] \in {"exit", "d_stop", "r_user", "r_ours"}
    BY <1>13 DEF RevertLook, AfterRevert
  <2>3. x \in Terminals => pc'[x] # "exit"
    BY <1>13 DEF RevertLook, AfterRevert
  <2>4. x \in Pids => pc'[x] # "d_stop"
    BY <1>13 DEF RevertLook, AfterRevert
  <2> QED
    BY <1>13, <2>1, <2>2, <2>3, <2>4 DEF RevertLook
<1>14. ASSUME NEW x \in Terminals \cup Pids, RevertRestore(x) PROVE TypeInv'
  BY <1>14 DEF RevertRestore, PartlyRouted, FaultKinds
<1>15. ASSUME NEW x \in Terminals \cup Pids, RevertRemove(x) PROVE TypeInv'
  BY <1>15 DEF RevertRemove, AfterRevert, FaultKinds
<1>16. ASSUME NEW t \in Terminals, StopNothing(t) PROVE TypeInv'
  BY <1>16 DEF StopNothing
<1>17. ASSUME NEW t \in Terminals, StopSignal(t) PROVE TypeInv'
  BY <1>17 DEF StopSignal, DropsPort, Signalled
<1>18. ASSUME NEW t \in Terminals, StopWaited(t) PROVE TypeInv'
  BY <1>18 DEF StopWaited, FaultKinds
<1>19. ASSUME NEW t \in Terminals, EnsureProxy(t) PROVE TypeInv'
  BY <1>19 DEF EnsureProxy
<1>20. ASSUME NEW t \in Terminals, ForegroundListen(t) PROVE TypeInv'
  BY <1>20 DEF ForegroundListen, FaultKinds
<1>21. ASSUME NEW t \in Terminals, ForegroundStop(t) PROVE TypeInv'
  BY <1>21 DEF ForegroundStop
<1>22. ASSUME NEW t \in Terminals, CommandKilled(t) PROVE TypeInv'
  BY <1>22 DEF CommandKilled, PartlyRouted, FaultKinds
<1>23. ASSUME NEW p \in Pids, DaemonListen(p) PROVE TypeInv'
  BY <1>23 DEF DaemonListen
<1>24. ASSUME NEW p \in Pids, DaemonNotify(p) PROVE TypeInv'
  BY <1>24 DEF DaemonNotify
<1>25. ASSUME NEW p \in Pids, DaemonExit(p) PROVE TypeInv'
  BY <1>25 DEF DaemonExit
<1>26. ASSUME NEW p \in Pids, Term(p) PROVE TypeInv'
  BY <1>26 DEF Term, DropsPort, Signalled, FaultKinds
<1>27. ASSUME NEW p \in Pids, DaemonKilled(p) PROVE TypeInv'
  BY <1>27 DEF DaemonKilled, PartlyRouted, FaultKinds
<1>28. ASSUME NEW t \in Terminals, SetWrite(t) PROVE TypeInv'
  BY <1>28 DEF SetWrite
<1>29. CASE UNCHANGED vars
  BY <1>29 DEF vars
<1> QED
  BY <1>1, <1>2, <1>3, <1>4, <1>5, <1>6, <1>7, <1>8, <1>9, <1>10, <1>11,
     <1>12, <1>13, <1>14, <1>15, <1>16, <1>17, <1>18, <1>19, <1>20, <1>21,
     <1>22, <1>23, <1>24, <1>25, <1>26, <1>27, <1>28, <1>29 DEF Next, CommandStep,
     DaemonStep, Revert

\* The types hold.
LEMMA TypesHold == Spec => []TypeInv
<1>1. Init => TypeInv
  BY LifecycleAssumption DEF Init, TypeInv, TypeOK, StepInv, FaultKinds, Contents, CommandPhases, DaemonPhases, RevertPhases, WritePhases
<1> QED
  BY <1>1, TypesInductive, PTL DEF Spec

\* Every variable holds values of the kind the code gives it.
THEOREM TypeCorrect == Spec => []TypeOK
<1>1. TypeInv => TypeOK
  BY DEF TypeInv
<1> QED
  BY <1>1, TypesHold, PTL

-----------------------------------------------------------------------------
(* Who listens                                                             *)

\* Who listens: a daemon from binding to its exit, or a foreground proxy.
PortInv ==
  /\ \A p \in Pids : port = p <=> pc[p] \in {"bound", "serving", "exit"} \cup RevertPhases
  /\ \A t \in Terminals : port = t <=> pc[t] = "f_serving"
  /\ port \in Terminals => "foreground" \in seen
  /\ \A t \in Terminals : pc[t] \in {"f_look", "f_boot"} => "foreground" \in seen

\* One process listens at a time, and it is the one that port names.
THEOREM PortInductive == TypeInv /\ PortInv /\ [Next]_vars => PortInv'
<1> SUFFICES ASSUME TypeInv, PortInv, [Next]_vars
             PROVE  PortInv'
  OBVIOUS
<1> USE LifecycleAssumption
<1> USE DEF Idle, Alive, Goto, Release, Finish, Outcome, Note, NoteAll, Begins, switch,
            history, RevertPhases, WritePhases, CommandPhases, DaemonPhases, TypeInv,
            TypeOK, StepInv, PortInv
<1>1. ASSUME NEW t \in Terminals, BeginEnable(t) PROVE PortInv'
  BY <1>1 DEF BeginEnable
<1>2. ASSUME NEW t \in Terminals, BeginDisable(t) PROVE PortInv'
  BY <1>2 DEF BeginDisable
<1>3. ASSUME NEW t \in Terminals, BeginForeground(t) PROVE PortInv'
  BY <1>3 DEF BeginForeground
<1>4. ASSUME NEW t \in Terminals, BeginRun(t) PROVE PortInv'
  BY <1>4 DEF BeginRun
<1>5. ASSUME NEW t \in Terminals, StartAlreadyUp(t) PROVE PortInv'
  BY <1>5 DEF StartAlreadyUp
<1>6. ASSUME NEW t \in Terminals, NEW p \in Pids, StartSpawn(t, p) PROVE PortInv'
  BY <1>6 DEF StartSpawn
<1>7. ASSUME NEW t \in Terminals, StartAnswered(t) PROVE PortInv'
  BY <1>7 DEF StartAnswered
<1>8. ASSUME NEW t \in Terminals, StartUnrecorded(t) PROVE PortInv'
  BY <1>8 DEF StartUnrecorded
<1>9. ASSUME NEW t \in Terminals, StartTimeout(t) PROVE PortInv'
  BY <1>9 DEF StartTimeout
<1>10. ASSUME NEW t \in Terminals, SetLook(t) PROVE PortInv'
  BY <1>10 DEF SetLook
<1>11. ASSUME NEW t \in Terminals, SetRoute(t) PROVE PortInv'
  BY <1>11 DEF SetRoute
<1>12. ASSUME NEW t \in Terminals, EnableFails(t) PROVE PortInv'
  BY <1>12 DEF EnableFails
<1>13. ASSUME NEW x \in Terminals \cup Pids, RevertLook(x) PROVE PortInv'
  BY <1>13 DEF RevertLook, AfterRevert
<1>14. ASSUME NEW x \in Terminals \cup Pids, RevertRestore(x) PROVE PortInv'
  BY <1>14 DEF RevertRestore
<1>15. ASSUME NEW x \in Terminals \cup Pids, RevertRemove(x) PROVE PortInv'
  BY <1>15 DEF RevertRemove, AfterRevert
<1>16. ASSUME NEW t \in Terminals, StopNothing(t) PROVE PortInv'
  BY <1>16 DEF StopNothing
<1>17. ASSUME NEW t \in Terminals, StopSignal(t) PROVE PortInv'
  BY <1>17 DEF StopSignal, DropsPort, Signalled
<1>18. ASSUME NEW t \in Terminals, StopWaited(t) PROVE PortInv'
  BY <1>18 DEF StopWaited
<1>19. ASSUME NEW t \in Terminals, EnsureProxy(t) PROVE PortInv'
  BY <1>19 DEF EnsureProxy
<1>20. ASSUME NEW t \in Terminals, ForegroundListen(t) PROVE PortInv'
  BY <1>20 DEF ForegroundListen
<1>21. ASSUME NEW t \in Terminals, ForegroundStop(t) PROVE PortInv'
  BY <1>21 DEF ForegroundStop
<1>22. ASSUME NEW t \in Terminals, CommandKilled(t) PROVE PortInv'
  BY <1>22 DEF CommandKilled
<1>23. ASSUME NEW p \in Pids, DaemonListen(p) PROVE PortInv'
  BY <1>23 DEF DaemonListen
<1>24. ASSUME NEW p \in Pids, DaemonNotify(p) PROVE PortInv'
  BY <1>24 DEF DaemonNotify
<1>25. ASSUME NEW p \in Pids, DaemonExit(p) PROVE PortInv'
  BY <1>25 DEF DaemonExit
<1>26. ASSUME NEW p \in Pids, Term(p) PROVE PortInv'
  BY <1>26 DEF Term, DropsPort, Signalled
<1>27. ASSUME NEW p \in Pids, DaemonKilled(p) PROVE PortInv'
  BY <1>27 DEF DaemonKilled
<1>28. ASSUME NEW t \in Terminals, SetWrite(t) PROVE PortInv'
  BY <1>28 DEF SetWrite
<1>29. CASE UNCHANGED vars
  BY <1>29 DEF vars
<1> QED
  BY <1>1, <1>2, <1>3, <1>4, <1>5, <1>6, <1>7, <1>8, <1>9, <1>10, <1>11,
     <1>12, <1>13, <1>14, <1>15, <1>16, <1>17, <1>18, <1>19, <1>20, <1>21,
     <1>22, <1>23, <1>24, <1>25, <1>26, <1>27, <1>28, <1>29 DEF Next, CommandStep,
     DaemonStep, Revert

-----------------------------------------------------------------------------
(* Without overlapping events                                              *)

\* Besides a command only the daemon it starts or stops is in the middle of
\* something.
Paired(t, p) ==
  /\ t \in Terminals /\ p \in Pids
  /\ child[t] = p
  /\ \/ pc[t] \in {"e_wait", "s_look", "s_route"} \cup WritePhases /\ pc[p] = "boot"
     \/ pc[t] = "d_wait" /\ pc[p] \in {"exit"} \cup RevertPhases

Solo ==
  Without({"overlap"}) =>
    \A x, y \in Busy : x = y \/ Paired(x, y) \/ Paired(y, x)

\* A new event finds everybody at rest; what a command starts or stops is its own.
THEOREM SoloInductive == TypeInv /\ Solo /\ [Next]_vars => Solo'
<1> SUFFICES ASSUME TypeInv, Solo, [Next]_vars
             PROVE  Solo'
  OBVIOUS
<1> USE LifecycleAssumption
<1> USE DEF Idle, Goto, Release, Finish, Outcome, Note, NoteAll, Begins, switch, history,
            RevertPhases, WritePhases, CommandPhases, DaemonPhases, TypeInv, TypeOK,
            StepInv, Solo, Paired, Busy, Without
<1>1. ASSUME NEW t \in Terminals, BeginEnable(t) PROVE Solo'
  BY <1>1 DEF BeginEnable
<1>2. ASSUME NEW t \in Terminals, BeginDisable(t) PROVE Solo'
  BY <1>2 DEF BeginDisable
<1>3. ASSUME NEW t \in Terminals, BeginForeground(t) PROVE Solo'
  BY <1>3 DEF BeginForeground
<1>4. ASSUME NEW t \in Terminals, BeginRun(t) PROVE Solo'
  BY <1>4 DEF BeginRun
<1>5. ASSUME NEW t \in Terminals, StartAlreadyUp(t) PROVE Solo'
  BY <1>5 DEF StartAlreadyUp
<1>6. ASSUME NEW t \in Terminals, NEW p \in Pids, StartSpawn(t, p) PROVE Solo'
  BY <1>6 DEF StartSpawn
<1>7. ASSUME NEW t \in Terminals, StartAnswered(t) PROVE Solo'
  BY <1>7 DEF StartAnswered
<1>8. ASSUME NEW t \in Terminals, StartUnrecorded(t) PROVE Solo'
  BY <1>8 DEF StartUnrecorded
<1>9. ASSUME NEW t \in Terminals, StartTimeout(t) PROVE Solo'
  BY <1>9 DEF StartTimeout
<1>10. ASSUME NEW t \in Terminals, SetLook(t) PROVE Solo'
  BY <1>10 DEF SetLook
<1>11. ASSUME NEW t \in Terminals, SetRoute(t) PROVE Solo'
  BY <1>11 DEF SetRoute
<1>12. ASSUME NEW t \in Terminals, EnableFails(t) PROVE Solo'
  BY <1>12 DEF EnableFails
<1>13. ASSUME NEW x \in Terminals \cup Pids, RevertLook(x) PROVE Solo'
  BY <1>13 DEF RevertLook, AfterRevert
<1>14. ASSUME NEW x \in Terminals \cup Pids, RevertRestore(x) PROVE Solo'
  BY <1>14 DEF RevertRestore
<1>15. ASSUME NEW x \in Terminals \cup Pids, RevertRemove(x) PROVE Solo'
  BY <1>15 DEF RevertRemove, AfterRevert
<1>16. ASSUME NEW t \in Terminals, StopNothing(t) PROVE Solo'
  BY <1>16 DEF StopNothing
<1>17. ASSUME NEW t \in Terminals, StopSignal(t) PROVE Solo'
  BY <1>17 DEF StopSignal, DropsPort, Signalled
<1>18. ASSUME NEW t \in Terminals, StopWaited(t) PROVE Solo'
  BY <1>18 DEF StopWaited
<1>19. ASSUME NEW t \in Terminals, EnsureProxy(t) PROVE Solo'
  BY <1>19 DEF EnsureProxy
<1>20. ASSUME NEW t \in Terminals, ForegroundListen(t) PROVE Solo'
  BY <1>20 DEF ForegroundListen
<1>21. ASSUME NEW t \in Terminals, ForegroundStop(t) PROVE Solo'
  BY <1>21 DEF ForegroundStop
<1>22. ASSUME NEW t \in Terminals, CommandKilled(t) PROVE Solo'
  BY <1>22 DEF CommandKilled
<1>23. ASSUME NEW p \in Pids, DaemonListen(p) PROVE Solo'
  BY <1>23 DEF DaemonListen
<1>24. ASSUME NEW p \in Pids, DaemonNotify(p) PROVE Solo'
  BY <1>24 DEF DaemonNotify
<1>25. ASSUME NEW p \in Pids, DaemonExit(p) PROVE Solo'
  BY <1>25 DEF DaemonExit
<1>26. ASSUME NEW p \in Pids, Term(p) PROVE Solo'
  BY <1>26 DEF Term, DropsPort, Signalled
<1>27. ASSUME NEW p \in Pids, DaemonKilled(p) PROVE Solo'
  BY <1>27 DEF DaemonKilled
<1>28. ASSUME NEW t \in Terminals, SetWrite(t) PROVE Solo'
  BY <1>28 DEF SetWrite
<1>29. CASE UNCHANGED vars
  BY <1>29 DEF vars
<1> QED
  BY <1>1, <1>2, <1>3, <1>4, <1>5, <1>6, <1>7, <1>8, <1>9, <1>10, <1>11,
     <1>12, <1>13, <1>14, <1>15, <1>16, <1>17, <1>18, <1>19, <1>20, <1>21,
     <1>22, <1>23, <1>24, <1>25, <1>26, <1>27, <1>28, <1>29 DEF Next, CommandStep,
     DaemonStep, Revert

\* Who listens, and who may be in the middle of something, in every state.
LEMMA FrameHolds == Spec => [](PortInv /\ Solo)
<1>1. Init => PortInv /\ Solo
  BY LifecycleAssumption DEF Init, PortInv, Solo, Busy, CommandPhases, DaemonPhases, RevertPhases, WritePhases
<1> QED
  BY <1>1, PortInductive, SoloInductive, TypesHold, PTL DEF Spec

-----------------------------------------------------------------------------
(* Undoing                                                                 *)

\* What keeps the steps of the switch in order; a torn state file does not
\* disturb it.
SwitchInv ==
  Without({"overlap", "stat", "restore"}) =>
    /\ routed => file # "absent"
    /\ file # "ours"
    /\ \A x \in Terminals \cup Pids : pc[x] \notin {"s_ours", "r_ours"}
    /\ \A t \in Terminals : pc[t] = "s_user" => ~routed /\ file = "torn"
    /\ \A t \in Terminals : pc[t] = "s_route" => file # "absent"
    /\ \A x \in Terminals \cup Pids : pc[x] = "r_remove" => ~routed

\* The user's settings are in the state file from before the traffic is routed
\* until it is restored.
KeptInv ==
  Without(RevertBroken) =>
    /\ routed => file = "user"
    /\ file = "torn" => \E t \in Terminals : pc[t] = "s_user"
    /\ \A t \in Terminals : pc[t] = "s_route" => file = "user"
    /\ \A x \in Terminals \cup Pids : pc[x] \in {"d_stop", "d_wait", "exit"} => ~routed
    /\ \A t \in Terminals : pc[t] \in {"d_stop", "d_wait"} /\ Without({"remove"}) => file = "absent"

UndoInv == SwitchInv /\ KeptInv

\* Nobody routes traffic while somebody else reverts.
THEOREM UndoInductive == TypeInv /\ Solo /\ UndoInv /\ [Next]_vars => UndoInv'
<1> SUFFICES ASSUME TypeInv, Solo, UndoInv, [Next]_vars
             PROVE  UndoInv'
  OBVIOUS
<1> USE LifecycleAssumption
<1> USE DEF Idle, Goto, Release, Finish, Outcome, Note, NoteAll, Begins, switch, history,
            RevertPhases, WritePhases, CommandPhases, DaemonPhases, TypeInv, TypeOK,
            StepInv, Without, Solo, Paired, Busy, UndoInv, SwitchInv, KeptInv, RevertBroken,
            Contents
<1>1. ASSUME NEW t \in Terminals, BeginEnable(t) PROVE UndoInv'
  BY <1>1 DEF BeginEnable
<1>2. ASSUME NEW t \in Terminals, BeginDisable(t) PROVE UndoInv'
  BY <1>2 DEF BeginDisable
<1>3. ASSUME NEW t \in Terminals, BeginForeground(t) PROVE UndoInv'
  BY <1>3 DEF BeginForeground
<1>4. ASSUME NEW t \in Terminals, BeginRun(t) PROVE UndoInv'
  BY <1>4 DEF BeginRun
<1>5. ASSUME NEW t \in Terminals, StartAlreadyUp(t) PROVE UndoInv'
  BY <1>5 DEF StartAlreadyUp
<1>6. ASSUME NEW t \in Terminals, NEW p \in Pids, StartSpawn(t, p) PROVE UndoInv'
  BY <1>6 DEF StartSpawn
<1>7. ASSUME NEW t \in Terminals, StartAnswered(t) PROVE UndoInv'
  BY <1>7 DEF StartAnswered
<1>8. ASSUME NEW t \in Terminals, StartUnrecorded(t) PROVE UndoInv'
  BY <1>8 DEF StartUnrecorded
<1>9. ASSUME NEW t \in Terminals, StartTimeout(t) PROVE UndoInv'
  <2>a. PartlyRouted(child[t])
    BY <1>9 DEF StartTimeout
  <2>1. routed' = routed \/ (pc[child[t]] \in {"s_route", "r_ours"} /\ routed' = TRUE)
    BY ONLY <2>a, PartlyMeans
  <2>2. SwitchInv'
    BY <1>9, <2>1 DEF StartTimeout
  <2>3. KeptInv'
    BY <1>9, <2>1 DEF StartTimeout
  <2> QED BY <2>2, <2>3
<1>10. ASSUME NEW t \in Terminals, SetLook(t) PROVE UndoInv'
  BY <1>10 DEF SetLook
<1>11. ASSUME NEW t \in Terminals, SetRoute(t) PROVE UndoInv'
  BY <1>11 DEF SetRoute
<1>12. ASSUME NEW t \in Terminals, EnableFails(t) PROVE UndoInv'
  <2>1. routed' = routed \/ (routed' = TRUE /\ pc[t] \in {"s_route", "r_ours"})
    BY <1>12, PartlyMeans DEF EnableFails
  <2>2. SwitchInv'
    BY <1>12, <2>1 DEF EnableFails
  <2>3. KeptInv'
    BY <1>12, <2>1 DEF EnableFails
  <2> QED BY <2>2, <2>3
<1>13. ASSUME NEW x \in Terminals \cup Pids, RevertLook(x) PROVE UndoInv'
  BY <1>13 DEF RevertLook, AfterRevert
<1>14. ASSUME NEW x \in Terminals \cup Pids, RevertRestore(x) PROVE UndoInv'
  <2>1. \/ routed' = (pc[x] = "r_ours") /\ UNCHANGED seen
        \/ "restore" \in seen'
    BY <1>14 DEF RevertRestore
  <2>2. SwitchInv'
    BY <1>14, <2>1 DEF RevertRestore
  <2>3. KeptInv'
    BY <1>14, <2>1 DEF RevertRestore
  <2> QED BY <2>2, <2>3
<1>15. ASSUME NEW x \in Terminals \cup Pids, RevertRemove(x) PROVE UndoInv'
  BY <1>15 DEF RevertRemove, AfterRevert
<1>16. ASSUME NEW t \in Terminals, StopNothing(t) PROVE UndoInv'
  BY <1>16 DEF StopNothing
<1>17. ASSUME NEW t \in Terminals, StopSignal(t) PROVE UndoInv'
  BY <1>17 DEF StopSignal, DropsPort, Signalled
<1>18. ASSUME NEW t \in Terminals, StopWaited(t) PROVE UndoInv'
  BY <1>18 DEF StopWaited
<1>19. ASSUME NEW t \in Terminals, EnsureProxy(t) PROVE UndoInv'
  BY <1>19 DEF EnsureProxy
<1>20. ASSUME NEW t \in Terminals, ForegroundListen(t) PROVE UndoInv'
  BY <1>20 DEF ForegroundListen
<1>21. ASSUME NEW t \in Terminals, ForegroundStop(t) PROVE UndoInv'
  BY <1>21 DEF ForegroundStop
<1>22. ASSUME NEW t \in Terminals, CommandKilled(t) PROVE UndoInv'
  <2>1. routed' = routed \/ (routed' = TRUE /\ pc[t] \in {"s_route", "r_ours"})
    BY <1>22, PartlyMeans DEF CommandKilled
  <2>2. SwitchInv'
    BY <1>22, <2>1 DEF CommandKilled
  <2>3. KeptInv'
    BY <1>22, <2>1 DEF CommandKilled
  <2> QED BY <2>2, <2>3
<1>23. ASSUME NEW p \in Pids, DaemonListen(p) PROVE UndoInv'
  BY <1>23 DEF DaemonListen
<1>24. ASSUME NEW p \in Pids, DaemonNotify(p) PROVE UndoInv'
  BY <1>24 DEF DaemonNotify
<1>25. ASSUME NEW p \in Pids, DaemonExit(p) PROVE UndoInv'
  BY <1>25 DEF DaemonExit
<1>26. ASSUME NEW p \in Pids, Term(p) PROVE UndoInv'
  BY <1>26 DEF Term, DropsPort, Signalled
<1>27. ASSUME NEW p \in Pids, DaemonKilled(p) PROVE UndoInv'
  <2>1. routed' = routed \/ (routed' = TRUE /\ pc[p] \in {"s_route", "r_ours"})
    BY <1>27, PartlyMeans DEF DaemonKilled
  <2>2. SwitchInv'
    BY <1>27, <2>1 DEF DaemonKilled
  <2>3. KeptInv'
    BY <1>27, <2>1 DEF DaemonKilled
  <2> QED BY <2>2, <2>3
<1>28. ASSUME NEW t \in Terminals, SetWrite(t) PROVE UndoInv'
  BY <1>28 DEF SetWrite
<1>29. CASE UNCHANGED vars
  BY <1>29 DEF vars
<1> QED
  BY <1>1, <1>2, <1>3, <1>4, <1>5, <1>6, <1>7, <1>8, <1>9, <1>10, <1>11,
     <1>12, <1>13, <1>14, <1>15, <1>16, <1>17, <1>18, <1>19, <1>20, <1>21,
     <1>22, <1>23, <1>24, <1>25, <1>26, <1>27, <1>28, <1>29 DEF Next, CommandStep,
     DaemonStep, Revert

\* What holds from before traffic is routed until it is restored.
LEMMA UndoHolds == Spec => []UndoInv
<1>1. Init => UndoInv
  BY LifecycleAssumption DEF Init, UndoInv, SwitchInv, KeptInv
<1> QED
  BY <1>1, UndoInductive, FrameHolds, TypesHold, PTL DEF Spec

\* As long as traffic is routed to Redactr the state file holds the user's own
\* settings, until commands overlap, a state file is torn or cannot be looked
\* at, or a Revert fails.
THEOREM AlwaysUndoable == Spec => []Undoable
<1>1. UndoInv => Undoable
  BY DEF UndoInv, KeptInv, Undoable
<1> QED
  BY <1>1, UndoHolds, PTL

-----------------------------------------------------------------------------
(* The switch in use                                                       *)

Switch == INSTANCE ProxySwitch WITH snapped <- file # "absent"
SwitchKept == [Switch!Next]_<<routed, file # "absent">>

\* What defeats the order of the switch: an overlap, a Set that takes no snapshot
\* and a Revert that leaves traffic routed.
SwitchBroken == {"overlap", "stat", "restore"}

\* What the commands and the daemons do to the switch is what ProxySwitch
\* allows: a snapshot before the first route, none forgotten that is in use.
\* That holds for state files that are torn or cannot be removed, too.
THEOREM StepsUseSwitch ==
  TypeInv /\ UndoInv /\ Without(SwitchBroken) /\ [Next]_vars => SwitchKept
<1> SUFFICES ASSUME TypeInv, UndoInv, Without({"overlap", "stat", "restore"}), [Next]_vars
             PROVE  SwitchKept
  BY DEF SwitchBroken
<1> USE LifecycleAssumption
<1> USE DEF TypeInv, TypeOK, UndoInv, SwitchInv, switch, SwitchKept, Switch!Next,
            Switch!TakeSnapshot, Switch!Route, Switch!Restore, Switch!Forget
<1>a. SUFFICES ASSUME ~UNCHANGED switch PROVE Switch!Next
  OBVIOUS
<1>1. ASSUME NEW t \in Terminals, SetLook(t) PROVE Switch!Next
  <2>1. file = "absent" /\ file' = "torn" /\ UNCHANGED routed
    BY <1>a, <1>1 DEF SetLook
  <2> QED
    BY <2>1
<1>2. ASSUME NEW t \in Terminals, SetWrite(t) PROVE Switch!Next \/ UNCHANGED <<routed, file # "absent">>
  BY <1>2 DEF SetWrite, WritePhases
<1>3. ASSUME NEW t \in Terminals, SetRoute(t) PROVE Switch!Next
  BY <1>3 DEF SetRoute
<1>4. ASSUME NEW t \in Terminals, EnableFails(t) \/ CommandKilled(t) PROVE Switch!Next
  <2>1. pc[t] = "s_route" /\ routed' = TRUE /\ UNCHANGED file
    BY <1>a, <1>4 DEF EnableFails, CommandKilled, PartlyRouted
  <2> QED
    BY <2>1
<1>5. ASSUME NEW x \in Terminals \cup Pids, RevertRestore(x) PROVE Switch!Next
  <2>1. routed /\ routed' = FALSE /\ UNCHANGED file
    BY <1>a, <1>5 DEF RevertRestore, PartlyRouted
  <2> QED
    BY <2>1
<1>6. ASSUME NEW x \in Terminals \cup Pids, RevertRemove(x) PROVE Switch!Next
  BY <1>a, <1>6 DEF RevertRemove
\* Every other step leaves the switch alone.
<1>7. ASSUME NEW t \in Terminals,
             \/ BeginEnable(t) \/ BeginDisable(t) \/ BeginForeground(t) \/ BeginRun(t)
             \/ StartAlreadyUp(t) \/ (\E p \in Pids : StartSpawn(t, p))
             \/ StartAnswered(t) \/ StartUnrecorded(t)
             \/ StopNothing(t) \/ StopSignal(t) \/ StopWaited(t)
             \/ EnsureProxy(t) \/ ForegroundListen(t) \/ ForegroundStop(t)
      PROVE  UNCHANGED switch
  BY <1>7 DEF BeginEnable, BeginDisable, BeginForeground, BeginRun, StartAlreadyUp,
     StartSpawn, StartAnswered, StartUnrecorded, StopNothing, StopSignal, StopWaited,
     EnsureProxy, ForegroundListen, ForegroundStop
<1>8. ASSUME NEW p \in Pids,
             DaemonListen(p) \/ DaemonNotify(p) \/ DaemonExit(p) \/ Term(p)
      PROVE  UNCHANGED switch
  BY <1>8 DEF DaemonListen, DaemonNotify, DaemonExit, Term
<1>9. ASSUME NEW x \in Terminals \cup Pids, RevertLook(x) PROVE UNCHANGED switch
  BY <1>9 DEF RevertLook
\* A daemon that is killed is not restoring a snapshot of Redactr's settings.
<1>10. ASSUME NEW p \in Pids, PartlyRouted(p), UNCHANGED file PROVE UNCHANGED switch
  BY <1>10, PartlyMeans DEF StepInv, DaemonPhases, RevertPhases
<1>11. ASSUME NEW t \in Terminals, StartTimeout(t) PROVE UNCHANGED switch
  BY <1>10, <1>11 DEF StartTimeout, StepInv
<1>12. ASSUME NEW p \in Pids, DaemonKilled(p) PROVE UNCHANGED switch
  BY <1>10, <1>12 DEF DaemonKilled
<1>13. UNCHANGED vars => UNCHANGED switch
  BY DEF vars
<1> QED
  BY <1>a, <1>1, <1>2, <1>3, <1>4, <1>5, <1>6, <1>7, <1>8, <1>9, <1>11, <1>12, <1>13
  DEF Next, CommandStep, DaemonStep, Revert

\* Until commands overlap, a Revert fails or a Set is mistaken about the state
\* file, the whole machine - terminals, daemons, signals and crashes - runs the
\* switch as ProxySwitch specifies it.
THEOREM SwitchUsed ==
  Spec => Switch!Init /\ [][Without(SwitchBroken) => Switch!Next]_<<routed, file # "absent">>
<1>1. Init => Switch!Init
  BY DEF Init, Switch!Init
<1>2. TypeInv /\ UndoInv /\ [Next]_vars
        => [Without(SwitchBroken) => Switch!Next]_<<routed, file # "absent">>
  BY StepsUseSwitch DEF SwitchKept
<1> QED
  BY <1>1, <1>2, UndoHolds, TypesHold, PTL DEF Spec

\* The answer of IsRunning: the port answers, and off Windows the process lives.
LEMMA RunningAnswer ==
  /\ TRUE \in IsRunning => port # None /\ pidfile # None
  /\ ~Windows /\ FALSE \in IsRunning => pidfile = None \/ port = None \/ ~Alive(pidfile)
  BY DEF IsRunning, PidAlive

-----------------------------------------------------------------------------
(* The port behind the routed traffic                                      *)

LiveInv ==
  Without(RevertBroken \cup {"daemon", "early", "foreground"}) =>
    /\ routed => port \in Pids
    /\ \A t \in Terminals : pc[t] \in {"s_look", "s_route"} \cup WritePhases => port \in Pids
    /\ \A t \in Terminals : pc[t] = "e_wait" /\ routed => port # child[t]

\* A process stops listening only after the traffic has been restored.
THEOREM LiveInductive == TypeInv /\ PortInv /\ Solo /\ UndoInv /\ LiveInv /\ [Next]_vars => LiveInv'
<1> SUFFICES ASSUME TypeInv, PortInv, Solo, UndoInv, LiveInv, [Next]_vars
             PROVE  LiveInv'
  OBVIOUS
<1> USE LifecycleAssumption
<1> USE DEF Idle, Goto, Release, Finish, Outcome, Note, NoteAll, Begins, switch, history,
            RevertPhases, WritePhases, CommandPhases, DaemonPhases, TypeInv, TypeOK,
            StepInv, Without, PortInv, Solo, Paired, Busy, UndoInv, SwitchInv,
            KeptInv, RevertBroken, LiveInv
<1>1. ASSUME NEW t \in Terminals, BeginEnable(t) PROVE LiveInv'
  BY <1>1 DEF BeginEnable
<1>2. ASSUME NEW t \in Terminals, BeginDisable(t) PROVE LiveInv'
  BY <1>2 DEF BeginDisable
<1>3. ASSUME NEW t \in Terminals, BeginForeground(t) PROVE LiveInv'
  BY <1>3 DEF BeginForeground
<1>4. ASSUME NEW t \in Terminals, BeginRun(t) PROVE LiveInv'
  BY <1>4 DEF BeginRun
<1>5. ASSUME NEW t \in Terminals, StartAlreadyUp(t) PROVE LiveInv'
  BY <1>5, RunningAnswer DEF StartAlreadyUp
<1>6. ASSUME NEW t \in Terminals, NEW p \in Pids, StartSpawn(t, p) PROVE LiveInv'
  BY <1>6 DEF StartSpawn
<1>7. ASSUME NEW t \in Terminals, StartAnswered(t) PROVE LiveInv'
  BY <1>7 DEF StartAnswered
<1>8. ASSUME NEW t \in Terminals, StartUnrecorded(t) PROVE LiveInv'
  BY <1>8 DEF StartUnrecorded
<1>9. ASSUME NEW t \in Terminals, StartTimeout(t) PROVE LiveInv'
  <2>a. PartlyRouted(child[t])
    BY <1>9 DEF StartTimeout
  <2>1. routed' = routed \/ (pc[child[t]] \in {"s_route", "r_ours"} /\ routed' = TRUE)
    BY ONLY <2>a, PartlyMeans
  <2> QED
    BY <1>9, <2>1 DEF StartTimeout
<1>10. ASSUME NEW t \in Terminals, SetLook(t) PROVE LiveInv'
  BY <1>10 DEF SetLook
<1>11. ASSUME NEW t \in Terminals, SetRoute(t) PROVE LiveInv'
  BY <1>11 DEF SetRoute
<1>12. ASSUME NEW t \in Terminals, EnableFails(t) PROVE LiveInv'
  BY <1>12, PartlyMeans DEF EnableFails
<1>13. ASSUME NEW x \in Terminals \cup Pids, RevertLook(x) PROVE LiveInv'
  BY <1>13 DEF RevertLook, AfterRevert
<1>14. ASSUME NEW x \in Terminals \cup Pids, RevertRestore(x) PROVE LiveInv'
  BY <1>14, PartlyMeans DEF RevertRestore
<1>15. ASSUME NEW x \in Terminals \cup Pids, RevertRemove(x) PROVE LiveInv'
  BY <1>15 DEF RevertRemove, AfterRevert
<1>16. ASSUME NEW t \in Terminals, StopNothing(t) PROVE LiveInv'
  BY <1>16 DEF StopNothing
<1>17. ASSUME NEW t \in Terminals, StopSignal(t) PROVE LiveInv'
  BY <1>17 DEF StopSignal, DropsPort, Signalled
<1>18. ASSUME NEW t \in Terminals, StopWaited(t) PROVE LiveInv'
  BY <1>18 DEF StopWaited
<1>19. ASSUME NEW t \in Terminals, EnsureProxy(t) PROVE LiveInv'
  BY <1>19 DEF EnsureProxy
<1>20. ASSUME NEW t \in Terminals, ForegroundListen(t) PROVE LiveInv'
  BY <1>20 DEF ForegroundListen
<1>21. ASSUME NEW t \in Terminals, ForegroundStop(t) PROVE LiveInv'
  BY <1>21 DEF ForegroundStop
<1>22. ASSUME NEW t \in Terminals, CommandKilled(t) PROVE LiveInv'
  <2>1. routed' = routed \/ (routed' = TRUE /\ pc[t] \in {"s_route", "r_ours"})
    BY <1>22, PartlyMeans DEF CommandKilled
  <2> QED
    BY <1>22, <2>1 DEF CommandKilled
<1>23. ASSUME NEW p \in Pids, DaemonListen(p) PROVE LiveInv'
  BY <1>23 DEF DaemonListen
<1>24. ASSUME NEW p \in Pids, DaemonNotify(p) PROVE LiveInv'
  BY <1>24 DEF DaemonNotify
<1>25. ASSUME NEW p \in Pids, DaemonExit(p) PROVE LiveInv'
  BY <1>25 DEF DaemonExit
<1>26. ASSUME NEW p \in Pids, Term(p) PROVE LiveInv'
  BY <1>26 DEF Term, DropsPort, Signalled
<1>27. ASSUME NEW p \in Pids, DaemonKilled(p) PROVE LiveInv'
  BY <1>27, PartlyMeans DEF DaemonKilled
<1>28. ASSUME NEW t \in Terminals, SetWrite(t) PROVE LiveInv'
  BY <1>28 DEF SetWrite
<1>29. CASE UNCHANGED vars
  BY <1>29 DEF vars
<1> QED
  BY <1>1, <1>2, <1>3, <1>4, <1>5, <1>6, <1>7, <1>8, <1>9, <1>10, <1>11,
     <1>12, <1>13, <1>14, <1>15, <1>16, <1>17, <1>18, <1>19, <1>20, <1>21,
     <1>22, <1>23, <1>24, <1>25, <1>26, <1>27, <1>28, <1>29 DEF Next, CommandStep,
     DaemonStep, Revert

\* The machine is never left with its traffic routed to a dead port.
THEOREM AlwaysNoDeadProxy == Spec => []NoDeadProxy
<1>1. Init => LiveInv
  BY LifecycleAssumption DEF Init, LiveInv, WritePhases
<1>2. LiveInv => NoDeadProxy
  BY DEF LiveInv, NoDeadProxy
<1> QED
  BY <1>1, <1>2, LiveInductive, UndoHolds, FrameHolds, TypesHold, PTL DEF Spec

-----------------------------------------------------------------------------
(* After disable                                                           *)

EnablePhases == {"e_check", "e_wait", "s_look", "s_route"} \cup WritePhases

OffInv ==
  Without(RevertBroken) /\ last = "off" /\ (\A t \in Terminals : pc[t] \notin EnablePhases) =>
    /\ ~routed
    /\ Without({"remove"}) => file = "absent" /\ pidfile = None

\* Whatever happens after disable, until an enable has begun, keeps Redactr off.
THEOREM OffInductive == TypeInv /\ UndoInv /\ OffInv /\ [Next]_vars => OffInv'
<1> SUFFICES ASSUME TypeInv, UndoInv, OffInv, [Next]_vars
             PROVE  OffInv'
  OBVIOUS
<1> USE LifecycleAssumption
<1> USE DEF Idle, Goto, Release, Finish, Outcome, Note, NoteAll, Begins, switch, history,
            RevertPhases, WritePhases, CommandPhases, DaemonPhases, TypeInv, TypeOK,
            StepInv, Without, UndoInv, SwitchInv, KeptInv, RevertBroken, OffInv,
            EnablePhases
<1>1. ASSUME NEW t \in Terminals, BeginEnable(t) PROVE OffInv'
  BY <1>1 DEF BeginEnable
<1>2. ASSUME NEW t \in Terminals, BeginDisable(t) PROVE OffInv'
  BY <1>2 DEF BeginDisable
<1>3. ASSUME NEW t \in Terminals, BeginForeground(t) PROVE OffInv'
  BY <1>3 DEF BeginForeground
<1>4. ASSUME NEW t \in Terminals, BeginRun(t) PROVE OffInv'
  BY <1>4 DEF BeginRun
<1>5. ASSUME NEW t \in Terminals, StartAlreadyUp(t) PROVE OffInv'
  BY <1>5 DEF StartAlreadyUp
<1>6. ASSUME NEW t \in Terminals, NEW p \in Pids, StartSpawn(t, p) PROVE OffInv'
  BY <1>6 DEF StartSpawn
<1>7. ASSUME NEW t \in Terminals, StartAnswered(t) PROVE OffInv'
  BY <1>7 DEF StartAnswered
<1>8. ASSUME NEW t \in Terminals, StartUnrecorded(t) PROVE OffInv'
  BY <1>8 DEF StartUnrecorded
<1>9. ASSUME NEW t \in Terminals, StartTimeout(t) PROVE OffInv'
  BY <1>9, PartlyMeans DEF StartTimeout
<1>10. ASSUME NEW t \in Terminals, SetLook(t) PROVE OffInv'
  BY <1>10 DEF SetLook
<1>11. ASSUME NEW t \in Terminals, SetRoute(t) PROVE OffInv'
  BY <1>11 DEF SetRoute
<1>12. ASSUME NEW t \in Terminals, EnableFails(t) PROVE OffInv'
  BY <1>12, PartlyMeans DEF EnableFails
<1>13. ASSUME NEW x \in Terminals \cup Pids, RevertLook(x) PROVE OffInv'
  BY <1>13 DEF RevertLook, AfterRevert
<1>14. ASSUME NEW x \in Terminals \cup Pids, RevertRestore(x) PROVE OffInv'
  BY <1>14, PartlyMeans DEF RevertRestore
<1>15. ASSUME NEW x \in Terminals \cup Pids, RevertRemove(x) PROVE OffInv'
  BY <1>15 DEF RevertRemove, AfterRevert
<1>16. ASSUME NEW t \in Terminals, StopNothing(t) PROVE OffInv'
  BY <1>16 DEF StopNothing
<1>17. ASSUME NEW t \in Terminals, StopSignal(t) PROVE OffInv'
  BY <1>17 DEF StopSignal, DropsPort, Signalled
<1>18. ASSUME NEW t \in Terminals, StopWaited(t) PROVE OffInv'
  BY <1>18 DEF StopWaited
<1>19. ASSUME NEW t \in Terminals, EnsureProxy(t) PROVE OffInv'
  BY <1>19 DEF EnsureProxy
<1>20. ASSUME NEW t \in Terminals, ForegroundListen(t) PROVE OffInv'
  BY <1>20 DEF ForegroundListen
<1>21. ASSUME NEW t \in Terminals, ForegroundStop(t) PROVE OffInv'
  BY <1>21 DEF ForegroundStop
<1>22. ASSUME NEW t \in Terminals, CommandKilled(t) PROVE OffInv'
  BY <1>22, PartlyMeans DEF CommandKilled
<1>23. ASSUME NEW p \in Pids, DaemonListen(p) PROVE OffInv'
  BY <1>23 DEF DaemonListen
<1>24. ASSUME NEW p \in Pids, DaemonNotify(p) PROVE OffInv'
  BY <1>24 DEF DaemonNotify
<1>25. ASSUME NEW p \in Pids, DaemonExit(p) PROVE OffInv'
  BY <1>25 DEF DaemonExit
<1>26. ASSUME NEW p \in Pids, Term(p) PROVE OffInv'
  BY <1>26 DEF Term, DropsPort, Signalled
<1>27. ASSUME NEW p \in Pids, DaemonKilled(p) PROVE OffInv'
  BY <1>27, PartlyMeans DEF DaemonKilled
<1>28. ASSUME NEW t \in Terminals, SetWrite(t) PROVE OffInv'
  BY <1>28 DEF SetWrite
<1>29. CASE UNCHANGED vars
  BY <1>29 DEF vars
<1> QED
  BY <1>1, <1>2, <1>3, <1>4, <1>5, <1>6, <1>7, <1>8, <1>9, <1>10, <1>11,
     <1>12, <1>13, <1>14, <1>15, <1>16, <1>17, <1>18, <1>19, <1>20, <1>21,
     <1>22, <1>23, <1>24, <1>25, <1>26, <1>27, <1>28, <1>29 DEF Next, CommandStep,
     DaemonStep, Revert

\* After disable nothing is routed, nothing is left to restore and no daemon recorded.
THEOREM AlwaysOffMeansOff == Spec => []OffMeansOff
<1>1. Init => OffInv
  BY DEF Init, OffInv
<1>2. TypeInv /\ OffInv => OffMeansOff
  BY DEF TypeInv, StepInv, OffInv, OffMeansOff, AtRest, Busy, EnablePhases, CommandPhases, WritePhases
<1> QED
  BY <1>1, <1>2, OffInductive, UndoHolds, TypesHold, PTL DEF Spec

-----------------------------------------------------------------------------
(* The daemon that disable can find                                        *)

Awaited(p) == \E t \in Terminals : pc[t] = "e_wait" /\ child[t] = p

Listens(p) == pc[p] \in {"bound", "serving"}

OrphanInv ==
  Without({"overlap", "cli", "disk", "windows"}) =>
    /\ \A p \in Pids : pc[p] = "boot" \/ Listens(p) => pidfile = p \/ Awaited(p)
    /\ \A t \in Terminals, p \in Pids :
         /\ pc[t] = "e_wait" /\ Listens(p) => child[t] = p
         /\ pc[t] = "d_wait" => ~Listens(p)

\* A daemon comes into the pid file, or is killed, before its command ends.
THEOREM OrphanInductive == TypeInv /\ PortInv /\ Solo /\ OrphanInv /\ [Next]_vars => OrphanInv'
<1> SUFFICES ASSUME TypeInv, PortInv, Solo, OrphanInv, [Next]_vars
             PROVE  OrphanInv'
  OBVIOUS
<1> USE LifecycleAssumption
<1> USE DEF Idle, Goto, Release, Finish, Outcome, Note, NoteAll, Begins, switch, history,
            RevertPhases, WritePhases, CommandPhases, DaemonPhases, TypeInv, TypeOK,
            StepInv, Without, PortInv, Solo, Paired, Busy, OrphanInv,
            Awaited, Listens
<1>1. ASSUME NEW t \in Terminals, BeginEnable(t) PROVE OrphanInv'
  BY <1>1 DEF BeginEnable
<1>2. ASSUME NEW t \in Terminals, BeginDisable(t) PROVE OrphanInv'
  BY <1>2 DEF BeginDisable
<1>3. ASSUME NEW t \in Terminals, BeginForeground(t) PROVE OrphanInv'
  BY <1>3 DEF BeginForeground
<1>4. ASSUME NEW t \in Terminals, BeginRun(t) PROVE OrphanInv'
  BY <1>4 DEF BeginRun
<1>5. ASSUME NEW t \in Terminals, StartAlreadyUp(t) PROVE OrphanInv'
  BY <1>5 DEF StartAlreadyUp
<1>6. ASSUME NEW t \in Terminals, NEW p \in Pids, StartSpawn(t, p) PROVE OrphanInv'
  <2>1. ASSUME Without({"overlap", "cli", "disk", "windows"}), NEW q \in Pids, Listens(q)
        PROVE  FALSE
    <3>1. ~Awaited(q)
      BY <1>6, <2>1 DEF StartSpawn
    <3>2. pidfile = q /\ port = q /\ Alive(q)
      BY <2>1, <3>1 DEF Alive
    <3> QED
      <4>1. FALSE \in IsRunning
        BY <1>6 DEF StartSpawn
      <4>2. ~Windows
        BY <2>1 DEF Windows
      <4>3. port # None /\ pidfile # None /\ Alive(pidfile)
        BY <3>2
      <4> QED
        BY <4>1, <4>2, <4>3, RunningAnswer
  <2> QED
    BY <1>6, <2>1 DEF StartSpawn
<1>7. ASSUME NEW t \in Terminals, StartAnswered(t) PROVE OrphanInv'
  BY <1>7 DEF StartAnswered
<1>8. ASSUME NEW t \in Terminals, StartUnrecorded(t) PROVE OrphanInv'
  BY <1>8 DEF StartUnrecorded
<1>9. ASSUME NEW t \in Terminals, StartTimeout(t) PROVE OrphanInv'
  BY <1>9 DEF StartTimeout
<1>10. ASSUME NEW t \in Terminals, SetLook(t) PROVE OrphanInv'
  BY <1>10 DEF SetLook
<1>11. ASSUME NEW t \in Terminals, SetRoute(t) PROVE OrphanInv'
  BY <1>11 DEF SetRoute
<1>12. ASSUME NEW t \in Terminals, EnableFails(t) PROVE OrphanInv'
  BY <1>12 DEF EnableFails
<1>13. ASSUME NEW x \in Terminals \cup Pids, RevertLook(x) PROVE OrphanInv'
  BY <1>13 DEF RevertLook, AfterRevert
<1>14. ASSUME NEW x \in Terminals \cup Pids, RevertRestore(x) PROVE OrphanInv'
  BY <1>14 DEF RevertRestore
<1>15. ASSUME NEW x \in Terminals \cup Pids, RevertRemove(x) PROVE OrphanInv'
  BY <1>15 DEF RevertRemove, AfterRevert
<1>16. ASSUME NEW t \in Terminals, StopNothing(t) PROVE OrphanInv'
  BY <1>16 DEF StopNothing
<1>17. ASSUME NEW t \in Terminals, StopSignal(t) PROVE OrphanInv'
  BY <1>17 DEF StopSignal, DropsPort, Signalled, Windows
<1>18. ASSUME NEW t \in Terminals, StopWaited(t) PROVE OrphanInv'
  BY <1>18 DEF StopWaited
<1>19. ASSUME NEW t \in Terminals, EnsureProxy(t) PROVE OrphanInv'
  BY <1>19 DEF EnsureProxy
<1>20. ASSUME NEW t \in Terminals, ForegroundListen(t) PROVE OrphanInv'
  BY <1>20 DEF ForegroundListen
<1>21. ASSUME NEW t \in Terminals, ForegroundStop(t) PROVE OrphanInv'
  BY <1>21 DEF ForegroundStop
<1>22. ASSUME NEW t \in Terminals, CommandKilled(t) PROVE OrphanInv'
  BY <1>22 DEF CommandKilled
<1>23. ASSUME NEW p \in Pids, DaemonListen(p) PROVE OrphanInv'
  BY <1>23 DEF DaemonListen
<1>24. ASSUME NEW p \in Pids, DaemonNotify(p) PROVE OrphanInv'
  BY <1>24 DEF DaemonNotify
<1>25. ASSUME NEW p \in Pids, DaemonExit(p) PROVE OrphanInv'
  BY <1>25 DEF DaemonExit
<1>26. ASSUME NEW p \in Pids, Term(p) PROVE OrphanInv'
  BY <1>26 DEF Term, DropsPort, Signalled
<1>27. ASSUME NEW p \in Pids, DaemonKilled(p) PROVE OrphanInv'
  BY <1>27 DEF DaemonKilled
<1>28. ASSUME NEW t \in Terminals, SetWrite(t) PROVE OrphanInv'
  BY <1>28 DEF SetWrite
<1>29. CASE UNCHANGED vars
  BY <1>29 DEF vars
<1> QED
  BY <1>1, <1>2, <1>3, <1>4, <1>5, <1>6, <1>7, <1>8, <1>9, <1>10, <1>11,
     <1>12, <1>13, <1>14, <1>15, <1>16, <1>17, <1>18, <1>19, <1>20, <1>21,
     <1>22, <1>23, <1>24, <1>25, <1>26, <1>27, <1>28, <1>29 DEF Next, CommandStep,
     DaemonStep, Revert

\* What holds of the daemons that listen, or are about to.
LEMMA OrphanHolds == Spec => []OrphanInv
<1>1. Init => OrphanInv
  BY LifecycleAssumption DEF Init, OrphanInv, Listens
<1> QED
  BY <1>1, OrphanInductive, FrameHolds, TypesHold, PTL DEF Spec

\* At rest a daemon that serves is the one in the pid file.
THEOREM AlwaysNoOrphan == Spec => []NoOrphan
<1>1. OrphanInv => NoOrphan
  BY DEF OrphanInv, NoOrphan, AtRest, Busy, CommandPhases, Awaited, Listens
<1> QED
  BY <1>1, OrphanHolds, PTL

-----------------------------------------------------------------------------
(* After enable                                                            *)

Up == port = pidfile /\ port \in Pids /\ Listens(port)

OnInv ==
  Without(DaemonBroken) =>
    /\ \A t \in Terminals : pc[t] \in {"s_look", "s_route"} \cup WritePhases => Up
    /\ last = "on" /\ (\A t \in Terminals : pc[t] \notin EnablePhases \cup {"d_stop", "d_wait"} \cup RevertPhases)
         => routed /\ Up


\* From looking for the state file on, a daemon serves that is the one on record.
THEOREM OnInductive ==
  TypeInv /\ PortInv /\ Solo /\ OrphanInv /\ OnInv /\ [Next]_vars => OnInv'
<1> SUFFICES ASSUME TypeInv, PortInv, Solo, OrphanInv, OnInv, [Next]_vars
             PROVE  OnInv'
  OBVIOUS
<1> USE LifecycleAssumption
<1> USE DEF Idle, Goto, Release, Finish, Outcome, Note, NoteAll, Begins, switch, history,
            RevertPhases, WritePhases, CommandPhases, DaemonPhases, TypeInv, TypeOK,
            StepInv, Without, PortInv, Solo, Paired, Busy, OrphanInv,
            Awaited, Listens, Up, OnInv, EnablePhases, DaemonBroken
<1>1. ASSUME NEW t \in Terminals, BeginEnable(t) PROVE OnInv'
  BY <1>1 DEF BeginEnable
<1>2. ASSUME NEW t \in Terminals, BeginDisable(t) PROVE OnInv'
  BY <1>2 DEF BeginDisable
<1>3. ASSUME NEW t \in Terminals, BeginForeground(t) PROVE OnInv'
  BY <1>3 DEF BeginForeground
<1>4. ASSUME NEW t \in Terminals, BeginRun(t) PROVE OnInv'
  BY <1>4 DEF BeginRun
<1>5. ASSUME NEW t \in Terminals, StartAlreadyUp(t) PROVE OnInv'
  BY <1>5, RunningAnswer DEF StartAlreadyUp
<1>6. ASSUME NEW t \in Terminals, NEW p \in Pids, StartSpawn(t, p) PROVE OnInv'
  BY <1>6 DEF StartSpawn
<1>7. ASSUME NEW t \in Terminals, StartAnswered(t) PROVE OnInv'
  BY <1>7 DEF StartAnswered
<1>8. ASSUME NEW t \in Terminals, StartUnrecorded(t) PROVE OnInv'
  BY <1>8 DEF StartUnrecorded
<1>9. ASSUME NEW t \in Terminals, StartTimeout(t) PROVE OnInv'
  BY <1>9, PartlyMeans DEF StartTimeout
<1>10. ASSUME NEW t \in Terminals, SetLook(t) PROVE OnInv'
  BY <1>10 DEF SetLook
<1>11. ASSUME NEW t \in Terminals, SetRoute(t) PROVE OnInv'
  BY <1>11 DEF SetRoute
<1>12. ASSUME NEW t \in Terminals, EnableFails(t) PROVE OnInv'
  BY <1>12, PartlyMeans DEF EnableFails
<1>13. ASSUME NEW x \in Terminals \cup Pids, RevertLook(x) PROVE OnInv'
  BY <1>13 DEF RevertLook, AfterRevert
<1>14. ASSUME NEW x \in Terminals \cup Pids, RevertRestore(x) PROVE OnInv'
  BY <1>14, PartlyMeans DEF RevertRestore
<1>15. ASSUME NEW x \in Terminals \cup Pids, RevertRemove(x) PROVE OnInv'
  BY <1>15 DEF RevertRemove, AfterRevert
<1>16. ASSUME NEW t \in Terminals, StopNothing(t) PROVE OnInv'
  BY <1>16 DEF StopNothing
<1>17. ASSUME NEW t \in Terminals, StopSignal(t) PROVE OnInv'
  BY <1>17 DEF StopSignal, DropsPort, Signalled, Windows
<1>18. ASSUME NEW t \in Terminals, StopWaited(t) PROVE OnInv'
  BY <1>18 DEF StopWaited
<1>19. ASSUME NEW t \in Terminals, EnsureProxy(t) PROVE OnInv'
  BY <1>19 DEF EnsureProxy
<1>20. ASSUME NEW t \in Terminals, ForegroundListen(t) PROVE OnInv'
  BY <1>20 DEF ForegroundListen
<1>21. ASSUME NEW t \in Terminals, ForegroundStop(t) PROVE OnInv'
  BY <1>21 DEF ForegroundStop
<1>22. ASSUME NEW t \in Terminals, CommandKilled(t) PROVE OnInv'
  BY <1>22, PartlyMeans DEF CommandKilled
<1>23. ASSUME NEW p \in Pids, DaemonListen(p) PROVE OnInv'
  BY <1>23 DEF DaemonListen
<1>24. ASSUME NEW p \in Pids, DaemonNotify(p) PROVE OnInv'
  BY <1>24 DEF DaemonNotify
<1>25. ASSUME NEW p \in Pids, DaemonExit(p) PROVE OnInv'
  BY <1>25 DEF DaemonExit
<1>26. ASSUME NEW p \in Pids, Term(p) PROVE OnInv'
  BY <1>26 DEF Term, DropsPort, Signalled
<1>27. ASSUME NEW p \in Pids, DaemonKilled(p) PROVE OnInv'
  BY <1>27, PartlyMeans DEF DaemonKilled
<1>28. ASSUME NEW t \in Terminals, SetWrite(t) PROVE OnInv'
  BY <1>28 DEF SetWrite
<1>29. CASE UNCHANGED vars
  BY <1>29 DEF vars
<1> QED
  BY <1>1, <1>2, <1>3, <1>4, <1>5, <1>6, <1>7, <1>8, <1>9, <1>10, <1>11,
     <1>12, <1>13, <1>14, <1>15, <1>16, <1>17, <1>18, <1>19, <1>20, <1>21,
     <1>22, <1>23, <1>24, <1>25, <1>26, <1>27, <1>28, <1>29 DEF Next, CommandStep,
     DaemonStep, Revert

\* After a successful enable traffic is routed and the daemon on record serves it.
THEOREM AlwaysOnMeansOn == Spec => []OnMeansOn
<1>1. Init => OnInv
  BY DEF Init, OnInv, CommandPhases, WritePhases
<1>2. TypeInv /\ OnInv => OnMeansOn
  BY DEF TypeInv, StepInv, OnInv, OnMeansOn, AtRest, Busy, EnablePhases, CommandPhases, WritePhases, Up, Listens
<1> QED
  BY <1>1, <1>2, OnInductive, OrphanHolds, FrameHolds, TypesHold, PTL DEF Spec

=============================================================================
