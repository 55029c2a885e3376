------------------------------ MODULE SetupProofs ------------------------------
(***************************************************************************)
(* Proofs about Setup, for any processes, certificate authorities,         *)
(* platforms and enabled faults.                                           *)
(***************************************************************************)
EXTENDS Setup, FiniteSetTheorems, TLAPS

-----------------------------------------------------------------------------
(* Types                                                                   *)

\* Every certificate that is found anywhere has been generated.
Minted ==
  /\ dir # Absent => dir.cert \in File(minted)
  /\ legacy # Absent => legacy.cert \in File(minted)
  /\ copied \in File(minted)
  /\ \A p \in Procs : cert[p] \in minted \cup {Absent}

\* What a process has in memory, and the directory it writes to, are there.
StepInv(p) ==
  /\ pc[p] \in {"mkdir", "truncate", "write"} => conf[p] \in Config
  /\ pc[p] \in {"truncate", "write", "gen_key", "gen_key_write"} => dir # Absent
  /\ pc[p] \in {"gen_key", "gen_key_write"} => cert[p] \in CAs /\ key[p] \in CAs

TypeInv == TypeOK /\ Minted /\ \A p \in Procs : StepInv(p)

\* What is read from config.json is a configuration.
LEMMA LoadedConfig == Loaded \in Config
  BY DEF Loaded, Config

\* A directory is not the missing one, and neither is a file.
LEMMA Distinct ==
  /\ Absent \notin Contents /\ EmptyDir \in Contents
  /\ Absent # Torn /\ Absent \notin Config \cup CAs /\ Torn \notin Config \cup CAs
  BY SetupAssumption DEF EmptyDir, Contents, File

\* Every step keeps the types, what was generated and what a process works with.
THEOREM TypesInductive == TypeInv /\ [Next]_vars => TypeInv'
<1> SUFFICES ASSUME TypeInv, [Next]_vars
             PROVE  TypeInv'
  OBVIOUS
<1> USE LoadedConfig, Distinct
<1> USE DEF First, Goto, End, Note, Answer, AfterSave, IsTelemetry, files,
            store, locals, history
<1>1. ASSUME NEW p \in Procs, NEW c \in Commands, Begin(p, c) PROVE TypeInv'
  <2> USE <1>1 DEF Begin
  <2>0. seen' \subseteq FaultKinds
    BY DEF TypeInv, TypeOK, FaultKinds
  <2>1. TypeOK'
    BY <2>0 DEF TypeInv, TypeOK, StepInv, Minted, File, Contents, FaultKinds, Commands, EndPhases, StepPhases
  <2>2. Minted'
    BY DEF TypeInv, TypeOK, Minted, StepInv, File, Contents
  <2>3. ASSUME NEW q \in Procs PROVE StepInv(q)'
    BY DEF TypeInv, TypeOK, StepInv, EndPhases, StepPhases
  <2> QED
    BY <2>1, <2>2, <2>3 DEF TypeInv
<1>2. ASSUME NEW p \in Procs, MigrateStatNew(p) PROVE TypeInv'
  BY <1>2 DEF MigrateStatNew, TypeInv, TypeOK, Minted, StepInv, File, Contents, FaultKinds, Commands,
         EndPhases, StepPhases
<1>3. ASSUME NEW p \in Procs, MigrateStatOld(p) PROVE TypeInv'
  BY <1>3 DEF MigrateStatOld, TypeInv, TypeOK, Minted, StepInv, File, Contents, FaultKinds, Commands,
         EndPhases, StepPhases
<1>4. ASSUME NEW p \in Procs, MigrateRename(p) PROVE TypeInv'
  <2> USE <1>4 DEF MigrateRename, Renames
  <2>1. TypeOK'
    BY DEF TypeInv, TypeOK, StepInv, Minted, File, Contents, FaultKinds, Commands, EndPhases, StepPhases
  <2>2. Minted'
    BY DEF TypeInv, TypeOK, Minted, StepInv, File, Contents
  <2>3. ASSUME NEW q \in Procs PROVE StepInv(q)'
    BY DEF TypeInv, TypeOK, StepInv, EndPhases, StepPhases, Commands, EmptyDir, Contents, File
  <2> QED
    BY <2>1, <2>2, <2>3 DEF TypeInv
<1>5. ASSUME NEW p \in Procs, RenameFails(p) PROVE TypeInv'
  BY <1>5 DEF RenameFails, TypeInv, TypeOK, Minted, StepInv, File, Contents, FaultKinds, Commands,
         EndPhases, StepPhases
<1>6. ASSUME NEW p \in Procs, LoadConfig(p) PROVE TypeInv'
  <2> USE <1>6 DEF LoadConfig
  <2>0. conf' \in [Procs -> Config \cup {Absent}] /\ (pc'[p] = "mkdir" => conf'[p] \in Config)
    <3>1. [Loaded EXCEPT !.telemetry = (cmd[p] = "on")] \in Config /\ [Loaded EXCEPT !.firstRun = TRUE] \in Config
      BY DEF Config
    <3>2. CASE IsTelemetry(p)
      BY <3>1, <3>2 DEF TypeInv, TypeOK
    <3>3. CASE ~IsTelemetry(p) /\ Loaded.firstRun
      BY <3>1, <3>3 DEF TypeInv, TypeOK
    <3>4. CASE ~IsTelemetry(p) /\ ~Loaded.firstRun
      BY <3>1, <3>4, Zenon DEF TypeInv, TypeOK
    <3> QED
      BY <3>2, <3>3, <3>4
  <2>1. TypeOK'
    BY <2>0 DEF TypeInv, TypeOK, StepInv, Minted, File, Contents, FaultKinds, Commands, EndPhases, StepPhases
  <2>2. Minted'
    BY DEF TypeInv, TypeOK, Minted, StepInv, File, Contents
  <2>3. ASSUME NEW q \in Procs PROVE StepInv(q)'
    BY <2>0 DEF TypeInv, TypeOK, StepInv, EndPhases, StepPhases
  <2> QED
    BY <2>1, <2>2, <2>3 DEF TypeInv
<1>7. ASSUME NEW p \in Procs, SaveMkdir(p) PROVE TypeInv'
  <2> USE <1>7 DEF SaveMkdir, EmptyDir
  <2>1. TypeOK'
    BY DEF TypeInv, TypeOK, StepInv, Minted, File, Contents, FaultKinds, Commands, EndPhases, StepPhases
  <2>2. Minted'
    BY DEF TypeInv, TypeOK, Minted, StepInv, File, Contents
  <2>3. ASSUME NEW q \in Procs PROVE StepInv(q)'
    BY DEF TypeInv, TypeOK, StepInv, EndPhases, StepPhases
  <2> QED
    BY <2>1, <2>2, <2>3 DEF TypeInv
<1>8. ASSUME NEW p \in Procs, SaveTruncate(p) PROVE TypeInv'
  BY <1>8 DEF SaveTruncate, TypeInv, TypeOK, Minted, StepInv, File, Contents, FaultKinds, Commands,
         EndPhases, StepPhases
<1>9. ASSUME NEW p \in Procs, SaveWrite(p) PROVE TypeInv'
  <2> USE <1>9 DEF SaveWrite
  <2>0. consent' \in BOOLEAN
    BY DEF TypeInv, TypeOK
  <2>1. TypeOK'
    BY <2>0 DEF TypeInv, TypeOK, StepInv, Minted, File, Contents, FaultKinds, Commands, EndPhases, StepPhases
  <2>2. Minted'
    BY DEF TypeInv, TypeOK, Minted, StepInv, File, Contents
  <2>3. ASSUME NEW q \in Procs PROVE StepInv(q)'
    BY DEF TypeInv, TypeOK, StepInv, EndPhases, StepPhases, Contents, File
  <2> QED
    BY <2>1, <2>2, <2>3 DEF TypeInv
<1>10. ASSUME NEW p \in Procs, SaveFails(p) PROVE TypeInv'
  <2> USE <1>10 DEF SaveFails
  <2>0. consent' \in BOOLEAN
    BY DEF TypeInv, TypeOK
  <2>1. TypeOK'
    BY <2>0 DEF TypeInv, TypeOK, StepInv, Minted, File, Contents, FaultKinds, Commands, EndPhases, StepPhases
  <2>2. Minted'
    BY DEF TypeInv, TypeOK, Minted, StepInv, File, Contents
  <2>3. ASSUME NEW q \in Procs PROVE StepInv(q)'
    BY DEF TypeInv, TypeOK, StepInv, EndPhases, StepPhases, Contents, File
  <2> QED
    BY <2>1, <2>2, <2>3 DEF TypeInv
<1>11. ASSUME NEW p \in Procs, EnsureProxy(p) PROVE TypeInv'
  BY <1>11 DEF EnsureProxy, TypeInv, TypeOK, Minted, StepInv, File, Contents, FaultKinds, Commands,
         EndPhases, StepPhases
<1>12. ASSUME NEW p \in Procs, CAStat(p) PROVE TypeInv'
  BY <1>12 DEF CAStat, TypeInv, TypeOK, Minted, StepInv, File, Contents, FaultKinds, Commands,
         EndPhases, StepPhases
<1>13. ASSUME NEW p \in Procs, LoadCert(p) PROVE TypeInv'
  <2> USE <1>13 DEF LoadCert, CertExists
  <2>1. TypeOK'
    BY DEF TypeInv, TypeOK, StepInv, Minted, File, Contents, FaultKinds, Commands, EndPhases, StepPhases
  <2>2. Minted'
    BY DEF TypeInv, TypeOK, Minted, StepInv, File, Contents
  <2>3. ASSUME NEW q \in Procs PROVE StepInv(q)'
    BY DEF TypeInv, TypeOK, StepInv, EndPhases, StepPhases
  <2> QED
    BY <2>1, <2>2, <2>3 DEF TypeInv
<1>14. ASSUME NEW p \in Procs, LoadKey(p) PROVE TypeInv'
  <2> USE <1>14 DEF LoadKey, KeyLoads
  <2>1. TypeOK'
    BY DEF TypeInv, TypeOK, StepInv, Minted, File, Contents, FaultKinds, Commands, EndPhases, StepPhases
  <2>2. Minted'
    BY DEF TypeInv, TypeOK, Minted, StepInv, File, Contents
  <2>3. ASSUME NEW q \in Procs PROVE StepInv(q)'
    BY DEF TypeInv, TypeOK, StepInv, EndPhases, StepPhases
  <2> QED
    BY <2>1, <2>2, <2>3 DEF TypeInv
<1>15. ASSUME NEW p \in Procs, NEW c \in CAs, GenerateCA(p, c) PROVE TypeInv'
  BY <1>15 DEF GenerateCA, TypeInv, TypeOK, Minted, StepInv, File, Contents, FaultKinds, Commands,
         EndPhases, StepPhases
<1>16. ASSUME NEW p \in Procs, NoDirectory(p) PROVE TypeInv'
  BY <1>16 DEF NoDirectory, TypeInv, TypeOK, Minted, StepInv, File, Contents, FaultKinds, Commands,
         EndPhases, StepPhases
<1>17. ASSUME NEW p \in Procs, WriteCert(p) PROVE TypeInv'
  <2> USE <1>17 DEF WriteCert
  <2>0. dir' \in Contents
    BY DEF TypeInv, TypeOK, StepInv, Contents, File
  <2>1. TypeOK'
    BY <2>0 DEF TypeInv, TypeOK, EndPhases, StepPhases
  <2>2. Minted'
    BY DEF TypeInv, TypeOK, Minted, StepInv, File, Contents
  <2>3. ASSUME NEW q \in Procs PROVE StepInv(q)'
    BY DEF TypeInv, TypeOK, StepInv, EndPhases, StepPhases, Contents, File
  <2> QED
    BY <2>1, <2>2, <2>3 DEF TypeInv
<1>18. ASSUME NEW p \in Procs, WriteKey(p) PROVE TypeInv'
  BY <1>18 DEF WriteKey, TypeInv, TypeOK, Minted, StepInv, File, Contents, FaultKinds, Commands,
         EndPhases, StepPhases
<1>19. ASSUME NEW p \in Procs, GenerateFails(p) PROVE TypeInv'
  BY <1>19 DEF GenerateFails, TypeInv, TypeOK, Minted, StepInv, File, Contents, FaultKinds, Commands,
         EndPhases, StepPhases
<1>20. ASSUME NEW p \in Procs, Pair(p) PROVE TypeInv'
  BY <1>20 DEF Pair, TypeInv, TypeOK, Minted, StepInv, File, Contents, FaultKinds, Commands,
         EndPhases, StepPhases
<1>21. ASSUME NEW p \in Procs, Listen(p) PROVE TypeInv'
  BY <1>21 DEF Listen, TypeInv, TypeOK, Minted, StepInv, File, Contents, FaultKinds, Commands,
         EndPhases, StepPhases
<1>22. ASSUME NEW p \in Procs, StartTelemetry(p) PROVE TypeInv'
  BY <1>22 DEF StartTelemetry, TypeInv, TypeOK, Minted, StepInv, File, Contents, FaultKinds, Commands,
         EndPhases, StepPhases
<1>23. ASSUME NEW p \in Procs, EnableStat(p) PROVE TypeInv'
  BY <1>23 DEF EnableStat, TypeInv, TypeOK, Minted, StepInv, File, Contents, FaultKinds, Commands,
         EndPhases, StepPhases
<1>24. ASSUME NEW p \in Procs, EnableTrust(p) PROVE TypeInv'
  BY <1>24 DEF EnableTrust, TypeInv, TypeOK, Minted, StepInv, File, Contents, FaultKinds, Commands,
         EndPhases, StepPhases
<1>25. ASSUME NEW p \in Procs, Install(p) PROVE TypeInv'
  <2> USE <1>25 DEF Install, Installable, CertExists, CommonName
  <2>1. TypeOK'
    BY DEF TypeInv, TypeOK, StepInv, Minted, File, Contents, FaultKinds, Commands, EndPhases, StepPhases
  <2>2. Minted'
    BY DEF TypeInv, TypeOK, Minted, StepInv, File, Contents
  <2>3. ASSUME NEW q \in Procs PROVE StepInv(q)'
    BY DEF TypeInv, TypeOK, StepInv, EndPhases, StepPhases
  <2> QED
    BY <2>1, <2>2, <2>3 DEF TypeInv
<1>26. ASSUME NEW p \in Procs, InstallNothing(p) PROVE TypeInv'
  BY <1>26 DEF InstallNothing, TypeInv, TypeOK, Minted, StepInv, File, Contents, FaultKinds, Commands,
         EndPhases, StepPhases
<1>27. ASSUME NEW p \in Procs, UpdateCertificates(p) PROVE TypeInv'
  BY <1>27 DEF UpdateCertificates, TypeInv, TypeOK, Minted, StepInv, File, Contents, FaultKinds, Commands,
         EndPhases, StepPhases
<1>28. ASSUME NEW p \in Procs, TrustFails(p) PROVE TypeInv'
  BY <1>28 DEF TrustFails, TypeInv, TypeOK, Minted, StepInv, File, Contents, FaultKinds, Commands,
         EndPhases, StepPhases
<1>29. ASSUME NEW p \in Procs, Spawn(p) PROVE TypeInv'
  BY <1>29 DEF Spawn, TypeInv, TypeOK, Minted, StepInv, File, Contents, FaultKinds, Commands,
         EndPhases, StepPhases
<1>30. ASSUME NEW p \in Procs, StopDaemon(p) PROVE TypeInv'
  BY <1>30 DEF StopDaemon, DaemonServes, TypeInv, TypeOK, Minted, StepInv, File, Contents, FaultKinds, Commands,
         EndPhases, StepPhases
<1>31. ASSUME NEW p \in Procs, Remove(p) PROVE TypeInv'
  <2> USE <1>31 DEF Remove, Left
  <2>1. TypeOK'
    BY DEF TypeInv, TypeOK, StepInv, Minted, File, Contents, FaultKinds, Commands, EndPhases, StepPhases
  <2>2. Minted'
    BY DEF TypeInv, TypeOK, Minted, StepInv, File, Contents
  <2>3. ASSUME NEW q \in Procs PROVE StepInv(q)'
    BY DEF TypeInv, TypeOK, StepInv, EndPhases, StepPhases
  <2> QED
    BY <2>1, <2>2, <2>3 DEF TypeInv
<1>32. ASSUME NEW p \in Procs, Stop(p) PROVE TypeInv'
  BY <1>32 DEF Stop, TypeInv, TypeOK, Minted, StepInv, File, Contents, FaultKinds, Commands,
         EndPhases, StepPhases
<1>33. ASSUME NEW p \in Procs, Killed(p) PROVE TypeInv'
  BY <1>33 DEF Killed, TypeInv, TypeOK, Minted, StepInv, File, Contents, FaultKinds, Commands,
         EndPhases, StepPhases
<1>34. ASSUME Wipe PROVE TypeInv'
  BY <1>34 DEF Wipe, DaemonServes, Quiet, AtRest, TypeInv, TypeOK, Minted, StepInv, File, Contents, FaultKinds, Commands,
         EndPhases, StepPhases
<1>35. CASE UNCHANGED vars
  BY <1>35 DEF vars, TypeInv, TypeOK, Minted, StepInv, File, Contents, FaultKinds, Commands,
         EndPhases, StepPhases
<1> QED
  BY <1>1, <1>2, <1>3, <1>4, <1>5, <1>6, <1>7, <1>8, <1>9, <1>10, <1>11,
     <1>12, <1>13, <1>14, <1>15, <1>16, <1>17, <1>18, <1>19, <1>20, <1>21,
     <1>22, <1>23, <1>24, <1>25, <1>26, <1>27, <1>28, <1>29, <1>30, <1>31,
     <1>32, <1>33, <1>34, <1>35 DEF Next, ConfigStep, ProxyStep, TrustStep

\* A machine without Redactr and one with an installation are of these types.
LEMMA TypesInit == Init => TypeInv
<1> SUFFICES ASSUME Init
             PROVE  TypeInv
  OBVIOUS
<1> USE Distinct
<1>1. minted \subseteq CAs /\ trusted \subseteq minted /\ consent \in BOOLEAN
  BY DEF Init
<1>2. copied \in minted \cup {Absent}
  BY <1>1 DEF Init
<1>3. \A c \in CAs, on \in BOOLEAN : Installation(c, on) \in Contents /\ Installation(c, on).cert = c
  BY DEF Installation, Contents, File, Config
<1>4. dir \in Contents \cup {Absent} /\ legacy \in Contents \cup {Absent}
  BY <1>3 DEF Init
<1>5. Minted
  BY <1>2, <1>3 DEF Init, Minted, File
<1>6. TypeOK
  BY <1>1, <1>2, <1>4 DEF Init, TypeOK, File, FaultKinds, Commands, EndPhases
<1>7. \A p \in Procs : StepInv(p)
  BY DEF Init, StepInv
<1> QED
  BY <1>5, <1>6, <1>7 DEF TypeInv

\* No step uses memory or a directory that is not there.
THEOREM TypesHold == Spec => []TypeInv
<1>1. TypeInv /\ UNCHANGED vars => TypeInv'
  BY TypesInductive
<1> QED
  BY TypesInit, TypesInductive, PTL DEF Spec

\* Every variable holds values of the kind the code gives it.
THEOREM TypeCorrect == Spec => []TypeOK
<1>1. TypeInv => TypeOK
  BY DEF TypeInv
<1> QED
  BY <1>1, TypesHold, PTL

-----------------------------------------------------------------------------
(* The move of the old directory                                           *)

\* Until the old directory is moved there is no new one, and no command has
\* come further than to the move.
Migrated ==
  "rename" \notin seen /\ legacy # Absent =>
    /\ dir = Absent
    /\ \A p \in Procs : pc[p] \in EndPhases \cup {"stat_new", "stat_old", "rename"}

\* No interleaving of the migrations of several commands breaks this.
THEOREM MigratedInductive == TypeInv /\ Migrated /\ [Next]_vars => Migrated'
<1> SUFFICES ASSUME TypeInv, Migrated, [Next]_vars
             PROVE  Migrated'
  OBVIOUS
<1> USE Distinct DEF TypeInv, TypeOK
<1> USE DEF First, Goto, End, Note, Answer, AfterSave, IsTelemetry, files,
            store, locals, history, Migrated, EndPhases
<1>1. ASSUME NEW p \in Procs, NEW c \in Commands, Begin(p, c) PROVE Migrated'
  BY <1>1 DEF Begin, Quiet, AtRest
<1>2. ASSUME NEW p \in Procs, MigrateStatNew(p) PROVE Migrated'
  BY <1>2 DEF MigrateStatNew
<1>3. ASSUME NEW p \in Procs, MigrateStatOld(p) PROVE Migrated'
  BY <1>3 DEF MigrateStatOld
<1>4. ASSUME NEW p \in Procs, MigrateRename(p) PROVE Migrated'
  BY <1>4 DEF MigrateRename, Renames
<1>5. ASSUME NEW p \in Procs, RenameFails(p) PROVE Migrated'
  BY <1>5 DEF RenameFails
<1>6. ASSUME NEW p \in Procs, LoadConfig(p) PROVE Migrated'
  BY <1>6 DEF LoadConfig
<1>7. ASSUME NEW p \in Procs, SaveMkdir(p) PROVE Migrated'
  BY <1>7 DEF SaveMkdir
<1>8. ASSUME NEW p \in Procs, SaveTruncate(p) PROVE Migrated'
  BY <1>8 DEF SaveTruncate
<1>9. ASSUME NEW p \in Procs, SaveWrite(p) PROVE Migrated'
  BY <1>9 DEF SaveWrite
<1>10. ASSUME NEW p \in Procs, SaveFails(p) PROVE Migrated'
  BY <1>10 DEF SaveFails
<1>11. ASSUME NEW p \in Procs, EnsureProxy(p) PROVE Migrated'
  BY <1>11 DEF EnsureProxy
<1>12. ASSUME NEW p \in Procs, CAStat(p) PROVE Migrated'
  BY <1>12 DEF CAStat
<1>13. ASSUME NEW p \in Procs, LoadCert(p) PROVE Migrated'
  BY <1>13 DEF LoadCert
<1>14. ASSUME NEW p \in Procs, LoadKey(p) PROVE Migrated'
  BY <1>14 DEF LoadKey
<1>15. ASSUME NEW p \in Procs, NEW c \in CAs, GenerateCA(p, c) PROVE Migrated'
  BY <1>15 DEF GenerateCA
<1>16. ASSUME NEW p \in Procs, NoDirectory(p) PROVE Migrated'
  BY <1>16 DEF NoDirectory
<1>17. ASSUME NEW p \in Procs, WriteCert(p) PROVE Migrated'
  BY <1>17 DEF WriteCert
<1>18. ASSUME NEW p \in Procs, WriteKey(p) PROVE Migrated'
  BY <1>18 DEF WriteKey
<1>19. ASSUME NEW p \in Procs, GenerateFails(p) PROVE Migrated'
  BY <1>19 DEF GenerateFails
<1>20. ASSUME NEW p \in Procs, Pair(p) PROVE Migrated'
  BY <1>20 DEF Pair
<1>21. ASSUME NEW p \in Procs, Listen(p) PROVE Migrated'
  BY <1>21 DEF Listen
<1>22. ASSUME NEW p \in Procs, StartTelemetry(p) PROVE Migrated'
  BY <1>22 DEF StartTelemetry
<1>23. ASSUME NEW p \in Procs, EnableStat(p) PROVE Migrated'
  BY <1>23 DEF EnableStat
<1>24. ASSUME NEW p \in Procs, EnableTrust(p) PROVE Migrated'
  BY <1>24 DEF EnableTrust
<1>25. ASSUME NEW p \in Procs, Install(p) PROVE Migrated'
  BY <1>25 DEF Install
<1>26. ASSUME NEW p \in Procs, InstallNothing(p) PROVE Migrated'
  BY <1>26 DEF InstallNothing
<1>27. ASSUME NEW p \in Procs, UpdateCertificates(p) PROVE Migrated'
  BY <1>27 DEF UpdateCertificates
<1>28. ASSUME NEW p \in Procs, TrustFails(p) PROVE Migrated'
  BY <1>28 DEF TrustFails
<1>29. ASSUME NEW p \in Procs, Spawn(p) PROVE Migrated'
  BY <1>29 DEF Spawn
<1>30. ASSUME NEW p \in Procs, StopDaemon(p) PROVE Migrated'
  BY <1>30 DEF StopDaemon, DaemonServes
<1>31. ASSUME NEW p \in Procs, Remove(p) PROVE Migrated'
  BY <1>31 DEF Remove
<1>32. ASSUME NEW p \in Procs, Stop(p) PROVE Migrated'
  BY <1>32 DEF Stop
<1>33. ASSUME NEW p \in Procs, Killed(p) PROVE Migrated'
  BY <1>33 DEF Killed
<1>34. ASSUME Wipe PROVE Migrated'
  BY <1>34 DEF Wipe, DaemonServes
<1>35. CASE UNCHANGED vars
  BY <1>35 DEF vars
<1> QED
  BY <1>1, <1>2, <1>3, <1>4, <1>5, <1>6, <1>7, <1>8, <1>9, <1>10, <1>11,
     <1>12, <1>13, <1>14, <1>15, <1>16, <1>17, <1>18, <1>19, <1>20, <1>21,
     <1>22, <1>23, <1>24, <1>25, <1>26, <1>27, <1>28, <1>29, <1>30, <1>31,
     <1>32, <1>33, <1>34, <1>35 DEF Next, ConfigStep, ProxyStep, TrustStep

\* Settings of an older version are never left behind, however many commands
\* migrate at the same time, unless the system refuses to move them.
THEOREM AlwaysNothingLeftBehind == Spec => []NothingLeftBehind
<1>1. Init => Migrated
  BY DEF Init, Migrated, EndPhases
<1>2. Migrated => NothingLeftBehind
  BY DEF Migrated, NothingLeftBehind
<1> QED
  BY <1>1, <1>2, MigratedInductive, TypesHold, PTL DEF Spec

-----------------------------------------------------------------------------
(* Without overlapping commands                                            *)

\* One command is under way.
OneAtATime ==
  Free({"overlap"}) => \A p, q \in Procs : p # q => AtRest(p) \/ AtRest(q)

\* A second command is only begun by overlapping; a daemon continues its command.
THEOREM OneInductive == TypeInv /\ OneAtATime /\ [Next]_vars => OneAtATime'
<1> SUFFICES ASSUME TypeInv, OneAtATime, [Next]_vars
             PROVE  OneAtATime'
  OBVIOUS
<1> USE DEF TypeInv, TypeOK
<1> USE DEF First, Goto, End, Note, Answer, AfterSave, IsTelemetry, files,
            store, locals, history, OneAtATime, Free, AtRest, EndPhases,
            StepPhases
<1>1. ASSUME NEW p \in Procs, NEW c \in Commands, Begin(p, c) PROVE OneAtATime'
  BY <1>1 DEF Begin, Quiet
<1>2. ASSUME NEW p \in Procs, MigrateStatNew(p) PROVE OneAtATime'
  BY <1>2 DEF MigrateStatNew
<1>3. ASSUME NEW p \in Procs, MigrateStatOld(p) PROVE OneAtATime'
  BY <1>3 DEF MigrateStatOld
<1>4. ASSUME NEW p \in Procs, MigrateRename(p) PROVE OneAtATime'
  BY <1>4 DEF MigrateRename
<1>5. ASSUME NEW p \in Procs, RenameFails(p) PROVE OneAtATime'
  BY <1>5 DEF RenameFails
<1>6. ASSUME NEW p \in Procs, LoadConfig(p) PROVE OneAtATime'
  BY <1>6 DEF LoadConfig
<1>7. ASSUME NEW p \in Procs, SaveMkdir(p) PROVE OneAtATime'
  BY <1>7 DEF SaveMkdir
<1>8. ASSUME NEW p \in Procs, SaveTruncate(p) PROVE OneAtATime'
  BY <1>8 DEF SaveTruncate
<1>9. ASSUME NEW p \in Procs, SaveWrite(p) PROVE OneAtATime'
  BY <1>9 DEF SaveWrite
<1>10. ASSUME NEW p \in Procs, SaveFails(p) PROVE OneAtATime'
  BY <1>10 DEF SaveFails
<1>11. ASSUME NEW p \in Procs, EnsureProxy(p) PROVE OneAtATime'
  BY <1>11 DEF EnsureProxy
<1>12. ASSUME NEW p \in Procs, CAStat(p) PROVE OneAtATime'
  BY <1>12 DEF CAStat
<1>13. ASSUME NEW p \in Procs, LoadCert(p) PROVE OneAtATime'
  BY <1>13 DEF LoadCert
<1>14. ASSUME NEW p \in Procs, LoadKey(p) PROVE OneAtATime'
  BY <1>14 DEF LoadKey
<1>15. ASSUME NEW p \in Procs, NEW c \in CAs, GenerateCA(p, c) PROVE OneAtATime'
  BY <1>15 DEF GenerateCA
<1>16. ASSUME NEW p \in Procs, NoDirectory(p) PROVE OneAtATime'
  BY <1>16 DEF NoDirectory
<1>17. ASSUME NEW p \in Procs, WriteCert(p) PROVE OneAtATime'
  BY <1>17 DEF WriteCert
<1>18. ASSUME NEW p \in Procs, WriteKey(p) PROVE OneAtATime'
  BY <1>18 DEF WriteKey
<1>19. ASSUME NEW p \in Procs, GenerateFails(p) PROVE OneAtATime'
  BY <1>19 DEF GenerateFails
<1>20. ASSUME NEW p \in Procs, Pair(p) PROVE OneAtATime'
  BY <1>20 DEF Pair
<1>21. ASSUME NEW p \in Procs, Listen(p) PROVE OneAtATime'
  BY <1>21 DEF Listen
<1>22. ASSUME NEW p \in Procs, StartTelemetry(p) PROVE OneAtATime'
  BY <1>22 DEF StartTelemetry
<1>23. ASSUME NEW p \in Procs, EnableStat(p) PROVE OneAtATime'
  BY <1>23 DEF EnableStat
<1>24. ASSUME NEW p \in Procs, EnableTrust(p) PROVE OneAtATime'
  BY <1>24 DEF EnableTrust
<1>25. ASSUME NEW p \in Procs, Install(p) PROVE OneAtATime'
  BY <1>25 DEF Install
<1>26. ASSUME NEW p \in Procs, InstallNothing(p) PROVE OneAtATime'
  BY <1>26 DEF InstallNothing
<1>27. ASSUME NEW p \in Procs, UpdateCertificates(p) PROVE OneAtATime'
  BY <1>27 DEF UpdateCertificates
<1>28. ASSUME NEW p \in Procs, TrustFails(p) PROVE OneAtATime'
  BY <1>28 DEF TrustFails
<1>29. ASSUME NEW p \in Procs, Spawn(p) PROVE OneAtATime'
  BY <1>29 DEF Spawn
<1>30. ASSUME NEW p \in Procs, StopDaemon(p) PROVE OneAtATime'
  BY <1>30 DEF StopDaemon, DaemonServes, Serving
<1>31. ASSUME NEW p \in Procs, Remove(p) PROVE OneAtATime'
  BY <1>31 DEF Remove
<1>32. ASSUME NEW p \in Procs, Stop(p) PROVE OneAtATime'
  BY <1>32 DEF Stop, Serving
<1>33. ASSUME NEW p \in Procs, Killed(p) PROVE OneAtATime'
  BY <1>33 DEF Killed
<1>34. ASSUME Wipe PROVE OneAtATime'
  BY <1>34 DEF Wipe, DaemonServes, Quiet
<1>35. CASE UNCHANGED vars
  BY <1>35 DEF vars
<1> QED
  BY <1>1, <1>2, <1>3, <1>4, <1>5, <1>6, <1>7, <1>8, <1>9, <1>10, <1>11,
     <1>12, <1>13, <1>14, <1>15, <1>16, <1>17, <1>18, <1>19, <1>20, <1>21,
     <1>22, <1>23, <1>24, <1>25, <1>26, <1>27, <1>28, <1>29, <1>30, <1>31,
     <1>32, <1>33, <1>34, <1>35 DEF Next, ConfigStep, ProxyStep, TrustStep

\* Without overlapping commands, one is under way at most.
LEMMA AlwaysOneAtATime == Spec => []OneAtATime
<1>1. Init => OneAtATime
  BY DEF Init, OneAtATime, AtRest, EndPhases
<1> QED
  BY <1>1, OneInductive, TypesHold, PTL DEF Spec

-----------------------------------------------------------------------------
(* The CA that a proxy signs with                                          *)

\* From where a process reads or writes the CA, what it has in memory is what
\* is on disk; nobody generates a CA while a proxy listens.
SignStep(p) ==
  /\ pc[p] = "ca_key" => dir # Absent /\ dir.cert = cert[p] /\ cert[p] \in CAs
  /\ pc[p] \in {"pair", "listen", "consent", "serving", "stray"} =>
       dir # Absent /\ dir.cert = cert[p] /\ dir.key = key[p] /\ cert[p] \in CAs
  /\ pc[p] = "gen_key_write" => dir.cert = cert[p]
  /\ pc[p] \in {"gen_cert", "gen_key", "gen_key_write"} => \A q \in Procs : ~Listening(q)

SignInv == Free({"overlap", "wipe"}) => \A p \in Procs : SignStep(p)

\* Every step keeps memory and disk together.
THEOREM SignInductive == TypeInv /\ OneAtATime /\ SignInv /\ [Next]_vars => SignInv'
<1> SUFFICES ASSUME TypeInv, OneAtATime, SignInv, [Next]_vars,
                    Free({"overlap", "wipe"})',
                    NEW z \in Procs
             PROVE  SignStep(z)'
  BY DEF SignInv
<1> USE Distinct DEF TypeInv, TypeOK
<1> USE DEF First, Goto, End, Note, Answer, AfterSave, IsTelemetry, files,
            store, locals, history, OneAtATime, SignInv, SignStep,
            Listening, Free, AtRest, EndPhases, StepPhases, StepInv
<1>1. ASSUME NEW p \in Procs, NEW c \in Commands, Begin(p, c) PROVE SignStep(z)'
  BY <1>1 DEF Begin, Quiet
<1>2. ASSUME NEW p \in Procs, MigrateStatNew(p) PROVE SignStep(z)'
  BY <1>2 DEF MigrateStatNew, Commands
<1>3. ASSUME NEW p \in Procs, MigrateStatOld(p) PROVE SignStep(z)'
  BY <1>3 DEF MigrateStatOld, Commands
<1>4. ASSUME NEW p \in Procs, MigrateRename(p) PROVE SignStep(z)'
  BY <1>4 DEF MigrateRename, Renames, EmptyDir, Commands
<1>5. ASSUME NEW p \in Procs, RenameFails(p) PROVE SignStep(z)'
  BY <1>5 DEF RenameFails, Commands
<1>6. ASSUME NEW p \in Procs, LoadConfig(p) PROVE SignStep(z)'
  BY <1>6 DEF LoadConfig
<1>7. ASSUME NEW p \in Procs, SaveMkdir(p) PROVE SignStep(z)'
  BY <1>7 DEF SaveMkdir
<1>8. ASSUME NEW p \in Procs, SaveTruncate(p) PROVE SignStep(z)'
  BY <1>8 DEF SaveTruncate, Contents, File
<1>9. ASSUME NEW p \in Procs, SaveWrite(p) PROVE SignStep(z)'
  BY <1>9 DEF SaveWrite, Contents, File
<1>10. ASSUME NEW p \in Procs, SaveFails(p) PROVE SignStep(z)'
  BY <1>10 DEF SaveFails
<1>11. ASSUME NEW p \in Procs, EnsureProxy(p) PROVE SignStep(z)'
  BY <1>11 DEF EnsureProxy
<1>12. ASSUME NEW p \in Procs, CAStat(p) PROVE SignStep(z)'
  BY <1>12 DEF CAStat, CAExists, CertExists
<1>13. ASSUME NEW p \in Procs, LoadCert(p) PROVE SignStep(z)'
  BY <1>13 DEF LoadCert, CertExists, Contents, File
<1>14. ASSUME NEW p \in Procs, LoadKey(p) PROVE SignStep(z)'
  BY <1>14 DEF LoadKey, KeyLoads, Contents, File
<1>15. ASSUME NEW p \in Procs, NEW c \in CAs, GenerateCA(p, c) PROVE SignStep(z)'
  BY <1>15 DEF GenerateCA, Contents, File
<1>16. ASSUME NEW p \in Procs, NoDirectory(p) PROVE SignStep(z)'
  BY <1>16 DEF NoDirectory
<1>17. ASSUME NEW p \in Procs, WriteCert(p) PROVE SignStep(z)'
  BY <1>17 DEF WriteCert, Contents, File
<1>18. ASSUME NEW p \in Procs, WriteKey(p) PROVE SignStep(z)'
  BY <1>18 DEF WriteKey, Contents, File
<1>19. ASSUME NEW p \in Procs, GenerateFails(p) PROVE SignStep(z)'
  BY <1>19 DEF GenerateFails
<1>20. ASSUME NEW p \in Procs, Pair(p) PROVE SignStep(z)'
  BY <1>20 DEF Pair
<1>21. ASSUME NEW p \in Procs, Listen(p) PROVE SignStep(z)'
  BY <1>21 DEF Listen
<1>22. ASSUME NEW p \in Procs, StartTelemetry(p) PROVE SignStep(z)'
  BY <1>22 DEF StartTelemetry
<1>23. ASSUME NEW p \in Procs, EnableStat(p) PROVE SignStep(z)'
  BY <1>23 DEF EnableStat, CertExists
<1>24. ASSUME NEW p \in Procs, EnableTrust(p) PROVE SignStep(z)'
  BY <1>24 DEF EnableTrust
<1>25. ASSUME NEW p \in Procs, Install(p) PROVE SignStep(z)'
  BY <1>25 DEF Install
<1>26. ASSUME NEW p \in Procs, InstallNothing(p) PROVE SignStep(z)'
  BY <1>26 DEF InstallNothing
<1>27. ASSUME NEW p \in Procs, UpdateCertificates(p) PROVE SignStep(z)'
  BY <1>27 DEF UpdateCertificates
<1>28. ASSUME NEW p \in Procs, TrustFails(p) PROVE SignStep(z)'
  BY <1>28 DEF TrustFails
<1>29. ASSUME NEW p \in Procs, Spawn(p) PROVE SignStep(z)'
  BY <1>29 DEF Spawn
<1>30. ASSUME NEW p \in Procs, StopDaemon(p) PROVE SignStep(z)'
  BY <1>30 DEF StopDaemon, DaemonServes, Serving
<1>31. ASSUME NEW p \in Procs, Remove(p) PROVE SignStep(z)'
  BY <1>31 DEF Remove
<1>32. ASSUME NEW p \in Procs, Stop(p) PROVE SignStep(z)'
  BY <1>32 DEF Stop, Serving
<1>33. ASSUME NEW p \in Procs, Killed(p) PROVE SignStep(z)'
  BY <1>33 DEF Killed
<1>34. ASSUME Wipe PROVE SignStep(z)'
  BY <1>34 DEF Wipe, DaemonServes, Quiet
<1>35. CASE UNCHANGED vars
  BY <1>35 DEF vars
<1> QED
  BY <1>1, <1>2, <1>3, <1>4, <1>5, <1>6, <1>7, <1>8, <1>9, <1>10, <1>11,
     <1>12, <1>13, <1>14, <1>15, <1>16, <1>17, <1>18, <1>19, <1>20, <1>21,
     <1>22, <1>23, <1>24, <1>25, <1>26, <1>27, <1>28, <1>29, <1>30, <1>31,
     <1>32, <1>33, <1>34, <1>35 DEF Next, ConfigStep, ProxyStep, TrustStep

\* The CA that a proxy signs with is the one on disk.
THEOREM AlwaysSignsWithDisk == Spec => []SignsWithDisk
<1>1. Init => SignInv
  BY DEF Init, SignInv, SignStep, Free
<1>2. SignInv => SignsWithDisk
  BY DEF SignInv, SignStep, SignsWithDisk, Serving
<1> QED
  BY <1>1, <1>2, SignInductive, AlwaysOneAtATime, TypesHold, PTL DEF Spec

-----------------------------------------------------------------------------
(* Loading the CA                                                          *)

\* A directory holds no CA, or the certificate and the key of one.
Whole(d) ==
  d # Absent => \/ d.cert = Absent /\ d.key = Absent
                \/ d.cert \in CAs /\ d.key = d.cert

\* The steps that load or write a CA find what they need.
LoadStep(p) ==
  /\ pc[p] = "ca_cert" => dir # Absent /\ dir.cert \in CAs
  /\ pc[p] = "ca_key" => dir # Absent /\ dir.cert = cert[p] /\ cert[p] \in CAs
  /\ pc[p] \in {"gen_key", "gen_key_write", "pair"} => cert[p] = key[p]
  /\ pc[p] = "gen_key_write" => dir.cert = cert[p]
  /\ pc[p] # "ca_error"

LoadGood ==
  /\ Whole(legacy)
  /\ (\A p \in Procs : pc[p] \notin {"gen_key", "gen_key_write"}) => Whole(dir)
  /\ \A p \in Procs : LoadStep(p)

LoadInv == Free({"overlap", "crash", "disk"}) => LoadGood

\* Every step leaves a directory that the next command can load a CA from.
THEOREM LoadInductive == TypeInv /\ OneAtATime /\ LoadInv /\ [Next]_vars => LoadInv'
<1> SUFFICES ASSUME TypeInv, OneAtATime, LoadInv, [Next]_vars,
                    Free({"overlap", "crash", "disk"})'
             PROVE  LoadGood'
  BY DEF LoadInv
<1> USE Distinct DEF TypeInv, TypeOK
<1> USE DEF First, Goto, End, Note, Answer, AfterSave, IsTelemetry, files,
            store, locals, history, OneAtATime, LoadInv, LoadGood, LoadStep,
            Whole, Free, AtRest, EndPhases, StepPhases, StepInv
<1>1. ASSUME NEW p \in Procs, NEW c \in Commands, Begin(p, c) PROVE LoadGood'
  BY <1>1 DEF Begin, Quiet
<1>2. ASSUME NEW p \in Procs, MigrateStatNew(p) PROVE LoadGood'
  BY <1>2 DEF MigrateStatNew, Commands
<1>3. ASSUME NEW p \in Procs, MigrateStatOld(p) PROVE LoadGood'
  BY <1>3 DEF MigrateStatOld, Commands
<1>4. ASSUME NEW p \in Procs, MigrateRename(p) PROVE LoadGood'
  BY <1>4 DEF MigrateRename, Renames, EmptyDir, Commands
<1>5. ASSUME NEW p \in Procs, RenameFails(p) PROVE LoadGood'
  BY <1>5 DEF RenameFails, Commands
<1>6. ASSUME NEW p \in Procs, LoadConfig(p) PROVE LoadGood'
  BY <1>6 DEF LoadConfig
<1>7. ASSUME NEW p \in Procs, SaveMkdir(p) PROVE LoadGood'
  BY <1>7 DEF SaveMkdir, EmptyDir
<1>8. ASSUME NEW p \in Procs, SaveTruncate(p) PROVE LoadGood'
  BY <1>8 DEF SaveTruncate, Contents, File
<1>9. ASSUME NEW p \in Procs, SaveWrite(p) PROVE LoadGood'
  BY <1>9 DEF SaveWrite, Contents, File
<1>10. ASSUME NEW p \in Procs, SaveFails(p) PROVE LoadGood'
  BY <1>10 DEF SaveFails
<1>11. ASSUME NEW p \in Procs, EnsureProxy(p) PROVE LoadGood'
  BY <1>11 DEF EnsureProxy
<1>12. ASSUME NEW p \in Procs, CAStat(p) PROVE LoadGood'
  BY <1>12 DEF CAStat, CAExists, CertExists
<1>13. ASSUME NEW p \in Procs, LoadCert(p) PROVE LoadGood'
  BY <1>13 DEF LoadCert, CertExists, Contents, File
<1>14. ASSUME NEW p \in Procs, LoadKey(p) PROVE LoadGood'
  BY <1>14 DEF LoadKey, KeyLoads, Contents, File
<1>15. ASSUME NEW p \in Procs, NEW c \in CAs, GenerateCA(p, c) PROVE LoadGood'
  BY <1>15 DEF GenerateCA, Contents, File
<1>16. ASSUME NEW p \in Procs, NoDirectory(p) PROVE LoadGood'
  BY <1>16 DEF NoDirectory
<1>17. ASSUME NEW p \in Procs, WriteCert(p) PROVE LoadGood'
  BY <1>17 DEF WriteCert, Contents, File
<1>18. ASSUME NEW p \in Procs, WriteKey(p) PROVE LoadGood'
  BY <1>18 DEF WriteKey, Contents, File
<1>19. ASSUME NEW p \in Procs, GenerateFails(p) PROVE LoadGood'
  BY <1>19 DEF GenerateFails
<1>20. ASSUME NEW p \in Procs, Pair(p) PROVE LoadGood'
  BY <1>20 DEF Pair
<1>21. ASSUME NEW p \in Procs, Listen(p) PROVE LoadGood'
  BY <1>21 DEF Listen
<1>22. ASSUME NEW p \in Procs, StartTelemetry(p) PROVE LoadGood'
  BY <1>22 DEF StartTelemetry
<1>23. ASSUME NEW p \in Procs, EnableStat(p) PROVE LoadGood'
  BY <1>23 DEF EnableStat, CertExists
<1>24. ASSUME NEW p \in Procs, EnableTrust(p) PROVE LoadGood'
  BY <1>24 DEF EnableTrust
<1>25. ASSUME NEW p \in Procs, Install(p) PROVE LoadGood'
  BY <1>25 DEF Install
<1>26. ASSUME NEW p \in Procs, InstallNothing(p) PROVE LoadGood'
  BY <1>26 DEF InstallNothing
<1>27. ASSUME NEW p \in Procs, UpdateCertificates(p) PROVE LoadGood'
  BY <1>27 DEF UpdateCertificates
<1>28. ASSUME NEW p \in Procs, TrustFails(p) PROVE LoadGood'
  BY <1>28 DEF TrustFails
<1>29. ASSUME NEW p \in Procs, Spawn(p) PROVE LoadGood'
  BY <1>29 DEF Spawn
<1>30. ASSUME NEW p \in Procs, StopDaemon(p) PROVE LoadGood'
  BY <1>30 DEF StopDaemon, DaemonServes, Serving
<1>31. ASSUME NEW p \in Procs, Remove(p) PROVE LoadGood'
  BY <1>31 DEF Remove
<1>32. ASSUME NEW p \in Procs, Stop(p) PROVE LoadGood'
  BY <1>32 DEF Stop, Serving
<1>33. ASSUME NEW p \in Procs, Killed(p) PROVE LoadGood'
  BY <1>33 DEF Killed
<1>34. ASSUME Wipe PROVE LoadGood'
  BY <1>34 DEF Wipe, DaemonServes, Quiet
<1>35. CASE UNCHANGED vars
  BY <1>35 DEF vars
<1> QED
  BY <1>1, <1>2, <1>3, <1>4, <1>5, <1>6, <1>7, <1>8, <1>9, <1>10, <1>11,
     <1>12, <1>13, <1>14, <1>15, <1>16, <1>17, <1>18, <1>19, <1>20, <1>21,
     <1>22, <1>23, <1>24, <1>25, <1>26, <1>27, <1>28, <1>29, <1>30, <1>31,
     <1>32, <1>33, <1>34, <1>35 DEF Next, ConfigStep, ProxyStep, TrustStep

\* Unless commands overlap, one is killed or a write fails, no command ends
\* with a CA error.
THEOREM AlwaysCALoads == Spec => []CALoads
<1>1. Init => LoadInv
  BY Distinct DEF Init, LoadInv, LoadGood, LoadStep, Whole, Installation
<1>2. LoadInv => CALoads
  BY DEF LoadInv, LoadGood, LoadStep, CALoads
<1> QED
  BY <1>1, <1>2, LoadInductive, AlwaysOneAtATime, TypesHold, PTL DEF Spec

-----------------------------------------------------------------------------
(* Consent                                                                 *)

\* What an old directory holds is complete.
OldConf == legacy # Absent => legacy.conf \in Config

\* A command moves the old directory to a place where nothing is.
MoveInv == Free({"overlap"}) => \A p \in Procs : pc[p] \in {"stat_old", "rename"} => dir = Absent

\* What an old directory holds stays complete.
THEOREM OldConfInductive == TypeInv /\ OldConf /\ [Next]_vars => OldConf'
<1> SUFFICES ASSUME TypeInv, OldConf, [Next]_vars
             PROVE  OldConf'
  OBVIOUS
<1> USE Distinct DEF TypeInv, TypeOK, First, Goto, End, Note, Answer, AfterSave, IsTelemetry,
     files, store, locals, history, Free, AtRest, EndPhases, StepPhases, OldConf
<1>1. ASSUME NEW p \in Procs, NEW c \in Commands, Begin(p, c) PROVE OldConf'
  BY <1>1 DEF Begin
<1>2. ASSUME NEW p \in Procs, MigrateStatNew(p) PROVE OldConf'
  BY <1>2 DEF MigrateStatNew
<1>3. ASSUME NEW p \in Procs, MigrateStatOld(p) PROVE OldConf'
  BY <1>3 DEF MigrateStatOld
<1>4. ASSUME NEW p \in Procs, MigrateRename(p) PROVE OldConf'
  BY <1>4 DEF MigrateRename, Renames
<1>5. ASSUME NEW p \in Procs, RenameFails(p) PROVE OldConf'
  BY <1>5 DEF RenameFails
<1>6. ASSUME NEW p \in Procs, LoadConfig(p) PROVE OldConf'
  BY <1>6 DEF LoadConfig
<1>7. ASSUME NEW p \in Procs, SaveMkdir(p) PROVE OldConf'
  BY <1>7 DEF SaveMkdir
<1>8. ASSUME NEW p \in Procs, SaveTruncate(p) PROVE OldConf'
  BY <1>8 DEF SaveTruncate
<1>9. ASSUME NEW p \in Procs, SaveWrite(p) PROVE OldConf'
  BY <1>9 DEF SaveWrite
<1>10. ASSUME NEW p \in Procs, SaveFails(p) PROVE OldConf'
  BY <1>10 DEF SaveFails
<1>11. ASSUME NEW p \in Procs, EnsureProxy(p) PROVE OldConf'
  BY <1>11 DEF EnsureProxy
<1>12. ASSUME NEW p \in Procs, CAStat(p) PROVE OldConf'
  BY <1>12 DEF CAStat
<1>13. ASSUME NEW p \in Procs, LoadCert(p) PROVE OldConf'
  BY <1>13 DEF LoadCert
<1>14. ASSUME NEW p \in Procs, LoadKey(p) PROVE OldConf'
  BY <1>14 DEF LoadKey
<1>15. ASSUME NEW p \in Procs, NEW c \in CAs, GenerateCA(p, c) PROVE OldConf'
  BY <1>15 DEF GenerateCA
<1>16. ASSUME NEW p \in Procs, NoDirectory(p) PROVE OldConf'
  BY <1>16 DEF NoDirectory
<1>17. ASSUME NEW p \in Procs, WriteCert(p) PROVE OldConf'
  BY <1>17 DEF WriteCert
<1>18. ASSUME NEW p \in Procs, WriteKey(p) PROVE OldConf'
  BY <1>18 DEF WriteKey
<1>19. ASSUME NEW p \in Procs, GenerateFails(p) PROVE OldConf'
  BY <1>19 DEF GenerateFails
<1>20. ASSUME NEW p \in Procs, Pair(p) PROVE OldConf'
  BY <1>20 DEF Pair
<1>21. ASSUME NEW p \in Procs, Listen(p) PROVE OldConf'
  BY <1>21 DEF Listen
<1>22. ASSUME NEW p \in Procs, StartTelemetry(p) PROVE OldConf'
  BY <1>22 DEF StartTelemetry
<1>23. ASSUME NEW p \in Procs, EnableStat(p) PROVE OldConf'
  BY <1>23 DEF EnableStat
<1>24. ASSUME NEW p \in Procs, EnableTrust(p) PROVE OldConf'
  BY <1>24 DEF EnableTrust
<1>25. ASSUME NEW p \in Procs, Install(p) PROVE OldConf'
  BY <1>25 DEF Install
<1>26. ASSUME NEW p \in Procs, InstallNothing(p) PROVE OldConf'
  BY <1>26 DEF InstallNothing
<1>27. ASSUME NEW p \in Procs, UpdateCertificates(p) PROVE OldConf'
  BY <1>27 DEF UpdateCertificates
<1>28. ASSUME NEW p \in Procs, TrustFails(p) PROVE OldConf'
  BY <1>28 DEF TrustFails
<1>29. ASSUME NEW p \in Procs, Spawn(p) PROVE OldConf'
  BY <1>29 DEF Spawn
<1>30. ASSUME NEW p \in Procs, StopDaemon(p) PROVE OldConf'
  BY <1>30 DEF StopDaemon, DaemonServes
<1>31. ASSUME NEW p \in Procs, Remove(p) PROVE OldConf'
  BY <1>31 DEF Remove
<1>32. ASSUME NEW p \in Procs, Stop(p) PROVE OldConf'
  BY <1>32 DEF Stop
<1>33. ASSUME NEW p \in Procs, Killed(p) PROVE OldConf'
  BY <1>33 DEF Killed
<1>34. ASSUME Wipe PROVE OldConf'
  BY <1>34 DEF Wipe, DaemonServes
<1>35. CASE UNCHANGED vars
  BY <1>35 DEF vars
<1> QED
  BY <1>1, <1>2, <1>3, <1>4, <1>5, <1>6, <1>7, <1>8, <1>9, <1>10, <1>11, <1>12, <1>13,
     <1>14, <1>15, <1>16, <1>17, <1>18, <1>19, <1>20, <1>21, <1>22, <1>23, <1>24, <1>25,
     <1>26, <1>27, <1>28, <1>29, <1>30, <1>31, <1>32, <1>33, <1>34, <1>35 DEF Next,
     ConfigStep, ProxyStep, TrustStep

\* The place is still empty when the move begins, unless commands overlap.
THEOREM MoveInductive == TypeInv /\ OneAtATime /\ MoveInv /\ [Next]_vars => MoveInv'
<1> SUFFICES ASSUME TypeInv, OneAtATime, MoveInv, [Next]_vars, Free({"overlap"})',
                    NEW z \in Procs, pc'[z] \in {"stat_old", "rename"}
             PROVE  dir' = Absent
  BY DEF MoveInv
<1> USE Distinct DEF TypeInv, TypeOK, First, Goto, End, Note, Answer, AfterSave, IsTelemetry,
     files, store, locals, history, Free, AtRest, EndPhases, StepPhases, OneAtATime, MoveInv
<1>1. ASSUME NEW p \in Procs, NEW c \in Commands, Begin(p, c) PROVE dir' = Absent
  BY <1>1 DEF Begin, Quiet
<1>2. ASSUME NEW p \in Procs, MigrateStatNew(p) PROVE dir' = Absent
  BY <1>2 DEF MigrateStatNew, Commands
<1>3. ASSUME NEW p \in Procs, MigrateStatOld(p) PROVE dir' = Absent
  BY <1>3 DEF MigrateStatOld, Commands
<1>4. ASSUME NEW p \in Procs, MigrateRename(p) PROVE dir' = Absent
  BY <1>4 DEF MigrateRename, Commands
<1>5. ASSUME NEW p \in Procs, RenameFails(p) PROVE dir' = Absent
  BY <1>5 DEF RenameFails, Commands
<1>6. ASSUME NEW p \in Procs, LoadConfig(p) PROVE dir' = Absent
  BY <1>6 DEF LoadConfig
<1>7. ASSUME NEW p \in Procs, SaveMkdir(p) PROVE dir' = Absent
  BY <1>7 DEF SaveMkdir
<1>8. ASSUME NEW p \in Procs, SaveTruncate(p) PROVE dir' = Absent
  BY <1>8 DEF SaveTruncate
<1>9. ASSUME NEW p \in Procs, SaveWrite(p) PROVE dir' = Absent
  BY <1>9 DEF SaveWrite
<1>10. ASSUME NEW p \in Procs, SaveFails(p) PROVE dir' = Absent
  BY <1>10 DEF SaveFails
<1>11. ASSUME NEW p \in Procs, EnsureProxy(p) PROVE dir' = Absent
  BY <1>11 DEF EnsureProxy
<1>12. ASSUME NEW p \in Procs, CAStat(p) PROVE dir' = Absent
  BY <1>12 DEF CAStat
<1>13. ASSUME NEW p \in Procs, LoadCert(p) PROVE dir' = Absent
  BY <1>13 DEF LoadCert
<1>14. ASSUME NEW p \in Procs, LoadKey(p) PROVE dir' = Absent
  BY <1>14 DEF LoadKey
<1>15. ASSUME NEW p \in Procs, NEW c \in CAs, GenerateCA(p, c) PROVE dir' = Absent
  BY <1>15 DEF GenerateCA
<1>16. ASSUME NEW p \in Procs, NoDirectory(p) PROVE dir' = Absent
  BY <1>16 DEF NoDirectory
<1>17. ASSUME NEW p \in Procs, WriteCert(p) PROVE dir' = Absent
  BY <1>17 DEF WriteCert
<1>18. ASSUME NEW p \in Procs, WriteKey(p) PROVE dir' = Absent
  BY <1>18 DEF WriteKey
<1>19. ASSUME NEW p \in Procs, GenerateFails(p) PROVE dir' = Absent
  BY <1>19 DEF GenerateFails
<1>20. ASSUME NEW p \in Procs, Pair(p) PROVE dir' = Absent
  BY <1>20 DEF Pair
<1>21. ASSUME NEW p \in Procs, Listen(p) PROVE dir' = Absent
  BY <1>21 DEF Listen
<1>22. ASSUME NEW p \in Procs, StartTelemetry(p) PROVE dir' = Absent
  BY <1>22 DEF StartTelemetry
<1>23. ASSUME NEW p \in Procs, EnableStat(p) PROVE dir' = Absent
  BY <1>23 DEF EnableStat
<1>24. ASSUME NEW p \in Procs, EnableTrust(p) PROVE dir' = Absent
  BY <1>24 DEF EnableTrust
<1>25. ASSUME NEW p \in Procs, Install(p) PROVE dir' = Absent
  BY <1>25 DEF Install
<1>26. ASSUME NEW p \in Procs, InstallNothing(p) PROVE dir' = Absent
  BY <1>26 DEF InstallNothing
<1>27. ASSUME NEW p \in Procs, UpdateCertificates(p) PROVE dir' = Absent
  BY <1>27 DEF UpdateCertificates
<1>28. ASSUME NEW p \in Procs, TrustFails(p) PROVE dir' = Absent
  BY <1>28 DEF TrustFails
<1>29. ASSUME NEW p \in Procs, Spawn(p) PROVE dir' = Absent
  BY <1>29 DEF Spawn, Commands
<1>30. ASSUME NEW p \in Procs, StopDaemon(p) PROVE dir' = Absent
  BY <1>30 DEF StopDaemon, DaemonServes, Serving
<1>31. ASSUME NEW p \in Procs, Remove(p) PROVE dir' = Absent
  BY <1>31 DEF Remove
<1>32. ASSUME NEW p \in Procs, Stop(p) PROVE dir' = Absent
  BY <1>32 DEF Stop, Serving
<1>33. ASSUME NEW p \in Procs, Killed(p) PROVE dir' = Absent
  BY <1>33 DEF Killed
<1>34. ASSUME Wipe PROVE dir' = Absent
  BY <1>34 DEF Wipe, DaemonServes, Quiet
<1>35. CASE UNCHANGED vars
  BY <1>35 DEF vars
<1> QED
  BY <1>1, <1>2, <1>3, <1>4, <1>5, <1>6, <1>7, <1>8, <1>9, <1>10, <1>11, <1>12, <1>13,
     <1>14, <1>15, <1>16, <1>17, <1>18, <1>19, <1>20, <1>21, <1>22, <1>23, <1>24, <1>25,
     <1>26, <1>27, <1>28, <1>29, <1>30, <1>31, <1>32, <1>33, <1>34, <1>35 DEF Next,
     ConfigStep, ProxyStep, TrustStep

\* What a command is about to store.
Saving(p) == pc[p] \in {"mkdir", "truncate", "write"}

\* Telemetry is stored only with consent, and so is what a start is about to save.
RefusalGood ==
  /\ Stored => consent
  /\ \A p \in Procs :
       /\ Saving(p) /\ ~IsTelemetry(p) /\ conf[p].telemetry => consent
       /\ Saving(p) /\ IsTelemetry(p) => conf[p].telemetry = (cmd[p] = "on")

RefusalInv == Free({"overlap", "disk"}) /\ ~({"rename", "wipe"} \subseteq seen) => RefusalGood

\* A consent is stored, but for the moment in which the file is truncated.
AnswerGood ==
  /\ consent /\ (\A p \in Procs : pc[p] # "write") => Stored
  /\ consent => \A p \in Procs : Saving(p) /\ ~IsTelemetry(p) => conf[p].telemetry

AnswerInv == Free({"overlap", "disk", "rename", "crash"}) => AnswerGood

\* Only what saves or sends has a configuration in memory; a refusal is under way
\* only while nothing sends.
SendStep(p) ==
  /\ conf[p] # Absent => Saving(p) \/ Serving(p)
  /\ cmd[p] = "off" => /\ pc[p] \in {"stat_new", "stat_old", "rename", "load"} \/ Saving(p)
                       /\ \A q \in Procs : ~Sends(q)
  /\ cmd[p] = "daemon" => conf[p] = Absent /\ pc[p] \notin {"load", "consent"} /\ ~Saving(p)
  /\ Sends(p) => consent

SendInv == Free({"overlap", "disk", "wipe", "late"}) => \A p \in Procs : SendStep(p)

\* What the arguments below rest on.
Serial == TypeInv /\ Migrated /\ OneAtATime /\ OldConf /\ MoveInv

\* A configuration that was written is what is stored.
LEMMA WrittenIsStored ==
  ASSUME TypeInv, NEW p \in Procs, SaveWrite(p)
  PROVE  /\ Stored' = conf[p].telemetry
         /\ conf[p] \in Config /\ Saving(p)
<1>1. dir # Absent /\ conf[p] \in Config /\ dir \in Contents
  BY DEF SaveWrite, TypeInv, TypeOK, StepInv
<1>2. dir' = [dir EXCEPT !.conf = conf[p]]
  BY DEF SaveWrite
<1>3. dir' \in Contents /\ dir'.conf = conf[p]
  BY <1>1, <1>2 DEF Contents, File
<1>4. dir' # Absent
  BY <1>3, Distinct
<1> QED BY <1>1, <1>3, <1>4, Zenon DEF Stored, Loaded, Saving, SaveWrite

\* No step stores a telemetry flag that the user has not agreed to.
THEOREM RefusalInductive == Serial /\ RefusalInv /\ [Next]_vars => RefusalInv'
<1> SUFFICES ASSUME Serial, RefusalInv, [Next]_vars,
                    Free({"overlap", "disk"})', ~({"rename", "wipe"} \subseteq seen)'
             PROVE  RefusalGood'
  BY DEF RefusalInv
<1> USE Distinct DEF TypeInv, TypeOK, First, Goto, End, Note, Answer, AfterSave, IsTelemetry,
     files, store, locals, history, Free, AtRest, EndPhases, StepPhases, Serial, OneAtATime,
     MoveInv, OldConf, RefusalInv, RefusalGood, Saving, Stored, Loaded, Config, Contents,
     File, StepInv
<1>1. ASSUME NEW p \in Procs, NEW c \in Commands, Begin(p, c) PROVE RefusalGood'
  BY <1>1 DEF Begin, Quiet
<1>2. ASSUME NEW p \in Procs, MigrateStatNew(p) PROVE RefusalGood'
  BY <1>2 DEF MigrateStatNew, Commands
<1>3. ASSUME NEW p \in Procs, MigrateStatOld(p) PROVE RefusalGood'
  BY <1>3 DEF MigrateStatOld, Commands
<1>4. ASSUME NEW p \in Procs, MigrateRename(p) PROVE RefusalGood'
  BY <1>4 DEF MigrateRename, Renames, Commands, EmptyDir
<1>5. ASSUME NEW p \in Procs, RenameFails(p) PROVE RefusalGood'
  BY <1>5 DEF RenameFails, Commands
<1>6. ASSUME NEW p \in Procs, LoadConfig(p) PROVE RefusalGood'
  BY <1>6 DEF LoadConfig
<1>7. ASSUME NEW p \in Procs, SaveMkdir(p) PROVE RefusalGood'
  BY <1>7 DEF SaveMkdir, EmptyDir
<1>8. ASSUME NEW p \in Procs, SaveTruncate(p) PROVE RefusalGood'
  BY <1>8 DEF SaveTruncate
<1>9. ASSUME NEW p \in Procs, SaveWrite(p) PROVE RefusalGood'
  <2>1. Stored' = conf[p].telemetry /\ conf[p] \in Config
    BY <1>9, WrittenIsStored
  <2>2. \A q \in Procs : ~Saving(q)'
    BY <1>9 DEF SaveWrite
  <2>3. conf[p].telemetry => consent'
    BY <1>9 DEF SaveWrite
  <2> QED BY <2>1, <2>2, <2>3
<1>10. ASSUME NEW p \in Procs, SaveFails(p) PROVE RefusalGood'
  BY <1>10 DEF SaveFails
<1>11. ASSUME NEW p \in Procs, EnsureProxy(p) PROVE RefusalGood'
  BY <1>11 DEF EnsureProxy
<1>12. ASSUME NEW p \in Procs, CAStat(p) PROVE RefusalGood'
  BY <1>12 DEF CAStat
<1>13. ASSUME NEW p \in Procs, LoadCert(p) PROVE RefusalGood'
  BY <1>13 DEF LoadCert
<1>14. ASSUME NEW p \in Procs, LoadKey(p) PROVE RefusalGood'
  BY <1>14 DEF LoadKey
<1>15. ASSUME NEW p \in Procs, NEW c \in CAs, GenerateCA(p, c) PROVE RefusalGood'
  BY <1>15 DEF GenerateCA
<1>16. ASSUME NEW p \in Procs, NoDirectory(p) PROVE RefusalGood'
  BY <1>16 DEF NoDirectory
<1>17. ASSUME NEW p \in Procs, WriteCert(p) PROVE RefusalGood'
  <2>1. dir # Absent /\ dir \in Contents
    BY <1>17 DEF WriteCert
  <2>2. dir' \in Contents /\ dir'.conf = dir.conf
    BY <1>17, <2>1 DEF WriteCert
  <2>3. dir' # Absent
    BY <2>2
  <2>4. Stored' = Stored
    BY <2>1, <2>2, <2>3
  <2> QED BY <1>17, <2>4, Zenon DEF WriteCert
<1>18. ASSUME NEW p \in Procs, WriteKey(p) PROVE RefusalGood'
  BY <1>18 DEF WriteKey
<1>19. ASSUME NEW p \in Procs, GenerateFails(p) PROVE RefusalGood'
  BY <1>19 DEF GenerateFails
<1>20. ASSUME NEW p \in Procs, Pair(p) PROVE RefusalGood'
  BY <1>20 DEF Pair
<1>21. ASSUME NEW p \in Procs, Listen(p) PROVE RefusalGood'
  BY <1>21 DEF Listen
<1>22. ASSUME NEW p \in Procs, StartTelemetry(p) PROVE RefusalGood'
  BY <1>22 DEF StartTelemetry
<1>23. ASSUME NEW p \in Procs, EnableStat(p) PROVE RefusalGood'
  BY <1>23 DEF EnableStat
<1>24. ASSUME NEW p \in Procs, EnableTrust(p) PROVE RefusalGood'
  BY <1>24 DEF EnableTrust
<1>25. ASSUME NEW p \in Procs, Install(p) PROVE RefusalGood'
  BY <1>25 DEF Install
<1>26. ASSUME NEW p \in Procs, InstallNothing(p) PROVE RefusalGood'
  BY <1>26 DEF InstallNothing
<1>27. ASSUME NEW p \in Procs, UpdateCertificates(p) PROVE RefusalGood'
  BY <1>27 DEF UpdateCertificates
<1>28. ASSUME NEW p \in Procs, TrustFails(p) PROVE RefusalGood'
  BY <1>28 DEF TrustFails
<1>29. ASSUME NEW p \in Procs, Spawn(p) PROVE RefusalGood'
  BY <1>29 DEF Spawn
<1>30. ASSUME NEW p \in Procs, StopDaemon(p) PROVE RefusalGood'
  BY <1>30 DEF StopDaemon, DaemonServes, Serving
<1>31. ASSUME NEW p \in Procs, Remove(p) PROVE RefusalGood'
  BY <1>31 DEF Remove
<1>32. ASSUME NEW p \in Procs, Stop(p) PROVE RefusalGood'
  BY <1>32 DEF Stop, Serving
<1>33. ASSUME NEW p \in Procs, Killed(p) PROVE RefusalGood'
  BY <1>33 DEF Killed
<1>34. ASSUME Wipe PROVE RefusalGood'
  BY <1>34 DEF Wipe, DaemonServes, Quiet, Migrated
<1>35. CASE UNCHANGED vars
  BY <1>35 DEF vars
<1> QED
  BY <1>1, <1>2, <1>3, <1>4, <1>5, <1>6, <1>7, <1>8, <1>9, <1>10, <1>11, <1>12, <1>13,
     <1>14, <1>15, <1>16, <1>17, <1>18, <1>19, <1>20, <1>21, <1>22, <1>23, <1>24, <1>25,
     <1>26, <1>27, <1>28, <1>29, <1>30, <1>31, <1>32, <1>33, <1>34, <1>35 DEF Next,
     ConfigStep, ProxyStep, TrustStep

\* No step loses a consent, unless it is killed halfway.
THEOREM AnswerInductive == Serial /\ RefusalInv /\ AnswerInv /\ [Next]_vars => AnswerInv'
<1> SUFFICES ASSUME Serial, RefusalInv, AnswerInv, [Next]_vars,
                    Free({"overlap", "disk", "rename", "crash"})'
             PROVE  AnswerGood'
  BY DEF AnswerInv
<1> USE Distinct DEF TypeInv, TypeOK, First, Goto, End, Note, Answer, AfterSave, IsTelemetry,
     files, store, locals, history, Free, AtRest, EndPhases, StepPhases, Serial, OneAtATime,
     MoveInv, OldConf, AnswerInv, AnswerGood, Saving, Stored, Loaded, Config, Contents,
     File, StepInv
<1>1. ASSUME NEW p \in Procs, NEW c \in Commands, Begin(p, c) PROVE AnswerGood'
  BY <1>1 DEF Begin, Quiet
<1>2. ASSUME NEW p \in Procs, MigrateStatNew(p) PROVE AnswerGood'
  BY <1>2 DEF MigrateStatNew, Commands
<1>3. ASSUME NEW p \in Procs, MigrateStatOld(p) PROVE AnswerGood'
  BY <1>3 DEF MigrateStatOld, Commands
<1>4. ASSUME NEW p \in Procs, MigrateRename(p) PROVE AnswerGood'
  BY <1>4 DEF MigrateRename, Renames, Commands, EmptyDir, Migrated
<1>5. ASSUME NEW p \in Procs, RenameFails(p) PROVE AnswerGood'
  BY <1>5 DEF RenameFails, Commands
<1>6. ASSUME NEW p \in Procs, LoadConfig(p) PROVE AnswerGood'
  <2>1. legacy = Absent /\ \A q \in Procs : pc[q] # "write"
    BY <1>6, Zenon DEF LoadConfig, Migrated
  <2>2. consent => Loaded.telemetry /\ Stored
    BY <1>6, <2>1 DEF LoadConfig
  <2>3. Stored' = Stored /\ consent' = consent
    BY <1>6 DEF LoadConfig
  <2>4. ASSUME NEW q \in Procs, Saving(q)', ~IsTelemetry(q)'  PROVE q = p /\ conf'[p] = [Loaded EXCEPT !.firstRun = TRUE]
    <3>1. q = p
      BY <1>6, <2>4 DEF LoadConfig
    <3>2. ~IsTelemetry(p) /\ ~Loaded.firstRun
      BY <1>6, <2>4, <3>1 DEF LoadConfig
    <3>3. conf' = [conf EXCEPT ![p] = [Loaded EXCEPT !.firstRun = TRUE]]
      BY <1>6, <3>2 DEF LoadConfig
    <3> QED BY <3>1, <3>3
  <2> QED BY <2>2, <2>3, <2>4, LoadedConfig, Zenon DEF Config
<1>7. ASSUME NEW p \in Procs, SaveMkdir(p) PROVE AnswerGood'
  BY <1>7, Zenon DEF SaveMkdir, EmptyDir, Migrated
<1>8. ASSUME NEW p \in Procs, SaveTruncate(p) PROVE AnswerGood'
  BY <1>8 DEF SaveTruncate
<1>9. ASSUME NEW p \in Procs, SaveWrite(p) PROVE AnswerGood'
  <2>1. Stored' = conf[p].telemetry /\ conf[p] \in Config /\ Saving(p)
    BY <1>9, WrittenIsStored
  <2>2. \A q \in Procs : ~Saving(q)'
    BY <1>9 DEF SaveWrite
  <2>3. ASSUME consent' PROVE conf[p].telemetry
    <3>1. CASE IsTelemetry(p)
      <4>1. RefusalGood
        BY <1>9 DEF SaveWrite, RefusalInv
      <4>2. conf[p].telemetry = (cmd[p] = "on")
        BY <2>1, <3>1, <4>1 DEF RefusalGood
      <4> QED BY <1>9, <2>3, <3>1, <4>2 DEF SaveWrite
    <3>2. CASE ~IsTelemetry(p)
      <4>1. AnswerGood /\ consent
        BY <1>9, <2>3, <3>2 DEF SaveWrite
      <4> QED BY <2>1, <3>2, <4>1
    <3> QED BY <3>1, <3>2
  <2> QED BY <2>1, <2>2, <2>3
<1>10. ASSUME NEW p \in Procs, SaveFails(p) PROVE AnswerGood'
  BY <1>10 DEF SaveFails
<1>11. ASSUME NEW p \in Procs, EnsureProxy(p) PROVE AnswerGood'
  BY <1>11 DEF EnsureProxy
<1>12. ASSUME NEW p \in Procs, CAStat(p) PROVE AnswerGood'
  BY <1>12 DEF CAStat
<1>13. ASSUME NEW p \in Procs, LoadCert(p) PROVE AnswerGood'
  BY <1>13 DEF LoadCert
<1>14. ASSUME NEW p \in Procs, LoadKey(p) PROVE AnswerGood'
  BY <1>14 DEF LoadKey
<1>15. ASSUME NEW p \in Procs, NEW c \in CAs, GenerateCA(p, c) PROVE AnswerGood'
  BY <1>15 DEF GenerateCA
<1>16. ASSUME NEW p \in Procs, NoDirectory(p) PROVE AnswerGood'
  BY <1>16 DEF NoDirectory
<1>17. ASSUME NEW p \in Procs, WriteCert(p) PROVE AnswerGood'
  <2>1. dir # Absent /\ dir \in Contents
    BY <1>17 DEF WriteCert
  <2>2. dir' \in Contents /\ dir'.conf = dir.conf
    BY <1>17, <2>1 DEF WriteCert
  <2>3. dir' # Absent
    BY <2>2
  <2>4. Stored' = Stored
    BY <2>1, <2>2, <2>3
  <2> QED BY <1>17, <2>4, Zenon DEF WriteCert
<1>18. ASSUME NEW p \in Procs, WriteKey(p) PROVE AnswerGood'
  BY <1>18 DEF WriteKey
<1>19. ASSUME NEW p \in Procs, GenerateFails(p) PROVE AnswerGood'
  BY <1>19 DEF GenerateFails
<1>20. ASSUME NEW p \in Procs, Pair(p) PROVE AnswerGood'
  BY <1>20 DEF Pair
<1>21. ASSUME NEW p \in Procs, Listen(p) PROVE AnswerGood'
  BY <1>21 DEF Listen
<1>22. ASSUME NEW p \in Procs, StartTelemetry(p) PROVE AnswerGood'
  BY <1>22 DEF StartTelemetry
<1>23. ASSUME NEW p \in Procs, EnableStat(p) PROVE AnswerGood'
  BY <1>23 DEF EnableStat
<1>24. ASSUME NEW p \in Procs, EnableTrust(p) PROVE AnswerGood'
  BY <1>24 DEF EnableTrust
<1>25. ASSUME NEW p \in Procs, Install(p) PROVE AnswerGood'
  BY <1>25 DEF Install
<1>26. ASSUME NEW p \in Procs, InstallNothing(p) PROVE AnswerGood'
  BY <1>26 DEF InstallNothing
<1>27. ASSUME NEW p \in Procs, UpdateCertificates(p) PROVE AnswerGood'
  BY <1>27 DEF UpdateCertificates
<1>28. ASSUME NEW p \in Procs, TrustFails(p) PROVE AnswerGood'
  BY <1>28 DEF TrustFails
<1>29. ASSUME NEW p \in Procs, Spawn(p) PROVE AnswerGood'
  BY <1>29 DEF Spawn
<1>30. ASSUME NEW p \in Procs, StopDaemon(p) PROVE AnswerGood'
  BY <1>30 DEF StopDaemon, DaemonServes, Serving
<1>31. ASSUME NEW p \in Procs, Remove(p) PROVE AnswerGood'
  BY <1>31 DEF Remove
<1>32. ASSUME NEW p \in Procs, Stop(p) PROVE AnswerGood'
  BY <1>32 DEF Stop, Serving
<1>33. ASSUME NEW p \in Procs, Killed(p) PROVE AnswerGood'
  BY <1>33 DEF Killed
<1>34. ASSUME Wipe PROVE AnswerGood'
  BY <1>34 DEF Wipe, DaemonServes, Quiet, Migrated
<1>35. CASE UNCHANGED vars
  BY <1>35 DEF vars
<1> QED
  BY <1>1, <1>2, <1>3, <1>4, <1>5, <1>6, <1>7, <1>8, <1>9, <1>10, <1>11, <1>12, <1>13,
     <1>14, <1>15, <1>16, <1>17, <1>18, <1>19, <1>20, <1>21, <1>22, <1>23, <1>24, <1>25,
     <1>26, <1>27, <1>28, <1>29, <1>30, <1>31, <1>32, <1>33, <1>34, <1>35 DEF Next,
     ConfigStep, ProxyStep, TrustStep

\* No step sends without consent, unless it was sending before.
THEOREM SendInductive == Serial /\ RefusalInv /\ SendInv /\ [Next]_vars => SendInv'
<1> SUFFICES ASSUME Serial, RefusalInv, SendInv, [Next]_vars,
                    Free({"overlap", "disk", "wipe", "late"})',
                    NEW z \in Procs
             PROVE  SendStep(z)'
  BY DEF SendInv
<1> USE Distinct DEF TypeInv, TypeOK, First, Goto, End, Note, Answer, AfterSave, IsTelemetry,
     files, store, locals, history, Free, AtRest, EndPhases, StepPhases, Serial, OneAtATime,
     SendInv, SendStep, Saving, Sends, Serving
<1>1. ASSUME NEW p \in Procs, NEW c \in Commands, Begin(p, c) PROVE SendStep(z)'
  BY <1>1 DEF Begin, Quiet, Commands
<1>2. ASSUME NEW p \in Procs, MigrateStatNew(p) PROVE SendStep(z)'
  BY <1>2 DEF MigrateStatNew, Commands
<1>3. ASSUME NEW p \in Procs, MigrateStatOld(p) PROVE SendStep(z)'
  BY <1>3 DEF MigrateStatOld, Commands
<1>4. ASSUME NEW p \in Procs, MigrateRename(p) PROVE SendStep(z)'
  BY <1>4 DEF MigrateRename, Renames, Commands, EmptyDir
<1>5. ASSUME NEW p \in Procs, RenameFails(p) PROVE SendStep(z)'
  BY <1>5 DEF RenameFails, Commands
<1>6. ASSUME NEW p \in Procs, LoadConfig(p) PROVE SendStep(z)'
  BY <1>6 DEF LoadConfig
<1>7. ASSUME NEW p \in Procs, SaveMkdir(p) PROVE SendStep(z)'
  BY <1>7 DEF SaveMkdir, EmptyDir
<1>8. ASSUME NEW p \in Procs, SaveTruncate(p) PROVE SendStep(z)'
  BY <1>8 DEF SaveTruncate
<1>9. ASSUME NEW p \in Procs, SaveWrite(p) PROVE SendStep(z)'
  BY <1>9 DEF SaveWrite
<1>10. ASSUME NEW p \in Procs, SaveFails(p) PROVE SendStep(z)'
  BY <1>10 DEF SaveFails
<1>11. ASSUME NEW p \in Procs, EnsureProxy(p) PROVE SendStep(z)'
  BY <1>11 DEF EnsureProxy
<1>12. ASSUME NEW p \in Procs, CAStat(p) PROVE SendStep(z)'
  BY <1>12 DEF CAStat
<1>13. ASSUME NEW p \in Procs, LoadCert(p) PROVE SendStep(z)'
  BY <1>13 DEF LoadCert
<1>14. ASSUME NEW p \in Procs, LoadKey(p) PROVE SendStep(z)'
  BY <1>14 DEF LoadKey
<1>15. ASSUME NEW p \in Procs, NEW c \in CAs, GenerateCA(p, c) PROVE SendStep(z)'
  BY <1>15 DEF GenerateCA
<1>16. ASSUME NEW p \in Procs, NoDirectory(p) PROVE SendStep(z)'
  BY <1>16 DEF NoDirectory
<1>17. ASSUME NEW p \in Procs, WriteCert(p) PROVE SendStep(z)'
  BY <1>17 DEF WriteCert
<1>18. ASSUME NEW p \in Procs, WriteKey(p) PROVE SendStep(z)'
  BY <1>18 DEF WriteKey
<1>19. ASSUME NEW p \in Procs, GenerateFails(p) PROVE SendStep(z)'
  BY <1>19 DEF GenerateFails
<1>20. ASSUME NEW p \in Procs, Pair(p) PROVE SendStep(z)'
  BY <1>20 DEF Pair
<1>21. ASSUME NEW p \in Procs, Listen(p) PROVE SendStep(z)'
  BY <1>21 DEF Listen
<1>22. ASSUME NEW p \in Procs, StartTelemetry(p) PROVE SendStep(z)'
  <2>1. Loaded.telemetry => consent
    <3>1. RefusalGood
      BY <1>22 DEF StartTelemetry, RefusalInv
    <3>2. Loaded.telemetry => Stored
      BY DEF Loaded, Stored
    <3> QED BY <3>1, <3>2 DEF RefusalGood
  <2>2. \A q \in Procs : q # p => AtRest(q)
    BY <1>22 DEF StartTelemetry
  <2>3. \A q \in Procs : cmd[q] # "off"
    BY <1>22, <2>2 DEF StartTelemetry
  <2>4. conf'[p] # Absent => Loaded.telemetry
    BY <1>22 DEF StartTelemetry
  <2> QED BY <1>22, <2>1, <2>3, <2>4 DEF StartTelemetry
<1>23. ASSUME NEW p \in Procs, EnableStat(p) PROVE SendStep(z)'
  BY <1>23 DEF EnableStat
<1>24. ASSUME NEW p \in Procs, EnableTrust(p) PROVE SendStep(z)'
  BY <1>24 DEF EnableTrust
<1>25. ASSUME NEW p \in Procs, Install(p) PROVE SendStep(z)'
  BY <1>25 DEF Install
<1>26. ASSUME NEW p \in Procs, InstallNothing(p) PROVE SendStep(z)'
  BY <1>26 DEF InstallNothing
<1>27. ASSUME NEW p \in Procs, UpdateCertificates(p) PROVE SendStep(z)'
  BY <1>27 DEF UpdateCertificates
<1>28. ASSUME NEW p \in Procs, TrustFails(p) PROVE SendStep(z)'
  BY <1>28 DEF TrustFails
<1>29. ASSUME NEW p \in Procs, Spawn(p) PROVE SendStep(z)'
  BY <1>29 DEF Spawn
<1>30. ASSUME NEW p \in Procs, StopDaemon(p) PROVE SendStep(z)'
  <2>1. \A q \in Procs :
          \/ pc'[q] = "idle" /\ cmd'[q] = "start" /\ conf'[q] = Absent
          \/ /\ cmd'[q] = cmd[q] /\ conf'[q] = conf[q]
             /\ \/ pc'[q] = pc[q]
                \/ q = p /\ pc'[q] = "remove"
                \/ pc[q] = "serving" /\ pc'[q] = "stray"
    BY <1>30 DEF StopDaemon, DaemonServes
  <2>2. pc[p] = "stop" /\ consent' = consent /\ Free({"overlap", "disk", "wipe", "late"})
    BY <1>30 DEF StopDaemon
  <2>3. conf[p] = Absent /\ cmd[p] # "off"
    BY <2>2
  <2>4. \A q \in Procs : Sends(q)' => Sends(q)
    BY ONLY <2>1, <2>3 DEF Sends, Serving
  <2> QED BY <2>1, <2>2, <2>3, <2>4
<1>31. ASSUME NEW p \in Procs, Remove(p) PROVE SendStep(z)'
  BY <1>31 DEF Remove
<1>32. ASSUME NEW p \in Procs, Stop(p) PROVE SendStep(z)'
  BY <1>32 DEF Stop, Serving
<1>33. ASSUME NEW p \in Procs, Killed(p) PROVE SendStep(z)'
  BY <1>33 DEF Killed
<1>34. ASSUME Wipe PROVE SendStep(z)'
  BY <1>34 DEF Wipe, DaemonServes, Quiet, Migrated
<1>35. CASE UNCHANGED vars
  BY <1>35 DEF vars
<1> QED
  BY <1>1, <1>2, <1>3, <1>4, <1>5, <1>6, <1>7, <1>8, <1>9, <1>10, <1>11, <1>12, <1>13,
     <1>14, <1>15, <1>16, <1>17, <1>18, <1>19, <1>20, <1>21, <1>22, <1>23, <1>24, <1>25,
     <1>26, <1>27, <1>28, <1>29, <1>30, <1>31, <1>32, <1>33, <1>34, <1>35 DEF Next,
     ConfigStep, ProxyStep, TrustStep


\* An installation is a directory with a complete configuration and CA.
LEMMA InstallationIsThere ==
  ASSUME NEW c \in CAs, NEW on \in BOOLEAN
  PROVE  /\ Installation(c, on) \in Contents /\ Installation(c, on) # Absent
         /\ Installation(c, on).conf \in Config /\ Installation(c, on).conf.telemetry = on
         /\ Installation(c, on).cert = c
<1>1. [telemetry |-> on, firstRun |-> TRUE] \in Config
  BY DEF Config
<1>2. Installation(c, on) \in Contents
  BY <1>1 DEF Installation, Contents, File
<1> QED BY <1>1, <1>2, Distinct DEF Installation

\* The initial states are those of a fresh or an installed machine.
LEMMA SerialAtFirst == Init => Serial /\ RefusalInv /\ AnswerInv /\ SendInv
<1> SUFFICES ASSUME Init PROVE Serial /\ RefusalInv /\ AnswerInv /\ SendInv
  OBVIOUS
<1>1. TypeInv
  BY TypesInit
<1>2. Migrated /\ OneAtATime /\ MoveInv
  BY DEF Init, Migrated, OneAtATime, AtRest, MoveInv, EndPhases
<1>3. OldConf
  BY InstallationIsThere DEF Init, OldConf
<1>4. Stored = consent
  <2>1. CASE dir = Absent /\ legacy = Absent /\ consent = FALSE
    BY <2>1 DEF Stored, Loaded
  <2>2. ASSUME NEW c \in CAs, NEW on \in BOOLEAN, dir = Installation(c, on), consent = on
        PROVE  Stored = consent
    <3>1. dir # Absent
      BY <2>2, InstallationIsThere
    <3> QED BY <2>2, <3>1, InstallationIsThere DEF Stored, Loaded
  <2>3. ASSUME NEW c \in CAs, NEW on \in BOOLEAN, legacy = Installation(c, on), dir = Absent, consent = on
        PROVE  Stored = consent
    <3>1. legacy # Absent
      BY <2>3, InstallationIsThere
    <3> QED BY <2>3, <3>1, InstallationIsThere DEF Stored
  <2> QED BY <2>1, <2>2, <2>3 DEF Init
<1>5. RefusalInv /\ AnswerInv
  BY <1>4 DEF Init, RefusalInv, RefusalGood, AnswerInv, AnswerGood, Saving
<1>6. SendInv
  BY DEF Init, SendInv, SendStep, Sends, Serving
<1> QED BY <1>1, <1>2, <1>3, <1>5, <1>6 DEF Serial

\* These facts hold in every behaviour.
LEMMA ConsentHolds == Spec => [](Serial /\ RefusalInv /\ AnswerInv /\ SendInv)
<1>1. Serial /\ RefusalInv /\ AnswerInv /\ SendInv /\ [Next]_vars
        => (Serial /\ RefusalInv /\ AnswerInv /\ SendInv)'
  BY TypesInductive, MigratedInductive, OneInductive, OldConfInductive, MoveInductive,
     RefusalInductive, AnswerInductive, SendInductive DEF Serial
<1> QED BY <1>1, SerialAtFirst, PTL DEF Spec

\* What is stored is what the last `telemetry` command told the user, and a proxy
\* sends only with consent.
THEOREM AlwaysConsentKept == Spec => []ConsentKept
<1>1. Serial /\ RefusalInv /\ AnswerInv /\ SendInv => ConsentKept
  <2> SUFFICES ASSUME Serial, RefusalInv, AnswerInv, SendInv PROVE ConsentKept
    OBVIOUS
  <2>1. Stored /\ Free({"overlap", "disk"}) /\ ~({"rename", "wipe"} \subseteq seen) => consent
    BY DEF RefusalInv, RefusalGood
  <2>2. Quiet /\ consent /\ Free({"overlap", "disk", "rename", "crash"}) => Stored
    BY DEF AnswerInv, AnswerGood, Quiet, AtRest, EndPhases
  <2>3. Free({"overlap", "disk", "wipe", "late"}) => \A p \in Procs : Sends(p) => consent
    BY DEF SendInv, SendStep
  <2> QED BY <2>1, <2>2, <2>3 DEF ConsentKept
<1> QED BY <1>1, ConsentHolds, PTL

-----------------------------------------------------------------------------
(* Trust                                                                   *)

\* The certificate of the installation.
Current == IF dir # Absent THEN dir.cert ELSE IF legacy # Absent THEN legacy.cert ELSE Absent

\* Nothing but the current CA is trusted or copied; where it is generated nothing
\* is trusted yet, and `disable --untrust` works on a machine without a daemon.
TrustGood ==
  /\ trusted \subseteq {Current}
  /\ copied \in {Absent, Current}
  /\ \A p \in Procs :
       /\ pc[p] = "gen_cert" => ~CertExists
       /\ pc[p] = "gen_key" => trusted = {} /\ copied = Absent
       /\ pc[p] \in {"update", "refresh"} => platform = "linux"
       /\ pc[p] = "refresh" => copied = Absent
       /\ pc[p] \in {"is_trusted", "install", "update", "spawn"} => CertExists

Trusting == {"overlap", "wipe", "rename", "trust"}

TrustInv == Free(Trusting) => TrustGood

\* The clients of the machine trust the certificate if it is complete.
Installed == CertExists /\ (dir.cert \in CAs => dir.cert \in trusted)

DaemonGood ==
  /\ platform = "linux" /\ copied \in CAs /\ (\A p \in Procs : pc[p] # "update") => copied \in trusted
  /\ \A p \in Procs :
       /\ pc[p] = "update" => copied = dir.cert
       /\ pc[p] = "spawn" \/ (cmd[p] = "daemon" /\ pc[p] # "stray") => Installed
       /\ cmd[p] = "daemon" =>
            pc[p] \notin EndPhases \cup {"load", "mkdir", "truncate", "write", "gen_cert", "gen_key",
                                      "gen_key_write", "stop", "remove", "refresh"}
       /\ pc[p] \in {"remove", "refresh"} => \A q \in Procs : cmd[q] = "daemon" => pc[q] = "stray"

DaemonInv == Free(Trusting \cup {"crash"}) => DaemonGood

\* No step makes the machine trust a CA that is not the current one.
THEOREM TrustInductive == Serial /\ SignInv /\ TrustInv /\ [Next]_vars => TrustInv'
<1> SUFFICES ASSUME Serial, SignInv, TrustInv, [Next]_vars, Free(Trusting)'
             PROVE  TrustGood'
  BY DEF TrustInv
<1> USE Distinct DEF TypeInv, TypeOK, First, Goto, End, Note, Answer, AfterSave, IsTelemetry,
     files, store, locals, history, Free, AtRest, EndPhases, StepPhases, Serial, OneAtATime,
     SignInv, SignStep, TrustInv, TrustGood, Trusting, Current, CertExists, StepInv,
     Contents, File
<1>1. ASSUME NEW p \in Procs, NEW c \in Commands, Begin(p, c) PROVE TrustGood'
  BY <1>1 DEF Begin, Quiet
<1>2. ASSUME NEW p \in Procs, MigrateStatNew(p) PROVE TrustGood'
  BY <1>2 DEF MigrateStatNew, Commands
<1>3. ASSUME NEW p \in Procs, MigrateStatOld(p) PROVE TrustGood'
  BY <1>3 DEF MigrateStatOld, Commands
<1>4. ASSUME NEW p \in Procs, MigrateRename(p) PROVE TrustGood'
  BY <1>4 DEF MigrateRename, Renames, Commands, EmptyDir, Migrated
<1>5. ASSUME NEW p \in Procs, RenameFails(p) PROVE TrustGood'
  BY <1>5 DEF RenameFails, Commands
<1>6. ASSUME NEW p \in Procs, LoadConfig(p) PROVE TrustGood'
  BY <1>6 DEF LoadConfig
<1>7. ASSUME NEW p \in Procs, SaveMkdir(p) PROVE TrustGood'
  BY <1>7 DEF SaveMkdir, EmptyDir, Migrated
<1>8. ASSUME NEW p \in Procs, SaveTruncate(p) PROVE TrustGood'
  BY <1>8 DEF SaveTruncate
<1>9. ASSUME NEW p \in Procs, SaveWrite(p) PROVE TrustGood'
  BY <1>9 DEF SaveWrite
<1>10. ASSUME NEW p \in Procs, SaveFails(p) PROVE TrustGood'
  BY <1>10 DEF SaveFails
<1>11. ASSUME NEW p \in Procs, EnsureProxy(p) PROVE TrustGood'
  BY <1>11 DEF EnsureProxy
<1>12. ASSUME NEW p \in Procs, CAStat(p) PROVE TrustGood'
  BY <1>12 DEF CAStat, CAExists
<1>13. ASSUME NEW p \in Procs, LoadCert(p) PROVE TrustGood'
  BY <1>13 DEF LoadCert
<1>14. ASSUME NEW p \in Procs, LoadKey(p) PROVE TrustGood'
  BY <1>14 DEF LoadKey
<1>15. ASSUME NEW p \in Procs, NEW c \in CAs, GenerateCA(p, c) PROVE TrustGood'
  BY <1>15 DEF GenerateCA, Migrated
<1>16. ASSUME NEW p \in Procs, NoDirectory(p) PROVE TrustGood'
  BY <1>16 DEF NoDirectory
<1>17. ASSUME NEW p \in Procs, WriteCert(p) PROVE TrustGood'
  BY <1>17 DEF WriteCert
<1>18. ASSUME NEW p \in Procs, WriteKey(p) PROVE TrustGood'
  BY <1>18 DEF WriteKey
<1>19. ASSUME NEW p \in Procs, GenerateFails(p) PROVE TrustGood'
  BY <1>19 DEF GenerateFails
<1>20. ASSUME NEW p \in Procs, Pair(p) PROVE TrustGood'
  BY <1>20 DEF Pair
<1>21. ASSUME NEW p \in Procs, Listen(p) PROVE TrustGood'
  BY <1>21 DEF Listen
<1>22. ASSUME NEW p \in Procs, StartTelemetry(p) PROVE TrustGood'
  BY <1>22 DEF StartTelemetry
<1>23. ASSUME NEW p \in Procs, EnableStat(p) PROVE TrustGood'
  BY <1>23 DEF EnableStat
<1>24. ASSUME NEW p \in Procs, EnableTrust(p) PROVE TrustGood'
  BY <1>24 DEF EnableTrust, IsTrusted
<1>25. ASSUME NEW p \in Procs, Install(p) PROVE TrustGood'
  BY <1>25 DEF Install, Installable, CommonName
<1>26. ASSUME NEW p \in Procs, InstallNothing(p) PROVE TrustGood'
  BY <1>26 DEF InstallNothing
<1>27. ASSUME NEW p \in Procs, UpdateCertificates(p) PROVE TrustGood'
  BY <1>27 DEF UpdateCertificates
<1>28. ASSUME NEW p \in Procs, TrustFails(p) PROVE TrustGood'
  BY <1>28 DEF TrustFails
<1>29. ASSUME NEW p \in Procs, Spawn(p) PROVE TrustGood'
  BY <1>29 DEF Spawn
<1>30. ASSUME NEW p \in Procs, StopDaemon(p) PROVE TrustGood'
  BY <1>30 DEF StopDaemon, DaemonServes, Serving
<1>31. ASSUME NEW p \in Procs, Remove(p) PROVE TrustGood'
  BY <1>31 DEF Remove, Left
<1>32. ASSUME NEW p \in Procs, Stop(p) PROVE TrustGood'
  BY <1>32 DEF Stop, Serving
<1>33. ASSUME NEW p \in Procs, Killed(p) PROVE TrustGood'
  BY <1>33 DEF Killed
<1>34. ASSUME Wipe PROVE TrustGood'
  BY <1>34 DEF Wipe, DaemonServes, Quiet, Migrated
<1>35. CASE UNCHANGED vars
  BY <1>35 DEF vars
<1> QED
  BY <1>1, <1>2, <1>3, <1>4, <1>5, <1>6, <1>7, <1>8, <1>9, <1>10, <1>11, <1>12, <1>13,
     <1>14, <1>15, <1>16, <1>17, <1>18, <1>19, <1>20, <1>21, <1>22, <1>23, <1>24, <1>25,
     <1>26, <1>27, <1>28, <1>29, <1>30, <1>31, <1>32, <1>33, <1>34, <1>35 DEF Next,
     ConfigStep, ProxyStep, TrustStep

\* A daemon keeps being trusted, unless its enable was killed before the update.
THEOREM DaemonInductive == Serial /\ SignInv /\ TrustInv /\ DaemonInv /\ [Next]_vars => DaemonInv'
<1> SUFFICES ASSUME Serial, SignInv, TrustInv, DaemonInv, [Next]_vars, Free(Trusting \cup {"crash"})'
             PROVE  DaemonGood'
  BY DEF DaemonInv
<1> USE Distinct DEF TypeInv, TypeOK, First, Goto, End, Note, Answer, AfterSave, IsTelemetry,
     files, store, locals, history, Free, AtRest, EndPhases, StepPhases, Serial, OneAtATime,
     SignInv, SignStep, TrustInv, TrustGood, DaemonInv, DaemonGood, Installed, Trusting,
     Listening, Current, CertExists, StepInv, Contents, File
<1>1. ASSUME NEW p \in Procs, NEW c \in Commands, Begin(p, c) PROVE DaemonGood'
  BY <1>1 DEF Begin, Quiet
<1>2. ASSUME NEW p \in Procs, MigrateStatNew(p) PROVE DaemonGood'
  BY <1>2 DEF MigrateStatNew, Commands
<1>3. ASSUME NEW p \in Procs, MigrateStatOld(p) PROVE DaemonGood'
  BY <1>3 DEF MigrateStatOld, Commands
<1>4. ASSUME NEW p \in Procs, MigrateRename(p) PROVE DaemonGood'
  BY <1>4 DEF MigrateRename, Renames, Commands, EmptyDir, Migrated
<1>5. ASSUME NEW p \in Procs, RenameFails(p) PROVE DaemonGood'
  BY <1>5 DEF RenameFails, Commands
<1>6. ASSUME NEW p \in Procs, LoadConfig(p) PROVE DaemonGood'
  BY <1>6 DEF LoadConfig, AfterSave, Commands
<1>7. ASSUME NEW p \in Procs, SaveMkdir(p) PROVE DaemonGood'
  BY <1>7 DEF SaveMkdir, EmptyDir, Migrated
<1>8. ASSUME NEW p \in Procs, SaveTruncate(p) PROVE DaemonGood'
  BY <1>8 DEF SaveTruncate
<1>9. ASSUME NEW p \in Procs, SaveWrite(p) PROVE DaemonGood'
  BY <1>9 DEF SaveWrite
<1>10. ASSUME NEW p \in Procs, SaveFails(p) PROVE DaemonGood'
  BY <1>10 DEF SaveFails
<1>11. ASSUME NEW p \in Procs, EnsureProxy(p) PROVE DaemonGood'
  BY <1>11 DEF EnsureProxy
<1>12. ASSUME NEW p \in Procs, CAStat(p) PROVE DaemonGood'
  BY <1>12 DEF CAStat, CAExists
<1>13. ASSUME NEW p \in Procs, LoadCert(p) PROVE DaemonGood'
  BY <1>13 DEF LoadCert
<1>14. ASSUME NEW p \in Procs, LoadKey(p) PROVE DaemonGood'
  BY <1>14 DEF LoadKey
<1>15. ASSUME NEW p \in Procs, NEW c \in CAs, GenerateCA(p, c) PROVE DaemonGood'
  BY <1>15 DEF GenerateCA, Migrated
<1>16. ASSUME NEW p \in Procs, NoDirectory(p) PROVE DaemonGood'
  BY <1>16 DEF NoDirectory
<1>17. ASSUME NEW p \in Procs, WriteCert(p) PROVE DaemonGood'
  BY <1>17 DEF WriteCert
<1>18. ASSUME NEW p \in Procs, WriteKey(p) PROVE DaemonGood'
  BY <1>18 DEF WriteKey
<1>19. ASSUME NEW p \in Procs, GenerateFails(p) PROVE DaemonGood'
  BY <1>19 DEF GenerateFails
<1>20. ASSUME NEW p \in Procs, Pair(p) PROVE DaemonGood'
  BY <1>20 DEF Pair, Commands
<1>21. ASSUME NEW p \in Procs, Listen(p) PROVE DaemonGood'
  BY <1>21 DEF Listen
<1>22. ASSUME NEW p \in Procs, StartTelemetry(p) PROVE DaemonGood'
  BY <1>22 DEF StartTelemetry
<1>23. ASSUME NEW p \in Procs, EnableStat(p) PROVE DaemonGood'
  BY <1>23 DEF EnableStat
<1>24. ASSUME NEW p \in Procs, EnableTrust(p) PROVE DaemonGood'
  BY <1>24 DEF EnableTrust, IsTrusted
<1>25. ASSUME NEW p \in Procs, Install(p) PROVE DaemonGood'
  BY <1>25 DEF Install, Installable, CommonName
<1>26. ASSUME NEW p \in Procs, InstallNothing(p) PROVE DaemonGood'
  BY <1>26 DEF InstallNothing
<1>27. ASSUME NEW p \in Procs, UpdateCertificates(p) PROVE DaemonGood'
  BY <1>27 DEF UpdateCertificates
<1>28. ASSUME NEW p \in Procs, TrustFails(p) PROVE DaemonGood'
  BY <1>28 DEF TrustFails
<1>29. ASSUME NEW p \in Procs, Spawn(p) PROVE DaemonGood'
  BY <1>29 DEF Spawn
<1>30. ASSUME NEW p \in Procs, StopDaemon(p) PROVE DaemonGood'
  BY <1>30 DEF StopDaemon, DaemonServes, Serving
<1>31. ASSUME NEW p \in Procs, Remove(p) PROVE DaemonGood'
  BY <1>31 DEF Remove, Left
<1>32. ASSUME NEW p \in Procs, Stop(p) PROVE DaemonGood'
  BY <1>32 DEF Stop, Serving
<1>33. ASSUME NEW p \in Procs, Killed(p) PROVE DaemonGood'
  BY <1>33 DEF Killed
<1>34. ASSUME Wipe PROVE DaemonGood'
  BY <1>34 DEF Wipe, DaemonServes, Quiet, Migrated
<1>35. CASE UNCHANGED vars
  BY <1>35 DEF vars
<1> QED
  BY <1>1, <1>2, <1>3, <1>4, <1>5, <1>6, <1>7, <1>8, <1>9, <1>10, <1>11, <1>12, <1>13,
     <1>14, <1>15, <1>16, <1>17, <1>18, <1>19, <1>20, <1>21, <1>22, <1>23, <1>24, <1>25,
     <1>26, <1>27, <1>28, <1>29, <1>30, <1>31, <1>32, <1>33, <1>34, <1>35 DEF Next,
     ConfigStep, ProxyStep, TrustStep

\* Nothing but the CA of the installation is trusted at first.
LEMMA TrustAtFirst == Init => SignInv /\ TrustInv /\ DaemonInv
<1> SUFFICES ASSUME Init PROVE SignInv /\ TrustInv /\ DaemonInv
  OBVIOUS
<1>1. trusted \subseteq {Current} /\ (platform = "linux" /\ copied \in CAs => copied \in trusted)
  <2>1. CASE trusted = {}
    BY <2>1, Distinct DEF Init
  <2>2. ASSUME NEW c \in CAs, NEW on \in BOOLEAN, trusted = {c},
               \/ dir = Installation(c, on)
               \/ legacy = Installation(c, on) /\ dir = Absent
        PROVE  trusted \subseteq {Current} /\ (platform = "linux" /\ copied \in CAs => copied \in trusted)
    BY <2>2, InstallationIsThere, Distinct DEF Init, Current
  <2> QED BY <2>1, <2>2 DEF Init
<1>2. copied \in {Absent, Current}
  BY <1>1 DEF Init
<1>3. \A p \in Procs : pc[p] = "idle" /\ cmd[p] = "start"
  BY DEF Init
<1> QED BY <1>1, <1>2, <1>3 DEF SignInv, SignStep, TrustInv, TrustGood, DaemonInv, DaemonGood

\* These facts hold in every behaviour.
LEMMA TrustHolds == Spec => [](Serial /\ SignInv /\ TrustInv /\ DaemonInv)
<1>1. Serial /\ SignInv /\ TrustInv /\ DaemonInv /\ [Next]_vars
        => (Serial /\ SignInv /\ TrustInv /\ DaemonInv)'
  BY TypesInductive, MigratedInductive, OneInductive, OldConfInductive, MoveInductive,
     SignInductive, TrustInductive, DaemonInductive DEF Serial
<1> QED BY <1>1, SerialAtFirst, TrustAtFirst, PTL DEF Spec

\* The daemon that enable has started signs with a CA that the clients of the
\* machine trust.
THEOREM AlwaysDaemonIsTrusted == Spec => []DaemonIsTrusted
<1>1. Serial /\ SignInv /\ TrustInv /\ DaemonInv => DaemonIsTrusted
  BY DEF SignInv, SignStep, DaemonInv, DaemonGood, DaemonIsTrusted, DaemonServes, Serving,
     Installed, Trusting, Free
<1> QED BY <1>1, TrustHolds, PTL

\* With at most the current CA trusted, one deletion leaves none.
LEMMA NothingIsLeft ==
  ASSUME trusted \subseteq {Current}
  PROVE  Left = {{}}
<1>1. trusted = {} \/ trusted = {Current}
  OBVIOUS
<1>2. Cardinality(trusted) \in {0, 1}
  BY <1>1, FS_EmptySet, FS_Singleton
<1> QED BY <1>2 DEF Left

\* `disable --untrust` leaves no CA of Redactr in the trust store.
THEOREM AlwaysUntrustRemoves == Spec => UntrustRemoves
<1>1. ASSUME Serial, SignInv, TrustInv, [Next]_vars,
             NEW z \in Procs, pc[z] # "untrusted", pc'[z] = "untrusted"
      PROVE  trusted' = {} \/ seen' \cap {"overlap", "wipe", "rename", "trust"} # {}
  <2> SUFFICES ASSUME Free(Trusting)' PROVE trusted' = {}
    BY DEF Free, Trusting
  <2> USE DEF First, Goto, End, AfterSave, Answer, files, store, locals, history
  <2>1. ASSUME NEW p \in Procs, TrustFails(p) PROVE FALSE
    BY <2>1 DEF TrustFails, Note, Free, Trusting
  <2>2. ASSUME NEW p \in Procs, UpdateCertificates(p) PROVE trusted' = {}
    <3>1. pc[p] = "refresh" /\ trusted' = {copied} \cap CAs /\ seen' = seen
      BY <1>1, <2>2 DEF UpdateCertificates, Serial, TypeInv, TypeOK
    <3>2. copied = Absent
      BY <1>1, <3>1 DEF TrustInv, TrustGood, Free
    <3> QED BY <3>1, <3>2, Distinct
  <2>3. ASSUME NEW p \in Procs, Remove(p) PROVE trusted' = {}
    <3>1. platform # "linux" /\ pc[p] = "remove" /\ seen' = seen
      BY <1>1, <2>3 DEF Remove, Serial, TypeInv, TypeOK
    <3>2. TrustGood /\ "rename" \notin seen
      BY <1>1, <3>1 DEF TrustInv, Free, Trusting
    <3>3. legacy = Absent
      BY <1>1, <3>1, <3>2 DEF Serial, Migrated, EndPhases
    <3>4. CASE CommonName
      BY <2>3, <3>1, <3>2, <3>4, NothingIsLeft DEF Remove, TrustGood
    <3>5. CASE ~CommonName
      <4>1. Current \in {Absent, Torn}
        BY <3>3, <3>5 DEF Current, CommonName, CertExists
      <4>2. trusted = {}
        BY <1>1, <3>2, <4>1, Distinct DEF TrustGood, Serial, TypeInv, TypeOK
      <4> QED BY <2>3, <3>1, <3>5, <4>2 DEF Remove
    <3> QED BY <3>4, <3>5
  <2>4. CASE UNCHANGED vars
    BY <1>1, <2>4 DEF vars
  <2>5. ASSUME NEW p \in Procs, NEW c \in Commands, Begin(p, c) PROVE FALSE
    BY <1>1, <2>5 DEF Begin, Serial, TypeInv, TypeOK
  <2>6. ASSUME NEW p \in Procs, ConfigStep(p) PROVE FALSE
    BY <1>1, <2>6 DEF ConfigStep, MigrateStatNew, MigrateStatOld, MigrateRename, RenameFails,
       LoadConfig, SaveMkdir, SaveTruncate, SaveWrite, SaveFails, Serial, TypeInv, TypeOK, Commands
  <2>7. ASSUME NEW p \in Procs, ProxyStep(p) PROVE FALSE
    BY <1>1, <2>7 DEF ProxyStep, EnsureProxy, CAStat, LoadCert, LoadKey, GenerateCA, NoDirectory,
       WriteCert, WriteKey, GenerateFails, Pair, Listen, StartTelemetry, Serial, TypeInv, TypeOK
  <2>8. ASSUME NEW p \in Procs, EnableStat(p) \/ EnableTrust(p) \/ Install(p) \/ InstallNothing(p)
                                  \/ Spawn(p) \/ StopDaemon(p)
        PROVE  FALSE
    <3>1. CASE StopDaemon(p)
      BY <1>1, <3>1 DEF StopDaemon, Serial, TypeInv, TypeOK
    <3> QED
      BY <1>1, <2>8, <3>1 DEF EnableStat, EnableTrust, Install, InstallNothing, Spawn, Serial, TypeInv, TypeOK
  <2>9. ASSUME NEW p \in Procs, Stop(p) \/ Killed(p) \/ Wipe PROVE FALSE
    BY <1>1, <2>9 DEF Stop, Killed, Wipe, DaemonServes, Serial, TypeInv, TypeOK
  <2> QED
    BY <1>1, <2>1, <2>2, <2>3, <2>4, <2>5, <2>6, <2>7, <2>8, <2>9 DEF Next, TrustStep
<1>2. Serial /\ SignInv /\ TrustInv /\ [Next]_vars
        => [\A p \in Procs : pc[p] # "untrusted" /\ pc'[p] = "untrusted" =>
              trusted' = {} \/ seen' \cap {"overlap", "wipe", "rename", "trust"} # {}]_vars
  BY <1>1
<1> QED BY <1>2, TrustHolds, PTL DEF Spec, UntrustRemoves

=============================================================================
