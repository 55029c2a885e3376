------------------------- MODULE SystemProxyKeysProofs -------------------------
(***************************************************************************)
(* Proofs about SystemProxyKeys, for any processes, users' settings and    *)
(* enabled faults, on both platforms.                                      *)
(***************************************************************************)
EXTENDS SystemProxyKeys, SequenceTheorems, TLAPS

-----------------------------------------------------------------------------
(* The keys                                                                *)

\* A loop from the first key to the last visits every key.
LEMMA Visits ==
  ASSUME NEW w \in Platforms
  PROVE  /\ Len(Ordered(w)) \in Nat
         /\ \A i \in 1 .. Len(Ordered(w)) : Ordered(w)[i] \in Keys(w)
         /\ \A k \in Keys(w) : \E i \in 1 .. Len(Ordered(w)) : Ordered(w)[i] = k
<1>1. Len(LinuxKeys) = 5 /\ DOMAIN LinuxKeys = 1 .. 5
  BY DEF LinuxKeys
<1>2. Len(WindowsKeys) = 3 /\ DOMAIN WindowsKeys = 1 .. 3
  BY DEF WindowsKeys
<1>3. Len(Ordered(w)) \in Nat /\ DOMAIN Ordered(w) = 1 .. Len(Ordered(w))
  BY <1>1, <1>2 DEF Ordered, Platforms
<1> QED BY <1>3 DEF Keys

\* The keys of the two platforms.
LEMMA KeySets ==
  /\ Keys("linux") = {"mode", "https-host", "https-port", "http-host", "http-port"}
  /\ Keys("windows") = {"ProxyEnable", "ProxyServer", "ProxyOverride"}
<1>1. DOMAIN LinuxKeys = 1 .. 5 /\ DOMAIN WindowsKeys = 1 .. 3
  BY DEF LinuxKeys, WindowsKeys
<1> QED BY <1>1 DEF Keys, Ordered, LinuxKeys, WindowsKeys

\* Set visits the same keys, in its own order.
LEMMA SetVisits ==
  ASSUME platform \in Platforms
  PROVE  /\ Len(SetOrder) = Len(Ordered(platform))
         /\ \A i \in 1 .. Len(SetOrder) : SetOrder[i] \in Keys(platform)
         /\ \A k \in Keys(platform) : \E i \in 1 .. Len(SetOrder) : SetOrder[i] = k
<1>1. CASE platform = "linux"
  BY <1>1, Visits DEF SetOrder, Ordered
<1>2. CASE platform = "windows"
  <2>1. Len(ServerFirst) = 3 /\ Len(WindowsKeys) = 3
    BY DEF ServerFirst, WindowsKeys
  <2>2. \A i \in 1 .. 3 : i = 1 \/ i = 2 \/ i = 3
    OBVIOUS
  <2>3. ServerFirst[1] = "ProxyServer"
    BY DEF ServerFirst
  <2>4. ServerFirst[2] = "ProxyEnable"
    BY DEF ServerFirst
  <2>5. ServerFirst[3] = "ProxyOverride"
    BY DEF ServerFirst
  <2>6. SetOrder = ServerFirst /\ Ordered(platform) = WindowsKeys /\ Keys(platform) = {"ProxyEnable", "ProxyServer", "ProxyOverride"}
    BY <1>2, KeySets DEF SetOrder, Ordered
  <2> HIDE DEF SetOrder
  <2>7. \A i \in 1 .. 3 : ServerFirst[i] \in Keys(platform)
    BY <2>2, <2>3, <2>4, <2>5, <2>6
  <2>8. \A k \in Keys(platform) : \E i \in 1 .. 3 : ServerFirst[i] = k
    BY <2>3, <2>4, <2>5, <2>6
  <2> QED BY <2>1, <2>6, <2>7, <2>8
<1> QED BY <1>1, <1>2 DEF Platforms

\* What Set writes is a value that the key can have, and is there.
LEMMA OursFits ==
  ASSUME NEW w \in Platforms, NEW k \in Keys(w)
  PROVE  Ours(k) \in Values(k) /\ Ours(k) # Missing /\ Ours(k) # "off" /\ Values(k) \subseteq Marks
  BY KeySets, SystemProxyKeysAssumption DEF Ours, Values, Marks

\* On Windows every value may be missing.
LEMMA MayMiss == \A k \in Keys("windows") : Missing \in Values(k)
  BY KeySets DEF Values

\* To restore a value is to give the key what was saved, or to switch it off.
LEMMA RestoredValue ==
  ASSUME NEW w \in Platforms, NEW k \in Keys(w), NEW saved \in Values(k), NEW current, NEW chosen
  PROVE  /\ Restored(k, saved, current) \in Values(k)
         /\ SameSetting(k, saved, chosen) => SameSetting(k, Restored(k, saved, current), chosen)
         /\ Restored(k, saved, current) = Ours(k) => saved = Ours(k)
  BY KeySets, SystemProxyKeysAssumption DEF Restored, SameSetting, Values, Ours

\* What a user chooses on a platform is a setting of it.
LEMMA UserStore ==
  ASSUME NEW w \in Platforms, NEW f \in Priors, DOMAIN f = Keys(w)
  PROVE  IsStore(f, w)
<1>1. PICK v \in Platforms : IsStore(f, v)
  BY SystemProxyKeysAssumption
<1>2. DOMAIN f = Keys(v)
  BY <1>1 DEF IsStore, Snapshots
<1>3. "mode" \in Keys("linux") /\ "mode" \notin Keys("windows")
  BY KeySets
<1> QED BY <1>1, <1>2, <1>3 DEF Platforms

-----------------------------------------------------------------------------
(* Types                                                                   *)

\* The key that a loop is at, or has done.
Key(i) == Ordered(platform)[i]

\* Where a loop stands, and that the snapshot in memory holds what the keys can
\* have, once they are read.
Loaded(p) ==
  /\ \A k \in Keys(platform) : mem[p][k] \in Values(k) \cup {Missing}
  /\ pc[p] \in EndPhases \cup {"stat", "r_stat", "r_load", "r_open"} => at[p] = 0
  /\ pc[p] = "snap" => \A i \in 1 .. at[p] : mem[p][Key(i)] \in Values(Key(i))
  /\ pc[p] \in {"write", "r_open", "r_set"} => IsStore(mem[p], platform)

LoadedInv ==
  /\ IsStore(orig, platform)
  /\ file \notin {Absent, Torn} => IsStore(file, platform)
  /\ \A p \in Procs : Loaded(p)

TypeInv == TypeOK /\ LoadedInv

\* A snapshot with one more key read.
LEMMA OneMoreKey ==
  ASSUME NEW w \in Platforms, NEW f \in Snapshots(w), NEW k \in Keys(w), NEW v \in Values(k)
  PROVE  /\ [f EXCEPT ![k] = v] \in Snapshots(w)
         /\ \A j \in Keys(w) : [f EXCEPT ![k] = v][j] = IF j = k THEN v ELSE f[j]
  BY OursFits DEF Snapshots

\* The empty snapshot is one.
LEMMA EmptySnapshot == Empty \in Snapshots(platform) /\ \A k \in Keys(platform) : Empty[k] = Missing
  BY DEF Empty, Snapshots, Marks

\* A setting that the machine can have is no missing or torn file.
LEMMA StoreIsComplete ==
  ASSUME NEW w \in Platforms, NEW f, IsStore(f, w)
  PROVE  f \in Snapshots(w) /\ f \notin {Absent, Torn}
  BY SystemProxyKeysAssumption DEF IsStore

\* Every step keeps the types.
THEOREM TypesInductive == TypeInv /\ [Next]_vars => TypeInv'
<1> SUFFICES ASSUME TypeInv, [Next]_vars
             PROVE  TypeInv'
  OBVIOUS
<1> USE EmptySnapshot
<1> USE DEF Goto, Begin, NextKey, Return, Note, BeginCall, callVars,
            history, TypeInv
<1>1. ASSUME NEW p \in Procs, BeginSet(p) PROVE TypeInv'
  <2>1. TypeOK'
    BY <1>1, Visits DEF BeginSet, TypeOK, SetPhases, RevertPhases, EndPhases, FaultKinds
  <2>2. IsStore(orig, platform)'
    BY <1>1 DEF BeginSet, LoadedInv
  <2>3. file' \notin {Absent, Torn} => IsStore(file, platform)'
    BY <1>1 DEF BeginSet, LoadedInv
  <2>4. ASSUME NEW q \in Procs PROVE Loaded(q)'
    <3>1. Loaded(q)
      BY DEF LoadedInv
    <3> QED BY <1>1, <3>1, Visits DEF BeginSet, Loaded, Key, TypeOK, SetPhases, RevertPhases, EndPhases, Ended
  <2> QED BY <2>1, <2>2, <2>3, <2>4 DEF LoadedInv
<1>2. ASSUME NEW p \in Procs, SetStat(p) PROVE TypeInv'
  <2>1. TypeOK'
    <3>1. pc' \in [Procs -> SetPhases \cup RevertPhases \cup EndPhases]
      BY <1>2 DEF SetStat, TypeOK, SetPhases
    <3>2. at' \in [Procs -> 0 .. Len(Ordered(platform))]
      BY <1>2, Visits DEF SetStat, TypeOK
    <3>3. seen' \subseteq FaultKinds
      BY <1>2 DEF SetStat, TypeOK, FaultKinds
    <3> QED BY <1>2, <3>1, <3>2, <3>3 DEF SetStat, TypeOK
  <2>2. IsStore(orig, platform)'
    BY <1>2 DEF SetStat, LoadedInv
  <2>3. file' \notin {Absent, Torn} => IsStore(file, platform)'
    BY <1>2 DEF SetStat, LoadedInv
  <2>4. ASSUME NEW q \in Procs PROVE Loaded(q)'
    <3>1. Loaded(q)
      BY DEF LoadedInv
    <3> QED BY <1>2, <3>1, Visits DEF SetStat, Loaded, Key, TypeOK, SetPhases, RevertPhases, EndPhases, Ended
  <2> QED BY <2>1, <2>2, <2>3, <2>4 DEF LoadedInv
<1>3. ASSUME NEW p \in Procs, SnapshotKey(p) PROVE TypeInv'
  <2> DEFINE k == Key(at[p] + 1)
  <2>a. at[p] + 1 \in 1 .. Len(Ordered(platform)) /\ k \in Keys(platform)
    BY <1>3, Visits DEF SnapshotKey, Key, TypeOK
  <2>b. store[k] \in Values(k)
    BY <2>a DEF IsStore, TypeOK
  <2>c. /\ mem' \in [Procs -> Snapshots(platform)]
        /\ \A q \in Procs : mem'[q] = mem[q] \/ (q = p /\ mem'[q] = [mem[p] EXCEPT ![k] = store[k]])
        /\ mem'[p][k] \in Values(k)
    <3>1. CASE mem' = [mem EXCEPT ![p][k] = store[k]]
      <4> DEFINE new == [mem[p] EXCEPT ![k] = store[k]]
      <4>1. new \in Snapshots(platform) /\ new[k] = store[k]
        BY <2>a, <2>b, OneMoreKey DEF TypeOK
      <4>2. mem' = [mem EXCEPT ![p] = new]
        BY <3>1 DEF TypeOK
      <4> HIDE DEF new
      <4>3. mem' \in [Procs -> Snapshots(platform)] /\ \A q \in Procs : mem'[q] = IF q = p THEN new ELSE mem[q]
        BY <4>1, <4>2 DEF TypeOK
      <4> QED BY <2>b, <4>1, <4>3 DEF new
    <3>2. CASE platform = "windows" /\ mem' = mem
      <4>0. Loaded(p) /\ k \in Keys("windows")
        BY <2>a, <3>2 DEF LoadedInv
      <4>1. \A j \in Keys("windows") : mem[p][j] \in Values(j)
        BY <3>2, <4>0, MayMiss DEF Loaded, LoadedInv
      <4> QED BY <3>2, <4>0, <4>1 DEF TypeOK
    <3> QED BY <1>3, <3>1, <3>2 DEF SnapshotKey, Key, TypeOK
  <2> HIDE DEF k
  <2>d. platform' = platform /\ pc[p] = "snap" /\ pc' = pc /\ at' = [at EXCEPT ![p] = at[p] + 1]
    BY <1>3 DEF SnapshotKey, TypeOK
  <2>1. TypeOK'
    <3>1. at' \in [Procs -> 0 .. Len(Ordered(platform))]
      BY <2>a, <2>d, Visits DEF TypeOK
    <3>2. seen' \subseteq FaultKinds
      BY <1>3 DEF SnapshotKey, FaultKinds, TypeOK
    <3> QED BY <1>3, <2>c, <2>d, <3>1, <3>2 DEF SnapshotKey, TypeOK
  <2>2. IsStore(orig, platform)'
    BY <1>3 DEF SnapshotKey, LoadedInv
  <2>3. file' \notin {Absent, Torn} => IsStore(file, platform)'
    BY <1>3 DEF SnapshotKey, LoadedInv
  <2>4. ASSUME NEW q \in Procs PROVE Loaded(q)'
    <3>1. Loaded(q)
      BY DEF LoadedInv
    <3>2. CASE q # p
      BY <2>c, <2>d, <3>1, <3>2 DEF Loaded, Key, TypeOK
    <3>3. CASE q = p
      <4>1. \A j \in Keys(platform) : mem'[p][j] \in Values(j) \cup {Missing}
        <5>1. mem[p] \in Snapshots(platform) /\ platform \in Platforms
          BY DEF TypeOK
        <5>2. CASE mem'[p] = mem[p]
          BY <3>1, <3>3, <5>2 DEF Loaded
        <5>3. CASE mem'[p] = [mem[p] EXCEPT ![k] = store[k]]
          BY <2>a, <2>b, <3>1, <3>3, <5>1, <5>3, OneMoreKey DEF Loaded
        <5> QED BY <2>c, <5>2, <5>3
      <4>2. ASSUME NEW i \in 1 .. at[p] + 1 PROVE mem'[p][Key(i)] \in Values(Key(i))
        <5>1. Key(i) \in Keys(platform)
          BY <2>a, Visits DEF Key, TypeOK
        <5>2. CASE Key(i) = k
          BY <2>c, <5>2
        <5>3. CASE Key(i) # k
          <6>1. i \in 1 .. at[p]
            BY <2>a, <5>3 DEF k, TypeOK
          <6> QED BY <2>a, <2>b, <2>c, <2>d, <3>1, <3>3, <5>1, <5>3, <6>1, OneMoreKey DEF Loaded, TypeOK
        <5> QED BY <5>2, <5>3
      <4> QED BY <2>d, <3>3, <4>1, <4>2 DEF Loaded, Key, TypeOK, EndPhases
    <3> QED BY <3>2, <3>3
  <2> QED BY <2>1, <2>2, <2>3, <2>4 DEF LoadedInv
<1>4. ASSUME NEW p \in Procs, CreateStateFile(p) PROVE TypeInv'
  <2>1. TypeOK'
    BY <1>4, Visits DEF CreateStateFile, TypeOK, SetPhases, RevertPhases, EndPhases, FaultKinds
  <2>2. IsStore(orig, platform)'
    BY <1>4 DEF CreateStateFile, LoadedInv
  <2>3. file' \notin {Absent, Torn} => IsStore(file, platform)'
    BY <1>4 DEF CreateStateFile, LoadedInv
  <2>4. ASSUME NEW q \in Procs PROVE Loaded(q)'
    <3>1. Loaded(q)
      BY DEF LoadedInv
    <3>2. CASE q # p
      BY <1>4, <3>1, <3>2 DEF CreateStateFile, Loaded, Key, TypeOK
    <3>3. CASE q = p
      <4>1. mem[p] \in Snapshots(platform) /\ \A i \in 1 .. at[p] : mem[p][Key(i)] \in Values(Key(i))
        BY <1>4, <3>1, <3>3 DEF CreateStateFile, Loaded, TypeOK
      <4>2. at[p] = Len(Ordered(platform))
        BY <1>4 DEF CreateStateFile
      <4>3. IsStore(mem[p], platform)
        BY <4>1, <4>2, Visits DEF IsStore, Key, TypeOK
      <4> QED BY <1>4, <3>1, <3>3, <4>3 DEF CreateStateFile, Loaded, TypeOK, EndPhases
    <3> QED BY <3>2, <3>3
  <2> QED BY <2>1, <2>2, <2>3, <2>4 DEF LoadedInv
<1>5. ASSUME NEW p \in Procs, WriteStateFile(p) PROVE TypeInv'
  <2>1. TypeOK'
    BY <1>5, Visits DEF WriteStateFile, TypeOK, SetPhases, RevertPhases, EndPhases, FaultKinds
  <2>2. IsStore(orig, platform)'
    BY <1>5 DEF WriteStateFile, LoadedInv
  <2>3. file' \notin {Absent, Torn} => IsStore(file, platform)'
    BY <1>5 DEF WriteStateFile, LoadedInv, Loaded
  <2>4. ASSUME NEW q \in Procs PROVE Loaded(q)'
    <3>1. Loaded(q)
      BY DEF LoadedInv
    <3> QED BY <1>5, <3>1, Visits DEF WriteStateFile, Loaded, Key, TypeOK, SetPhases, RevertPhases, EndPhases, Ended
  <2> QED BY <2>1, <2>2, <2>3, <2>4 DEF LoadedInv
<1>6. ASSUME NEW p \in Procs, SetKey(p) PROVE TypeInv'
  <2> DEFINE k == SetOrder[at[p] + 1]
  <2>a. at[p] + 1 \in 1 .. Len(SetOrder) /\ k \in Keys(platform)
    BY <1>6, Visits, SetVisits DEF SetKey, TypeOK
  <2>b. Ours(k) \in Values(k) /\ Values(k) \subseteq Marks
    BY <2>a, OursFits DEF TypeOK
  <2>c. store' = [store EXCEPT ![k] = Ours(k)]
    BY <1>6 DEF SetKey
  <2> HIDE DEF k
  <2>d. IsStore(store', platform)
    <3>1. store' \in Snapshots(platform) /\ \A j \in Keys(platform) : store'[j] = IF j = k THEN Ours(k) ELSE store[j]
      BY <2>a, <2>b, <2>c DEF TypeOK, IsStore, Snapshots
    <3> QED BY <2>b, <3>1 DEF TypeOK, IsStore
  <2>1. TypeOK'
    <3>1. at' \in [Procs -> 0 .. Len(Ordered(platform))]
      BY <1>6, <2>a, Visits, SetVisits DEF SetKey, TypeOK
    <3> QED BY <1>6, <2>d, <3>1 DEF SetKey, TypeOK
  <2>2. IsStore(orig, platform)'
    BY <1>6 DEF SetKey, LoadedInv
  <2>3. file' \notin {Absent, Torn} => IsStore(file, platform)'
    BY <1>6 DEF SetKey, LoadedInv
  <2>4. ASSUME NEW q \in Procs PROVE Loaded(q)'
    <3>1. Loaded(q)
      BY DEF LoadedInv
    <3> QED BY <1>6, <3>1, Visits DEF SetKey, Loaded, Key, TypeOK, SetPhases, RevertPhases, EndPhases, Ended
  <2> QED BY <2>1, <2>2, <2>3, <2>4 DEF LoadedInv
<1>7. ASSUME NEW p \in Procs, SetDone(p) PROVE TypeInv'
  <2>1. TypeOK'
    BY <1>7, Visits DEF SetDone, TypeOK, SetPhases, RevertPhases, EndPhases, FaultKinds
  <2>2. IsStore(orig, platform)'
    BY <1>7 DEF SetDone, LoadedInv
  <2>3. file' \notin {Absent, Torn} => IsStore(file, platform)'
    BY <1>7 DEF SetDone, LoadedInv
  <2>4. ASSUME NEW q \in Procs PROVE Loaded(q)'
    <3>1. Loaded(q)
      BY DEF LoadedInv
    <3> QED BY <1>7, <3>1, Visits DEF SetDone, Loaded, Key, TypeOK, SetPhases, RevertPhases, EndPhases, Ended
  <2> QED BY <2>1, <2>2, <2>3, <2>4 DEF LoadedInv
<1>8. ASSUME NEW p \in Procs, SetFails(p) PROVE TypeInv'
  <2>1. TypeOK'
    BY <1>8, Visits DEF SetFails, TypeOK, SetPhases, RevertPhases, EndPhases, FaultKinds
  <2>2. IsStore(orig, platform)'
    BY <1>8 DEF SetFails, LoadedInv
  <2>3. file' \notin {Absent, Torn} => IsStore(file, platform)'
    BY <1>8 DEF SetFails, LoadedInv
  <2>4. ASSUME NEW q \in Procs PROVE Loaded(q)'
    <3>1. Loaded(q)
      BY DEF LoadedInv
    <3> QED BY <1>8, <3>1, Visits DEF SetFails, Loaded, Key, TypeOK, SetPhases, RevertPhases, EndPhases, Ended
  <2> QED BY <2>1, <2>2, <2>3, <2>4 DEF LoadedInv
<1>9. ASSUME NEW p \in Procs, SaveFails(p) PROVE TypeInv'
  <2>1. TypeOK'
    BY <1>9, Visits DEF SaveFails, TypeOK, SetPhases, RevertPhases, EndPhases, FaultKinds
  <2>2. IsStore(orig, platform)'
    BY <1>9 DEF SaveFails, LoadedInv
  <2>3. file' \notin {Absent, Torn} => IsStore(file, platform)'
    BY <1>9 DEF SaveFails, LoadedInv
  <2>4. ASSUME NEW q \in Procs PROVE Loaded(q)'
    <3>1. Loaded(q)
      BY DEF LoadedInv
    <3> QED BY <1>9, <3>1, Visits DEF SaveFails, Loaded, Key, TypeOK, SetPhases, RevertPhases, EndPhases, Ended
  <2> QED BY <2>1, <2>2, <2>3, <2>4 DEF LoadedInv
<1>10. ASSUME NEW p \in Procs, BeginRevert(p) PROVE TypeInv'
  <2>1. TypeOK'
    BY <1>10, Visits DEF BeginRevert, TypeOK, SetPhases, RevertPhases, EndPhases, FaultKinds
  <2>2. IsStore(orig, platform)'
    BY <1>10 DEF BeginRevert, LoadedInv
  <2>3. file' \notin {Absent, Torn} => IsStore(file, platform)'
    BY <1>10 DEF BeginRevert, LoadedInv
  <2>4. ASSUME NEW q \in Procs PROVE Loaded(q)'
    <3>1. Loaded(q)
      BY DEF LoadedInv
    <3> QED BY <1>10, <3>1, Visits DEF BeginRevert, Loaded, Key, TypeOK, SetPhases, RevertPhases, EndPhases, Ended
  <2> QED BY <2>1, <2>2, <2>3, <2>4 DEF LoadedInv
<1>11. ASSUME NEW p \in Procs, RevertStat(p) PROVE TypeInv'
  <2>1. TypeOK'
    <3>1. pc' \in [Procs -> SetPhases \cup RevertPhases \cup EndPhases]
      BY <1>11 DEF RevertStat, TypeOK, SetPhases, RevertPhases, EndPhases
    <3>2. at' \in [Procs -> 0 .. Len(Ordered(platform))]
      BY <1>11, Visits DEF RevertStat, TypeOK
    <3>3. mem' \in [Procs -> Snapshots(platform)]
      BY <1>11 DEF RevertStat, TypeOK
    <3>4. failed' \in [Procs -> BOOLEAN] /\ seen' \subseteq FaultKinds
      BY <1>11 DEF RevertStat, TypeOK, FaultKinds
    <3>5. file' \in Snapshots(platform) \cup {Absent, Torn}
      BY <1>11 DEF RevertStat, TypeOK
    <3> QED BY <1>11, <3>1, <3>2, <3>3, <3>4, <3>5 DEF RevertStat, TypeOK
  <2>2. IsStore(orig, platform)'
    BY <1>11 DEF RevertStat, LoadedInv
  <2>3. file' \notin {Absent, Torn} => IsStore(file, platform)'
    BY <1>11 DEF RevertStat, LoadedInv
  <2>4. ASSUME NEW q \in Procs PROVE Loaded(q)'
    <3>1. Loaded(q)
      BY DEF LoadedInv
    <3> QED BY <1>11, <3>1, Visits DEF RevertStat, Loaded, Key, TypeOK, SetPhases, RevertPhases, EndPhases, Ended
  <2> QED BY <2>1, <2>2, <2>3, <2>4 DEF LoadedInv
<1>12. ASSUME NEW p \in Procs, LoadState(p) PROVE TypeInv'
  <2>1. TypeOK'
    <3>1. pc' \in [Procs -> SetPhases \cup RevertPhases \cup EndPhases]
      BY <1>12 DEF LoadState, TypeOK, SetPhases, RevertPhases, EndPhases
    <3>2. at' \in [Procs -> 0 .. Len(Ordered(platform))]
      BY <1>12, Visits DEF LoadState, TypeOK
    <3>3. mem' \in [Procs -> Snapshots(platform)]
      BY <1>12 DEF LoadState, TypeOK
    <3>4. failed' \in [Procs -> BOOLEAN] /\ seen' \subseteq FaultKinds
      BY <1>12 DEF LoadState, TypeOK, FaultKinds
    <3>5. file' \in Snapshots(platform) \cup {Absent, Torn}
      BY <1>12 DEF LoadState, TypeOK
    <3> QED BY <1>12, <3>1, <3>2, <3>3, <3>4, <3>5 DEF LoadState, TypeOK
  <2>2. IsStore(orig, platform)'
    BY <1>12 DEF LoadState, LoadedInv
  <2>3. file' \notin {Absent, Torn} => IsStore(file, platform)'
    BY <1>12 DEF LoadState, LoadedInv
  <2>4. ASSUME NEW q \in Procs PROVE Loaded(q)'
    <3>1. Loaded(q)
      BY DEF LoadedInv
    <3>2. CASE q # p
      BY <1>12, <3>1, <3>2 DEF LoadState, Loaded, Key, TypeOK
    <3>3. CASE q = p /\ file \in {Absent, Torn}
      BY <1>12, <3>1, <3>3 DEF LoadState, Loaded, Key, TypeOK, EndPhases
    <3>4. CASE q = p /\ file \notin {Absent, Torn}
      <4>1. IsStore(file, platform)
        BY <3>4 DEF LoadedInv
      <4>2. mem'[p] = file /\ at'[p] = 0 /\ pc'[p] \in {"r_set", "r_open"} /\ platform' = platform
        BY <1>12, <3>4 DEF LoadState, TypeOK
      <4> QED BY <3>4, <4>1, <4>2 DEF Loaded, EndPhases, IsStore
    <3> QED BY <3>2, <3>3, <3>4
  <2> QED BY <2>1, <2>2, <2>3, <2>4 DEF LoadedInv
<1>13. ASSUME NEW p \in Procs, OpenKey(p) PROVE TypeInv'
  <2>1. TypeOK'
    <3>1. pc' \in [Procs -> SetPhases \cup RevertPhases \cup EndPhases]
      BY <1>13 DEF OpenKey, TypeOK, SetPhases, RevertPhases, EndPhases
    <3>2. at' \in [Procs -> 0 .. Len(Ordered(platform))]
      BY <1>13, Visits DEF OpenKey, TypeOK
    <3>3. mem' \in [Procs -> Snapshots(platform)]
      BY <1>13 DEF OpenKey, TypeOK
    <3>4. failed' \in [Procs -> BOOLEAN] /\ seen' \subseteq FaultKinds
      BY <1>13 DEF OpenKey, TypeOK, FaultKinds
    <3>5. file' \in Snapshots(platform) \cup {Absent, Torn}
      BY <1>13 DEF OpenKey, TypeOK
    <3> QED BY <1>13, <3>1, <3>2, <3>3, <3>4, <3>5 DEF OpenKey, TypeOK
  <2>2. IsStore(orig, platform)'
    BY <1>13 DEF OpenKey, LoadedInv
  <2>3. file' \notin {Absent, Torn} => IsStore(file, platform)'
    BY <1>13 DEF OpenKey, LoadedInv
  <2>4. ASSUME NEW q \in Procs PROVE Loaded(q)'
    <3>1. Loaded(q)
      BY DEF LoadedInv
    <3> QED BY <1>13, <3>1, Visits DEF OpenKey, Loaded, Key, TypeOK, SetPhases, RevertPhases, EndPhases, Ended
  <2> QED BY <2>1, <2>2, <2>3, <2>4 DEF LoadedInv
<1>14. ASSUME NEW p \in Procs, RestoreKey(p) PROVE TypeInv'
  <2> DEFINE k == Key(at[p] + 1)
             v == Restored(k, mem[p][k], store[k])
  <2>a. at[p] + 1 \in 1 .. Len(Ordered(platform)) /\ k \in Keys(platform)
    BY <1>14, Visits DEF RestoreKey, Key, TypeOK
  <2>b. v \in Values(k) /\ Values(k) \subseteq Marks
    <3>1. IsStore(mem[p], platform)
      BY <1>14 DEF RestoreKey, LoadedInv, Loaded
    <3>2. mem[p][k] \in Values(k)
      BY <2>a, <3>1 DEF IsStore
    <3> QED BY <2>a, <3>2, RestoredValue, OursFits DEF TypeOK
  <2>c. store' = [store EXCEPT ![k] = v] \/ store' = store
    BY <1>14 DEF RestoreKey, Key
  <2> HIDE DEF k, v
  <2>d. IsStore(store', platform)
    <3>1. CASE store' = [store EXCEPT ![k] = v]
      <4>1. store' \in Snapshots(platform) /\ \A j \in Keys(platform) : store'[j] = IF j = k THEN v ELSE store[j]
        BY <2>a, <2>b, <3>1 DEF TypeOK, IsStore, Snapshots
      <4> QED BY <2>b, <4>1 DEF TypeOK, IsStore
    <3>2. CASE store' = store
      BY <3>2 DEF TypeOK
    <3> QED BY <2>c, <3>1, <3>2
  <2>1. TypeOK'
    <3>1. at' \in [Procs -> 0 .. Len(Ordered(platform))]
      BY <1>14, <2>a, Visits DEF RestoreKey, TypeOK
    <3>2. failed' \in [Procs -> BOOLEAN]
      BY <1>14 DEF RestoreKey, TypeOK
    <3>3. seen' \subseteq FaultKinds
      BY <1>14 DEF RestoreKey, TypeOK, FaultKinds
    <3> QED BY <1>14, <2>d, <3>1, <3>2, <3>3 DEF RestoreKey, TypeOK
  <2>2. IsStore(orig, platform)'
    BY <1>14 DEF RestoreKey, LoadedInv
  <2>3. file' \notin {Absent, Torn} => IsStore(file, platform)'
    BY <1>14 DEF RestoreKey, LoadedInv
  <2>4. ASSUME NEW q \in Procs PROVE Loaded(q)'
    <3>1. Loaded(q)
      BY DEF LoadedInv
    <3> QED BY <1>14, <3>1, Visits DEF RestoreKey, Loaded, Key, TypeOK, SetPhases, RevertPhases, EndPhases, Ended
  <2> QED BY <2>1, <2>2, <2>3, <2>4 DEF LoadedInv
<1>15. ASSUME NEW p \in Procs, RemoveStateFile(p) PROVE TypeInv'
  <2>1. TypeOK'
    <3>1. pc' \in [Procs -> SetPhases \cup RevertPhases \cup EndPhases]
      BY <1>15 DEF RemoveStateFile, TypeOK, SetPhases, RevertPhases, EndPhases
    <3>2. at' \in [Procs -> 0 .. Len(Ordered(platform))]
      BY <1>15, Visits DEF RemoveStateFile, TypeOK
    <3>3. mem' \in [Procs -> Snapshots(platform)]
      BY <1>15 DEF RemoveStateFile, TypeOK
    <3>4. failed' \in [Procs -> BOOLEAN] /\ seen' \subseteq FaultKinds
      BY <1>15 DEF RemoveStateFile, TypeOK, FaultKinds
    <3>5. file' \in Snapshots(platform) \cup {Absent, Torn}
      BY <1>15 DEF RemoveStateFile, TypeOK
    <3> QED BY <1>15, <3>1, <3>2, <3>3, <3>4, <3>5 DEF RemoveStateFile, TypeOK
  <2>2. IsStore(orig, platform)'
    BY <1>15 DEF RemoveStateFile, LoadedInv
  <2>3. file' \notin {Absent, Torn} => IsStore(file, platform)'
    BY <1>15 DEF RemoveStateFile, LoadedInv
  <2>4. ASSUME NEW q \in Procs PROVE Loaded(q)'
    <3>1. Loaded(q)
      BY DEF LoadedInv
    <3> QED BY <1>15, <3>1, Visits DEF RemoveStateFile, Loaded, Key, TypeOK, SetPhases, RevertPhases, EndPhases, Ended
  <2> QED BY <2>1, <2>2, <2>3, <2>4 DEF LoadedInv
<1>16. ASSUME NEW p \in Procs, Killed(p) PROVE TypeInv'
  <2>1. TypeOK'
    <3>1. pc' \in [Procs -> SetPhases \cup RevertPhases \cup EndPhases]
      BY <1>16 DEF Killed, TypeOK, SetPhases, RevertPhases, EndPhases
    <3>2. at' \in [Procs -> 0 .. Len(Ordered(platform))]
      BY <1>16, Visits DEF Killed, TypeOK
    <3>3. mem' \in [Procs -> Snapshots(platform)]
      BY <1>16 DEF Killed, TypeOK
    <3>4. failed' \in [Procs -> BOOLEAN] /\ seen' \subseteq FaultKinds
      BY <1>16 DEF Killed, TypeOK, FaultKinds
    <3>5. file' \in Snapshots(platform) \cup {Absent, Torn}
      BY <1>16 DEF Killed, TypeOK
    <3> QED BY <1>16, <3>1, <3>2, <3>3, <3>4, <3>5 DEF Killed, TypeOK
  <2>2. IsStore(orig, platform)'
    BY <1>16 DEF Killed, LoadedInv
  <2>3. file' \notin {Absent, Torn} => IsStore(file, platform)'
    BY <1>16 DEF Killed, LoadedInv
  <2>4. ASSUME NEW q \in Procs PROVE Loaded(q)'
    <3>1. Loaded(q)
      BY DEF LoadedInv
    <3> QED BY <1>16, <3>1, Visits DEF Killed, Loaded, Key, TypeOK, SetPhases, RevertPhases, EndPhases, Ended
  <2> QED BY <2>1, <2>2, <2>3, <2>4 DEF LoadedInv
<1>17. ASSUME NEW new \in Priors, Edit(new) PROVE TypeInv'
  <2>a. IsStore(new, platform)
    <3>1. DOMAIN new = Keys(platform)
      BY <1>17 DEF Edit, TypeOK, IsStore, Snapshots
    <3> QED BY <3>1, UserStore DEF TypeOK
  <2>1. TypeOK'
    BY <1>17, <2>a DEF Edit, TypeOK, FaultKinds
  <2>2. IsStore(orig, platform)'
    BY <1>17, <2>a DEF Edit
  <2>3. file' \notin {Absent, Torn} => IsStore(file, platform)'
    BY <1>17 DEF Edit, LoadedInv
  <2>4. ASSUME NEW q \in Procs PROVE Loaded(q)'
    <3>1. Loaded(q)
      BY DEF LoadedInv
    <3> QED BY <1>17, <3>1, Visits DEF Edit, Loaded, Key, TypeOK, SetPhases, RevertPhases, EndPhases, Ended
  <2> QED BY <2>1, <2>2, <2>3, <2>4 DEF LoadedInv
<1>18. CASE UNCHANGED vars
  <2>1. TypeOK'
    BY <1>18, Visits DEF vars, TypeOK, SetPhases, RevertPhases, EndPhases, FaultKinds
  <2>2. IsStore(orig, platform)'
    BY <1>18 DEF vars, LoadedInv
  <2>3. file' \notin {Absent, Torn} => IsStore(file, platform)'
    BY <1>18 DEF vars, LoadedInv
  <2>4. ASSUME NEW q \in Procs PROVE Loaded(q)'
    <3>1. Loaded(q)
      BY DEF LoadedInv
    <3> QED BY <1>18, <3>1, Visits DEF vars, Loaded, Key, TypeOK, SetPhases, RevertPhases, EndPhases, Ended
  <2> QED BY <2>1, <2>2, <2>3, <2>4 DEF LoadedInv
<1> HIDE DEF TypeInv
<1> QED
  BY <1>1, <1>2, <1>3, <1>4, <1>5, <1>6, <1>7, <1>8, <1>9, <1>10, <1>11,
     <1>12, <1>13, <1>14, <1>15, <1>16, <1>17, <1>18 DEF Next, SetStep,
     RevertStep

\* The initial states have the types.
LEMMA TypesHold == Init => TypeInv
<1> SUFFICES ASSUME Init PROVE TypeInv
  OBVIOUS
<1>1. IsStore(store, platform)
  BY UserStore DEF Init
<1>2. mem \in [Procs -> Snapshots(platform)] /\ \A p \in Procs : mem[p] = Empty
  BY EmptySnapshot DEF Init
<1>3. at \in [Procs -> 0 .. Len(Ordered(platform))]
  BY Visits DEF Init
<1>4. TypeOK
  BY <1>1, <1>2, <1>3 DEF Init, TypeOK, EndPhases
<1>5. LoadedInv
  BY <1>1, <1>2, EmptySnapshot DEF Init, LoadedInv, Loaded
<1> QED BY <1>4, <1>5 DEF TypeInv

\* At every step every variable holds values of the kind the code gives it; what
\* a complete state file or a loaded snapshot holds are settings of the machine.
THEOREM TypeCorrect == Spec => []TypeInv
  BY TypesHold, TypesInductive, PTL DEF Spec

-----------------------------------------------------------------------------
(* What the state file is worth                                            *)

\* Settings that are the user's.
Faithful(f) == \A k \in Keys(platform) : SameSetting(k, f[k], orig[k])

\* A Set is alone.
Exclusion == \A p, q \in Procs : InSet(p) /\ ~Ended(q) => p = q

\* A complete state file is the user's settings, and without one they are live.
FileInv ==
  /\ IF file \in {Absent, Torn} THEN Faithful(store) ELSE Faithful(file)
  /\ file = Torn => \E p \in Procs : pc[p] = "write"

\* What a call has read, set or restored so far.
Call(p) ==
  /\ pc[p] = "snap" =>
       file = Absent /\ \A i \in 1 .. at[p] : SameSetting(Key(i), mem[p][Key(i)], orig[Key(i)])
  /\ pc[p] = "write" => file = Torn
  /\ pc[p] \in {"write", "r_open", "r_set"} => Faithful(mem[p])
  /\ pc[p] = "set" =>
       file \notin {Absent, Torn} /\ \A i \in 1 .. at[p] : store[SetOrder[i]] = Ours(SetOrder[i])
  /\ pc[p] = "r_set" => \A i \in 1 .. at[p] : SameSetting(Key(i), store[Key(i)], orig[Key(i)])

CallInv == \A p \in Procs : Call(p)

\* Every key is Redactr's or the user's.
ValueInv == \A k \in Keys(platform) : store[k] = Ours(k) \/ SameSetting(k, store[k], orig[k])

\* A proxy that is switched on on Windows is Redactr or what the user had on.
RouteInv ==
  platform = "windows" =>
    /\ store["ProxyEnable"] = "on" =>
         \/ store["ProxyServer"] = "ours"
         \/ orig["ProxyEnable"] = "on" /\ store["ProxyServer"] = orig["ProxyServer"]
    /\ orig["ProxyEnable"] = "on" => store["ProxyEnable"] = "on"

\* All of it, as long as nothing has defeated the snapshot.
Good == Exclusion /\ FileInv /\ CallInv /\ ValueInv /\ RouteInv
Parts == Unbroken => Good

\* What has been seen stays seen.
LEMMA UnbrokenBefore ==
  ASSUME [Next]_vars, Unbroken'
  PROVE  Unbroken
<1>1. seen \subseteq seen'
  BY DEF Next, SetStep, RevertStep, BeginSet, BeginRevert, BeginCall, SetStat, SnapshotKey,
         CreateStateFile, WriteStateFile, SetKey, SetDone, SetFails, SaveFails, RevertStat,
         LoadState, OpenKey, RestoreKey, RemoveStateFile, Killed, Edit, Note, history, vars
<1> QED BY <1>1 DEF Unbroken

\* A Set stays alone: a call that would join it is an overlap.
LEMMA ExclusionKept ==
  ASSUME TypeInv, Good, Unbroken', [Next]_vars
  PROVE  Exclusion'
<1> USE DEF Goto, Begin, NextKey, Return, Note, BeginCall, callVars,
            history, SetPhases, RevertPhases, EndPhases, Ended, InSet,
            Unbroken, Breaking, Good, Exclusion, TypeInv, TypeOK
<1>1. ASSUME NEW p \in Procs, BeginSet(p) PROVE Exclusion'
  <2>1. ASSUME NEW q \in Procs, NEW r \in Procs, InSet(q)', ~Ended(r)'
        PROVE  q = r
    BY <1>1, <2>1 DEF BeginSet
  <2> QED BY <2>1
<1>2. ASSUME NEW p \in Procs, SetStat(p) PROVE Exclusion'
  <2>1. ASSUME NEW q \in Procs, NEW r \in Procs, InSet(q)', ~Ended(r)'
        PROVE  q = r
    BY <1>2, <2>1 DEF SetStat
  <2> QED BY <2>1
<1>3. ASSUME NEW p \in Procs, SnapshotKey(p) PROVE Exclusion'
  <2>1. ASSUME NEW q \in Procs, NEW r \in Procs, InSet(q)', ~Ended(r)'
        PROVE  q = r
    BY <1>3, <2>1 DEF SnapshotKey
  <2> QED BY <2>1
<1>4. ASSUME NEW p \in Procs, CreateStateFile(p) PROVE Exclusion'
  <2>1. ASSUME NEW q \in Procs, NEW r \in Procs, InSet(q)', ~Ended(r)'
        PROVE  q = r
    BY <1>4, <2>1 DEF CreateStateFile
  <2> QED BY <2>1
<1>5. ASSUME NEW p \in Procs, WriteStateFile(p) PROVE Exclusion'
  <2>1. ASSUME NEW q \in Procs, NEW r \in Procs, InSet(q)', ~Ended(r)'
        PROVE  q = r
    BY <1>5, <2>1 DEF WriteStateFile
  <2> QED BY <2>1
<1>6. ASSUME NEW p \in Procs, SetKey(p) PROVE Exclusion'
  <2>1. ASSUME NEW q \in Procs, NEW r \in Procs, InSet(q)', ~Ended(r)'
        PROVE  q = r
    BY <1>6, <2>1 DEF SetKey
  <2> QED BY <2>1
<1>7. ASSUME NEW p \in Procs, SetDone(p) PROVE Exclusion'
  <2>1. ASSUME NEW q \in Procs, NEW r \in Procs, InSet(q)', ~Ended(r)'
        PROVE  q = r
    BY <1>7, <2>1 DEF SetDone
  <2> QED BY <2>1
<1>8. ASSUME NEW p \in Procs, SetFails(p) PROVE Exclusion'
  <2>1. ASSUME NEW q \in Procs, NEW r \in Procs, InSet(q)', ~Ended(r)'
        PROVE  q = r
    BY <1>8, <2>1 DEF SetFails
  <2> QED BY <2>1
<1>9. ASSUME NEW p \in Procs, SaveFails(p) PROVE Exclusion'
  <2>1. ASSUME NEW q \in Procs, NEW r \in Procs, InSet(q)', ~Ended(r)'
        PROVE  q = r
    BY <1>9, <2>1 DEF SaveFails
  <2> QED BY <2>1
<1>10. ASSUME NEW p \in Procs, BeginRevert(p) PROVE Exclusion'
  <2>1. ASSUME NEW q \in Procs, NEW r \in Procs, InSet(q)', ~Ended(r)'
        PROVE  q = r
    BY <1>10, <2>1 DEF BeginRevert
  <2> QED BY <2>1
<1>11. ASSUME NEW p \in Procs, RevertStat(p) PROVE Exclusion'
  <2>1. ASSUME NEW q \in Procs, NEW r \in Procs, InSet(q)', ~Ended(r)'
        PROVE  q = r
    BY <1>11, <2>1 DEF RevertStat
  <2> QED BY <2>1
<1>12. ASSUME NEW p \in Procs, LoadState(p) PROVE Exclusion'
  <2>1. ASSUME NEW q \in Procs, NEW r \in Procs, InSet(q)', ~Ended(r)'
        PROVE  q = r
    BY <1>12, <2>1 DEF LoadState
  <2> QED BY <2>1
<1>13. ASSUME NEW p \in Procs, OpenKey(p) PROVE Exclusion'
  <2>1. ASSUME NEW q \in Procs, NEW r \in Procs, InSet(q)', ~Ended(r)'
        PROVE  q = r
    BY <1>13, <2>1 DEF OpenKey
  <2> QED BY <2>1
<1>14. ASSUME NEW p \in Procs, RestoreKey(p) PROVE Exclusion'
  <2>1. ASSUME NEW q \in Procs, NEW r \in Procs, InSet(q)', ~Ended(r)'
        PROVE  q = r
    BY <1>14, <2>1 DEF RestoreKey
  <2> QED BY <2>1
<1>15. ASSUME NEW p \in Procs, RemoveStateFile(p) PROVE Exclusion'
  <2>1. ASSUME NEW q \in Procs, NEW r \in Procs, InSet(q)', ~Ended(r)'
        PROVE  q = r
    BY <1>15, <2>1 DEF RemoveStateFile
  <2> QED BY <2>1
<1>16. ASSUME NEW p \in Procs, Killed(p) PROVE Exclusion'
  <2>1. ASSUME NEW q \in Procs, NEW r \in Procs, InSet(q)', ~Ended(r)'
        PROVE  q = r
    BY <1>16, <2>1 DEF Killed
  <2> QED BY <2>1
<1>17. ASSUME NEW new \in Priors, Edit(new) PROVE Exclusion'
  <2>1. ASSUME NEW q \in Procs, NEW r \in Procs, InSet(q)', ~Ended(r)'
        PROVE  q = r
    BY <1>17, <2>1 DEF Edit
  <2> QED BY <2>1
<1>18. CASE UNCHANGED vars
  <2>1. ASSUME NEW q \in Procs, NEW r \in Procs, InSet(q)', ~Ended(r)'
        PROVE  q = r
    BY <1>18, <2>1 DEF vars
  <2> QED BY <2>1
<1> QED
  BY <1>1, <1>2, <1>3, <1>4, <1>5, <1>6, <1>7, <1>8, <1>9, <1>10, <1>11,
     <1>12, <1>13, <1>14, <1>15, <1>16, <1>17, <1>18 DEF Next, SetStep,
     RevertStep

\* The state file stays the user's settings, or the live ones do without it.
LEMMA FileInvKept ==
  ASSUME TypeInv, Good, Unbroken', [Next]_vars
  PROVE  FileInv'
<1> USE DEF Goto, Begin, NextKey, Return, Note, BeginCall, callVars,
            history, SetPhases, RevertPhases, EndPhases, Ended, InSet,
            Unbroken, Breaking, Good, FileInv, TypeInv, TypeOK
<1>1. ASSUME NEW p \in Procs, BeginSet(p) PROVE FileInv'
  <2>1. platform' = platform /\ store' = store /\ file' = file /\ orig' = orig
    BY <1>1 DEF BeginSet
  <2>2. \A q \in Procs : pc[q] = "write" => pc'[q] = "write"
    BY <1>1 DEF BeginSet
  <2> QED BY <2>1, <2>2 DEF Faithful
<1>2. ASSUME NEW p \in Procs, SetStat(p) PROVE FileInv'
  <2>1. platform' = platform /\ store' = store /\ file' = file /\ orig' = orig
    BY <1>2 DEF SetStat
  <2>2. \A q \in Procs : pc[q] = "write" => pc'[q] = "write"
    BY <1>2 DEF SetStat
  <2> QED BY <2>1, <2>2 DEF Faithful
<1>3. ASSUME NEW p \in Procs, SnapshotKey(p) PROVE FileInv'
  <2>1. platform' = platform /\ store' = store /\ file' = file /\ orig' = orig
    BY <1>3 DEF SnapshotKey
  <2>2. \A q \in Procs : pc[q] = "write" => pc'[q] = "write"
    BY <1>3 DEF SnapshotKey
  <2> QED BY <2>1, <2>2 DEF Faithful
<1>4. ASSUME NEW p \in Procs, CreateStateFile(p) PROVE FileInv'
  <2>1. file = Absent
    BY <1>4 DEF CreateStateFile, CallInv, Call
  <2>2. Faithful(store) /\ file' = Torn /\ pc'[p] = "write"
    BY <1>4, <2>1 DEF CreateStateFile
  <2> QED BY <1>4, <2>2 DEF CreateStateFile, Faithful
<1>5. ASSUME NEW p \in Procs, WriteStateFile(p) PROVE FileInv'
  <2>1. IsStore(mem[p], platform) /\ file' = mem[p]
    BY <1>5 DEF WriteStateFile, LoadedInv, Loaded
  <2>2. file' \notin {Absent, Torn}
    BY <2>1, StoreIsComplete
  <2>3. Faithful(mem[p])
    BY <1>5 DEF WriteStateFile, CallInv, Call
  <2> QED BY <1>5, <2>1, <2>2, <2>3 DEF WriteStateFile, Faithful
<1>6. ASSUME NEW p \in Procs, SetKey(p) PROVE FileInv'
  <2>1. file \notin {Absent, Torn}
    BY <1>6 DEF SetKey, CallInv, Call
  <2> QED BY <1>6, <2>1 DEF SetKey, Faithful
<1>7. ASSUME NEW p \in Procs, SetDone(p) PROVE FileInv'
  <2>1. platform' = platform /\ store' = store /\ file' = file /\ orig' = orig
    BY <1>7 DEF SetDone
  <2>2. \A q \in Procs : pc[q] = "write" => pc'[q] = "write"
    BY <1>7 DEF SetDone
  <2> QED BY <2>1, <2>2 DEF Faithful
<1>8. ASSUME NEW p \in Procs, SetFails(p) PROVE FileInv'
  <2>1. platform' = platform /\ store' = store /\ file' = file /\ orig' = orig
    BY <1>8 DEF SetFails
  <2>2. \A q \in Procs : pc[q] = "write" => pc'[q] = "write"
    BY <1>8 DEF SetFails
  <2> QED BY <2>1, <2>2 DEF Faithful
<1>9. ASSUME NEW p \in Procs, SaveFails(p) PROVE FileInv'
  <2>1. platform' = platform /\ store' = store /\ file' = file /\ orig' = orig
    BY <1>9 DEF SaveFails
  <2>2. \A q \in Procs : pc[q] = "write" => pc'[q] = "write"
    BY <1>9 DEF SaveFails
  <2> QED BY <2>1, <2>2 DEF Faithful
<1>10. ASSUME NEW p \in Procs, BeginRevert(p) PROVE FileInv'
  <2>1. platform' = platform /\ store' = store /\ file' = file /\ orig' = orig
    BY <1>10 DEF BeginRevert
  <2>2. \A q \in Procs : pc[q] = "write" => pc'[q] = "write"
    BY <1>10 DEF BeginRevert
  <2> QED BY <2>1, <2>2 DEF Faithful
<1>11. ASSUME NEW p \in Procs, RevertStat(p) PROVE FileInv'
  <2>1. platform' = platform /\ store' = store /\ file' = file /\ orig' = orig
    BY <1>11 DEF RevertStat
  <2>2. \A q \in Procs : pc[q] = "write" => pc'[q] = "write"
    BY <1>11 DEF RevertStat
  <2> QED BY <2>1, <2>2 DEF Faithful
<1>12. ASSUME NEW p \in Procs, LoadState(p) PROVE FileInv'
  <2>1. platform' = platform /\ store' = store /\ file' = file /\ orig' = orig
    BY <1>12 DEF LoadState
  <2>2. \A q \in Procs : pc[q] = "write" => pc'[q] = "write"
    BY <1>12 DEF LoadState
  <2> QED BY <2>1, <2>2 DEF Faithful
<1>13. ASSUME NEW p \in Procs, OpenKey(p) PROVE FileInv'
  <2>1. platform' = platform /\ store' = store /\ file' = file /\ orig' = orig
    BY <1>13 DEF OpenKey
  <2>2. \A q \in Procs : pc[q] = "write" => pc'[q] = "write"
    BY <1>13 DEF OpenKey
  <2> QED BY <2>1, <2>2 DEF Faithful
<1>14. ASSUME NEW p \in Procs, RestoreKey(p) PROVE FileInv'
  <2>1. platform' = platform /\ file' = file /\ orig' = orig /\ pc' = pc
    BY <1>14 DEF RestoreKey
  <2>2. Faithful(store) => Faithful(store)'
    <3> DEFINE k == Key(at[p] + 1)
    <3>1. k \in Keys(platform) /\ mem[p][k] \in Values(k)
      BY <1>14, Visits DEF RestoreKey, Key, LoadedInv, Loaded, IsStore
    <3>2. SameSetting(k, mem[p][k], orig[k])
      BY <1>14, <3>1 DEF RestoreKey, CallInv, Call, Faithful
    <3>3. SameSetting(k, Restored(k, mem[p][k], store[k]), orig[k])
      BY <3>1, <3>2, RestoredValue
    <3>4. store' = [store EXCEPT ![k] = Restored(k, mem[p][k], store[k])]
      BY <1>14 DEF RestoreKey, Key
    <3> HIDE DEF k
    <3>5. \A j \in Keys(platform) : store'[j] = IF j = k THEN Restored(k, mem[p][k], store[k]) ELSE store[j]
      BY <3>1, <3>4 DEF IsStore, Snapshots
    <3> QED BY <2>1, <3>3, <3>5 DEF Faithful
  <2> QED BY <2>1, <2>2 DEF Faithful
<1>15. ASSUME NEW p \in Procs, RemoveStateFile(p) PROVE FileInv'
  <2>1. platform' = platform /\ store' = store /\ orig' = orig /\ file' \in {Absent, file}
    BY <1>15 DEF RemoveStateFile
  <2>2. \A q \in Procs : pc[q] = "write" => pc'[q] = "write"
    BY <1>15 DEF RemoveStateFile
  <2>3. Faithful(store)
    <3>1. \A i \in 1 .. Len(Ordered(platform)) : SameSetting(Key(i), store[Key(i)], orig[Key(i)])
      BY <1>15 DEF RemoveStateFile, CallInv, Call
    <3> QED BY <3>1, Visits DEF Faithful, Key
  <2> QED BY <2>1, <2>2, <2>3, SystemProxyKeysAssumption DEF Faithful
<1>16. ASSUME NEW p \in Procs, Killed(p) PROVE FileInv'
  <2>1. platform' = platform /\ store' = store /\ file' = file /\ orig' = orig
    BY <1>16 DEF Killed
  <2>2. \A q \in Procs : pc[q] = "write" => pc'[q] = "write"
    BY <1>16 DEF Killed
  <2> QED BY <2>1, <2>2 DEF Faithful
<1>17. ASSUME NEW new \in Priors, Edit(new) PROVE FileInv'
  <2>1. file = Absent /\ store' = orig' /\ file' = file /\ platform' = platform
    BY <1>17 DEF Edit, SnapshotLive
  <2> QED BY <2>1, SystemProxyKeysAssumption DEF Faithful, SameSetting
<1>18. CASE UNCHANGED vars
  <2>1. platform' = platform /\ store' = store /\ file' = file /\ orig' = orig
    BY <1>18 DEF vars
  <2>2. \A q \in Procs : pc[q] = "write" => pc'[q] = "write"
    BY <1>18 DEF vars
  <2> QED BY <2>1, <2>2 DEF Faithful
<1> QED
  BY <1>1, <1>2, <1>3, <1>4, <1>5, <1>6, <1>7, <1>8, <1>9, <1>10, <1>11,
     <1>12, <1>13, <1>14, <1>15, <1>16, <1>17, <1>18 DEF Next, SetStep,
     RevertStep

\* What a call knows stays true, whatever the others do.
LEMMA CallInvKept ==
  ASSUME TypeInv, Good, Unbroken', [Next]_vars
  PROVE  CallInv'
<1> USE DEF Goto, Begin, NextKey, Return, Note, BeginCall, callVars,
            history, SetPhases, RevertPhases, EndPhases, Ended, InSet,
            Unbroken, Breaking, Good, TypeInv, TypeOK
<1>1. ASSUME NEW p \in Procs, BeginSet(p) PROVE CallInv'
  <2> SUFFICES ASSUME NEW q \in Procs PROVE Call(q)'
    BY DEF CallInv
  <2>3. platform' = platform /\ orig' = orig
    BY <1>1 DEF BeginSet
  <2>4. Call(p) /\ Call(q)
    BY DEF CallInv
  <2>1. CASE q = p
    BY <1>1, <2>3, <2>4, <2>1 DEF BeginSet, Call, Faithful, Key, SetOrder
  <2>2. CASE q # p
    BY <1>1, <2>3, <2>4, <2>2 DEF BeginSet, Call, Faithful, Key, SetOrder
  <2> QED BY <2>1, <2>2
<1>2. ASSUME NEW p \in Procs, SetStat(p) PROVE CallInv'
  <2> SUFFICES ASSUME NEW q \in Procs PROVE Call(q)'
    BY DEF CallInv
  <2>3. platform' = platform /\ orig' = orig
    BY <1>2 DEF SetStat
  <2>4. Call(p) /\ Call(q)
    BY DEF CallInv
  <2>5. file # Torn
    <3>1. ASSUME NEW r \in Procs, pc[r] = "write" PROVE FALSE
      BY <1>2, <3>1 DEF SetStat, Exclusion
    <3> QED BY <3>1 DEF FileInv
  <2>1. CASE q = p
    BY <1>2, <2>3, <2>4, <2>1, <2>5 DEF SetStat, NeedsSnapshot, Call
  <2>2. CASE q # p
    BY <1>2, <2>3, <2>4, <2>2 DEF SetStat, Call, Faithful, Key, SetOrder
  <2> QED BY <2>1, <2>2
<1>3. ASSUME NEW p \in Procs, SnapshotKey(p) PROVE CallInv'
  <2> SUFFICES ASSUME NEW q \in Procs PROVE Call(q)'
    BY DEF CallInv
  <2>3. platform' = platform /\ orig' = orig
    BY <1>3 DEF SnapshotKey
  <2>4. Call(p) /\ Call(q)
    BY DEF CallInv
  <2>1. CASE q = p
    <3> DEFINE k == Key(at[p] + 1)
    <3>0. Unbroken' => ~Note("read")
      OBVIOUS
    <3>1. k \in Keys(platform) /\ mem' = [mem EXCEPT ![p][k] = store[k]]
      BY <1>3, <3>0, Visits DEF SnapshotKey, Key
    <3>2. file = Absent /\ Faithful(store)
      BY <1>3, <2>4 DEF SnapshotKey, Call, FileInv
    <3>3. SameSetting(k, store[k], orig[k])
      BY <3>1, <3>2 DEF Faithful
    <3>4. \A j \in Keys(platform) : mem'[p][j] = IF j = k THEN store[k] ELSE mem[p][j]
      BY <3>1 DEF Snapshots
    <3>5. pc' = pc /\ pc[p] = "snap" /\ at'[p] = at[p] + 1 /\ file' = file
      BY <1>3 DEF SnapshotKey
    <3>6. \A i \in 1 .. at[p] + 1 : SameSetting(Key(i), mem'[p][Key(i)], orig[Key(i)])
      <4> SUFFICES ASSUME NEW i \in 1 .. at[p] + 1
                   PROVE  SameSetting(Key(i), mem'[p][Key(i)], orig[Key(i)])
        OBVIOUS
      <4>1. Key(i) \in Keys(platform) /\ (i \in 1 .. at[p] \/ i = at[p] + 1)
        BY <1>3, Visits DEF SnapshotKey, Key
      <4>2. CASE Key(i) = k
        BY <3>3, <3>4, <4>1, <4>2
      <4>3. CASE Key(i) # k
        <5> HIDE DEF k
        <5>1. i \in 1 .. at[p] \/ Key(i) = k
          BY <4>1 DEF k
        <5>2. SameSetting(Key(i), mem[p][Key(i)], orig[Key(i)])
          BY <2>4, <3>5, <4>3, <5>1 DEF Call
        <5> QED BY <3>4, <4>1, <4>3, <5>2
      <4> QED BY <4>2, <4>3
    <3> HIDE DEF k
    <3> QED BY <2>3, <2>1, <3>2, <3>5, <3>6 DEF Call, Key
  <2>2. CASE q # p
    BY <1>3, <2>3, <2>4, <2>2 DEF SnapshotKey, Call, Faithful, Key, SetOrder
  <2> QED BY <2>1, <2>2
<1>4. ASSUME NEW p \in Procs, CreateStateFile(p) PROVE CallInv'
  <2> SUFFICES ASSUME NEW q \in Procs PROVE Call(q)'
    BY DEF CallInv
  <2>3. platform' = platform /\ orig' = orig
    BY <1>4 DEF CreateStateFile
  <2>4. Call(p) /\ Call(q)
    BY DEF CallInv
  <2>5. InSet(p) /\ (q # p => Ended(q))
    BY <1>4 DEF CreateStateFile, Exclusion
  <2>1. CASE q = p
    <3>1. \A i \in 1 .. Len(Ordered(platform)) : SameSetting(Key(i), mem[p][Key(i)], orig[Key(i)])
      BY <1>4, <2>4 DEF CreateStateFile, Call
    <3>2. Faithful(mem[p])
      BY <3>1, Visits DEF Faithful, Key
    <3> QED BY <1>4, <2>3, <2>1, <3>2 DEF CreateStateFile, Call, Faithful
  <2>2. CASE q # p
    BY <1>4, <2>2, <2>5 DEF CreateStateFile, Call
  <2> QED BY <2>1, <2>2
<1>5. ASSUME NEW p \in Procs, WriteStateFile(p) PROVE CallInv'
  <2> SUFFICES ASSUME NEW q \in Procs PROVE Call(q)'
    BY DEF CallInv
  <2>3. platform' = platform /\ orig' = orig
    BY <1>5 DEF WriteStateFile
  <2>4. Call(p) /\ Call(q)
    BY DEF CallInv
  <2>5. InSet(p) /\ (q # p => Ended(q))
    BY <1>5 DEF WriteStateFile, Exclusion
  <2>1. CASE q = p
    <3>1. IsStore(mem[p], platform) /\ file' = mem[p]
      BY <1>5 DEF WriteStateFile, LoadedInv, Loaded
    <3>2. file' \notin {Absent, Torn}
      BY <3>1, StoreIsComplete
    <3> QED BY <1>5, <2>3, <2>1, <3>2 DEF WriteStateFile, Call
  <2>2. CASE q # p
    BY <1>5, <2>2, <2>5 DEF WriteStateFile, Call
  <2> QED BY <2>1, <2>2
<1>6. ASSUME NEW p \in Procs, SetKey(p) PROVE CallInv'
  <2> SUFFICES ASSUME NEW q \in Procs PROVE Call(q)'
    BY DEF CallInv
  <2>3. platform' = platform /\ orig' = orig
    BY <1>6 DEF SetKey
  <2>4. Call(p) /\ Call(q)
    BY DEF CallInv
  <2>5. InSet(p) /\ (q # p => Ended(q))
    BY <1>6 DEF SetKey, Exclusion
  <2>1. CASE q = p
    <3> DEFINE k == SetOrder[at[p] + 1]
    <3>1. k \in Keys(platform) /\ at[p] + 1 \in 1 .. Len(SetOrder)
      BY <1>6, Visits, SetVisits DEF SetKey
    <3>2. store' = [store EXCEPT ![k] = Ours(k)]
      BY <1>6 DEF SetKey
    <3>3. \A j \in Keys(platform) : store'[j] = IF j = k THEN Ours(k) ELSE store[j]
      BY <3>1, <3>2 DEF IsStore, Snapshots
    <3>4. pc' = pc /\ pc[p] = "set" /\ at'[p] = at[p] + 1 /\ file' = file
      BY <1>6 DEF SetKey
    <3>5. \A i \in 1 .. at[p] + 1 : store'[SetOrder[i]] = Ours(SetOrder[i])
      <4> SUFFICES ASSUME NEW i \in 1 .. at[p] + 1
                   PROVE  store'[SetOrder[i]] = Ours(SetOrder[i])
        OBVIOUS
      <4>1. SetOrder[i] \in Keys(platform) /\ (i \in 1 .. at[p] \/ i = at[p] + 1)
        BY <3>1, SetVisits
      <4>2. i \in 1 .. at[p] => store[SetOrder[i]] = Ours(SetOrder[i])
        BY <2>4, <3>4 DEF Call
      <4> QED BY <3>3, <4>1, <4>2
    <3> HIDE DEF k
    <3>6. SetOrder' = SetOrder
      BY <2>3 DEF SetOrder
    <3> QED BY <2>4, <2>1, <3>4, <3>5, <3>6 DEF Call
  <2>2. CASE q # p
    BY <1>6, <2>2, <2>5 DEF SetKey, Call
  <2> QED BY <2>1, <2>2
<1>7. ASSUME NEW p \in Procs, SetDone(p) PROVE CallInv'
  <2> SUFFICES ASSUME NEW q \in Procs PROVE Call(q)'
    BY DEF CallInv
  <2>3. platform' = platform /\ orig' = orig
    BY <1>7 DEF SetDone
  <2>4. Call(p) /\ Call(q)
    BY DEF CallInv
  <2>1. CASE q = p
    BY <1>7, <2>3, <2>4, <2>1 DEF SetDone, Call, Faithful, Key, SetOrder
  <2>2. CASE q # p
    BY <1>7, <2>3, <2>4, <2>2 DEF SetDone, Call, Faithful, Key, SetOrder
  <2> QED BY <2>1, <2>2
<1>8. ASSUME NEW p \in Procs, SetFails(p) PROVE CallInv'
  <2> SUFFICES ASSUME NEW q \in Procs PROVE Call(q)'
    BY DEF CallInv
  <2>3. platform' = platform /\ orig' = orig
    BY <1>8 DEF SetFails
  <2>4. Call(p) /\ Call(q)
    BY DEF CallInv
  <2>1. CASE q = p
    BY <1>8, <2>3, <2>4, <2>1 DEF SetFails, Call, Faithful, Key, SetOrder
  <2>2. CASE q # p
    BY <1>8, <2>3, <2>4, <2>2 DEF SetFails, Call, Faithful, Key, SetOrder
  <2> QED BY <2>1, <2>2
<1>9. ASSUME NEW p \in Procs, SaveFails(p) PROVE CallInv'
  <2> SUFFICES ASSUME NEW q \in Procs PROVE Call(q)'
    BY DEF CallInv
  <2>3. platform' = platform /\ orig' = orig
    BY <1>9 DEF SaveFails
  <2>4. Call(p) /\ Call(q)
    BY DEF CallInv
  <2>1. CASE q = p
    BY <1>9, <2>3, <2>4, <2>1 DEF SaveFails, Call, Faithful, Key, SetOrder
  <2>2. CASE q # p
    BY <1>9, <2>3, <2>4, <2>2 DEF SaveFails, Call, Faithful, Key, SetOrder
  <2> QED BY <2>1, <2>2
<1>10. ASSUME NEW p \in Procs, BeginRevert(p) PROVE CallInv'
  <2> SUFFICES ASSUME NEW q \in Procs PROVE Call(q)'
    BY DEF CallInv
  <2>3. platform' = platform /\ orig' = orig
    BY <1>10 DEF BeginRevert
  <2>4. Call(p) /\ Call(q)
    BY DEF CallInv
  <2>1. CASE q = p
    BY <1>10, <2>3, <2>4, <2>1 DEF BeginRevert, Call, Faithful, Key, SetOrder
  <2>2. CASE q # p
    BY <1>10, <2>3, <2>4, <2>2 DEF BeginRevert, Call, Faithful, Key, SetOrder
  <2> QED BY <2>1, <2>2
<1>11. ASSUME NEW p \in Procs, RevertStat(p) PROVE CallInv'
  <2> SUFFICES ASSUME NEW q \in Procs PROVE Call(q)'
    BY DEF CallInv
  <2>3. platform' = platform /\ orig' = orig
    BY <1>11 DEF RevertStat
  <2>4. Call(p) /\ Call(q)
    BY DEF CallInv
  <2>1. CASE q = p
    BY <1>11, <2>3, <2>4, <2>1 DEF RevertStat, Call, Faithful, Key, SetOrder
  <2>2. CASE q # p
    BY <1>11, <2>3, <2>4, <2>2 DEF RevertStat, Call, Faithful, Key, SetOrder
  <2> QED BY <2>1, <2>2
<1>12. ASSUME NEW p \in Procs, LoadState(p) PROVE CallInv'
  <2> SUFFICES ASSUME NEW q \in Procs PROVE Call(q)'
    BY DEF CallInv
  <2>3. platform' = platform /\ orig' = orig
    BY <1>12 DEF LoadState
  <2>4. Call(p) /\ Call(q)
    BY DEF CallInv
  <2>1. CASE q = p
    <3>1. CASE file \in {Absent, Torn}
      BY <1>12, <2>1, <3>1 DEF LoadState, Call
    <3>2. CASE file \notin {Absent, Torn}
      <4>1. Faithful(file)
        BY <3>2 DEF FileInv
      <4>2. pc'[p] \in {"r_set", "r_open"} /\ at'[p] = 0 /\ mem'[p] = file
        BY <1>12, <3>2 DEF LoadState
      <4> QED BY <2>3, <2>1, <4>1, <4>2 DEF Call, Faithful
    <3> QED BY <3>1, <3>2
  <2>2. CASE q # p
    BY <1>12, <2>3, <2>4, <2>2 DEF LoadState, Call, Faithful, Key, SetOrder
  <2> QED BY <2>1, <2>2
<1>13. ASSUME NEW p \in Procs, OpenKey(p) PROVE CallInv'
  <2> SUFFICES ASSUME NEW q \in Procs PROVE Call(q)'
    BY DEF CallInv
  <2>3. platform' = platform /\ orig' = orig
    BY <1>13 DEF OpenKey
  <2>4. Call(p) /\ Call(q)
    BY DEF CallInv
  <2>1. CASE q = p
    <3>1. at[p] = 0
      BY <1>13 DEF OpenKey, LoadedInv, Loaded
    <3> QED BY <1>13, <2>3, <2>4, <2>1, <3>1 DEF OpenKey, Call, Faithful
  <2>2. CASE q # p
    BY <1>13, <2>3, <2>4, <2>2 DEF OpenKey, Call, Faithful, Key, SetOrder
  <2> QED BY <2>1, <2>2
<1>14. ASSUME NEW p \in Procs, RestoreKey(p) PROVE CallInv'
  <2> SUFFICES ASSUME NEW q \in Procs PROVE Call(q)'
    BY DEF CallInv
  <2>3. platform' = platform /\ orig' = orig
    BY <1>14 DEF RestoreKey
  <2>4. Call(p) /\ Call(q)
    BY DEF CallInv
  <2>5. platform' = platform /\ file' = file /\ pc' = pc /\ mem' = mem
    BY <1>14 DEF RestoreKey
  <2>6. ASSUME NEW j \in Keys(platform), SameSetting(j, store[j], orig[j]) \/ j = Key(at[p] + 1)
        PROVE  SameSetting(j, store'[j], orig[j])
    <3> DEFINE k == Key(at[p] + 1)
    <3>1. k \in Keys(platform) /\ mem[p][k] \in Values(k)
      BY <1>14, Visits DEF RestoreKey, Key, LoadedInv, Loaded, IsStore
    <3>2. SameSetting(k, mem[p][k], orig[k])
      BY <1>14, <2>4, <3>1 DEF RestoreKey, Call, Faithful
    <3>3. SameSetting(k, Restored(k, mem[p][k], store[k]), orig[k])
      BY <3>1, <3>2, RestoredValue
    <3>4. store' = [store EXCEPT ![k] = Restored(k, mem[p][k], store[k])]
      BY <1>14 DEF RestoreKey, Key
    <3> HIDE DEF k
    <3>5. store'[j] = IF j = k THEN Restored(k, mem[p][k], store[k]) ELSE store[j]
      BY <3>1, <3>4 DEF IsStore, Snapshots
    <3> QED BY <2>6, <3>3, <3>5 DEF k
  <2>7. pc[p] = "r_set" /\ at[p] + 1 \in 1 .. Len(Ordered(platform))
    BY <1>14, Visits DEF RestoreKey
  <2>1. CASE q = p
    <3>1. ASSUME NEW i \in 1 .. at[p] + 1 PROVE SameSetting(Key(i), store'[Key(i)], orig[Key(i)])
      <4>1. Key(i) \in Keys(platform) /\ (i \in 1 .. at[p] \/ i = at[p] + 1)
        BY <2>7, Visits DEF Key
      <4>2. i \in 1 .. at[p] => SameSetting(Key(i), store[Key(i)], orig[Key(i)])
        BY <2>4, <2>7 DEF Call
      <4> QED BY <2>6, <4>1, <4>2
    <3>2. at'[p] = at[p] + 1
      BY <1>14 DEF RestoreKey
    <3> QED BY <2>3, <2>4, <2>1, <2>5, <2>7, <3>1, <3>2 DEF Call, Faithful, Key
  <2>2. CASE q # p
    <3>1. pc[q] = "r_set" => \A i \in 1 .. at[q] : SameSetting(Key(i), store'[Key(i)], orig[Key(i)])
      <4> SUFFICES ASSUME pc[q] = "r_set", NEW i \in 1 .. at[q]
                   PROVE  SameSetting(Key(i), store'[Key(i)], orig[Key(i)])
        OBVIOUS
      <4>1. Key(i) \in Keys(platform)
        BY Visits DEF Key
      <4> QED BY <2>6, <2>4, <4>1 DEF Call
    <3>2. pc[q] # "set"
      BY <2>2, <2>7 DEF Exclusion
    <3>3. at'[q] = at[q]
      BY <1>14, <2>2 DEF RestoreKey
    <3> QED BY <2>3, <2>4, <2>5, <3>1, <3>2, <3>3 DEF Call, Faithful, Key
  <2> QED BY <2>1, <2>2
<1>15. ASSUME NEW p \in Procs, RemoveStateFile(p) PROVE CallInv'
  <2> SUFFICES ASSUME NEW q \in Procs PROVE Call(q)'
    BY DEF CallInv
  <2>3. platform' = platform /\ orig' = orig
    BY <1>15 DEF RemoveStateFile
  <2>4. Call(p) /\ Call(q)
    BY DEF CallInv
  <2>1. CASE q = p
    BY <1>15, <2>3, <2>4, <2>1 DEF RemoveStateFile, Call, Faithful, Key, SetOrder
  <2>2. CASE q # p
    <3>1. ~InSet(q)
      BY <1>15, <2>2 DEF RemoveStateFile, Exclusion
    <3> QED BY <1>15, <2>3, <2>4, <2>2, <3>1 DEF RemoveStateFile, Call, Faithful, Key
  <2> QED BY <2>1, <2>2
<1>16. ASSUME NEW p \in Procs, Killed(p) PROVE CallInv'
  <2> SUFFICES ASSUME NEW q \in Procs PROVE Call(q)'
    BY DEF CallInv
  <2>3. platform' = platform /\ orig' = orig
    BY <1>16 DEF Killed
  <2>4. Call(p) /\ Call(q)
    BY DEF CallInv
  <2>1. CASE q = p
    BY <1>16, <2>3, <2>4, <2>1 DEF Killed, Call, Faithful, Key, SetOrder
  <2>2. CASE q # p
    BY <1>16, <2>3, <2>4, <2>2 DEF Killed, Call, Faithful, Key, SetOrder
  <2> QED BY <2>1, <2>2
<1>17. ASSUME NEW new \in Priors, Edit(new) PROVE CallInv'
  <2>1. \A q \in Procs : Ended(q) /\ pc'[q] = pc[q]
    BY <1>17 DEF Edit, SnapshotLive
  <2> QED BY <2>1 DEF CallInv, Call
<1>18. CASE UNCHANGED vars
  BY <1>18 DEF vars, CallInv, Call, Faithful, Key, SetOrder
<1> QED
  BY <1>1, <1>2, <1>3, <1>4, <1>5, <1>6, <1>7, <1>8, <1>9, <1>10, <1>11,
     <1>12, <1>13, <1>14, <1>15, <1>16, <1>17, <1>18 DEF Next, SetStep,
     RevertStep

\* No step gives a key a third value.
LEMMA ValueInvKept ==
  ASSUME TypeInv, Good, Unbroken', [Next]_vars
  PROVE  ValueInv'
<1> USE DEF Goto, Begin, NextKey, Return, Note, BeginCall, callVars,
            history, SetPhases, RevertPhases, EndPhases, Ended, InSet,
            Unbroken, Breaking, Good, TypeInv, TypeOK
<1>1. ASSUME NEW p \in Procs, BeginSet(p) PROVE ValueInv'
  BY <1>1 DEF BeginSet, ValueInv
<1>2. ASSUME NEW p \in Procs, SetStat(p) PROVE ValueInv'
  BY <1>2 DEF SetStat, ValueInv
<1>3. ASSUME NEW p \in Procs, SnapshotKey(p) PROVE ValueInv'
  BY <1>3 DEF SnapshotKey, ValueInv
<1>4. ASSUME NEW p \in Procs, CreateStateFile(p) PROVE ValueInv'
  BY <1>4 DEF CreateStateFile, ValueInv
<1>5. ASSUME NEW p \in Procs, WriteStateFile(p) PROVE ValueInv'
  BY <1>5 DEF WriteStateFile, ValueInv
<1>6. ASSUME NEW p \in Procs, SetKey(p) PROVE ValueInv'
  <2> DEFINE k == SetOrder[at[p] + 1]
  <2>1. k \in Keys(platform) /\ store' = [store EXCEPT ![k] = Ours(k)]
    BY <1>6, Visits, SetVisits DEF SetKey
  <2>2. \A j \in Keys(platform) : store'[j] = IF j = k THEN Ours(k) ELSE store[j]
    BY <2>1 DEF IsStore, Snapshots
  <2>3. platform' = platform /\ orig' = orig
    BY <1>6 DEF SetKey
  <2> QED BY <2>1, <2>2, <2>3 DEF ValueInv
<1>7. ASSUME NEW p \in Procs, SetDone(p) PROVE ValueInv'
  BY <1>7 DEF SetDone, ValueInv
<1>8. ASSUME NEW p \in Procs, SetFails(p) PROVE ValueInv'
  BY <1>8 DEF SetFails, ValueInv
<1>9. ASSUME NEW p \in Procs, SaveFails(p) PROVE ValueInv'
  BY <1>9 DEF SaveFails, ValueInv
<1>10. ASSUME NEW p \in Procs, BeginRevert(p) PROVE ValueInv'
  BY <1>10 DEF BeginRevert, ValueInv
<1>11. ASSUME NEW p \in Procs, RevertStat(p) PROVE ValueInv'
  BY <1>11 DEF RevertStat, ValueInv
<1>12. ASSUME NEW p \in Procs, LoadState(p) PROVE ValueInv'
  BY <1>12 DEF LoadState, ValueInv
<1>13. ASSUME NEW p \in Procs, OpenKey(p) PROVE ValueInv'
  BY <1>13 DEF OpenKey, ValueInv
<1>14. ASSUME NEW p \in Procs, RestoreKey(p) PROVE ValueInv'
  <2> DEFINE k == Key(at[p] + 1)
  <2>1. k \in Keys(platform) /\ mem[p][k] \in Values(k)
    BY <1>14, Visits DEF RestoreKey, Key, LoadedInv, Loaded, IsStore
  <2>2. SameSetting(k, mem[p][k], orig[k])
    BY <1>14, <2>1 DEF RestoreKey, CallInv, Call, Faithful
  <2>3. SameSetting(k, Restored(k, mem[p][k], store[k]), orig[k])
    BY <2>1, <2>2, RestoredValue
  <2>4. store' = [store EXCEPT ![k] = Restored(k, mem[p][k], store[k])]
    BY <1>14 DEF RestoreKey, Key
  <2> HIDE DEF k
  <2>5. \A j \in Keys(platform) : store'[j] = IF j = k THEN Restored(k, mem[p][k], store[k]) ELSE store[j]
    BY <2>1, <2>4 DEF IsStore, Snapshots
  <2>6. platform' = platform /\ orig' = orig
    BY <1>14 DEF RestoreKey
  <2> QED BY <2>3, <2>5, <2>6 DEF ValueInv
<1>15. ASSUME NEW p \in Procs, RemoveStateFile(p) PROVE ValueInv'
  BY <1>15 DEF RemoveStateFile, ValueInv
<1>16. ASSUME NEW p \in Procs, Killed(p) PROVE ValueInv'
  BY <1>16 DEF Killed, ValueInv
<1>17. ASSUME NEW new \in Priors, Edit(new) PROVE ValueInv'
  BY <1>17 DEF Edit, ValueInv, SameSetting
<1>18. CASE UNCHANGED vars
  BY <1>18 DEF vars, ValueInv
<1> QED
  BY <1>1, <1>2, <1>3, <1>4, <1>5, <1>6, <1>7, <1>8, <1>9, <1>10, <1>11,
     <1>12, <1>13, <1>14, <1>15, <1>16, <1>17, <1>18 DEF Next, SetStep,
     RevertStep

\* The order of the keys keeps the user's server off unless he had it on.
LEMMA RouteInvKept ==
  ASSUME TypeInv, Good, Unbroken', [Next]_vars
  PROVE  RouteInv'
<1> USE DEF Goto, Begin, NextKey, Return, Note, BeginCall, callVars,
            history, SetPhases, RevertPhases, EndPhases, Ended, InSet,
            Unbroken, Breaking, Good, TypeInv, TypeOK
<1>1. ASSUME NEW p \in Procs, BeginSet(p) PROVE RouteInv'
  BY <1>1 DEF BeginSet, RouteInv
<1>2. ASSUME NEW p \in Procs, SetStat(p) PROVE RouteInv'
  BY <1>2 DEF SetStat, RouteInv
<1>3. ASSUME NEW p \in Procs, SnapshotKey(p) PROVE RouteInv'
  BY <1>3 DEF SnapshotKey, RouteInv
<1>4. ASSUME NEW p \in Procs, CreateStateFile(p) PROVE RouteInv'
  BY <1>4 DEF CreateStateFile, RouteInv
<1>5. ASSUME NEW p \in Procs, WriteStateFile(p) PROVE RouteInv'
  BY <1>5 DEF WriteStateFile, RouteInv
<1>6. ASSUME NEW p \in Procs, SetKey(p) PROVE RouteInv'
  <2> SUFFICES ASSUME platform = "windows" PROVE RouteInv'
    BY <1>6 DEF SetKey, RouteInv
  <2>1. /\ Keys(platform) = {"ProxyEnable", "ProxyServer", "ProxyOverride"}
        /\ Ours("ProxyEnable") = "on" /\ Ours("ProxyServer") = "ours"
    BY KeySets DEF Ours
  <2>2. platform' = platform /\ orig' = orig
    BY <1>6 DEF SetKey
  <2> DEFINE k == SetOrder[at[p] + 1]
  <2>3. k \in Keys(platform) /\ store' = [store EXCEPT ![k] = Ours(k)]
    BY <1>6, Visits, SetVisits DEF SetKey
  <2>4. \A j \in Keys(platform) : store'[j] = IF j = k THEN Ours(k) ELSE store[j]
    BY <2>3 DEF IsStore, Snapshots
  <2>5. k = "ProxyEnable" => store["ProxyServer"] = "ours"
    <3>1. SetOrder = ServerFirst /\ Len(ServerFirst) = 3
      BY DEF SetOrder, ServerFirst
    <3>2. ServerFirst[1] = "ProxyServer"
      BY DEF ServerFirst
    <3>3. ServerFirst[3] = "ProxyOverride"
      BY DEF ServerFirst
    <3>4. at[p] \in 0 .. 2
      BY <1>6, <3>1, Visits DEF SetKey
    <3>5. k = "ProxyEnable" => at[p] = 1
      BY <3>1, <3>2, <3>3, <3>4
    <3>6. at[p] = 1 => store[SetOrder[1]] = Ours(SetOrder[1])
      BY <1>6 DEF SetKey, CallInv, Call
    <3> QED BY <2>1, <3>1, <3>2, <3>5, <3>6
  <2> HIDE DEF k
  <2>6. store'["ProxyServer"] = IF k = "ProxyServer" THEN "ours" ELSE store["ProxyServer"]
    BY <2>1, <2>4
  <2>7. store'["ProxyEnable"] = IF k = "ProxyEnable" THEN "on" ELSE store["ProxyEnable"]
    BY <2>1, <2>4
  <2> QED BY <2>2, <2>5, <2>6, <2>7 DEF RouteInv
<1>7. ASSUME NEW p \in Procs, SetDone(p) PROVE RouteInv'
  BY <1>7 DEF SetDone, RouteInv
<1>8. ASSUME NEW p \in Procs, SetFails(p) PROVE RouteInv'
  BY <1>8 DEF SetFails, RouteInv
<1>9. ASSUME NEW p \in Procs, SaveFails(p) PROVE RouteInv'
  BY <1>9 DEF SaveFails, RouteInv
<1>10. ASSUME NEW p \in Procs, BeginRevert(p) PROVE RouteInv'
  BY <1>10 DEF BeginRevert, RouteInv
<1>11. ASSUME NEW p \in Procs, RevertStat(p) PROVE RouteInv'
  BY <1>11 DEF RevertStat, RouteInv
<1>12. ASSUME NEW p \in Procs, LoadState(p) PROVE RouteInv'
  BY <1>12 DEF LoadState, RouteInv
<1>13. ASSUME NEW p \in Procs, OpenKey(p) PROVE RouteInv'
  BY <1>13 DEF OpenKey, RouteInv
<1>14. ASSUME NEW p \in Procs, RestoreKey(p) PROVE RouteInv'
  <2> SUFFICES ASSUME platform = "windows" PROVE RouteInv'
    BY <1>14 DEF RestoreKey, RouteInv
  <2>1. /\ Keys(platform) = {"ProxyEnable", "ProxyServer", "ProxyOverride"}
        /\ Ours("ProxyEnable") = "on" /\ Ours("ProxyServer") = "ours"
    BY KeySets DEF Ours
  <2>2. platform' = platform /\ orig' = orig
    BY <1>14 DEF RestoreKey
  <2> DEFINE k == Key(at[p] + 1)
             v == Restored(k, mem[p][k], store[k])
  <2>3. k \in Keys(platform) /\ mem[p][k] \in Values(k)
    BY <1>14, Visits DEF RestoreKey, Key, LoadedInv, Loaded, IsStore
  <2>4. SameSetting(k, mem[p][k], orig[k])
    BY <1>14, <2>3 DEF RestoreKey, CallInv, Call, Faithful
  <2>5. store' = [store EXCEPT ![k] = v]
    BY <1>14 DEF RestoreKey, Key
  <2>6. /\ k = "ProxyEnable" => (v = "on" <=> orig["ProxyEnable"] = "on")
        /\ k = "ProxyServer" => v = orig["ProxyServer"]
    BY <2>4, SystemProxyKeysAssumption DEF SameSetting, Restored
  <2>7. k = "ProxyServer" /\ store["ProxyEnable"] = "on" => orig["ProxyEnable"] = "on"
    <3>1. DOMAIN WindowsKeys = 1 .. 3 /\ Len(WindowsKeys) = 3
      BY DEF WindowsKeys
    <3>2. WindowsKeys[1] = "ProxyEnable"
      BY DEF WindowsKeys
    <3>3. Ordered(platform) = WindowsKeys
      BY DEF Ordered
    <3>4. Key(1) = "ProxyEnable"
      BY <3>2, <3>3 DEF Key
    <3>5. at[p] \in 0 .. 2
      BY <1>14, <3>1, <3>3 DEF RestoreKey
    <3>6. k = "ProxyServer" => at[p] >= 1
      <4>1. at[p] = 0 => k = Key(1)
        OBVIOUS
      <4> QED BY <3>4, <3>5, <4>1
    <3>7. at[p] >= 1 => SameSetting("ProxyEnable", store["ProxyEnable"], orig["ProxyEnable"])
      BY <1>14, <3>4, <3>5 DEF RestoreKey, CallInv, Call
    <3>8. SameSetting("ProxyEnable", store["ProxyEnable"], orig["ProxyEnable"]) /\ store["ProxyEnable"] = "on"
            => orig["ProxyEnable"] = "on"
      BY SystemProxyKeysAssumption DEF SameSetting, Restored
    <3> QED BY <3>6, <3>7, <3>8
  <2>8. store["ProxyServer"] = "ours" \/ store["ProxyServer"] = orig["ProxyServer"]
    BY <2>1 DEF ValueInv, SameSetting, Restored
  <2> HIDE DEF k, v
  <2>9. \A j \in Keys(platform) : store'[j] = IF j = k THEN v ELSE store[j]
    BY <2>3, <2>5 DEF IsStore, Snapshots
  <2>10. store'["ProxyServer"] = IF k = "ProxyServer" THEN v ELSE store["ProxyServer"]
    BY <2>1, <2>9
  <2>11. store'["ProxyEnable"] = IF k = "ProxyEnable" THEN v ELSE store["ProxyEnable"]
    BY <2>1, <2>9
  <2> QED BY <2>2, <2>6, <2>7, <2>8, <2>10, <2>11 DEF RouteInv
<1>15. ASSUME NEW p \in Procs, RemoveStateFile(p) PROVE RouteInv'
  BY <1>15 DEF RemoveStateFile, RouteInv
<1>16. ASSUME NEW p \in Procs, Killed(p) PROVE RouteInv'
  BY <1>16 DEF Killed, RouteInv
<1>17. ASSUME NEW new \in Priors, Edit(new) PROVE RouteInv'
  BY <1>17 DEF Edit, RouteInv
<1>18. CASE UNCHANGED vars
  BY <1>18 DEF vars, RouteInv
<1> QED
  BY <1>1, <1>2, <1>3, <1>4, <1>5, <1>6, <1>7, <1>8, <1>9, <1>10, <1>11,
     <1>12, <1>13, <1>14, <1>15, <1>16, <1>17, <1>18 DEF Next, SetStep,
     RevertStep

\* All of it is kept.
THEOREM PartsInductive == TypeInv /\ Parts /\ [Next]_vars => Parts'
<1> SUFFICES ASSUME TypeInv, Parts, [Next]_vars, Unbroken'
             PROVE  Good'
  BY DEF Parts
<1>1. Good
  BY UnbrokenBefore DEF Parts
<1>2. Exclusion' /\ FileInv' /\ CallInv' /\ ValueInv' /\ RouteInv'
  BY <1>1, ExclusionKept, FileInvKept, CallInvKept, ValueInvKept, RouteInvKept
<1> QED BY <1>2 DEF Good

\* It holds at first.
LEMMA PartsAtFirst == Init => Parts
<1> SUFFICES ASSUME Init PROVE Good
  BY DEF Parts
<1>1. Faithful(store)
  BY DEF Init, Faithful, SameSetting
<1>2. \A p \in Procs : pc[p] = "idle"
  BY DEF Init
<1>3. Exclusion /\ FileInv /\ CallInv
  BY <1>1, <1>2, SystemProxyKeysAssumption
     DEF Init, Exclusion, FileInv, CallInv, Call, InSet, SetPhases
<1>4. ValueInv
  BY <1>1 DEF ValueInv, Faithful
<1>5. RouteInv
  BY DEF Init, RouteInv
<1> QED BY <1>3, <1>4, <1>5 DEF Good

\* Every behaviour has the types and, unless something defeats the snapshot, the
\* parts.
LEMMA PartsHold == Spec => [](TypeInv /\ Parts)
  BY TypesHold, TypesInductive, PartsAtFirst, PartsInductive, PTL DEF Spec

-----------------------------------------------------------------------------
(* The properties                                                          *)

\* Every key that differs from what the user chose is recorded in the state file
\* as the user chose it.
THEOREM AlwaysRecoverable == Spec => []Recoverable
<1>1. TypeInv /\ Parts => Recoverable
  BY DEF Parts, Good, Recoverable, FileInv, Faithful
<1> QED BY <1>1, PartsHold, PTL

\* Without a state file every key is as the user chose it.
THEOREM AlwaysOffRestored == Spec => []OffMeansRestored
<1>1. TypeInv /\ Parts => OffMeansRestored
  BY DEF Parts, Good, OffMeansRestored, FileInv, Faithful
<1> QED BY <1>1, PartsHold, PTL

\* A Set that is through with its keys has made every one of them Redactr's, and
\* status reports it.
THEOREM AlwaysSuccessMeansOn == Spec => []SuccessMeansOn
<1>1. TypeInv /\ Parts => SuccessMeansOn
  <2> SUFFICES ASSUME TypeInv, Good, NEW p \in Procs, pc[p] = "set", at[p] = Len(SetOrder)
               PROVE  IsSet /\ \A k \in Keys(platform) : store[k] = Ours(k)
    BY DEF Parts, SuccessMeansOn
  <2>1. platform \in Platforms
    BY DEF TypeInv, TypeOK
  <2>2. \A i \in 1 .. Len(SetOrder) : store[SetOrder[i]] = Ours(SetOrder[i])
    BY DEF Good, CallInv, Call
  <2>3. \A k \in Keys(platform) : store[k] = Ours(k)
    BY <2>1, <2>2, SetVisits
  <2>4. IsSet
    BY <2>1, <2>3, KeySets DEF IsSet, Platforms
  <2> QED BY <2>3, <2>4
<1> QED BY <1>1, PartsHold, PTL

\* On Windows traffic goes where the user chose or to Redactr, and nowhere else.
THEOREM AlwaysOnlyChosenRoutes == Spec => []OnlyChosenRoutes
<1>1. TypeInv /\ Parts => OnlyChosenRoutes
  <2> SUFFICES ASSUME Good, platform = "windows"
               PROVE  \/ Route = "ours"
                      \/ Route = (IF orig["ProxyEnable"] = "on" THEN orig["ProxyServer"] ELSE Missing)
    BY DEF Parts, OnlyChosenRoutes
  <2> QED BY DEF Good, RouteInv, Route
<1> QED BY <1>1, PartsHold, PTL

-----------------------------------------------------------------------------
(* The abstract switch                                                     *)

\* Nobody chooses Redactr's server, so the user's settings never look set.
LEMMA ChosenIsNotSet ==
  ASSUME NEW w \in Platforms, NEW f \in Priors, DOMAIN f = Keys(w)
  PROVE  IF w = "linux" THEN f["https-host"] # "ours" ELSE f["ProxyServer"] # "ours"
<1>1. \A k \in Keys(w) : f[k] # "ours"
  BY SystemProxyKeysAssumption
<1> QED BY <1>1, KeySets DEF Platforms

LEMMA FaithfulIsNotSet ==
  ASSUME TypeInv, Faithful(store)
  PROVE  ~IsSet
<1>1. platform \in Platforms /\ orig \in Priors /\ DOMAIN orig = Keys(platform)
  BY DEF TypeInv, TypeOK, LoadedInv, IsStore, Snapshots
<1>2. IF platform = "linux" THEN orig["https-host"] # "ours" ELSE orig["ProxyServer"] # "ours"
  BY <1>1, ChosenIsNotSet
<1>3. CASE platform = "linux"
  <2>1. SameSetting("https-host", store["https-host"], orig["https-host"])
    BY <1>3, KeySets DEF Faithful
  <2> QED BY <1>2, <1>3, <2>1 DEF SameSetting, Restored, IsSet, Ours
<1>4. CASE platform = "windows"
  <2>1. SameSetting("ProxyServer", store["ProxyServer"], orig["ProxyServer"])
    BY <1>4, KeySets DEF Faithful
  <2> QED BY <1>2, <1>4, <2>1 DEF SameSetting, Restored, IsSet, Ours
<1> QED BY <1>1, <1>3, <1>4 DEF Platforms

\* A key for which Redactr's value is the user's own can have no other.
LEMMA OursAnyway ==
  ASSUME NEW w \in Platforms, NEW k \in Keys(w), NEW a, NEW b,
         SameSetting(k, Ours(k), b), SameSetting(k, a, b)
  PROVE  a = Ours(k)
  BY KeySets, OursFits, SystemProxyKeysAssumption DEF SameSetting, Restored, Platforms, Ours

SwitchStep == [Switch!Next]_<<IsSet, file # Absent>>

\* Every step of an unbroken execution is one of the abstract switch, or none.
THEOREM StepsImplementSwitch ==
  ASSUME TypeInv, Parts, [Next]_vars, Unbroken'
  PROVE  SwitchStep
<1> USE DEF SwitchStep, Switch!Next, Switch!TakeSnapshot, Switch!Route, Switch!Restore, Switch!Forget
<1>a. Good
  BY UnbrokenBefore DEF Parts
<1>b. ASSUME UNCHANGED <<platform, store, file>> PROVE SwitchStep
  BY <1>b DEF IsSet
<1>c. file \in {Absent, Torn} => ~IsSet
  BY <1>a, FaithfulIsNotSet DEF Good, FileInv
<1>d. platform \in Platforms /\ IsStore(store, platform)
  BY DEF TypeInv, TypeOK
<1>e. ASSUME UNCHANGED <<platform, store>> PROVE IsSet' = IsSet
  BY <1>e DEF IsSet
<1>f. ASSUME ~IsSet, ~IsSet' PROVE IsSet' = IsSet
  BY <1>f, Zenon DEF IsSet
<1>1. ASSUME NEW p \in Procs,
             \/ BeginSet(p) \/ SetStat(p) \/ SnapshotKey(p) \/ SetDone(p) \/ SetFails(p) \/ SaveFails(p)
             \/ BeginRevert(p) \/ RevertStat(p) \/ LoadState(p) \/ Killed(p)
      PROVE  SwitchStep
  BY <1>1, <1>b DEF BeginSet, BeginRevert, BeginCall, SetStat, SnapshotKey, SetDone, SetFails,
     SaveFails, RevertStat, LoadState, Killed
<1>2. ASSUME NEW p \in Procs, CreateStateFile(p) PROVE SwitchStep
  <2>1. file = Absent /\ file' = Torn /\ UNCHANGED <<platform, store>>
    BY <1>2, <1>a DEF CreateStateFile, Good, CallInv, Call
  <2>2. ~IsSet /\ IsSet' = IsSet /\ file' # Absent
    BY <1>c, <1>e, <2>1, SystemProxyKeysAssumption
  <2>3. Switch!TakeSnapshot
    BY <2>1, <2>2, Zenon
  <2> QED BY <2>3
<1>3. ASSUME NEW p \in Procs, WriteStateFile(p) PROVE SwitchStep
  <2>1. file = Torn /\ file' = mem[p] /\ UNCHANGED <<platform, store>>
    BY <1>3, <1>a DEF WriteStateFile, Good, CallInv, Call
  <2>2. IsStore(mem[p], platform)
    BY <1>3 DEF WriteStateFile, TypeInv, LoadedInv, Loaded
  <2>3. file # Absent /\ file' # Absent
    BY <1>d, <2>1, <2>2, StoreIsComplete, SystemProxyKeysAssumption
  <2>4. IsSet' = IsSet
    BY <1>e, <2>1
  <2> QED BY <2>3, <2>4, Zenon
<1>4. ASSUME NEW p \in Procs, SetKey(p) PROVE SwitchStep
  <2> DEFINE k == SetOrder[at[p] + 1]
  <2>1. k \in Keys(platform) /\ store' = [store EXCEPT ![k] = Ours(k)]
    BY <1>4, <1>d, Visits, SetVisits DEF SetKey, TypeInv, TypeOK
  <2>2. file # Absent /\ file' = file /\ platform' = platform
    BY <1>4, <1>a DEF SetKey, Good, CallInv, Call
  <2> HIDE DEF k
  <2>3. \A j \in Keys(platform) : store'[j] = IF j = k THEN Ours(k) ELSE store[j]
    BY <1>d, <2>1 DEF IsStore, Snapshots
  <2>4. IsSet => IsSet'
    BY <1>d, <2>2, <2>3, KeySets DEF IsSet, Platforms
  <2>5. CASE IsSet'
    BY <2>2, <2>5
  <2>6. CASE ~IsSet'
    BY <2>2, <2>4, <2>6
  <2> QED BY <2>5, <2>6
<1>5. ASSUME NEW p \in Procs, OpenKey(p) PROVE SwitchStep
  <2>1. ~Note("open")
    BY DEF Note, Unbroken, Breaking
  <2> QED BY <1>5, <1>b, <2>1 DEF OpenKey
<1>6. ASSUME NEW p \in Procs, RestoreKey(p) PROVE SwitchStep
  <2> DEFINE k == Key(at[p] + 1)
             v == Restored(k, mem[p][k], store[k])
  <2>1. k \in Keys(platform) /\ mem[p][k] \in Values(k)
    BY <1>6, <1>d, Visits DEF RestoreKey, Key, TypeInv, TypeOK, LoadedInv, Loaded, IsStore
  <2>2. SameSetting(k, mem[p][k], orig[k])
    BY <1>6, <1>a, <2>1 DEF RestoreKey, Good, CallInv, Call, Faithful
  <2>3. SameSetting(k, v, orig[k])
    BY <1>d, <2>1, <2>2, RestoredValue
  <2>4. ~Note("restore")
    BY DEF Note, Unbroken, Breaking
  <2>5. store' = [store EXCEPT ![k] = v] /\ file' = file /\ platform' = platform
    BY <1>6, <2>4 DEF RestoreKey, Key
  <2> HIDE DEF k, v
  <2>6. \A j \in Keys(platform) : store'[j] = IF j = k THEN v ELSE store[j]
    BY <1>d, <2>1, <2>5 DEF IsStore, Snapshots
  <2>7. v = Ours(k) => store[k] = Ours(k)
    BY <1>a, <1>d, <2>1, <2>3, OursAnyway DEF Good, ValueInv
  <2>8. \A j \in Keys(platform) : store'[j] = Ours(j) => store[j] = Ours(j)
    BY <2>6, <2>7
  <2>9. IsSet' => IsSet
    BY <1>d, <2>5, <2>8, KeySets DEF IsSet, Platforms
  <2>10. CASE file = Absent
    <3>1. ~IsSet
      BY <1>c, <2>10
    <3>2. ~IsSet'
      BY <2>9, <3>1, Zenon
    <3>3. file' = file
      BY <2>5
    <3>4. IsSet' = IsSet
      BY <1>f, <3>1, <3>2
    <3> QED BY <3>3, <3>4, Zenon
  <2>11. CASE file # Absent /\ IsSet'
    BY <2>5, <2>9, <2>11
  <2>12. CASE file # Absent /\ ~IsSet'
    BY <2>5, <2>12
  <2> QED BY <2>10, <2>11, <2>12
<1>7. ASSUME NEW p \in Procs, RemoveStateFile(p) PROVE SwitchStep
  <2>1. \A i \in 1 .. Len(Ordered(platform)) : SameSetting(Key(i), store[Key(i)], orig[Key(i)])
    BY <1>7, <1>a DEF RemoveStateFile, Good, CallInv, Call
  <2>2. Faithful(store)
    BY <1>d, <2>1, Visits DEF Faithful, Key
  <2>3. ~IsSet /\ IsSet' = IsSet
    BY <1>7, <1>e, <2>2, FaithfulIsNotSet DEF RemoveStateFile
  <2>4. file' \in {Absent} \cup IF "remove" \in Faults THEN {file} ELSE {}
    BY <1>7 DEF RemoveStateFile
  <2>5. CASE file' = file
    BY <2>3, <2>5, Zenon
  <2>6. CASE file' = Absent
    <3>1. Switch!Forget
      BY <2>3, <2>6, Zenon
    <3> QED BY <3>1
  <2> QED BY <2>4, <2>5, <2>6
<1>8. ASSUME NEW new \in Priors, Edit(new) PROVE SwitchStep
  <2>1. file = Absent /\ file' = Absent /\ platform' = platform /\ store' = new
    BY <1>8 DEF Edit, Note, SnapshotLive, Unbroken, Breaking
  <2>2. DOMAIN new = Keys(platform)
    BY <1>8, <1>d DEF Edit, IsStore, Snapshots
  <2>3. IF platform = "linux" THEN new["https-host"] # "ours" ELSE new["ProxyServer"] # "ours"
    BY <1>d, <2>2, ChosenIsNotSet
  <2>4. ~IsSet'
    <3>1. CASE platform = "linux"
      BY <2>1, <2>3, <3>1 DEF IsSet, Ours
    <3>2. CASE platform = "windows"
      BY <2>1, <2>3, <3>2 DEF IsSet, Ours
    <3>3. platform = "linux" \/ platform = "windows"
      BY <1>d DEF Platforms
    <3> QED BY <3>1, <3>2, <3>3, Zenon
  <2>5. ~IsSet /\ file' = file
    BY <1>c, <2>1
  <2>6. IsSet' = IsSet
    BY <1>f, <2>4, <2>5
  <2> QED BY <2>5, <2>6, Zenon
<1>9. CASE UNCHANGED vars
  BY <1>9, <1>b DEF vars
<1> HIDE DEF SwitchStep
<1> QED
  BY <1>1, <1>2, <1>3, <1>4, <1>5, <1>6, <1>7, <1>8, <1>9 DEF Next, SetStep, RevertStep

\* Set and Revert of both platforms implement the two-step switch their callers
\* rely on, until something defeats the snapshot.
THEOREM SwitchImplemented == Spec => ImplementsSwitch
<1>1. Init => Switch!Init
  <2> SUFFICES ASSUME Init PROVE Switch!Init
    OBVIOUS
  <2>1. Faithful(store)
    BY DEF Init, Faithful, SameSetting
  <2>2. ~IsSet /\ file = Absent
    BY <2>1, TypesHold, FaithfulIsNotSet DEF Init
  <2> QED BY <2>2 DEF Switch!Init
<1>2. TypeInv /\ Parts /\ [Next]_vars
        => [seen' \cap Breaking = {} => [Switch!Next]_<<IsSet, file # Absent>>]_vars
  BY StepsImplementSwitch DEF Unbroken, SwitchStep
<1> QED BY <1>1, <1>2, PartsHold, PTL DEF Spec, ImplementsSwitch

=============================================================================
