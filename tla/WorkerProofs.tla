---------------------------- MODULE WorkerProofs ----------------------------
(***************************************************************************)
(* Theorems about Worker, for every set of databases and destinations,     *)
(* every number of runs and every kind and number of faults.               *)
(***************************************************************************)
EXTENDS Worker, FiniteSetTheorems, TLAPS

(* What the type of every variable rests on: a claimed run has an owner     *)
(* whose row Prepare can read.                                              *)
TypeInv == TypeOK /\ OwnedRuns /\ CurRuns

USE DEF Steps, Executing, WithJob, Statuses, Names, Contents, Available, Once

LEMMA TypeInit == Init => TypeInv
<1> SUFFICES ASSUME Init PROVE TypeInv
  OBVIOUS
<1>1. TypeOK
  <2>1. faults \in [count : 0..MaxFaults, rough : BOOLEAN, unrecorded : SUBSET RunIds]
    BY BoundAssumption DEF Init
  <2> QED
    BY <2>1 DEF Init, TypeOK
<1>2. OwnedRuns
  BY DEF Init, OwnedRuns
<1>3. CurRuns
  BY DEF Init, CurRuns
<1> QED
  BY <1>1, <1>2, <1>3 DEF TypeInv

(* What a fault and the end of the process leave of the types.              *)
LEMMA LosingType ==
    ASSUME TypeOK, NEW k, NEW R \in SUBSET RunIds, FaultLosing(k, R)
    PROVE  faults' \in [count : 0..MaxFaults, rough : BOOLEAN, unrecorded : SUBSET RunIds]
  BY BoundAssumption DEF TypeOK, FaultLosing

LEMMA FaultType ==
    ASSUME TypeOK, NEW k, Fault(k)
    PROVE  faults' \in [count : 0..MaxFaults, rough : BOOLEAN, unrecorded : SUBSET RunIds]
  BY LosingType DEF Fault

LEMMA GoDownType ==
    ASSUME TypeInv, GoDown
    PROVE  /\ pc' \in Steps /\ cur' \in RunIds \cup {0}
           /\ job' \in Configs \cup {None} /\ todo' \in SUBSET RunIds
           /\ stopping' \in BOOLEAN /\ CurRuns'
  BY DEF TypeInv, TypeOK, CurRuns, GoDown

LEMMA TypeStep == TypeInv /\ [Next]_vars => TypeInv'
<1> SUFFICES ASSUME TypeInv, [Next]_vars PROVE TypeInv'
  OBVIOUS
<1> USE BoundAssumption, SentinelAssumption
        DEF TypeInv, TypeOK, OwnedRuns, CurRuns, table, files, local, env,
            GoIdle, Step, Relink, DropPartial
<1>1. ASSUME NEW d \in Databases, NEW c \in Configs, Save(d, c) PROVE TypeInv'
  BY <1>1 DEF Save
<1>2. ASSUME NEW d \in Databases, Delete(d) PROVE TypeInv'
  BY <1>2 DEF Delete
<1>3. ASSUME NEW d \in Databases, NEW r \in RunIds, Enqueue(d, r) PROVE TypeInv'
  BY <1>3 DEF Enqueue, Oldest
<1>4. ASSUME NEW r \in RunIds, Claim(r) PROVE TypeInv'
  BY <1>4 DEF Claim, Oldest
<1>5. CASE Prepare
  BY <1>5 DEF Prepare, Registered
<1>6. CASE Record
  BY <1>6 DEF Record
<1>7. CASE Create
  BY <1>7 DEF Create
<1>8. CASE Dump
  BY <1>8 DEF Dump
<1>9. CASE SyncFile
  BY <1>9 DEF SyncFile
<1>10. CASE Rename
  BY <1>10 DEF Rename
<1>11. CASE SyncDir
  BY <1>11 DEF SyncDir
<1>12. CASE Commit
  BY <1>12 DEF Commit
<1>13. CASE CheckFails
  BY <1>13, FaultType DEF CheckFails
<1>14. CASE RecordFails
  BY <1>14, FaultType DEF RecordFails
<1>15. CASE WriteFails
  BY <1>15, FaultType DEF WriteFails
<1>16. CASE CommitFails
  BY <1>16, FaultType DEF CommitFails
<1>17. CASE RecordFailure
  BY <1>17, LosingType DEF RecordFailure
<1>18. CASE Select
  BY <1>18 DEF Select, Surplus, Successes
<1>19. ASSUME NEW r \in RunIds, RemoveNext(r) PROVE TypeInv'
  BY <1>19 DEF RemoveNext
<1>20. ASSUME NEW r \in RunIds, ExpireNext(r) PROVE TypeInv'
  BY <1>20 DEF ExpireNext, Newest
<1>21. CASE RetainDone
  BY <1>21 DEF RetainDone
<1>22. CASE RetainFails
  BY <1>22, FaultType DEF RetainFails
<1>23. CASE Stop
  BY <1>23, FaultType DEF Stop, Serving
<1>24. CASE Exit
  BY <1>24, GoDownType DEF Exit
<1>25. CASE Kill
  BY <1>25, GoDownType, FaultType DEF Kill
<1>26. CASE PowerLoss
  BY <1>26, GoDownType, FaultType DEF PowerLoss
<1>27. CASE Start
  BY <1>27 DEF Start
<1>28. ASSUME NEW r \in RunIds, RecoverNext(r) PROVE TypeInv'
  BY <1>28, FaultType DEF RecoverNext, Oldest
<1>29. CASE RecoverDone
  BY <1>29 DEF RecoverDone
<1>30. CASE RecoverFails
  BY <1>30, GoDownType, FaultType DEF RecoverFails
<1>31. ASSUME NEW x \in Destinations, Unmount(x) PROVE TypeInv'
  BY <1>31, FaultType DEF Unmount
<1>32. ASSUME NEW x \in Destinations, Mount(x) PROVE TypeInv'
  BY <1>32 DEF Mount
<1>33. CASE Poll
  BY <1>33 DEF Poll, vars
<1>34. CASE UNCHANGED vars
  BY <1>34 DEF vars
<1> QED
  BY <1>1, <1>2, <1>3, <1>4, <1>5, <1>6, <1>7, <1>8, <1>9, <1>10, <1>11, <1>12,
     <1>13, <1>14, <1>15, <1>16, <1>17, <1>18, <1>19, <1>20, <1>21, <1>22, <1>23,
     <1>24, <1>25, <1>26, <1>27, <1>28, <1>29, <1>30, <1>31, <1>32, <1>33, <1>34
  DEF Next, Panel, WorkerStep, Environment, Backup, Failing, Retain, Recover

(* The inductive invariant behind the types                                 *)
LEMMA TypeTheorem == Spec => []TypeInv
  BY TypeInit, TypeStep, PTL DEF Spec

(* Every variable keeps its type.                                           *)
THEOREM TypeCorrect == Spec => []TypeOK
  BY TypeTheorem, PTL DEF TypeInv

-----------------------------------------------------------------------------
(* One active run per database                                              *)

LEMMA FewerActive ==
    ASSUME OneActivePerDatabase, UNCHANGED <<config, owner>>,
           \A r \in RunIds : Active(r)' => Active(r)
    PROVE  OneActivePerDatabase'
  BY DEF OneActivePerDatabase, Registered

LEMMA ActiveStep == TypeInv /\ OneActivePerDatabase /\ [Next]_vars => OneActivePerDatabase'
<1> SUFFICES ASSUME TypeInv, OneActivePerDatabase, [Next]_vars
             PROVE  OneActivePerDatabase'
  OBVIOUS
<1> USE DEF TypeInv, TypeOK, CurRuns, table, Active
<1>1. ASSUME NEW d \in Databases, NEW c \in Configs, Save(d, c)
      PROVE  OneActivePerDatabase'
  BY <1>1, SentinelAssumption DEF Save, OneActivePerDatabase, Registered
<1>2. ASSUME NEW d \in Databases, Delete(d) PROVE OneActivePerDatabase'
  BY <1>2 DEF Delete, OneActivePerDatabase, Registered
<1>3. ASSUME NEW d \in Databases, NEW r \in RunIds, Enqueue(d, r)
      PROVE  OneActivePerDatabase'
  <2>1. /\ status' = [status EXCEPT ![r] = "queued"]
        /\ owner' = [owner EXCEPT ![r] = d]
        /\ config' = config /\ Registered(d)
        /\ \A s \in RunIds : ~(owner[s] = d /\ Active(s))
    BY <1>3 DEF Enqueue
  <2> QED
    BY <2>1 DEF OneActivePerDatabase, Registered
<1>4. ASSUME NEW r \in RunIds, Claim(r) PROVE OneActivePerDatabase'
  BY <1>4, FewerActive DEF Claim, Oldest
<1>5. CASE Backup
  BY <1>5, FewerActive
  DEF Backup, Prepare, Record, Create, Dump, SyncFile, Rename, SyncDir, Commit
<1>6. CASE Failing
  BY <1>6, FewerActive
  DEF Failing, CheckFails, RecordFails, WriteFails, CommitFails, RecordFailure
<1>7. CASE Retain
  BY <1>7, FewerActive
  DEF Retain, Select, RetainDone, RetainFails, RemoveNext, ExpireNext
<1>8. CASE Exit \/ Start \/ Poll
  BY <1>8, FewerActive DEF Exit, Start, Poll, vars
<1>9. CASE Recover
  BY <1>9, FewerActive DEF Recover, RecoverDone, RecoverFails, RecoverNext
<1>10. CASE Environment
  BY <1>10, FewerActive DEF Environment, Stop, Kill, PowerLoss, Unmount, Mount
<1>11. CASE UNCHANGED vars
  BY <1>11, FewerActive DEF vars
<1> QED
  BY <1>1, <1>2, <1>3, <1>4, <1>5, <1>6, <1>7, <1>8, <1>9, <1>10, <1>11
  DEF Next, Panel, WorkerStep

(* At most one pending run of a database, whose row cannot be deleted under *)
(* it, whatever crashes and faults come between.                            *)
THEOREM OneActive == Spec => []OneActivePerDatabase
<1>1. Init => OneActivePerDatabase
  BY DEF Init, OneActivePerDatabase, Active
<1> QED
  BY <1>1, TypeTheorem, ActiveStep, PTL DEF Spec

-----------------------------------------------------------------------------
(* The newest confirmed backup                                              *)

FileInv == FileStage /\ VictimsOutlived /\ ConfirmedFiles /\ NewestBackupSafe

(* OFFSET retain, with a retain of at least one, spares the newest.         *)
LEMMA SurplusOutlived ==
    ASSUME NEW d, NEW n \in Nat \ {0}, NEW r \in Surplus(d, n)
    PROVE  status[r] = "success" /\ Outlived(r)
<1>1. r \in RunIds /\ owner[r] = d /\ status[r] = "success" /\ NewerSuccesses(r) >= n
  BY DEF Surplus, Successes
<1>2. {s \in Successes(owner[r]) : s > r} # {}
  <2> SUFFICES ASSUME {s \in Successes(owner[r]) : s > r} = {} PROVE FALSE
    OBVIOUS
  <2>1. NewerSuccesses(r) = 0
    BY FS_EmptySet DEF NewerSuccesses
  <2> QED
    BY <1>1, <2>1
<1> QED
  BY <1>1, <1>2 DEF Successes, Outlived

(* Steps that do not touch the runs table and spoil no safe file of it      *)
LEMMA SafeFrame ==
    ASSUME NewestBackupSafe, UNCHANGED table,
           \A r \in RunIds : status[r] = "success" /\ Safe(r) => Safe(r)'
    PROVE  NewestBackupSafe'
  BY DEF NewestBackupSafe, table

(* What has been outlived has a safe backup newer than itself.              *)
LEMMA OutlivedBacked ==
    ASSUME NewestBackupSafe, NEW r \in RunIds, Outlived(r)
    PROVE  \E s \in RunIds : s > r /\ owner[s] = owner[r] /\ status[s] = "success" /\ Safe(s)
<1>1. PICK w \in RunIds : w > r /\ owner[w] = owner[r] /\ status[w] = "success"
  BY DEF Outlived
<1>2. PICK s \in RunIds : s >= w /\ owner[s] = owner[w] /\ status[s] = "success" /\ Safe(s)
  BY <1>1 DEF NewestBackupSafe
<1>3. s > r
  BY <1>1, <1>2 DEF RunIds
<1> QED
  BY <1>1, <1>2, <1>3

LEMMA FileStep ==
    ASSUME FolderDurable = TRUE
    PROVE  TypeInv /\ FileInv /\ [Next]_vars => FileInv'
<1> SUFFICES ASSUME TypeInv, FileInv, [Next]_vars PROVE FileInv'
  OBVIOUS
<1> USE DEF TypeInv, TypeOK, CurRuns, table, files, local, env, FileInv, FileStage,
            VictimsOutlived, ConfirmedFiles
<1>1. ASSUME NEW d \in Databases, NEW c \in Configs, Save(d, c) PROVE FileInv'
  BY <1>1, SafeFrame DEF Save, Safe, Outlived
<1>2. ASSUME NEW d \in Databases, Delete(d) PROVE FileInv'
  BY <1>2, SafeFrame DEF Delete, Safe, Outlived
<1>3. ASSUME NEW d \in Databases, NEW r \in RunIds, Enqueue(d, r) PROVE FileInv'
  BY <1>3 DEF Enqueue, Oldest, NewestBackupSafe, Safe, Outlived
<1>4. ASSUME NEW r \in RunIds, Claim(r) PROVE FileInv'
  BY <1>4 DEF Claim, Oldest, NewestBackupSafe, Safe, Outlived
<1>5. CASE Prepare
  BY <1>5, SafeFrame DEF Prepare, Step, Safe
<1>6. CASE Record
  BY <1>6 DEF Record, Step, NewestBackupSafe, Safe, Outlived
<1>7. CASE Create
  BY <1>7, SafeFrame DEF Create, Step, Relink, Safe
<1>8. CASE Dump
  BY <1>8, SafeFrame DEF Dump, Step, Safe
<1>9. CASE SyncFile
  BY <1>9, SafeFrame DEF SyncFile, Step, Safe
<1>10. CASE Rename
  BY <1>10, SafeFrame DEF Rename, Step, Relink, Safe
<1>11. CASE SyncDir
  BY <1>11, SafeFrame DEF SyncDir, Step, Safe
<1>12. CASE Commit
  <2>1. /\ pc = "durable" /\ pc' = "confirmed" /\ cur \in RunIds
        /\ status' = [status EXCEPT ![cur] = "success"]
        /\ UNCHANGED <<owner, files>>
    BY <1>12 DEF Commit, Step
  <2>2. \A r \in RunIds : Safe(r) => Safe(r)'
    BY <2>1 DEF Safe
  <2>3. NewestBackupSafe'
    <3> SUFFICES ASSUME NEW r \in RunIds, status'[r] = "success"
                 PROVE  \E s \in RunIds : /\ s >= r /\ owner'[s] = owner'[r]
                                         /\ status'[s] = "success" /\ Safe(s)'
      BY DEF NewestBackupSafe
    <3>1. CASE r = cur
      <4>1. r >= r
        BY DEF RunIds
      <4> QED
        BY <2>1, <2>2, <3>1, <4>1
    <3>2. CASE r # cur
      <4>1. status[r] = "success"
        BY <2>1, <3>2
      <4>2. PICK s \in RunIds : /\ s >= r /\ owner[s] = owner[r]
                               /\ status[s] = "success" /\ Safe(s)
        BY <4>1 DEF NewestBackupSafe
      <4> QED
        BY <2>1, <2>2, <4>2
    <3> QED
      BY <3>1, <3>2
  <2>4. ConfirmedFiles'
    BY <2>1 DEF Safe
  <2> QED
    BY <2>1, <2>3, <2>4
<1>13. CASE Failing
  BY <1>13
  DEF Failing, CheckFails, RecordFails, WriteFails, CommitFails, RecordFailure, GoIdle,
      Step, DropPartial, Relink, NewestBackupSafe, Safe, Outlived
<1>14. CASE Select
  <2>1. job.retain \in Nat \ {0}
    BY <1>14, BoundAssumption DEF Select, Configs
  <2>2. \A r \in Surplus(owner[cur], job.retain) : Outlived(r)
    BY <2>1, SurplusOutlived
  <2>3. VictimsOutlived'
    BY <1>14, <2>2 DEF Select, Outlived
  <2> QED
    BY <1>14, <2>3, SafeFrame DEF Select, Safe
<1>15. ASSUME NEW r \in RunIds, RemoveNext(r) PROVE FileInv'
  <2>1. /\ r \in todo /\ pc = "retaining" /\ pc' = "removed"
        /\ name' = (IF name[r] = "final" THEN [name EXCEPT ![r] = "none"] ELSE name)
        /\ kept' = (IF name[r] = "final" THEN [kept EXCEPT ![r] = @ \cup {"none"}] ELSE kept)
        /\ UNCHANGED <<table, data, cur, todo, job>>
    BY <1>15 DEF RemoveNext, Newest, Step, Relink
  <2>2. ASSUME NEW t \in RunIds, Safe(t), t # r PROVE Safe(t)'
    BY <2>1, <2>2 DEF Safe
  <2>3. NewestBackupSafe'
    <3> SUFFICES ASSUME NEW t \in RunIds, status[t] = "success"
                 PROVE  \E s \in RunIds : /\ s >= t /\ owner[s] = owner[t]
                                         /\ status[s] = "success" /\ Safe(s)'
      BY <2>1 DEF NewestBackupSafe
    <3>1. PICK w \in RunIds : /\ w >= t /\ owner[w] = owner[t]
                             /\ status[w] = "success" /\ Safe(w)
      BY DEF NewestBackupSafe
    <3>2. PICK s \in RunIds : /\ s > r /\ owner[s] = owner[r]
                             /\ status[s] = "success" /\ Safe(s)
      BY <2>1, OutlivedBacked
    <3>3. CASE w # r
      BY <2>2, <3>1, <3>3
    <3>4. CASE w = r
      <4>1. s >= t /\ s # r
        BY <3>1, <3>2, <3>4 DEF RunIds
      <4> QED
        BY <2>2, <3>1, <3>2, <3>4, <4>1
    <3> QED
      BY <3>3, <3>4
  <2>4. ConfirmedFiles'
    BY <2>1
  <2>5. VictimsOutlived'
    BY <2>1 DEF Outlived
  <2> QED
    BY <2>1, <2>3, <2>4, <2>5
<1>16. ASSUME NEW r \in RunIds, ExpireNext(r) PROVE FileInv'
  <2>1. /\ r \in todo /\ pc = "removed" /\ pc' = "retaining" /\ todo' = todo \ {r}
        /\ status' = [status EXCEPT ![r] = "expired"]
        /\ UNCHANGED <<owner, name, kept, data, cur>>
    BY <1>16 DEF ExpireNext, Newest
  <2>2. PICK s \in RunIds : s > r /\ owner[s] = owner[r] /\ status[s] = "success"
    BY <2>1 DEF Outlived
  <2>3. ASSUME NEW t \in RunIds, Outlived(t) PROVE Outlived(t)'
    <3>1. PICK w \in RunIds : w > t /\ owner[w] = owner[t] /\ status[w] = "success"
      BY <2>3 DEF Outlived
    <3>2. CASE w # r
      BY <2>1, <3>1, <3>2 DEF Outlived
    <3>3. CASE w = r
      <4>1. s > t /\ s # r
        BY <2>2, <3>1, <3>3 DEF RunIds
      <4> QED
        BY <2>1, <2>2, <3>1, <3>3, <4>1 DEF Outlived
    <3> QED
      BY <3>2, <3>3
  <2>4. NewestBackupSafe'
    <3> SUFFICES ASSUME NEW t \in RunIds, status'[t] = "success"
                 PROVE  \E x \in RunIds : /\ x >= t /\ owner[x] = owner[t]
                                         /\ status'[x] = "success" /\ Safe(x)'
      BY <2>1 DEF NewestBackupSafe
    <3>1. /\ status[t] = "success"
          /\ \A x \in RunIds : Safe(x) => Safe(x)'
      BY <2>1 DEF Safe
    <3>2. PICK w \in RunIds : /\ w >= t /\ owner[w] = owner[t]
                             /\ status[w] = "success" /\ Safe(w)
      BY <3>1 DEF NewestBackupSafe
    <3>3. CASE w # r
      BY <2>1, <3>1, <3>2, <3>3
    <3>4. CASE w = r
      <4>1. PICK x \in RunIds : /\ x > r /\ owner[x] = owner[r]
                               /\ status[x] = "success" /\ Safe(x)
        BY <2>1, OutlivedBacked
      <4>2. x >= t /\ x # r
        BY <3>2, <3>4, <4>1 DEF RunIds
      <4> QED
        BY <2>1, <3>1, <3>2, <3>4, <4>1, <4>2
    <3> QED
      BY <3>3, <3>4
  <2>5. VictimsOutlived'
    BY <2>1, <2>3
  <2>6. ConfirmedFiles'
    BY <2>1
  <2> QED
    BY <2>1, <2>4, <2>5, <2>6
<1>17. CASE RetainDone \/ RetainFails \/ Exit \/ Start \/ Poll \/ UNCHANGED vars
  BY <1>17, SafeFrame
  DEF RetainDone, RetainFails, Exit, Start, Poll, vars, GoIdle, GoDown, Safe, Outlived
<1>18. ASSUME NEW r \in RunIds, RecoverNext(r) PROVE FileInv'
  BY <1>18, SafeFrame DEF RecoverNext, DropPartial, Relink, Safe
<1>19. CASE RecoverDone
  BY <1>19 DEF RecoverDone, GoIdle, NewestBackupSafe, Safe, Outlived
<1>20. CASE RecoverFails \/ Kill
  BY <1>20, SafeFrame DEF RecoverFails, Kill, GoDown, Safe
<1>21. CASE PowerLoss
  BY <1>21, SafeFrame DEF PowerLoss, GoDown, Safe
<1>22. CASE Stop
  BY <1>22, SafeFrame DEF Stop, Safe, Outlived
<1>23. ASSUME NEW x \in Destinations, Unmount(x) \/ Mount(x) PROVE FileInv'
  BY <1>23, SafeFrame DEF Unmount, Mount, Safe, Outlived
<1> QED
  BY <1>1, <1>2, <1>3, <1>4, <1>5, <1>6, <1>7, <1>8, <1>9, <1>10, <1>11, <1>12,
     <1>13, <1>14, <1>15, <1>16, <1>17, <1>18, <1>19, <1>20, <1>21, <1>22, <1>23
  DEF Next, Panel, WorkerStep, Environment, Backup, Retain, Recover

LEMMA FileTheorem ==
    ASSUME FolderDurable = TRUE
    PROVE  Spec => [](TypeInv /\ FileInv)
<1>1. Init => FileInv
  BY DEF Init, FileInv, FileStage, VictimsOutlived, ConfirmedFiles, NewestBackupSafe
<1> QED
  BY <1>1, TypeTheorem, FileStep, PTL DEF Spec

(* The newest confirmed backup of every database is in place and survives   *)
(* a power loss, if the file system keeps a folder that was synchronised.   *)
THEOREM NewestSafe ==
    ASSUME FolderDurable = TRUE
    PROVE  Spec => []NewestBackupSafe
  BY FileTheorem, PTL DEF FileInv

(* Under the same assumption the download handler serves finished dumps     *)
(* only.                                                                    *)
THEOREM DownloadsSafe ==
    ASSUME FolderDurable = TRUE
    PROVE  Spec => []DownloadsComplete
<1>1. FileInv => DownloadsComplete
  BY DEF FileInv, ConfirmedFiles, DownloadsComplete
<1> QED
  BY <1>1, FileTheorem, PTL

LEMMA RemovalStep ==
    ASSUME TypeInv, FileInv, [Next]_vars, NEW r \in RunIds,
           name[r] = "final", name'[r] # "final"
    PROVE  Justified(r)
<1> USE DEF table, files, TypeInv, TypeOK
<1>1. CASE PowerLoss
  BY <1>1 DEF PowerLoss, GoDown, Justified, FileInv, ConfirmedFiles
<1>2. ASSUME NEW v \in RunIds, RemoveNext(v) PROVE Justified(r)
  <2>1. v = r /\ r \in todo /\ pc = "retaining"
    BY <1>2 DEF RemoveNext, Relink, Newest, Step
  <2>2. status[r] = "success" /\ Outlived(r)
    BY <2>1 DEF CurRuns, FileInv, VictimsOutlived
  <2> QED
    BY <2>2, OutlivedBacked DEF Justified, FileInv
<1>3. CASE Create \/ Rename
  BY <1>3 DEF Create, Rename, Relink
<1>4. CASE WriteFails
  BY <1>4 DEF WriteFails, DropPartial, Relink
<1>5. ASSUME NEW v \in RunIds, RecoverNext(v) PROVE Justified(r)
  BY <1>5 DEF RecoverNext, DropPartial, Relink
<1>6. CASE name' = name
  BY <1>6
<1>7. \/ PowerLoss \/ Create \/ Rename \/ WriteFails \/ name' = name
      \/ \E v \in RunIds : RemoveNext(v) \/ RecoverNext(v)
  <2>1. Panel \/ Poll \/ Environment => PowerLoss \/ name' = name
    BY DEF Panel, Poll, Environment, Save, Delete, Enqueue, Stop, Kill, Unmount, Mount, vars
  <2>2. Backup \/ Failing => Create \/ Rename \/ WriteFails \/ name' = name
    BY DEF Backup, Failing, Prepare, Record, Dump, SyncFile, SyncDir, Commit, CheckFails,
           RecordFails, CommitFails, RecordFailure
  <2>3. Retain => name' = name \/ \E v \in RunIds : RemoveNext(v)
    BY DEF Retain, Select, RetainDone, RetainFails, ExpireNext
  <2>4. Recover => name' = name \/ \E v \in RunIds : RecoverNext(v)
    BY DEF Recover, RecoverDone, RecoverFails
  <2>5. Exit \/ Start \/ (\E v \in RunIds : Claim(v)) => name' = name
    BY DEF Exit, Start, Claim
  <2>6. UNCHANGED vars => name' = name
    BY DEF vars
  <2> QED
    BY <2>1, <2>2, <2>3, <2>4, <2>5, <2>6 DEF Next, WorkerStep
<1> QED
  BY <1>1, <1>2, <1>3, <1>4, <1>5, <1>6, <1>7

(* No step removes a finished file, be it retention, recovery or the        *)
(* cleanup of a failed run, unless a newer safe backup replaces it.         *)
THEOREM RemovalsJustified ==
    ASSUME FolderDurable = TRUE
    PROVE  Spec => RemovalJustified
<1>1. TypeInv /\ FileInv /\ [Next]_vars =>
        [\A r \in RunIds : name[r] = "final" /\ name'[r] # "final" => Justified(r)]_vars
  BY RemovalStep
<1> QED
  BY <1>1, FileTheorem, PTL DEF Spec, RemovalJustified

(* The whole invariant that the runs check.                                 *)
THEOREM BackupInvariant ==
    ASSUME FolderDurable = TRUE
    PROVE  Spec => []BackupInv
<1>1. TypeInv /\ FileInv => BackupInv
  BY DEF TypeInv, FileInv, BackupInv
<1> QED
  BY <1>1, FileTheorem, PTL

(* The comment at backup.go:216 is true where fsync of a folder also keeps  *)
(* the folder's own entry: the run worker_folder shows what happens where   *)
(* it does not.                                                             *)
THEOREM AcknowledgedThere ==
    ASSUME FolderDurable = TRUE
    PROVE  Spec => []AcknowledgedIsThere
<1>1. FileInv => AcknowledgedIsThere
  <2> SUFFICES ASSUME FileInv, NEW r \in RunIds, status[r] = "success"
               PROVE  name[r] = "final" \/ Outlived(r)
    BY DEF AcknowledgedIsThere
  <2>1. PICK s \in RunIds : /\ s >= r /\ owner[s] = owner[r]
                           /\ status[s] = "success" /\ Safe(s)
    BY DEF FileInv, NewestBackupSafe
  <2>2. s = r \/ s > r
    BY <2>1 DEF RunIds
  <2> QED
    BY <2>1, <2>2 DEF Safe, Outlived
<1> QED
  BY <1>1, FileTheorem, PTL

-----------------------------------------------------------------------------
(* Retention removes before it records                                      *)

(* Between Remove and the UPDATE the file of the victim is away.            *)
RemovedGone ==
    pc = "removed" => \A r \in RunIds : Newest(r, todo) => name[r] # "final"

LEMMA NewestUnique ==
    ASSUME NEW r \in RunIds, NEW s \in RunIds, NEW S, Newest(r, S), Newest(s, S)
    PROVE  r = s
<1>1. s <= r /\ r <= s
  BY DEF Newest
<1> QED
  BY <1>1 DEF RunIds

LEMMA RemovedStep == TypeInv /\ RemovedGone /\ [Next]_vars => RemovedGone'
<1> SUFFICES ASSUME TypeInv, RemovedGone, [Next]_vars PROVE RemovedGone'
  OBVIOUS
<1> USE DEF TypeInv, TypeOK, table, files, local, env
<1>1. ASSUME NEW r \in RunIds, RemoveNext(r) PROVE RemovedGone'
  <2>1. Newest(r, todo) /\ todo' = todo /\ name'[r] # "final"
    BY <1>1 DEF RemoveNext, Step, Relink
  <2> QED
    BY <2>1, NewestUnique DEF RemovedGone, Newest
<1>2. CASE pc' # "removed"
  BY <1>2 DEF RemovedGone
<1>3. CASE UNCHANGED <<pc, todo, name>>
  BY <1>3 DEF RemovedGone, Newest
<1>4. \/ pc' # "removed"
      \/ UNCHANGED <<pc, todo, name>>
      \/ \E r \in RunIds : RemoveNext(r)
  <2>1. Panel \/ Poll \/ UNCHANGED vars => UNCHANGED <<pc, todo, name>>
    BY DEF Panel, Poll, Save, Delete, Enqueue, vars
  <2>2. Backup \/ Failing => pc' # "removed"
    BY DEF Backup, Prepare, Record, Create, Dump, SyncFile, Rename, SyncDir, Commit,
           Failing, CheckFails, RecordFails, WriteFails, CommitFails, RecordFailure,
           GoIdle, Step
  <2>3. Retain => pc' # "removed" \/ \E r \in RunIds : RemoveNext(r)
    BY DEF Retain, Select, RetainDone, RetainFails, ExpireNext, GoIdle
  <2>4. Recover \/ Exit \/ Start \/ (\E r \in RunIds : Claim(r)) => pc' # "removed"
    BY DEF Recover, RecoverDone, RecoverFails, RecoverNext, Exit, Start, Claim, GoIdle, GoDown
  <2>5. Environment => pc' # "removed" \/ UNCHANGED <<pc, todo, name>>
    BY DEF Environment, Stop, Kill, PowerLoss, Unmount, Mount, GoDown
  <2> QED
    BY <2>1, <2>2, <2>3, <2>4, <2>5 DEF Next, WorkerStep
<1> QED
  BY <1>1, <1>2, <1>3, <1>4

LEMMA RemovedTheorem == Spec => []RemovedGone
<1>1. Init => RemovedGone
  BY DEF Init, RemovedGone
<1> QED
  BY <1>1, TypeTheorem, RemovedStep, PTL DEF Spec

=============================================================================
