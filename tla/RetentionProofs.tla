-------------------------- MODULE RetentionProofs --------------------------
(***************************************************************************)
(* What a retention pass leaves, and what crashes, stops and recovery      *)
(* leave: theorems about Worker for every set of databases and every       *)
(* number of runs.                                                         *)
(***************************************************************************)
EXTENDS WorkerProofs

USE DEF Steps, Executing, WithJob, Statuses, Names, Contents, Available

-----------------------------------------------------------------------------
(* ORDER BY id DESC LIMIT -1 OFFSET n                                       *)

LEMMA FiniteRuns == \A S \in SUBSET RunIds : IsFiniteSet(S) /\ Cardinality(S) \in Nat
<1>1. IsFiniteSet(RunIds)
  BY BoundAssumption, FS_Interval DEF RunIds
<1> QED
  BY <1>1, FS_Subset, FS_CardinalityType

LEMMA NewerRuns == \A r \in RunIds : NewerSuccesses(r) \in Nat
  BY FiniteRuns DEF NewerSuccesses, Successes

(* Of two confirmed runs of a database the older has more newer ones.       *)
LEMMA NewerDecreases ==
    ASSUME NEW d, NEW r \in Successes(d), NEW s \in Successes(d), r < s
    PROVE  NewerSuccesses(s) < NewerSuccesses(r)
<1> DEFINE A == {t \in Successes(owner[r]) : t > r}
           B == {t \in Successes(owner[s]) : t > s}
<1>1. r \in RunIds /\ s \in RunIds /\ owner[r] = d /\ owner[s] = d
  BY DEF Successes
<1>2. B \in SUBSET A /\ s \in A /\ s \notin B
  BY <1>1 DEF Successes, RunIds
<1>3. IsFiniteSet(A) /\ Cardinality(A) \in Nat /\ Cardinality(B) \in Nat
  BY FiniteRuns DEF Successes
<1>4. Cardinality(B) <= Cardinality(A) /\ Cardinality(B) # Cardinality(A)
  BY <1>2, <1>3, FS_Subset
<1> QED
  BY <1>3, <1>4 DEF NewerSuccesses

(* The query spares at most n: the number of newer ones tells those apart   *)
(* that it spares, and is below n for each.                                 *)
LEMMA SparedBound ==
    ASSUME NEW d, NEW n \in Nat
    PROVE  Cardinality(Successes(d) \ Surplus(d, n)) <= n
<1> DEFINE K == Successes(d) \ Surplus(d, n)
           f == [r \in K |-> NewerSuccesses(r)]
<1>1. K \in SUBSET RunIds /\ \A r \in K : NewerSuccesses(r) \in 0..(n - 1)
  BY NewerRuns DEF Surplus, Successes
<1>2. \A r, s \in K : NewerSuccesses(r) = NewerSuccesses(s) => r = s
  <2> SUFFICES ASSUME NEW r \in K, NEW s \in K, NewerSuccesses(r) = NewerSuccesses(s), r < s
               PROVE  FALSE
    BY <1>1 DEF RunIds
  <2> QED
    BY <1>1, NewerDecreases
<1>3. f \in Injection(K, 0..(n - 1))
  BY <1>1, <1>2 DEF Injection, IsInjective
<1>4. IsFiniteSet(0..(n - 1)) /\ Cardinality(0..(n - 1)) = n
  BY FS_Interval
<1> QED
  BY <1>3, <1>4, FS_Injection

-----------------------------------------------------------------------------
(* What a pass leaves                                                       *)

Retaining == {"confirmed", "retaining", "removed"}

(* The run is still one of its database, and no more than retain successes  *)
(* are left out of what is still to be visited.                             *)
RunConfirmed == pc \in Retaining => cur \in RunIds /\ status[cur] # "unused"

Spared == pc \in {"retaining", "removed"} =>
              Cardinality(Successes(owner[cur]) \ todo) <= job.retain

PassInv == RunConfirmed /\ Spared

LEMMA SparedKept ==
    ASSUME PassInv, pc \in {"retaining", "removed"}, UNCHANGED <<cur, job>>,
           owner'[cur] = owner[cur],
           (Successes(owner[cur]) \ todo)' = Successes(owner[cur]) \ todo
    PROVE  Spared'
  BY DEF PassInv, Spared

LEMMA PassStep == TypeInv /\ PassInv /\ [Next]_vars => PassInv'
<1> SUFFICES ASSUME TypeInv, PassInv, [Next]_vars PROVE PassInv'
  OBVIOUS
<1> USE DEF TypeInv, TypeOK, CurRuns, table, files, local, env, Retaining
<1>1. ASSUME NEW d \in Databases, NEW r \in RunIds, Enqueue(d, r) PROVE PassInv'
  <2>1. /\ status[r] = "unused" /\ UNCHANGED <<pc, cur, job, todo>>
        /\ status' = [status EXCEPT ![r] = "queued"]
        /\ owner' = [owner EXCEPT ![r] = d]
    BY <1>1 DEF Enqueue, Oldest
  <2>2. RunConfirmed'
    BY <2>1 DEF PassInv, RunConfirmed
  <2>3. CASE pc \in {"retaining", "removed"}
    <3>1. owner'[cur] = owner[cur]
      BY <2>1, <2>3 DEF PassInv, RunConfirmed
    <3>2. (Successes(owner[cur]) \ todo)' = Successes(owner[cur]) \ todo
      BY <2>1, <3>1 DEF Successes
    <3> QED
      BY <2>1, <2>2, <2>3, <3>1, <3>2, SparedKept DEF PassInv
  <2> QED
    BY <2>1, <2>2, <2>3 DEF PassInv, Spared
<1>2. CASE Commit
  BY <1>2 DEF Commit, Step, PassInv, RunConfirmed, Spared
<1>3. CASE Select
  <2>1. /\ pc = "confirmed" /\ pc' = "retaining" /\ UNCHANGED <<status, owner, cur, job>>
        /\ todo' = Surplus(owner[cur], job.retain)
    BY <1>3 DEF Select
  <2>2. job.retain \in Nat
    BY <2>1, BoundAssumption DEF Configs
  <2>3. Cardinality(Successes(owner[cur]) \ todo') <= job.retain
    BY <2>1, <2>2, SparedBound
  <2>4. Successes(owner[cur])' = Successes(owner[cur])
    BY <2>1 DEF Successes
  <2> QED
    BY <2>1, <2>3, <2>4 DEF PassInv, RunConfirmed, Spared
<1>4. ASSUME NEW r \in RunIds, ExpireNext(r) PROVE PassInv'
  <2>1. /\ r \in todo /\ pc = "removed" /\ todo' = todo \ {r}
        /\ status' = [status EXCEPT ![r] = "expired"]
        /\ UNCHANGED <<owner, cur, job>>
    BY <1>4 DEF ExpireNext, Newest
  <2>2. (Successes(owner[cur]) \ todo)' = Successes(owner[cur]) \ todo
    BY <2>1 DEF Successes
  <2> QED
    BY <2>1, <2>2, SparedKept DEF PassInv, RunConfirmed
<1>5. CASE pc' \notin Retaining
  BY <1>5 DEF PassInv, RunConfirmed, Spared
<1>6. CASE UNCHANGED <<status, owner, cur, job, todo>> /\ pc \in Retaining \ {"confirmed"}
           /\ pc' \in Retaining
  BY <1>6, SparedKept DEF PassInv, RunConfirmed, Successes
<1>7. CASE UNCHANGED <<status, owner, cur, job, todo, pc>>
  BY <1>7 DEF PassInv, RunConfirmed, Spared, Successes
<1>8. \/ Commit \/ Select
      \/ \E r \in RunIds : ExpireNext(r) \/ \E d \in Databases : Enqueue(d, r)
      \/ pc' \notin Retaining
      \/ UNCHANGED <<status, owner, cur, job, todo>> /\ pc \in Retaining \ {"confirmed"}
         /\ pc' \in Retaining
      \/ UNCHANGED <<status, owner, cur, job, todo, pc>>
  <2>1. Panel \/ Poll \/ UNCHANGED vars =>
          \/ \E r \in RunIds, d \in Databases : Enqueue(d, r)
          \/ UNCHANGED <<status, owner, cur, job, todo, pc>>
    BY DEF Panel, Poll, Save, Delete, vars
  <2>2. Backup \/ Failing => Commit \/ pc' \notin Retaining
    BY DEF Backup, Prepare, Record, Create, Dump, SyncFile, Rename, SyncDir,
           Failing, CheckFails, RecordFails, WriteFails, CommitFails, RecordFailure,
           GoIdle, Step
  <2>3. Retain => \/ Select \/ \E r \in RunIds : ExpireNext(r)
                  \/ pc' \notin Retaining
                  \/ UNCHANGED <<status, owner, cur, job, todo>>
                     /\ pc \in Retaining \ {"confirmed"} /\ pc' \in Retaining
    BY DEF Retain, RetainDone, RetainFails, RemoveNext, GoIdle, Step
  <2>4. Recover \/ Exit \/ Start \/ (\E r \in RunIds : Claim(r)) => pc' \notin Retaining
    BY DEF Recover, RecoverDone, RecoverFails, RecoverNext, Exit, Start, Claim, GoIdle, GoDown
  <2>5. Environment => \/ pc' \notin Retaining
                       \/ UNCHANGED <<status, owner, cur, job, todo, pc>>
    BY DEF Environment, Stop, Kill, PowerLoss, Unmount, Mount, GoDown
  <2> QED
    BY <2>1, <2>2, <2>3, <2>4, <2>5 DEF Next, WorkerStep
<1> QED
  BY <1>1, <1>2, <1>3, <1>4, <1>5, <1>6, <1>7, <1>8

(* A retention pass that ends by itself leaves at most retain successes, be *)
(* there a surplus from earlier passes or not.                              *)
THEOREM RetentionBounded == Spec => []RetentionBound
<1>1. Init => PassInv
  BY DEF Init, PassInv, RunConfirmed, Spared, Retaining
<1>2. PassInv => RetentionBound
  <2> SUFFICES ASSUME PassInv, pc = "retaining", todo = {}
               PROVE  Cardinality(Successes(owner[cur])) <= job.retain
    BY DEF RetentionBound
  <2>1. Successes(owner[cur]) \ todo = Successes(owner[cur])
    OBVIOUS
  <2> QED
    BY <2>1 DEF PassInv, Spared
<1> QED
  BY <1>1, <1>2, TypeTheorem, PassStep, PTL DEF Spec

-----------------------------------------------------------------------------
(* Runs listed as running                                                   *)

OneRunning ==
    \A r \in RunIds : status[r] = "running" /\ Serving =>
        (r = cur /\ pc \in Executing) \/ r \in faults.unrecorded

(* A fault forgets no run whose failure was not recorded.                   *)
LEMMA FaultKeeps ==
    ASSUME TypeOK, NEW k, NEW R, FaultLosing(k, R)
    PROVE  faults'.unrecorded = faults.unrecorded \cup R
  BY DEF TypeOK, FaultLosing

LEMMA RunningStep == TypeInv /\ OneRunning /\ [Next]_vars => OneRunning'
<1> SUFFICES ASSUME TypeInv, OneRunning, [Next]_vars PROVE OneRunning'
  OBVIOUS
<1> USE DEF TypeInv, TypeOK, CurRuns, table, files, local, env, OneRunning, Serving
<1>1. \A k, R : FaultLosing(k, R) => faults'.unrecorded = faults.unrecorded \cup R
  BY FaultKeeps
<1>2. CASE Panel \/ Poll \/ UNCHANGED vars
  BY <1>2 DEF Panel, Poll, Save, Delete, Enqueue, Oldest, vars
<1>3. ASSUME NEW r \in RunIds, Claim(r) PROVE OneRunning'
  BY <1>3 DEF Claim, Oldest
<1>4. CASE Backup
  BY <1>4 DEF Backup, Prepare, Record, Create, Dump, SyncFile, Rename, SyncDir, Commit, Step
<1>5. CASE Failing
  BY <1>1, <1>5 DEF Failing, CheckFails, RecordFails, WriteFails, CommitFails, RecordFailure,
                    GoIdle, Step, Fault
<1>6. CASE Retain
  BY <1>1, <1>6 DEF Retain, Select, RetainDone, RetainFails, RemoveNext, ExpireNext, GoIdle, Step, Fault
<1>7. CASE Exit \/ Start
  BY <1>7 DEF Exit, Start, GoDown
<1>8. CASE Recover
  BY <1>8 DEF Recover, RecoverDone, RecoverFails, RecoverNext, GoIdle, GoDown
<1>9. CASE Environment
  BY <1>1, <1>9 DEF Fault, Environment, Stop, Kill, PowerLoss, Unmount, Mount, GoDown
<1> QED
  BY <1>2, <1>3, <1>4, <1>5, <1>6, <1>7, <1>8, <1>9 DEF Next, WorkerStep

(* Whatever fails, no run stays listed as running that nobody executes,     *)
(* beyond the life of a process that could not record its failure.          *)
THEOREM NoneAbandoned == Spec => []NoAbandonedRun
<1>1. Init => OneRunning
  BY DEF Init, OneRunning
<1>2. OneRunning => NoAbandonedRun
  BY DEF OneRunning, NoAbandonedRun
<1> QED
  BY <1>1, <1>2, TypeTheorem, RunningStep, PTL DEF Spec

-----------------------------------------------------------------------------
(* Files left by crashes, stops and failed updates                          *)

Writing == {"dumping", "dumped", "synced"}

(* A partial file belongs to the run being written, or recovery will find   *)
(* its run listed as running with a destination.                            *)
PartialFound ==
    \A r \in RunIds : name[r] = "partial" =>
        /\ status[r] = "running" /\ dest[r] \in Destinations
        /\ Serving => r = cur /\ pc \in Writing
        /\ pc = "recover" => r \in todo

DestKnown == pc \in Writing \cup {"recorded"} => dest[cur] \in Destinations

VictimGone == pc = "removed" => \A r \in RunIds : Newest(r, todo) => name[r] = "none"

ExpiredAway == \A r \in RunIds : status[r] = "expired" => name[r] = "none"

DevicesWork == /\ mounted = Destinations
               /\ PartialFound /\ DestKnown /\ VictimGone /\ ExpiredAway

(* As long as no rough fault was taken                                      *)
CrashInv == ~faults.rough => DevicesWork

LEMMA LosingRough ==
    ASSUME TypeOK, NEW k, NEW R, FaultLosing(k, R), ~faults'.rough
    PROVE  ~faults.rough /\ k \notin Rough
  BY DEF TypeOK, FaultLosing

LEMMA FaultRough ==
    ASSUME TypeOK, NEW k, Fault(k), ~faults'.rough
    PROVE  ~faults.rough /\ k \notin Rough
  BY LosingRough DEF Fault

LEMMA RoughStays == TypeOK /\ [Next]_vars => (faults.rough => faults'.rough)
<1> SUFFICES ASSUME TypeOK, [Next]_vars, ~faults'.rough PROVE ~faults.rough
  OBVIOUS
<1> USE DEF env
<1>1. CASE faults' = faults \/ faults' = [faults EXCEPT !.unrecorded = {}]
  BY <1>1 DEF TypeOK
<1>2. ASSUME NEW k, NEW R, FaultLosing(k, R) PROVE ~faults.rough
  BY <1>2, LosingRough
<1> DEFINE Losing == \E k, R : FaultLosing(k, R)
<1>3. \/ faults' = faults \/ faults' = [faults EXCEPT !.unrecorded = {}]
      \/ Losing
  <2>1. Panel \/ Poll \/ Backup \/ UNCHANGED vars => faults' = faults
    BY DEF Panel, Poll, Save, Delete, Enqueue, vars, Backup, Prepare, Record, Create, Dump,
           SyncFile, Rename, SyncDir, Commit
  <2>2. Failing => faults' = faults \/ Losing
    BY DEF Failing, CheckFails, RecordFails, WriteFails, CommitFails, RecordFailure, Fault
  <2>3. Retain => faults' = faults \/ Losing
    BY DEF Retain, Select, RetainDone, RetainFails, RemoveNext, ExpireNext, Fault
  <2>4. Recover \/ Exit \/ (\E r \in RunIds : Claim(r)) => faults' = faults \/ Losing
    BY DEF Recover, RecoverDone, RecoverFails, RecoverNext, Exit, Claim, Fault
  <2>5. Environment => faults' = faults \/ Losing
    BY DEF Environment, Stop, Kill, PowerLoss, Unmount, Mount, Fault
  <2>6. Start => faults' = [faults EXCEPT !.unrecorded = {}]
    BY DEF Start
  <2> QED
    BY <2>1, <2>2, <2>3, <2>4, <2>5, <2>6 DEF Next, WorkerStep
<1> QED
  BY <1>1, <1>2, <1>3

LEMMA CrashStep == TypeInv /\ CrashInv /\ [Next]_vars => CrashInv'
<1> SUFFICES ASSUME TypeInv, DevicesWork, [Next]_vars, ~faults'.rough
             PROVE  DevicesWork'
  BY RoughStays DEF CrashInv, TypeInv
<1> USE SentinelAssumption
    DEF TypeInv, TypeOK, CurRuns, table, files, local, env, DevicesWork, PartialFound,
        DestKnown, VictimGone, ExpiredAway, Writing, Serving
<1>1. ~Fault("io") /\ ~Fault("power") /\ ~Fault("unmount")
  BY FaultRough DEF Rough
<1>2. CASE Panel \/ Poll \/ UNCHANGED vars
  BY <1>2 DEF Panel, Poll, Save, Delete, Enqueue, Oldest, Newest, vars
<1>3. ASSUME NEW r \in RunIds, Claim(r) PROVE DevicesWork'
  BY <1>3 DEF Claim, Oldest
<1>4. CASE Prepare
  BY <1>4 DEF Prepare, Step
<1>5. CASE Record
  BY <1>5 DEF Record, Step, Configs
<1>6. CASE Create
  BY <1>6 DEF Create, Step, Relink
<1>7. CASE Dump
  BY <1>7 DEF Dump, Step
<1>8. CASE SyncFile
  BY <1>8 DEF SyncFile, Step
<1>9. CASE Rename
  BY <1>9 DEF Rename, Step, Relink
<1>10. CASE SyncDir
  BY <1>10 DEF SyncDir, Step
<1>11. CASE Commit
  BY <1>11 DEF Commit, Step
<1>12. CASE CheckFails \/ RecordFails \/ CommitFails
  BY <1>1, <1>12 DEF CheckFails, RecordFails, CommitFails, Step
<1>13. CASE WriteFails
  <2>1. /\ pc' = "failing" /\ UNCHANGED <<status, owner, dest, cur, todo, mounted>>
        /\ \/ pc = "dumping" /\ DropPartial(cur)
           \/ ~Available(dest[cur]) /\ UNCHANGED name
    BY <1>1, <1>13 DEF WriteFails, Step
  <2>2. \A r \in RunIds : name'[r] # "partial"
    BY <2>1, <1>13 DEF DropPartial, Relink, WriteFails
  <2>3. \A r \in RunIds : name[r] = "none" => name'[r] = "none"
    BY <2>1 DEF DropPartial, Relink
  <2> QED
    BY <2>1, <2>2, <2>3
<1>14. CASE RecordFailure
  BY <1>14 DEF RecordFailure, GoIdle
<1>15. CASE Select \/ RetainDone \/ RetainFails
  BY <1>1, <1>15 DEF Select, RetainDone, RetainFails, GoIdle
<1>16. ASSUME NEW r \in RunIds, RemoveNext(r) PROVE DevicesWork'
  <2>1. /\ Newest(r, todo) /\ pc = "retaining" /\ pc' = "removed"
        /\ UNCHANGED <<status, owner, dest, cur, todo, mounted>>
        /\ name' = (IF name[r] = "final" THEN [name EXCEPT ![r] = "none"] ELSE name)
    BY <1>16 DEF RemoveNext, Step, Relink
  <2>2. name[r] # "partial"
    BY <2>1
  <2>3. name'[r] = "none"
    BY <2>1, <2>2
  <2>4. VictimGone'
    BY <2>1, <2>3, NewestUnique DEF Newest
  <2> QED
    BY <2>1, <2>2, <2>4
<1>17. ASSUME NEW r \in RunIds, ExpireNext(r) PROVE DevicesWork'
  BY <1>17 DEF ExpireNext
<1>18. CASE Exit
  BY <1>18 DEF Exit, GoDown
<1>19. CASE Start
  BY <1>19 DEF Start
<1>20. CASE Kill \/ RecoverFails
  BY <1>20 DEF Kill, RecoverFails, GoDown
<1>21. CASE RecoverDone
  BY <1>21 DEF RecoverDone, GoIdle
<1>22. ASSUME NEW r \in RunIds, RecoverNext(r) PROVE DevicesWork'
  <2>1. /\ pc = "recover" /\ pc' = pc /\ todo' = todo \ {r}
        /\ UNCHANGED <<status, owner, dest, cur, mounted>>
        /\ \/ DropPartial(r)
           \/ dest[r] \notin Destinations /\ UNCHANGED name
    BY <1>1, <1>22 DEF RecoverNext
  <2>2. name'[r] # "partial"
    BY <2>1 DEF DropPartial, Relink
  <2>3. \A s \in RunIds : name'[s] = name[s] \/ (s = r /\ name'[s] = "none")
    BY <2>1 DEF DropPartial, Relink
  <2> QED
    BY <2>1, <2>2, <2>3
<1>23. CASE Stop
  BY <1>23 DEF Stop, Newest
<1>24. ASSUME NEW x \in Destinations, Mount(x) PROVE DevicesWork'
  BY <1>24 DEF Mount
<1> QED
  BY <1>1, <1>2, <1>3, <1>4, <1>5, <1>6, <1>7, <1>8, <1>9, <1>10, <1>11, <1>12, <1>13,
     <1>14, <1>15, <1>16, <1>17, <1>18, <1>19, <1>20, <1>21, <1>22, <1>23, <1>24
  DEF Next, WorkerStep, Environment, Backup, Failing, Retain, Recover, PowerLoss, Unmount

LEMMA CrashTheorem == Spec => []CrashInv
<1>1. Init => CrashInv
  BY DEF Init, CrashInv, DevicesWork, PartialFound, DestKnown, VictimGone, ExpiredAway, Writing
<1> QED
  BY <1>1, TypeTheorem, CrashStep, PTL DEF Spec

(* However the process is killed or stopped and whichever updates fail: as  *)
(* long as the devices work, no partial file outlives recovery.             *)
THEOREM NoPartialLeft == Spec => []IdleNoPartial
<1>1. CrashInv => IdleNoPartial
  BY DEF CrashInv, DevicesWork, PartialFound, IdleNoPartial, Serving, Writing
<1> QED
  BY <1>1, CrashTheorem, PTL

(* Likewise a run is listed as expired only when its file is away.          *)
THEOREM ExpiredFilesGone == Spec => []ExpiredGone
<1>1. CrashInv => ExpiredGone
  BY DEF CrashInv, DevicesWork, ExpiredAway, ExpiredGone
<1> QED
  BY <1>1, CrashTheorem, PTL

=============================================================================
