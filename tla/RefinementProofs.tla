-------------------------- MODULE RefinementProofs --------------------------
(***************************************************************************)
(* Worker implements Ledger: what the history page shows of a run, and     *)
(* which confirmed runs have a copy, changes only as Ledger allows, for    *)
(* every set of databases and destinations and under every fault.          *)
(***************************************************************************)
EXTENDS WorkerProofs

USE DEF Steps, Executing, WithJob, Statuses, Names, Contents, Available

(* What the mapping of a step rests on                                      *)
MapInv == TypeInv /\ FileInv /\ RemovedGone

(* A safe file is a copy, and so is every confirmed run's file that has its *)
(* final name.                                                              *)
LEMMA SafeIsCopy ==
    ASSUME NEW r \in RunIds, status[r] = "success", Safe(r)
    PROVE  r \in Copies
  BY DEF Copies, Safe

LEMMA FinalIsCopy ==
    ASSUME ConfirmedFiles, NEW r \in RunIds, status[r] = "success"
    PROVE  r \in Copies <=> name[r] = "final"
  BY DEF Copies, ConfirmedFiles, Once

(* What retention works on may be given up: a newer copy replaces it.       *)
LEMMA OutlivedSuperseded ==
    ASSUME NewestBackupSafe, NEW r \in RunIds, Outlived(r)
    PROVE  History!Superseded(r)
<1>1. PICK s \in RunIds : s > r /\ owner[s] = owner[r] /\ status[s] = "success" /\ Safe(s)
  BY OutlivedBacked
<1>2. s \in Copies
  BY <1>1, SafeIsCopy
<1> QED
  BY <1>1, <1>2 DEF History!Superseded, RunIds, History!RunIds

(* Steps that touch no finished file of a confirmed run leave the copies.   *)
LEMMA SameCopies ==
    ASSUME UNCHANGED <<status, owner>>,
           \A r \in RunIds : status[r] = "success" => name'[r] = name[r] /\ data'[r] = data[r]
    PROVE  UNCHANGED <<status, owner, Copies>>
  BY DEF Copies

LEMMA MapInit == Init => History!Init
  BY DEF Init, History!Init, Copies, RunIds, History!RunIds

Mapped == [History!Next]_<<status, owner, Copies>>

LEMMA MapPanel == ASSUME MapInv, Panel PROVE Mapped
<1> USE DEF MapInv, TypeInv, TypeOK, table, files
<1>1. ASSUME NEW d \in Databases, NEW c \in Configs, Save(d, c) PROVE Mapped
  BY <1>1, SameCopies DEF Save, Mapped
<1>2. ASSUME NEW d \in Databases, Delete(d) PROVE Mapped
  BY <1>2, SameCopies DEF Delete, Mapped
<1>3. ASSUME NEW d \in Databases, NEW r \in RunIds, Enqueue(d, r) PROVE Mapped
  <2>1. /\ status[r] = "unused" /\ History!First(r, {s \in RunIds : status[s] = "unused"})
        /\ \A s \in RunIds : ~(owner[s] = d /\ Active(s))
        /\ status' = [status EXCEPT ![r] = "queued"]
        /\ owner' = [owner EXCEPT ![r] = d]
        /\ UNCHANGED <<name, data>>
    BY <1>3 DEF Enqueue, Oldest, History!First
  <2>2. Copies' = Copies
    BY <2>1 DEF Copies
  <2>3. History!Queue(r, d)
    BY <2>1, <2>2 DEF History!Queue, History!Move, History!Active, Active, RunIds, History!RunIds
  <2> QED
    BY <2>3 DEF Mapped, History!Next, RunIds, History!RunIds
<1> QED
  BY <1>1, <1>2, <1>3 DEF Panel

LEMMA MapClaim == ASSUME MapInv, NEW r \in RunIds, Claim(r) PROVE Mapped
<1> USE DEF MapInv, TypeInv, TypeOK, table, files
<1>1. /\ status[r] = "queued" /\ History!First(r, {s \in RunIds : status[s] = "queued"})
      /\ status' = [status EXCEPT ![r] = "running"]
      /\ UNCHANGED <<owner, name, data>>
  BY DEF Claim, Oldest, History!First
<1>2. Copies' = Copies
  BY <1>1 DEF Copies
<1>3. History!Begin(r)
  BY <1>1, <1>2 DEF History!Begin, History!Move, RunIds, History!RunIds
<1> QED
  BY <1>3 DEF Mapped, History!Next, RunIds, History!RunIds

(* The run in progress is not listed as success: the steps on its file      *)
(* stutter until Commit.                                                    *)
LEMMA MapBackup == ASSUME MapInv, Backup PROVE Mapped
<1> USE DEF MapInv, TypeInv, TypeOK, CurRuns, table, files
<1>1. CASE Commit
  <2>1. /\ cur \in RunIds /\ status[cur] = "running" /\ Safe(cur)
        /\ status' = [status EXCEPT ![cur] = "success"]
        /\ UNCHANGED <<owner, name, data>>
    BY <1>1 DEF Commit, Step, FileInv, FileStage
  <2>2. Copies' = Copies \cup {cur}
    BY <2>1 DEF Copies, Safe
  <2>3. History!Confirm(cur)
    BY <2>1, <2>2 DEF History!Confirm, History!Move
  <2> QED
    BY <2>1, <2>3 DEF Mapped, History!Next, RunIds, History!RunIds
<1>2. CASE Prepare \/ Record \/ SyncDir
  BY <1>2, SameCopies DEF Prepare, Record, SyncDir, Mapped
<1>3. CASE Create \/ Rename
  <2>1. /\ cur \in RunIds /\ status[cur] = "running" /\ UNCHANGED <<status, owner, data>>
        /\ \E n \in Names : name' = [name EXCEPT ![cur] = n]
    BY <1>3 DEF Create, Rename, Step, Relink
  <2> QED
    BY <2>1, SameCopies DEF Mapped
<1>4. CASE Dump \/ SyncFile
  <2>1. /\ cur \in RunIds /\ status[cur] = "running" /\ UNCHANGED <<status, owner, name>>
        /\ \E b \in Contents : data' = [data EXCEPT ![cur] = b]
    BY <1>4 DEF Dump, SyncFile, Step
  <2> QED
    BY <2>1, SameCopies DEF Mapped
<1> QED
  BY <1>1, <1>2, <1>3, <1>4 DEF Backup

LEMMA MapFailing == ASSUME MapInv, Failing PROVE Mapped
<1> USE DEF MapInv, TypeInv, TypeOK, CurRuns, table, files
<1>1. CASE CheckFails \/ RecordFails \/ CommitFails
  BY <1>1, SameCopies DEF CheckFails, RecordFails, CommitFails, Mapped
<1>2. CASE WriteFails
  <2>1. /\ cur \in RunIds /\ status[cur] = "running" /\ UNCHANGED <<status, owner, data>>
        /\ name' = name \/ name' = [name EXCEPT ![cur] = "none"]
    BY <1>2 DEF WriteFails, DropPartial, Relink
  <2> QED
    BY <2>1, SameCopies DEF Mapped
<1>3. CASE RecordFailure
  <2>1. /\ cur \in RunIds /\ status[cur] = "running" /\ UNCHANGED <<owner, name, data>>
        /\ status' = status \/ status' = [status EXCEPT ![cur] = "failed"]
    BY <1>3 DEF RecordFailure
  <2>2. Copies' = Copies
    BY <2>1 DEF Copies
  <2>3. UNCHANGED <<status, owner, Copies>> \/ History!Fail(cur)
    BY <2>1, <2>2 DEF History!Fail, History!Move
  <2> QED
    BY <2>1, <2>3 DEF Mapped, History!Next, RunIds, History!RunIds
<1> QED
  BY <1>1, <1>2, <1>3 DEF Failing

(* Remove drops a copy that a newer one replaces, or finds none; the UPDATE *)
(* comes when the copy is gone.                                             *)
LEMMA MapRetain == ASSUME MapInv, Retain PROVE Mapped
<1> USE DEF MapInv, TypeInv, TypeOK, CurRuns, table, files
<1>1. CASE Select \/ RetainDone \/ RetainFails
  BY <1>1, SameCopies DEF Select, RetainDone, RetainFails, Mapped
<1>2. ASSUME NEW r \in RunIds, RemoveNext(r) PROVE Mapped
  <2>1. /\ r \in todo /\ pc = "retaining" /\ UNCHANGED <<status, owner, data>>
        /\ name' = (IF name[r] = "final" THEN [name EXCEPT ![r] = "none"] ELSE name)
    BY <1>2 DEF RemoveNext, Newest, Step, Relink
  <2>2. status[r] = "success" /\ History!Superseded(r)
    BY <2>1, OutlivedSuperseded DEF FileInv, VictimsOutlived
  <2>3. CASE name[r] = "final"
    <3>1. r \in Copies
      BY <2>2, <2>3, FinalIsCopy DEF FileInv
    <3>2. Copies' = Copies \ {r}
      BY <2>1, <2>3 DEF Copies
    <3>3. History!Drop(r)
      BY <2>1, <2>2, <3>1, <3>2 DEF History!Drop
    <3> QED
      BY <3>3 DEF Mapped, History!Next, RunIds, History!RunIds
  <2>4. CASE name[r] # "final"
    BY <2>1, <2>4, SameCopies DEF Mapped
  <2> QED
    BY <2>3, <2>4
<1>3. ASSUME NEW r \in RunIds, ExpireNext(r) PROVE Mapped
  <2>1. /\ r \in todo /\ pc = "removed" /\ name[r] # "final"
        /\ status' = [status EXCEPT ![r] = "expired"]
        /\ UNCHANGED <<owner, name, data>>
    BY <1>3 DEF ExpireNext, Newest, RemovedGone
  <2>2. status[r] = "success" /\ History!Superseded(r)
    BY <2>1, OutlivedSuperseded DEF FileInv, VictimsOutlived
  <2>3. r \notin Copies /\ Copies' = Copies
    BY <2>1 DEF Copies
  <2>4. History!Expire(r)
    BY <2>1, <2>2, <2>3 DEF History!Expire, History!Move
  <2> QED
    BY <2>4 DEF Mapped, History!Next, RunIds, History!RunIds
<1> QED
  BY <1>1, <1>2, <1>3 DEF Retain

LEMMA MapRecover == ASSUME MapInv, Recover PROVE Mapped
<1> USE DEF MapInv, TypeInv, TypeOK, table, files
<1>1. CASE RecoverDone
  <2>1. /\ status' = [r \in RunIds |-> IF status[r] = "running" THEN "interrupted"
                                                               ELSE status[r]]
        /\ UNCHANGED <<owner, name, data>>
    BY <1>1 DEF RecoverDone
  <2>2. Copies' = Copies
    BY <2>1 DEF Copies
  <2>3. History!Interrupt
    BY <2>1, <2>2 DEF History!Interrupt, RunIds, History!RunIds
  <2> QED
    BY <2>3 DEF Mapped, History!Next
<1>2. CASE RecoverFails
  BY <1>2, SameCopies DEF RecoverFails, Mapped
<1>3. ASSUME NEW r \in RunIds, RecoverNext(r) PROVE Mapped
  <2>1. /\ UNCHANGED <<status, owner, data>>
        /\ name' = name \/ (name[r] = "partial" /\ name' = [name EXCEPT ![r] = "none"])
    BY <1>3 DEF RecoverNext, DropPartial, Relink
  <2>2. \A s \in RunIds : status[s] = "success" => name[s] # "partial"
    BY DEF FileInv, ConfirmedFiles, Once
  <2> QED
    BY <2>1, <2>2, SameCopies DEF Mapped
<1> QED
  BY <1>1, <1>2, <1>3 DEF Recover

(* A power loss takes no copy of a confirmed run, and may bring some back.  *)
LEMMA MapPower == ASSUME MapInv, PowerLoss PROVE Mapped
<1> USE DEF MapInv, TypeInv, TypeOK, table, files
<1>1. /\ UNCHANGED <<status, owner>>
      /\ \A r \in RunIds : name'[r] \in kept[r]
      /\ \A r \in RunIds : data[r] = "durable" => data'[r] = "durable"
  BY DEF PowerLoss
<1>2. Copies \subseteq Copies'
  <2> SUFFICES ASSUME NEW r \in Copies PROVE r \in Copies'
    OBVIOUS
  <2>1. r \in RunIds /\ status[r] = "success" /\ name[r] = "final"
    BY DEF Copies
  <2>2. kept[r] = {"final"} /\ data[r] = "durable"
    BY <2>1 DEF FileInv, ConfirmedFiles, Once
  <2> QED
    BY <1>1, <2>1, <2>2 DEF Copies
<1>3. Copies' \in SUBSET {r \in RunIds : status[r] = "success"}
  BY <1>1 DEF Copies
<1>4. History!Reappear
  BY <1>1, <1>2, <1>3 DEF History!Reappear, RunIds, History!RunIds
<1> QED
  BY <1>4 DEF Mapped, History!Next

LEMMA MapStep == MapInv /\ [Next]_vars => Mapped
<1> SUFFICES ASSUME MapInv, [Next]_vars PROVE Mapped
  OBVIOUS
<1>1. CASE Exit \/ Start \/ Poll \/ UNCHANGED vars
  BY <1>1, SameCopies DEF Exit, Start, Poll, vars, table, files, Mapped
<1>2. CASE Environment
  <2>1. CASE Stop \/ Kill \/ \E x \in Destinations : Unmount(x) \/ Mount(x)
    BY <2>1, SameCopies DEF Stop, Kill, Unmount, Mount, table, files, Mapped
  <2> QED
    BY <1>2, <2>1, MapPower DEF Environment
<1> QED
  BY <1>1, <1>2, MapPanel, MapClaim, MapBackup, MapFailing, MapRetain, MapRecover
  DEF Next, WorkerStep

(* The history of runs behaves as Ledger promises, if the file system keeps *)
(* a folder that was synchronised: runs begin in the order of the queue,    *)
(* are confirmed together with their copy, lose it only to a newer one, and *)
(* are listed as expired only after that.                                   *)
THEOREM WorkerRefinesLedger ==
    ASSUME FolderDurable = TRUE
    PROVE  Spec => RefinesLedger
<1>1. Spec => []MapInv
  BY FileTheorem, RemovedTheorem, PTL DEF MapInv
<1>2. Spec => History!Init /\ [][History!Next]_<<status, owner, Copies>>
  BY <1>1, MapInit, MapStep, PTL DEF Spec, Mapped
<1> QED
  BY <1>2, PTL DEF RefinesLedger, History!Spec

(* What LedgerProofs proves, of the history of Worker                       *)
Promised == INSTANCE LedgerProofs WITH copies <- Copies

(* The two instances of Ledger have the same definitions.                   *)
LEMMA SameLedger == /\ History!Init <=> Promised!Init
                    /\ History!Next => Promised!Next
                    /\ Promised!Covered => History!Covered
<1> USE DEF History!RunIds, Promised!RunIds, History!Superseded, Promised!Superseded,
            History!Active, Promised!Active, History!First, Promised!First,
            History!Move, Promised!Move
<1>1. ASSUME NEW r \in History!RunIds
      PROVE  /\ \A d \in Databases : History!Queue(r, d) => Promised!Queue(r, d)
             /\ History!Begin(r) => Promised!Begin(r)
             /\ History!Confirm(r) => Promised!Confirm(r)
             /\ History!Fail(r) => Promised!Fail(r)
             /\ History!Drop(r) => Promised!Drop(r)
             /\ History!Expire(r) => Promised!Expire(r)
  BY DEF History!Queue, Promised!Queue, History!Begin, Promised!Begin, History!Confirm,
     Promised!Confirm, History!Fail, Promised!Fail, History!Drop, Promised!Drop,
     History!Expire, Promised!Expire
<1>2. History!Interrupt => Promised!Interrupt
  BY DEF History!Interrupt, Promised!Interrupt
<1>3. History!Reappear => Promised!Reappear
  BY DEF History!Reappear, Promised!Reappear
<1>4. History!Next => Promised!Next
  BY <1>1, <1>2, <1>3 DEF History!Next, Promised!Next
<1> QED
  BY <1>4 DEF History!Init, Promised!Init, History!Covered, Promised!Covered

(* So the newest confirmed run of a database always has its copy, and an    *)
(* older one has it or is replaced by a newer copy: AlwaysCovered, for all  *)
(* histories that behave as Ledger, holds of the one Worker keeps.          *)
THEOREM WorkerHistoryCovered ==
    ASSUME FolderDurable = TRUE
    PROVE  Spec => []History!Covered
<1>1. Promised!Spec => []Promised!Covered
  BY Promised!AlwaysCovered
<1>2. History!Spec => Promised!Spec
  BY SameLedger, PTL DEF History!Spec, Promised!Spec
<1> QED
  BY <1>1, <1>2, WorkerRefinesLedger, SameLedger, PTL DEF RefinesLedger

=============================================================================
