------------------------------- MODULE Worker -------------------------------
(***************************************************************************)
(* The backup worker of BaseGuard: the run queue kept in SQLite            *)
(* (store.go), the single goroutine that claims a run and executes it      *)
(* (worker.go), the file protocol of a backup (backup.go) and what a crash, *)
(* a power loss, a device error or an absent destination leaves behind.    *)
(*                                                                         *)
(* SQLite commits with synchronous=FULL (store.go:41), so the columns of   *)
(* the runs table survive everything; the entries of a folder survive a    *)
(* power loss only once the folder is synchronised, and the bytes of a     *)
(* file only once the file is.                                             *)
(***************************************************************************)
EXTENDS Naturals, FiniteSets

CONSTANTS
    Databases,      \* ids of the databases table (AUTOINCREMENT: never reused)
    Destinations,   \* a destination with a subfolder of it
    None,           \* no owner, no destination, no job, row not inserted yet
    Deleted,        \* the row of a database was deleted
    MaxRuns,        \* bound: runs ever queued
    MaxRetain,      \* bound: largest "retain" of a database
    MaxFaults,      \* bound: faults, stops and crashes taken together
    Faults,         \* the kinds of fault a run of the model may take
    FolderDurable   \* does fsync of a folder also keep its entry in its parent?

ASSUME BoundAssumption ==
    /\ MaxRuns \in Nat
    /\ MaxRetain \in Nat
    /\ MaxFaults \in Nat
    /\ FolderDurable \in BOOLEAN
ASSUME FaultAssumption ==
    Faults \subseteq {"kill", "power", "stop", "io", "db", "unmount"}

VARIABLES
    config,     \* databases: None, Deleted or the saved destination and retain
    status,     \* runs.status, "unused" for an id not inserted yet
    owner,      \* runs.database_id
    dest,       \* runs.destination and runs.path, None until recorded
    name,       \* the name the run's file has now
    kept,       \* the names a power loss may leave it with
    data,       \* the bytes of the file
    pc,         \* the step the process is at
    cur,        \* the run being executed, 0 for none
    job,        \* the Database value execute read, None for none
    todo,       \* rows a loop of Recover or Retain still has to visit
    stopping,   \* the signal context is cancelled
    mounted,    \* destinations whose marker can be read
    faults      \* how many faults were taken, whether a rough one was, and the
                \* runs whose failure this process could not record

table == <<status, owner, dest>>
files == <<name, kept, data>>
local == <<pc, cur, job, todo, stopping>>
env   == <<mounted, faults>>
vars  == <<config, table, files, local, env>>

RunIds   == 1..MaxRuns
Statuses == {"unused", "queued", "running", "success", "failed",
             "interrupted", "expired"}
Names    == {"none", "partial", "final"}
Contents == {"incomplete", "complete", "durable"}
Steps    == {"down", "recover", "idle", "claimed", "prepared", "recorded",
             "dumping", "dumped", "synced", "renamed", "durable", "failing",
             "confirmed", "retaining", "removed"}

(* What a database row holds that the worker depends on; Validate refuses a *)
(* retain below 1 (model.go:106).                                           *)
Configs == [dest : Destinations, retain : 1..MaxRetain]

ASSUME SentinelAssumption ==
    /\ None \notin Databases
    /\ None \notin Destinations
    /\ None \notin Configs
    /\ Deleted \notin Configs

Registered(d) == config[d] \notin {None, Deleted}
Active(r)     == status[r] \in {"queued", "running"}
Successes(d)  == {r \in RunIds : owner[r] = d /\ status[r] = "success"}

NewerSuccesses(r) == Cardinality({s \in Successes(owner[r]) : s > r})

(* Variants with the OFFSET one too small and one too large: they exist to  *)
(* be refuted, like those before Init.                                      *)
SurplusLowOffset(d, n)  == {r \in Successes(d) : NewerSuccesses(r) + 1 >= n}
SurplusHighOffset(d, n) == {r \in Successes(d) : NewerSuccesses(r) > n}

(* SELECT ... ORDER BY id DESC LIMIT -1 OFFSET n                            *)
Surplus(d, n) == {r \in Successes(d) : NewerSuccesses(r) >= n}

Oldest(r, S) == r \in S /\ \A s \in S : r <= s
Newest(r, S) == r \in S /\ \A s \in S : s <= r

Serving == pc \notin {"down", "recover"}

(* Those after which a file may be left, or come back, for good             *)
Rough == {"power", "io", "unmount"}

FaultLosing(k, R) ==
    /\ k \in Faults
    /\ faults.count < MaxFaults
    /\ faults' = [count |-> faults.count + 1, rough |-> faults.rough \/ k \in Rough,
                  unrecorded |-> faults.unrecorded \cup R]

Fault(k) == FaultLosing(k, {})

(* openDestination reads the marker of the destination                      *)
Available(x) == x \in mounted

(* A change of the folder: seen at once, kept by a power loss or not.       *)
Relink(r, n) == /\ name' = [name EXCEPT ![r] = n]
                /\ kept' = [kept EXCEPT ![r] = @ \cup {n}]

DropPartial(r) == IF name[r] = "partial"
                  THEN Relink(r, "none")
                  ELSE UNCHANGED <<name, kept>>

GoIdle == /\ pc' = "idle" /\ cur' = 0 /\ job' = None /\ todo' = {}
          /\ UNCHANGED stopping

GoDown == /\ pc' = "down" /\ cur' = 0 /\ job' = None /\ todo' = {}
          /\ stopping' = FALSE

Step(from, to) == /\ pc = from
                  /\ pc' = to
                  /\ UNCHANGED <<cur, todo, stopping>>

Init ==
    /\ config = [d \in Databases |-> None]
    /\ status = [r \in RunIds |-> "unused"]
    /\ owner = [r \in RunIds |-> None]
    /\ dest = [r \in RunIds |-> None]
    /\ name = [r \in RunIds |-> "none"]
    /\ kept = [r \in RunIds |-> {"none"}]
    /\ data = [r \in RunIds |-> "incomplete"]
    /\ pc = "down" /\ cur = 0 /\ job = None /\ todo = {}
    /\ stopping = FALSE
    /\ mounted = Destinations
    /\ faults = [count |-> 0, rough |-> FALSE, unrecorded |-> {}]

-----------------------------------------------------------------------------
(* Defective variants of the steps below: what a plausible slip in the code *)
(* would do. No step uses them; each must make a run of its property fail.  *)

(* The check before the insert forgets the run that is already running.     *)
EnqueueQueuedOnly(d, r) ==
    /\ Serving
    /\ Registered(d)
    /\ \A s \in RunIds : ~(owner[s] = d /\ status[s] = "queued")
    /\ Oldest(r, {s \in RunIds : status[s] = "unused"})
    /\ status' = [status EXCEPT ![r] = "queued"]
    /\ owner' = [owner EXCEPT ![r] = d]
    /\ UNCHANGED <<config, dest, files, local, env>>

(* The file is renamed without being synchronised.                          *)
SyncFileSkipped ==
    /\ Step("dumped", "synced")
    /\ UNCHANGED <<config, table, files, job, env>>

(* The run is acknowledged without synchronising the folder.                *)
SyncDirSkipped ==
    /\ Step("renamed", "durable")
    /\ UNCHANGED <<config, table, files, job, env>>

(* An error of the dump returns before the deferred cleanup is installed.   *)
WriteFailsUncleaned ==
    /\ Step("dumping", "failing")
    /\ UNCHANGED <<config, table, files, job, env>>

(* Retention removes the partial name instead of the recorded path.         *)
RemoveNextPartial(r) ==
    /\ Newest(r, todo)
    /\ Step("retaining", "removed")
    /\ DropPartial(r)
    /\ UNCHANGED <<config, table, data, job, env>>

(* The status written is not one the other queries know.                    *)
ExpireNextMisspelt(r) ==
    /\ Newest(r, todo)
    /\ pc = "removed"
    /\ pc' = "retaining"
    /\ status' = [status EXCEPT ![r] = "expire"]
    /\ todo' = todo \ {r}
    /\ UNCHANGED <<config, owner, dest, files, cur, job, stopping, env>>

(* Recovery gives up at the first destination it cannot open.               *)
RecoverNextStrict(r) ==
    /\ pc = "recover"
    /\ Oldest(r, todo)
    /\ Available(dest[r])
    /\ DropPartial(r)
    /\ todo' = todo \ {r}
    /\ UNCHANGED <<config, table, data, pc, cur, job, stopping, env>>

(* Recovery interrupts only the runs whose path was recorded.               *)
RecoverDoneRecorded ==
    /\ pc = "recover"
    /\ todo = {}
    /\ GoIdle
    /\ status' = [r \in RunIds |-> IF status[r] = "running" /\ dest[r] # None
                                   THEN "interrupted" ELSE status[r]]
    /\ UNCHANGED <<config, owner, dest, files, env>>

(* Recovery puts the runs back in the queue.                                *)
RecoverDoneRequeued ==
    /\ pc = "recover"
    /\ todo = {}
    /\ GoIdle
    /\ status' = [r \in RunIds |-> IF status[r] = "running" THEN "queued"
                                                            ELSE status[r]]
    /\ UNCHANGED <<config, owner, dest, files, env>>

-----------------------------------------------------------------------------
(* The panel and the scheduler, as far as the worker sees them              *)

(* Save inserts a new row or rewrites one; runs are not touched.            *)
Save(d, c) ==
    /\ Serving
    /\ config[d] # Deleted
    /\ config[d] # c
    /\ config' = [config EXCEPT ![d] = c]
    /\ UNCHANGED <<table, files, local, env>>

(* The delete handler: one statement, refused while a run is active.        *)
Delete(d) ==
    /\ Serving
    /\ Registered(d)
    /\ \A r \in RunIds : ~(owner[r] = d /\ Active(r))
    /\ config' = [config EXCEPT ![d] = Deleted]
    /\ UNCHANGED <<table, files, local, env>>

(* Store.Enqueue, for a click on the panel or a tick of the scheduler.      *)
Enqueue(d, r) ==
    /\ Serving
    /\ Registered(d)
    /\ \A s \in RunIds : ~(owner[s] = d /\ Active(s))
    /\ Oldest(r, {s \in RunIds : status[s] = "unused"})
    /\ status' = [status EXCEPT ![r] = "queued"]
    /\ owner' = [owner EXCEPT ![r] = d]
    /\ UNCHANGED <<config, dest, files, local, env>>

-----------------------------------------------------------------------------
(* Executing a run                                                          *)

(* The loop of Worker.Start: when the ticker has fired and the context is   *)
(* cancelled, select takes either case, so a stop does not exclude a claim. *)
Claim(r) ==
    /\ pc = "idle"
    /\ Oldest(r, {s \in RunIds : status[s] = "queued"})
    /\ status' = [status EXCEPT ![r] = "running"]
    /\ pc' = "claimed" /\ cur' = r
    /\ UNCHANGED <<config, owner, dest, files, job, todo, stopping, env>>

(* The tick that finds the queue empty                                      *)
Poll ==
    /\ pc = "idle"
    /\ \A r \in RunIds : status[r] # "queued"
    /\ UNCHANGED vars

(* execute reads the row and the client probes the server. Every command    *)
(* started under a cancelled context fails, so a stop leaves no way on.     *)
Prepare ==
    /\ Step("claimed", "prepared")
    /\ ~stopping
    /\ Registered(owner[cur])
    /\ job' = config[owner[cur]]
    /\ UNCHANGED <<config, table, files, env>>

(* openDestination, MkdirAll, UPDATE runs SET destination, path             *)
Record ==
    /\ Step("prepared", "recorded")
    /\ Available(job.dest)
    /\ dest' = [dest EXCEPT ![cur] = job.dest]
    /\ UNCHANGED <<config, status, owner, files, job, env>>

(* Neither the final nor the partial name may exist (Stat, O_EXCL).         *)
Create ==
    /\ Step("recorded", "dumping")
    /\ Available(dest[cur])
    /\ name[cur] = "none"
    /\ Relink(cur, "partial")
    /\ UNCHANGED <<config, table, data, job, env>>

Dump ==
    /\ Step("dumping", "dumped")
    /\ Available(dest[cur])
    /\ data' = [data EXCEPT ![cur] = "complete"]
    /\ UNCHANGED <<config, table, name, kept, job, env>>

SyncFile ==
    /\ Step("dumped", "synced")
    /\ Available(dest[cur])
    /\ data' = [data EXCEPT ![cur] = "durable"]
    /\ UNCHANGED <<config, table, name, kept, job, env>>

Rename ==
    /\ Step("synced", "renamed")
    /\ Available(dest[cur])
    /\ Relink(cur, "final")
    /\ UNCHANGED <<config, table, data, job, env>>

(* dir.Sync: every entry of the folder as it is now. MkdirAll's entry in    *)
(* the parent folder is not synchronised by the code.                       *)
SyncDir ==
    /\ Step("renamed", "durable")
    /\ Available(dest[cur])
    /\ kept' = [r \in RunIds |->
                  IF owner[r] = owner[cur] /\ dest[r] = dest[cur]
                  THEN {name[r]} \cup (IF FolderDurable THEN {} ELSE {"none"})
                  ELSE kept[r]]
    /\ UNCHANGED <<config, table, name, data, job, env>>

Commit ==
    /\ Step("durable", "confirmed")
    /\ status' = [status EXCEPT ![cur] = "success"]
    /\ UNCHANGED <<config, owner, dest, files, job, env>>

-----------------------------------------------------------------------------
(* Failing                                                                  *)

(* The client refuses, or the stop reached it; or SQLite cannot be read.    *)
CheckFails ==
    /\ Step("claimed", "failing")
    /\ UNCHANGED <<config, table, files, job, env>>

(* The destination is not there, or MkdirAll or the UPDATE fails.           *)
RecordFails ==
    /\ Step("prepared", "failing")
    /\ \/ ~Available(job.dest) /\ UNCHANGED faults
       \/ Fault("io")
       \/ Fault("db")
    /\ UNCHANGED <<config, table, files, job, mounted>>

(* writeBackup returns an error from any of its steps; its deferred cleanup *)
(* removes the partial file when the device lets it.                        *)
WriteFails ==
    /\ pc \in {"recorded", "dumping", "dumped", "synced", "renamed"}
    /\ Step(pc, "failing")
    /\ \/ pc = "dumping" /\ Available(dest[cur])
          /\ DropPartial(cur) /\ UNCHANGED faults
       \/ ~Available(dest[cur]) /\ UNCHANGED <<name, kept, faults>>
       \/ Fault("io") /\ DropPartial(cur)
       \/ Fault("io") /\ UNCHANGED <<name, kept>>
    /\ UNCHANGED <<config, table, data, job, mounted>>

CommitFails ==
    /\ Step("durable", "failing")
    /\ Fault("db")
    /\ UNCHANGED <<config, table, files, job, mounted>>

RecordFailure ==
    /\ pc = "failing"
    /\ GoIdle
    /\ \/ status' = [status EXCEPT ![cur] = "failed"] /\ UNCHANGED faults
       \/ FaultLosing("db", {cur}) /\ UNCHANGED status
    /\ UNCHANGED <<config, owner, dest, files, mounted>>

-----------------------------------------------------------------------------
(* Worker.Retain                                                            *)

Select ==
    /\ pc = "confirmed"
    /\ pc' = "retaining"
    /\ todo' = Surplus(owner[cur], job.retain)
    /\ UNCHANGED <<config, table, files, cur, job, stopping, env>>

(* A file that is already gone is no error; the folder is not synchronised. *)
RemoveNext(r) ==
    /\ Newest(r, todo)
    /\ Step("retaining", "removed")
    /\ Available(dest[r])
    /\ IF name[r] = "final" THEN Relink(r, "none") ELSE UNCHANGED <<name, kept>>
    /\ UNCHANGED <<config, table, data, job, env>>

ExpireNext(r) ==
    /\ Newest(r, todo)
    /\ pc = "removed"
    /\ pc' = "retaining"
    /\ status' = [status EXCEPT ![r] = "expired"]
    /\ todo' = todo \ {r}
    /\ UNCHANGED <<config, owner, dest, files, cur, job, stopping, env>>

RetainDone ==
    /\ pc = "retaining"
    /\ todo = {}
    /\ GoIdle
    /\ UNCHANGED <<config, table, files, env>>

(* The first error ends the pass; what is left waits for the next success.  *)
RetainFails ==
    /\ \/ /\ pc = "retaining"
          /\ \E r \in todo : /\ Newest(r, todo)
                             /\ \/ ~Available(dest[r]) /\ UNCHANGED faults
                                \/ Fault("io")
       \/ pc \in {"confirmed", "removed"} /\ Fault("db")
    /\ GoIdle
    /\ UNCHANGED <<config, table, files, mounted>>

-----------------------------------------------------------------------------
(* Stopping, dying and starting again                                       *)

(* SIGTERM, or the HTTP server returning an error                           *)
Stop ==
    /\ Serving
    /\ ~stopping
    /\ Fault("stop")
    /\ stopping' = TRUE
    /\ UNCHANGED <<config, table, files, pc, cur, job, todo, mounted>>

Exit ==
    /\ pc = "idle"
    /\ stopping
    /\ GoDown
    /\ UNCHANGED <<config, table, files, env>>

Kill ==
    /\ pc # "down"
    /\ Fault("kill")
    /\ GoDown
    /\ UNCHANGED <<config, table, files, mounted>>

PowerLoss ==
    /\ Fault("power")
    /\ name' \in {f \in [RunIds -> Names] : \A r \in RunIds : f[r] \in kept[r]}
    /\ kept' = [r \in RunIds |-> {name'[r]}]
    /\ data' \in {f \in [RunIds -> Contents] : \A r \in RunIds :
                    IF data[r] = "complete" THEN f[r] \in {"incomplete", "durable"}
                                            ELSE f[r] = data[r]}
    /\ GoDown
    /\ UNCHANGED <<config, table, mounted>>

(* The lock is taken, the store is open and Recover reads the running rows. *)
Start ==
    /\ pc = "down"
    /\ pc' = "recover"
    /\ todo' = {r \in RunIds : status[r] = "running" /\ dest[r] # None}
    /\ faults' = [faults EXCEPT !.unrecorded = {}]
    /\ UNCHANGED <<config, table, files, cur, job, stopping, mounted>>

(* Errors of openDestination and Remove are ignored.                        *)
RecoverNext(r) ==
    /\ pc = "recover"
    /\ Oldest(r, todo)
    /\ \/ Available(dest[r]) /\ DropPartial(r) /\ UNCHANGED faults
       \/ ~Available(dest[r]) /\ UNCHANGED <<name, kept, faults>>
       \/ Fault("io") /\ UNCHANGED <<name, kept>>
    /\ todo' = todo \ {r}
    /\ UNCHANGED <<config, table, data, pc, cur, job, stopping, mounted>>

RecoverDone ==
    /\ pc = "recover"
    /\ todo = {}
    /\ GoIdle
    /\ status' = [r \in RunIds |-> IF status[r] = "running" THEN "interrupted"
                                                            ELSE status[r]]
    /\ UNCHANGED <<config, owner, dest, files, env>>

(* run() returns the error and the container is started again               *)
RecoverFails ==
    /\ pc = "recover"
    /\ Fault("db")
    /\ GoDown
    /\ UNCHANGED <<config, table, files, mounted>>

Unmount(x) ==
    /\ x \in mounted
    /\ Fault("unmount")
    /\ mounted' = mounted \ {x}
    /\ UNCHANGED <<config, table, files, local>>

Mount(x) ==
    /\ x \notin mounted
    /\ mounted' = mounted \cup {x}
    /\ UNCHANGED <<config, table, files, local, faults>>

-----------------------------------------------------------------------------
Panel ==
    \E d \in Databases : \/ \E c \in Configs : Save(d, c)
                         \/ Delete(d)
                         \/ \E r \in RunIds : Enqueue(d, r)

Backup == \/ Prepare \/ Record \/ Create \/ Dump \/ SyncFile
          \/ Rename \/ SyncDir \/ Commit

Failing == CheckFails \/ RecordFails \/ WriteFails \/ CommitFails \/ RecordFailure

Retain == \/ Select \/ RetainDone \/ RetainFails
          \/ \E r \in RunIds : RemoveNext(r) \/ ExpireNext(r)

Recover == RecoverDone \/ RecoverFails \/ \E r \in RunIds : RecoverNext(r)

(* The steps the process takes by itself                                    *)
WorkerStep == \/ \E r \in RunIds : Claim(r)
              \/ Backup \/ Failing \/ Retain \/ Exit \/ Start \/ Recover

Environment == \/ Stop \/ Kill \/ PowerLoss
               \/ \E x \in Destinations : Unmount(x) \/ Mount(x)

Next == Panel \/ Poll \/ WorkerStep \/ Environment

Spec == Init /\ [][Next]_vars

(* The worker's loop polls every second, each client command is bounded by  *)
(* the timeout of the database, and the container is restarted.             *)
FairSpec == Spec /\ WF_vars(WorkerStep)

-----------------------------------------------------------------------------
(* Properties                                                               *)

(* Every variable has the shape the code gives it.                          *)
TypeOK ==
    /\ config \in [Databases -> Configs \cup {None, Deleted}]
    /\ status \in [RunIds -> Statuses]
    /\ owner \in [RunIds -> Databases \cup {None}]
    /\ dest \in [RunIds -> Destinations \cup {None}]
    /\ name \in [RunIds -> Names]
    /\ kept \in [RunIds -> SUBSET Names]
    /\ data \in [RunIds -> Contents]
    /\ pc \in Steps
    /\ cur \in RunIds \cup {0}
    /\ job \in Configs \cup {None}
    /\ todo \in SUBSET RunIds
    /\ stopping \in BOOLEAN
    /\ mounted \in SUBSET Destinations
    /\ faults \in [count : 0..MaxFaults, rough : BOOLEAN, unrecorded : SUBSET RunIds]

(* A database has at most one queued or running run, and its row is there   *)
(* for as long as it has one: Enqueue, the claim, the delete handler and    *)
(* Recover keep it so through crashes and failed updates.                   *)
OneActivePerDatabase ==
    \A r \in RunIds : Active(r) =>
        /\ Registered(owner[r])
        /\ \A s \in RunIds : Active(s) /\ owner[s] = owner[r] => s = r

(* The file of a run is in place, whole, and stays so if the power fails.   *)
Safe(r) == name[r] = "final" /\ kept[r] = {"final"} /\ data[r] = "durable"

Outlived(r) == \E s \in RunIds : s > r /\ owner[s] = owner[r] /\ status[s] = "success"

(* For every confirmed run the database has a confirmed backup at least as  *)
(* new that is on its destination and survives a power loss at any moment:  *)
(* the order of Sync, Rename, dir.Sync and the UPDATE, and a retention that *)
(* never reaches the newest.                                                *)
NewestBackupSafe ==
    \A r \in RunIds : status[r] = "success" =>
        \E s \in RunIds : s >= r /\ owner[s] = owner[r] /\ status[s] = "success" /\ Safe(s)

(* Why it holds: the steps of a backup leave the file of the run they work  *)
(* on as far as the protocol has got, and what retention is about to remove *)
(* has been outlived. With TypeOK this is an inductive invariant.           *)
Executing  == {"claimed", "prepared", "recorded", "dumping", "dumped",
               "synced", "renamed", "durable", "failing"}
WithJob    == (Executing \ {"claimed", "failing"}) \cup {"confirmed"}

OwnedRuns  == \A r \in RunIds : status[r] # "unused" => owner[r] \in Databases

CurRuns    == /\ pc \in Executing => cur \in RunIds /\ status[cur] = "running"
              /\ pc \in WithJob => job \in Configs
              /\ pc \in {"retaining", "removed"} => \A r \in todo : status[r] = "success"

FileStage  == /\ pc \in {"synced", "renamed"} => data[cur] = "durable"
              /\ pc = "renamed" => name[cur] = "final"
              /\ pc = "durable" => Safe(cur)

VictimsOutlived == pc \in {"retaining", "removed"} => \A r \in todo : Outlived(r)

Once(r)    == status[r] \in {"success", "expired"}

ConfirmedFiles == \A r \in RunIds : Once(r) =>
                      /\ data[r] = "durable"
                      /\ name[r] \in {"none", "final"} /\ kept[r] \subseteq {"none", "final"}
                      /\ name[r] = "final" => kept[r] = {"final"}

BackupInv == /\ OwnedRuns /\ CurRuns /\ FileStage /\ VictimsOutlived
             /\ ConfirmedFiles /\ NewestBackupSafe

(* What the download handler serves is a finished dump. It reads the row    *)
(* first and opens the file later, when a retention pass may have removed   *)
(* the file or expired the run, or a power loss may have brought it back:   *)
(* for a run that is or was a success the final name, if it is there at     *)
(* all, holds durable bytes.                                                *)
DownloadsComplete ==
    \A r \in RunIds : Once(r) =>
        /\ name[r] # "partial"
        /\ name[r] = "final" => data[r] = "durable"

(* A file at its final name goes away only for a run the history lists as   *)
(* success and only while a newer success has a safe file; for another run  *)
(* only a power loss takes it, before its folder was synchronised.          *)
Justified(r) ==
    \/ /\ status[r] = "success"
       /\ \E s \in RunIds : s > r /\ owner[s] = owner[r] /\ status[s] = "success" /\ Safe(s)
    \/ status[r] # "success" /\ kept[r] # {"final"} /\ pc' = "down"

RemovalJustified ==
    [][\A r \in RunIds : name[r] = "final" /\ name'[r] # "final" => Justified(r)]_vars

(* A retention pass that ends by itself leaves no more successes than the   *)
(* run's retain, those an earlier pass had to give up on included.          *)
RetentionBound ==
    pc = "retaining" /\ todo = {} => Cardinality(Successes(owner[cur])) <= job.retain

(* With kills, stops and failed updates, but devices that work: when the    *)
(* worker is free no partial file is left, so none is ever left for good.   *)
IdleNoPartial ==
    pc = "idle" /\ ~faults.rough => \A r \in RunIds : name[r] # "partial"

(* While the panel is served, a run listed as running is the one being      *)
(* executed, or one whose failure this very process could not write: no     *)
(* crash and no interrupted recovery leaves a run that nobody will finish,  *)
(* and a restart releases those that a failed UPDATE left behind.           *)
NoAbandonedRun ==
    \A r \in RunIds : status[r] = "running" /\ Serving =>
        r = cur \/ r \in faults.unrecorded

(* Without power losses a run is listed as expired only when its file is    *)
(* gone: Remove comes before the UPDATE.                                    *)
ExpiredGone ==
    ~faults.rough => \A r \in RunIds : status[r] = "expired" => name[r] = "none"

(* While SQLite accepts writes, every queued run ends, whatever crashes,    *)
(* stops and absent destinations come between.                              *)
QueuedSettles ==
    \A r \in RunIds : (status[r] = "queued") ~>
                         (status[r] \in {"success", "failed", "interrupted"})

(* "fila persistente" (README.md:3, tested by                               *)
(* TestPersistentQueueSurvivesStoreReopen): once the process was told to    *)
(* stop, what is queued stays queued for the next start.                    *)
StopKeepsQueue ==
    [][\A r \in RunIds : stopping /\ status[r] = "queued" => status'[r] = "queued"]_vars

(* "Persist the directory entry before acknowledging the backup in SQLite"  *)
(* (backup.go:216): the newest acknowledged backup is found at its path.    *)
AcknowledgedIsThere ==
    \A r \in RunIds : status[r] = "success" => name[r] = "final" \/ Outlived(r)

(* The history the panel shows keeps the promises of Ledger: the copies are *)
(* the confirmed files that can be downloaded.                              *)
Copies == {r \in RunIds : status[r] = "success" /\ name[r] = "final" /\ data[r] = "durable"}

History == INSTANCE Ledger WITH copies <- Copies

RefinesLedger == History!Spec

=============================================================================
