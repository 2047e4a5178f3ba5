# Verification of BaseGuard

TLA+ modules for the parts of BaseGuard that carry its promises: a queue of
backup runs in SQLite, one worker that executes them, files that must survive a
crash, a scheduler and a panel that both decide when a database is backed up, a
start that must not lose keys or accounts, logins that race with a change of the
password, and clients that must fit the server. TLC checks the modules on small
instances; TLAPS proves the main results for every value of the constants. Paths
below are relative to `src/`.

Run a model with `tlc -config MCWorkerSafety.cfg MCWorker`, check the proofs
with `tlapm WorkerProofs.tla` (and the other `*Proofs` modules). `PROJECT.json`
lists runs, properties, the lines each definition models, findings, hazards and
theorems.

## Inventory

| Component | State | Operations | Talks to |
|---|---|---|---|
| Store (`internal/app/store.go`) | tables `databases`, `runs`, `settings`, `sessions`; one connection, WAL, `synchronous=FULL` | `Save`, `Databases`, `Enqueue`, `Claim`, `Runs`, `Setting` | everything below |
| Worker (`worker.go`) | one goroutine; the claimed run, the `Database` it read, the rows a loop still has to visit | `Start`, `execute`, `Retain`, `Recover` | store, backup files, client commands |
| Backup files (`backup.go`) | `<sub>/db-<id>/<time>-<id>` and `.partial`, the marker of a destination | `openDestination`, `writeBackup`, `InitDestination` | operating system |
| Scheduler (`worker.go: Schedule`, cron) | the rows a tick has read | one tick a minute, one recovery pass at the start | store |
| Panel (`server.go`) | requests in progress | `save`, `toggle`, `delete`, `enqueue`, `download`, `test` | store |
| Authentication (`server.go`) | sessions, attempts per address, the password hash | `login`, `logout`, `password`, `auth` | store |
| Clients (`clients.go`) | none | `Prepare`, `profileFor`, version parsing | external dump clients |
| Startup (`main.go`, `security.go`, `docker-entrypoint.sh`) | lock, master key, schema version, first password, marker | `run`, `loadKey`, `OpenStore`, `Bootstrap` | all |

How they interact: the scheduler and the panel insert rows into `runs`; the
worker polls that table every second, claims the oldest queued run and works on
it alone; every hand-over is a row in SQLite. There is one process
(`baseguard.lock`), but ticks, requests and the worker run concurrently in it
and share one connection, so a statement or transaction is atomic and nothing
larger is.

What is hard: values read before a transaction and used in it (ticks, `save`,
`toggle`, `execute`); a crash between a file operation and the row that records
it; folder entries that a power loss takes back; errors that are ignored on
purpose during cleanup; the stop signal racing with the poll; destinations that
come and go; a container that is started twice, or after a crash in the middle
of its first start; two handlers of which one ends what the other is about to
create; output of other programs that has to be read right. What makes each part
correct is stated by the properties below; the hazards in `PROJECT.json` say at
which line each can go wrong.

## Modules

| Module | What it is |
|---|---|
| `Worker` | queue, worker, backup files, destinations, faults and restarts |
| `Ledger` | the abstract history of runs that `Worker` implements |
| `WorkerProofs` | theorems about `Worker`: types, queue, files of backups |
| `RetentionProofs` | theorems about `Worker`: retention and recovery |
| `LedgerProofs` | what every history that behaves as `Ledger` is worth |
| `RefinementProofs` | `Worker` implements `Ledger`, step by step |
| `Panel` | scheduler ticks and the handlers that save, pause, delete and enqueue |
| `PanelProofs` | theorems about `Panel` |
| `Startup` | entrypoint, lock, master key, schema and migration, marker, first account, the first pass of recovery |
| `StartupProofs` | theorems about `Startup` |
| `Sessions` | login with its limiter, sessions, logout, change of the password |
| `SessionsProofs` | theorems about `Sessions` |
| `Clients` | selection and check of the client tools, and the credentials file of a call |
| `ClientsProofs` | theorems about `Clients` |
| `MCWorker`, `MCPanel`, `MCStartup`, `MCSessions`, `MCClients` | symmetry and constant values for TLC |

### Worker

`status`, `owner` and `dest` are the columns of `runs`; `dest` stands for the
columns `destination` and `path` together, and a member of `Destinations` for a
destination with a subfolder of it. `config` is the row of `databases` (its
destination and `retain`). `pc` is the line the one goroutine is at, `cur`,
`job` and `todo` its local variables: the claimed run, the `Database` that
`execute` read and the rows that the loops of `Recover` and `Retain` still have
to visit.

A file has the name it has now (`name`), the names a power loss may leave it
with (`kept`) and contents (`data`). Creating, renaming or removing adds the new
name to `kept`; `dir.Sync` reduces `kept` to the present name for all files of
the folder; `f.Sync` makes the contents durable. A rename is atomic, as on the
journaling file systems and exFAT. SQLite commits are durable at once because of
`synchronous=FULL` on a local disk, which the README of BaseGuard asks for.

One action is one step of the code between two points where a crash or another
goroutine can be seen: `Claim`, `Prepare` (read the row, probe the server,
record the client), `Record` (open the destination, make the folder, record the
path), `Create`, `Dump`, `SyncFile`, `Rename`, `SyncDir`, `Commit`, then
`Select` and the loop `RemoveNext`/`ExpireNext` of the retention. The error
returns are `CheckFails`, `RecordFails`, `WriteFails` with the deferred cleanup,
`CommitFails`, `RecordFailure` and `RetainFails`. The rest is `Stop`, `Exit`,
`Kill`, `PowerLoss`, `Start`, the loop of `Recover`, and destinations that are
unmounted and mounted. `Save`, `Delete` and `Enqueue` are the panel and the
scheduler as seen from here.

The stop signal cancels the context of the commands. A command that was started
before may still finish; one started later fails. For `Dump` the model does not
distinguish the two: the state reached by a stop just before the dump starts is
reached as well by one just after.

`Faults` says which kinds of fault a run takes and `MaxFaults` how many, stops
and crashes included. A destination that is found absent and a client that fails
cost no fault: they are ordinary outcomes. `faults.rough` remembers whether one
of the faults was rough: a power loss, an I/O error or a destination that went
away. What recovery promises about files (`IdleNoPartial`, `ExpiredGone`) it
promises for runs of the system without those, since a device that fails can
fail the cleanup too. `faults.unrecorded` holds the runs whose UPDATE to failed
failed itself since the process started: those stay listed as running until the
next restart, and `NoAbandonedRun` says that no others do.

A download is not an action of its own, as it changes nothing: the handler reads
the row, which has to say success, and opens the file later. `DownloadsComplete`
therefore speaks of every run that is or was a success: whatever came between,
the file that is opened is whole or is not there.

### Ledger

The history as the user sees it: queue, begin in order, confirm together with a
copy, fail, interrupt, drop a copy only while a newer confirmed run has one,
list a run as expired only after that. A power loss may bring copies back, never
take one away. `Worker` implements it with `copies` mapped to the runs that are
listed as success and have a complete file at their path (`RefinesLedger`).

### Panel

`row` is the `databases` table with what scheduling depends on, `active` the
databases with a queued or running run, `tick` and `req` what each tick and each
request has read and not written yet. `Fire` is the transaction of `Schedule`:
the slot moves on only if the row is still enabled with the slot that was read,
and then a run is inserted. `ReadSave` is `submitted`, `WriteSave` the
transaction of `Store.Save` with its comparison against the present row;
`ReadToggle` and `WriteToggle` are the two halves of `toggle`. `Restart` is the
part of `main` before `Start`: recovery, then the pass with trigger `recovery`.
`fired` is a history variable: the slot a tick served last.

`NextSlot` stands for the cron library: a wall-clock time recurs at the
multiples of a period, an interval counts from the moment it is asked. Time
zones and daylight saving are left out. `Edits` restricts what the users of a
run do, because some promises hold for edits of the connection only.

### Startup

`key`, `data` and `marker` are the three things on the volumes: the file
`master.key`, the folder of SQLite and `.baseguard-destination`. A file is
missing, empty (created, not yet written) or written. Of the database the model
keeps what a start depends on: whether there is a file, whether all tables are
there, the `user_version`, the column of the migration, the account, and the
keys stored passwords were encrypted with; `decrypt` succeeds with the same key
only. Keys and generated passwords are numbers that were never drawn before.

`pc` says for each container which statement it has reached: `Start` and
`InitCheck` are the entrypoint, `CreateMarker` and `WriteMarker` are
`InitDestination`, `TryLock` the flock, `LoadKey` and `WriteKey` `loadKey`,
`OpenFile` to `Migrate` `OpenStore`, `Bootstrap` and `PrintPassword` the first
account, `ServeOrFail` the recovery pass, which reads every row before anything
is served. An error anywhere is `Exit`, after which the container starts again.
`Kill` may come between any two; `PowerLoss` takes what the kernel has not
written back of key and marker, which are written without `fsync`, and nothing
SQLite has committed. While nothing runs the operator may configure a password,
copy the volumes, or mount others: empty ones or the copy, and any part of them.

`way` is how an installation is started: the program itself, a container, or a
container that may initialise its local destination. Two instances may be
started at once; only from `TryLock` on does the lock keep one of them out.

### Sessions

`hash` is the version of the stored password, `sessions` the table, `attempts`
the map of the limiter, which is lost on a restart, and `req` what each handler
has read and not used yet. `Login` is the critical section of `login` under the
mutex; `Compare`, `Clean`, `Open` and `Forget` are the comparison, the two
statements and the second critical section that follow, and other handlers run
between them. `Change` is the transaction of `password`. A session remembers the
version its login compared with (`by`) and whether the password changed between
the comparison and the insert (`late`); `recent` keeps, for each address, how
long ago the latest `2 * MaxAttempts` logins were let through, the latest first.
All three are history. Ages count in ticks, and what is older than the window is
alike.

### Clients

A call is a connection test or a backup: `Begin` and `WriteCredentials` are
`credentials`, `Probe` the question to the server and what is read from the
answer, `CheckTool` one turn of the loop over the tools, `Prepared` the return
of `Prepare`; `Record`, `BeginDump` and `EndDump` follow in a backup, `Answer`
ends a test. `Fail` is any error return after the file was created. Versions are
tuples of numbers. What a program prints is a sequence of numbers with the word
before each, because which number is taken is what can go wrong: MariaDB servers
put `5.5.5-` first, old MariaDB clients the version of the tool, and a number
counts only after one of four words (`Words`). `Raw` is what a server prints,
and what is recorded; `Reported` is the copy from which `serverSeries` cuts the
prefix, and what the profile is selected by. `server` may change at any time,
`files` and `orphans` are the credentials files in `/tmp`, those of a killed
process among the latter.

`Worker` and `Panel` meet in three operations. `Panel!Enqueue` and `Panel!Fire`
are `Worker!Enqueue`; `Panel!Delete` is `Worker!Delete`; `Panel!Finish` is any
step of `Worker` after which the run is not active any more.
`Startup!ServeOrFail` stands for `Worker!Start` up to the end of its recovery
and for `Panel!Restart`; `Clients` up to `Record` is the inside of
`Worker!Prepare`, and its dump the inside of `Worker!Dump`. No other state is
shared, so the modules are checked apart.

## Runs

| Run | Bounds | Shows |
|---|---|---|
| `worker_safety` | 2 databases, 2 destinations, 3 runs, 2 faults of any kind | one active run per database, the newest backup survives, downloads are whole, no abandoned run, the invariant of the proofs |
| `worker_retention` | 1 database, 2 destinations, 4 runs, retain 1 or 2, 1 fault | retention removes enough and only what is replaced; `Worker` implements `Ledger` |
| `worker_crash` | 2 databases, 3 runs, 2 faults of any kind but failing SQLite | no partial file and no expired run with a file is left; every queued run ends |
| `panel_ticks` | 2 databases, 2 ticks, 1 request, connection edits | no run without a row, a served slot does not come back, one recovery run, a due slot is served or moved |
| `panel_edits` | 1 database, 2 ticks, 2 requests, all edits | slot and enabled flag agree, a tick fires only what is due and moves its slot forward |
| `startup` | 2 instances, new, old and too new installations, 2 crashes, power losses or changes of volumes | keys fit credentials, no replacement key, marker for new installations only, the account is kept, the migration is done once, starts can be repeated |
| `sessions` | 2 handlers, 2 addresses, 2 attempts per window of 1 tick, room for 1 address, 2 sessions, 2 changes | which sessions survive a change of the password, how many attempts get through, lockouts end |
| `clients` | 2 calls, 11 servers, 4 forms, several images, 1 change of the server | refused is exactly what the documented table excludes, what is recorded is what was printed and is used, no credentials file is left |

Why these bounds suffice for the cases of interest: two databases are the least
with which one can overtake, outlive or block another. Three runs give a
retention pass with a surplus and a run after a failed pass, four give a pass
with two victims after `retain` was lowered. Two faults give a crash and a
second fault during recovery from it. Two ticks and two requests give every pair
of overlapping readers and writers. Time runs to 3 with periods 1 and 2, so
slots are served, missed and served again. Databases and destinations are only
compared for equality and may be permuted, as may ticks and requests; the runs
with a liveness property use no symmetry.

Two instances are enough to take the lock from one another, and two faults to
crash a start and the start that follows it. Schema versions 1, 2 and 3 are
older, present and newer; 3 is reached by a volume of a newer program. In
`sessions` two logins overlap a change, two changes overlap each other, a table
for one address is full with the second, and a window of one tick has an edge.
The limiter's 10, 1000 and 15 minutes only enter as comparisons. The servers of
`clients` are one for each case the code distinguishes: a series in and out of
the matrix, a missing TLS, tables out of InnoDB, the prefix of MariaDB; the
images have missing tools, tools of another series, one that prints a number no
known word stands before, and tools of one directory that differ in the patch
version.

`DueIsServed` is checked with one request and edits of the connection: users who
change the schedule without end, two at a time and within one unit of time, can
move a slot every time before the tick's transaction, and the property is false.

Every property of these runs is refuted by a variant of a step that the modules
define for this purpose (`SyncDirSkipped`, `SurplusLowOffset`, `FireAnySlot`,
...).

### Disagreements between code and documents

| Run | What it shows |
|---|---|
| `worker_stop` | After a long backup both cases of the `select` in `Start` are ready, and after the stop signal the loop may claim a queued run, which then fails because its context is cancelled. The queue is described as persistent. |
| `worker_folder` | `writeBackup` synchronises the folder of the file but nobody synchronises the parent in which `MkdirAll` made that folder. With `FolderDurable = FALSE`, which is all POSIX promises, the first acknowledged backup of a database can vanish. On ext4, XFS and Btrfs the folder's own entry is kept as well. |
| `panel_undone` | A connection edit is read, a tick serves the slot, the schedule is paused, the edit is written: `Save` sees another enabled flag, trusts the slot of the form and stores the served slot in an enabled row. It fires again. |
| `sessions_ended` | A login compares with the old password, the password is changed and all sessions are deleted, then the login stores its session, which is valid for 12 hours. The page promises that all sessions end. `StaleOnlyFromOverlap` says what does hold. |

## Fairness

`Worker!FairSpec` assumes weak fairness of the steps the process takes by
itself: the loop polls every second, a command ends by itself or by the timeout
of its database, file and database calls return, and the container is started
again (`compose.yaml`: `restart: unless-stopped`). Users, faults and
destinations are under no obligation; a destination may stay away for ever.
`Panel!FairSpec` assumes that cron starts ticks, that a started tick goes on,
and that the process is started again. `Startup!FairSpec` assumes of each
instance that it goes on and is started again after it ended; the operator,
users and faults are free. `Sessions!FairSpec` assumes only that time passes.
Faults are bounded by `MaxFaults`, as a service that crashes for ever promises
nothing; only the restarts of `Sessions` are not, since they end a lockout too.

Deadlock is checked in every run. In `Worker` an empty queue is a poll that
changes nothing (`Poll`), and any other state without a step would be a worker
that is stuck.

## Proofs

Every safety property that a passing run checks is also a theorem, for all
constants that satisfy the assumptions of its module: any number of databases,
destinations, runs, ticks, requests, instances, calls and faults.

### Worker

`WorkerProofs` proves `TypeOK` (`TypeCorrect`) and `OneActivePerDatabase`
(`OneActive`), and under the assumption `FolderDurable = TRUE` the properties
`BackupInv`, `NewestBackupSafe`, `DownloadsComplete`, `RemovalJustified` and
`AcknowledgedIsThere`. `worker_folder` shows that the last one needs the
assumption.

`TypeOK` is not inductive alone: that `Prepare` reads a row of the right type
needs that a claimed run has an owner, hence `OwnedRuns` and `CurRuns`.
`OneActivePerDatabase` is inductive given those: only `Enqueue` adds an active
run and only `Save` and `Delete` change rows; every other step is covered by the
lemma `FewerActive`.

`NewestBackupSafe` is strengthened to `BackupInv`: `FileStage` says what the
file of the run in progress has reached at each step (so that `Commit` adds a
safe file), `VictimsOutlived` that whatever retention is about to remove or
expire has a newer success of its database (from `SurplusOutlived`: the OFFSET
is at least one), and `ConfirmedFiles` what the file of a run that is or was
confirmed may look like, also after a power loss has undone a removal. The step
that removes or expires a victim uses `OutlivedBacked`: the newer success has,
by the invariant, a safe backup at least as new as itself, and that one is newer
than the victim. `worker_safety` checks `BackupInv` with TLC.

`RetentionProofs` proves `RetentionBound` (`RetentionBounded`), `IdleNoPartial`
(`NoPartialLeft`), `ExpiredGone` (`ExpiredFilesGone`) and `NoAbandonedRun`
(`NoneAbandoned`). The bound needs that at every turn of the loop the confirmed
runs that are not among those still to visit are no more than `retain`
(`PassInv`). When the pass begins they are the newest ones, whose number of
newer ones maps them one to one into the numbers below `retain` (`SparedBound`);
that replaces an induction over the list. For an abandoned run the invariant is
that the only run listed as running is the one in hand, or one this process
could not record (`OneRunning`), and for files that only the run in hand and
those recovery will visit may have a partial file (`CrashInv`).

### Ledger

`RefinementProofs` proves that `Worker` implements `Ledger`
(`WorkerRefinesLedger`, `FolderDurable = TRUE`): the initial states correspond,
and each action of `Worker` is mapped to the action of `Ledger` it takes or to a
stutter, one lemma per group of actions. It rests on `BackupInv` and on
`RemovedGone`: at `removed` the victim's file is no copy any more, so that
`ExpireNext` is `Expire`.

`LedgerProofs` proves of `Ledger` alone that the newest confirmed run of a
database always has its copy (`AlwaysCovered`). `WorkerHistoryCovered` puts the
two together: by the refinement it holds of the history that `Worker` keeps.

### Startup

`StartupProofs` proves for every set of instances and any number of faults
`TypeOK`, `KeyOpensCredentials`, `MigrationRepeatable`, `NoReplacementKey`,
`MarksOnlyFresh`, `AccountKept` and `SpoiltOnlyBy`. The inductive invariant adds
that the lock has one holder (`OneLocked`), that no folder, mounted or copied,
has the column with an old version or an account or credentials without tables
(`StoredSound`), how far each instance has come in terms of what is on the
volumes (`Progress`), that only what exists is unwritten (`DirtyExists`), and,
for the marker, that whoever has passed the check of the entrypoint has left a
trace that the next check sees, so that nobody has got that far while another
instance is still about to create the marker (`Marking`). The action properties
each follow from it by looking at the steps that can change the file or the
account. For `SpoiltOnlyBy` the invariant also says that whoever runs past the
lock has the mounted key in memory, and that whoever creates a key has found no
database (`SameKey`): so no step of a start gives the volumes what the next
start cannot use.

### Panel

`PanelProofs` proves `TypeOK`, `EnabledHasSlot`, `ActiveHasRow` and
`TickFiresDueRow` for any number of overlapping ticks and requests and all
schedules. The slot and the flag agree in the table because they agree in
whatever a handler is about to write (`ReqPaired`), for which a slot must never
be 0 (`SlotPositive`). `TickFiresDueRow` is about every step of a tick that
changes a row or queues a run, also the second of two ticks that read the same
slot: it needs that what a tick read was due then and time does not go back
(`TickRead`), and that the new slot lies after the time of the tick
(`FiredSlot`).

`SlotMovesOn` (`ServedSlotPassed`) and `TickNotUndone`
(`ConnectionEditsUndoNothing`) are proved under the assumption `Edits \subseteq
{"connection"}`, with which `panel_ticks` checks the first: `panel_undone` is
the counterexample once pauses are added. The invariant is that what a save is
about to write has the flag and the schedule of the row as it is now
(`FormFits`), so that the comparison in `Store.Save` keeps the row's slot,
whatever ticks have done to it meanwhile. `RecoveryCatchesUp` (`RecoveredAhead`)
holds for all edits: during recovery each enabled row is still to be visited or
has a slot after the time the pass began (`RecoverInv`).

### Sessions

`SessionsProofs` proves `TypeOK`, `StaleOnlyFromOverlap` and `AttemptsBound`. A
handler between comparison and insert either compared with the present hash or
is marked late (`LateLogins`). For the limiter the invariant `Spaced` relates an
address's entry to its latest logins: an entry that has let `p` logins through
is no older than the `p`-th latest of them, and the login `MaxAttempts` before
that lies more than a window back; without an entry the `MaxAttempts`-th latest
does. An entry is dropped only when it is itself older than a window, and that
is why two full windows may be adjacent but never overlap. With `<` for `<=` at
that place the proof fails, as does the run.

### Clients

`ClientsProofs` proves `TypeOK`, `FilesOfRunning`, `RefusesExactly` and
`RecordedIsUsed`. `FilesOfRunning` is proved file by file (`FilesMatch`), from a
lemma about one step of one call. The other two rest on `KnownInv`: what each
call has in hand is what the probe answered, the profile that belongs to it, and
tools whose version was found to be that of the profile. That the profiles are
the rows of the documented table is the lemma `Matrix`; that the number the code
takes from a version line is the tool's own, `StatedVersion`. The server's
version is recorded as printed, its prefix included; that the profile beside it
names the real series and not 5.5 is `RecordedTrue`.

The three assumptions of `Clients` about its surroundings are what that lemma
needs, and TLC evaluates them: a server names itself MariaDB if it is one, and
MariaDB alone prefixes its version (`ServerAssumption`); of the numbers that
stand after one of `Words` a tool prints its version after `Distrib` if the line
has it and first otherwise, and one that prints no such number is of no
supported series (`ImageAssumption`); `None` is no version and no profile
(`NoneAssumption`). They describe programs that are not
in this repository, as the parsing in `clients.go` takes them to be.

In all modules the sentinels are assumed to differ from the values they stand
beside (`SentinelAssumption`, `RowAssumption`), which model values do.

Only model-checked: the liveness properties `QueuedSettles`, `DueIsServed`,
`StartsAgain` and `LockoutEnds`, since fairness is out of the prover's reach;
and the four disagreements, which are counterexamples.

## Not modelled

The syntax of the form's text fields, cookies and the comparison of CSRF tokens,
the cipher itself, pages and assets, the container image and scripts (no state
or concurrency of their own); the preparation of folders and their permissions
in the entrypoint, and settings that do not parse, which only make a start fail;
the bytes of a dump and checksums; time zones and daylight saving, which are the
cron library's; the list of 200 runs on the dashboard; errors that only change a
message. Files placed in a folder by hand are left out, so `Create` always finds
its names free. In `Worker` a restored copy of the data directory is a different
history; in `Startup` it is modelled.

## Plan

1. Done: `Worker`, `Ledger`, `Panel`, `Startup`, `Sessions`, `Clients`, with a
   theorem for every safety property that a passing run checks and for the
   refinement of `Ledger`.
2. An abstract specification of `Panel` (a slot is served once and moves on)
   and of `Sessions`, with their refinements.
3. The safety half of the liveness properties: what a fair step of `Worker` and
   of `Startup` brings closer, as a measure that no other step increases.
