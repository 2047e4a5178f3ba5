------------------------------ MODULE Startup ------------------------------
(***************************************************************************)
(* How an installation of BaseGuard comes up, and comes up again: the      *)
(* container's entrypoint (docker-entrypoint.sh), the lock and the order of *)
(* run() (main.go), loadKey (security.go), OpenStore with its migration    *)
(* (store.go), Bootstrap (server.go) and the recovery pass before anything *)
(* is served. A crash may come between any two steps; volumes may be       *)
(* changed, lost and restored while nothing runs (README.md:53-57).        *)
(*                                                                         *)
(* SQLite commits with synchronous=FULL, so its file survives a power loss; *)
(* the key and the marker are written without fsync and may not.           *)
(***************************************************************************)
EXTENDS Naturals

CONSTANTS
    Instances,  \* containers started on the same volumes
    Installed,  \* schema versions found at first: 0 stands for a new installation
    None,       \* no file, no account, no copy, no key in memory
    Empty,      \* a file that was created and not written
    Named,      \* the marker with the name of its destination
    Given,      \* the password the operator configured
    Ways,       \* how it is started, see Start
    MaxFaults,  \* bound: crashes and changes of volumes
    Faults      \* the kinds of fault a run of the model may take

ASSUME BoundAssumption == MaxFaults \in Nat
ASSUME SentinelAssumption ==
    /\ None \notin {Empty, Named, Given} /\ Empty # Named
    /\ \A s \in {None, Empty, Named, Given} : s \notin Nat
ASSUME ModeAssumption ==
    /\ Ways \subseteq {"direct", "container", "init"}
    /\ Installed \subseteq {0, 1, 2, 3}
    /\ Faults \subseteq {"kill", "power", "volumes"}

VARIABLES
    key,        \* the file master.key: None, Empty or a key
    data,       \* the folder of the SQLite file, see Data
    marker,     \* .baseguard-destination: None, Empty or Named
    dirty,      \* of key and marker, those the kernel has not written back
    copy,       \* the copy the operator made of the volumes, or None
    way,        \* how instances are started here, a member of Ways
    setting,    \* BASEGUARD_ADMIN_PASSWORD: "none", "valid" or "short"
    pc,         \* the step each instance is at
    mem,        \* Store.Key of each instance
    random,     \* random keys and passwords drawn so far
    faults      \* faults taken so far

volumes == <<key, data, marker>>
vars == <<volumes, dirty, copy, way, setting, pc, mem, random, faults>>

Keys     == Nat \ {0}
Secrets  == Keys \cup {Given}
Steps    == {"down", "checked", "marking", "writing", "main", "locked",
             "keyCreated", "keyed", "opened", "creating", "tabled", "migrated",
             "printing", "booted", "serving"}

(* file: no file, no bytes, some tables, all tables. version: user_version. *)
(* column: runs.client_info is there. creds: the keys of stored passwords.  *)
Data == [file : {"absent", "empty", "partial", "tables"}, version : 0..3,
         column : BOOLEAN, admin : Secrets \cup {None}, creds : SUBSET Keys]

NoData == [file |-> "absent", version |-> 0, column |-> FALSE,
           admin |-> None, creds |-> {}]

HasBytes == data.file \in {"partial", "tables"}
AllDown  == \A i \in Instances : pc[i] = "down"

(* Steps taken with the lock held; flock is released when a process dies.   *)
Locked(i) == pc[i] \notin {"down", "checked", "marking", "writing", "main"}

Fault(k) == k \in Faults /\ faults < MaxFaults /\ faults' = faults + 1

Goto(i, step) == pc' = [pc EXCEPT ![i] = step]

Step(i, from, to) == pc[i] = from /\ Goto(i, to)

(* A non-zero exit: the container is started again (restart: unless-stopped). *)
Exit(i) == /\ Goto(i, "down")
           /\ mem' = [mem EXCEPT ![i] = None]
           /\ UNCHANGED <<volumes, dirty, random>>

Init ==
    /\ \E v \in Installed :
         IF v = 0 THEN key = None /\ data = NoData /\ marker = None /\ random = 0
         ELSE /\ key = 1 /\ marker = Named /\ random = 1
              /\ data = [file |-> "tables", version |-> v, column |-> v >= 2,
                         admin |-> Given, creds |-> {1}]
    /\ way \in Ways
    /\ dirty = {} /\ copy = None /\ setting = "none" /\ faults = 0
    /\ pc = [i \in Instances |-> "down"]
    /\ mem = [i \in Instances |-> None]

-----------------------------------------------------------------------------
(* Defective variants of the steps below: what a plausible slip in the code *)
(* would do. No step uses them; each must make a run of its property fail.  *)

(* A missing key is replaced although a database exists.                    *)
MayCreateKeyAlways == TRUE

(* The marker is made whenever it is missing.                               *)
FreshIfUnmarked == marker = None

(* ALTER TABLE is not in the transaction that sets the version.             *)
MigratedColumnOnly == [data EXCEPT !.column = TRUE]

(* CREATE TABLE without IF NOT EXISTS fails on what a crash left.           *)
TablesCreatableOnce == data.file = "empty" \/ data.version > 0

(* A configured password is written over the account.                       *)
NeedsAccountIfConfigured == data.admin = None \/ setting = "valid"

(* The length of the key that was read is not checked.                      *)
KeyReadable == key # None

(* The migration writes a version that the next start refuses.              *)
MigratedTooFar == [data EXCEPT !.column = TRUE, !.version = 3]

(* The recovery pass logs the error of Databases and goes on.               *)
CredentialsReadableIgnored(i) == TRUE


-----------------------------------------------------------------------------
(* docker-entrypoint.sh                                                     *)

(* A direct run has no entrypoint; a container has, and with                *)
(* BASEGUARD_INIT_LOCAL_DESTINATION it looks for a new installation too.    *)
(* A database without its key makes it exit, "down" again.                  *)
Start(i) ==
    /\ pc[i] = "down"
    /\ way # "direct" => ~(HasBytes /\ key = None)
    /\ Goto(i, IF way = "init" THEN "checked" ELSE "main")
    /\ UNCHANGED <<volumes, dirty, copy, way, setting, mem, random, faults>>

Fresh == data.file = "absent" /\ key = None /\ marker = None

InitCheck(i) ==
    /\ Step(i, "checked", IF Fresh THEN "marking" ELSE "main")
    /\ UNCHANGED <<volumes, dirty, copy, way, setting, mem, random, faults>>

(* InitDestination creates with O_EXCL; its failure ends the entrypoint.    *)
CreateMarker(i) ==
    /\ pc[i] = "marking"
    /\ \/ marker # None /\ Exit(i)
       \/ /\ marker = None
          /\ marker' = Empty
          /\ dirty' = dirty \cup {"marker"}
          /\ Goto(i, "writing")
          /\ UNCHANGED <<key, data, mem, random>>
    /\ UNCHANGED <<copy, way, setting, faults>>

WriteMarker(i) ==
    /\ Step(i, "writing", "main")
    /\ marker' = Named
    /\ UNCHANGED <<key, data, dirty, copy, way, setting, mem, random, faults>>

-----------------------------------------------------------------------------
(* run() up to the store                                                    *)

TryLock(i) ==
    /\ pc[i] = "main"
    /\ \/ (\E j \in Instances : Locked(j)) /\ Exit(i)
       \/ /\ \A j \in Instances : ~Locked(j)
          /\ Goto(i, "locked")
          /\ UNCHANGED <<volumes, dirty, mem, random>>
    /\ UNCHANGED <<copy, way, setting, faults>>

(* "restaure a chave original antes de abrir o banco existente"             *)
MayCreateKey == ~HasBytes

(* Its length is checked                                                    *)
KeyUsable == key \in Keys

LoadKey(i) ==
    /\ pc[i] = "locked"
    /\ \/ /\ key = None /\ MayCreateKey
          /\ key' = Empty
          /\ dirty' = dirty \cup {"key"}
          /\ Goto(i, "keyCreated")
          /\ UNCHANGED <<data, marker, mem, random>>
       \/ /\ KeyUsable
          /\ mem' = [mem EXCEPT ![i] = key]
          /\ Goto(i, "keyed")
          /\ UNCHANGED <<volumes, dirty, random>>
       \/ ~KeyUsable /\ ~(key = None /\ MayCreateKey) /\ Exit(i)
    /\ UNCHANGED <<copy, way, setting, faults>>

WriteKey(i) ==
    /\ Step(i, "keyCreated", "keyed")
    /\ random' = random + 1
    /\ key' = random'
    /\ mem' = [mem EXCEPT ![i] = random']
    /\ UNCHANGED <<data, marker, dirty, copy, way, setting, faults>>

-----------------------------------------------------------------------------
(* OpenStore                                                                *)

(* PRAGMA user_version creates the file; a newer schema is refused.         *)
OpenFile(i) ==
    /\ pc[i] = "keyed"
    /\ \/ data.version > 2 /\ Exit(i)
       \/ /\ data.version <= 2
          /\ data' = IF data.file = "absent" THEN [data EXCEPT !.file = "empty"] ELSE data
          /\ Goto(i, "opened")
          /\ UNCHANGED <<key, marker, dirty, mem, random>>
    /\ UNCHANGED <<copy, way, setting, faults>>

(* CREATE TABLE IF NOT EXISTS: each statement commits by itself.            *)
TablesCreatable == TRUE

BeginTables(i) ==
    /\ pc[i] = "opened"
    /\ \/ ~TablesCreatable /\ Exit(i)
       \/ /\ TablesCreatable
          /\ data' = IF data.file = "empty" THEN [data EXCEPT !.file = "partial"] ELSE data
          /\ Goto(i, "creating")
          /\ UNCHANGED <<key, marker, dirty, mem, random>>
    /\ UNCHANGED <<copy, way, setting, faults>>

FinishTables(i) ==
    /\ Step(i, "creating", "tabled")
    /\ data' = [data EXCEPT !.file = "tables"]
    /\ UNCHANGED <<key, marker, dirty, copy, way, setting, mem, random, faults>>

(* One transaction: ALTER TABLE runs ADD COLUMN; PRAGMA user_version=2      *)
Migrated == [data EXCEPT !.column = TRUE, !.version = 2]

Migrate(i) ==
    /\ pc[i] = "tabled"
    /\ \/ data.version < 2 /\ data.column /\ Exit(i)        \* duplicate column
       \/ /\ data.version < 2 => ~data.column
          /\ data' = IF data.version < 2 THEN Migrated ELSE data
          /\ Goto(i, "migrated")
          /\ UNCHANGED <<key, marker, dirty, mem, random>>
    /\ UNCHANGED <<copy, way, setting, faults>>

-----------------------------------------------------------------------------
(* Bootstrap, Recover and the first pass of Schedule                        *)

NeedsAccount == data.admin = None

Bootstrap(i) ==
    /\ pc[i] = "migrated"
    /\ \/ /\ ~NeedsAccount
          /\ Goto(i, "booted")
          /\ UNCHANGED <<volumes, dirty, mem, random>>
       \/ /\ NeedsAccount /\ setting = "none"
          /\ random' = random + 1
          /\ data' = [data EXCEPT !.admin = random']
          /\ Goto(i, "printing")
          /\ UNCHANGED <<key, marker, dirty, mem>>
       \/ /\ NeedsAccount /\ setting = "valid"
          /\ data' = [data EXCEPT !.admin = Given]
          /\ Goto(i, "booted")
          /\ UNCHANGED <<key, marker, dirty, mem, random>>
       \/ NeedsAccount /\ setting = "short" /\ Exit(i)
    /\ UNCHANGED <<copy, way, setting, faults>>

PrintPassword(i) ==
    /\ Step(i, "printing", "booted")
    /\ UNCHANGED <<volumes, dirty, copy, way, setting, mem, random, faults>>

(* Databases decrypts every password; the recovery pass reads them all.     *)
CredentialsReadable(i) == data.creds \subseteq {mem[i]}

ServeOrFail(i) ==
    /\ pc[i] = "booted"
    /\ \/ ~CredentialsReadable(i) /\ Exit(i)
       \/ /\ CredentialsReadable(i)
          /\ Goto(i, "serving")
          /\ UNCHANGED <<volumes, dirty, mem, random>>
    /\ UNCHANGED <<copy, way, setting, faults>>

(* Store.Save encrypts with the key in memory.                              *)
SaveConnection(i) ==
    /\ pc[i] = "serving"
    /\ data' = [data EXCEPT !.creds = @ \cup {mem[i]}]
    /\ UNCHANGED <<key, marker, dirty, copy, way, setting, pc, mem, random, faults>>

Stop(i) ==
    /\ pc[i] = "serving"
    /\ Exit(i)
    /\ UNCHANGED <<copy, way, setting, faults>>

-----------------------------------------------------------------------------
(* Crashes, and what the operator does while nothing runs                   *)

Kill(i) ==
    /\ pc[i] # "down"
    /\ Fault("kill")
    /\ Exit(i)
    /\ UNCHANGED <<copy, way, setting>>

WriteBack ==
    /\ dirty # {}
    /\ dirty' = {}
    /\ UNCHANGED <<volumes, copy, way, setting, pc, mem, random, faults>>

(* What was not written back may be missing or without its bytes.           *)
PowerLoss ==
    /\ Fault("power")
    /\ key' \in IF "key" \in dirty THEN {key, Empty, None} ELSE {key}
    /\ marker' \in IF "marker" \in dirty THEN {marker, Empty, None} ELSE {marker}
    /\ data' \in IF data.file = "empty" THEN {data, NoData} ELSE {data}
    /\ dirty' = {}
    /\ pc' = [i \in Instances |-> "down"]
    /\ mem' = [i \in Instances |-> None]
    /\ UNCHANGED <<copy, way, setting, random>>

Configure(s) ==
    /\ AllDown
    /\ setting # s
    /\ setting' = s
    /\ UNCHANGED <<volumes, dirty, copy, way, pc, mem, random, faults>>

(* "pare o servico e copie todo o diretorio /data e a chave de /secrets"    *)
(* (README.md:165)                                                          *)
TakeCopy ==
    /\ AllDown
    /\ copy = None /\ HasBytes
    /\ copy' = [key |-> key, data |-> data, marker |-> marker]
    /\ UNCHANGED <<volumes, dirty, way, setting, pc, mem, random, faults>>

(* Another folder is mounted: an empty one, or the one with the copy. The   *)
(* operator may forget any of the three.                                    *)
ChangeVolumes(S) ==
    /\ AllDown
    /\ Fault("volumes")
    /\ \E new \in {[key |-> None, data |-> NoData, marker |-> None]}
                    \cup (IF copy = None THEN {} ELSE {copy}) :
         /\ key'    = IF "key" \in S THEN new.key ELSE key
         /\ data'   = IF "data" \in S THEN new.data ELSE data
         /\ marker' = IF "marker" \in S THEN new.marker ELSE marker
    /\ dirty' = {}
    /\ UNCHANGED <<copy, way, setting, pc, mem, random>>

-----------------------------------------------------------------------------
Boot(i) ==
    \/ Start(i) \/ InitCheck(i) \/ CreateMarker(i) \/ WriteMarker(i)
    \/ TryLock(i) \/ LoadKey(i) \/ WriteKey(i)
    \/ OpenFile(i) \/ BeginTables(i) \/ FinishTables(i) \/ Migrate(i)
    \/ Bootstrap(i) \/ PrintPassword(i) \/ ServeOrFail(i)

Operator ==
    \/ TakeCopy
    \/ \E s \in {"none", "valid", "short"} : Configure(s)
    \/ \E S \in SUBSET {"key", "data", "marker"} : ChangeVolumes(S)

Next == \/ \E i \in Instances : Boot(i) \/ SaveConnection(i) \/ Stop(i) \/ Kill(i)
        \/ WriteBack \/ PowerLoss \/ Operator

Spec == Init /\ [][Next]_vars

(* A started process goes on and a container that ended is started again;   *)
(* the operator, the users and the faults are under no obligation.          *)
FairSpec == Spec /\ \A i \in Instances : WF_vars(Boot(i))

-----------------------------------------------------------------------------
(* Properties                                                               *)

(* Every variable has the shape the code gives it.                          *)
TypeOK ==
    /\ key \in Keys \cup {None, Empty}
    /\ data \in Data
    /\ marker \in {None, Empty, Named}
    /\ dirty \subseteq {"key", "marker"}
    /\ copy \in {None} \cup [key : Keys \cup {None, Empty}, data : Data,
                             marker : {None, Empty, Named}]
    /\ way \in Ways
    /\ setting \in {"none", "valid", "short"}
    /\ pc \in [Instances -> Steps]
    /\ mem \in [Instances -> Keys \cup {None}]
    /\ random \in Nat
    /\ faults \in 0..MaxFaults

(* Whatever volumes were lost, mixed up or restored: an instance that       *)
(* serves can decrypt every stored password. The key check alone does not   *)
(* give it (a foreign key passes); the recovery pass before Start does.     *)
KeyOpensCredentials ==
    \A i \in Instances : pc[i] = "serving" => data.creds \subseteq {mem[i]}

(* "An existing database must never silently get a replacement encryption   *)
(* key" (scripts/test-container.sh:44): a key file is created only when no  *)
(* credential is stored, also after crashes and with a second instance.     *)
NoReplacementKey ==
    [][~AllDown /\ key = None /\ key' # None => data.creds = {}]_vars

(* "nunca recria marcador de uma instancia existente" (README.md:210): the  *)
(* entrypoint checks first and creates later, yet what it marks is a new    *)
(* installation, also when two containers start at once.                    *)
MarksOnlyFresh ==
    [][~AllDown /\ marker = None /\ marker' # None =>
         data.file = "absent" /\ key = None]_vars

(* The migration is done once: at no point of it does a crash leave a       *)
(* database on which the next start would add the column again.             *)
MigrationRepeatable == data.version < 2 => ~data.column

(* A configured password does not redefine an existing account              *)
(* (README.md:129): no start, repeated or concurrent, replaces its hash.    *)
AccountKept == [][data.admin # None /\ data'.admin # data.admin => AllDown]_vars

(* What a start needs and cannot repair itself                              *)
Startable ==
    /\ \/ key \in Keys
       \/ key = None /\ ~HasBytes
       \/ \E i \in Instances : pc[i] = "keyCreated"
    /\ data.version <= 2
    /\ data.creds \subseteq {key}
    /\ data.admin = None => setting # "short"

(* An installation comes up after any crash of a start, unless what it      *)
(* needs is lost; what can lose it is said by SpoiltOnlyBy.                 *)
StartsAgain == Startable ~> (~Startable \/ \E i \in Instances : pc[i] = "serving")

(* Only three things make an installation need its operator: a crash while  *)
(* the key file has no bytes, a power loss before the kernel has written    *)
(* the key back, and a change of volumes or settings.                       *)
SpoiltOnlyBy ==
    [][Startable /\ ~Startable' =>
         \/ AllDown
         \/ "key" \in dirty /\ dirty' = {}
         \/ \E i \in Instances : pc[i] = "keyCreated" /\ pc'[i] = "down"]_vars

=============================================================================
