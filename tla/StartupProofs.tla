--------------------------- MODULE StartupProofs ---------------------------
(***************************************************************************)
(* Theorems about Startup, for every set of instances, every way to start  *)
(* and every kind and number of faults.                                    *)
(***************************************************************************)
EXTENDS Startup, TLAPS

(* The lock is held by one instance at most.                                *)
OneLocked == \A i, j \in Instances : Locked(i) /\ Locked(j) => i = j

(* No folder, mounted or copied, is half migrated, and one without tables   *)
(* has no credentials.                                                      *)
Sound(d) == /\ d.version < 2 => ~d.column
            /\ d.file \notin {"partial", "tables"} => d.creds = {} /\ d.admin = None

StoredSound == Sound(data) /\ (copy # None => Sound(copy.data))

(* How far an instance has got, in terms of what is on the volumes          *)
AfterTables == {"creating", "tabled", "migrated", "printing", "booted", "serving"}
WithKey     == AfterTables \cup {"keyed", "opened"}

Progress == \A i \in Instances :
    /\ pc[i] = "writing" => marker # None
    /\ pc[i] = "keyCreated" => key # None
    /\ pc[i] \in WithKey => mem[i] \in Keys
    /\ pc[i] = "opened" => data.file # "absent"
    /\ pc[i] \in AfterTables => HasBytes
    /\ pc[i] = "serving" => data.creds \subseteq {mem[i]}

(* What does not exist has not to be written back.                          *)
DirtyExists == /\ key = None => "key" \notin dirty
               /\ marker = None => "marker" \notin dirty

(* Who is past the check of the entrypoint has left traces, so who is about *)
(* to create the marker of a new installation is right to do it.            *)
Marking == \A i \in Instances :
    /\ pc[i] \in {"checked", "marking", "writing"} => way = "init"
    /\ pc[i] = "marking" /\ marker = None => Fresh
    /\ way = "init" /\ pc[i] \notin {"down", "checked", "marking"} => ~Fresh

Inv == TypeOK /\ OneLocked /\ StoredSound /\ Progress /\ DirtyExists /\ Marking

USE BoundAssumption, SentinelAssumption, ModeAssumption
    DEF Keys, Secrets, Steps, Data, Locked, HasBytes, AllDown, volumes, Step,
        Goto, AfterTables, WithKey

LEMMA InvInit == Init => Inv
<1> SUFFICES ASSUME Init PROVE Inv
  OBVIOUS
<1>1. /\ key \in Keys \cup {None} /\ marker \in {None, Named} /\ random \in Nat
      /\ data \in Data /\ Sound(data)
  <2>1. PICK v \in Installed :
          IF v = 0 THEN key = None /\ data = NoData /\ marker = None /\ random = 0
          ELSE /\ key = 1 /\ marker = Named /\ random = 1
               /\ data = [file |-> "tables", version |-> v, column |-> v >= 2,
                          admin |-> Given, creds |-> {1}]
    BY DEF Init
  <2>2. CASE v = 0
    <3>1. key = None /\ data = NoData /\ marker = None /\ random = 0
      BY <2>1, <2>2
    <3> QED
      BY <3>1 DEF NoData, Sound
  <2>3. CASE v # 0
    <3>1. key = 1 /\ marker = Named /\ random = 1
      BY <2>1, <2>3
    <3>2. data = [file |-> "tables", version |-> v, column |-> v >= 2,
                  admin |-> Given, creds |-> {1}]
      BY <2>1, <2>3
    <3>3. v \in 1..3 /\ (v >= 2) \in BOOLEAN /\ {1} \in SUBSET Keys
      BY <2>3
    <3>4. data \in Data
      <4> DEFINE c == v >= 2
      <4>1. c \in BOOLEAN /\ v \in 0..3
        BY <3>3
      <4>2. data = [file |-> "tables", version |-> v, column |-> c,
                    admin |-> Given, creds |-> {1}]
        BY <3>2
      <4> HIDE DEF c
      <4> QED
        BY <3>3, <4>1, <4>2
    <3>5. Sound(data)
      <4> DEFINE c == v >= 2
      <4>1. v < 2 => ~c
        BY <3>3
      <4>2. data = [file |-> "tables", version |-> v, column |-> c,
                    admin |-> Given, creds |-> {1}]
        BY <3>2
      <4> HIDE DEF c
      <4>3. data.version = v /\ data.column = c /\ data.file = "tables"
        BY <4>2
      <4> QED
        BY <4>1, <4>3 DEF Sound
    <3> QED
      BY <3>1, <3>4, <3>5
  <2> QED
    BY <2>2, <2>3
<1>2. TypeOK
  BY <1>1 DEF TypeOK, Init
<1>3. OneLocked /\ Progress /\ DirtyExists /\ Marking
  BY <1>1 DEF OneLocked, Progress, DirtyExists, Marking, Init
<1>4. StoredSound
  BY <1>1 DEF StoredSound, Init
<1> QED
  BY <1>2, <1>3, <1>4 DEF Inv

LEMMA InvStep == Inv /\ [Next]_vars => Inv'
<1> SUFFICES ASSUME Inv, [Next]_vars PROVE Inv'
  OBVIOUS
<1> USE DEF Inv
<1>1. ASSUME NEW i \in Instances, Start(i) PROVE Inv'
  <2>1. TypeOK'
    BY <1>1 DEF Start, TypeOK
  <2>2. OneLocked'
    BY <1>1 DEF Start, OneLocked, TypeOK
  <2>3. StoredSound'
    BY <1>1 DEF Start, StoredSound, Sound, TypeOK
  <2>4. Progress'
    BY <1>1 DEF Start, Progress, TypeOK, OneLocked
  <2>5. DirtyExists'
    BY <1>1 DEF Start, DirtyExists
  <2>6. Marking'
    BY <1>1 DEF Start, Marking, TypeOK, Fresh
  <2> QED
    BY <2>1, <2>2, <2>3, <2>4, <2>5, <2>6
<1>2. ASSUME NEW i \in Instances, InitCheck(i) PROVE Inv'
  <2>1. TypeOK'
    BY <1>2 DEF InitCheck, TypeOK
  <2>2. OneLocked'
    BY <1>2 DEF InitCheck, OneLocked, TypeOK
  <2>3. StoredSound'
    BY <1>2 DEF InitCheck, StoredSound, Sound, TypeOK
  <2>4. Progress'
    BY <1>2 DEF InitCheck, Progress, TypeOK, OneLocked
  <2>5. DirtyExists'
    BY <1>2 DEF InitCheck, DirtyExists
  <2>6. Marking'
    BY <1>2 DEF InitCheck, Marking, TypeOK, Fresh
  <2> QED
    BY <2>1, <2>2, <2>3, <2>4, <2>5, <2>6
<1>3. ASSUME NEW i \in Instances, CreateMarker(i) PROVE Inv'
  <2>1. TypeOK'
    BY <1>3 DEF CreateMarker, TypeOK, Exit
  <2>2. OneLocked'
    BY <1>3 DEF CreateMarker, OneLocked, TypeOK, Exit
  <2>3. StoredSound'
    BY <1>3 DEF CreateMarker, StoredSound, Sound, TypeOK, Exit
  <2>4. Progress'
    BY <1>3 DEF CreateMarker, Progress, TypeOK, OneLocked, Exit
  <2>5. DirtyExists'
    BY <1>3 DEF CreateMarker, DirtyExists, Exit
  <2>6. Marking'
    BY <1>3 DEF CreateMarker, Marking, TypeOK, Exit, Fresh
  <2> QED
    BY <2>1, <2>2, <2>3, <2>4, <2>5, <2>6
<1>4. ASSUME NEW i \in Instances, WriteMarker(i) PROVE Inv'
  <2>1. TypeOK'
    BY <1>4 DEF WriteMarker, TypeOK
  <2>2. OneLocked'
    BY <1>4 DEF WriteMarker, OneLocked, TypeOK
  <2>3. StoredSound'
    BY <1>4 DEF WriteMarker, StoredSound, Sound, TypeOK
  <2>4. Progress'
    BY <1>4 DEF WriteMarker, Progress, TypeOK, OneLocked
  <2>5. DirtyExists'
    BY <1>4 DEF WriteMarker, DirtyExists
  <2>6. Marking'
    BY <1>4 DEF WriteMarker, Marking, TypeOK, Fresh
  <2> QED
    BY <2>1, <2>2, <2>3, <2>4, <2>5, <2>6
<1>5. ASSUME NEW i \in Instances, TryLock(i) PROVE Inv'
  <2>1. TypeOK'
    BY <1>5 DEF TryLock, TypeOK, Exit
  <2>2. OneLocked'
    BY <1>5 DEF TryLock, OneLocked, TypeOK, Exit
  <2>3. StoredSound'
    BY <1>5 DEF TryLock, StoredSound, Sound, TypeOK, Exit
  <2>4. Progress'
    BY <1>5 DEF TryLock, Progress, TypeOK, OneLocked, Exit
  <2>5. DirtyExists'
    BY <1>5 DEF TryLock, DirtyExists, Exit
  <2>6. Marking'
    BY <1>5 DEF TryLock, Marking, TypeOK, Exit, Fresh
  <2> QED
    BY <2>1, <2>2, <2>3, <2>4, <2>5, <2>6
<1>6. ASSUME NEW i \in Instances, LoadKey(i) PROVE Inv'
  <2>1. TypeOK'
    BY <1>6 DEF LoadKey, TypeOK, Exit, MayCreateKey, KeyUsable
  <2>2. OneLocked'
    BY <1>6 DEF LoadKey, OneLocked, TypeOK, Exit
  <2>3. StoredSound'
    BY <1>6 DEF LoadKey, StoredSound, Sound, TypeOK, Exit
  <2>4. Progress'
    BY <1>6 DEF LoadKey, Progress, TypeOK, OneLocked, Exit, MayCreateKey, KeyUsable
  <2>5. DirtyExists'
    BY <1>6 DEF LoadKey, DirtyExists, Exit
  <2>6. Marking'
    BY <1>6 DEF LoadKey, Marking, TypeOK, Exit, Fresh
  <2> QED
    BY <2>1, <2>2, <2>3, <2>4, <2>5, <2>6
<1>7. ASSUME NEW i \in Instances, WriteKey(i) PROVE Inv'
  <2>1. TypeOK'
    BY <1>7 DEF WriteKey, TypeOK
  <2>2. OneLocked'
    BY <1>7 DEF WriteKey, OneLocked, TypeOK
  <2>3. StoredSound'
    BY <1>7 DEF WriteKey, StoredSound, Sound, TypeOK
  <2>4. Progress'
    BY <1>7 DEF WriteKey, Progress, TypeOK, OneLocked
  <2>5. DirtyExists'
    BY <1>7 DEF WriteKey, DirtyExists, TypeOK
  <2>6. Marking'
    BY <1>7 DEF WriteKey, Marking, TypeOK, Fresh
  <2> QED
    BY <2>1, <2>2, <2>3, <2>4, <2>5, <2>6
<1>8. ASSUME NEW i \in Instances, OpenFile(i) PROVE Inv'
  <2>1. TypeOK'
    BY <1>8 DEF OpenFile, TypeOK, Exit
  <2>2. OneLocked'
    BY <1>8 DEF OpenFile, OneLocked, TypeOK, Exit
  <2>3. StoredSound'
    BY <1>8 DEF OpenFile, StoredSound, Sound, TypeOK, Exit
  <2>4. Progress'
    BY <1>8 DEF OpenFile, Progress, TypeOK, OneLocked, Exit
  <2>5. DirtyExists'
    BY <1>8 DEF OpenFile, DirtyExists, Exit
  <2>6. Marking'
    BY <1>8 DEF OpenFile, Marking, TypeOK, Exit, Fresh
  <2> QED
    BY <2>1, <2>2, <2>3, <2>4, <2>5, <2>6
<1>9. ASSUME NEW i \in Instances, BeginTables(i) PROVE Inv'
  <2>1. TypeOK'
    BY <1>9 DEF BeginTables, TypeOK, Exit
  <2>2. OneLocked'
    BY <1>9 DEF BeginTables, OneLocked, TypeOK, Exit
  <2>3. StoredSound'
    BY <1>9 DEF BeginTables, StoredSound, Sound, TypeOK, Exit
  <2>4. Progress'
    BY <1>9 DEF BeginTables, Progress, TypeOK, OneLocked, Exit
  <2>5. DirtyExists'
    BY <1>9 DEF BeginTables, DirtyExists, Exit
  <2>6. Marking'
    BY <1>9 DEF BeginTables, Marking, TypeOK, Exit, Fresh
  <2> QED
    BY <2>1, <2>2, <2>3, <2>4, <2>5, <2>6
<1>10. ASSUME NEW i \in Instances, FinishTables(i) PROVE Inv'
  <2>1. TypeOK'
    BY <1>10 DEF FinishTables, TypeOK
  <2>2. OneLocked'
    BY <1>10 DEF FinishTables, OneLocked, TypeOK
  <2>3. StoredSound'
    BY <1>10 DEF FinishTables, StoredSound, Sound, TypeOK
  <2>4. Progress'
    BY <1>10 DEF FinishTables, Progress, TypeOK, OneLocked
  <2>5. DirtyExists'
    BY <1>10 DEF FinishTables, DirtyExists
  <2>6. Marking'
    BY <1>10 DEF FinishTables, Marking, TypeOK, Fresh
  <2> QED
    BY <2>1, <2>2, <2>3, <2>4, <2>5, <2>6
<1>11. ASSUME NEW i \in Instances, Migrate(i) PROVE Inv'
  <2>1. /\ data' \in Data /\ data'.file = data.file /\ data'.creds = data.creds
        /\ data'.admin = data.admin
        /\ data'.version < 2 => ~data'.column
    <3>1. data \in Data
      BY DEF TypeOK
    <3>2. CASE data' = data /\ data.version >= 2
      BY <3>1, <3>2
    <3>3. CASE data' = Migrated
      <4> DEFINE t == TRUE
      <4>1. t \in BOOLEAN
        OBVIOUS
      <4>2. data' = [data EXCEPT !.column = t, !.version = 2]
        BY <3>3 DEF Migrated
      <4> HIDE DEF t
      <4>3. data' = [file |-> data.file, version |-> 2, column |-> t,
                     admin |-> data.admin, creds |-> data.creds]
        BY <3>1, <4>2
      <4>5. data' \in Data
        BY <3>1, <4>1, <4>3
      <4>4. /\ data'.file = data.file /\ data'.creds = data.creds
            /\ data'.admin = data.admin /\ data'.version = 2
        BY <3>1, <4>2
      <4> QED
        BY <4>4, <4>5
    <3>4. CASE data' = data /\ data.version < 2 /\ data.column
      BY <3>4 DEF StoredSound, Sound
    <3> QED
      BY <1>11, <3>1, <3>2, <3>3, <3>4 DEF Migrate, Exit
  <2>2. /\ UNCHANGED <<key, marker, dirty, copy, way, setting, random, faults>>
        /\ \/ Goto(i, "down") /\ mem' = [mem EXCEPT ![i] = None]
           \/ Goto(i, "migrated") /\ mem' = mem
        /\ pc[i] = "tabled"
    BY <1>11 DEF Migrate, Exit
  <2>3. TypeOK'
    BY <2>1, <2>2 DEF TypeOK
  <2>4. OneLocked'
    BY <2>2 DEF OneLocked, TypeOK
  <2>5. StoredSound'
    <3>1. Sound(data')
      BY <2>1 DEF StoredSound, Sound
    <3>2. copy' = copy
      BY <2>2
    <3> QED
      BY <3>1, <3>2 DEF StoredSound, Sound
  <2>6. Progress'
    BY <2>1, <2>2 DEF Progress, TypeOK
  <2>7. DirtyExists'
    BY <2>2 DEF DirtyExists
  <2>8. Marking'
    BY <2>1, <2>2 DEF Marking, TypeOK, Fresh
  <2> QED
    BY <2>3, <2>4, <2>5, <2>6, <2>7, <2>8
<1>12. ASSUME NEW i \in Instances, Bootstrap(i) PROVE Inv'
  <2>1. TypeOK'
    BY <1>12 DEF Bootstrap, TypeOK, Exit, NeedsAccount
  <2>2. OneLocked'
    BY <1>12 DEF Bootstrap, OneLocked, TypeOK, Exit
  <2>3. StoredSound'
    BY <1>12 DEF Bootstrap, StoredSound, Sound, TypeOK, Progress, Exit
  <2>4. Progress'
    BY <1>12 DEF Bootstrap, Progress, TypeOK, OneLocked, Exit, NeedsAccount
  <2>5. DirtyExists'
    BY <1>12 DEF Bootstrap, DirtyExists, Exit
  <2>6. Marking'
    BY <1>12 DEF Bootstrap, Marking, TypeOK, Exit, Fresh
  <2> QED
    BY <2>1, <2>2, <2>3, <2>4, <2>5, <2>6
<1>13. ASSUME NEW i \in Instances, PrintPassword(i) PROVE Inv'
  <2>1. TypeOK'
    BY <1>13 DEF PrintPassword, TypeOK
  <2>2. OneLocked'
    BY <1>13 DEF PrintPassword, OneLocked, TypeOK
  <2>3. StoredSound'
    BY <1>13 DEF PrintPassword, StoredSound, Sound, TypeOK
  <2>4. Progress'
    BY <1>13 DEF PrintPassword, Progress, TypeOK, OneLocked
  <2>5. DirtyExists'
    BY <1>13 DEF PrintPassword, DirtyExists
  <2>6. Marking'
    BY <1>13 DEF PrintPassword, Marking, TypeOK, Fresh
  <2> QED
    BY <2>1, <2>2, <2>3, <2>4, <2>5, <2>6
<1>14. ASSUME NEW i \in Instances, ServeOrFail(i) PROVE Inv'
  <2>1. TypeOK'
    BY <1>14 DEF ServeOrFail, TypeOK, Exit, CredentialsReadable
  <2>2. OneLocked'
    BY <1>14 DEF ServeOrFail, OneLocked, TypeOK, Exit
  <2>3. StoredSound'
    BY <1>14 DEF ServeOrFail, StoredSound, Sound, TypeOK, Exit, CredentialsReadable
  <2>4. Progress'
    BY <1>14 DEF ServeOrFail, Progress, TypeOK, OneLocked, Exit, CredentialsReadable
  <2>5. DirtyExists'
    BY <1>14 DEF ServeOrFail, DirtyExists, Exit
  <2>6. Marking'
    BY <1>14 DEF ServeOrFail, Marking, TypeOK, Exit, Fresh
  <2> QED
    BY <2>1, <2>2, <2>3, <2>4, <2>5, <2>6
<1>15. ASSUME NEW i \in Instances, SaveConnection(i) PROVE Inv'
  <2>0. /\ data' \in Data /\ data'.file = data.file
        /\ data'.version = data.version /\ data'.column = data.column
    <3>1. data \in Data /\ mem[i] \in Keys
      BY <1>15 DEF SaveConnection, TypeOK, Progress
    <3>2. data.creds \cup {mem[i]} \in SUBSET Keys
      BY <3>1
    <3> QED
      BY <1>15, <3>1, <3>2 DEF SaveConnection
  <2>1. TypeOK'
    BY <1>15, <2>0 DEF SaveConnection, TypeOK
  <2>2. OneLocked'
    BY <1>15 DEF SaveConnection, OneLocked, TypeOK
  <2>3. StoredSound'
    BY <1>15, <2>0 DEF SaveConnection, StoredSound, Sound, Progress
  <2>4. Progress'
    BY <1>15 DEF SaveConnection, Progress, TypeOK, OneLocked
  <2>5. DirtyExists'
    BY <1>15 DEF SaveConnection, DirtyExists
  <2>6. Marking'
    BY <1>15 DEF SaveConnection, Marking, TypeOK, Fresh
  <2> QED
    BY <2>1, <2>2, <2>3, <2>4, <2>5, <2>6
<1>16. ASSUME NEW i \in Instances, Stop(i) PROVE Inv'
  <2>1. TypeOK'
    BY <1>16 DEF Stop, TypeOK, Exit
  <2>2. OneLocked'
    BY <1>16 DEF Stop, OneLocked, TypeOK, Exit
  <2>3. StoredSound'
    BY <1>16 DEF Stop, StoredSound, Sound, TypeOK, Exit
  <2>4. Progress'
    BY <1>16 DEF Stop, Progress, TypeOK, OneLocked, Exit
  <2>5. DirtyExists'
    BY <1>16 DEF Stop, DirtyExists, Exit
  <2>6. Marking'
    BY <1>16 DEF Stop, Marking, TypeOK, Exit, Fresh
  <2> QED
    BY <2>1, <2>2, <2>3, <2>4, <2>5, <2>6
<1>17. ASSUME NEW i \in Instances, Kill(i) PROVE Inv'
  <2>1. TypeOK'
    BY <1>17 DEF Kill, TypeOK, Exit, Fault
  <2>2. OneLocked'
    BY <1>17 DEF Kill, OneLocked, TypeOK, Exit
  <2>3. StoredSound'
    BY <1>17 DEF Kill, StoredSound, Sound, TypeOK, Exit, Fault
  <2>4. Progress'
    BY <1>17 DEF Kill, Progress, TypeOK, OneLocked, Exit, Fault
  <2>5. DirtyExists'
    BY <1>17 DEF Kill, DirtyExists, Exit
  <2>6. Marking'
    BY <1>17 DEF Kill, Marking, TypeOK, Exit, Fresh
  <2> QED
    BY <2>1, <2>2, <2>3, <2>4, <2>5, <2>6
<1>18. ASSUME WriteBack PROVE Inv'
  <2>1. TypeOK'
    BY <1>18 DEF WriteBack, TypeOK
  <2>2. OneLocked'
    BY <1>18 DEF WriteBack, OneLocked, TypeOK
  <2>3. StoredSound'
    BY <1>18 DEF WriteBack, StoredSound, Sound, TypeOK
  <2>4. Progress'
    BY <1>18 DEF WriteBack, Progress, TypeOK, OneLocked
  <2>5. DirtyExists'
    BY <1>18 DEF WriteBack, DirtyExists
  <2>6. Marking'
    BY <1>18 DEF WriteBack, Marking, TypeOK, Fresh
  <2> QED
    BY <2>1, <2>2, <2>3, <2>4, <2>5, <2>6
<1>19. ASSUME PowerLoss PROVE Inv'
  <2>1. TypeOK'
    <3>1. key' \in Keys \cup {None, Empty} /\ marker' \in {None, Empty, Named}
      BY <1>19 DEF PowerLoss, TypeOK
    <3>2. data' \in Data
      <4>1. NoData \in Data
        BY DEF NoData
      <4> QED
        BY <1>19, <4>1 DEF PowerLoss, TypeOK
    <3>3. pc' \in [Instances -> Steps] /\ mem' \in [Instances -> Keys \cup {None}]
      BY <1>19 DEF PowerLoss
    <3>4. faults' \in 0..MaxFaults
      BY <1>19 DEF PowerLoss, Fault, TypeOK
    <3> QED
      BY <1>19, <3>1, <3>2, <3>3, <3>4 DEF PowerLoss, TypeOK
  <2>2. OneLocked'
    BY <1>19 DEF PowerLoss, OneLocked, TypeOK
  <2>3. StoredSound'
    BY <1>19 DEF PowerLoss, StoredSound, Sound, TypeOK, Fault, NoData
  <2>4. Progress'
    BY <1>19 DEF PowerLoss, Progress, TypeOK, OneLocked, Fault, NoData
  <2>5. DirtyExists'
    BY <1>19 DEF PowerLoss, DirtyExists
  <2>6. Marking'
    BY <1>19 DEF PowerLoss, Marking, TypeOK, Fresh, NoData
  <2> QED
    BY <2>1, <2>2, <2>3, <2>4, <2>5, <2>6
<1>20. ASSUME TakeCopy PROVE Inv'
  <2>1. TypeOK'
    BY <1>20 DEF TakeCopy, TypeOK
  <2>2. OneLocked'
    BY <1>20 DEF TakeCopy, OneLocked, TypeOK
  <2>3. StoredSound'
    BY <1>20 DEF TakeCopy, StoredSound, Sound, TypeOK
  <2>4. Progress'
    BY <1>20 DEF TakeCopy, Progress, TypeOK, OneLocked
  <2>5. DirtyExists'
    BY <1>20 DEF TakeCopy, DirtyExists
  <2>6. Marking'
    BY <1>20 DEF TakeCopy, Marking, TypeOK, Fresh
  <2> QED
    BY <2>1, <2>2, <2>3, <2>4, <2>5, <2>6
<1>21. ASSUME NEW s \in {"none", "valid", "short"}, Configure(s) PROVE Inv'
  <2>1. TypeOK'
    BY <1>21 DEF Configure, TypeOK
  <2>2. OneLocked'
    BY <1>21 DEF Configure, OneLocked, TypeOK
  <2>3. StoredSound'
    BY <1>21 DEF Configure, StoredSound, Sound, TypeOK
  <2>4. Progress'
    BY <1>21 DEF Configure, Progress, TypeOK, OneLocked
  <2>5. DirtyExists'
    BY <1>21 DEF Configure, DirtyExists
  <2>6. Marking'
    BY <1>21 DEF Configure, Marking, TypeOK, Fresh
  <2> QED
    BY <2>1, <2>2, <2>3, <2>4, <2>5, <2>6
<1>22. ASSUME NEW S \in SUBSET {"key", "data", "marker"}, ChangeVolumes(S) PROVE Inv'
  <2>1. TypeOK'
    <3> DEFINE empty == [key |-> None, data |-> NoData, marker |-> None]
    <3>1. PICK new \in {empty} \cup (IF copy = None THEN {} ELSE {copy}) :
            /\ key'    = IF "key" \in S THEN new.key ELSE key
            /\ data'   = IF "data" \in S THEN new.data ELSE data
            /\ marker' = IF "marker" \in S THEN new.marker ELSE marker
      BY <1>22 DEF ChangeVolumes
    <3>2. NoData \in Data
      BY DEF NoData
    <3>3. /\ new.key \in Keys \cup {None, Empty} /\ new.data \in Data
          /\ new.marker \in {None, Empty, Named}
      BY <3>1, <3>2 DEF TypeOK
    <3>4. /\ key' \in Keys \cup {None, Empty} /\ data' \in Data
          /\ marker' \in {None, Empty, Named}
      BY <3>1, <3>3 DEF TypeOK
    <3>5. faults' \in 0..MaxFaults
      BY <1>22 DEF ChangeVolumes, Fault, TypeOK
    <3> QED
      BY <1>22, <3>4, <3>5 DEF ChangeVolumes, TypeOK
  <2>2. OneLocked'
    BY <1>22 DEF ChangeVolumes, OneLocked, TypeOK
  <2>3. StoredSound'
    BY <1>22 DEF ChangeVolumes, StoredSound, Sound, TypeOK, Fault, NoData
  <2>4. Progress'
    BY <1>22 DEF ChangeVolumes, Progress, TypeOK, OneLocked, Fault, NoData
  <2>5. DirtyExists'
    BY <1>22 DEF ChangeVolumes, DirtyExists
  <2>6. Marking'
    BY <1>22 DEF ChangeVolumes, Marking, TypeOK, Fresh, NoData
  <2> QED
    BY <2>1, <2>2, <2>3, <2>4, <2>5, <2>6
<1>23. ASSUME UNCHANGED vars PROVE Inv'
  <2>1. TypeOK'
    BY <1>23 DEF TypeOK, vars
  <2>2. OneLocked'
    BY <1>23 DEF OneLocked, vars
  <2>3. StoredSound'
    BY <1>23 DEF StoredSound, Sound, TypeOK, vars
  <2>4. Progress'
    BY <1>23 DEF Progress, TypeOK, OneLocked, vars
  <2>5. DirtyExists'
    BY <1>23 DEF DirtyExists, vars
  <2>6. Marking'
    BY <1>23 DEF Marking, TypeOK, vars, Fresh
  <2> QED
    BY <2>1, <2>2, <2>3, <2>4, <2>5, <2>6
<1> QED
  BY <1>1, <1>2, <1>3, <1>4, <1>5, <1>6, <1>7, <1>8, <1>9, <1>10, <1>11, <1>12,
     <1>13, <1>14, <1>15, <1>16, <1>17, <1>18, <1>19, <1>20, <1>21, <1>22, <1>23
     DEF Next, Boot, Operator

LEMMA Invariance == Spec => []Inv
<1>1. Init => Inv
  BY InvInit
<1>2. Inv /\ [Next]_vars => Inv'
  BY InvStep
<1> QED
  BY <1>1, <1>2, PTL DEF Spec

-----------------------------------------------------------------------------
(* The types hold in every installation, however often it is started.       *)
THEOREM TypeCorrect == Spec => []TypeOK
<1>1. Inv => TypeOK
  BY DEF Inv
<1> QED
  BY Invariance, <1>1, PTL

(* What serves can decrypt what is stored: the recovery pass (main.go:112)  *)
(* reads every row first, and the lock keeps other keys away afterwards.    *)
THEOREM KeyFits == Spec => []KeyOpensCredentials
<1>1. Inv => KeyOpensCredentials
  BY DEF Inv, Progress, KeyOpensCredentials
<1> QED
  BY Invariance, <1>1, PTL

(* No crash leaves a database that has the column and an old version.       *)
THEOREM MigrationOnce == Spec => []MigrationRepeatable
<1>1. Inv => MigrationRepeatable
  BY DEF Inv, StoredSound, Sound, MigrationRepeatable
<1> QED
  BY Invariance, <1>1, PTL

(* A key file is never made for a database with credentials.                *)
THEOREM KeyNotReplaced == Spec => NoReplacementKey
<1>1. ASSUME Inv, [Next]_vars, ~AllDown, key = None, key' # None
      PROVE  data.creds = {}
  <2>1. ASSUME NEW i \in Instances, LoadKey(i) PROVE data.creds = {}
    <3>1. ~HasBytes
      BY <1>1, <2>1 DEF LoadKey, MayCreateKey, KeyUsable, Exit, Inv, TypeOK
    <3> QED
      BY <1>1, <3>1 DEF Inv, StoredSound, Sound
  <2>2. ASSUME NEW i \in Instances, WriteKey(i) PROVE FALSE
    BY <1>1, <2>2 DEF WriteKey, Inv, Progress
  <2>3. CASE \/ \E i \in Instances :
                  \/ Start(i) \/ InitCheck(i) \/ CreateMarker(i) \/ WriteMarker(i)
                  \/ TryLock(i) \/ OpenFile(i) \/ BeginTables(i) \/ FinishTables(i)
                  \/ Migrate(i) \/ Bootstrap(i) \/ PrintPassword(i)
                  \/ ServeOrFail(i) \/ SaveConnection(i) \/ Stop(i) \/ Kill(i)
             \/ WriteBack \/ TakeCopy \/ UNCHANGED vars
             \/ \E s \in {"none", "valid", "short"} : Configure(s)
    BY <1>1, <2>3 DEF Start, InitCheck, CreateMarker, WriteMarker, TryLock,
         OpenFile, BeginTables, FinishTables, Migrate, Bootstrap, PrintPassword,
         ServeOrFail, SaveConnection, Stop, Kill, Exit, WriteBack,
         TakeCopy, Configure, vars
  <2>4. ASSUME PowerLoss PROVE FALSE
    BY <1>1, <2>4 DEF PowerLoss, Inv, DirtyExists
  <2>5. ASSUME NEW S \in SUBSET {"key", "data", "marker"}, ChangeVolumes(S)
        PROVE  FALSE
    BY <1>1, <2>5 DEF ChangeVolumes
  <2> QED
    BY <1>1, <2>1, <2>2, <2>3, <2>4, <2>5 DEF Next, Boot, Operator
<1>2. Inv /\ [Next]_vars =>
        [~AllDown /\ key = None /\ key' # None => data.creds = {}]_vars
  BY <1>1
<1> QED
  BY Invariance, <1>2, PTL DEF Spec, NoReplacementKey

(* The marker is only made for a new installation, although the entrypoint  *)
(* of another container may run between its check and its creation.         *)
THEOREM OnlyFreshMarked == Spec => MarksOnlyFresh
<1>1. ASSUME Inv, [Next]_vars, ~AllDown, marker = None, marker' # None
      PROVE  data.file = "absent" /\ key = None
  <2>1. ASSUME NEW i \in Instances, CreateMarker(i)
        PROVE  data.file = "absent" /\ key = None
    BY <1>1, <2>1 DEF CreateMarker, Inv, Marking, Fresh
  <2>2. ASSUME NEW i \in Instances, WriteMarker(i) PROVE FALSE
    BY <1>1, <2>2 DEF WriteMarker, Inv, Progress
  <2>3. CASE \/ \E i \in Instances :
                  \/ Start(i) \/ InitCheck(i) \/ TryLock(i) \/ LoadKey(i)
                  \/ WriteKey(i) \/ OpenFile(i) \/ BeginTables(i) \/ FinishTables(i)
                  \/ Migrate(i) \/ Bootstrap(i) \/ PrintPassword(i)
                  \/ ServeOrFail(i) \/ SaveConnection(i) \/ Stop(i) \/ Kill(i)
             \/ WriteBack \/ TakeCopy \/ UNCHANGED vars
             \/ \E s \in {"none", "valid", "short"} : Configure(s)
    BY <1>1, <2>3 DEF Start, InitCheck, TryLock, LoadKey, WriteKey,
         OpenFile, BeginTables, FinishTables, Migrate, Bootstrap, PrintPassword,
         ServeOrFail, SaveConnection, Stop, Kill, Exit, WriteBack,
         TakeCopy, Configure, vars
  <2>4. ASSUME PowerLoss PROVE FALSE
    BY <1>1, <2>4 DEF PowerLoss, Inv, DirtyExists
  <2>5. ASSUME NEW S \in SUBSET {"key", "data", "marker"}, ChangeVolumes(S)
        PROVE  FALSE
    BY <1>1, <2>5 DEF ChangeVolumes
  <2> QED
    BY <1>1, <2>1, <2>2, <2>3, <2>4, <2>5 DEF Next, Boot, Operator
<1>2. Inv /\ [Next]_vars =>
        [~AllDown /\ marker = None /\ marker' # None =>
           data.file = "absent" /\ key = None]_vars
  BY <1>1
<1> QED
  BY Invariance, <1>2, PTL DEF Spec, MarksOnlyFresh

(* An existing account keeps its hash through every start.                  *)
THEOREM AccountStays == Spec => AccountKept
<1>1. ASSUME Inv, [Next]_vars, data.admin # None, data'.admin # data.admin
      PROVE  AllDown
  <2>1. data \in Data
    BY <1>1 DEF Inv, TypeOK
  <2>2. ASSUME NEW i \in Instances, Bootstrap(i) PROVE FALSE
    BY <1>1, <2>2 DEF Bootstrap, NeedsAccount, Exit
  <2>3. ASSUME PowerLoss PROVE FALSE
    BY <1>1, <2>1, <2>3 DEF PowerLoss, Inv, StoredSound, Sound
  <2>4. CASE \/ \E i \in Instances :
                  \/ OpenFile(i) \/ BeginTables(i) \/ FinishTables(i)
                  \/ Migrate(i) \/ SaveConnection(i)
    BY <1>1, <2>1, <2>4 DEF OpenFile, BeginTables, FinishTables, Migrate,
         Migrated, SaveConnection, Exit
  <2>5. CASE \/ \E i \in Instances :
                  \/ Start(i) \/ InitCheck(i) \/ CreateMarker(i) \/ WriteMarker(i)
                  \/ TryLock(i) \/ LoadKey(i) \/ WriteKey(i) \/ PrintPassword(i)
                  \/ ServeOrFail(i) \/ Stop(i) \/ Kill(i)
             \/ WriteBack \/ TakeCopy \/ UNCHANGED vars
             \/ \E s \in {"none", "valid", "short"} : Configure(s)
             \/ \E S \in SUBSET {"key", "data", "marker"} : ChangeVolumes(S)
    BY <1>1, <2>5 DEF Start, InitCheck, CreateMarker, WriteMarker, TryLock,
         LoadKey, WriteKey, PrintPassword, ServeOrFail, Stop, Kill, Exit,
         WriteBack, TakeCopy, Configure, ChangeVolumes, vars
  <2> QED
    BY <1>1, <2>2, <2>3, <2>4, <2>5 DEF Next, Boot, Operator
<1>2. Inv /\ [Next]_vars =>
        [data.admin # None /\ data'.admin # data.admin => AllDown]_vars
  BY <1>1
<1> QED
  BY Invariance, <1>2, PTL DEF Spec, AccountKept

-----------------------------------------------------------------------------
(* Whoever runs past the lock runs with the key that is mounted, and who is *)
(* creating one has found no database.                                      *)
SameKey == \A i \in Instances :
    /\ pc[i] = "keyCreated" => key = Empty /\ ~HasBytes
    /\ pc[i] \in WithKey => mem[i] = key

LEMMA SameKeyStep == Inv /\ Inv' /\ SameKey /\ [Next]_vars => SameKey'
<1> SUFFICES ASSUME Inv, Inv', SameKey, [Next]_vars PROVE SameKey'
  OBVIOUS
<1> USE DEF Inv
<1>1. ASSUME NEW i \in Instances, LoadKey(i) PROVE SameKey'
  BY <1>1 DEF LoadKey, SameKey, TypeOK, OneLocked, Exit, MayCreateKey, KeyUsable
<1>2. ASSUME NEW i \in Instances, WriteKey(i) PROVE SameKey'
  BY <1>2 DEF WriteKey, SameKey, TypeOK, OneLocked
<1>3. CASE \E i \in Instances :
             \/ OpenFile(i) \/ BeginTables(i) \/ FinishTables(i) \/ Migrate(i)
             \/ Bootstrap(i) \/ SaveConnection(i)
  <2>1. PICK i \in Instances :
          /\ pc[i] \in WithKey /\ key' = key
          /\ \/ pc' = [pc EXCEPT ![i] = "down"] /\ mem' = [mem EXCEPT ![i] = None]
             \/ /\ mem' = mem
                /\ \/ pc' = pc
                   \/ \E s \in WithKey : pc' = [pc EXCEPT ![i] = s]
    BY <1>3 DEF OpenFile, BeginTables, FinishTables, Migrate, Bootstrap,
         SaveConnection, Exit
  <2>2. \A j \in Instances : pc[j] # "keyCreated"
    BY <2>1 DEF OneLocked
  <2> QED
    BY <2>1, <2>2 DEF SameKey, TypeOK
<1>4. CASE \E i \in Instances :
             \/ Start(i) \/ InitCheck(i) \/ CreateMarker(i) \/ WriteMarker(i)
             \/ TryLock(i) \/ PrintPassword(i) \/ ServeOrFail(i) \/ Stop(i) \/ Kill(i)
  <2>1. PICK i \in Instances :
          /\ UNCHANGED <<key, data>>
          /\ \/ pc' = [pc EXCEPT ![i] = "down"] /\ mem' = [mem EXCEPT ![i] = None]
             \/ /\ mem' = mem
                /\ \/ \E s \in Steps \ (WithKey \cup {"keyCreated"}) :
                        pc' = [pc EXCEPT ![i] = s]
                   \/ /\ pc[i] \in WithKey
                      /\ \E s \in WithKey : pc' = [pc EXCEPT ![i] = s]
    BY <1>4 DEF Start, InitCheck, CreateMarker, WriteMarker, TryLock, PrintPassword,
         ServeOrFail, Stop, Kill, Exit
  <2> QED
    BY <2>1 DEF SameKey, TypeOK
<1>5. CASE PowerLoss
  BY <1>5 DEF PowerLoss, SameKey
<1>6. CASE \E S \in SUBSET {"key", "data", "marker"} : ChangeVolumes(S)
  BY <1>6 DEF ChangeVolumes, SameKey
<1>7. CASE \/ WriteBack \/ TakeCopy \/ UNCHANGED vars
           \/ \E s \in {"none", "valid", "short"} : Configure(s)
  BY <1>7 DEF WriteBack, TakeCopy, Configure, SameKey, vars
<1> QED
  BY <1>1, <1>2, <1>3, <1>4, <1>5, <1>6, <1>7 DEF Next, Boot, Operator

(* Steps of a process other than its death while the key file has no bytes  *)
LEMMA StaysStartable ==
    ASSUME Inv, Inv', SameKey, [Next]_vars, Startable,
           ~AllDown, ~("key" \in dirty /\ dirty' = {}),
           ~\E i \in Instances : pc[i] = "keyCreated" /\ pc'[i] = "down"
    PROVE  Startable'
<1> USE DEF Inv
<1>1. data \in Data /\ data.creds \subseteq Keys
  BY DEF TypeOK
<1>2. ASSUME NEW i \in Instances, LoadKey(i) PROVE Startable'
  BY <1>1, <1>2 DEF LoadKey, Startable, TypeOK, StoredSound, Sound, Exit,
       MayCreateKey, KeyUsable
<1>3. ASSUME NEW i \in Instances, WriteKey(i) PROVE Startable'
  <2>1. key = Empty /\ data.creds = {}
    BY <1>1, <1>3 DEF WriteKey, SameKey, StoredSound, Sound
  <2> QED
    BY <1>3, <2>1 DEF WriteKey, Startable, TypeOK
<1>4. ASSUME NEW i \in Instances,
             \/ OpenFile(i) \/ BeginTables(i) \/ FinishTables(i) \/ Migrate(i)
             \/ Bootstrap(i) \/ SaveConnection(i)
      PROVE  Startable'
  <2>1. pc[i] \in WithKey /\ key' = key /\ key \in Keys /\ mem[i] = key
    BY <1>4 DEF OpenFile, BeginTables, FinishTables, Migrate, Bootstrap,
         SaveConnection, Exit, SameKey, Progress
  <2>2. /\ data'.version <= 2 /\ data'.creds \subseteq {key}
        /\ data'.admin = None => data.admin = None /\ setting' = setting
    <3>1. CASE OpenFile(i) \/ BeginTables(i) \/ FinishTables(i)
      BY <1>1, <3>1 DEF OpenFile, BeginTables, FinishTables, Exit, Startable
    <3>2. CASE Migrate(i)
      <4>1. setting' = setting /\ (data' = data \/ data' = Migrated)
        BY <3>2 DEF Migrate, Exit
      <4>2. /\ Migrated.version = 2 /\ Migrated.creds = data.creds
            /\ Migrated.admin = data.admin
        BY <1>1 DEF Migrated
      <4> HIDE DEF Migrated
      <4> QED
        BY <4>1, <4>2 DEF Startable
    <3>3. CASE Bootstrap(i)
      BY <1>1, <3>3 DEF Bootstrap, Exit, Startable, NeedsAccount, TypeOK
    <3>4. CASE SaveConnection(i)
      BY <1>1, <2>1, <3>4 DEF SaveConnection, Startable
    <3> QED
      BY <1>4, <3>1, <3>2, <3>3, <3>4
  <2> QED
    BY <2>1, <2>2 DEF Startable
<1>5. ASSUME NEW i \in Instances,
             \/ Start(i) \/ InitCheck(i) \/ CreateMarker(i) \/ WriteMarker(i)
             \/ TryLock(i) \/ PrintPassword(i) \/ ServeOrFail(i) \/ Stop(i) \/ Kill(i)
      PROVE  Startable'
  <2>1. /\ UNCHANGED <<key, data, setting>>
        /\ pc[i] # "keyCreated" \/ pc'[i] = "down"
        /\ \A j \in Instances \ {i} : pc'[j] = pc[j]
    BY <1>5 DEF Start, InitCheck, CreateMarker, WriteMarker, TryLock, PrintPassword,
         ServeOrFail, Stop, Kill, Exit, TypeOK
  <2>2. \A j \in Instances : pc[j] = "keyCreated" => pc'[j] = "keyCreated"
    BY <2>1
  <2> QED
    BY <2>1, <2>2 DEF Startable
<1>6. CASE PowerLoss
  <2>1. key' = key /\ \A i \in Instances : pc[i] # "keyCreated"
    BY <1>6 DEF PowerLoss
  <2>2. setting' = setting /\ (data' = data \/ (data' = NoData /\ data.file = "empty"))
    BY <1>6 DEF PowerLoss
  <2>3. data.file = "empty" => data.admin = None
    BY DEF StoredSound, Sound
  <2> QED
    BY <2>1, <2>2, <2>3 DEF Startable, NoData
<1>7. CASE \/ WriteBack \/ TakeCopy \/ UNCHANGED vars
  BY <1>7 DEF WriteBack, TakeCopy, Startable, vars
<1>8. CASE \/ \E S \in SUBSET {"key", "data", "marker"} : ChangeVolumes(S)
           \/ \E s \in {"none", "valid", "short"} : Configure(s)
  BY <1>8 DEF ChangeVolumes, Configure
<1> QED
  BY <1>2, <1>3, <1>4, <1>5, <1>6, <1>7, <1>8 DEF Next, Boot, Operator

(* A start that is cut short can be repeated: from an installation that can *)
(* be started, only three things lead to one that needs its operator.       *)
THEOREM OnlyThreeSpoil == Spec => SpoiltOnlyBy
<1>1. Init => SameKey
  BY DEF Init, SameKey
<1>2. Inv /\ Inv' /\ SameKey /\ [Next]_vars => SameKey'
  BY SameKeyStep
<1>3. Inv /\ Inv' /\ SameKey /\ [Next]_vars =>
        [Startable /\ ~Startable' =>
           \/ AllDown
           \/ "key" \in dirty /\ dirty' = {}
           \/ \E i \in Instances : pc[i] = "keyCreated" /\ pc'[i] = "down"]_vars
  BY StaysStartable
<1> QED
  BY Invariance, <1>1, <1>2, <1>3, PTL DEF Spec, SpoiltOnlyBy

=============================================================================
