------------------------------ MODULE Clients ------------------------------
(***************************************************************************)
(* How a connection test and a backup find the client tools for a server   *)
(* (clients.go) and run them (backup.go): NativeExecutor.Prepare writes a  *)
(* credentials file, asks the server for its version with the newest       *)
(* client, selects the profile, asks each tool of the profile for its own  *)
(* version and removes the file; the dump then writes a second file. The   *)
(* test handler (server.go) stops after Prepare, the worker goes on.       *)
(*                                                                         *)
(* Versions are tuples of numbers. What a server or a tool prints is kept  *)
(* where the parsing of it decides: the "5.5.5-" prefix, the word MariaDB, *)
(* and the several numbers of one --version line with the word before each. *)
(***************************************************************************)
EXTENDS Naturals, FiniteSets, Sequences

CONSTANTS
    Calls,     \* connection tests and backups that run at a time
    Servers,   \* servers the address of the form may lead to
    Forms,     \* connection forms: [engine, tls]
    Images,    \* what may be installed, by profile directory and tool
    None,      \* nothing probed, refused, not recorded
    MaxChanges \* bound: times the server is changed for another one

ASSUME BoundAssumption == MaxChanges \in Nat

Engines == {"postgres", "mysql", "mariadb"}

ASSUME FormAssumption == Forms \subseteq [engine : Engines, tls : BOOLEAN]

(* MariaDB names itself, and it alone prefixes its version.                 *)
ASSUME ServerAssumption ==
    /\ Servers \subseteq [family : Engines, version : Seq(Nat), prefixed : BOOLEAN,
                           mariadb : BOOLEAN, tls : BOOLEAN, innodb : BOOLEAN]
    /\ \A s \in Servers : /\ s.mariadb = (s.family = "mariadb")
                          /\ s.prefixed => s.mariadb

VARIABLES
    server,   \* who answers now
    image,    \* what is installed
    call,     \* what each call is doing
    files,    \* credentials files in /tmp, by call and part of it
    orphans,  \* those whose process was killed
    changes

vars == <<server, image, call, files, orphans, changes>>

Idle == [step |-> "idle", d |-> None, probed |-> None, profile |-> None,
         left |-> <<>>, info |-> None]

(* Steps in which a call's file of Prepare, or of the dump, exists.         *)
PrepareSteps == {"created", "written", "checking"}
DumpSteps    == {"reopened", "dumping"}
Steps        == PrepareSteps \cup DumpSteps \cup {"idle", "prepared", "recorded", "refused"}

Init ==
    /\ server \in Servers
    /\ image \in Images
    /\ call = [c \in Calls |-> Idle]
    /\ files = {} /\ orphans = {} /\ changes = 0

Goto(c, step) == call' = [call EXCEPT ![c].step = step]

-----------------------------------------------------------------------------
(* Defective variants, as in the other modules: no step uses them.          *)

(* The first number of the line is taken for the version.                   *)
StatedFirst(output) == IF output = <<>> THEN None ELSE output[1].number

(* The version of the tool checked last is recorded.                        *)
RecordsEvery(p, name) == TRUE

(* The error of profileFor is not looked at.                                *)
AcceptedAnySeries(d) ==
    /\ IF d.engine = "postgres" THEN ~server.mariadb
       ELSE server.mariadb = (d.engine = "mariadb")
    /\ d.engine # "postgres" => server.innodb /\ (d.tls => server.tls)

(* An error between the creation of the file and its use leaves it there.   *)
CleanedUnlessNew(c) ==
    IF call[c].step \in {"created", "reopened"} THEN files
    ELSE files \ ({c} \X {"prepare", "dump"})

-----------------------------------------------------------------------------
(* profileFor: the matrix of supported series                               *)

Supported(engine) ==
    CASE engine = "postgres" -> {<<n>> : n \in 12..18}
      [] engine = "mysql"    -> {<<5, 7>>, <<8, 0>>, <<8, 4>>}
      [] engine = "mariadb"  -> {<<10, 6>>, <<10, 11>>, <<11, 4>>, <<11, 8>>, <<12, 3>>}

(* The tools of a profile in the order SQL, Dump, Restore                   *)
Tools(engine) ==
    CASE engine = "postgres" -> <<"psql", "pg_dump", "pg_restore">>
      [] engine = "mysql"    -> <<"mysql", "mysqldump", "mysql">>
      [] engine = "mariadb"  -> <<"mariadb", "mariadb-dump", "mariadb">>

ProfileFor(engine, series) ==
    IF series \notin Supported(engine) THEN None
    ELSE [engine |-> engine, series |-> series,
          client |-> IF engine = "mysql" /\ series = <<5, 7>> THEN <<8, 0>> ELSE series,
          legacy |-> series \in {<<12>>, <<13>>, <<5, 7>>, <<10, 6>>}]

(* The newest client of each engine asks first.                             *)
ProbeProfile(engine) ==
    ProfileFor(engine, CASE engine = "postgres" -> <<18>>
                         [] engine = "mysql"    -> <<8, 0>>
                         [] engine = "mariadb"  -> <<12, 3>>)

SeriesOf(engine, version) ==
    SubSeq(version, 1, IF engine = "postgres" THEN 1 ELSE 2)

(* The version as the server prints it                                      *)
Raw(s) == IF s.prefixed THEN <<5, 5, 5>> \o s.version ELSE s.version

(* serverSeries cuts the prefix from its own copy when MariaDB is named.    *)
Reported(s) == IF s.prefixed /\ s.mariadb THEN s.version ELSE Raw(s)

(* serverSeries and, for PostgreSQL, server_version_num                     *)
ServerSeries(engine, s) ==
    IF (engine = "mysql" /\ s.mariadb) \/ (engine = "mariadb" /\ ~s.mariadb) THEN None
    ELSE SeriesOf(engine, Reported(s))

(* A number counts only after one of these.                                 *)
Words == {"Distrib", "(PostgreSQL)", "Ver", "from"}

(* clientVersion: the number after the first Distrib, else the first one    *)
(* that counts; none at all is an error.                                    *)
Stated(output) ==
    LET known   == {k \in DOMAIN output : output[k].word \in Words}
        distrib == {k \in known : output[k].word = "Distrib"}
        read    == IF distrib = {} THEN known ELSE distrib
    IN  IF read = {} THEN None
        ELSE output[CHOOSE k \in read : \A j \in read : k <= j].number

(* binary: a tool is missing when its profile directory does not have it.   *)
Installed(p, name) == <<p.engine, p.client, name>> \in DOMAIN image
Output(p, name)    == image[<<p.engine, p.client, name>>].says

(* A tool that prints a number that counts prints its version: after        *)
(* Distrib if the line has the word, else as the first that counts. One     *)
(* that prints none is no client.                                           *)
ASSUME ImageAssumption ==
    \A i \in Images : \A place \in DOMAIN i :
      LET version == i[place].version
          says    == i[place].says
          known   == {k \in DOMAIN says : says[k].word \in Words}
          Distrib(k) == says[k].word = "Distrib"
      IN  /\ version \in Seq(Nat)
          /\ says \in Seq([word : STRING, number : Seq(Nat)])
          /\ known = {} => \A e \in Engines : SeriesOf(e, version) \notin Supported(e)
          /\ known # {} => \E k \in known :
                /\ says[k].number = version
                /\ Distrib(k) \/ \A j \in known : k <= j
                /\ \A j \in known \ {k} : ~Distrib(j)

(* None is neither a version nor a profile.                                 *)
ASSUME NoneAssumption ==
    /\ None \notin Seq(Nat)
    /\ None \notin [engine : Engines, series : Seq(Nat), client : Seq(Nat), legacy : BOOLEAN]

-----------------------------------------------------------------------------
(* Prepare                                                                  *)

(* credentials: CreateTemp, then the write of its contents                  *)
Begin(c, d) ==
    /\ call[c] = Idle
    /\ call' = [call EXCEPT ![c] = [Idle EXCEPT !.step = "created", !.d = d]]
    /\ files' = files \cup {<<c, "prepare">>}
    /\ UNCHANGED <<server, image, orphans, changes>>

WriteCredentials(c) ==
    /\ \/ call[c].step = "created" /\ Goto(c, "written")
       \/ call[c].step = "reopened" /\ Goto(c, "dumping")
    /\ UNCHANGED <<server, image, files, orphans, changes>>

(* The defer of Prepare and of dumpWithProfile                              *)
Cleaned(c) == files \ ({c} \X {"prepare", "dump"})

(* psql does not speak to MySQL; psql and mysql enforce TLS themselves,     *)
(* mariadb may go on without it.                                            *)
Answers(d) ==
    /\ (d.engine = "postgres") = (server.family = "postgres")
    /\ d.tls /\ d.engine # "mariadb" => server.tls
    /\ Installed(ProbeProfile(d.engine), Tools(d.engine)[1])

(* The answer names the version, tables out of InnoDB and the cipher.       *)
Accepted(d) ==
    /\ ServerSeries(d.engine, server) # None
    /\ d.engine # "postgres" => server.innodb /\ (d.tls => server.tls)
    /\ ProfileFor(d.engine, ServerSeries(d.engine, server)) # None

Probe(c) ==
    LET d == call[c].d
    IN  /\ call[c].step = "written"
        /\ Answers(d)
        /\ IF Accepted(d)
             THEN /\ call' = [call EXCEPT
                       ![c].step = "checking", ![c].probed = server,
                       ![c].profile = ProfileFor(d.engine, ServerSeries(d.engine, server)),
                       ![c].left = Tools(d.engine)]
                  /\ UNCHANGED files
             ELSE /\ call' = [call EXCEPT ![c].step = "refused", ![c].probed = server]
                  /\ files' = Cleaned(c)
        /\ UNCHANGED <<server, image, orphans, changes>>

Records(p, name) == name = Tools(p.engine)[2]

(* Each tool of the profile must state the series the profile requires.     *)
CheckTool(c) ==
    LET p     == call[c].profile
        name  == Head(call[c].left)
        right == /\ Installed(p, name)
                 /\ Stated(Output(p, name)) # None
                 /\ SeriesOf(p.engine, Stated(Output(p, name))) = p.client
    IN  /\ call[c].step = "checking"
        /\ call[c].left # <<>>
        /\ IF right
             THEN /\ call' = [call EXCEPT ![c].left = Tail(@),
                       ![c].info = IF Records(p, name) THEN Stated(Output(p, name)) ELSE @]
                  /\ UNCHANGED files
             ELSE /\ Goto(c, "refused")
                  /\ files' = Cleaned(c)
        /\ UNCHANGED <<server, image, orphans, changes>>

(* prepared.Info is complete; the file is removed when Prepare returns.     *)
Prepared(c) ==
    /\ call[c].step = "checking"
    /\ call[c].left = <<>>
    /\ call' = [call EXCEPT ![c].step = "prepared",
                  ![c].info = [server |-> Raw(call[c].probed), client |-> @,
                               profile |-> <<call[c].d.engine, call[c].profile.series>>,
                               legacy |-> call[c].profile.legacy]]
    /\ files' = Cleaned(c)
    /\ UNCHANGED <<server, image, orphans, changes>>

-----------------------------------------------------------------------------
(* What the callers do next                                                 *)

(* The test handler shows the answer, a refusal is shown or recorded.       *)
Answer(c) ==
    /\ call[c].step \in {"prepared", "refused"}
    /\ call' = [call EXCEPT ![c] = Idle]
    /\ UNCHANGED <<server, image, files, orphans, changes>>

(* execute: UPDATE runs SET client_info                                     *)
Record(c) ==
    /\ call[c].step = "prepared"
    /\ Goto(c, "recorded")
    /\ UNCHANGED <<server, image, files, orphans, changes>>

(* dumpWithProfile writes a file of its own.                                *)
BeginDump(c) ==
    /\ call[c].step = "recorded"
    /\ Goto(c, "reopened")
    /\ files' = files \cup {<<c, "dump">>}
    /\ UNCHANGED <<server, image, orphans, changes>>

(* The tool has run, with success or without.                               *)
EndDump(c) ==
    /\ call[c].step = "dumping"
    /\ call' = [call EXCEPT ![c] = Idle]
    /\ files' = Cleaned(c)
    /\ UNCHANGED <<server, image, orphans, changes>>

(* A full /tmp, a server that does not answer, a timeout, a request that is *)
(* given up, an error of SQLite: the call returns and its defers run.       *)
Fail(c) ==
    /\ call[c].step \notin {"idle", "refused"}
    /\ call' = [call EXCEPT ![c] = Idle]
    /\ files' = Cleaned(c)
    /\ UNCHANGED <<server, image, orphans, changes>>

-----------------------------------------------------------------------------
(* No defer runs when the process is killed.                                *)
Kill ==
    /\ files # {}
    /\ call' = [c \in Calls |-> Idle]
    /\ orphans' = orphans \cup files
    /\ files' = {}
    /\ UNCHANGED <<server, image, changes>>

(* /tmp of the container is a tmpfs (compose.yaml:32).                      *)
NewContainer ==
    /\ files = {} /\ orphans # {}
    /\ orphans' = {}
    /\ call' = [c \in Calls |-> Idle]
    /\ UNCHANGED <<server, image, files, changes>>

(* The server is upgraded, reconfigured or replaced at any time.            *)
ChangeServer ==
    /\ changes < MaxChanges
    /\ changes' = changes + 1
    /\ server' \in Servers \ {server}
    /\ UNCHANGED <<image, call, files, orphans>>

Next ==
    \/ \E c \in Calls :
         \/ \E d \in Forms : Begin(c, d)
         \/ WriteCredentials(c) \/ Probe(c) \/ CheckTool(c) \/ Prepared(c)
         \/ Answer(c) \/ Record(c) \/ BeginDump(c) \/ EndDump(c) \/ Fail(c)
    \/ Kill \/ NewContainer \/ ChangeServer

Spec == Init /\ [][Next]_vars

-----------------------------------------------------------------------------
(* Properties                                                               *)

(* Every variable has the shape the code gives it; a profile is present     *)
(* from its selection on.                                                   *)
TypeOK ==
    /\ server \in Servers /\ image \in Images
    /\ \A c \in Calls :
         /\ call[c].step \in Steps
         /\ call[c].d \in Forms \cup {None}
         /\ call[c].probed \in Servers \cup {None}
         /\ call[c].step \in {"checking", "prepared", "recorded"} \cup DumpSteps =>
              call[c].profile # None /\ Len(call[c].left) <= 3
    /\ files \subseteq Calls \X {"prepare", "dump"}
    /\ orphans \subseteq Calls \X {"prepare", "dump"}
    /\ changes \in 0..MaxChanges

(* A credentials file exists exactly while the part of a call that needs it *)
(* runs: it is there for every command, and no error path leaves it behind. *)
FilesOfRunning ==
    files = {<<c, "prepare">> : c \in {e \in Calls : call[e].step \in PrepareSteps}}
        \cup {<<c, "dump">> : c \in {e \in Calls : call[e].step \in DumpSteps}}

(* The table of README.md:20-27, by server and client                       *)
Compatibility ==
    {<<"postgres", <<n>>, <<n>> >> : n \in 12..18}
    \cup {<<"mysql", <<5, 7>>, <<8, 0>> >>, <<"mysql", <<8, 0>>, <<8, 0>> >>,
          <<"mysql", <<8, 4>>, <<8, 4>> >>}
    \cup {<<"mariadb", v, v>> : v \in {<<10, 6>>, <<10, 11>>, <<11, 4>>, <<11, 8>>, <<12, 3>>}}

(* What the tool that is run under a name really is                         *)
Really(engine, client, name) ==
    IF <<engine, client, name>> \in DOMAIN image
      THEN SeriesOf(engine, image[<<engine, client, name>>].version) ELSE None

(* The call may go on to a dump: the server answered as the form says, and  *)
(* the table has a client for it, all tools of which are what they should.  *)
Compatible(c) ==
    LET d == call[c].d
        s == call[c].probed
    IN  /\ s.family = d.engine
        /\ d.tls => s.tls
        /\ d.engine # "postgres" => s.innodb
        /\ \E client \in {r[3] : r \in {q \in Compatibility :
                            q[1] = s.family /\ q[2] = SeriesOf(s.family, s.version)}} :
             \A k \in 1..3 : Really(d.engine, client, Tools(d.engine)[k]) = client

(* The table of README.md is what the code does, both ways: what it lists   *)
(* is never refused, and what gets past Prepare is listed, whatever numbers *)
(* the server and the tools print first and whatever is installed.          *)
RefusesExactly ==
    \A c \in Calls :
      /\ call[c].step = "refused" => ~Compatible(c)
      /\ call[c].step \in {"prepared", "recorded"} \cup DumpSteps => Compatible(c)

(* "Cada execucao nova registra mecanismo, versao do servidor, versao do    *)
(* cliente e perfil" (README.md:33): what is recorded before a dump is the  *)
(* version as the server that was probed printed it, with its prefix; but   *)
(* the profile names the series that server really has, never the 5.5 of    *)
(* the prefix, and the client is the tool that dumps, also when the tools   *)
(* of a directory differ in their patch version or print another number     *)
(* first.                                                                   *)
RecordedIsUsed ==
    \A c \in Calls : call[c].step \in {"recorded"} \cup DumpSteps =>
      LET i == call[c].info
          p == call[c].profile
          s == call[c].probed
      IN  /\ i.server = Raw(s)
          /\ i.profile = <<s.family, SeriesOf(s.family, s.version)>>
          /\ i.client = image[<<p.engine, p.client, Tools(p.engine)[2]>>].version
          /\ i.legacy = (i.profile \in {<<"postgres", <<12>> >>, <<"postgres", <<13>> >>,
                                        <<"mysql", <<5, 7>> >>, <<"mariadb", <<10, 6>> >>})

=============================================================================
