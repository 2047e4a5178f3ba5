---------------------------- MODULE ClientsProofs ----------------------------
(***************************************************************************)
(* Theorems about Clients, for every number of calls and every set of     *)
(* servers, forms and installed tools.                                     *)
(***************************************************************************)
EXTENDS Clients, TLAPS

(* The calls, as far as the argument needs their shape                      *)
CallShape == /\ call = [c \in Calls |-> call[c]]
             /\ \A c \in Calls : "step" \in DOMAIN call[c] /\ call[c].step \in Steps

(* FilesOfRunning, read file by file                                        *)
FileOf(c, part) ==
    CASE part = "prepare" -> call[c].step \in PrepareSteps
      [] part = "dump"    -> call[c].step \in DumpSteps

FilesMatch ==
    /\ files \subseteq Calls \X {"prepare", "dump"}
    /\ \A c \in Calls, part \in {"prepare", "dump"} :
         <<c, part>> \in files <=> FileOf(c, part)

Inv == CallShape /\ FilesMatch

USE DEF Steps, PrepareSteps, DumpSteps, Idle, FileOf

LEMMA InvInit == Init => Inv
  BY DEF Init, Inv, CallShape, FilesMatch

(* One action changes the call and the file of one c.                       *)
LEMMA OneCall ==
    ASSUME Inv, NEW c \in Calls, NEW new,
           call' = [call EXCEPT ![c] = new],
           "step" \in DOMAIN new, new.step \in Steps,
           \/ /\ files' = Cleaned(c)
              /\ new.step \notin PrepareSteps \cup DumpSteps
           \/ /\ files' = files
              /\ new.step \in PrepareSteps <=> call[c].step \in PrepareSteps
              /\ new.step \in DumpSteps <=> call[c].step \in DumpSteps
           \/ /\ files' = files \cup {<<c, "prepare">>}
              /\ new.step \in PrepareSteps
              /\ call[c].step \notin DumpSteps
           \/ /\ files' = files \cup {<<c, "dump">>}
              /\ new.step \in DumpSteps
              /\ call[c].step \notin PrepareSteps
    PROVE  Inv'
<1>1. /\ CallShape'
      /\ call'[c] = new
      /\ \A e \in Calls \ {c} : call'[e] = call[e]
  BY DEF Inv, CallShape
<1>2. FilesMatch'
  BY <1>1 DEF Inv, FilesMatch, Cleaned
<1> QED
  BY <1>1, <1>2 DEF Inv

LEMMA InvStep == Inv /\ [Next]_vars => Inv'
<1> SUFFICES ASSUME Inv, [Next]_vars PROVE Inv'
  OBVIOUS
<1>1. ASSUME NEW c \in Calls, NEW d \in Forms, Begin(c, d) PROVE Inv'
  <2> DEFINE new == [Idle EXCEPT !.step = "created", !.d = d]
  <2>1. "step" \in DOMAIN new /\ new.step = "created" /\ call[c].step = "idle"
    BY <1>1 DEF Begin
  <2>2. call' = [call EXCEPT ![c] = new] /\ files' = files \cup {<<c, "prepare">>}
    BY <1>1 DEF Begin
  <2> HIDE DEF new
  <2> QED
    BY <2>1, <2>2, OneCall
<1>2. ASSUME NEW c \in Calls, WriteCredentials(c) PROVE Inv'
  BY <1>2, OneCall DEF WriteCredentials, Goto, Inv, CallShape
<1>3. ASSUME NEW c \in Calls, Probe(c) PROVE Inv'
  BY <1>3, OneCall DEF Probe, Goto, Inv, CallShape
<1>4. ASSUME NEW c \in Calls, CheckTool(c) PROVE Inv'
  BY <1>4, OneCall DEF CheckTool, Goto, Inv, CallShape
<1>5. ASSUME NEW c \in Calls, Prepared(c) PROVE Inv'
  <2> DEFINE info == [server |-> Raw(call[c].probed), client |-> call[c].info,
                      profile |-> <<call[c].d.engine, call[c].profile.series>>,
                      legacy |-> call[c].profile.legacy]
             new == [call[c] EXCEPT !.step = "prepared", !.info = info]
  <2>1. "step" \in DOMAIN new /\ new.step = "prepared"
    BY DEF Inv, CallShape
  <2>2. call' = [call EXCEPT ![c] = new] /\ files' = Cleaned(c)
    BY <1>5 DEF Prepared
  <2> HIDE DEF new
  <2> QED
    BY <2>1, <2>2, OneCall
<1>6. ASSUME NEW c \in Calls, Answer(c) PROVE Inv'
  BY <1>6, OneCall DEF Answer, Goto, Inv, CallShape
<1>7. ASSUME NEW c \in Calls, Record(c) PROVE Inv'
  BY <1>7, OneCall DEF Record, Goto, Inv, CallShape
<1>8. ASSUME NEW c \in Calls, BeginDump(c) PROVE Inv'
  BY <1>8, OneCall DEF BeginDump, Goto, Inv, CallShape
<1>9. ASSUME NEW c \in Calls, EndDump(c) PROVE Inv'
  BY <1>9, OneCall DEF EndDump, Goto, Inv, CallShape
<1>10. ASSUME NEW c \in Calls, Fail(c) PROVE Inv'
  BY <1>10, OneCall DEF Fail, Goto, Inv, CallShape
<1>11. ASSUME Kill PROVE Inv'
  BY <1>11 DEF Kill, Inv, CallShape, FilesMatch
<1>12. ASSUME NewContainer PROVE Inv'
  BY <1>12 DEF NewContainer, Inv, CallShape, FilesMatch
<1>13. ASSUME ChangeServer PROVE Inv'
  BY <1>13 DEF ChangeServer, Inv, CallShape, FilesMatch
<1>14. ASSUME UNCHANGED vars PROVE Inv'
  BY <1>14 DEF vars, Inv, CallShape, FilesMatch
<1> QED
  BY <1>1, <1>2, <1>3, <1>4, <1>5, <1>6, <1>7,
     <1>8, <1>9, <1>10, <1>11, <1>12, <1>13, <1>14 DEF Next

(* No error path leaves a credentials file behind, and none is removed      *)
(* while a command needs it, however many calls run at a time.              *)
THEOREM FilesExact == Spec => []FilesOfRunning
<1>1. Inv => FilesOfRunning
  <2> SUFFICES ASSUME Inv PROVE FilesOfRunning
    OBVIOUS
  <2>1. ASSUME NEW f \in files
        PROVE  \/ f \in {<<c, "prepare">> : c \in {e \in Calls : call[e].step \in PrepareSteps}}
               \/ f \in {<<c, "dump">> : c \in {e \in Calls : call[e].step \in DumpSteps}}
    <3>1. PICK c \in Calls, part \in {"prepare", "dump"} : f = <<c, part>>
      BY DEF Inv, FilesMatch
    <3>2. FileOf(c, part)
      BY <3>1 DEF Inv, FilesMatch
    <3> QED
      BY <3>1, <3>2
  <2>2. ASSUME NEW c \in Calls
        PROVE  /\ call[c].step \in PrepareSteps => <<c, "prepare">> \in files
               /\ call[c].step \in DumpSteps => <<c, "dump">> \in files
    BY DEF Inv, FilesMatch
  <2> QED
    BY <2>1, <2>2 DEF FilesOfRunning
<1> QED
  BY InvInit, InvStep, <1>1, PTL DEF Spec

-----------------------------------------------------------------------------
(* Versions                                                                 *)

(* The numbers of a line that count                                         *)
Counted(says) == {k \in DOMAIN says : says[k].word \in Words}

(* The number clientVersion finds is the version of the tool.               *)
LEMMA StatedVersion ==
    ASSUME NEW i \in Images, NEW place \in DOMAIN i
    PROVE  /\ i[place].version \in Seq(Nat)
           /\ Counted(i[place].says) = {} => Stated(i[place].says) = None
           /\ Counted(i[place].says) # {} => Stated(i[place].says) = i[place].version
<1> DEFINE says == i[place].says
           known == {k \in DOMAIN says : says[k].word \in Words}
           distrib == {k \in known : says[k].word = "Distrib"}
           read == IF distrib = {} THEN known ELSE distrib
<1>1. CASE known = {}
  BY <1>1, ImageAssumption DEF Stated, Counted
<1>2. CASE known # {}
  <2>1. PICK k \in known :
          /\ says[k].number = i[place].version
          /\ k \in distrib \/ \A j \in known : k <= j
          /\ \A j \in known \ {k} : j \notin distrib
    <3>1. \E k \in known : /\ says[k].number = i[place].version
                           /\ says[k].word = "Distrib" \/ \A j \in known : k <= j
                           /\ \A j \in known \ {k} : says[j].word # "Distrib"
      BY <1>2, ImageAssumption
    <3> QED
      BY <3>1
  <2>2. DOMAIN says \subseteq Nat
    BY ImageAssumption
  <2>3. k \in read /\ \A j \in read : k <= j
    BY <2>1, <2>2
  <2>4. (CHOOSE m \in read : \A j \in read : m <= j) = k
    <3>1. \A m \in read : (\A j \in read : m <= j) => m = k
      BY <2>2, <2>3
    <3> HIDE DEF read
    <3> QED
      BY <2>3, <3>1
  <2>5. read # {}
    BY <2>3
  <2> QED
    BY <1>2, <2>1, <2>4, <2>5, ImageAssumption DEF Stated, Counted
<1> QED
  BY <1>1, <1>2

(* Supported, engine by engine                                              *)
LEMMA Matrix ==
    /\ Supported("postgres") = {<<n>> : n \in 12..18}
    /\ Supported("mysql") = {<<5, 7>>, <<8, 0>>, <<8, 4>>}
    /\ Supported("mariadb") = {<<10, 6>>, <<10, 11>>, <<11, 4>>, <<11, 8>>, <<12, 3>>}
    /\ \A e \in Engines : Supported(e) \subseteq Seq(Nat)
<1>1. Supported("postgres") = {<<n>> : n \in 12..18}
  BY DEF Supported
<1>2. Supported("mysql") = {<<5, 7>>, <<8, 0>>, <<8, 4>>}
  BY DEF Supported
<1>3. Supported("mariadb") = {<<10, 6>>, <<10, 11>>, <<11, 4>>, <<11, 8>>, <<12, 3>>}
  BY DEF Supported
<1>4. \A n \in 12..18 : <<n>> \in Seq(Nat)
  OBVIOUS
<1>5. /\ <<5, 7>> \in Seq(Nat) /\ <<8, 0>> \in Seq(Nat) /\ <<8, 4>> \in Seq(Nat)
      /\ <<10, 6>> \in Seq(Nat) /\ <<10, 11>> \in Seq(Nat) /\ <<11, 4>> \in Seq(Nat)
      /\ <<11, 8>> \in Seq(Nat) /\ <<12, 3>> \in Seq(Nat)
  OBVIOUS
<1>6. ASSUME NEW e \in Engines PROVE Supported(e) \subseteq Seq(Nat)
  <2>1. CASE e = "postgres"
    BY <1>1, <1>4, <2>1
  <2>2. CASE e = "mysql"
    BY <1>2, <1>5, <2>2
  <2>3. CASE e = "mariadb"
    BY <1>3, <1>5, <2>3
  <2> QED
    BY <2>1, <2>2, <2>3 DEF Engines
<1> QED
  BY <1>1, <1>2, <1>3, <1>6

(* A supported series, and the profile it selects, are not None.            *)
LEMMA Profile ==
    ASSUME NEW e \in Engines, NEW s \in Supported(e)
    PROVE  /\ ProfileFor(e, s) # None
           /\ ProfileFor(e, s).engine = e /\ ProfileFor(e, s).series = s
           /\ ProfileFor(e, s).client \in Supported(e)
           /\ ProfileFor(e, s).legacy = (s \in {<<12>>, <<13>>, <<5, 7>>, <<10, 6>>})
           /\ s \in Seq(Nat) /\ ProfileFor(e, s).client \in Seq(Nat)
<1> DEFINE p == ProfileFor(e, s)
<1>1. s \in Seq(Nat) /\ \A t \in Supported(e) : t \in Seq(Nat)
  BY Matrix
<1>2. p = [engine |-> e, series |-> s,
           client |-> IF e = "mysql" /\ s = <<5, 7>> THEN <<8, 0>> ELSE s,
           legacy |-> s \in {<<12>>, <<13>>, <<5, 7>>, <<10, 6>>}]
  BY DEF ProfileFor
<1>3. p.client \in Supported(e)
  <2>1. CASE e = "mysql" /\ s = <<5, 7>>
    BY <1>2, <2>1, Matrix
  <2>2. CASE ~(e = "mysql" /\ s = <<5, 7>>)
    BY <1>2, <2>2
  <2> QED
    BY <2>1, <2>2
<1>4. p # None
  <2>1. (s \in {<<12>>, <<13>>, <<5, 7>>, <<10, 6>>}) \in BOOLEAN
    OBVIOUS
  <2>2. p \in [engine : Engines, series : Seq(Nat), client : Seq(Nat), legacy : BOOLEAN]
    BY <1>1, <1>2, <1>3, <2>1
  <2> QED
    BY <2>2, NoneAssumption
<1> QED
  BY <1>1, <1>2, <1>3, <1>4

(* The rows of the table for a server are the client profileFor takes.      *)
LEMMA Table ==
    ASSUME NEW e \in Engines, NEW s
    PROVE  {r[3] : r \in {q \in Compatibility : q[1] = e /\ q[2] = s}}
             = IF s \in Supported(e) THEN {ProfileFor(e, s).client} ELSE {}
<1> DEFINE client(t) == IF e = "mysql" /\ t = <<5, 7>> THEN <<8, 0>> ELSE t
<1>1. \A t \in Supported(e) : ProfileFor(e, t).client = client(t)
  BY DEF ProfileFor
<1>2. ASSUME NEW q \in Compatibility, q[1] = e
      PROVE  q[2] \in Supported(e) /\ q[3] = client(q[2])
  <2>1. CASE q \in {<<"postgres", <<n>>, <<n>> >> : n \in 12..18}
    <3>1. PICK n \in 12..18 : q = <<"postgres", <<n>>, <<n>> >>
      BY <2>1
    <3>2. q[1] = "postgres" /\ q[2] = <<n>> /\ q[3] = <<n>>
      BY <3>1
    <3> QED
      BY <1>2, <3>2, Matrix
  <2>2. CASE q \in {<<"mysql", <<5, 7>>, <<8, 0>> >>, <<"mysql", <<8, 0>>, <<8, 0>> >>,
                   <<"mysql", <<8, 4>>, <<8, 4>> >>}
    <3>1. /\ q[1] = "mysql"
          /\ \/ q[2] = <<5, 7>> /\ q[3] = <<8, 0>>
             \/ q[2] = <<8, 0>> /\ q[3] = <<8, 0>>
             \/ q[2] = <<8, 4>> /\ q[3] = <<8, 4>>
      BY <2>2
    <3>2. <<8, 0>> # <<5, 7>> /\ <<8, 4>> # <<5, 7>>
      OBVIOUS
    <3> QED
      BY <1>2, <3>1, <3>2, Matrix
  <2>3. CASE q \in {<<"mariadb", v, v>> : v \in {<<10, 6>>, <<10, 11>>, <<11, 4>>, <<11, 8>>, <<12, 3>>}}
    <3>1. PICK v \in Supported("mariadb") : q = <<"mariadb", v, v>>
      BY <2>3, Matrix
    <3>2. q[1] = "mariadb" /\ q[2] = v /\ q[3] = v
      BY <3>1
    <3> QED
      BY <1>2, <3>2
  <2> QED
    BY <2>1, <2>2, <2>3 DEF Compatibility
<1>3. ASSUME s \in Supported(e) PROVE <<e, s, client(s)>> \in Compatibility
  <2>1. CASE e = "postgres"
    BY <1>3, <2>1, Matrix DEF Compatibility
  <2>2. CASE e = "mysql"
    <3>1. <<8, 0>> # <<5, 7>> /\ <<8, 4>> # <<5, 7>>
      OBVIOUS
    <3> QED
      BY <1>3, <2>2, <3>1, Matrix DEF Compatibility
  <2>3. CASE e = "mariadb"
    BY <1>3, <2>3, Matrix DEF Compatibility
  <2> QED
    BY <2>1, <2>2, <2>3 DEF Engines
<1>4. CASE s \in Supported(e)
  <2> DEFINE row == <<e, s, client(s)>>
  <2>1. row[1] = e /\ row[2] = s /\ row[3] = client(s) /\ row \in Compatibility
    BY <1>3, <1>4
  <2> HIDE DEF row, client
  <2> QED
    BY <1>1, <1>2, <1>4, <2>1
<1>5. CASE s \notin Supported(e)
  BY <1>2, <1>5
<1> QED
  BY <1>4, <1>5

-----------------------------------------------------------------------------
(* What is refused and what is recorded                                     *)

(* The check of one tool, as CheckTool makes it                             *)
Right(im, p, name) ==
    LET place == <<p.engine, p.client, name>>
    IN  /\ place \in DOMAIN im
        /\ Stated(im[place].says) # None
        /\ SeriesOf(p.engine, Stated(im[place].says)) = p.client

(* A tool passes exactly if it is what its directory says.                  *)
LEMMA RightIsReal ==
    ASSUME image \in Images, NEW e \in Engines, NEW s \in Supported(e), NEW name
    PROVE  LET p == ProfileFor(e, s)
           IN  /\ Right(image, p, name) <=> Really(e, p.client, name) = p.client
               /\ Right(image, p, name) =>
                    LET place == <<e, p.client, name>>
                    IN  Stated(image[place].says) = image[place].version
<1> DEFINE p == ProfileFor(e, s)
           place == <<e, p.client, name>>
<1> SUFFICES /\ Right(image, p, name) <=> Really(e, p.client, name) = p.client
             /\ Right(image, p, name) => Stated(image[place].says) = image[place].version
  OBVIOUS
<1>1. /\ p.engine = e /\ p.client \in Supported(e) /\ p.client # None
  BY Profile, NoneAssumption
<1> HIDE DEF p
<1>2. CASE place \notin DOMAIN image
  BY <1>1, <1>2 DEF Right, Really
<1>3. CASE place \in DOMAIN image
  <2> DEFINE counted == Counted(image[place].says)
  <2>1. /\ counted = {} => /\ Stated(image[place].says) = None
                           /\ SeriesOf(e, image[place].version) \notin Supported(e)
        /\ counted # {} => Stated(image[place].says) = image[place].version
        /\ image[place].version # None
    BY <1>3, StatedVersion, ImageAssumption, NoneAssumption DEF Counted
  <2>2. /\ Really(e, p.client, name) = SeriesOf(e, image[place].version)
        /\ place = <<p.engine, p.client, name>>
    BY <1>1, <1>3 DEF Really
  <2> HIDE DEF place, counted
  <2>3. CASE counted = {}
    BY <1>1, <1>3, <2>1, <2>2, <2>3 DEF Right
  <2>4. CASE counted # {}
    BY <1>1, <1>3, <2>1, <2>2, <2>4 DEF Right
  <2> QED
    BY <2>3, <2>4
<1> QED
  BY <1>2, <1>3

(* What a form and a server must agree on, whatever is installed            *)
Agreed(d, s) ==
    /\ s.family = d.engine
    /\ d.tls => s.tls
    /\ d.engine # "postgres" => s.innodb
    /\ SeriesOf(d.engine, s.version) \in Supported(d.engine)

Chose(d, s) == ProfileFor(d.engine, SeriesOf(d.engine, s.version))

(* Compatible, as the checks of Prepare see it                              *)
LEMMA CompatibleMeans ==
    ASSUME image \in Images, NEW c \in Calls, call[c].d \in Forms, call[c].probed \in Servers
    PROVE  Compatible(c) <=> /\ Agreed(call[c].d, call[c].probed)
                             /\ \A k \in 1..3 : Right(image, Chose(call[c].d, call[c].probed),
                                                     Tools(call[c].d.engine)[k])
<1> DEFINE d == call[c].d
           s == call[c].probed
           e == d.engine
           series == SeriesOf(e, s.version)
           clients == {r[3] : r \in {q \in Compatibility : q[1] = e /\ q[2] = series}}
<1>1. e \in Engines
  BY FormAssumption
<1>2. clients = IF series \in Supported(e) THEN {Chose(d, s).client} ELSE {}
  <2> HIDE DEF series, e
  <2>1. clients = IF series \in Supported(e) THEN {ProfileFor(e, series).client} ELSE {}
    BY <1>1, Table
  <2> QED
    BY <2>1 DEF Chose, series, e
<1>3. ASSUME s.family = e
      PROVE  Compatible(c) <=> /\ d.tls => s.tls
                               /\ e # "postgres" => s.innodb
                               /\ \E client \in clients :
                                    \A k \in 1..3 : Really(e, client, Tools(e)[k]) = client
  BY <1>3 DEF Compatible
<1>4. Compatible(c) => s.family = e
  BY DEF Compatible
<1>5. ASSUME series \in Supported(e), NEW k \in 1..3
      PROVE  Right(image, Chose(d, s), Tools(e)[k])
               <=> Really(e, Chose(d, s).client, Tools(e)[k]) = Chose(d, s).client
  <2> HIDE DEF series, e
  <2> QED
    BY <1>1, <1>5, RightIsReal DEF Chose, series, e
<1> HIDE DEF clients
<1> QED
  BY <1>2, <1>3, <1>4, <1>5 DEF Agreed

(* Where the server answers, Prepare accepts it exactly if they agree.      *)
LEMMA Admits ==
    ASSUME NEW d \in Forms, server \in Servers, Answers(d)
    PROVE  /\ Accepted(d) <=> Agreed(d, server)
           /\ Agreed(d, server) =>
                /\ ProfileFor(d.engine, ServerSeries(d.engine, server)) = Chose(d, server)
                /\ Reported(server) = server.version
<1>1. /\ d.engine \in Engines /\ server.family \in Engines
      /\ server.mariadb = (server.family = "mariadb")
      /\ d.tls \in BOOLEAN /\ server.tls \in BOOLEAN /\ server.innodb \in BOOLEAN
  BY FormAssumption, ServerAssumption
<1>2. Reported(server) = server.version
  BY ServerAssumption DEF Reported, Raw
<1>3. /\ (d.engine = "postgres") = (server.family = "postgres")
      /\ d.tls /\ d.engine # "mariadb" => server.tls
  BY DEF Answers
<1>4. Accepted(d) => Agreed(d, server)
  <2> SUFFICES ASSUME Accepted(d) PROVE Agreed(d, server)
    OBVIOUS
  <2>1. /\ ServerSeries(d.engine, server) # None
        /\ ProfileFor(d.engine, ServerSeries(d.engine, server)) # None
        /\ d.engine # "postgres" => server.innodb /\ (d.tls => server.tls)
    BY DEF Accepted
  <2>2. server.family = d.engine
    <3>1. ~((d.engine = "mysql" /\ server.mariadb) \/ (d.engine = "mariadb" /\ ~server.mariadb))
      BY <2>1 DEF ServerSeries
    <3> QED
      BY <1>1, <1>3, <3>1 DEF Engines
  <2>3. SeriesOf(d.engine, server.version) \in Supported(d.engine)
    BY <1>2, <2>1 DEF ServerSeries, ProfileFor
  <2> QED
    BY <1>1, <1>3, <2>1, <2>2, <2>3 DEF Agreed, Engines
<1>5. ASSUME Agreed(d, server)
      PROVE  /\ ServerSeries(d.engine, server) = SeriesOf(d.engine, server.version)
             /\ Accepted(d)
  <2>1. ServerSeries(d.engine, server) = SeriesOf(d.engine, server.version)
    BY <1>1, <1>2, <1>5 DEF ServerSeries, Agreed
  <2>2. /\ SeriesOf(d.engine, server.version) # None
        /\ ProfileFor(d.engine, SeriesOf(d.engine, server.version)) # None
    BY <1>1, <1>5, Profile, NoneAssumption DEF Agreed
  <2> QED
    BY <1>5, <2>1, <2>2 DEF Accepted, Agreed
<1> QED
  BY <1>2, <1>4, <1>5 DEF Chose

Chosen == {"checking", "prepared", "recorded"} \cup DumpSteps

(* The tools of a profile after the first n                                 *)
Remaining(e, n) == [k \in 1..(3 - n) |-> Tools(e)[n + k]]

(* The version the tool states that dumps                                   *)
Dumper(im, e, p) == Stated(im[<<e, p.client, Tools(e)[2]>>].says)

(* What a call knows: who answered, that it agrees with the form, which     *)
(* tools have passed, and why it was refused.                               *)
CallInv(k, im) ==
    LET e == k.d.engine
        p == Chose(k.d, k.probed)
    IN  /\ {"step", "d", "probed", "profile", "left", "info"} \subseteq DOMAIN k
        /\ k.step \in Steps
        /\ k.d \in Forms \cup {None}
        /\ k.probed \in Servers \cup {None}
        /\ k.step # "idle" => k.d \in Forms
        /\ k.step \in Chosen \cup {"refused"} => k.probed \in Servers
        /\ k.step \in Chosen => Agreed(k.d, k.probed) /\ k.profile = p
        /\ k.step = "checking" => \E n \in 0..3 :
             /\ k.left = Remaining(e, n)
             /\ \A j \in 1..n : Right(im, p, Tools(e)[j])
             /\ n >= 2 => k.info = Dumper(im, e, p)
        /\ k.step \in Chosen \ {"checking"} =>
             /\ k.left = <<>>
             /\ \A j \in 1..3 : Right(im, p, Tools(e)[j])
             /\ k.info = [server |-> Raw(k.probed), client |-> Dumper(im, e, p),
                          profile |-> <<e, p.series>>, legacy |-> p.legacy]
        /\ k.step = "refused" =>
             ~(Agreed(k.d, k.probed) /\ \A j \in 1..3 : Right(im, p, Tools(e)[j]))

KnownInv == /\ image \in Images /\ server \in Servers
            /\ call = [c \in Calls |-> call[c]]
            /\ \A c \in Calls : CallInv(call[c], image)

LEMMA KnownCall ==
    ASSUME KnownInv, NEW c \in Calls, NEW new, CallInv(new, image),
           call' = [call EXCEPT ![c] = new], UNCHANGED <<image, server>>
    PROVE  KnownInv'
<1>1. \A e \in Calls : call'[e] = new \/ call'[e] = call[e]
  BY DEF KnownInv
<1>2. \A e \in Calls : CallInv(call'[e], image')
  BY <1>1 DEF KnownInv
<1> QED
  BY <1>2 DEF KnownInv

LEMMA IdleKnown == ASSUME NEW im PROVE CallInv(Idle, im)
  BY DEF CallInv, Chosen

(* The tools are checked in the order of Tools, each once.                  *)
LEMMA RemainingNext ==
    ASSUME NEW e \in Engines, NEW n \in 0..3
    PROVE  /\ Remaining(e, n) = <<>> <=> n = 3
           /\ n < 3 => /\ Head(Remaining(e, n)) = Tools(e)[n + 1]
                       /\ Tail(Remaining(e, n)) = Remaining(e, n + 1)
<1> DEFINE T == Tools(e)
           R(m) == [k \in 1..(3 - m) |-> T[m + k]]
           names == {T[1], T[2], T[3]}
<1>1. Remaining(e, n) = R(n) /\ Remaining(e, n + 1) = R(n + 1)
  BY DEF Remaining
<1> HIDE DEF T
<1>2. \A k \in 1..3 : T[k] \in names
  OBVIOUS
<1> HIDE DEF names
<1>3. \A m \in 0..3 : R(m) \in Seq(names) /\ Len(R(m)) = 3 - m
  BY <1>2
<1>4. R(n) = <<>> <=> n = 3
  BY <1>3
<1>5. ASSUME n < 3 PROVE Head(R(n)) = T[n + 1] /\ Tail(R(n)) = R(n + 1)
  <2>1. Head(R(n)) = T[n + 1]
    BY <1>3, <1>5
  <2>2. Tail(R(n)) \in Seq(names) /\ Len(Tail(R(n))) = 3 - (n + 1)
    BY <1>3, <1>5
  <2>3. \A k \in 1..(3 - (n + 1)) : Tail(R(n))[k] = R(n)[k + 1] /\ R(n)[k + 1] = T[n + (k + 1)]
    BY <1>3, <1>5
  <2>4. \A k \in 1..(3 - (n + 1)) : Tail(R(n))[k] = R(n + 1)[k]
    BY <2>3
  <2>5. n + 1 \in 0..3
    BY <1>5
  <2> QED
    BY <1>3, <2>1, <2>2, <2>4, <2>5
<1> QED
  BY <1>1, <1>4, <1>5 DEF T

(* The one tool of an engine that dumps                                     *)
LEMMA Recorder ==
    ASSUME NEW e \in Engines, NEW s \in Supported(e), NEW n \in 1..3
    PROVE  Records(ProfileFor(e, s), Tools(e)[n]) <=> n = 2
<1>1. ProfileFor(e, s).engine = e
  BY Profile
<1>2. Tools(e)[n] = Tools(e)[2] <=> n = 2
  BY DEF Tools, Engines
<1> QED
  BY <1>1, <1>2 DEF Records

LEMMA KnownStep == KnownInv /\ [Next]_vars => KnownInv'
<1> SUFFICES ASSUME KnownInv, [Next]_vars PROVE KnownInv'
  OBVIOUS
<1>1. ASSUME NEW c \in Calls, NEW d \in Forms, Begin(c, d) PROVE KnownInv'
  <2> DEFINE new == [Idle EXCEPT !.step = "created", !.d = d]
  <2>1. /\ {"step", "d", "probed", "profile", "left", "info"} \subseteq DOMAIN new
        /\ new.step = "created" /\ new.d = d /\ new.probed = None
    OBVIOUS
  <2>2. CallInv(new, image)
    BY <2>1 DEF CallInv, Chosen
  <2>3. call' = [call EXCEPT ![c] = new] /\ UNCHANGED <<image, server>>
    BY <1>1 DEF Begin
  <2> HIDE DEF new
  <2> QED
    BY <2>2, <2>3, KnownCall
<1>2. ASSUME NEW c \in Calls, NEW step, call[c].step # "idle",
             call' = [call EXCEPT ![c].step = step], UNCHANGED <<image, server>>,
             \/ call[c].step = "created" /\ step = "written"
             \/ call[c].step = "prepared" /\ step = "recorded"
             \/ call[c].step = "recorded" /\ step = "reopened"
             \/ call[c].step = "reopened" /\ step = "dumping"
      PROVE  KnownInv'
  <2> DEFINE new == [call[c] EXCEPT !.step = step]
  <2>1. CallInv(new, image)
    BY <1>2 DEF KnownInv, CallInv, Chosen
  <2>2. call' = [call EXCEPT ![c] = new]
    BY <1>2
  <2> HIDE DEF new
  <2> QED
    BY <1>2, <2>1, <2>2, KnownCall
<1>3. ASSUME NEW c \in Calls, call' = [call EXCEPT ![c] = Idle], UNCHANGED <<image, server>>
      PROVE  KnownInv'
  BY <1>3, IdleKnown, KnownCall
<1>4. ASSUME NEW c \in Calls, Probe(c) PROVE KnownInv'
  <2> DEFINE d == call[c].d
             e == d.engine
             p == ProfileFor(e, ServerSeries(e, server))
  <2>1. /\ d \in Forms /\ server \in Servers /\ Answers(d) /\ UNCHANGED <<image, server>>
        /\ {"step", "d", "probed", "profile", "left", "info"} \subseteq DOMAIN call[c]
    BY <1>4 DEF Probe, KnownInv, CallInv
  <2>2. CASE Accepted(d)
    <3> DEFINE new == [call[c] EXCEPT !.step = "checking", !.probed = server,
                                      !.profile = p, !.left = Tools(e)]
    <3>1. call' = [call EXCEPT ![c] = new]
      BY <1>4, <2>2 DEF Probe
    <3>2. /\ DOMAIN new = DOMAIN call[c]
          /\ new.step = "checking" /\ new.d = d /\ new.probed = server
          /\ new.profile = Chose(d, server) /\ new.left = Tools(e)
      <4>1. p = Chose(d, server)
        BY <2>1, <2>2, Admits
      <4> HIDE DEF p
      <4> QED
        BY <2>1, <4>1
    <3>3. Tools(e) = Remaining(e, 0)
      BY <2>1, FormAssumption DEF Tools, Remaining, Engines
    <3>4. Agreed(d, server)
      BY <2>1, <2>2, Admits
    <3> HIDE DEF new, d, e
    <3>5. CallInv(new, image)
      <4>1. \A j \in 1..0 : Right(image, Chose(d, server), Tools(e)[j])
        OBVIOUS
      <4> QED
        BY <2>1, <3>2, <3>3, <3>4, <4>1 DEF CallInv, Chosen, e
    <3> QED
      BY <2>1, <3>1, <3>5, KnownCall
  <2>3. CASE ~Accepted(d)
    <3> DEFINE new == [call[c] EXCEPT !.step = "refused", !.probed = server]
    <3>1. call' = [call EXCEPT ![c] = new]
      BY <1>4, <2>3 DEF Probe
    <3>2. /\ DOMAIN new = DOMAIN call[c]
          /\ new.step = "refused" /\ new.d = d /\ new.probed = server
      BY <2>1
    <3>3. ~Agreed(d, server)
      BY <2>1, <2>3, Admits
    <3> HIDE DEF new, d
    <3>4. CallInv(new, image)
      BY <2>1, <3>2, <3>3 DEF CallInv, Chosen
    <3> QED
      BY <2>1, <3>1, <3>4, KnownCall
  <2> QED
    BY <2>2, <2>3
<1>5. ASSUME NEW c \in Calls, CheckTool(c) PROVE KnownInv'
  <2> DEFINE k == call[c]
             e == k.d.engine
             p == Chose(k.d, k.probed)
  <2>1. /\ k.step = "checking" /\ k.d \in Forms /\ k.probed \in Servers /\ k.profile = p
        /\ Agreed(k.d, k.probed) /\ k.left # <<>> /\ UNCHANGED <<image, server>>
        /\ {"step", "d", "probed", "profile", "left", "info"} \subseteq DOMAIN k
    BY <1>5 DEF CheckTool, KnownInv, CallInv, Chosen
  <2>2. PICK n \in 0..3 : /\ k.left = Remaining(e, n)
                          /\ \A j \in 1..n : Right(image, p, Tools(e)[j])
                          /\ n >= 2 => k.info = Dumper(image, e, p)
    BY <2>1 DEF KnownInv, CallInv
  <2>3. e \in Engines /\ SeriesOf(e, k.probed.version) \in Supported(e)
    BY <2>1, FormAssumption DEF Agreed
  <2>4. /\ n \in 0..2 /\ n + 1 \in 1..3 /\ n + 1 \in 0..3
        /\ Head(k.left) = Tools(e)[n + 1] /\ Tail(k.left) = Remaining(e, n + 1)
    <3> HIDE DEF e, k
    <3> QED
      BY <2>1, <2>2, <2>3, RemainingNext
  <2>5. p.engine = e /\ (Records(p, Tools(e)[n + 1]) <=> n + 1 = 2)
    BY <2>3, <2>4, Recorder, Profile DEF Chose
  <2> DEFINE name == Tools(e)[n + 1]
             says == Stated(image[<<e, p.client, name>>].says)
             info == IF n + 1 = 2 THEN says ELSE k.info
             new  == [k EXCEPT !.left = Remaining(e, n + 1), !.info = info]
  <2>6. CASE Right(image, p, name)
    <3>1. call' = [call EXCEPT ![c].left = Tail(@),
                     ![c].info = IF Records(k.profile, Head(k.left))
                                   THEN Stated(Output(k.profile, Head(k.left))) ELSE @]
      BY <1>5, <2>1, <2>4, <2>5, <2>6 DEF CheckTool, Right, Installed, Output
    <3>2. Stated(Output(k.profile, Head(k.left))) = says
      BY <2>1, <2>4, <2>5 DEF Output
    <3>3. call' = [call EXCEPT ![c] = new]
      BY <2>1, <2>4, <2>5, <3>1, <3>2
    <3>4. /\ DOMAIN new = DOMAIN k
          /\ new.step = "checking" /\ new.d = k.d /\ new.probed = k.probed
          /\ new.profile = k.profile /\ new.left = Remaining(e, n + 1) /\ new.info = info
      BY <2>1
    <3>5. \A j \in 1..(n + 1) : Right(image, p, Tools(e)[j])
      BY <2>2, <2>4, <2>6
    <3>6. n + 1 >= 2 => info = Dumper(image, e, p)
      BY <2>2, <2>4 DEF Dumper
    <3> HIDE DEF new, info, p
    <3>7. CallInv(new, image)
      BY <2>1, <2>4, <3>4, <3>5, <3>6 DEF CallInv, Chosen, p
    <3> QED
      BY <2>1, <3>3, <3>7, KnownCall
  <2>7. CASE ~Right(image, p, name)
    <3> DEFINE gone == [k EXCEPT !.step = "refused"]
    <3>1. call' = [call EXCEPT ![c] = gone]
      BY <1>5, <2>1, <2>4, <2>5, <2>7 DEF CheckTool, Right, Installed, Output, Goto
    <3>2. /\ DOMAIN gone = DOMAIN k
          /\ gone.step = "refused" /\ gone.d = k.d /\ gone.probed = k.probed
      BY <2>1
    <3>3. ~ \A j \in 1..3 : Right(image, p, Tools(e)[j])
      BY <2>4, <2>7
    <3> HIDE DEF gone, p
    <3>4. CallInv(gone, image)
      BY <2>1, <3>2, <3>3 DEF CallInv, Chosen, p
    <3> QED
      BY <2>1, <3>1, <3>4, KnownCall
  <2> QED
    BY <2>6, <2>7
<1>6. ASSUME NEW c \in Calls, Prepared(c) PROVE KnownInv'
  <2> DEFINE k == call[c]
             e == k.d.engine
             p == Chose(k.d, k.probed)
             info == [server |-> Raw(k.probed), client |-> k.info,
                      profile |-> <<e, k.profile.series>>, legacy |-> k.profile.legacy]
             new == [k EXCEPT !.step = "prepared", !.info = info]
  <2>1. /\ k.step = "checking" /\ k.d \in Forms /\ k.probed \in Servers /\ k.profile = p
        /\ Agreed(k.d, k.probed) /\ k.left = <<>> /\ UNCHANGED <<image, server>>
        /\ {"step", "d", "probed", "profile", "left", "info"} \subseteq DOMAIN k
        /\ call' = [call EXCEPT ![c] = new]
    BY <1>6 DEF Prepared, KnownInv, CallInv, Chosen
  <2>2. PICK n \in 0..3 : /\ k.left = Remaining(e, n)
                          /\ \A j \in 1..n : Right(image, p, Tools(e)[j])
                          /\ n >= 2 => k.info = Dumper(image, e, p)
    BY <2>1 DEF KnownInv, CallInv
  <2>3. n = 3
    <3>1. e \in Engines
      BY <2>1, FormAssumption
    <3> HIDE DEF e, k
    <3> QED
      BY <2>1, <2>2, <3>1, RemainingNext
  <2>4. /\ DOMAIN new = DOMAIN k
        /\ new.step = "prepared" /\ new.d = k.d /\ new.probed = k.probed
        /\ new.profile = k.profile /\ new.left = k.left /\ new.info = info
    BY <2>1
  <2>5. info = [server |-> Raw(k.probed), client |-> Dumper(image, e, p),
                profile |-> <<e, p.series>>, legacy |-> p.legacy]
    BY <2>1, <2>2, <2>3
  <2> HIDE DEF new, info, p
  <2>6. CallInv(new, image)
    BY <2>1, <2>2, <2>3, <2>4, <2>5 DEF CallInv, Chosen, p
  <2> QED
    BY <2>1, <2>6, KnownCall
<1>7. ASSUME call' = [c \in Calls |-> Idle] \/ UNCHANGED call,
             server' \in Servers, UNCHANGED image
      PROVE  KnownInv'
  <2>1. \A c \in Calls : CallInv(call'[c], image')
    BY <1>7, IdleKnown DEF KnownInv
  <2> QED
    BY <1>7, <2>1 DEF KnownInv
<1>8. CASE \E c \in Calls : \/ WriteCredentials(c) \/ Record(c) \/ BeginDump(c)
                           \/ Answer(c) \/ EndDump(c) \/ Fail(c)
  BY <1>2, <1>3, <1>8 DEF WriteCredentials, Record, BeginDump, Goto, Answer, EndDump, Fail
<1>9. CASE Kill \/ NewContainer \/ ChangeServer \/ UNCHANGED vars
  BY <1>7, <1>9 DEF Kill, NewContainer, ChangeServer, vars, KnownInv
<1> QED
  BY <1>1, <1>4, <1>5, <1>6, <1>8, <1>9 DEF Next

LEMMA Known == Spec => []KnownInv
<1>1. Init => KnownInv
  BY IdleKnown DEF Init, KnownInv
<1> QED
  BY <1>1, KnownStep, PTL DEF Spec

(* The README's table is what the code does: whatever the servers and the   *)
(* tools print, however many calls run and whenever a server is replaced,   *)
(* what it lists is never refused and nothing else gets past Prepare.       *)
THEOREM RefusedExactly == Spec => []RefusesExactly
<1>1. ASSUME KnownInv, NEW c \in Calls
      PROVE  /\ call[c].step = "refused" => ~Compatible(c)
             /\ call[c].step \in {"prepared", "recorded"} \cup DumpSteps => Compatible(c)
  <2>1. CallInv(call[c], image)
    BY <1>1 DEF KnownInv
  <2>2. CASE call[c].step = "refused"
    BY <1>1, <2>1, <2>2, CompatibleMeans DEF CallInv, KnownInv
  <2>3. CASE call[c].step \in {"prepared", "recorded"} \cup DumpSteps
    BY <1>1, <2>1, <2>3, CompatibleMeans DEF CallInv, Chosen, KnownInv
  <2> QED
    BY <2>2, <2>3
<1>2. KnownInv => RefusesExactly
  BY <1>1 DEF RefusesExactly
<1> QED
  BY <1>2, Known, PTL

(* What is recorded before a dump is the version as the probed server prints *)
(* it, the series that server has and the version of the tool that dumps,   *)
(* whichever tools a directory holds.                                       *)
THEOREM RecordedTrue == Spec => []RecordedIsUsed
<1>1. ASSUME KnownInv, NEW c \in Calls, call[c].step \in {"recorded"} \cup DumpSteps
      PROVE  LET i == call[c].info
                 p == call[c].profile
                 s == call[c].probed
             IN  /\ i.server = Raw(s)
                 /\ i.profile = <<s.family, SeriesOf(s.family, s.version)>>
                 /\ i.client = image[<<p.engine, p.client, Tools(p.engine)[2]>>].version
                 /\ i.legacy = (i.profile \in {<<"postgres", <<12>> >>, <<"postgres", <<13>> >>,
                                               <<"mysql", <<5, 7>> >>, <<"mariadb", <<10, 6>> >>})
  <2> DEFINE d == call[c].d
             s == call[c].probed
             e == d.engine
             v == SeriesOf(e, s.version)
             p == ProfileFor(e, v)
             i == call[c].info
  <2>1. /\ d \in Forms /\ s \in Servers /\ Agreed(d, s) /\ call[c].profile = p
        /\ \A j \in 1..3 : Right(image, p, Tools(e)[j])
        /\ i.server = Raw(s) /\ i.client = Dumper(image, e, p)
        /\ i.profile = <<e, p.series>> /\ i.legacy = p.legacy
    <3>1. CallInv(call[c], image)
      BY <1>1 DEF KnownInv
    <3> QED
      BY <1>1, <3>1 DEF CallInv, Chosen, Chose
  <2>2. e \in Engines /\ v \in Supported(e) /\ s.family = e /\ image \in Images
    BY <1>1, <2>1, FormAssumption DEF Agreed, KnownInv
  <2>3. SeriesOf(s.family, s.version) = v
    BY <2>2
  <2> HIDE DEF v, e, d, s, i
  <2>4. /\ p.engine = e /\ p.series = v
        /\ p.legacy = (v \in {<<12>>, <<13>>, <<5, 7>>, <<10, 6>>})
    BY <2>2, Profile
  <2>5. Dumper(image, e, p) = image[<<e, p.client, Tools(e)[2]>>].version
    BY <2>1, <2>2, RightIsReal DEF Dumper
  <2>6. (v \in {<<12>>, <<13>>, <<5, 7>>, <<10, 6>>})
          = (<<e, v>> \in {<<"postgres", <<12>> >>, <<"postgres", <<13>> >>,
                          <<"mysql", <<5, 7>> >>, <<"mariadb", <<10, 6>> >>})
    <3>1. CASE e = "postgres"
      BY <2>2, <3>1, Matrix
    <3>2. CASE e = "mysql"
      BY <2>2, <3>2, Matrix
    <3>3. CASE e = "mariadb"
      <4>1. v \in {<<10, 6>>, <<10, 11>>, <<11, 4>>, <<11, 8>>, <<12, 3>>}
        BY <2>2, <3>3, Matrix
      <4>2. v \in {<<12>>, <<13>>, <<5, 7>>, <<10, 6>>} <=> v = <<10, 6>>
        BY <4>1
      <4>3. <<e, v>> \in {<<"postgres", <<12>> >>, <<"postgres", <<13>> >>,
                          <<"mysql", <<5, 7>> >>, <<"mariadb", <<10, 6>> >>} <=> v = <<10, 6>>
        BY <3>3
      <4> QED
        BY <4>2, <4>3
    <3> QED
      BY <2>2, <3>1, <3>2, <3>3 DEF Engines
  <2> HIDE DEF p
  <2> QED
    BY <2>1, <2>2, <2>3, <2>4, <2>5, <2>6 DEF s, i
<1>2. KnownInv => RecordedIsUsed
  BY <1>1 DEF RecordedIsUsed
<1> QED
  BY <1>2, Known, PTL

(* The types hold for any number of calls, servers and images.              *)
THEOREM TypeCorrect == Spec => []TypeOK
<1> DEFINE Rest == changes \in 0..MaxChanges /\ orphans \subseteq Calls \X {"prepare", "dump"}
<1>1. Init => Rest
  BY BoundAssumption DEF Init
<1>2. ASSUME Inv, Rest, [Next]_vars PROVE Rest'
  <2>1. CASE UNCHANGED <<changes, orphans>>
    BY <1>2, <2>1
  <2>2. CASE Kill \/ NewContainer
    BY <1>2, <2>2 DEF Kill, NewContainer, Inv, FilesMatch
  <2>3. CASE ChangeServer
    BY <1>2, <2>3, BoundAssumption DEF ChangeServer
  <2> QED
    BY <1>2, <2>1, <2>2, <2>3 DEF Next, Begin, WriteCredentials, Probe, CheckTool, Prepared,
         Answer, Record, BeginDump, EndDump, Fail, vars
<1>3. ASSUME KnownInv, NEW c \in Calls,
             call[c].step \in {"checking", "prepared", "recorded"} \cup DumpSteps
      PROVE  call[c].profile # None /\ Len(call[c].left) <= 3
  <2> DEFINE k == call[c]
             e == k.d.engine
  <2>1. /\ k.d \in Forms /\ Agreed(k.d, k.probed) /\ k.profile = Chose(k.d, k.probed)
        /\ k.left = <<>> \/ \E n \in 0..3 : k.left = Remaining(e, n)
    BY <1>3 DEF KnownInv, CallInv, Chosen
  <2>2. \A n \in 0..3 : Len(Remaining(e, n)) <= 3
    BY DEF Remaining
  <2>3. k.profile # None
    BY <2>1, FormAssumption, Profile DEF Agreed, Chose
  <2> QED
    BY <2>1, <2>2, <2>3
<1>4. Inv /\ KnownInv /\ Rest => TypeOK
  <2>1. ASSUME KnownInv, NEW c \in Calls
        PROVE  /\ call[c].step \in Steps /\ call[c].d \in Forms \cup {None}
               /\ call[c].probed \in Servers \cup {None}
    BY <2>1 DEF KnownInv, CallInv
  <2> QED
    BY <1>3, <2>1 DEF TypeOK, KnownInv, Inv, FilesMatch
<1> QED
  BY <1>1, <1>2, <1>4, InvInit, InvStep, Known, PTL DEF Spec

=============================================================================
