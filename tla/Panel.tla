-------------------------------- MODULE Panel --------------------------------
(***************************************************************************)
(* Who decides that a database gets a backup: the scheduler tick           *)
(* (Worker.Schedule) and the handlers of the panel that save, pause,       *)
(* resume, delete and enqueue (server.go, Store.Save, Store.Enqueue).      *)
(*                                                                         *)
(* SQLite has one connection (store.go:31): a transaction or a statement   *)
(* is one step. What a handler or a tick read before it is a copy that may *)
(* be stale by then, so reading and writing are steps of their own. cron   *)
(* starts a tick although the last one still runs: ticks overlap.          *)
(***************************************************************************)
EXTENDS Naturals

CONSTANTS
    MaxDatabases,   \* bound: rows ever inserted
    Schedules,      \* the schedules the forms carry: [kind, every]
    Ticks,          \* bound: ticks that may overlap
    Requests,       \* bound: handlers that may overlap
    None,           \* nothing running, no row inserted yet
    Deleted,        \* the row was deleted
    Edits,          \* what the users do: subset of {"connection", "schedule", "toggle"}
    MaxTime,        \* bound: the clock
    MaxFaults       \* bound: crashes and failed transactions

ASSUME SentinelAssumption == None # Deleted
ASSUME BoundAssumption ==
    /\ MaxDatabases \in Nat /\ MaxTime \in Nat \ {0} /\ MaxFaults \in Nat
    /\ Schedules \subseteq [kind : {"clock", "interval"}, every : Nat \ {0}]
    /\ Edits \subseteq {"connection", "schedule", "toggle"}

VARIABLES
    now,        \* the clock, in the unit of the schedules
    row,        \* databases: None, Deleted or [on, sched, next]
    active,     \* databases with a queued or running run
    tick,       \* what each tick holds: None or [at, due], due the rows it read
    req,        \* what each handler holds: None or the row it will write
    phase,      \* "down", "recovering" (main before Start) or "serving"
    fired,      \* history: the latest slot a tick has served for each database
    faults      \* faults taken so far

vars == <<now, row, active, tick, req, phase, fired, faults>>

Ids        == 1..MaxDatabases
Rows       == [on : BOOLEAN, sched : Schedules, next : Nat]

ASSUME RowAssumption == None \notin Rows /\ Deleted \notin Rows

IsRow(d)   == row[d] \notin {None, Deleted}
Due(d, t)  == IsRow(d) /\ row[d].on /\ row[d].next <= t
Fault      == faults < MaxFaults /\ faults' = faults + 1

(* cron's schedules: a wall-clock time recurs at fixed points, an interval  *)
(* counts from the moment it is asked.                                      *)
NextSlot(s, t) == IF s.kind = "interval" THEN t + s.every
                  ELSE ((t \div s.every) + 1) * s.every

Init ==
    /\ now = 1
    /\ row = [d \in Ids |-> None]
    /\ active = {}
    /\ tick = [t \in Ticks |-> None]
    /\ req = [q \in Requests |-> None]
    /\ phase = "serving"
    /\ fired = [d \in Ids |-> 0]
    /\ faults = 0

-----------------------------------------------------------------------------
(* Defective variants of the steps below: what a plausible slip in the code *)
(* would do. No step uses them; each must make a run of its property fail.  *)

(* The UPDATE of the tick does not compare the slot with the one it read.   *)
FireAnySlot(t, d) ==
    LET snap == tick[t].due[d] IN
    IF IsRow(d) /\ row[d].on
    THEN /\ row' = [row EXCEPT ![d].next = NextSlot(snap.sched, tick[t].at)]
         /\ active' = active \cup {d}
         /\ fired' = [fired EXCEPT ![d] = snap.next]
    ELSE UNCHANGED <<row, active, fired>>

(* The run is inserted whatever the UPDATE matched.                         *)
FireAlways(t, d) ==
    LET snap == tick[t].due[d] IN
    /\ row' = IF IsRow(d) /\ row[d].on /\ row[d].next = snap.next
              THEN [row EXCEPT ![d].next = NextSlot(snap.sched, tick[t].at)] ELSE row
    /\ active' = active \cup {d}
    /\ fired' = [fired EXCEPT ![d] = snap.next]

(* The slot moves on from the missed one, not from the present.             *)
FireFromSlot(t, d) ==
    LET snap == tick[t].due[d] IN
    IF IsRow(d) /\ row[d].on /\ row[d].next = snap.next
    THEN /\ row' = [row EXCEPT ![d].next = NextSlot(snap.sched, snap.next)]
         /\ active' = active \cup {d}
         /\ fired' = [fired EXCEPT ![d] = snap.next]
    ELSE UNCHANGED <<row, active, fired>>

(* Save trusts the slot the handler read.                                   *)
StoredNextStale(d, f) == f.next

(* A slot is not moved on while the database still has a run.               *)
FireUnlessActive(t, d) ==
    LET snap == tick[t].due[d] IN
    IF IsRow(d) /\ row[d].on /\ row[d].next = snap.next /\ d \notin active
    THEN /\ row' = [row EXCEPT ![d].next = NextSlot(snap.sched, tick[t].at)]
         /\ active' = active \cup {d}
         /\ fired' = [fired EXCEPT ![d] = snap.next]
    ELSE UNCHANGED <<row, active, fired>>

(* The tick keeps every row of the table, whatever it holds.                *)
SnapshotUnfiltered == [d \in Ids |-> row[d]]

(* Pausing leaves the slot in the row.                                      *)
ToggledKeepingNext(old) ==
    [on |-> ~old.on, sched |-> old.sched,
     next |-> IF old.on THEN old.next ELSE NextSlot(old.sched, now)]

-----------------------------------------------------------------------------
(* The scheduler                                                            *)

(* Databases(): rows due now, as the tick will see them from here on        *)
Snapshot == [d \in {e \in Ids : Due(e, now)} |-> row[d]]

BeginTick(t) ==
    /\ phase = "serving"
    /\ tick[t] = None
    /\ \E d \in Ids : Due(d, now)
    /\ tick' = [tick EXCEPT ![t] = [at |-> now, due |-> Snapshot]]
    /\ UNCHANGED <<now, row, active, req, phase, fired, faults>>

(* One transaction: the slot moves on only if the row is still enabled with *)
(* the slot that was read, and then a run is inserted unless one is active. *)
Fire(t, d) ==
    LET snap == tick[t].due[d] IN
    IF IsRow(d) /\ row[d].on /\ row[d].next = snap.next
    THEN /\ row' = [row EXCEPT ![d].next = NextSlot(snap.sched, tick[t].at)]
         /\ active' = active \cup {d}
         /\ fired' = [fired EXCEPT ![d] = snap.next]
    ELSE UNCHANGED <<row, active, fired>>

(* The rows are visited from the highest id down.                           *)
TickStep(t) ==
    /\ tick[t] # None
    /\ \E d \in DOMAIN tick[t].due :
         LET rest == DOMAIN tick[t].due \ {d} IN
         /\ \A e \in rest : e < d
         /\ Fire(t, d)
         /\ tick' = [tick EXCEPT ![t] =
                IF rest = {} THEN None
                ELSE [at |-> @.at, due |-> [e \in rest |-> @.due[e]]]]
         /\ phase' = IF phase = "recovering" /\ rest = {} THEN "serving" ELSE phase
    /\ UNCHANGED <<now, req, faults>>

(* A failed transaction ends the tick; before Start it ends the process.    *)
TickFails(t) ==
    /\ tick[t] # None
    /\ Fault
    /\ tick' = [tick EXCEPT ![t] = None]
    /\ phase' = IF phase = "recovering" THEN "down" ELSE phase
    /\ UNCHANGED <<now, row, active, req, fired>>

-----------------------------------------------------------------------------
(* The handlers                                                             *)

(* submitted: the slot the form gets from the row it read, 0 for a new one  *)
SubmittedNext(old, f) ==
    LET same == old # None /\ old.on = f.on /\ old.sched = f.sched
    IN  IF ~f.on THEN 0
        ELSE IF same /\ old.next # 0 THEN old.next ELSE NextSlot(f.sched, now)

(* Which forms the users of a run of the model send over the row they see   *)
Sends(old, f) == \/ "schedule" \in Edits
                 \/ old.on = f.on /\ old.sched = f.sched

ReadSave(q, d, f) ==
    /\ phase = "serving"
    /\ req[q] = None
    /\ IsRow(d)
    /\ Sends(row[d], f)
    /\ req' = [req EXCEPT ![q] =
          [kind |-> "save", id |-> d, on |-> f.on, sched |-> f.sched,
           next |-> SubmittedNext(row[d], f)]]
    /\ UNCHANGED <<now, row, active, tick, phase, fired, faults>>

(* A form without an id: nothing is read.                                   *)
ReadNew(q, f) ==
    /\ phase = "serving"
    /\ req[q] = None
    /\ req' = [req EXCEPT ![q] =
          [kind |-> "save", id |-> 0, on |-> f.on, sched |-> f.sched,
           next |-> SubmittedNext(None, f)]]
    /\ UNCHANGED <<now, row, active, tick, phase, fired, faults>>

(* Save keeps the slot of the row when the schedule is the one in the form. *)
StoredNext(d, f) ==
    IF row[d].on = f.on /\ row[d].sched = f.sched THEN row[d].next ELSE f.next

(* Store.Save: a new row, a rewritten row, or an error for a deleted one    *)
WriteSave(q) ==
    /\ req[q] # None /\ req[q].kind = "save"
    /\ LET f == req[q]
           Put(d, n) == row' = [row EXCEPT ![d] = [on |-> f.on, sched |-> f.sched, next |-> n]]
       IN  \/ \E d \in Ids : /\ f.id = 0 /\ row[d] = None
                             /\ \A e \in Ids : e < d => row[e] # None
                             /\ Put(d, f.next)
           \/ /\ f.id = 0 /\ \A e \in Ids : row[e] # None    \* no id left: the bound
              /\ UNCHANGED row
           \/ f.id # 0 /\ IsRow(f.id) /\ Put(f.id, StoredNext(f.id, f))
           \/ f.id # 0 /\ ~IsRow(f.id) /\ UNCHANGED row
    /\ req' = [req EXCEPT ![q] = None]
    /\ UNCHANGED <<now, active, tick, phase, fired, faults>>

Toggled(old) == [on |-> ~old.on, sched |-> old.sched,
                 next |-> IF old.on THEN 0 ELSE NextSlot(old.sched, now)]

ReadToggle(q, d) ==
    /\ phase = "serving"
    /\ "toggle" \in Edits
    /\ req[q] = None
    /\ IsRow(d)
    /\ LET new == Toggled(row[d]) IN
       req' = [req EXCEPT ![q] = [kind |-> "toggle", id |-> d, on |-> new.on,
                                  sched |-> new.sched, next |-> new.next]]
    /\ UNCHANGED <<now, row, active, tick, phase, fired, faults>>

(* UPDATE databases SET enabled, next_run WHERE id: no row, no effect       *)
WriteToggle(q) ==
    /\ req[q] # None /\ req[q].kind = "toggle"
    /\ LET f == req[q] IN
       row' = IF IsRow(f.id)
              THEN [row EXCEPT ![f.id].on = f.on, ![f.id].next = f.next] ELSE row
    /\ req' = [req EXCEPT ![q] = None]
    /\ UNCHANGED <<now, active, tick, phase, fired, faults>>

Delete(d) ==
    /\ phase = "serving"
    /\ IsRow(d)
    /\ d \notin active
    /\ row' = [row EXCEPT ![d] = Deleted]
    /\ UNCHANGED <<now, active, tick, req, phase, fired, faults>>

(* The row the handler reads first only gives the run its name.             *)
Enqueue(d) ==
    /\ phase = "serving"
    /\ IsRow(d)
    /\ d \notin active
    /\ active' = active \cup {d}
    /\ UNCHANGED <<now, row, tick, req, phase, fired, faults>>

-----------------------------------------------------------------------------
(* The worker, the clock and the process                                    *)

(* The run of d settles (module Worker).                                    *)
Finish(d) ==
    /\ d \in active
    /\ phase = "serving"
    /\ active' = active \ {d}
    /\ UNCHANGED <<now, row, tick, req, phase, fired, faults>>

Advance ==
    /\ now < MaxTime
    /\ now' = now + 1
    /\ UNCHANGED <<row, active, tick, req, phase, fired, faults>>

Crash ==
    /\ phase # "down"
    /\ Fault
    /\ phase' = "down"
    /\ tick' = [t \in Ticks |-> None]
    /\ req' = [q \in Requests |-> None]
    /\ UNCHANGED <<now, row, active, fired>>

(* Recover interrupts the running run, if there is one; then the rows that  *)
(* are due are scheduled before the panel is served.                        *)
Restart(t) ==
    /\ phase = "down"
    /\ \E gone \in SUBSET active :
         /\ \A d, e \in gone : d = e
         /\ active' = active \ gone
    /\ IF \E d \in Ids : Due(d, now)
       THEN /\ phase' = "recovering"
            /\ tick' = [tick EXCEPT ![t] = [at |-> now, due |-> Snapshot]]
       ELSE phase' = "serving" /\ UNCHANGED tick
    /\ UNCHANGED <<now, row, req, fired, faults>>

Scheduler == \E t \in Ticks : BeginTick(t) \/ TickStep(t)

Handlers ==
    \/ \E q \in Requests :
         \/ \E f \in [on : BOOLEAN, sched : Schedules] :
              \/ ReadNew(q, f)
              \/ \E d \in Ids : ReadSave(q, d, f)
         \/ \E d \in Ids : ReadToggle(q, d)
         \/ WriteSave(q) \/ WriteToggle(q)
    \/ \E d \in Ids : Delete(d) \/ Enqueue(d)

Next == \/ Scheduler \/ Handlers
        \/ \E d \in Ids : Finish(d)
        \/ \E t \in Ticks : TickFails(t) \/ Restart(t)
        \/ Advance \/ Crash

Spec == Init /\ [][Next]_vars

(* cron starts a tick every minute and a tick runs to its end; the          *)
(* container is restarted. Nobody has to use the panel.                     *)
FairSpec == /\ Spec
            /\ \A t \in Ticks : WF_vars(TickStep(t)) /\ WF_vars(Restart(t))
            /\ WF_vars(\E t \in Ticks : BeginTick(t))

-----------------------------------------------------------------------------
(* Properties                                                               *)

(* Every variable has the shape the code gives it.                          *)
TypeOK ==
    /\ now \in 1..MaxTime
    /\ row \in [Ids -> Rows \cup {None, Deleted}]
    /\ active \subseteq Ids
    /\ \A t \in Ticks : tick[t] # None =>
         /\ tick[t].at <= now
         /\ DOMAIN tick[t].due \subseteq Ids
         /\ \A d \in DOMAIN tick[t].due : tick[t].due[d] \in Rows
    /\ \A q \in Requests : req[q] # None =>
         /\ req[q].kind \in {"save", "toggle"} /\ req[q].id \in 0..MaxDatabases
         /\ req[q].next \in Nat
    /\ phase \in {"down", "recovering", "serving"}
    /\ fired \in [Ids -> Nat]
    /\ faults \in 0..MaxFaults

(* No run is ever queued for a row that is gone, although a tick and the    *)
(* enqueue handler act on rows they read earlier: execute finds the row.    *)
ActiveHasRow == \A d \in active : IsRow(d)

(* An enabled row always has a slot and a paused one none: otherwise a      *)
(* paused database would catch up a slot the moment it is resumed, and an   *)
(* enabled one without a slot would run at once.                            *)
EnabledHasSlot == \A d \in Ids : IsRow(d) => (row[d].on <=> row[d].next # 0)

(* A tick moves the slot of d or queues a run for it.                       *)
TickServes(t, d) ==
    /\ tick[t] # None /\ tick'[t] # tick[t]
    /\ row'[d] # row[d] \/ d \in active' \ active

(* Whatever a tick does for a row that it read before, the row is enabled   *)
(* and due at that moment, its slot goes forward from where another tick or *)
(* a user has put it since, and the database has a run for it: a slot that  *)
(* another tick has served meanwhile is not served again.                   *)
TickFiresDueRow ==
    [][\A t \in Ticks, d \in Ids : TickServes(t, d) =>
          Due(d, now) /\ row'[d].next > row[d].next /\ d \in active']_vars

(* However ticks overlap, and whatever crashes between them, the slot of an *)
(* enabled row lies after every slot a tick has served for it: edits of the *)
(* connection alone, read before a tick and written after it, cannot bring  *)
(* a served slot back.                                                      *)
SlotMovesOn ==
    \A d \in Ids : IsRow(d) /\ row[d].on => row[d].next > fired[d]

(* "os proximos horarios sao calculados a partir do retorno do servico"     *)
(* (README.md:169): when the panel is served again after a restart, every   *)
(* slot lies after the restart, so however many were missed, one run makes  *)
(* up for them.                                                             *)
RecoveryCatchesUp ==
    [][phase = "recovering" /\ phase' = "serving" =>
         \A t \in Ticks, d \in Ids :
            tick[t] # None /\ IsRow(d) /\ row[d].on => row'[d].next > tick[t].at]_vars

(* A slot that is due does not stay due: ticks reach it, or it is paused,   *)
(* deleted or moved.                                                        *)
DueIsServed == \A d \in Ids : Due(d, now) ~> ~Due(d, now)

(* "a concurrent scheduler tick cannot be undone by an edit to the          *)
(* connection" (store.go:72): with edits of the connection and pauses only, *)
(* Save stores no slot in an enabled row that a tick has already served.    *)
TickNotUndone ==
    [][\A q \in Requests, d \in Ids :
          req[q] # None /\ req'[q] = None /\ phase' # "down"
          /\ req[q].kind = "save" /\ row'[d] # row[d]
            => (row'[d].on => row'[d].next > fired[d])]_vars

=============================================================================
