----------------------------- MODULE PanelProofs -----------------------------
(***************************************************************************)
(* Theorems about Panel, for every number of databases, ticks and requests, *)
(* every set of schedules and every kind of edit.                          *)
(***************************************************************************)
EXTENDS Panel, TLAPS

(* The variables whose type does not depend on the others                   *)
BaseType ==
    /\ now \in 1..MaxTime
    /\ row \in [Ids -> Rows \cup {None, Deleted}]
    /\ active \subseteq Ids
    /\ phase \in {"down", "recovering", "serving"}
    /\ fired \in [Ids -> Nat]
    /\ faults \in 0..MaxFaults

(* What a tick read was due when it read it, and time does not go back.     *)
TickRead ==
    /\ tick = [t \in Ticks |-> tick[t]]
    /\ \A t \in Ticks : tick[t] # None =>
         /\ tick[t].at \in Nat /\ tick[t].at <= now
         /\ DOMAIN tick[t].due \subseteq Ids
         /\ \A d \in DOMAIN tick[t].due :
              tick[t].due[d] \in Rows /\ tick[t].due[d].next <= tick[t].at

(* What a handler will write has a slot exactly if it is enabled.           *)
Paired(r) ==
    /\ r.kind \in {"save", "toggle"} /\ r.id \in 0..MaxDatabases
    /\ r.kind = "toggle" => r.id \in Ids
    /\ r.on \in BOOLEAN /\ r.sched \in Schedules /\ r.next \in Nat
    /\ r.on <=> r.next # 0

ReqPaired ==
    /\ req = [q \in Requests |-> req[q]]
    /\ \A q \in Requests : req[q] # None => Paired(req[q])

Inv == BaseType /\ TickRead /\ ReqPaired /\ EnabledHasSlot /\ ActiveHasRow

USE BoundAssumption, SentinelAssumption, RowAssumption DEF Ids, IsRow

(* A slot is never 0, which stands for none.                                *)
LEMMA SlotPositive ==
    ASSUME NEW s \in Schedules, NEW t \in Nat
    PROVE  NextSlot(s, t) \in Nat \ {0}
<1>1. s.every \in Nat \ {0}
  OBVIOUS
<1>2. (t \div s.every) + 1 \in Nat \ {0}
  BY <1>1
<1>3. \A m, n \in Nat \ {0} : m * n \in Nat \ {0}
  OBVIOUS
<1> QED
  BY <1>1, <1>2, <1>3 DEF NextSlot

LEMMA SnapshotRead ==
    ASSUME BaseType
    PROVE  /\ DOMAIN Snapshot \subseteq Ids
           /\ \A d \in DOMAIN Snapshot : Snapshot[d] \in Rows /\ Snapshot[d].next <= now
  BY DEF BaseType, Snapshot, Due

(* A row that is stored with a slot exactly if it is enabled keeps the      *)
(* invariant of the table.                                                  *)
LEMMA PutRow ==
    ASSUME BaseType, EnabledHasSlot, ActiveHasRow,
           NEW d \in Ids, NEW new \in Rows, row' = [row EXCEPT ![d] = new],
           new.on <=> new.next # 0,
           active' = active \/ active' = active \cup {d}
    PROVE  /\ row' \in [Ids -> Rows \cup {None, Deleted}] /\ active' \subseteq Ids
           /\ EnabledHasSlot' /\ ActiveHasRow'
  BY DEF BaseType, EnabledHasSlot, ActiveHasRow

LEMMA FireStep ==
    ASSUME Inv, NEW t \in Ticks, tick[t] # None, NEW d \in DOMAIN tick[t].due, Fire(t, d)
    PROVE  /\ row' \in [Ids -> Rows \cup {None, Deleted}] /\ active' \subseteq Ids
           /\ fired' \in [Ids -> Nat]
           /\ EnabledHasSlot' /\ ActiveHasRow'
<1> DEFINE snap == tick[t].due[d]
           slot == NextSlot(snap.sched, tick[t].at)
<1>1. d \in Ids /\ snap \in Rows /\ tick[t].at \in Nat
  BY DEF Inv, TickRead
<1>2. slot \in Nat \ {0} /\ snap.next \in Nat
  BY <1>1, SlotPositive DEF Rows
<1>3. CASE UNCHANGED <<row, active, fired>>
  BY <1>3 DEF Inv, BaseType, EnabledHasSlot, ActiveHasRow
<1>4. CASE /\ IsRow(d) /\ row[d].on
           /\ row' = [row EXCEPT ![d].next = slot]
           /\ active' = active \cup {d}
           /\ fired' = [fired EXCEPT ![d] = snap.next]
  <2> DEFINE new == [row[d] EXCEPT !.next = slot]
  <2>1. row[d] \in Rows
    BY <1>1, <1>4 DEF Inv, BaseType
  <2>2. new \in Rows /\ new.next = slot /\ new.on = row[d].on
    BY <1>2, <2>1 DEF Rows
  <2>3. new.on <=> new.next # 0
    BY <1>2, <1>4, <2>2
  <2>4. row' = [row EXCEPT ![d] = new]
    BY <1>4
  <2> HIDE DEF new
  <2>5. fired' \in [Ids -> Nat]
    BY <1>1, <1>2, <1>4 DEF Inv, BaseType
  <2> QED
    BY <1>1, <1>4, <2>2, <2>3, <2>4, <2>5, PutRow DEF Inv
<1> QED
  BY <1>3, <1>4 DEF Fire

LEMMA InvInit == Init => Inv
  BY DEF Init, Inv, BaseType, TickRead, ReqPaired, EnabledHasSlot, ActiveHasRow

LEMMA SubmittedPaired ==
    ASSUME BaseType, NEW f \in [on : BOOLEAN, sched : Schedules],
           NEW old, old = None \/ old \in Rows
    PROVE  /\ SubmittedNext(old, f) \in Nat
           /\ f.on <=> SubmittedNext(old, f) # 0
<1>1. NextSlot(f.sched, now) \in Nat \ {0}
  BY SlotPositive DEF BaseType
<1> QED
  BY <1>1 DEF SubmittedNext, Rows

LEMMA InvStep == Inv /\ [Next]_vars => Inv'
<1> SUFFICES ASSUME Inv, [Next]_vars PROVE Inv'
  OBVIOUS
<1> USE DEF Inv
<1>1. ASSUME NEW t \in Ticks, BeginTick(t) PROVE Inv'
  <2>1. BaseType'
    BY <1>1 DEF BeginTick, BaseType
  <2>2. TickRead'
    <3>1. tick' = [tick EXCEPT ![t] = [at |-> now, due |-> Snapshot]] /\ now' = now
      BY <1>1 DEF BeginTick
    <3>2. now \in Nat
      BY DEF BaseType
    <3> QED
      BY <3>1, <3>2, SnapshotRead DEF TickRead
  <2>3. ReqPaired'
    BY <1>1 DEF BeginTick, ReqPaired, BaseType
  <2>4. EnabledHasSlot'
    BY <1>1 DEF BeginTick, EnabledHasSlot, BaseType
  <2>5. ActiveHasRow'
    BY <1>1 DEF BeginTick, ActiveHasRow, BaseType
  <2> QED
    BY <2>1, <2>2, <2>3, <2>4, <2>5
<1>2. ASSUME NEW t \in Ticks, TickStep(t) PROVE Inv'
  <2>1. PICK d \in DOMAIN tick[t].due :
          /\ Fire(t, d)
          /\ LET rest == DOMAIN tick[t].due \ {d}
             IN  /\ tick' = [tick EXCEPT ![t] =
                        IF rest = {} THEN None
                        ELSE [at |-> @.at, due |-> [e \in rest |-> @.due[e]]]]
                 /\ phase' = IF phase = "recovering" /\ rest = {} THEN "serving" ELSE phase
    BY <1>2 DEF TickStep
  <2>2. tick[t] # None /\ UNCHANGED <<now, req, faults>>
    BY <1>2 DEF TickStep
  <2>3. /\ row' \in [Ids -> Rows \cup {None, Deleted}] /\ active' \subseteq Ids
        /\ fired' \in [Ids -> Nat]
        /\ EnabledHasSlot' /\ ActiveHasRow'
    BY <2>1, <2>2, FireStep
  <2>4. BaseType'
    BY <2>1, <2>2, <2>3 DEF BaseType
  <2>5. TickRead'
    <3> DEFINE rest == DOMAIN tick[t].due \ {d}
               left == [at |-> tick[t].at, due |-> [e \in rest |-> tick[t].due[e]]]
    <3>1. tick' = [tick EXCEPT ![t] = None] \/ tick' = [tick EXCEPT ![t] = left]
      BY <2>1
    <3>2. /\ left.at = tick[t].at /\ DOMAIN left.due = rest
          /\ \A e \in rest : left.due[e] = tick[t].due[e]
      OBVIOUS
    <3>3. rest \subseteq DOMAIN tick[t].due
      OBVIOUS
    <3> HIDE DEF left, rest
    <3> QED
      BY <2>2, <3>1, <3>2, <3>3 DEF TickRead
  <2>6. ReqPaired'
    BY <2>2 DEF ReqPaired
  <2> QED
    BY <2>3, <2>4, <2>5, <2>6
<1>3. ASSUME NEW t \in Ticks, TickFails(t) PROVE Inv'
  <2>1. BaseType'
    BY <1>3 DEF TickFails, Fault, BaseType
  <2>2. TickRead'
    BY <1>3 DEF TickFails, TickRead, BaseType
  <2>3. ReqPaired'
    BY <1>3 DEF TickFails, ReqPaired, BaseType
  <2>4. EnabledHasSlot'
    BY <1>3 DEF TickFails, EnabledHasSlot, BaseType
  <2>5. ActiveHasRow'
    BY <1>3 DEF TickFails, ActiveHasRow, BaseType
  <2> QED
    BY <2>1, <2>2, <2>3, <2>4, <2>5
<1>4. ASSUME NEW t \in Ticks, Restart(t) PROVE Inv'
  <2>1. BaseType'
    BY <1>4 DEF Restart, BaseType
  <2>2. TickRead'
    <3>1. /\ tick' = tick \/ tick' = [tick EXCEPT ![t] = [at |-> now, due |-> Snapshot]]
          /\ now' = now
      BY <1>4 DEF Restart
    <3>2. now \in Nat
      BY DEF BaseType
    <3> QED
      BY <3>1, <3>2, SnapshotRead DEF TickRead
  <2>3. ReqPaired'
    BY <1>4 DEF Restart, ReqPaired, BaseType
  <2>4. EnabledHasSlot'
    BY <1>4 DEF Restart, EnabledHasSlot, BaseType
  <2>5. ActiveHasRow'
    BY <1>4 DEF Restart, ActiveHasRow, BaseType
  <2> QED
    BY <2>1, <2>2, <2>3, <2>4, <2>5
<1>5. ASSUME NEW q \in Requests, NEW d \in Ids, NEW f \in [on : BOOLEAN, sched : Schedules], ReadSave(q, d, f)
      PROVE  Inv'
  <2>1. BaseType'
    BY <1>5 DEF ReadSave, BaseType
  <2>2. TickRead'
    BY <1>5 DEF ReadSave, TickRead, BaseType
  <2>3. ReqPaired'
    <3>1. row[d] \in Rows
      BY <1>5 DEF ReadSave, BaseType
    <3>2. /\ SubmittedNext(row[d], f) \in Nat
          /\ f.on <=> SubmittedNext(row[d], f) # 0
      BY <3>1, SubmittedPaired
    <3> DEFINE new == [kind |-> "save", id |-> d, on |-> f.on, sched |-> f.sched,
                       next |-> SubmittedNext(row[d], f)]
    <3>3. Paired(new)
      BY <3>2 DEF Paired
    <3>4. req' = [req EXCEPT ![q] = new]
      BY <1>5 DEF ReadSave
    <3> HIDE DEF new
    <3> QED
      BY <3>3, <3>4 DEF ReqPaired
  <2>4. EnabledHasSlot'
    BY <1>5 DEF ReadSave, EnabledHasSlot, BaseType
  <2>5. ActiveHasRow'
    BY <1>5 DEF ReadSave, ActiveHasRow, BaseType
  <2> QED
    BY <2>1, <2>2, <2>3, <2>4, <2>5
<1>6. ASSUME NEW q \in Requests, NEW f \in [on : BOOLEAN, sched : Schedules], ReadNew(q, f)
      PROVE  Inv'
  <2>1. BaseType'
    BY <1>6 DEF ReadNew, BaseType
  <2>2. TickRead'
    BY <1>6 DEF ReadNew, TickRead, BaseType
  <2>3. ReqPaired'
    <3>1. /\ SubmittedNext(None, f) \in Nat
          /\ f.on <=> SubmittedNext(None, f) # 0
      BY SubmittedPaired
    <3> DEFINE new == [kind |-> "save", id |-> 0, on |-> f.on, sched |-> f.sched,
                       next |-> SubmittedNext(None, f)]
    <3>2. Paired(new)
      BY <3>1 DEF Paired
    <3>3. req' = [req EXCEPT ![q] = new]
      BY <1>6 DEF ReadNew
    <3> HIDE DEF new
    <3> QED
      BY <3>2, <3>3 DEF ReqPaired
  <2>4. EnabledHasSlot'
    BY <1>6 DEF ReadNew, EnabledHasSlot, BaseType
  <2>5. ActiveHasRow'
    BY <1>6 DEF ReadNew, ActiveHasRow, BaseType
  <2> QED
    BY <2>1, <2>2, <2>3, <2>4, <2>5
<1>7. ASSUME NEW q \in Requests, WriteSave(q) PROVE Inv'
  <2> DEFINE f == req[q]
             Put(d, n) == row' = [row EXCEPT ![d] = [on |-> f.on, sched |-> f.sched, next |-> n]]
  <2>1. /\ f.on \in BOOLEAN /\ f.sched \in Schedules /\ f.next \in Nat
        /\ f.on <=> f.next # 0
        /\ f.id \in 0..MaxDatabases
    BY <1>7 DEF WriteSave, ReqPaired, Paired
  <2>2. UNCHANGED <<now, active, tick, phase, fired, faults>>
    BY <1>7 DEF WriteSave
  <2>3. \/ UNCHANGED row
        \/ \E d \in Ids : Put(d, f.next)
        \/ f.id \in Ids /\ IsRow(f.id) /\ Put(f.id, StoredNext(f.id, f))
    BY <1>7, <2>1 DEF WriteSave
  <2>4. \/ UNCHANGED row
        \/ \E d \in Ids, n \in Nat : Put(d, n) /\ (f.on <=> n # 0)
    <3>1. ASSUME f.id \in Ids, IsRow(f.id)
          PROVE  /\ StoredNext(f.id, f) \in Nat
                 /\ f.on <=> StoredNext(f.id, f) # 0
      <4>1. row[f.id] \in Rows
        BY <3>1 DEF BaseType
      <4>2. row[f.id].next \in Nat /\ (row[f.id].on <=> row[f.id].next # 0)
        BY <3>1, <4>1 DEF Rows, EnabledHasSlot
      <4> HIDE DEF f
      <4> QED
        BY <2>1, <4>2 DEF StoredNext
    <3> HIDE DEF Put
    <3> QED
      BY <2>1, <2>3, <3>1
  <2>5. /\ row' \in [Ids -> Rows \cup {None, Deleted}] /\ active' \subseteq Ids
        /\ EnabledHasSlot' /\ ActiveHasRow'
    <3>1. CASE UNCHANGED row
      BY <2>2, <3>1 DEF BaseType, EnabledHasSlot, ActiveHasRow
    <3>2. ASSUME NEW d \in Ids, NEW n \in Nat, Put(d, n), f.on <=> n # 0
          PROVE  /\ row' \in [Ids -> Rows \cup {None, Deleted}] /\ active' \subseteq Ids
                 /\ EnabledHasSlot' /\ ActiveHasRow'
      <4> DEFINE new == [on |-> f.on, sched |-> f.sched, next |-> n]
      <4>1. new \in Rows /\ (new.on <=> new.next # 0)
        BY <2>1, <3>2 DEF Rows
      <4>2. row' = [row EXCEPT ![d] = new]
        BY <3>2
      <4> HIDE DEF new
      <4> QED
        BY <2>2, <4>1, <4>2, PutRow
    <3> QED
      BY <2>4, <3>1, <3>2
  <2>6. BaseType'
    BY <2>2, <2>5 DEF BaseType
  <2>7. TickRead'
    BY <2>2 DEF TickRead
  <2>8. ReqPaired'
    BY <1>7 DEF WriteSave, ReqPaired, BaseType
  <2> QED
    BY <2>5, <2>6, <2>7, <2>8
<1>8. ASSUME NEW q \in Requests, NEW d \in Ids, ReadToggle(q, d) PROVE Inv'
  <2>1. BaseType'
    BY <1>8 DEF ReadToggle, BaseType
  <2>2. TickRead'
    BY <1>8 DEF ReadToggle, TickRead, BaseType
  <2>3. ReqPaired'
    <3> DEFINE new == Toggled(row[d])
               written == [kind |-> "toggle", id |-> d, on |-> new.on,
                           sched |-> new.sched, next |-> new.next]
    <3>1. row[d] \in Rows /\ now \in Nat
      BY <1>8 DEF ReadToggle, BaseType
    <3>2. NextSlot(row[d].sched, now) \in Nat \ {0}
      BY <3>1, SlotPositive DEF Rows
    <3>3. /\ new.on \in BOOLEAN /\ new.sched \in Schedules /\ new.next \in Nat
          /\ new.on <=> new.next # 0
      BY <3>1, <3>2 DEF Toggled, Rows
    <3>4. req' = [req EXCEPT ![q] = written]
      BY <1>8 DEF ReadToggle
    <3> HIDE DEF new
    <3>5. Paired(written)
      BY <3>3 DEF Paired
    <3> HIDE DEF written
    <3> QED
      BY <3>4, <3>5 DEF ReqPaired
  <2>4. EnabledHasSlot'
    BY <1>8 DEF ReadToggle, EnabledHasSlot, BaseType
  <2>5. ActiveHasRow'
    BY <1>8 DEF ReadToggle, ActiveHasRow, BaseType
  <2> QED
    BY <2>1, <2>2, <2>3, <2>4, <2>5
<1>9. ASSUME NEW q \in Requests, WriteToggle(q) PROVE Inv'
  <2> DEFINE f == req[q]
  <2>1. /\ f.on \in BOOLEAN /\ f.next \in Nat /\ f.id \in Ids
        /\ f.on <=> f.next # 0
    BY <1>9 DEF WriteToggle, ReqPaired, Paired
  <2>2. UNCHANGED <<now, active, tick, phase, fired, faults>>
    BY <1>9 DEF WriteToggle
  <2>3. /\ row' \in [Ids -> Rows \cup {None, Deleted}] /\ active' \subseteq Ids
        /\ EnabledHasSlot' /\ ActiveHasRow'
    <3>1. CASE UNCHANGED row
      BY <2>2, <3>1 DEF BaseType, EnabledHasSlot, ActiveHasRow
    <3>2. CASE /\ IsRow(f.id)
               /\ row' = [row EXCEPT ![f.id].on = f.on, ![f.id].next = f.next]
      <4> DEFINE new == [row[f.id] EXCEPT !.on = f.on, !.next = f.next]
      <4>1. row[f.id] \in Rows
        BY <2>1, <3>2 DEF BaseType
      <4>2. new \in Rows /\ new.on = f.on /\ new.next = f.next
        BY <2>1, <4>1 DEF Rows
      <4>3. new.on <=> new.next # 0
        BY <2>1, <4>2
      <4>4. row' = [row EXCEPT ![f.id] = new]
        BY <2>1, <3>2 DEF BaseType
      <4> HIDE DEF new
      <4> QED
        BY <2>1, <2>2, <4>2, <4>3, <4>4, PutRow
    <3> QED
      BY <1>9, <3>1, <3>2 DEF WriteToggle
  <2>4. BaseType'
    BY <2>2, <2>3 DEF BaseType
  <2>5. TickRead'
    BY <2>2 DEF TickRead
  <2>6. ReqPaired'
    BY <1>9 DEF WriteToggle, ReqPaired, BaseType
  <2> QED
    BY <2>3, <2>4, <2>5, <2>6
<1>10. ASSUME NEW d \in Ids, Delete(d) PROVE Inv'
  <2>1. BaseType'
    BY <1>10 DEF Delete, BaseType
  <2>2. TickRead'
    BY <1>10 DEF Delete, TickRead, BaseType
  <2>3. ReqPaired'
    BY <1>10 DEF Delete, ReqPaired, BaseType
  <2>4. EnabledHasSlot'
    BY <1>10 DEF Delete, EnabledHasSlot, BaseType
  <2>5. ActiveHasRow'
    BY <1>10 DEF Delete, ActiveHasRow, BaseType
  <2> QED
    BY <2>1, <2>2, <2>3, <2>4, <2>5
<1>11. ASSUME NEW d \in Ids, Enqueue(d) PROVE Inv'
  <2>1. BaseType'
    BY <1>11 DEF Enqueue, BaseType
  <2>2. TickRead'
    BY <1>11 DEF Enqueue, TickRead, BaseType
  <2>3. ReqPaired'
    BY <1>11 DEF Enqueue, ReqPaired, BaseType
  <2>4. EnabledHasSlot'
    BY <1>11 DEF Enqueue, EnabledHasSlot, BaseType
  <2>5. ActiveHasRow'
    BY <1>11 DEF Enqueue, ActiveHasRow, BaseType
  <2> QED
    BY <2>1, <2>2, <2>3, <2>4, <2>5
<1>12. ASSUME NEW d \in Ids, Finish(d) PROVE Inv'
  <2>1. BaseType'
    BY <1>12 DEF Finish, BaseType
  <2>2. TickRead'
    BY <1>12 DEF Finish, TickRead, BaseType
  <2>3. ReqPaired'
    BY <1>12 DEF Finish, ReqPaired, BaseType
  <2>4. EnabledHasSlot'
    BY <1>12 DEF Finish, EnabledHasSlot, BaseType
  <2>5. ActiveHasRow'
    BY <1>12 DEF Finish, ActiveHasRow, BaseType
  <2> QED
    BY <2>1, <2>2, <2>3, <2>4, <2>5
<1>13. ASSUME Advance PROVE Inv'
  <2>1. BaseType'
    BY <1>13 DEF Advance, BaseType
  <2>2. TickRead'
    BY <1>13 DEF Advance, TickRead, BaseType
  <2>3. ReqPaired'
    BY <1>13 DEF Advance, ReqPaired, BaseType
  <2>4. EnabledHasSlot'
    BY <1>13 DEF Advance, EnabledHasSlot, BaseType
  <2>5. ActiveHasRow'
    BY <1>13 DEF Advance, ActiveHasRow, BaseType
  <2> QED
    BY <2>1, <2>2, <2>3, <2>4, <2>5
<1>14. ASSUME Crash PROVE Inv'
  <2>1. BaseType'
    BY <1>14 DEF Crash, Fault, BaseType
  <2>2. TickRead'
    BY <1>14 DEF Crash, TickRead, BaseType
  <2>3. ReqPaired'
    BY <1>14 DEF Crash, ReqPaired, BaseType
  <2>4. EnabledHasSlot'
    BY <1>14 DEF Crash, EnabledHasSlot, BaseType
  <2>5. ActiveHasRow'
    BY <1>14 DEF Crash, ActiveHasRow, BaseType
  <2> QED
    BY <2>1, <2>2, <2>3, <2>4, <2>5
<1>15. ASSUME UNCHANGED vars PROVE Inv'
  <2>1. BaseType'
    BY <1>15 DEF vars, BaseType
  <2>2. TickRead'
    BY <1>15 DEF vars, TickRead, BaseType
  <2>3. ReqPaired'
    BY <1>15 DEF vars, ReqPaired, BaseType
  <2>4. EnabledHasSlot'
    BY <1>15 DEF vars, EnabledHasSlot, BaseType
  <2>5. ActiveHasRow'
    BY <1>15 DEF vars, ActiveHasRow, BaseType
  <2> QED
    BY <2>1, <2>2, <2>3, <2>4, <2>5
<1> QED
  BY <1>1, <1>2, <1>3, <1>4, <1>5, <1>6, <1>7, <1>8,
     <1>9, <1>10, <1>11, <1>12, <1>13, <1>14, <1>15
     DEF Next, Scheduler, Handlers

LEMMA Invariance == Spec => []Inv
  BY InvInit, InvStep, PTL DEF Spec

-----------------------------------------------------------------------------
(* The types hold for any number of overlapping ticks and handlers.         *)
THEOREM TypeCorrect == Spec => []TypeOK
<1>1. Inv => TypeOK
  BY DEF Inv, BaseType, TickRead, ReqPaired, Paired, TypeOK
<1> QED
  BY Invariance, <1>1, PTL

(* An enabled row has a slot and a paused one none, whatever is edited.     *)
THEOREM SlotIfEnabled == Spec => []EnabledHasSlot
<1>1. Inv => EnabledHasSlot
  BY DEF Inv
<1> QED
  BY Invariance, <1>1, PTL

(* No run is queued for a row that is gone.                                 *)
THEOREM RunHasRow == Spec => []ActiveHasRow
<1>1. Inv => ActiveHasRow
  BY DEF Inv
<1> QED
  BY Invariance, <1>1, PTL

-----------------------------------------------------------------------------
(* Slots move on                                                            *)

(* A slot lies after the moment it is computed for.                         *)
LEMMA SlotAfter ==
    ASSUME NEW s \in Schedules, NEW t \in Nat
    PROVE  NextSlot(s, t) > t
<1> DEFINE e == s.every
           k == t \div e
<1>1. e \in Nat \ {0}
  OBVIOUS
<1>2. k \in Nat /\ t % e \in 0..(e - 1) /\ t = e * k + (t % e)
  BY <1>1
<1>3. (k + 1) * e = e * k + e
  BY <1>1, <1>2
<1>4. (k + 1) * e > t
  BY <1>1, <1>2, <1>3
<1> QED
  BY <1>1, <1>4 DEF NextSlot

(* Where a tick fires, the row is enabled and due, the new slot lies after  *)
(* the one it served, and the database has a run.                           *)
LEMMA FiredSlot ==
    ASSUME Inv, NEW t \in Ticks, TickStep(t)
    PROVE  \/ UNCHANGED <<row, active, fired>>
           \/ \E d \in Ids, n \in Nat :
                /\ IsRow(d) /\ row[d].on /\ n > row[d].next /\ n > tick[t].at
                /\ Due(d, now)
                /\ row' = [row EXCEPT ![d].next = n]
                /\ active' = active \cup {d}
                /\ fired' = [fired EXCEPT ![d] = row[d].next]
<1>1. PICK d \in DOMAIN tick[t].due : Fire(t, d)
  BY DEF TickStep
<1> DEFINE snap == tick[t].due[d]
           n == NextSlot(snap.sched, tick[t].at)
<1>2. d \in Ids /\ snap \in Rows /\ tick[t].at \in Nat /\ snap.next <= tick[t].at
  BY DEF Inv, TickRead, TickStep
<1>3. snap.next \in Nat /\ n \in Nat /\ n > tick[t].at
  BY <1>2, SlotAfter, SlotPositive DEF Rows
<1>4. \/ UNCHANGED <<row, active, fired>>
      \/ /\ IsRow(d) /\ row[d].on /\ row[d].next = snap.next
         /\ row' = [row EXCEPT ![d].next = n]
         /\ active' = active \cup {d}
         /\ fired' = [fired EXCEPT ![d] = snap.next]
  BY <1>1 DEF Fire
<1>5. tick[t].at <= now /\ now \in Nat
  BY DEF Inv, TickRead, TickStep, BaseType
<1> HIDE DEF snap, n
<1>6. n > snap.next
  BY <1>2, <1>3
<1>7. row[d].next = snap.next => row[d].next <= now
  BY <1>2, <1>3, <1>5
<1> QED
  BY <1>2, <1>3, <1>4, <1>6, <1>7 DEF Due

(* A tick that moves a slot or queues a run finds the row enabled and due,  *)
(* moves its slot forward, and leaves the database with a run.              *)
THEOREM FiresDue == Spec => TickFiresDueRow
<1>1. ASSUME Inv, [Next]_vars, NEW t \in Ticks, NEW d \in Ids, TickServes(t, d)
      PROVE  Due(d, now) /\ row'[d].next > row[d].next /\ d \in active'
  <2>1. PICK u \in Ticks : TickStep(u)
    <3>1. tick'[t] # tick[t] /\ tick[t] # None
          /\ (row'[d] # row[d] \/ d \in active' \ active)
      BY <1>1 DEF TickServes
    <3>2. \A u \in Ticks : ~Restart(u)
      BY <3>1, <1>1 DEF Restart, Inv, BaseType, TickRead
    <3> QED
      BY <1>1, <3>1, <3>2 DEF Next, Scheduler, Handlers, vars, BeginTick, TickFails,
           ReadSave, ReadNew, WriteSave, ReadToggle, WriteToggle, Delete, Enqueue,
           Finish, Advance, Crash
  <2>2. PICK e \in Ids, n \in Nat :
           /\ IsRow(e) /\ row[e].on /\ n > row[e].next /\ Due(e, now)
           /\ row' = [row EXCEPT ![e].next = n] /\ active' = active \cup {e}
    BY <1>1, <2>1, FiredSlot DEF TickServes
  <2>3. row' = [row EXCEPT ![e] = [row[e] EXCEPT !.next = n]]
    BY <2>2
  <2>4. row[e] \in Rows /\ [row[e] EXCEPT !.next = n].next = n
    BY <1>1, <2>2 DEF Inv, BaseType, Rows
  <2>5. d = e
    BY <1>1, <2>2, <2>3 DEF TickServes, Inv, BaseType
  <2> QED
    BY <1>1, <2>2, <2>3, <2>4, <2>5 DEF Inv, BaseType
<1>2. Inv /\ [Next]_vars =>
        [\A t \in Ticks, d \in Ids : TickServes(t, d) =>
           Due(d, now) /\ row'[d].next > row[d].next /\ d \in active']_vars
  BY <1>1
<1> QED
  BY Invariance, <1>2, PTL DEF Spec, TickFiresDueRow

(* Steps that neither write a row nor let a tick fire, and what they do to  *)
(* what the handlers hold                                                   *)
Reading(q) == \/ \E f \in [on : BOOLEAN, sched : Schedules] :
                   ReadNew(q, f) \/ \E d \in Ids : ReadSave(q, d, f)
              \/ \E d \in Ids : ReadToggle(q, d)

LEMMA StepKinds ==
    ASSUME [Next]_vars
    PROVE  \/ \E t \in Ticks : TickStep(t)
           \/ \E q \in Requests : WriteSave(q) \/ WriteToggle(q) \/ Reading(q)
           \/ \E d \in Ids : Delete(d)
           \/ UNCHANGED <<row, fired>> /\ (req' = req \/ req' = [q \in Requests |-> None])
  BY DEF Next, Scheduler, Handlers, Reading, vars, BeginTick, TickFails, Restart, Enqueue,
         Finish, Advance, Crash

(* With edits of the connection only, what a handler will write has the     *)
(* schedule of the row, and a row that is not there yet was never served.   *)
FormFits ==
    \A q \in Requests : req[q] # None =>
        /\ req[q].kind = "save"
        /\ req[q].id # 0 => /\ req[q].id \in Ids /\ row[req[q].id] # None
                            /\ IsRow(req[q].id) => /\ row[req[q].id].on = req[q].on
                                                   /\ row[req[q].id].sched = req[q].sched

NewUnserved == \A d \in Ids : row[d] = None => fired[d] = 0

SlotInv == FormFits /\ NewUnserved /\ SlotMovesOn

(* A save of the connection leaves the row, or inserts one that was never   *)
(* served.                                                                  *)
LEMMA SavedConnection ==
    ASSUME Inv, SlotInv, NEW q \in Requests, WriteSave(q)
    PROVE  \/ row' = row
           \/ \E d \in Ids : /\ row[d] = None
                             /\ row' = [row EXCEPT ![d] = [on |-> req[q].on, sched |-> req[q].sched,
                                                           next |-> req[q].next]]
<1> DEFINE f == req[q]
<1>1. CASE f.id # 0 /\ IsRow(f.id)
  <2>1. /\ f.id \in Ids /\ row[f.id].on = f.on /\ row[f.id].sched = f.sched
        /\ row' = [row EXCEPT ![f.id] = [on |-> f.on, sched |-> f.sched,
                                         next |-> StoredNext(f.id, f)]]
    BY <1>1 DEF WriteSave, SlotInv, FormFits
  <2>2. StoredNext(f.id, f) = row[f.id].next
    BY <2>1 DEF StoredNext
  <2>3. row[f.id] \in Rows
    BY <1>1, <2>1 DEF Inv, BaseType
  <2>4. [on |-> f.on, sched |-> f.sched, next |-> row[f.id].next] = row[f.id]
    BY <2>1, <2>3 DEF Rows
  <2> HIDE DEF f
  <2>5. row' = [row EXCEPT ![f.id] = row[f.id]]
    BY <2>1, <2>2, <2>4
  <2> QED
    BY <2>1, <2>5 DEF Inv, BaseType
<1>2. CASE ~(f.id # 0 /\ IsRow(f.id))
  BY <1>2 DEF WriteSave
<1> QED
  BY <1>1, <1>2

LEMMA SlotStep ==
    ASSUME Edits \subseteq {"connection"}
    PROVE  Inv /\ SlotInv /\ [Next]_vars => SlotInv'
<1> SUFFICES ASSUME Inv, SlotInv, [Next]_vars PROVE SlotInv'
  OBVIOUS
<1> USE DEF SlotInv, Inv, BaseType
<1>1. ASSUME NEW t \in Ticks, TickStep(t) PROVE SlotInv'
  <2>1. req' = req
    BY <1>1 DEF TickStep
  <2>2. CASE UNCHANGED <<row, fired>>
    BY <2>1, <2>2 DEF FormFits, NewUnserved, SlotMovesOn
  <2>3. ASSUME NEW d \in Ids, NEW n \in Nat,
               IsRow(d), row[d].on, n > row[d].next,
               row' = [row EXCEPT ![d].next = n],
               fired' = [fired EXCEPT ![d] = row[d].next]
        PROVE  SlotInv'
    <3>1. row[d] \in Rows
      BY <2>3
    <3>2. /\ row'[d] \in Rows /\ row'[d].on = row[d].on /\ row'[d].sched = row[d].sched
          /\ row'[d].next = n /\ fired'[d] = row[d].next
          /\ \A e \in Ids \ {d} : row'[e] = row[e] /\ fired'[e] = fired[e]
      BY <2>3, <3>1 DEF Rows
    <3>3. \A e \in Ids : /\ row'[e] = None <=> row[e] = None
                         /\ row'[e] \notin {None, Deleted} <=> IsRow(e)
                         /\ IsRow(e) => /\ row'[e].on = row[e].on
                                        /\ row'[e].sched = row[e].sched
      BY <3>1, <3>2, RowAssumption
    <3>4. FormFits'
      BY <2>1, <3>3 DEF FormFits
    <3>5. NewUnserved'
      BY <3>2, <3>3 DEF NewUnserved
    <3>6. SlotMovesOn'
      BY <2>3, <3>2 DEF SlotMovesOn
    <3> QED
      BY <3>4, <3>5, <3>6
  <2> QED
    BY <1>1, <2>2, <2>3, FiredSlot
<1>2. ASSUME NEW q \in Requests, WriteSave(q) PROVE SlotInv'
  <2>1. fired' = fired /\ req' = [req EXCEPT ![q] = None] /\ req[q] # None
    BY <1>2 DEF WriteSave
  <2>2. \A p \in Requests : req'[p] # None => req'[p] = req[p]
    BY <2>1 DEF ReqPaired
  <2>3. CASE row' = row
    BY <2>1, <2>2, <2>3 DEF FormFits, NewUnserved, SlotMovesOn
  <2>4. ASSUME NEW d \in Ids, row[d] = None,
               row' = [row EXCEPT ![d] = [on |-> req[q].on, sched |-> req[q].sched,
                                          next |-> req[q].next]]
        PROVE  SlotInv'
    <3> DEFINE new == [on |-> req[q].on, sched |-> req[q].sched, next |-> req[q].next]
    <3>1. /\ fired'[d] = 0 /\ new \in Rows /\ (new.on => new.next > 0)
      <4>1. Paired(req[q])
        BY <2>1 DEF ReqPaired
      <4> QED
        BY <2>1, <2>4, <4>1 DEF Paired, Rows, NewUnserved
    <3>2. row'[d] = new /\ \A e \in Ids \ {d} : row'[e] = row[e]
      BY <2>4
    <3>3. FormFits'
      BY <2>2, <2>4, <3>2 DEF FormFits
    <3>4. NewUnserved'
      BY <2>1, <3>1, <3>2 DEF NewUnserved
    <3>5. SlotMovesOn'
      BY <2>1, <3>1, <3>2 DEF SlotMovesOn
    <3> QED
      BY <3>3, <3>4, <3>5
  <2> QED
    BY <1>2, <2>3, <2>4, SavedConnection
<1>3. ASSUME NEW q \in Requests, WriteToggle(q) PROVE SlotInv'
  BY <1>3 DEF WriteToggle, FormFits
<1>4. ASSUME NEW q \in Requests, Reading(q) PROVE SlotInv'
  <2>1. UNCHANGED <<row, fired>>
    BY <1>4 DEF Reading, ReadNew, ReadSave, ReadToggle
  <2>2. FormFits'
    <3>1. ASSUME NEW f \in [on : BOOLEAN, sched : Schedules], ReadNew(q, f) PROVE FormFits'
      BY <2>1, <3>1 DEF ReadNew, FormFits, ReqPaired
    <3>2. ASSUME NEW f \in [on : BOOLEAN, sched : Schedules], NEW d \in Ids, ReadSave(q, d, f)
          PROVE  FormFits'
      <4>1. /\ IsRow(d) /\ row[d].on = f.on /\ row[d].sched = f.sched
            /\ req' = [req EXCEPT ![q] = [kind |-> "save", id |-> d, on |-> f.on,
                                          sched |-> f.sched, next |-> SubmittedNext(row[d], f)]]
        BY <3>2 DEF ReadSave, Sends
      <4> QED
        BY <2>1, <4>1 DEF FormFits, ReqPaired
    <3>3. ASSUME NEW d \in Ids, ReadToggle(q, d) PROVE FormFits'
      BY <3>3 DEF ReadToggle
    <3> QED
      BY <1>4, <3>1, <3>2, <3>3 DEF Reading
  <2> QED
    BY <2>1, <2>2 DEF NewUnserved, SlotMovesOn
<1>5. ASSUME NEW d \in Ids, Delete(d) PROVE SlotInv'
  BY <1>5 DEF Delete, FormFits, NewUnserved, SlotMovesOn
<1>6. CASE UNCHANGED <<row, fired>> /\ (req' = req \/ req' = [q \in Requests |-> None])
  BY <1>6 DEF FormFits, NewUnserved, SlotMovesOn
<1> QED
  BY <1>1, <1>2, <1>3, <1>4, <1>5, <1>6, StepKinds

LEMMA SlotTheorem ==
    ASSUME Edits \subseteq {"connection"}
    PROVE  Spec => [](Inv /\ SlotInv)
<1>1. Init => SlotInv
  BY DEF Init, SlotInv, FormFits, NewUnserved, SlotMovesOn
<1> QED
  BY <1>1, Invariance, SlotStep, PTL DEF Spec

(* However ticks, edits of connections, deletions and crashes interleave,   *)
(* the slot of a row lies after every one a tick has served for it.         *)
THEOREM ServedSlotPassed ==
    ASSUME Edits \subseteq {"connection"}
    PROVE  Spec => []SlotMovesOn
  BY SlotTheorem, PTL DEF SlotInv

(* The comment at store.go:72 holds while nobody pauses or reschedules; the *)
(* run panel_undone shows that a pause in between is enough to break it.    *)
THEOREM ConnectionEditsUndoNothing ==
    ASSUME Edits \subseteq {"connection"}
    PROVE  Spec => TickNotUndone
<1>1. ASSUME Inv, SlotInv, [Next]_vars, NEW q \in Requests, NEW d \in Ids,
             req[q] # None, req'[q] = None, phase' # "down", row'[d] # row[d], row'[d].on
      PROVE  row'[d].next > fired[d]
  <2>1. PICK p \in Requests : WriteSave(p)
    <3>1. ~ \E t \in Ticks : TickStep(t)
      BY <1>1 DEF TickStep
    <3>2. \A p \in Requests : ~WriteToggle(p)
      BY <1>1 DEF WriteToggle, SlotInv, FormFits
    <3>3. \A p \in Requests : ~Reading(p)
      BY <1>1 DEF Reading, ReadNew, ReadSave, ReadToggle
    <3>4. \A e \in Ids : ~Delete(e)
      BY <1>1 DEF Delete
    <3> QED
      BY <1>1, <3>1, <3>2, <3>3, <3>4, StepKinds
  <2>2. PICK e \in Ids : /\ row[e] = None
                         /\ row' = [row EXCEPT ![e] = [on |-> req[p].on, sched |-> req[p].sched,
                                                       next |-> req[p].next]]
    BY <1>1, <2>1, SavedConnection
  <2>3. e = d
    BY <1>1, <2>2 DEF Inv, BaseType
  <2>4. Paired(req[p])
    BY <1>1, <2>1 DEF WriteSave, Inv, ReqPaired
  <2>5. row'[d].on = req[p].on /\ row'[d].next = req[p].next
    BY <1>1, <2>2, <2>3 DEF Inv, BaseType
  <2> QED
    BY <1>1, <2>2, <2>3, <2>4, <2>5 DEF Paired, SlotInv, NewUnserved
<1>2. Inv /\ SlotInv /\ [Next]_vars =>
        [\A q \in Requests, d \in Ids :
           req[q] # None /\ req'[q] = None /\ phase' # "down"
           /\ req[q].kind = "save" /\ row'[d] # row[d]
             => (row'[d].on => row'[d].next > fired[d])]_vars
  BY <1>1
<1> QED
  BY <1>2, SlotTheorem, PTL DEF Spec, TickNotUndone

-----------------------------------------------------------------------------
(* Recovery catches up                                                      *)

(* Every enabled row has its slot after the moment tick t began, or t still *)
(* has it to visit, as it is.                                               *)
Ahead(t, todo) ==
    \A d \in Ids : IsRow(d) /\ row[d].on =>
        \/ row[d].next > tick[t].at
        \/ d \in todo /\ row[d].next = tick[t].due[d].next

(* Until the panel is served there is no handler and no tick but the one    *)
(* that began at the restart.                                               *)
RecoverInv ==
    /\ phase # "serving" => \A q \in Requests : req[q] = None
    /\ phase = "down" => \A t \in Ticks : tick[t] = None
    /\ phase = "recovering" =>
         \E t \in Ticks : /\ Ahead(t, DOMAIN tick[t].due)
                          /\ \A u \in Ticks \ {t} : tick[u] = None

(* After a visit every enabled row is ahead or among those left.            *)
LEMMA Visit ==
    ASSUME Inv, NEW t \in Ticks, tick[t] # None, Ahead(t, DOMAIN tick[t].due),
           NEW d \in DOMAIN tick[t].due, Fire(t, d)
    PROVE  \A e \in Ids :
             /\ row'[e] \notin {None, Deleted} <=> IsRow(e)
             /\ IsRow(e) =>
                  /\ row'[e].on = row[e].on
                  /\ row[e].on => \/ row'[e].next > tick[t].at
                                  \/ e \in DOMAIN tick[t].due \ {d}
                                     /\ row'[e].next = tick[t].due[e].next
<1> DEFINE snap == tick[t].due[d]
           n == NextSlot(snap.sched, tick[t].at)
<1>1. d \in Ids /\ snap \in Rows /\ tick[t].at \in Nat
  BY DEF Fire, Inv, TickRead
<1>2. n \in Nat /\ n > tick[t].at
  BY <1>1, SlotAfter, SlotPositive DEF Rows
<1>3. CASE IsRow(d) /\ row[d].on /\ row[d].next = snap.next
  <2>1. row' = [row EXCEPT ![d].next = n]
    BY <1>3 DEF Fire
  <2>2. row[d] \in Rows
    BY <1>1, <1>3 DEF Inv, BaseType
  <2> HIDE DEF n
  <2>3. /\ row'[d] \in Rows /\ row'[d].on = row[d].on /\ row'[d].next = n
        /\ \A e \in Ids \ {d} : row'[e] = row[e]
    BY <1>1, <1>2, <2>1, <2>2 DEF Rows, Inv, BaseType
  <2> QED
    BY <1>1, <1>2, <1>3, <2>3 DEF Ahead
<1>4. CASE ~(IsRow(d) /\ row[d].on /\ row[d].next = snap.next)
  <2>1. row' = row
    BY <1>4 DEF Fire
  <2> QED
    BY <1>4, <2>1 DEF Ahead
<1> QED
  BY <1>3, <1>4

LEMMA RecoverStep == Inv /\ RecoverInv /\ [Next]_vars => RecoverInv'
<1> SUFFICES ASSUME Inv, RecoverInv, [Next]_vars PROVE RecoverInv'
  OBVIOUS
<1>1. CASE phase = "serving" /\ phase' = "serving"
  BY <1>1 DEF RecoverInv
<1>2. ASSUME phase # "serving", phase' = phase, row' = row, tick' = tick, req' = req
      PROVE  RecoverInv'
  BY <1>2 DEF RecoverInv, Ahead
<1>3. ASSUME NEW t \in Ticks, TickStep(t), phase = "recovering" PROVE RecoverInv'
  <2> DEFINE todo == DOMAIN tick[t].due
  <2>1. /\ tick[t] # None /\ Ahead(t, todo) /\ req' = req
        /\ \A u \in Ticks \ {t} : tick[u] = None
    BY <1>3 DEF TickStep, RecoverInv
  <2>2. PICK d \in todo :
          /\ Fire(t, d)
          /\ tick' = [tick EXCEPT ![t] =
                IF todo \ {d} = {} THEN None
                ELSE [at |-> tick[t].at, due |-> [e \in todo \ {d} |-> tick[t].due[e]]]]
          /\ phase' = IF todo \ {d} = {} THEN "serving" ELSE phase
    BY <1>3 DEF TickStep
  <2>3. CASE todo \ {d} = {}
    BY <2>2, <2>3 DEF RecoverInv
  <2>4. CASE todo \ {d} # {}
    <3>1. /\ tick'[t] = [at |-> tick[t].at, due |-> [e \in todo \ {d} |-> tick[t].due[e]]]
          /\ \A u \in Ticks \ {t} : tick'[u] = None
          /\ phase' = "recovering"
      BY <1>3, <2>1, <2>2, <2>4 DEF Inv, TickRead
    <3>2. \A e \in Ids : row'[e] \notin {None, Deleted} /\ row'[e].on =>
             \/ row'[e].next > tick'[t].at
             \/ e \in DOMAIN tick'[t].due /\ row'[e].next = tick'[t].due[e].next
      BY <1>3, <2>1, <2>2, <3>1, Visit
    <3> QED
      BY <1>3, <2>1, <3>1, <3>2 DEF RecoverInv, Ahead
  <2> QED
    BY <2>3, <2>4
<1>4. ASSUME NEW t \in Ticks, TickFails(t), phase = "recovering" PROVE RecoverInv'
  BY <1>4 DEF TickFails, RecoverInv, Inv, TickRead
<1>5. CASE Crash
  BY <1>5 DEF Crash, Fault, RecoverInv
<1>6. ASSUME NEW t \in Ticks, Restart(t) PROVE RecoverInv'
  <2>1. CASE \E d \in Ids : Due(d, now)
    <3>1. /\ phase' = "recovering" /\ req' = req /\ row' = row
          /\ tick'[t] = [at |-> now, due |-> Snapshot]
          /\ \A u \in Ticks \ {t} : tick'[u] = None
      BY <1>6, <2>1 DEF Restart, RecoverInv, Inv, TickRead
    <3>2. \A e \in Ids : row'[e] \notin {None, Deleted} /\ row'[e].on =>
             \/ row'[e].next > tick'[t].at
             \/ e \in DOMAIN tick'[t].due /\ row'[e].next = tick'[t].due[e].next
      BY <3>1 DEF Snapshot, Due, Inv, BaseType, Rows
    <3> QED
      BY <1>6, <3>1, <3>2 DEF Restart, RecoverInv, Ahead
  <2>2. CASE ~ \E d \in Ids : Due(d, now)
    BY <1>6, <2>2 DEF Restart, RecoverInv
  <2> QED
    BY <2>1, <2>2
<1>7. CASE UNCHANGED vars
  BY <1>1, <1>2, <1>7 DEF vars, Inv, BaseType
<1>8. CASE phase = "serving" /\ phase' # "serving"
  BY <1>5, <1>8 DEF Next, Scheduler, Handlers, BeginTick, TickStep, TickFails, Restart,
       ReadSave, ReadNew, WriteSave, ReadToggle, WriteToggle, Delete, Enqueue,
       Finish, Advance, vars
<1>9. CASE phase # "serving"
  BY <1>2, <1>3, <1>4, <1>5, <1>6, <1>9 DEF Next, Scheduler, Handlers, BeginTick, TickStep,
       TickFails, ReadSave, ReadNew, WriteSave, ReadToggle, WriteToggle, Delete,
       Enqueue, Finish, Advance, vars, RecoverInv, Inv, BaseType
<1> QED
  BY <1>1, <1>8, <1>9

(* Whatever the panel had missed, crashed in or was editing: once served    *)
(* again after a restart, every slot lies after the restart.                *)
THEOREM RecoveredAhead == Spec => RecoveryCatchesUp
<1>1. Init => RecoverInv
  BY DEF Init, RecoverInv
<1>2. ASSUME Inv, RecoverInv, [Next]_vars, phase = "recovering", phase' = "serving",
             NEW t \in Ticks, NEW d \in Ids, tick[t] # None, IsRow(d), row[d].on
      PROVE  row'[d].next > tick[t].at
  <2>1. PICK u \in Ticks : TickStep(u)
    BY <1>2 DEF Next, Scheduler, Handlers, BeginTick, TickFails, Restart, ReadSave, ReadNew,
         WriteSave, ReadToggle, WriteToggle, Delete, Enqueue, Finish, Advance, Crash, vars
  <2>2. t = u /\ Ahead(t, DOMAIN tick[t].due)
    BY <1>2, <2>1 DEF TickStep, RecoverInv
  <2>3. PICK e \in DOMAIN tick[t].due : Fire(t, e) /\ DOMAIN tick[t].due \ {e} = {}
    BY <1>2, <2>1, <2>2 DEF TickStep
  <2> QED
    BY <1>2, <2>2, <2>3, Visit
<1>3. Inv /\ RecoverInv /\ [Next]_vars =>
        [phase = "recovering" /\ phase' = "serving" =>
           \A t \in Ticks, d \in Ids :
              tick[t] # None /\ IsRow(d) /\ row[d].on => row'[d].next > tick[t].at]_vars
  BY <1>2
<1> QED
  BY <1>1, <1>3, Invariance, RecoverStep, PTL DEF Spec, RecoveryCatchesUp

=============================================================================
