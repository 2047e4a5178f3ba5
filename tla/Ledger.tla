------------------------------- MODULE Ledger -------------------------------
(***************************************************************************)
(* What the run history of BaseGuard promises its user, without the worker *)
(* or the file protocol: a run is queued, started in the order of the      *)
(* queue, and settles; a confirmed run has a complete copy that survives a *)
(* power loss; a copy is given up only while a newer confirmed run of the  *)
(* same database exists, and a run is listed as expired only after that.   *)
(***************************************************************************)
EXTENDS Naturals

CONSTANTS Databases, None, MaxRuns

VARIABLES
    status,     \* the status the history shows for each run
    owner,      \* the database of each run, None before it is queued
    copies      \* confirmed runs whose complete copy can be downloaded

RunIds == 1..MaxRuns

Active(r) == status[r] \in {"queued", "running"}

Superseded(r) == \E s \in RunIds : /\ s > r /\ owner[s] = owner[r]
                                   /\ status[s] = "success" /\ s \in copies

First(r, S) == r \in S /\ \A s \in S : r <= s

Move(r, from, to) == /\ status[r] = from
                     /\ status' = [status EXCEPT ![r] = to]

Init == /\ status = [r \in RunIds |-> "unused"]
        /\ owner = [r \in RunIds |-> None]
        /\ copies = {}

(* At most one pending run of a database (README: "no maximo um trabalho    *)
(* pendente por banco").                                                    *)
Queue(r, d) ==
    /\ First(r, {s \in RunIds : status[s] = "unused"})
    /\ \A s \in RunIds : ~(owner[s] = d /\ Active(s))
    /\ Move(r, "unused", "queued")
    /\ owner' = [owner EXCEPT ![r] = d]
    /\ UNCHANGED copies

Begin(r) == /\ First(r, {s \in RunIds : status[s] = "queued"})
            /\ Move(r, "queued", "running")
            /\ UNCHANGED <<owner, copies>>

(* A run is confirmed together with its copy.                               *)
Confirm(r) == /\ Move(r, "running", "success")
              /\ copies' = copies \cup {r}
              /\ UNCHANGED owner

(* No failure touches the copies of other runs.                             *)
Fail(r) == Move(r, "running", "failed") /\ UNCHANGED <<owner, copies>>

(* After a restart no run is left running.                                  *)
Interrupt == /\ status' = [r \in RunIds |-> IF status[r] = "running"
                                            THEN "interrupted" ELSE status[r]]
             /\ UNCHANGED <<owner, copies>>

Drop(r) == /\ r \in copies
           /\ Superseded(r)
           /\ copies' = copies \ {r}
           /\ UNCHANGED <<status, owner>>

Expire(r) == /\ r \notin copies
             /\ Superseded(r)
             /\ Move(r, "success", "expired")
             /\ UNCHANGED <<owner, copies>>

(* A power loss may undo removals that were not confirmed yet; it never     *)
(* takes a copy away.                                                       *)
Reappear == \E S \in SUBSET {r \in RunIds : status[r] = "success"} :
               copies' = copies \cup S /\ UNCHANGED <<status, owner>>

Next == \/ \E r \in RunIds : \/ \E d \in Databases : Queue(r, d)
                             \/ Begin(r) \/ Confirm(r) \/ Fail(r)
                             \/ Drop(r) \/ Expire(r)
        \/ Interrupt \/ Reappear

Spec == Init /\ [][Next]_<<status, owner, copies>>

(* What the user of the history gets out of it: the newest confirmed run of *)
(* a database always has its copy, and an older one has it or is replaced.  *)
Covered == \A r \in RunIds : status[r] = "success" => r \in copies \/ Superseded(r)

=============================================================================
