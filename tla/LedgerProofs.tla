---------------------------- MODULE LedgerProofs ----------------------------
(***************************************************************************)
(* What Ledger is worth to its user, for every set of databases and every  *)
(* number of runs. With the refinement proved in RefinementProofs it holds *)
(* of the history that Worker keeps.                                       *)
(***************************************************************************)
EXTENDS Ledger, TLAPS

Statuses == {"unused", "queued", "running", "success", "failed", "interrupted", "expired"}

LedgerType == /\ status \in [RunIds -> Statuses]
              /\ owner \in [RunIds -> Databases \cup {None}]
              /\ copies \subseteq RunIds

LedgerInv == LedgerType /\ Covered

(* A newer run that replaces r is replaced itself by a newer one, if at all. *)
LEMMA SupersededTransitive ==
    ASSUME NEW r \in RunIds, NEW s \in RunIds, s > r, owner[s] = owner[r], Superseded(s)
    PROVE  \E t \in RunIds \ {s} : /\ t > r /\ owner[t] = owner[r]
                                   /\ status[t] = "success" /\ t \in copies
<1>1. PICK t \in RunIds : /\ t > s /\ owner[t] = owner[s]
                         /\ status[t] = "success" /\ t \in copies
  BY DEF Superseded
<1>2. t > r /\ t # s
  BY <1>1 DEF RunIds
<1> QED
  BY <1>1, <1>2

LEMMA LedgerStep == LedgerInv /\ [Next]_<<status, owner, copies>> => LedgerInv'
<1> SUFFICES ASSUME LedgerInv, [Next]_<<status, owner, copies>> PROVE LedgerInv'
  OBVIOUS
<1> USE DEF LedgerInv, LedgerType, Statuses, Move
<1>1. ASSUME NEW r \in RunIds, NEW d \in Databases, Queue(r, d) PROVE LedgerInv'
  BY <1>1 DEF Queue, Covered, Superseded
<1>2. ASSUME NEW r \in RunIds, Begin(r) \/ Fail(r) \/ Confirm(r) PROVE LedgerInv'
  BY <1>2 DEF Begin, Fail, Confirm, Covered, Superseded
<1>3. ASSUME NEW r \in RunIds, Drop(r) PROVE LedgerInv'
  <2>1. Superseded(r) /\ copies' = copies \ {r} /\ UNCHANGED <<status, owner>>
    BY <1>3 DEF Drop
  <2>2. ASSUME NEW s \in RunIds, status[s] = "success" PROVE (s \in copies \/ Superseded(s))'
    <3>1. CASE s \in copies /\ s # r
      BY <2>1, <3>1
    <3>2. CASE s = r
      <4>1. PICK t \in RunIds : /\ t > r /\ owner[t] = owner[r]
                               /\ status[t] = "success" /\ t \in copies
        BY <2>1 DEF Superseded
      <4>2. t # r
        BY <4>1 DEF RunIds
      <4> QED
        BY <2>1, <3>2, <4>1, <4>2 DEF Superseded
    <3>3. CASE Superseded(s)
      <4>1. PICK t \in RunIds : /\ t > s /\ owner[t] = owner[s]
                               /\ status[t] = "success" /\ t \in copies
        BY <3>3 DEF Superseded
      <4>2. CASE t # r
        BY <2>1, <4>1, <4>2 DEF Superseded
      <4>3. CASE t = r
        BY <2>1, <4>1, <4>3, SupersededTransitive DEF Superseded
      <4> QED
        BY <4>2, <4>3
    <3> QED
      BY <2>2, <3>1, <3>2, <3>3 DEF Covered
  <2> QED
    BY <2>1, <2>2 DEF Covered
<1>4. ASSUME NEW r \in RunIds, Expire(r) PROVE LedgerInv'
  BY <1>4 DEF Expire, Covered, Superseded
<1>5. CASE Interrupt
  BY <1>5 DEF Interrupt, Covered, Superseded
<1>6. CASE Reappear
  BY <1>6 DEF Reappear, Covered, Superseded
<1>7. CASE UNCHANGED <<status, owner, copies>>
  BY <1>7 DEF Covered, Superseded
<1> QED
  BY <1>1, <1>2, <1>3, <1>4, <1>5, <1>6, <1>7 DEF Next

(* A history that behaves as Ledger says never leaves a database that has a *)
(* confirmed run without the copy of the newest one.                        *)
THEOREM AlwaysCovered == Spec => []Covered
<1>1. Init => LedgerInv
  BY DEF Init, LedgerInv, LedgerType, Statuses, Covered
<1> QED
  BY <1>1, LedgerStep, PTL DEF Spec, LedgerInv

=============================================================================
