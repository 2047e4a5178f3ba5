--------------------------- MODULE SessionsProofs ---------------------------
(***************************************************************************)
(* Theorems about Sessions, for every number of handlers, addresses,       *)
(* sessions and changes of the password.                                   *)
(***************************************************************************)
EXTENDS Sessions, TLAPS

(* A handler that has compared with an older hash and not yet stored its    *)
(* session knows, through late, that the password changed since.            *)
LateLogins ==
    \A r \in Requests :
       req[r].step \in {"matched", "cleaned"} /\ req[r].by # hash => req[r].late

(* The handlers, as far as the argument needs their types                   *)
ReqType == req \in [Requests -> Request]

SessionType ==
    sessions \in [DOMAIN sessions -> [by : 0..MaxChanges, late : BOOLEAN, live : BOOLEAN]]

Inv == /\ hash \in 0..MaxChanges
       /\ ReqType /\ SessionType /\ LateLogins /\ StaleOnlyFromOverlap

USE BoundAssumption DEF Request, LoginSteps, Idle

(* Removing rows keeps what holds of every row.                             *)
LEMMA WithoutRows ==
    ASSUME NEW S, SessionType
    PROVE  /\ DOMAIN Without(S) = DOMAIN sessions \ S
           /\ \A t \in DOMAIN sessions \ S : Without(S)[t] = sessions[t]
           /\ Without(S) \in [DOMAIN sessions \ S -> [by : 0..MaxChanges, late : BOOLEAN, live : BOOLEAN]]
  BY DEF Without, Restrict, SessionType

LEMMA RowsDeleted ==
    ASSUME NEW S, SessionType, StaleOnlyFromOverlap, sessions' = Without(S),
           hash' = hash \/ S = DOMAIN sessions
    PROVE  SessionType' /\ StaleOnlyFromOverlap'
<1>1. /\ DOMAIN sessions' = DOMAIN sessions \ S
      /\ \A t \in DOMAIN sessions' : sessions'[t] = sessions[t]
      /\ SessionType'
  BY WithoutRows DEF SessionType
<1>2. CASE hash' = hash
  BY <1>1, <1>2 DEF StaleOnlyFromOverlap
<1>3. CASE S = DOMAIN sessions
  BY <1>1, <1>3 DEF StaleOnlyFromOverlap
<1> QED
  BY <1>1, <1>2, <1>3

LEMMA NewRequest ==
    ASSUME NEW step \in LoginSteps \cup {"idle", "leaving", "authed", "confirmed"},
           NEW from \in Addresses \cup Tokens \cup {None}
    PROVE  [Idle EXCEPT !.step = step, !.from = from] \in Request
<1>1. Idle \in Request
  OBVIOUS
<1> HIDE DEF Idle
<1> QED
  BY <1>1

LEMMA LateRequest ==
    ASSUME NEW q \in Request, NEW late \in BOOLEAN
    PROVE  [q EXCEPT !.late = late] \in Request
  OBVIOUS

LEMMA InvInit == Init => Inv
<1> SUFFICES ASSUME Init PROVE Inv
  OBVIOUS
<1>1. hash = 0 /\ sessions = <<>> /\ req = [r \in Requests |-> Idle]
  BY DEF Init
<1>2. DOMAIN sessions = {}
  BY <1>1
<1>3. ReqType /\ LateLogins
  BY <1>1 DEF ReqType, LateLogins
<1>4. SessionType /\ StaleOnlyFromOverlap
  BY <1>1, <1>2 DEF SessionType, StaleOnlyFromOverlap
<1> QED
  BY <1>1, <1>3, <1>4 DEF Inv

LEMMA InvStep == Inv /\ [Next]_vars => Inv'
<1> SUFFICES ASSUME Inv, [Next]_vars PROVE Inv'
  OBVIOUS
<1> USE DEF Inv
<1>1. ASSUME NEW r \in Requests, NEW a \in Addresses, Login(r, a) PROVE Inv'
  <2>1. hash' \in 0..MaxChanges
    BY <1>1 DEF Login
  <2>2. ReqType'
    <3>1. req' = req \/ req' = [req EXCEPT ![r] = [Idle EXCEPT !.step = "admitted", !.from = a]]
      BY <1>1 DEF Login
    <3>2. [Idle EXCEPT !.step = "admitted", !.from = a] \in Request
      BY NewRequest
    <3> HIDE DEF Idle, Request
    <3> QED
      BY <3>1, <3>2 DEF ReqType
  <2>3. LateLogins'
    BY <1>1 DEF Login, LateLogins, ReqType, Goto
  <2>4. SessionType'
    BY <1>1 DEF Login, SessionType, ReqType
  <2>5. StaleOnlyFromOverlap'
    BY <1>1 DEF Login, StaleOnlyFromOverlap, LateLogins, SessionType
  <2> QED
    BY <2>1, <2>2, <2>3, <2>4, <2>5
<1>2. ASSUME NEW r \in Requests, Compare(r) PROVE Inv'
  <2>1. hash' \in 0..MaxChanges
    BY <1>2 DEF Compare
  <2>2. ReqType'
    BY <1>2 DEF Compare, ReqType, Goto
  <2>3. LateLogins'
    BY <1>2 DEF Compare, LateLogins, ReqType, Goto
  <2>4. SessionType'
    BY <1>2 DEF Compare, SessionType, ReqType
  <2>5. StaleOnlyFromOverlap'
    BY <1>2 DEF Compare, StaleOnlyFromOverlap, LateLogins, SessionType
  <2> QED
    BY <2>1, <2>2, <2>3, <2>4, <2>5
<1>3. ASSUME NEW r \in Requests, Clean(r) PROVE Inv'
  <2>1. hash' \in 0..MaxChanges
    BY <1>3 DEF Clean
  <2>2. ReqType'
    BY <1>3 DEF Clean, ReqType, Goto
  <2>3. LateLogins'
    BY <1>3 DEF Clean, LateLogins, ReqType, Goto
  <2>4. SessionType'
    BY <1>3, RowsDeleted DEF Clean
  <2>5. StaleOnlyFromOverlap'
    BY <1>3, RowsDeleted DEF Clean
  <2> QED
    BY <2>1, <2>2, <2>3, <2>4, <2>5
<1>4. ASSUME NEW r \in Requests, Open(r) PROVE Inv'
  <2>1. hash' \in 0..MaxChanges
    BY <1>4 DEF Open
  <2>2. ReqType'
    BY <1>4 DEF Open, ReqType, Goto
  <2>3. LateLogins'
    BY <1>4 DEF Open, LateLogins, ReqType, Goto
  <2>4. SessionType'
    BY <1>4 DEF Open, SessionType, ReqType
  <2>5. StaleOnlyFromOverlap'
    BY <1>4 DEF Open, StaleOnlyFromOverlap, LateLogins, SessionType
  <2> QED
    BY <2>1, <2>2, <2>3, <2>4, <2>5
<1>5. ASSUME NEW r \in Requests, Forget(r) PROVE Inv'
  <2>1. hash' \in 0..MaxChanges
    BY <1>5 DEF Forget
  <2>2. ReqType'
    BY <1>5 DEF Forget, ReqType, Goto
  <2>3. LateLogins'
    BY <1>5 DEF Forget, LateLogins, ReqType, Goto
  <2>4. SessionType'
    BY <1>5 DEF Forget, SessionType, ReqType
  <2>5. StaleOnlyFromOverlap'
    BY <1>5 DEF Forget, StaleOnlyFromOverlap, LateLogins, SessionType
  <2> QED
    BY <2>1, <2>2, <2>3, <2>4, <2>5
<1>6. ASSUME NEW r \in Requests, NEW t \in Tokens, Authenticate(r, t) PROVE Inv'
  <2>1. hash' \in 0..MaxChanges
    BY <1>6 DEF Authenticate
  <2>2. ReqType'
    <3>1. PICK step \in {"leaving", "authed"} :
            req' = [req EXCEPT ![r] = [Idle EXCEPT !.step = step, !.from = t]]
      BY <1>6 DEF Authenticate
    <3>2. [Idle EXCEPT !.step = step, !.from = t] \in Request
      BY NewRequest
    <3> HIDE DEF Idle, Request
    <3> QED
      BY <3>1, <3>2 DEF ReqType
  <2>3. LateLogins'
    BY <1>6 DEF Authenticate, LateLogins, ReqType, Goto
  <2>4. SessionType'
    BY <1>6 DEF Authenticate, SessionType, ReqType
  <2>5. StaleOnlyFromOverlap'
    BY <1>6 DEF Authenticate, StaleOnlyFromOverlap, LateLogins, SessionType
  <2> QED
    BY <2>1, <2>2, <2>3, <2>4, <2>5
<1>7. ASSUME NEW r \in Requests, Logout(r) PROVE Inv'
  <2>1. hash' \in 0..MaxChanges
    BY <1>7 DEF Logout
  <2>2. ReqType'
    BY <1>7 DEF Logout, ReqType, Goto
  <2>3. LateLogins'
    BY <1>7 DEF Logout, LateLogins, ReqType, Goto
  <2>4. SessionType'
    BY <1>7, RowsDeleted DEF Logout
  <2>5. StaleOnlyFromOverlap'
    BY <1>7, RowsDeleted DEF Logout
  <2> QED
    BY <2>1, <2>2, <2>3, <2>4, <2>5
<1>8. ASSUME NEW r \in Requests, Confirm(r) PROVE Inv'
  <2>1. hash' \in 0..MaxChanges
    BY <1>8 DEF Confirm
  <2>2. ReqType'
    BY <1>8 DEF Confirm, ReqType, Goto
  <2>3. LateLogins'
    BY <1>8 DEF Confirm, LateLogins, ReqType, Goto
  <2>4. SessionType'
    BY <1>8 DEF Confirm, SessionType, ReqType
  <2>5. StaleOnlyFromOverlap'
    BY <1>8 DEF Confirm, StaleOnlyFromOverlap, LateLogins, SessionType
  <2> QED
    BY <2>1, <2>2, <2>3, <2>4, <2>5
<1>9. ASSUME NEW r \in Requests, Change(r) PROVE Inv'
  <2>1. hash' \in 0..MaxChanges
    BY <1>9 DEF Change
  <2>2. ReqType'
    <3> DEFINE late(q) == req[q].late \/ req[q].step \in {"matched", "cleaned"}
    <3>1. \A q \in Requests : late(q) \in BOOLEAN
      BY DEF ReqType
    <3>2. req' = [q \in Requests |-> IF q = r THEN Idle ELSE [req[q] EXCEPT !.late = late(q)]]
      BY <1>9 DEF Change
    <3>3. Idle \in Request
      OBVIOUS
    <3> HIDE DEF late, Idle
    <3>4. \A q \in Requests : [req[q] EXCEPT !.late = late(q)] \in Request
      BY <3>1, LateRequest DEF ReqType
    <3> HIDE DEF Request
    <3> QED
      BY <3>2, <3>3, <3>4 DEF ReqType
  <2>3. LateLogins'
    BY <1>9 DEF Change, LateLogins, ReqType, Goto
  <2>4. SessionType'
    BY <1>9, RowsDeleted DEF Change, EndedBy
  <2>5. StaleOnlyFromOverlap'
    BY <1>9, RowsDeleted DEF Change, EndedBy
  <2> QED
    BY <2>1, <2>2, <2>3, <2>4, <2>5
<1>10. ASSUME NEW r \in Requests, Fail(r) PROVE Inv'
  <2>1. hash' \in 0..MaxChanges
    BY <1>10 DEF Fail
  <2>2. ReqType'
    BY <1>10 DEF Fail, ReqType, Goto
  <2>3. LateLogins'
    BY <1>10 DEF Fail, LateLogins, ReqType, Goto
  <2>4. SessionType'
    BY <1>10 DEF Fail, SessionType, ReqType
  <2>5. StaleOnlyFromOverlap'
    BY <1>10 DEF Fail, StaleOnlyFromOverlap, LateLogins, SessionType
  <2> QED
    BY <2>1, <2>2, <2>3, <2>4, <2>5
<1>11. ASSUME NEW t \in Tokens, Expire(t) PROVE Inv'
  <2>1. hash' \in 0..MaxChanges
    BY <1>11 DEF Expire
  <2>2. ReqType'
    BY <1>11 DEF Expire, ReqType, Goto
  <2>3. LateLogins'
    BY <1>11 DEF Expire, LateLogins, ReqType, Goto
  <2>4. SessionType'
    <3>1. sessions' = [sessions EXCEPT ![t].live = FALSE] /\ t \in DOMAIN sessions
      BY <1>11 DEF Expire, Live
    <3> DEFINE dead == FALSE
    <3>2. sessions' = [sessions EXCEPT ![t] = [sessions[t] EXCEPT !.live = dead]]
      BY <3>1
    <3>3. dead \in BOOLEAN
      OBVIOUS
    <3> HIDE DEF dead
    <3>4. [sessions[t] EXCEPT !.live = dead] \in
             [by : 0..MaxChanges, late : BOOLEAN, live : BOOLEAN]
      BY <3>1, <3>3 DEF SessionType
    <3> QED
      BY <3>1, <3>2, <3>4 DEF SessionType
  <2>5. StaleOnlyFromOverlap'
    BY <1>11 DEF Expire, StaleOnlyFromOverlap, LateLogins, SessionType
  <2> QED
    BY <2>1, <2>2, <2>3, <2>4, <2>5
<1>12. ASSUME Tick PROVE Inv'
  <2>1. hash' \in 0..MaxChanges
    BY <1>12 DEF Tick
  <2>2. ReqType'
    BY <1>12 DEF Tick, ReqType, Goto
  <2>3. LateLogins'
    BY <1>12 DEF Tick, LateLogins, ReqType, Goto
  <2>4. SessionType'
    BY <1>12 DEF Tick, SessionType, ReqType
  <2>5. StaleOnlyFromOverlap'
    BY <1>12 DEF Tick, StaleOnlyFromOverlap, LateLogins, SessionType
  <2> QED
    BY <2>1, <2>2, <2>3, <2>4, <2>5
<1>13. ASSUME Restart PROVE Inv'
  <2>1. hash' \in 0..MaxChanges
    BY <1>13 DEF Restart
  <2>2. ReqType'
    BY <1>13 DEF Restart, ReqType, Goto
  <2>3. LateLogins'
    BY <1>13 DEF Restart, LateLogins, ReqType, Goto
  <2>4. SessionType'
    BY <1>13 DEF Restart, SessionType, ReqType
  <2>5. StaleOnlyFromOverlap'
    BY <1>13 DEF Restart, StaleOnlyFromOverlap, LateLogins, SessionType
  <2> QED
    BY <2>1, <2>2, <2>3, <2>4, <2>5
<1>14. ASSUME UNCHANGED vars PROVE Inv'
  <2>1. hash' \in 0..MaxChanges
    BY <1>14 DEF vars
  <2>2. ReqType'
    BY <1>14 DEF vars, ReqType, Goto
  <2>3. LateLogins'
    BY <1>14 DEF vars, LateLogins, ReqType, Goto
  <2>4. SessionType'
    BY <1>14 DEF vars, SessionType, ReqType
  <2>5. StaleOnlyFromOverlap'
    BY <1>14 DEF vars, StaleOnlyFromOverlap, LateLogins, SessionType
  <2> QED
    BY <2>1, <2>2, <2>3, <2>4, <2>5
<1> QED
  BY <1>1, <1>2, <1>3, <1>4, <1>5, <1>6, <1>7,
     <1>8, <1>9, <1>10, <1>11, <1>12, <1>13, <1>14 DEF Next

(* A session of an older password was being opened while the password       *)
(* changed: DELETE FROM sessions reaches every other one (server.go:518).   *)
THEOREM StaleSessions == Spec => []StaleOnlyFromOverlap
<1>1. Init => Inv
  BY InvInit
<1>2. Inv /\ [Next]_vars => Inv'
  BY InvStep
<1>3. Inv => StaleOnlyFromOverlap
  BY DEF Inv
<1> QED
  BY <1>1, <1>2, <1>3, PTL DEF Spec

LEMMA Invariance == Spec => []Inv
  BY InvInit, InvStep, PTL DEF Spec

-----------------------------------------------------------------------------
(* The limiter                                                              *)

LimiterType ==
    /\ DOMAIN attempts \subseteq Addresses
    /\ \A a \in DOMAIN attempts : attempts[a] \in [count : 1..(MaxAttempts + 1), age : Ages]
    /\ \A r \in Requests : req[r].step \in LoginSteps => req[r].from \in Addresses
    /\ recent \in [Addresses -> [1..(2 * MaxAttempts) -> Ages]]

(* How many logins of its address an entry can have let through             *)
Through(entry) == IF entry.count > MaxAttempts THEN MaxAttempts ELSE entry.count

(* The latest come first. An entry is no older than the login as many back  *)
(* as it can have let through, and MaxAttempts before that one another      *)
(* Window has begun; so it has where there is no entry.                     *)
Spaced ==
    \A a \in Addresses :
      /\ \A j, k \in 1..(2 * MaxAttempts) : j < k => recent[a][j] <= recent[a][k]
      /\ a \notin DOMAIN attempts => recent[a][MaxAttempts] > Window
      /\ a \in DOMAIN attempts =>
           /\ recent[a][Through(attempts[a])] >= attempts[a].age
           /\ recent[a][MaxAttempts + Through(attempts[a])] > Window

(* A login that is let through moves the others one back.                   *)
LEMMA Shifted ==
    ASSUME NEW ages \in [1..(2 * MaxAttempts) -> Ages],
           \A j, k \in 1..(2 * MaxAttempts) : j < k => ages[j] <= ages[k]
    PROVE  /\ Passed(ages) \in [1..(2 * MaxAttempts) -> Ages]
           /\ \A j, k \in 1..(2 * MaxAttempts) : j < k => Passed(ages)[j] <= Passed(ages)[k]
           /\ \A j \in 1..(2 * MaxAttempts) : Passed(ages)[j] = IF j = 1 THEN 0 ELSE ages[j - 1]
<1> DEFINE N == 2 * MaxAttempts
<1>1. N \in Nat
  OBVIOUS
<1>2. \A j \in 1..N : ages[j] \in Nat /\ ages[j] \in Ages /\ 0 \in Ages
  BY DEF Ages
<1>3. Passed(ages) = [k \in 1..N |-> IF k = 1 THEN 0 ELSE ages[k - 1]]
  BY DEF Passed
<1>4. \A j \in 1..N : j # 1 => j - 1 \in 1..N
  BY <1>1
<1> HIDE DEF N
<1> QED
  BY <1>1, <1>2, <1>3, <1>4 DEF N

LEMMA LimiterInit == Init => LimiterType /\ Spaced
<1> SUFFICES ASSUME Init PROVE LimiterType /\ Spaced
  OBVIOUS
<1>1. DOMAIN attempts = {} /\ \A a \in Addresses : recent[a] = Never
  BY DEF Init
<1>2. Never \in [1..(2 * MaxAttempts) -> Ages] /\ \A k \in DOMAIN Never : Never[k] > Window
  BY DEF Never, Ages
<1> QED
  BY <1>1, <1>2 DEF Init, LimiterType, Spaced, Never

(* An entry that counts on, or is opened, keeps its distance.               *)
LEMMA Distance ==
    ASSUME NEW ages \in [1..(2 * MaxAttempts) -> Ages],
           \A j, k \in 1..(2 * MaxAttempts) : j < k => ages[j] <= ages[k],
           NEW now, now = ages \/ now = Passed(ages),
           NEW age \in Nat, NEW old \in 0..MaxAttempts, NEW p \in 1..MaxAttempts,
           \/ old = 0 /\ age = 0 /\ p = 1
           \/ old # 0 /\ ages[old] >= age /\ (p = old + 1 \/ (now = ages /\ p = old)),
           ages[MaxAttempts + old] > Window
    PROVE  now[p] >= age /\ now[MaxAttempts + p] > Window
<1> DEFINE N == 2 * MaxAttempts
           M == MaxAttempts
<1>1. N \in Nat /\ M \in Nat \ {0} /\ N = M + M
  OBVIOUS
<1>2. \A j \in 1..N : ages[j] \in Nat
  BY DEF Ages
<1>3. \A j \in 1..N : Passed(ages)[j] = IF j = 1 THEN 0 ELSE ages[j - 1]
  BY Shifted
<1> HIDE DEF N, M
<1>4. /\ p \in 1..N /\ M + p \in 1..N /\ M + old \in 1..N /\ M + p # 1 /\ p \in 1..M
      /\ (M + p) - 1 \in 1..N
  BY <1>1 DEF M
<1>5. CASE now = ages
  <2> DEFINE i == M + old
             k == M + p
  <2>1. i = k \/ i < k
    BY <1>1, <1>5 DEF M
  <2>2. \A j, l \in 1..N : j < l => ages[j] <= ages[l]
    BY DEF N
  <2>3. ages[i] <= ages[k]
    <3>1. i \in 1..N /\ k \in 1..N
      BY <1>4
    <3> HIDE DEF i, k
    <3> QED
      BY <1>2, <2>1, <2>2, <3>1
  <2>4. ages[p] >= age
    <3>1. CASE old = 0
      BY <1>2, <1>4, <3>1
    <3>2. CASE old # 0 /\ p = old
      BY <3>2
    <3>3. CASE old # 0 /\ p = old + 1
      <4>1. old \in 1..N /\ old < p /\ ages[old] >= age
        BY <1>1, <1>4, <3>3 DEF M
      <4>2. ages[old] <= ages[p]
        BY <1>4, <2>2, <4>1
      <4> QED
        BY <1>2, <1>4, <4>1, <4>2
    <3> QED
      BY <3>1, <3>2, <3>3
  <2>5. ages[k] > Window
    <3>1. ages[i] > Window /\ i \in 1..N /\ k \in 1..N
      BY <1>4 DEF M
    <3>2. ages[i] \in Nat /\ ages[k] \in Nat /\ Window \in Nat
      BY <1>2, <3>1
    <3> QED
      BY <2>3, <3>1, <3>2
  <2> QED
    BY <1>5, <2>4, <2>5 DEF M
<1>6. CASE now = Passed(ages) /\ p = old + 1
  <2>1. (M + p) - 1 = M + old /\ (old # 0 => p # 1 /\ p - 1 = old)
    BY <1>1, <1>6 DEF M
  <2>2. now[M + p] = ages[M + old] /\ now[p] = IF p = 1 THEN 0 ELSE ages[p - 1]
    BY <1>3, <1>4, <1>6, <2>1
  <2> QED
    BY <1>6, <2>1, <2>2 DEF M
<1> QED
  BY <1>5, <1>6

(* Where there is no entry, or one that is dropped, the login MaxAttempts   *)
(* back is older than Window.                                               *)
LEMMA Dropped ==
    ASSUME LimiterType, Spaced, NEW b \in Addresses, b \notin DOMAIN Kept
    PROVE  recent[b][MaxAttempts] > Window
<1>1. CASE b \notin DOMAIN attempts
  BY <1>1 DEF Spaced
<1>2. CASE b \in DOMAIN attempts
  <2> DEFINE p == Through(attempts[b])
             ages == recent[b]
  <2>1. attempts[b].age > Window
    BY <1>2 DEF Kept, Restrict, LimiterType, Ages
  <2>2. /\ p \in 1..MaxAttempts /\ ages[p] >= attempts[b].age
        /\ \A j, k \in 1..(2 * MaxAttempts) : j < k => ages[j] <= ages[k]
        /\ \A j \in 1..(2 * MaxAttempts) : ages[j] \in Nat
        /\ attempts[b].age \in Nat
    <3>1. /\ ages[p] >= attempts[b].age
          /\ \A j, k \in 1..(2 * MaxAttempts) : j < k => ages[j] <= ages[k]
      BY <1>2 DEF Spaced
    <3>2. attempts[b] \in [count : 1..(MaxAttempts + 1), age : Ages] /\ ages \in [1..(2 * MaxAttempts) -> Ages]
      BY <1>2 DEF LimiterType
    <3>3. p \in 1..MaxAttempts /\ attempts[b].age \in Nat
      BY <3>2 DEF Through, Ages
    <3>4. \A j \in 1..(2 * MaxAttempts) : ages[j] \in Nat
      BY <3>2 DEF Ages
    <3> QED
      BY <3>1, <3>3, <3>4
  <2>3. p \in 1..(2 * MaxAttempts) /\ MaxAttempts \in 1..(2 * MaxAttempts)
    BY <2>2
  <2>4. ages[p] <= ages[MaxAttempts]
    <3> HIDE DEF p, ages
    <3> QED
      BY <2>2, <2>3
  <2> HIDE DEF p, ages
  <2>5. ages[MaxAttempts] > Window
    BY <2>1, <2>2, <2>3, <2>4
  <2> QED
    BY <2>5 DEF ages
<1> QED
  BY <1>1, <1>2

LEMMA LimiterStep == Inv /\ LimiterType /\ Spaced /\ [Next]_vars => LimiterType' /\ Spaced'
<1> SUFFICES ASSUME Inv, LimiterType, Spaced, [Next]_vars PROVE LimiterType' /\ Spaced'
  OBVIOUS
<1> DEFINE N == 2 * MaxAttempts
<1>0. /\ N \in Nat /\ MaxAttempts \in 1..N /\ Window \in Nat /\ MaxAttempts \in Nat
      /\ \A e \in [count : 1..(MaxAttempts + 1), age : Ages] :
           /\ Through(e) \in 1..MaxAttempts
           /\ Through(e) \in 1..N /\ MaxAttempts + Through(e) \in 1..N
  BY DEF Through
<1>1. ASSUME NEW r \in Requests, NEW a \in Addresses, Login(r, a) PROVE LimiterType' /\ Spaced'
  <2> DEFINE entry == Entry(Kept, a)
  <2>1. /\ DOMAIN Kept = {b \in DOMAIN attempts : attempts[b].age <= Window}
        /\ \A b \in DOMAIN Kept : Kept[b] = attempts[b]
    BY DEF Kept, Restrict
  <2>2. \/ /\ a \notin DOMAIN Kept
           /\ entry.count = 1 /\ entry.age = 0
        \/ /\ a \in DOMAIN Kept /\ entry.age = attempts[a].age
           /\ entry.count = IF attempts[a].count > MaxAttempts THEN attempts[a].count
                                                              ELSE attempts[a].count + 1
    BY <2>1 DEF Entry, LimiterType
  <2>3. entry \in [count : 1..(MaxAttempts + 1), age : Ages]
    <3>1. CASE a \notin DOMAIN Kept
      BY <3>1 DEF Entry, Ages
    <3>2. CASE a \in DOMAIN Kept
      <4> DEFINE n == IF attempts[a].count > MaxAttempts THEN attempts[a].count
                                                         ELSE attempts[a].count + 1
      <4>1. /\ entry = [attempts[a] EXCEPT !.count = n]
            /\ attempts[a] \in [count : 1..(MaxAttempts + 1), age : Ages]
        BY <2>1, <3>2 DEF Entry, LimiterType
      <4>2. n \in 1..(MaxAttempts + 1)
        BY <1>0, <4>1
      <4> HIDE DEF n, entry
      <4> QED
        BY <4>1, <4>2
    <3> QED
      BY <3>1, <3>2
  <2>4. /\ DOMAIN attempts' = DOMAIN Kept \cup {a}
        /\ attempts'[a] = entry
        /\ \A b \in DOMAIN Kept \ {a} : attempts'[b] = attempts[b]
    BY <1>1, <2>1 DEF Login
  <2>5. \/ UNCHANGED <<req, recent>>
        \/ /\ entry.count <= MaxAttempts
           /\ req' = [req EXCEPT ![r] = [Idle EXCEPT !.step = "admitted", !.from = a]]
           /\ recent' = [recent EXCEPT ![a] = Passed(@)]
    BY <1>0, <1>1, <2>3 DEF Login
  <2> HIDE DEF entry
  <2> DEFINE ages == recent[a]
  <2>6. /\ ages \in [1..N -> Ages]
        /\ \A j, k \in 1..N : j < k => ages[j] <= ages[k]
        /\ Passed(ages) \in [1..N -> Ages]
        /\ \A j, k \in 1..N : j < k => Passed(ages)[j] <= Passed(ages)[k]
        /\ \A j \in 1..N : Passed(ages)[j] = IF j = 1 THEN 0 ELSE ages[j - 1]
    <3>1. ages \in [1..N -> Ages] /\ \A j, k \in 1..N : j < k => ages[j] <= ages[k]
      BY DEF LimiterType, Spaced
    <3> HIDE DEF ages
    <3> QED
      BY <3>1, Shifted
  <2>7. LimiterType'
    <3>1. recent' \in [Addresses -> [1..N -> Ages]]
      BY <2>5, <2>6 DEF LimiterType
    <3>2. \A b \in DOMAIN attempts' : /\ b \in Addresses
                                      /\ attempts'[b] \in [count : 1..(MaxAttempts + 1), age : Ages]
      BY <2>1, <2>3, <2>4 DEF LimiterType
    <3>3. \A q \in Requests : req'[q].step \in LoginSteps => req'[q].from \in Addresses
      <4>1. /\ [Idle EXCEPT !.step = "admitted", !.from = a].step = "admitted"
            /\ [Idle EXCEPT !.step = "admitted", !.from = a].from = a
        OBVIOUS
      <4> QED
        BY <2>5, <4>1 DEF LimiterType, Inv, ReqType
    <3> QED
      BY <3>1, <3>2, <3>3 DEF LimiterType
  <2>8. ASSUME NEW b \in Addresses \ {a}
        PROVE  /\ recent'[b] = recent[b]
               /\ b \notin DOMAIN attempts' => recent'[b][MaxAttempts] > Window
               /\ b \in DOMAIN attempts' => b \in DOMAIN attempts /\ attempts'[b] = attempts[b]
    <3>1. recent'[b] = recent[b]
      BY <2>5 DEF LimiterType
    <3>2. b \in DOMAIN attempts' <=> b \in DOMAIN Kept
      BY <2>4
    <3>3. b \notin DOMAIN Kept => recent[b][MaxAttempts] > Window
      BY Dropped
    <3> QED
      BY <2>1, <2>4, <3>1, <3>2, <3>3
  <2>9. /\ \A j, k \in 1..N : j < k => recent'[a][j] <= recent'[a][k]
        /\ recent'[a][Through(entry)] >= entry.age
        /\ recent'[a][MaxAttempts + Through(entry)] > Window
    <3> DEFINE p == Through(entry)
               now == recent'[a]
    <3>1. /\ now = ages \/ (now = Passed(ages) /\ entry.count <= MaxAttempts)
      BY <2>5 DEF LimiterType
    <3>2. \A j, k \in 1..N : j < k => now[j] <= now[k]
      BY <2>6, <3>1
    <3>3. \E old \in 0..MaxAttempts :
            /\ \/ old = 0 /\ entry.age = 0 /\ p = 1
               \/ old # 0 /\ ages[old] >= entry.age /\ (p = old + 1 \/ (now = ages /\ p = old))
            /\ ages[MaxAttempts + old] > Window
      <4>1. CASE a \notin DOMAIN Kept
        <5>1. p = 1 /\ entry.age = 0
          BY <1>0, <2>2, <4>1 DEF Through
        <5>2. ages[MaxAttempts + 0] > Window
          BY <1>0, <4>1, Dropped
        <5> QED
          BY <1>0, <5>1, <5>2
      <4>2. CASE a \in DOMAIN Kept
        <5> DEFINE old == Through(attempts[a])
        <5>1. /\ entry.age = attempts[a].age
              /\ entry.count = IF attempts[a].count > MaxAttempts THEN attempts[a].count
                                                                  ELSE attempts[a].count + 1
              /\ attempts[a].count \in 1..(MaxAttempts + 1)
          BY <2>1, <2>2, <4>2 DEF LimiterType
        <5>2. /\ old \in 1..MaxAttempts /\ old # 0 /\ (p = old + 1 \/ p = old)
              /\ entry.count <= MaxAttempts => p = old + 1
          BY <1>0, <5>1 DEF Through
        <5>3. ages[old] >= entry.age /\ ages[MaxAttempts + old] > Window
          BY <2>1, <4>2, <5>1 DEF Spaced
        <5> HIDE DEF old, now, p, ages
        <5>4. old \in 0..MaxAttempts /\ (p = old + 1 \/ (now = ages /\ p = old))
          BY <1>0, <3>1, <5>2
        <5> QED
          BY <5>2, <5>3, <5>4
      <4> QED
        BY <4>1, <4>2
    <3>4. p \in 1..MaxAttempts /\ entry.age \in Nat
      BY <1>0, <2>3 DEF Ages
    <3>5. now[p] >= entry.age /\ now[MaxAttempts + p] > Window
      <4> HIDE DEF now, ages, p
      <4> QED
        BY <2>6, <3>1, <3>3, <3>4, Distance
    <3> QED
      BY <3>2, <3>5
  <2>10. ASSUME NEW b \in Addresses
        PROVE  /\ \A j, k \in 1..N : j < k => recent'[b][j] <= recent'[b][k]
               /\ b \notin DOMAIN attempts' => recent'[b][MaxAttempts] > Window
               /\ b \in DOMAIN attempts' =>
                    /\ recent'[b][Through(attempts'[b])] >= attempts'[b].age
                    /\ recent'[b][MaxAttempts + Through(attempts'[b])] > Window
    BY <2>4, <2>8, <2>9 DEF Spaced
  <2> QED
    BY <2>7, <2>10 DEF Spaced
<1>2. ASSUME NEW r \in Requests, Forget(r) PROVE LimiterType' /\ Spaced'
  <2> DEFINE a == req[r].from
  <2>1. a \in Addresses
    BY <1>2 DEF Forget, LimiterType
  <2>2. /\ DOMAIN attempts' = DOMAIN attempts \ {a}
        /\ \A b \in DOMAIN attempts' : attempts'[b] = attempts[b]
    BY <1>2 DEF Forget, Restrict
  <2>3. /\ recent' = [recent EXCEPT ![a] = Never] /\ req' = [req EXCEPT ![r] = Idle]
    BY <1>2 DEF Forget
  <2>4. Never \in [1..N -> Ages] /\ \A k \in 1..N : Never[k] = Window + 1
    BY DEF Never, Ages
  <2>5. LimiterType'
    BY <2>1, <2>2, <2>3, <2>4 DEF LimiterType, Inv, ReqType
  <2> HIDE DEF a
  <2>6. \A b \in Addresses : recent'[b] = IF b = a THEN Never ELSE recent[b]
    BY <2>1, <2>3 DEF LimiterType
  <2>7. ASSUME NEW b \in Addresses
        PROVE  /\ \A j, k \in 1..N : j < k => recent'[b][j] <= recent'[b][k]
               /\ b \notin DOMAIN attempts' => recent'[b][MaxAttempts] > Window
               /\ b \in DOMAIN attempts' =>
                    /\ recent'[b][Through(attempts'[b])] >= attempts'[b].age
                    /\ recent'[b][MaxAttempts + Through(attempts'[b])] > Window
    <3>1. CASE b = a
      <4>1. recent'[b] = Never /\ b \notin DOMAIN attempts'
        BY <2>2, <2>6, <3>1
      <4> HIDE DEF N
      <4> QED
        BY <1>0, <2>4, <4>1
    <3>2. CASE b # a
      <4>1. /\ recent'[b] = recent[b] /\ (b \in DOMAIN attempts' <=> b \in DOMAIN attempts)
            /\ b \in DOMAIN attempts' => attempts'[b] = attempts[b]
        BY <2>2, <2>6, <3>2
      <4> QED
        BY <4>1 DEF Spaced
    <3> QED
      BY <3>1, <3>2
  <2>8. Spaced'
    BY <2>7 DEF Spaced
  <2> QED
    BY <2>5, <2>8
<1>3. ASSUME Tick PROVE LimiterType' /\ Spaced'
  <2>1. \A g \in Ages : Older(g) \in Ages /\ (g > Window => Older(g) > Window)
    BY <1>0 DEF Older, Ages
  <2>2. \A g, h \in Ages : g <= h => Older(g) <= Older(h)
    BY <1>0 DEF Older, Ages
  <2>3. /\ DOMAIN attempts' = DOMAIN attempts
        /\ \A a \in DOMAIN attempts : attempts'[a] = [attempts[a] EXCEPT !.age = Older(attempts[a].age)]
    BY <1>3 DEF Tick
  <2>4. \A a \in DOMAIN attempts : /\ attempts'[a] \in [count : 1..(MaxAttempts + 1), age : Ages]
                                  /\ attempts'[a].age = Older(attempts[a].age)
                                  /\ attempts'[a].count = attempts[a].count
    BY <2>1, <2>3 DEF LimiterType
  <2>5. \A a \in Addresses : /\ recent'[a] = [k \in 1..N |-> Older(recent[a][k])]
                            /\ \A k \in 1..N : recent[a][k] \in Ages
    BY <1>3 DEF Tick, Never, LimiterType
  <2>6. LimiterType'
    BY <1>3, <2>1, <2>3, <2>4, <2>5 DEF LimiterType, Tick, Never
  <2>7. ASSUME NEW a \in Addresses
        PROVE  /\ \A j, k \in 1..N : j < k => recent'[a][j] <= recent'[a][k]
               /\ a \notin DOMAIN attempts' => recent'[a][MaxAttempts] > Window
    <3>1. /\ \A j, k \in 1..N : j < k => recent[a][j] <= recent[a][k]
          /\ a \notin DOMAIN attempts => recent[a][MaxAttempts] > Window
      BY DEF Spaced
    <3> HIDE DEF N
    <3>2. \A k \in 1..N : recent'[a][k] = Older(recent[a][k]) /\ recent[a][k] \in Ages
      BY <2>5
    <3>3. \A j, k \in 1..N : j < k => recent'[a][j] <= recent'[a][k]
      BY <2>2, <3>1, <3>2
    <3> QED
      BY <1>0, <2>1, <2>3, <3>1, <3>2, <3>3
  <2>8. ASSUME NEW a \in DOMAIN attempts
        PROVE  /\ recent'[a][Through(attempts'[a])] >= attempts'[a].age
               /\ recent'[a][MaxAttempts + Through(attempts'[a])] > Window
    <3>1. /\ Through(attempts'[a]) = Through(attempts[a]) /\ attempts[a].age \in Ages
          /\ Through(attempts[a]) \in 1..N /\ MaxAttempts + Through(attempts[a]) \in 1..N
          /\ a \in Addresses
      BY <1>0, <2>4 DEF Through, LimiterType
    <3>2. /\ recent[a][Through(attempts[a])] >= attempts[a].age
          /\ recent[a][MaxAttempts + Through(attempts[a])] > Window
      BY <3>1 DEF Spaced
    <3> DEFINE p == Through(attempts[a])
    <3> HIDE DEF N, p
    <3>3. /\ recent'[a][p] = Older(recent[a][p])
          /\ recent'[a][MaxAttempts + p] = Older(recent[a][MaxAttempts + p])
          /\ recent[a][p] \in Ages /\ recent[a][MaxAttempts + p] \in Ages
      BY <2>5, <3>1 DEF p
    <3>4. Older(recent[a][p]) >= Older(attempts[a].age)
      BY <2>2, <3>1, <3>2, <3>3 DEF Ages, p
    <3>5. Older(recent[a][MaxAttempts + p]) > Window
      BY <2>1, <3>2, <3>3 DEF p
    <3> QED
      BY <2>4, <3>1, <3>3, <3>4, <3>5 DEF p
  <2> QED
    BY <2>3, <2>6, <2>7, <2>8 DEF Spaced
<1>4. ASSUME Restart PROVE LimiterType' /\ Spaced'
  <2>1. DOMAIN attempts' = {} /\ \A a \in Addresses : recent'[a] = Never
    BY <1>4 DEF Restart
  <2>2. Never \in [1..N -> Ages] /\ \A k \in 1..N : Never[k] = Window + 1
    BY DEF Never, Ages
  <2>3. \A r \in Requests : req'[r].step = "idle"
    BY <1>4 DEF Restart
  <2>4. LimiterType'
    BY <1>4, <2>1, <2>2, <2>3 DEF Restart, LimiterType
  <2>5. Spaced'
    BY <1>0, <2>1, <2>2 DEF Spaced
  <2> QED
    BY <2>4, <2>5
<1>5. ASSUME UNCHANGED <<attempts, recent>>,
             \A r \in Requests : /\ req'[r].step \in LoginSteps => req[r].step \in LoginSteps
                                 /\ req'[r].step \in LoginSteps => req'[r].from = req[r].from
      PROVE  LimiterType' /\ Spaced'
  BY <1>5 DEF LimiterType, Spaced
<1>6. CASE \E r \in Requests :
             \/ Compare(r) \/ Clean(r) \/ Open(r) \/ \E t \in Tokens : Authenticate(r, t)
             \/ Logout(r) \/ Confirm(r) \/ Change(r) \/ Fail(r)
  <2>1. UNCHANGED <<attempts, recent>>
    BY <1>6 DEF Compare, Clean, Open, Authenticate, Logout, Confirm, Change, Fail
  <2>2. PICK r \in Requests :
             \/ Compare(r) \/ Clean(r) \/ Open(r) \/ \E t \in Tokens : Authenticate(r, t)
             \/ Logout(r) \/ Confirm(r) \/ Change(r) \/ Fail(r)
    BY <1>6
  <2>3. CASE Compare(r) \/ Clean(r) \/ Open(r)
    BY <1>5, <2>1, <2>3 DEF Compare, Clean, Open, Goto, Inv, ReqType
  <2>4. CASE \E t \in Tokens : Authenticate(r, t)
    <3>1. PICK t \in Tokens, step \in {"leaving", "authed"} :
            req' = [req EXCEPT ![r] = [Idle EXCEPT !.step = step, !.from = t]]
      BY <2>4 DEF Authenticate
    <3>2. [Idle EXCEPT !.step = step, !.from = t].step = step
      OBVIOUS
    <3> QED
      BY <1>5, <2>1, <3>1, <3>2 DEF Inv, ReqType
  <2>6. CASE Logout(r) \/ Confirm(r) \/ Fail(r)
    BY <1>5, <2>1, <2>6 DEF Logout, Confirm, Fail, Inv, ReqType
  <2>5. CASE Change(r)
    BY <1>5, <2>1, <2>5 DEF Change, Inv, ReqType
  <2> QED
    BY <2>2, <2>3, <2>4, <2>5, <2>6
<1>7. CASE UNCHANGED vars \/ \E t \in Tokens : Expire(t)
  BY <1>5, <1>7 DEF vars, Expire
<1> QED
  BY <1>1, <1>2, <1>3, <1>4, <1>6, <1>7 DEF Next

LEMMA LimiterTheorem == Spec => [](Inv /\ LimiterType /\ Spaced)
  BY Invariance, LimiterInit, LimiterStep, PTL DEF Spec

(* Whatever requests of whichever addresses interleave with successes,      *)
(* refusals and restarts, in no Window are there twice MaxAttempts logins   *)
(* of an address let through without a success (server.go:250-263).         *)
THEOREM AttemptsBounded == Spec => []AttemptsBound
<1>1. ASSUME LimiterType, Spaced, NEW a \in Addresses
      PROVE  recent[a][2 * MaxAttempts] > Window
  <2> DEFINE ages == recent[a]
             N == 2 * MaxAttempts
  <2>1. /\ \A j, k \in 1..N : j < k => ages[j] <= ages[k]
        /\ \A j \in 1..N : ages[j] \in Nat
    <3>1. \A j, k \in 1..N : j < k => ages[j] <= ages[k]
      BY <1>1 DEF Spaced
    <3>2. ages \in [1..N -> Ages]
      BY <1>1 DEF LimiterType
    <3> QED
      BY <3>1, <3>2 DEF Ages
  <2>2. \E j \in 1..N : ages[j] > Window
    <3>1. CASE a \notin DOMAIN attempts
      BY <1>1, <3>1 DEF Spaced
    <3>2. CASE a \in DOMAIN attempts
      <4> DEFINE p == Through(attempts[a])
      <4>1. p \in 1..MaxAttempts
        BY <1>1, <3>2 DEF LimiterType, Through
      <4>2. ages[MaxAttempts + p] > Window
        BY <1>1, <3>2 DEF Spaced
      <4> HIDE DEF p, ages
      <4> QED
        BY <4>1, <4>2
    <3> QED
      BY <3>1, <3>2
  <2>3. N \in 1..N /\ \A j \in 1..N : j < N \/ j = N
    OBVIOUS
  <2> HIDE DEF ages, N
  <2>4. ages[N] > Window
    BY <2>1, <2>2, <2>3
  <2> QED
    BY <2>4 DEF ages, N
<1>2. LimiterType /\ Spaced => AttemptsBound
  BY <1>1 DEF AttemptsBound
<1> QED
  BY <1>2, LimiterTheorem, PTL

(* The types hold for any number of handlers and addresses, and no session  *)
(* is stored under a token that was not issued.                             *)
THEOREM TypeCorrect == Spec => []TypeOK
<1> DEFINE Rest == issued \in 0..MaxSessions /\ DOMAIN sessions \subseteq 1..issued
<1>1. Init => Rest
  BY DEF Init
<1>2. ASSUME Inv, Rest, [Next]_vars PROVE Rest'
  <2>1. CASE UNCHANGED issued /\ DOMAIN sessions' \subseteq DOMAIN sessions
    BY <1>2, <2>1
  <2>2. ASSUME NEW r \in Requests, Open(r) PROVE Rest'
    BY <1>2, <2>2 DEF Open, FreshToken
  <2>3. CASE \E r \in Requests : Clean(r) \/ Logout(r) \/ Change(r)
    <3>1. PICK S : sessions' = Without(S) /\ UNCHANGED issued
      BY <2>3 DEF Clean, Logout, Change
    <3>2. DOMAIN sessions' = DOMAIN sessions \ S
      BY <1>2, <3>1, WithoutRows DEF Inv
    <3> QED
      BY <2>1, <3>1, <3>2
  <2>4. CASE \E t \in Tokens : Expire(t)
    BY <2>1, <2>4 DEF Expire
  <2>5. CASE UNCHANGED <<issued, sessions>>
    BY <2>1, <2>5
  <2> QED
    BY <1>2, <2>2, <2>3, <2>4, <2>5 DEF Next, Login, Compare, Forget, Authenticate,
         Confirm, Fail, Tick, Restart, vars
<1>3. Inv /\ LimiterType /\ Rest => TypeOK
  <2> SUFFICES ASSUME Inv, LimiterType, Rest PROVE TypeOK
    OBVIOUS
  <2>1. \A a \in DOMAIN attempts : /\ attempts[a].count \in 1..(MaxAttempts + 1)
                                  /\ attempts[a].age \in Ages
    BY DEF LimiterType
  <2> QED
    BY <2>1 DEF Inv, ReqType, SessionType, LimiterType, Never, TypeOK
<1> QED
  BY <1>1, <1>2, <1>3, LimiterTheorem, PTL DEF Spec

=============================================================================
