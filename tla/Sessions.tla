------------------------------ MODULE Sessions ------------------------------
(***************************************************************************)
(* Login, logout and change of password of the panel (server.go): the      *)
(* limiter of attempts per address, which lives in memory under a mutex,   *)
(* and the sessions and the password's hash, which live in SQLite. Handlers *)
(* run concurrently; each statement or transaction is one step of theirs,  *)
(* and bcrypt (a long time) runs between reading the hash and using what   *)
(* the comparison said.                                                    *)
(*                                                                         *)
(* Passwords are the versions of the stored hash; a session remembers, for *)
(* the properties, the version its login compared with. Times are ages in  *)
(* ticks; login reads the clock just before it takes the mutex, which is   *)
(* here one step.                                                          *)
(***************************************************************************)
EXTENDS Naturals, FiniteSets, Functions

CONSTANTS
    Addresses,    \* r.RemoteAddr without its port
    Requests,     \* handlers that run at a time
    None,         \* no address, no session
    MaxAttempts,  \* attempts of an address that are let through (10)
    MaxEntries,   \* addresses the limiter may hold (1000)
    Window,       \* ticks an entry is held (15 minutes)
    MaxSessions,  \* bound: sessions ever opened
    MaxChanges    \* bound: changes of the password

ASSUME BoundAssumption ==
    /\ {MaxAttempts, MaxEntries, Window} \subseteq Nat \ {0}
    /\ {MaxSessions, MaxChanges} \subseteq Nat

VARIABLES
    hash,      \* settings.admin_hash, by its version
    sessions,  \* the live and the expired rows of sessions, by token
    issued,    \* tokens drawn so far
    attempts,  \* Server.attempts: the count and the age of an address's entry
    req,       \* what each handler is doing
    recent     \* for the properties: ages of the latest logins let through, by address

vars == <<hash, sessions, issued, attempts, req, recent>>

Tokens == 1..MaxSessions
Ages   == 0..(Window + 1)     \* ages above Window are alike

LoginSteps == {"admitted", "matched", "cleaned", "opened"}
Request == [step : LoginSteps \cup {"idle", "leaving", "authed", "confirmed"},
            from : Addresses \cup Tokens \cup {None}, by : 0..MaxChanges,
            late : BOOLEAN]

Idle == [step |-> "idle", from |-> None, by |-> 0, late |-> FALSE]

Live    == {t \in DOMAIN sessions : sessions[t].live}
Never   == [k \in 1..(2 * MaxAttempts) |-> Window + 1]
Older(age) == IF age > Window THEN age ELSE age + 1

Init ==
    /\ hash = 0 /\ issued = 0
    /\ sessions = <<>> /\ attempts = <<>>
    /\ req = [r \in Requests |-> Idle]
    /\ recent = [a \in Addresses |-> Never]

Goto(r, step) == req' = [req EXCEPT ![r].step = step]

(* DELETE FROM sessions WHERE token in S                                    *)
Without(S) == Restrict(sessions, DOMAIN sessions \ S)

-----------------------------------------------------------------------------
(* Defective variants, as in the other modules: no step uses them.          *)

(* An entry is dropped when it is 15 minutes old, not when it is older.     *)
KeptBelow == Restrict(attempts, {a \in DOMAIN attempts : attempts[a].age < Window})

(* Every attempt starts the 15 minutes again.                               *)
EntrySliding(kept, a) ==
    [count |-> IF a \notin DOMAIN kept THEN 1
               ELSE IF kept[a].count > MaxAttempts THEN kept[a].count ELSE kept[a].count + 1,
     age |-> 0]

(* A change of the password ends the session that made it, and no other.    *)
EndedByOwn(own) == {own} \cap DOMAIN sessions

(* The token is the one of the login before.                                *)
FreshTokenReused == issued

-----------------------------------------------------------------------------
(* login: the limiter, in one critical section                              *)

Kept == Restrict(attempts, {a \in DOMAIN attempts : attempts[a].age <= Window})

(* Since is set by the first attempt. Counts above MaxAttempts are alike.   *)
Entry(kept, a) ==
    IF a \notin DOMAIN kept THEN [count |-> 1, age |-> 0]
    ELSE [kept[a] EXCEPT !.count = IF @ > MaxAttempts THEN @ ELSE @ + 1]

(* The latest first                                                         *)
Passed(ages) == [k \in DOMAIN ages |-> IF k = 1 THEN 0 ELSE ages[k - 1]]

(* A refused attempt is counted, and its address entered, all the same.     *)
Login(r, a) ==
    /\ req[r] = Idle
    /\ LET entry == Entry(Kept, a)
       IN  /\ attempts' = [b \in DOMAIN Kept \cup {a} |-> IF b = a THEN entry ELSE Kept[b]]
           /\ IF entry.count > MaxAttempts \/ Cardinality(DOMAIN attempts') > MaxEntries
                THEN UNCHANGED <<req, recent>>
                ELSE /\ req' = [req EXCEPT ![r] = [Idle EXCEPT !.step = "admitted", !.from = a]]
                     /\ recent' = [recent EXCEPT ![a] = Passed(@)]
    /\ UNCHANGED <<hash, sessions, issued>>

(* The hash is read and compared; a wrong password is Fail.                 *)
Compare(r) ==
    /\ req[r].step = "admitted"
    /\ req' = [req EXCEPT ![r].step = "matched", ![r].by = hash]
    /\ UNCHANGED <<hash, sessions, issued, attempts, recent>>

(* DELETE FROM sessions WHERE expires < now, the now of the attempt: what   *)
(* has expired since then stays.                                            *)
Clean(r) ==
    /\ req[r].step = "matched"
    /\ \E expired \in SUBSET (DOMAIN sessions \ Live) : sessions' = Without(expired)
    /\ Goto(r, "cleaned")
    /\ UNCHANGED <<hash, issued, attempts, recent>>

FreshToken == issued + 1

Open(r) ==
    /\ req[r].step = "cleaned"
    /\ issued < MaxSessions
    /\ issued' = FreshToken
    /\ sessions' = [t \in DOMAIN sessions \cup {issued'} |->
                      IF t = issued' THEN [by |-> req[r].by, late |-> req[r].late, live |-> TRUE]
                      ELSE sessions[t]]
    /\ Goto(r, "opened")
    /\ UNCHANGED <<hash, attempts, recent>>

(* delete(s.attempts, ip): failures of meanwhile are forgotten with it.     *)
Forget(r) ==
    /\ req[r].step = "opened"
    /\ attempts' = Restrict(attempts, DOMAIN attempts \ {req[r].from})
    /\ recent' = [recent EXCEPT ![req[r].from] = Never]
    /\ req' = [req EXCEPT ![r] = Idle]
    /\ UNCHANGED <<hash, sessions, issued>>

-----------------------------------------------------------------------------
(* auth, and the two handlers behind it that end sessions                   *)

Authenticate(r, t) ==
    /\ req[r] = Idle
    /\ t \in Live
    /\ \E step \in {"leaving", "authed"} :
         req' = [req EXCEPT ![r] = [Idle EXCEPT !.step = step, !.from = t]]
    /\ UNCHANGED <<hash, sessions, issued, attempts, recent>>

Logout(r) ==
    /\ req[r].step = "leaving"
    /\ sessions' = Without({req[r].from})
    /\ req' = [req EXCEPT ![r] = Idle]
    /\ UNCHANGED <<hash, issued, attempts, recent>>

(* The current password is asked for again.                                 *)
Confirm(r) ==
    /\ req[r].step = "authed"
    /\ req' = [req EXCEPT ![r].step = "confirmed", ![r].by = hash]
    /\ UNCHANGED <<hash, sessions, issued, attempts, recent>>

(* DELETE FROM sessions                                                     *)
EndedBy(own) == DOMAIN sessions

(* UPDATE settings and DELETE in one transaction. Logins that have compared *)
(* and not stored their session are not reached by it: late, from now on.   *)
Change(r) ==
    /\ req[r].step = "confirmed"
    /\ hash < MaxChanges
    /\ hash' = hash + 1
    /\ sessions' = Without(EndedBy(req[r].from))
    /\ req' = [q \in Requests |->
                 IF q = r THEN Idle
                 ELSE [req[q] EXCEPT !.late = @ \/ req[q].step \in {"matched", "cleaned"}]]
    /\ UNCHANGED <<issued, attempts, recent>>

-----------------------------------------------------------------------------
(* A wrong password, an invalid form, an error of SQLite: the handler       *)
(* answers and changes nothing.                                             *)
Fail(r) ==
    /\ req[r].step \in {"admitted", "cleaned", "leaving", "authed", "confirmed"}
    /\ req' = [req EXCEPT ![r] = Idle]
    /\ UNCHANGED <<hash, sessions, issued, attempts, recent>>

Expire(t) ==
    /\ t \in Live
    /\ sessions' = [sessions EXCEPT ![t].live = FALSE]
    /\ UNCHANGED <<hash, issued, attempts, req, recent>>

Tick ==
    /\ attempts' = [a \in DOMAIN attempts |-> [attempts[a] EXCEPT !.age = Older(@)]]
    /\ recent' = [a \in Addresses |-> [k \in DOMAIN Never |-> Older(recent[a][k])]]
    /\ UNCHANGED <<hash, sessions, issued, req>>

(* The map of attempts starts empty; sessions are in the database.          *)
Restart ==
    /\ attempts' = <<>>
    /\ req' = [r \in Requests |-> Idle]
    /\ recent' = [a \in Addresses |-> Never]
    /\ UNCHANGED <<hash, sessions, issued>>

Next ==
    \/ \E r \in Requests :
         \/ \E a \in Addresses : Login(r, a)
         \/ Compare(r) \/ Clean(r) \/ Open(r) \/ Forget(r)
         \/ \E t \in Tokens : Authenticate(r, t)
         \/ Logout(r) \/ Confirm(r) \/ Change(r) \/ Fail(r)
    \/ \E t \in Tokens : Expire(t)
    \/ Tick \/ Restart

Spec == Init /\ [][Next]_vars

(* Time passes; nobody has to log in.                                       *)
FairSpec == Spec /\ WF_vars(Tick)

-----------------------------------------------------------------------------
(* Properties                                                               *)

(* Every variable has the shape the code gives it, and a stored session has *)
(* a token that was issued before.                                          *)
TypeOK ==
    /\ hash \in 0..MaxChanges
    /\ issued \in 0..MaxSessions
    /\ sessions \in [DOMAIN sessions -> [by : 0..MaxChanges, late : BOOLEAN, live : BOOLEAN]]
    /\ DOMAIN sessions \subseteq 1..issued
    /\ DOMAIN attempts \subseteq Addresses
    /\ \A a \in DOMAIN attempts : /\ attempts[a].count \in 1..(MaxAttempts + 1)
                                  /\ attempts[a].age \in Ages
    /\ req \in [Requests -> Request]
    /\ \A r \in Requests : req[r].step \in LoginSteps => req[r].from \in Addresses
    /\ recent \in [Addresses -> [DOMAIN Never -> Ages]]

(* settings.html:1: "Ao alterar a senha, todas as sessoes serao             *)
(* encerradas": every session was opened with the password of now.          *)
SessionsEnded == \A t \in DOMAIN sessions : sessions[t].by = hash

(* What does hold: a session of an older password was being opened while    *)
(* the password changed. Every session that existed then is gone, for good, *)
(* whatever the order of concurrent changes, logouts, logins and restarts.  *)
StaleOnlyFromOverlap ==
    \A t \in DOMAIN sessions : sessions[t].by # hash => sessions[t].late

(* What the limiter gives, which is not MaxAttempts per Window since the    *)
(* window starts at an address's first attempt: in no Window are there      *)
(* twice MaxAttempts logins of an address let through without a success.    *)
(* The one that many back is always older.                                  *)
AttemptsBound ==
    \A a \in Addresses : recent[a][2 * MaxAttempts] > Window

Blocked(a) == /\ a \in DOMAIN attempts
              /\ attempts[a].age <= Window
              /\ attempts[a].count >= MaxAttempts

(* "Aguarde 15 minutos" (server.go:266): an address is not kept out for     *)
(* longer by trying on while it waits.                                      *)
LockoutEnds == \A a \in Addresses : Blocked(a) ~> ~Blocked(a)

=============================================================================
