------------------------------ MODULE LoginGuard ------------------------------
(***************************************************************************)
(* The brute-force lockout of FinishLogin (internal/idp) for one username:  *)
(* failure counters and lock keys in valkey, one pair per source address    *)
(* and one for the username.  Keys of different usernames never meet.       *)
(*                                                                         *)
(* Login attempts run concurrently; every valkey command is one step, and   *)
(* the backend is asked between the check of the locks and the recording of *)
(* a failure.  Time is kept as the remaining time-to-live of each key, so   *)
(* the model has no clock to bound.  Errors of valkey are counted in faults *)
(* and bounded by MaxFaults.                                                *)
(***************************************************************************)
EXTENDS Integers, FiniteSets

CONSTANTS
    Attempt,       \* concurrent login requests
    Source,        \* client addresses
    User,          \* the key of the username
    ipLockAfter, userLockAfter,
    LockFor,       \* lifetime of counters and locks
    MaxFaults      \* bound on kv errors and cancelled requests

ASSUME GuardAssumption ==
    /\ IsFiniteSet(Attempt)
    /\ ipLockAfter \in Nat \ {0, 1}
    /\ userLockAfter \in Nat \ {0, 1}
    /\ LockFor \in Nat \ {0}
    /\ MaxFaults \in Nat
    /\ User \notin Source

Key == Source \cup {User}
LockAfter(k) == IF k = User THEN userLockAfter ELSE ipLockAfter

VARIABLES
    fail,      \* fail[k]: the counter (0: no key) and its TTL (0: no expiry)
    lock,      \* lock[k]: TTL of the lock key (0: no key)
    att,       \* the attempts
    faults,    \* kv errors so far
    guesses    \* history: guesses[k][i], wrong credentials sent to the backend
               \* within the last i ticks and since the last success

vars == <<fail, lock, att, faults, guesses>>

Age == 0 .. LockFor - 1
NoCounter == [n |-> 0, ttl |-> 0]
NoGuesses == [i \in Age |-> 0]
Free == [pc |-> "idle", src |-> User, leg |-> "ip", count |-> 0]

LegKey(a) == IF att[a].leg = "ip" THEN att[a].src ELSE User

Init ==
    /\ fail = [k \in Key |-> NoCounter]
    /\ lock = [k \in Key |-> 0]
    /\ att = [a \in Attempt |-> Free]
    /\ faults = 0
    /\ guesses = [k \in Key |-> NoGuesses]

(***************************************************************************)
(* The checks, before the backend is asked.                                *)
(***************************************************************************)
Submit(a, s) ==
    /\ att[a].pc = "idle"
    /\ att' = [att EXCEPT ![a] = [Free EXCEPT !.pc = "check", !.src = s]]
    /\ UNCHANGED <<fail, lock, faults, guesses>>

\* Mutant: only the key of the source is checked.
CheckSourceOnly(a) ==
    /\ att[a].pc = "check"
    /\ att' = [att EXCEPT ![a] = IF lock[att[a].src] > 0 THEN Free
                                 ELSE [att[a] EXCEPT !.pc = "auth"]]
    /\ UNCHANGED <<fail, lock, faults, guesses>>

\* LoginLocked for the source, then for the username; either lock refuses.
CheckLocked(a) ==
    /\ att[a].pc = "check"
    /\ att' = [att EXCEPT ![a] =
                 IF lock[LegKey(a)] > 0 THEN Free
                 ELSE IF att[a].leg = "ip" THEN [att[a] EXCEPT !.leg = "user"]
                 ELSE [att[a] EXCEPT !.pc = "auth", !.leg = "ip"]]
    /\ UNCHANGED <<fail, lock, faults, guesses>>

\* An error of a check, of the backend's account lookup or a client that hangs
\* up ends the attempt without a trace.
GiveUp(a) ==
    /\ att[a].pc \in {"check", "auth"}
    /\ att' = [att EXCEPT ![a] = Free]
    /\ UNCHANGED <<fail, lock, faults, guesses>>

(***************************************************************************)
(* Wrong credentials, or an account that may not sign in: recordFailure     *)
(* counts for the source, then for the username.                            *)
(***************************************************************************)
AuthenticateFails(a) ==
    /\ att[a].pc = "auth"
    /\ att' = [att EXCEPT ![a].pc = "incr"]
    /\ guesses' = [k \in Key |->
                     IF k \in {att[a].src, User}
                     THEN [i \in Age |-> guesses[k][i] + 1] ELSE guesses[k]]
    /\ UNCHANGED <<fail, lock, faults>>

NextLeg(a) ==
    LET pc == IF att[a].pc = "reset" THEN "reset" ELSE "incr"
    IN  att' = [att EXCEPT ![a] = IF att[a].leg = "ip"
                                  THEN [att[a] EXCEPT !.leg = "user", !.pc = pc, !.count = 0]
                                  ELSE Free]

\* INCR.  The counter stops at LockAfter: beyond it no comparison of the code
\* tells counts apart.
Incr(a) ==
    LET k == LegKey(a)
        n == IF fail[k].n < LockAfter(k) THEN fail[k].n + 1 ELSE fail[k].n
    IN  /\ att[a].pc = "incr"
        /\ fail' = [fail EXCEPT ![k].n = n]
        /\ IF n = 1 \/ n >= LockAfter(k)
           THEN att' = [att EXCEPT ![a].pc = IF fail[k].n = 0 THEN "expire" ELSE "lock",
                                   ![a].count = n]
           ELSE NextLeg(a)
        /\ UNCHANGED <<lock, faults, guesses>>

\* EXPIRE, only by the attempt whose INCR created the counter.
Expire(a) ==
    LET k == LegKey(a)
    IN  /\ att[a].pc = "expire"
        /\ fail' = [fail EXCEPT ![k].ttl = IF fail[k].n = 0 THEN 0 ELSE LockFor]
        /\ IF att[a].count >= LockAfter(k)
           THEN att' = [att EXCEPT ![a].pc = "lock"]
           ELSE NextLeg(a)
        /\ UNCHANGED <<lock, faults, guesses>>

\* Mutant: the lock is set with half of its lifetime.
SetLockShort(a) ==
    /\ att[a].pc = "lock"
    /\ lock' = [lock EXCEPT ![LegKey(a)] = LockFor \div 2]
    /\ NextLeg(a)
    /\ UNCHANGED <<fail, faults, guesses>>

\* Mutant: the lock lasts LockFor for each failure counted.
SetLockPerFailure(a) ==
    /\ att[a].pc = "lock"
    /\ lock' = [lock EXCEPT ![LegKey(a)] = att[a].count * LockFor]
    /\ NextLeg(a)
    /\ UNCHANGED <<fail, faults, guesses>>

SetLock(a) ==
    /\ att[a].pc = "lock"
    /\ lock' = [lock EXCEPT ![LegKey(a)] = LockFor]
    /\ NextLeg(a)
    /\ UNCHANGED <<fail, faults, guesses>>

\* A kv error ends the leg and is ignored, by recordFailure as by the reset.
LegError(a) ==
    /\ att[a].pc \in {"incr", "expire", "lock", "reset"}
    /\ faults < MaxFaults
    /\ faults' = faults + 1
    /\ NextLeg(a)
    /\ UNCHANGED <<fail, lock, guesses>>

\* A cancelled request context or a crash ends the attempt where it is.
Cancel(a) ==
    /\ att[a].pc \in {"incr", "expire", "lock", "reset"}
    /\ faults < MaxFaults
    /\ faults' = faults + 1
    /\ att' = [att EXCEPT ![a] = Free]
    /\ UNCHANGED <<fail, lock, guesses>>

(***************************************************************************)
(* Right credentials: both pairs of keys are deleted, one DEL each.         *)
(***************************************************************************)
AuthenticateSucceeds(a) ==
    /\ att[a].pc = "auth"
    /\ att' = [att EXCEPT ![a].pc = "reset"]
    /\ UNCHANGED <<fail, lock, faults, guesses>>

ResetLoginFailures(a) ==
    LET k == LegKey(a)
    IN  /\ att[a].pc = "reset"
        /\ fail' = [fail EXCEPT ![k] = NoCounter]
        /\ lock' = [lock EXCEPT ![k] = 0]
        /\ guesses' = [guesses EXCEPT ![k] = NoGuesses]
        /\ NextLeg(a)
        /\ UNCHANGED faults

(***************************************************************************)
(* Time passes; keys whose TTL runs out are gone.                           *)
(***************************************************************************)
Aged(c) == IF c.ttl = 1 THEN NoCounter
           ELSE IF c.ttl > 1 THEN [c EXCEPT !.ttl = @ - 1] ELSE c

Tick ==
    /\ fail' = [k \in Key |-> Aged(fail[k])]
    /\ lock' = [k \in Key |-> IF lock[k] > 0 THEN lock[k] - 1 ELSE 0]
    /\ guesses' = [k \in Key |-> [i \in Age |-> IF i = 0 THEN 0 ELSE guesses[k][i - 1]]]
    /\ UNCHANGED <<att, faults>>

Step(a) ==
    \/ \E s \in Source : Submit(a, s)
    \/ CheckLocked(a)
    \/ GiveUp(a)
    \/ AuthenticateFails(a)
    \/ Incr(a)
    \/ Expire(a)
    \/ SetLock(a)
    \/ LegError(a)
    \/ Cancel(a)
    \/ AuthenticateSucceeds(a)
    \/ ResetLoginFailures(a)

Next == (\E a \in Attempt : Step(a)) \/ Tick

\* Time does not stop; nothing is assumed of the attempts.
Fairness == WF_vars(Tick)

Spec == Init /\ [][Next]_vars /\ Fairness

-----------------------------------------------------------------------------
(***************************************************************************)
(* Properties.                                                             *)
(***************************************************************************)

\* Counters, locks and attempts keep their types and ranges: no lock and no
\* window of a counter outlasts LockFor.
TypeOK ==
    /\ fail \in [Key -> [n : Nat, ttl : 0 .. LockFor]]
    /\ lock \in [Key -> 0 .. LockFor]
    /\ att \in [Attempt -> [pc : {"idle", "check", "auth", "incr", "expire", "lock", "reset"},
                            src : Key, leg : {"ip", "user"}, count : Nat]]
    /\ faults \in 0 .. MaxFaults
    /\ guesses \in [Key -> [Age -> Nat]]

\* Within any LockFor, the wrong guesses that reach the backend for one key and
\* since its last successful login are bounded: what two adjoining windows of
\* the counter may hold short of the lock, less the failure that opened the first
\* of them, plus the attempts that were past the check when the lock was set, and
\* one for each error that recordFailure swallowed.
GuessBound(k) == 2 * LockAfter(k) - 3 + Cardinality(Attempt) + faults
GuessesBounded == \A k \in Key : guesses[k][LockFor - 1] <= GuessBound(k)

\* A lock ends: attempts that were in flight when it was set may set it again,
\* but nothing renews it for ever.
LockEnds == \A k \in Key : lock[k] > 0 ~> lock[k] = 0

\* What the comment on RecordLoginFailure says: the failure counter expires.  A
\* counter that nobody is about to give its TTL has one.
CounterExpires ==
    \A k \in Key : fail[k].n > 0 /\ fail[k].ttl = 0
        => \E a \in Attempt : att[a].pc = "expire" /\ LegKey(a) = k
=============================================================================
