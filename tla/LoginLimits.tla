----------------------------- MODULE LoginLimits -----------------------------
(***************************************************************************)
(* Failed logins to one account: a counter for each address they come from *)
(* and one for the account, each with a lock, in documents that several    *)
(* requests update step by step (enforce_login_rate_limit,                 *)
(* record_failed_login, clear_login_attempts).                             *)
(***************************************************************************)
EXTENDS Integers, FiniteSets

CONSTANTS
    Addresses,      \* where the attempts come from
    Logins,         \* login requests under way at once
    MaxPerAddress,  \* LOGIN_MAX_ATTEMPTS
    MaxPerAccount,  \* LOGIN_EMAIL_MAX_ATTEMPTS
    LockFor,        \* LOGIN_LOCKOUT_MINUTES, in steps of the clock
    LoginMinutes,   \* bound: of the clock
    Failures        \* bound: wrong passwords

ASSUME LimitsAssumption ==
    /\ {MaxPerAddress, MaxPerAccount, LockFor, LoginMinutes} \subseteq Nat \ {0} /\ Failures \in Nat
    /\ IsFiniteSet(Logins) /\ {"account", "all"} \cap Addresses = {}

VARIABLES
    minute,
    attempts,       \* key -> failures counted, 0 without a document
    lockedUntil,    \* key -> when its lock ends, 0 without one
    logins,         \* Logins -> the request under way
    guesses         \* history: key -> wrong passwords tried since the clock moved, a lock fell, or
                    \*          the counters were cleared; and how many in all

limitVars == <<minute, attempts, lockedUntil, logins, guesses>>

LimitKeys == Addresses \cup {"account"}

Limit(k) == IF k = "account" THEN MaxPerAccount ELSE MaxPerAddress

NoLogin == [pc |-> "idle", from |-> {}, counted |-> 0]

Login == [pc : {"idle", "gate", "compare", "count", "lock", "countAccount", "lockAccount", "clear"},
          from : SUBSET Addresses, counted : Nat]

LimitsInit ==
    /\ minute = 1
    /\ attempts = [k \in LimitKeys |-> 0]
    /\ lockedUntil = [k \in LimitKeys |-> 0]
    /\ logins = [l \in Logins |-> NoLogin]
    /\ guesses = [k \in LimitKeys \cup {"all"} |-> 0]

NextMinute ==
    /\ minute < LoginMinutes
    /\ minute' = minute + 1
    /\ guesses' = [k \in DOMAIN guesses |-> IF k = "all" THEN guesses[k] ELSE 0]
    /\ UNCHANGED <<attempts, lockedUntil, logins>>

Open(k) == lockedUntil[k] \leq minute

\* The address's record is read first, the account's after it.
GuessPassword(l, a) ==
    /\ logins[l].pc = "idle"
    /\ Open(a)
    /\ logins' = [logins EXCEPT ![l] = [NoLogin EXCEPT !.pc = "gate", !.from = {a}]]
    /\ UNCHANGED <<minute, attempts, lockedUntil, guesses>>

\* Faulty: only the address is asked.
AdmittedAny(l) == TRUE

Admitted(l) == Open("account")

PassGate(l) ==
    /\ logins[l].pc = "gate"
    /\ logins' = [logins EXCEPT ![l] = IF Admitted(l) THEN [@ EXCEPT !.pc = "compare"] ELSE NoLogin]
    /\ UNCHANGED <<minute, attempts, lockedUntil, guesses>>

WrongPassword(l) ==
    /\ logins[l].pc = "compare"
    /\ guesses["all"] < Failures
    /\ guesses' = [k \in DOMAIN guesses |->
                      guesses[k] + (IF k \in logins[l].from \cup {"account", "all"} THEN 1 ELSE 0)]
    /\ logins' = [logins EXCEPT ![l].pc = "count"]
    /\ UNCHANGED <<minute, attempts, lockedUntil>>

RightPassword(l) ==
    /\ logins[l].pc = "compare"
    /\ logins' = [logins EXCEPT ![l].pc = "clear"]
    /\ UNCHANGED <<minute, attempts, lockedUntil, guesses>>

\* delete_many of the two keys.
ClearAttempts(l) ==
    /\ logins[l].pc = "clear"
    /\ LET cleared == logins[l].from \cup {"account"}
       IN  /\ attempts' = [k \in LimitKeys |-> IF k \in cleared THEN 0 ELSE attempts[k]]
           /\ lockedUntil' = [k \in LimitKeys |-> IF k \in cleared THEN 0 ELSE lockedUntil[k]]
           /\ guesses' = [k \in DOMAIN guesses |-> IF k \in cleared THEN 0 ELSE guesses[k]]
    /\ logins' = [logins EXCEPT ![l] = NoLogin]
    /\ UNCHANGED minute

\* $inc with the count handed back: each failure is counted once, however many arrive together.
CountFailure(l, k, before, after) ==
    /\ logins[l].pc = before
    /\ attempts' = [attempts EXCEPT ![k] = @ + 1]
    /\ logins' = [logins EXCEPT ![l].pc = after, ![l].counted = attempts[k] + 1]
    /\ UNCHANGED <<minute, lockedUntil, guesses>>

\* Faulty: one failure more.
LocksAfter(n, k) == n > Limit(k)

LocksAt(n, k) == n \geq Limit(k)

\* Written to the document the count was in, if there still is one; by now it may be another's.
LockIfDue(l, k, before, after) ==
    /\ logins[l].pc = before
    /\ lockedUntil' = IF LocksAt(logins[l].counted, k) /\ attempts[k] > 0
                      THEN [lockedUntil EXCEPT ![k] = minute + LockFor] ELSE lockedUntil
    /\ logins' = [logins EXCEPT ![l] = IF after = "idle" THEN NoLogin ELSE [@ EXCEPT !.pc = after]]
    /\ UNCHANGED <<minute, attempts, guesses>>

\* record_failed_login: the address's counter and lock, then the account's.
RecordFailure(l) ==
    \/ \E a \in logins[l].from :
         CountFailure(l, a, "count", "lock") \/ LockIfDue(l, a, "lock", "countAccount")
    \/ CountFailure(l, "account", "countAccount", "lockAccount")
    \/ LockIfDue(l, "account", "lockAccount", "idle")

LimitsNext ==
    \/ NextMinute
    \/ \E l \in Logins :
        \/ \E a \in Addresses : GuessPassword(l, a)
        \/ PassGate(l) \/ WrongPassword(l) \/ RightPassword(l) \/ ClearAttempts(l) \/ RecordFailure(l)

LimitsSpec == LimitsInit /\ [][LimitsNext]_limitVars

-----------------------------------------------------------------------------

LimitsTypeOK ==
    /\ minute \in 1 .. LoginMinutes
    /\ attempts \in [LimitKeys -> 0 .. Failures]
    /\ lockedUntil \in [LimitKeys -> 0 .. LoginMinutes + LockFor]
    /\ logins \in [Logins -> Login]
    /\ guesses \in [LimitKeys \cup {"all"} -> 0 .. Failures]

\* "total guesses against one account are bounded no matter how many addresses they come from", and
\* those from one address more tightly: between two moves of the clock (a lock may end in one) and
\* since the owner last logged in, no more wrong passwords are tried than the limit allows, plus the
\* requests that were past the gate when the lock fell.
GuessesBounded == \A k \in LimitKeys : guesses[k] < Limit(k) + Cardinality(Logins)

\* A failure that was tried is counted, unless the owner logged in since or it is still under way.
FailuresCounted ==
    \A k \in LimitKeys :
        guesses[k] \leq attempts[k] + Cardinality({l \in Logins : logins[l].pc # "idle"})

LimitsSound == GuessesBounded /\ FailuresCounted
=============================================================================
