----------------------------- MODULE RevocationCache -----------------------------
(***************************************************************************)
(* Whether a session token has been given up.  revoked_tokens says so for  *)
(* good; each server process remembers the tokens it knows to be revoked,  *)
(* and for a while the ones it found in order.  Tokens do not meet, so     *)
(* there is one.                                                           *)
(***************************************************************************)
EXTENDS Integers

CONSTANTS
    Processes,      \* server processes: two while a deploy replaces one by the other
    TokenHolders,   \* requests each has under way at once
    CacheSeconds,   \* bound: of the clock
    AnswerTTL       \* REVOKED_CACHE_TTL_S

ASSUME CacheAssumption == CacheSeconds \in Nat \ {0} /\ AnswerTTL \in Nat

VARIABLES
    now,            \* the clock, the same on every process
    revoked,        \* the token is in revoked_tokens
    gone,           \* processes that know it is revoked (_REVOKED_LOCAL)
    fine,           \* process -> until when it is taken as not revoked (_NOT_REVOKED_UNTIL)
    requests,       \* process -> request -> where it stands
    left            \* history: process -> when a revocation ended there, or 0

cacheVars == <<now, revoked, gone, fine, requests, left>>

NoRequest == [pc |-> "idle", asked |-> 0, found |-> FALSE]

Request == [pc : {"idle", "lookup", "looked", "admitted", "revoke", "remember"},
            asked : Nat, found : BOOLEAN]

CacheInit ==
    /\ now = 1
    /\ revoked = FALSE
    /\ gone = {}
    /\ fine = [p \in Processes |-> 0]
    /\ requests = [p \in Processes |-> [c \in TokenHolders |-> NoRequest]]
    /\ left = [p \in Processes |-> 0]

PassSecond ==
    /\ now < CacheSeconds
    /\ now' = now + 1
    /\ UNCHANGED <<revoked, gone, fine, requests, left>>

\* _is_token_revoked, up to the database: what this process knows, then what it takes for granted.
TokenArrives(p, c) ==
    /\ requests[p][c].pc = "idle"
    /\ p \notin gone
    /\ requests' = [requests EXCEPT ![p][c] =
         [NoRequest EXCEPT !.pc = IF fine[p] > now THEN "admitted" ELSE "lookup", !.asked = now]]
    /\ UNCHANGED <<now, revoked, gone, fine, left>>

LookUp(p, c) ==
    /\ requests[p][c].pc = "lookup"
    /\ requests' = [requests EXCEPT ![p][c].pc = "looked", ![p][c].found = revoked]
    /\ UNCHANGED <<now, revoked, gone, fine, left>>

\* Faulty: the life of the answer is counted from when it came.
FineUntilLate(p, c) == now + AnswerTTL

\* From before the question.
FineUntil(p, c) == requests[p][c].asked + AnswerTTL

FoundRevoked(p, c) ==
    /\ requests[p][c].pc = "looked"
    /\ requests[p][c].found
    /\ gone' = gone \cup {p}
    /\ requests' = [requests EXCEPT ![p][c] = NoRequest]
    /\ UNCHANGED <<now, revoked, fine, left>>

FoundFine(p, c) ==
    /\ requests[p][c].pc = "looked"
    /\ ~requests[p][c].found
    /\ fine' = [fine EXCEPT ![p] = FineUntil(p, c)]
    /\ requests' = [requests EXCEPT ![p][c].pc = "admitted"]
    /\ UNCHANGED <<now, revoked, gone, left>>

\* A request that gives the token up (a logout, a change of hat) goes on; others are done.
GoesOn(p, c) ==
    /\ requests[p][c].pc = "admitted"
    /\ \/ requests' = [requests EXCEPT ![p][c] = [NoRequest EXCEPT !.pc = "revoke"]]
       \/ requests' = [requests EXCEPT ![p][c] = NoRequest]
    /\ UNCHANGED <<now, revoked, gone, fine, left>>

\* _revoke_jti: the record, then the memory.  If the insert fails nothing is remembered.
InsertRevoked(p, c) ==
    /\ requests[p][c].pc = "revoke"
    /\ \/ /\ revoked' = TRUE
          /\ requests' = [requests EXCEPT ![p][c].pc = "remember"]
       \/ /\ requests' = [requests EXCEPT ![p][c] = NoRequest]
          /\ UNCHANGED revoked
    /\ UNCHANGED <<now, gone, fine, left>>

\* Faulty: the good answer is dropped and no bad one put in its place.
GoneNowNot(p) == gone

GoneNow(p) == gone \cup {p}

RememberRevoked(p, c) ==
    /\ requests[p][c].pc = "remember"
    /\ gone' = GoneNow(p)
    /\ fine' = [fine EXCEPT ![p] = 0]
    /\ left' = [left EXCEPT ![p] = IF @ = 0 THEN now ELSE @]
    /\ requests' = [requests EXCEPT ![p][c] = NoRequest]
    /\ UNCHANGED <<now, revoked>>

CacheNext ==
    \/ PassSecond
    \/ \E p \in Processes, c \in TokenHolders :
         \/ TokenArrives(p, c) \/ LookUp(p, c) \/ FoundRevoked(p, c) \/ FoundFine(p, c)
         \/ GoesOn(p, c) \/ InsertRevoked(p, c) \/ RememberRevoked(p, c)

CacheSpec == CacheInit /\ [][CacheNext]_cacheVars

-----------------------------------------------------------------------------

CacheTypeOK ==
    /\ now \in 1 .. CacheSeconds
    /\ revoked \in BOOLEAN /\ gone \subseteq Processes
    /\ fine \in [Processes -> Nat]
    /\ requests \in [Processes -> [TokenHolders -> Request]]
    /\ left \in [Processes -> Nat]

\* "a logout or hat switch is effective immediately" on the process that served it: no request that
\* comes later is let through there, whatever lookups were under way when it ended.
LogoutIsImmediateHere ==
    \A p \in Processes, c \in TokenHolders :
        requests[p][c].pc = "admitted" /\ left[p] > 0 => requests[p][c].asked \leq left[p]

\* "another process can accept a token revoked here for up to the TTL", and no longer.
LogoutIsSoonEverywhere ==
    \A p, q \in Processes, c \in TokenHolders :
        requests[p][c].pc = "admitted" /\ left[q] > 0 =>
            requests[p][c].asked < left[q] + AnswerTTL \/ requests[p][c].asked = left[q]

RevokedStaysOut == LogoutIsImmediateHere /\ LogoutIsSoonEverywhere
=============================================================================
