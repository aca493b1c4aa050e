------------------------------ MODULE SendLadder ------------------------------
(***************************************************************************)
(* When may one voter be sent another code in one round: the ladder of     *)
(* waits between two SMS and the ceiling of a day (`otp_send_state`), and  *)
(* the code a re-send carries.                                             *)
(*                                                                         *)
(* The document is kept by optimistic concurrency: a handler inserts it,   *)
(* or reads it and writes it under the version it read; after a definite   *)
(* gateway failure it puts back what it read, under no version.  Every     *)
(* `await` is a step.  Time is counted in ticks.                           *)
(***************************************************************************)
EXTENDS Integers, Sequences, FiniteSets

CONSTANTS
    Taps,           \* requests for a code that may be under way at once
    Ladder,         \* Ladder[k]: ticks to wait after the k-th send in a row
    LadderReset,    \* idle ticks after which the ladder is forgotten
    Day, Ceiling,   \* at most Ceiling sends in Day ticks
    CodeTtl,        \* ticks a code can be used
    HandlerTime,    \* the longest a request takes, two gateways included
    LimitResets,    \* bound: resets by an administrator
    Rewrites,       \* bound: versions of the document
    LadderEnd       \* bound: the clock stops here

ASSUME LadderAssumption ==
    /\ Ladder \in Seq(Nat) /\ Len(Ladder) > 0
    /\ \A k \in DOMAIN Ladder : Ladder[k] > HandlerTime
    /\ {LadderReset, Day, CodeTtl, HandlerTime, LimitResets, Rewrites, LadderEnd} \subseteq Nat
    /\ Ceiling \in Nat \ {0}

VARIABLES
    clock,
    sendDoc,        \* the otp_send_state document, or NoSendDoc
    code,           \* when the stored code was created, or NoCode
    taps,           \* Taps -> the request under way
    resets,         \* how often the document was dropped by an administrator
    sent,           \* history: reservations of codes the gateway took since then
    crossed         \* history: the document was written by a tap that began before then

ladderVars == <<clock, sendDoc, code, taps, resets, sent, crossed>>

NoSendDoc == [version |-> -1]
NoCode    == -1

\* `sends_24h` is a set of times: a send comes after every one its document remembers.
SendDocs == [count : Nat, last : Nat, next : Nat, sends : SUBSET Nat, version : Nat]

Tap == [pc : {"idle", "insert", "read", "write", "gateway"}, started : Nat, at : Nat, next : Nat,
        tries : 0..2, doc : SendDocs \cup {NoSendDoc}, live : BOOLEAN, old : BOOLEAN]

NoTap == [pc |-> "idle", started |-> 0, at |-> 0, next |-> 0, tries |-> 0,
          doc |-> NoSendDoc, live |-> FALSE, old |-> FALSE]

-----------------------------------------------------------------------------

NextWait(n) == Ladder[IF n < Len(Ladder) THEN n ELSE Len(Ladder)]

PruneDay(sends, t) == {s \in sends : s > t - Day}

CodeLive(t) == code # NoCode /\ t - code < CodeTtl

\* Faulty: the idle reset is applied to the wait as well.
CoolingDownIdle(doc) == doc.next > clock /\ clock - doc.last <= HandlerTime

CoolingDown(doc) == doc.next > clock

AtCeiling(doc) == Cardinality(PruneDay(doc.sends, clock)) >= Ceiling

FirstSend(at) ==
    [count |-> 1, last |-> at, next |-> at + NextWait(1), sends |-> {at}, version |-> 0]

NextSend(doc, at) ==
    LET k == 1 + (IF at - doc.last > LadderReset THEN 0 ELSE doc.count)
    IN  [count |-> k, last |-> at, next |-> at + NextWait(k),
         sends |-> PruneDay(doc.sends, at) \cup {at}, version |-> doc.version + 1]

\* Faulty: the version of the document that was read is not looked at.
SameVersionAny(doc) == sendDoc # NoSendDoc

SameVersion(doc) == sendDoc # NoSendDoc /\ sendDoc.version = doc.version

-----------------------------------------------------------------------------

LadderInit ==
    /\ clock = 0
    /\ sendDoc = NoSendDoc
    /\ code = NoCode
    /\ taps = [r \in Taps |-> NoTap]
    /\ resets = 0
    /\ sent = <<>>
    /\ crossed = FALSE

Answered(r) == taps' = [taps EXCEPT ![r] = NoTap]

\* The voter asks for a code; the bot check, the budget and the guess bucket let the request pass.
AskForCode(r) ==
    /\ taps[r].pc = "idle"
    /\ taps' = [taps EXCEPT ![r] = [NoTap EXCEPT !.pc = "insert", !.started = clock]]
    /\ UNCHANGED <<clock, sendDoc, code, resets, sent, crossed>>

\* The slot is r's; what it will send is the stored code while that is live, else a new one.
Reserved(r, doc, snapshot) ==
    /\ sendDoc' = doc
    /\ crossed' = (crossed \/ taps[r].old)
    /\ taps' = [taps EXCEPT ![r].pc = "gateway", ![r].at = doc.last, ![r].next = doc.next,
                            ![r].doc = snapshot, ![r].live = CodeLive(taps[r].started)]

\* A first send needs one insert; an existing document falls through to the read.
ReserveFirst(r) ==
    /\ taps[r].pc = "insert"
    /\ \/ /\ sendDoc = NoSendDoc
          /\ Reserved(r, FirstSend(clock), NoSendDoc)
       \/ /\ sendDoc # NoSendDoc
          /\ taps' = [taps EXCEPT ![r].pc = "read"]
          /\ UNCHANGED <<sendDoc, crossed>>
    /\ UNCHANGED <<clock, code, resets, sent>>

ReadSendState(r) ==
    /\ taps[r].pc = "read"
    /\ sendDoc # NoSendDoc => ~CoolingDown(sendDoc) /\ ~AtCeiling(sendDoc)
    /\ sendDoc.version < Rewrites
    /\ taps' = [taps EXCEPT ![r].pc = "write", ![r].doc = sendDoc, ![r].at = clock]
    /\ UNCHANGED <<clock, sendDoc, code, resets, sent, crossed>>

\* 429: "Please wait", or "You have reached today's limit".
Refuse(r) ==
    /\ taps[r].pc = "read"
    /\ sendDoc # NoSendDoc
    /\ CoolingDown(sendDoc) \/ AtCeiling(sendDoc)
    /\ Answered(r)
    /\ UNCHANGED <<clock, sendDoc, code, resets, sent, crossed>>

Reserve(r) ==
    /\ taps[r].pc = "write"
    /\ \/ /\ taps[r].doc = NoSendDoc /\ sendDoc = NoSendDoc
          /\ Reserved(r, FirstSend(taps[r].at), NoSendDoc)
       \/ /\ taps[r].doc # NoSendDoc /\ SameVersion(taps[r].doc)
          /\ Reserved(r, NextSend(taps[r].doc, taps[r].at), taps[r].doc)
    /\ UNCHANGED <<clock, code, resets, sent>>

\* Another tap was first: read again, three times in all.
LoseSlot(r) ==
    /\ taps[r].pc = "write"
    /\ IF taps[r].doc = NoSendDoc THEN sendDoc # NoSendDoc ELSE ~SameVersion(taps[r].doc)
    /\ taps' = [taps EXCEPT ![r] = IF taps[r].tries = 2 THEN NoTap
                                   ELSE [taps[r] EXCEPT !.pc = "read",
                                            !.tries = taps[r].tries + 1, !.doc = NoSendDoc]]
    /\ UNCHANGED <<clock, sendDoc, code, resets, sent, crossed>>

\* "ok" or "ambiguous": the code may be on its way, so it is stored and the slot is spent.
CodeTaken(r) ==
    /\ taps[r].pc = "gateway"
    /\ code' = IF taps[r].live THEN code ELSE taps[r].started
    /\ sent' = IF taps[r].old THEN sent ELSE Append(sent, [at |-> taps[r].at, next |-> taps[r].next])
    /\ Answered(r)
    /\ UNCHANGED <<clock, sendDoc, resets, crossed>>

\* Faulty: a snapshot that is None is written back like any other.
RolledBackBlind(snapshot) == [snapshot EXCEPT !.version = sendDoc.version + 1]

\* Faulty: the slot is given back by dropping the document.
RolledBackDelete(snapshot) == NoSendDoc

RolledBack(snapshot) ==
    IF NoSendDoc \in {snapshot, sendDoc} THEN NoSendDoc
    ELSE [snapshot EXCEPT !.version = sendDoc.version + 1]

\* A gateway failure is free: rollback_send, whatever happened to the document since.
SendFailed(r) ==
    /\ taps[r].pc = "gateway"
    /\ sendDoc' = RolledBack(taps[r].doc)
    /\ crossed' = (crossed \/ taps[r].old)
    /\ Answered(r)
    /\ UNCHANGED <<clock, code, resets, sent>>

\* The code was used (/verify-otp), or is deleted because it is too old.
CodeGone ==
    /\ code # NoCode
    /\ code' = NoCode
    /\ UNCHANGED <<clock, sendDoc, taps, resets, sent, crossed>>

\* reset-otp-limits: clear_otp_limit_state drops the document and leaves the code alone.
ClearLimits ==
    /\ resets < LimitResets
    /\ resets' = resets + 1
    /\ sendDoc' = NoSendDoc
    /\ sent' = <<>>
    /\ crossed' = FALSE
    /\ taps' = [r \in Taps |-> [taps[r] EXCEPT !.old = taps[r].pc # "idle"]]
    /\ UNCHANGED <<clock, code>>

LadderTick ==
    /\ clock < LadderEnd
    /\ \A r \in Taps : taps[r].pc # "idle" => clock - taps[r].started < HandlerTime
    /\ clock' = clock + 1
    /\ UNCHANGED <<sendDoc, code, taps, resets, sent, crossed>>

LadderNext ==
    \/ LadderTick \/ CodeGone \/ ClearLimits
    \/ \E r \in Taps : \/ AskForCode(r) \/ ReserveFirst(r) \/ ReadSendState(r) \/ Refuse(r)
                       \/ Reserve(r) \/ LoseSlot(r) \/ CodeTaken(r) \/ SendFailed(r)

LadderSpec == LadderInit /\ [][LadderNext]_ladderVars

-----------------------------------------------------------------------------

LadderTypeOK ==
    /\ clock \in 0..LadderEnd
    /\ sendDoc \in SendDocs \cup {NoSendDoc}
    /\ code \in Nat \cup {NoCode}
    /\ taps \in [Taps -> Tap]
    /\ resets \in 0..LimitResets
    /\ sent \in Seq([at : Nat, next : Nat])
    /\ crossed \in BOOLEAN

\* Parallel taps on "Resend" win one slot between them: two that began after the last reset are
\* at the gateway together only if an older tap wrote the document in between
\* (reserve_send: "20 parallel Resend taps produce exactly one reservation").
OneReservation ==
    \A r, q \in Taps :
        (/\ r # q /\ taps[r].pc = "gateway" /\ taps[q].pc = "gateway"
         /\ ~taps[r].old /\ ~taps[q].old) => crossed

\* Between two codes the gateway took lies the wait of the first one's rung: failed sends, their roll-backs
\* and lost races never shorten it, unless one of them reached past a reset.
SpacedSends ==
    crossed \/ \A i \in 1..(Len(sent) - 1) : sent[i + 1].at >= sent[i].next

\* However the failures fall, the gateway takes no more than Ceiling codes in Day ticks.
DailyCeiling ==
    crossed \/ \A i \in DOMAIN sent :
                   i + Ceiling <= Len(sent) => sent[i + Ceiling].at - sent[i].at >= Day

\* A tap refused during the cool-down is told "Your last code is still valid."
LastCodeStillValid ==
    (/\ sendDoc # NoSendDoc /\ CoolingDown(sendDoc) /\ code # NoCode
     /\ \A r \in Taps : taps[r].pc = "idle") => CodeLive(clock)

\* The send ladder keeps its word, however taps, failures and resets interleave: one reservation
\* for parallel taps, the wait of the rung between two sends, and the daily ceiling.
LadderKept == OneReservation /\ SpacedSends /\ DailyCeiling
=============================================================================
