---------------------------- MODULE ContactChanges ----------------------------
(* Corrections of a voter's phone or registration number: the direct edit,    *)
(* the request that a commissioner approves while the roster is frozen, and   *)
(* the undo of a direct edit.  All three write the voter's document, beside   *)
(* handlers that send the voter a code and ballots being cast.                *)
EXTENDS Naturals, FiniteSets

CONSTANTS People,       \* documents of voters
          RegNos,   \* registration numbers
          Phones,   \* phone numbers
          Own,      \* Own[p]: the registration number p starts with
          Clerks,   \* requests being served at the same time
          Changes,  \* documents of contact_changes
          Corrections, \* bound: direct edits and undos together
          NoPhone

ASSUME ContactAssumption == /\ Own \in [People -> RegNos] /\ Corrections \in Nat /\ Phones # {}
                            /\ \A p, q \in People : Own[p] = Own[q] => p = q

VARIABLES voter,        \* the documents of voters
          filed,    \* the key student_id on the voter's applications, grants, ...
          change,   \* contact_changes
          trail,    \* student_edit_audit, the entries not undone
          code,     \* otps: where the live code of a number was sent to
          clerk,    \* the local variables of the handlers
          direct,   \* direct edits and undos begun, up to Corrections
          lostBy,   \* history: which kind of write overwrote an edit it had not read
          rewritten, \* history: numbers whose live code an unfiltered write, a late send or one to a
                    \* number that two voters share outdated
          restored  \* history: the registration numbers an undo or a rollback gave back

contactVars == <<voter, filed, change, trail, code, clerk, direct, lostBy, rewritten, restored>>

Fields  == {"phone", "number"}
Values  == RegNos \cup Phones
Value(field) == IF field = "phone" THEN Phones ELSE RegNos
Doc     == [number : RegNos, phone : Phones, voted : BOOLEAN]
Off     == [at |-> "off"]
Edit    == [field : Fields, old : Values, new : Values]
Decided == {"approved", "denied", "cancelled", "expired", "failed"}

ContactInit ==
    /\ voter = [p \in People |-> [number |-> Own[p], phone |-> CHOOSE x \in Phones : TRUE, voted |-> FALSE]]
    /\ filed = Own
    /\ change = [c \in Changes |-> [status |-> "unused"]]
    /\ trail = {}
    /\ code = [n \in RegNos |-> NoPhone]
    /\ clerk = [k \in Clerks |-> Off]
    /\ direct = 0 /\ lostBy = "nobody" /\ restored = {} /\ rewritten = {}

Enter(k, record) == clerk' = [clerk EXCEPT ![k] = record]
Step(k, at) == clerk' = [clerk EXCEPT ![k].at = at]
Finished(k) == clerk' = [clerk EXCEPT ![k] = Off]

-----------------------------------------------------------------------------
(* A request for a change, made while contact_change_required: the voter has  *)
(* not voted; the unique index admits one pending request per voter.          *)
RequestRead(k) ==
    /\ clerk[k] = Off
    /\ \E p \in People, field \in Fields : \E new \in Value(field) :
         /\ ~voter[p].voted /\ new # voter[p][field]
         /\ field = "number" => \A q \in People : voter[q].number # new
         /\ Enter(k, [at |-> "request", who |-> p,
                      edit |-> [field |-> field, old |-> voter[p][field], new |-> new]])
    /\ UNCHANGED <<voter, filed, change, trail, code, direct, lostBy, restored, rewritten>>

RequestInsert(k) ==
    /\ clerk[k].at = "request"
    /\ IF \E c \in Changes : change[c].status = "pending" /\ change[c].who = clerk[k].who
       THEN UNCHANGED change
       ELSE \E c \in Changes :
              /\ change[c].status = "unused"
              /\ change' = [change EXCEPT ![c] = [status |-> "pending", who |-> clerk[k].who,
                                                  edit |-> clerk[k].edit, applied |-> 0]]
    /\ Finished(k)
    /\ UNCHANGED <<voter, filed, trail, code, direct, lostBy, restored, rewritten>>

(* Cancellation and expiry write through the filter "pending".                *)
Withdraw(c) ==
    /\ change[c].status = "pending"
    /\ \E s \in {"cancelled", "expired"} : change' = [change EXCEPT ![c].status = s]
    /\ UNCHANGED <<voter, filed, trail, code, clerk, direct, lostBy, restored, rewritten>>

Approved == {c \in Changes : change[c].status = "approved"}

(* Mutant: the claim relies on the status read before.                        *)
ClaimedBlind(c) == TRUE

(* The decision reads the request and counts today's approvals ...            *)
DecideRead(k, c) ==
    /\ clerk[k] = Off
    /\ change[c].status = "pending"
    /\ Enter(k, [at |-> "claim", change |-> c])
    /\ UNCHANGED <<voter, filed, change, trail, code, direct, lostBy, restored, rewritten>>

(* ... and claims it in one update.                                           *)
Claimed(c) == change[c].status = "pending"

(* Mutant: the error is passed on, the request stays approved.                *)
FailedSilently(c) == change

DecideClaim(k) ==
    /\ clerk[k].at = "claim"
    /\ LET c == clerk[k].change
       IN IF ~Claimed(c) THEN Finished(k) /\ UNCHANGED change
          ELSE \/ change' = [change EXCEPT ![c].status = "approved"] /\ Step(k, "fetch")
               \/ change' = [change EXCEPT ![c].status = "denied"] /\ Finished(k)
    /\ UNCHANGED <<voter, filed, trail, code, direct, lostBy, restored, rewritten>>

(* _fail: a claimed request whose edit is refused is marked failed.           *)
Failed(c) == [change EXCEPT ![c].status = "failed"]

(* The checks of _apply_student_edit on the document it was given.            *)
Valid(edit, p, doc) ==
    /\ doc[edit.field] = edit.old
    /\ edit.field = "number" => \A q \in People \ {p} : voter[q].number # edit.new

DecideFetch(k) ==
    /\ clerk[k].at = "fetch"
    /\ LET c == clerk[k].change
           p == change[c].who
       IN IF ~voter[p].voted /\ Valid(change[c].edit, p, voter[p])
          THEN /\ Enter(k, [at |-> "write", op |-> "decide", change |-> c, who |-> p,
                            edit |-> change[c].edit, seen |-> voter[p]])
               /\ UNCHANGED change
          ELSE change' = Failed(c) /\ Finished(k)
    /\ UNCHANGED <<voter, filed, trail, code, direct, lostBy, restored, rewritten>>

(* A direct edit: before the freeze, or after voting.                         *)
EditRead(k) ==
    /\ clerk[k] = Off /\ direct < Corrections
    /\ \E p \in People, field \in Fields : \E new \in Value(field) :
         LET edit == [field |-> field, old |-> voter[p][field], new |-> new]
         IN /\ new # edit.old /\ Valid(edit, p, voter[p])
            /\ Enter(k, [at |-> "write", op |-> "edit", who |-> p, edit |-> edit, seen |-> voter[p]])
    /\ direct' = direct + 1
    /\ UNCHANGED <<voter, filed, change, trail, code, lostBy, restored, rewritten>>

-----------------------------------------------------------------------------
(* Mutant: the update is addressed to the document's id alone.                *)
UnchangedSinceAny(p, seen) == TRUE

(* _apply_student_edit's write and what follows it, for both callers.         *)

(* The optimistic filter: the document is as the handler read it (whether the *)
(* voter has voted is not part of it).                                        *)
UnchangedSince(p, seen) == voter[p].number = seen.number /\ voter[p].phone = seen.phone

(* The write lands on a phone or number its handler never saw.                *)
Unseen(p, seen, kind) ==
    lostBy' = IF voter[p].number # seen.number \/ voter[p].phone # seen.phone THEN kind ELSE lostBy

Refuse(k) == /\ IF clerk[k].op = "decide" THEN change' = Failed(clerk[k].change) ELSE UNCHANGED change
             /\ Finished(k)

(* Mutant: the duplicate is looked for before the write only.                 *)
TakenNever(p, number) == FALSE

Write(k) ==
    /\ clerk[k].at = "write"
    /\ LET p == clerk[k].who
           e == clerk[k].edit
       IN IF UnchangedSince(p, clerk[k].seen)
          THEN /\ voter' = [voter EXCEPT ![p][e.field] = e.new]
               /\ Unseen(p, clerk[k].seen, "edit")
               /\ Step(k, IF e.field = "number" THEN "recheck" ELSE "audit")
               /\ UNCHANGED change
          ELSE Refuse(k) /\ UNCHANGED <<voter, lostBy>>
    /\ UNCHANGED <<filed, trail, code, direct, restored, rewritten>>

(* No unique index: the handler counts the documents with the new number ...  *)
Taken(p, number) == \E q \in People \ {p} : voter[q].number = number

Recheck(k) ==
    /\ clerk[k].at = "recheck"
    /\ Step(k, IF Taken(clerk[k].who, clerk[k].edit.new) THEN "rollback" ELSE "follow")
    /\ UNCHANGED <<voter, filed, change, trail, code, direct, lostBy, restored, rewritten>>

(* ... and puts name, number and phones back as it had read them.             *)
RollBack(k) ==
    /\ clerk[k].at = "rollback"
    /\ LET p    == clerk[k].who
           left == [clerk[k].seen EXCEPT !.number = clerk[k].edit.new]
       IN /\ voter' = [voter EXCEPT ![p].number = clerk[k].seen.number, ![p].phone = clerk[k].seen.phone]
          /\ Unseen(p, left, "rollback")
          /\ restored' = restored \cup {clerk[k].seen.number}
          /\ rewritten' = rewritten \cup {clerk[k].seen.number, clerk[k].edit.new}
    /\ Refuse(k)
    /\ UNCHANGED <<filed, trail, code, direct>>

(* The voter's other records follow the number they are filed under.          *)
Follow(k) ==
    /\ clerk[k].at = "follow"
    /\ filed' = [p \in People |-> IF filed[p] = clerk[k].edit.old THEN clerk[k].edit.new ELSE filed[p]]
    /\ Step(k, "audit")
    /\ UNCHANGED <<voter, change, trail, code, direct, lostBy, restored, rewritten>>

(* Mutant: the correction leaves the live code alone.                         *)
ForgottenNever(edit, seen) == {}

Audit(k) ==
    /\ clerk[k].at = "audit"
    /\ trail' = trail \cup {[who |-> clerk[k].who, edit |-> clerk[k].edit]}
    /\ IF clerk[k].op = "decide"
       THEN change' = [change EXCEPT ![clerk[k].change].applied = IF @ < 2 THEN @ + 1 ELSE @]
       ELSE UNCHANGED change
    /\ Step(k, "reset")
    /\ UNCHANGED <<voter, filed, code, direct, lostBy, restored, rewritten>>

(* reset_voter_otp_state deletes the live codes of the old and new numbers.   *)
Forgotten(edit, seen) == {seen.number} \cup (IF edit.field = "number" THEN {edit.new} ELSE {})

Reset(k) ==
    /\ clerk[k].at = "reset"
    /\ LET gone == Forgotten(clerk[k].edit, clerk[k].seen)
       IN /\ code' = [n \in RegNos |-> IF n \in gone THEN NoPhone ELSE code[n]]
          /\ rewritten' = rewritten \ gone
    /\ Finished(k)
    /\ UNCHANGED <<voter, filed, change, trail, direct, lostBy, restored>>

-----------------------------------------------------------------------------
(* The undo of an entry: it reads the entry and the voter, checks that the    *)
(* new value still stands, and writes without a filter.                       *)
UndoRead(k) ==
    /\ clerk[k] = Off /\ direct < Corrections
    /\ \E t \in trail :
         /\ voter[t.who][t.edit.field] = t.edit.new
         /\ t.edit.field = "number" => \A q \in People \ {t.who} : voter[q].number # t.edit.old
         /\ Enter(k, [at |-> "undo", who |-> t.who, edit |-> t.edit, seen |-> voter[t.who]])
    /\ direct' = direct + 1
    /\ UNCHANGED <<voter, filed, change, trail, code, lostBy, restored, rewritten>>

(* Mutant: the old value is looked up under a key the entry does not have.    *)
UndoneToMissing(edit) == NoPhone

UndoneTo(edit) == edit.old

UndoWrite(k) ==
    /\ clerk[k].at = "undo"
    /\ LET p == clerk[k].who
           e == clerk[k].edit
       IN /\ voter' = [voter EXCEPT ![p][e.field] = UndoneTo(e)]
          /\ IF voter[p][e.field] = e.new THEN UNCHANGED lostBy ELSE lostBy' = "undo"
          /\ IF e.field = "number"
             THEN filed' = [q \in People |-> IF filed[q] = e.new THEN e.old ELSE filed[q]]
             ELSE UNCHANGED filed
          /\ rewritten' = rewritten \cup ({e.old, voter[p].number} \cap RegNos)
          /\ restored' = IF e.field = "number" THEN restored \cup {e.old} ELSE restored
          /\ trail' = trail \ {[who |-> p, edit |-> e]}
    /\ Finished(k)
    /\ UNCHANGED <<change, code, direct>>

-----------------------------------------------------------------------------
(* A request for a code reads the voter, and stores and sends the code later. *)
SendRead(k) ==
    /\ clerk[k] = Off
    /\ \E p \in People : /\ ~voter[p].voted
                         /\ Enter(k, [at |-> "send", number |-> voter[p].number, phone |-> voter[p].phone])
    /\ UNCHANGED <<voter, filed, change, trail, code, direct, lostBy, restored, rewritten>>

SendCode(k) ==
    /\ clerk[k].at = "send"
    /\ LET n == clerk[k].number
           current == \A p \in People : voter[p].number = n => voter[p].phone = clerk[k].phone
       IN /\ code' = [code EXCEPT ![n] = clerk[k].phone]
          /\ rewritten' = IF current THEN rewritten \ {n} ELSE rewritten \cup {n}
    /\ Finished(k)
    /\ UNCHANGED <<voter, filed, change, trail, direct, lostBy, restored>>

CastBallot(p) ==
    /\ ~voter[p].voted
    /\ voter' = [voter EXCEPT ![p].voted = TRUE]
    /\ code' = [code EXCEPT ![voter[p].number] = NoPhone]
    /\ UNCHANGED <<filed, change, trail, clerk, direct, lostBy, restored, rewritten>>

ContactNext ==
    \/ \E c \in Changes : Withdraw(c)
    \/ \E p \in People : CastBallot(p)
    \/ \E k \in Clerks :
         \/ RequestRead(k) \/ RequestInsert(k)
         \/ \E c \in Changes : DecideRead(k, c)
         \/ DecideClaim(k) \/ DecideFetch(k) \/ EditRead(k)
         \/ Write(k) \/ Recheck(k) \/ RollBack(k) \/ Follow(k) \/ Audit(k) \/ Reset(k)
         \/ UndoRead(k) \/ UndoWrite(k) \/ SendRead(k) \/ SendCode(k)

ContactSpec == ContactInit /\ [][ContactNext]_contactVars

-----------------------------------------------------------------------------
Working(c) == \E k \in Clerks : clerk[k] # Off /\ "change" \in DOMAIN clerk[k] /\ clerk[k].change = c
                                /\ clerk[k].at # "claim"
Resting == \A k \in Clerks : clerk[k] = Off

(* The types of the variables.                                                *)
ContactTypeOK ==
    /\ voter \in [People -> Doc] /\ filed \in [People -> RegNos]
    /\ change \in [Changes -> [status : {"unused"}]
                        \cup [status : Decided \cup {"pending"}, who : People, edit : Edit, applied : 0 .. 2]]
    /\ trail \subseteq [who : People, edit : Edit]
    /\ code \in [RegNos -> Phones \cup {NoPhone}]
    /\ \A k \in Clerks : clerk[k].at \in {"off", "request", "claim", "fetch", "write", "recheck", "rollback",
                                         "follow", "audit", "reset", "undo", "send"}
    /\ direct \in 0 .. Corrections /\ lostBy \in {"nobody", "edit", "rollback", "undo"}
    /\ restored \subseteq RegNos /\ rewritten \subseteq RegNos

(* Once nobody works on a request, it is approved exactly when its edit was   *)
(* applied, and it was applied at most once: a refused edit leaves "failed",  *)
(* not an approval that never happened (_decide_contact_change, main.py:13297).*)
ApprovedMeansApplied ==
    \A c \in Changes : change[c].status \in Decided /\ ~Working(c) =>
        change[c].applied = IF change[c].status = "approved" THEN 1 ELSE 0

(* An edit never overwrites a correction its handler had not read ("two       *)
(* simultaneous edits cannot silently overwrite each other", main.py:11426).  *)
NoBlindEdit == lostBy # "edit"

(* Two voters share a registration number at rest only if an undo or a        *)
(* rollback gave one back that someone else had taken meanwhile: the race of  *)
(* two edits for a number is settled by the count after the write             *)
(* (main.py:11443).                                                           *)
NumbersUnique ==
    Resting => \A p, q \in People : p # q /\ voter[p].number = voter[q].number => voter[p].number \in restored

(* "two simultaneous edits cannot silently overwrite each other"              *)
(* (_apply_student_edit, main.py:11426).                                      *)
EditsNotLost == lostBy \notin {"edit", "rollback"}

(* "Keep the student's own records attached to the new number"                *)
(* (_apply_student_edit, main.py:11452).                                      *)
RecordsAttached == Resting => \A p \in People : filed[p] = voter[p].number

(* "also delete any live code so it can't reach the OLD number's owner"       *)
(* (reset_voter_otp_state, main.py:4292): a live code of a voter was sent to  *)
(* the phone on the voter's document.                                         *)
CodesAtCurrentPhone ==
    Resting => \A p \in People : code[voter[p].number] \in {NoPhone, voter[p].phone}

(* A correction that went through its own route leaves no live code at the    *)
(* voter's former phone: what it finds is deleted after the write, and only a *)
(* code stored later by a handler that read the voter before, an undo, a      *)
(* rollback or another voter who was given the same number back can leave one *)
(* (reset_voter_otp_state, main.py:11517 and 13383).                          *)
OldPhoneHasNoCode ==
    Resting => \A p \in People : voter[p].number \notin rewritten =>
                   code[voter[p].number] \in {NoPhone, voter[p].phone}

(* Requests, corrections and undos together: approvals and edits agree, no    *)
(* correction is blind, numbers stay apart and old phones lose their codes.   *)
ContactsSound == ApprovedMeansApplied /\ NoBlindEdit /\ NumbersUnique /\ OldPhoneHasNoCode
=============================================================================
