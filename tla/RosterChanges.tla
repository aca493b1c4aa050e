---------------------------- MODULE RosterChanges ----------------------------
(* The voter roster: who may join or leave it and when.  Add and removal      *)
(* requests of IT administrators, the Financial Controller's decision, the    *)
(* superadmin's overrides, direct additions and removals, and the import of a *)
(* roster file, against the freeze of the roster and against voters who vote  *)
(* meanwhile.  A handler (desk) reads, then awaits, then writes; every        *)
(* database call is one step.                                                 *)
EXTENDS Naturals, FiniteSets

CONSTANTS Voters,       \* registration numbers
          Desks,    \* requests being served at the same time
          Forms,    \* documents of student_changes
          Bypass,   \* the superadmin's upload bypass is switched on
          Moves     \* bound: how often the phase of the roster moves

ASSUME RosterAssumption == Bypass \in BOOLEAN /\ Moves \in Nat

VARIABLES phase,        \* roster_status(...)["phase"]
          moved,    \* how often it has moved, up to Moves
          roster,   \* the voters collection
          forms,    \* student_changes
          desks     \* the local variables of the handlers

rosterVars == <<phase, moved, roster, forms, desks>>

Granted  == {"approved", "force_approved"}
Rejected == {"denied", "force_denied"}
FormStatus == {"unused", "pending", "cancelled", "expired_at_freeze"} \cup Granted \cup Rejected

NoRow   == [on |-> FALSE, voted |-> FALSE, shielded |-> FALSE]
NewRow  == [on |-> TRUE,  voted |-> FALSE, shielded |-> FALSE]
NoForm  == [status |-> "unused", kind |-> "add", voter |-> CHOOSE v \in Voters : TRUE, applied |-> 0]
Vacant  == [at |-> "idle"]

FormOf   == [status : FormStatus, kind : {"add", "remove"}, voter : Voters, applied : 0 .. 2]
RowOf    == [on : BOOLEAN, voted : BOOLEAN, shielded : BOOLEAN]
FormOps  == {"decide", "force_approve", "force_deny", "cancel"}
VoterOps == {"ask_add", "ask_remove", "add", "remove"}
DeskOf   == {Vacant}
            \cup [at : {"admitted", "looked"}, op : FormOps, form : Forms]
            \cup [at : {"admitted", "looked"}, op : VoterOps, voter : Voters]
            \cup [at : {"execute", "found"}, op : FormOps \cup {"ask_add"}, form : Forms]
            \cup [at : {"admitted"}, op : {"import"}, file : SUBSET Voters]
            \cup [at : {"write", "sweep"}, op : {"import"}, file : SUBSET Voters, gone : SUBSET Voters]

RosterInit == /\ phase = "pre_freeze" /\ moved = 0
              /\ roster = [v \in Voters |-> NewRow]
              /\ forms = [f \in Forms |-> NoForm]
              /\ desks = [d \in Desks |-> Vacant]

Unfrozen == phase = "pre_freeze"

Leave(d) == desks' = [desks EXCEPT ![d] = Vacant]

GoOn(d, at) == desks' = [desks EXCEPT ![d].at = at]

-----------------------------------------------------------------------------
(* The phase: time reaches the freeze or the end of voting, a grant reopens   *)
(* voting for one voter, an administrator lifts the freeze or moves it.       *)
PhaseMove ==
    /\ moved < Moves
    /\ \E p \in {"pre_freeze", "voting_frozen", "closed"} \ {phase} : phase' = p
    /\ moved' = moved + 1
    /\ UNCHANGED <<roster, forms, desks>>

(* assert_roster_unfrozen refuses, and the requests still pending expire.     *)
TurnedAway ==
    /\ ~Unfrozen
    /\ forms' = [f \in Forms |-> IF forms[f].status = "pending"
                                 THEN [forms[f] EXCEPT !.status = "expired_at_freeze"] ELSE forms[f]]
    /\ UNCHANGED <<phase, moved, roster, desks>>

(* Every route but the cancellation of a request passes the freeze first.     *)
Admit(d, call) ==
    /\ desks[d].at = "idle"
    /\ call.op = "cancel" \/ Unfrozen
    /\ desks' = [desks EXCEPT ![d] = call]
    /\ UNCHANGED <<phase, moved, roster, forms>>

(* What the route reads before it acts, and refuses on.                       *)
NothingPending(v, kind) ==
    \A f \in Forms : ~(forms[f].status = "pending" /\ forms[f].kind = kind /\ forms[f].voter = v)

Acceptable(call) ==
    CASE call.op = "ask_add"       -> ~roster[call.voter].on /\ NothingPending(call.voter, "add")
      [] call.op = "ask_remove"    -> roster[call.voter].on /\ NothingPending(call.voter, "remove")
      [] call.op = "add"           -> ~roster[call.voter].on
      [] call.op = "remove"        -> roster[call.voter].on
      [] call.op = "force_approve" -> forms[call.form].status \notin Granted \cup {"cancelled", "unused"}
      [] call.op = "force_deny"    -> forms[call.form].status \notin Rejected \cup {"cancelled", "unused"}
      [] OTHER                     -> forms[call.form].status = "pending"

LookUp(d) ==
    /\ desks[d].at = "admitted" /\ desks[d].op # "import"
    /\ IF Acceptable(desks[d]) THEN GoOn(d, "looked") ELSE Leave(d)
    /\ UNCHANGED <<phase, moved, roster, forms>>

-----------------------------------------------------------------------------
(* Requests and the decisions on them.                                        *)
Ask(d) ==
    /\ desks[d].at = "looked" /\ desks[d].op \in {"ask_add", "ask_remove"}
    /\ LET kind    == IF desks[d].op = "ask_add" THEN "add" ELSE "remove"
           through == Bypass /\ kind = "add"
       IN \E f \in Forms :
            /\ forms[f].status = "unused"
            /\ forms' = [forms EXCEPT ![f].status = IF through THEN "approved" ELSE "pending",
                                      ![f].kind = kind, ![f].voter = desks[d].voter]
            /\ IF through
               THEN desks' = [desks EXCEPT ![d] = [at |-> "execute", op |-> "ask_add", form |-> f]]
               ELSE Leave(d)
    /\ UNCHANGED <<phase, moved, roster>>

(* Mutant: the claim trusts the read above it.                                *)
ClaimableBlind(op, status) == op \in {"decide", "force_approve", "force_deny"}

(* The filter of the claim: the controller's asks for a pending request, the  *)
(* superadmin's for one that is not final.                                    *)
Claimable(op, status) ==
    \/ op = "decide" /\ status = "pending"
    \/ op \in {"force_approve", "force_deny"} /\ status \notin Granted \cup Rejected \cup {"cancelled"}

Verdicts(op) == CASE op = "decide" -> {"approved", "denied"}
                  [] op = "force_approve" -> {"force_approved"}
                  [] op = "force_deny" -> {"force_denied"}

Claim(d) ==
    /\ desks[d].at = "looked" /\ desks[d].op \in FormOps \ {"cancel"}
    /\ LET f == desks[d].form
       IN IF Claimable(desks[d].op, forms[f].status)
          THEN \E verdict \in Verdicts(desks[d].op) :
                 /\ forms' = [forms EXCEPT ![f].status = verdict]
                 /\ IF verdict \in Granted THEN GoOn(d, "execute") ELSE Leave(d)
          ELSE Leave(d) /\ UNCHANGED forms
    /\ UNCHANGED <<phase, moved, roster>>

(* The cancellation writes over whatever the request has become.              *)
CancelForm(d) ==
    /\ desks[d].at = "looked" /\ desks[d].op = "cancel"
    /\ forms' = [forms EXCEPT ![desks[d].form].status = "cancelled"]
    /\ Leave(d)
    /\ UNCHANGED <<phase, moved, roster>>

(* Mutant: the defaults are part of $set, as they once were.                  *)
UpsertedReset(row) == NewRow

(* Mutant: a new voter is written without the default of one field.            *)
UpsertedBare(row) == IF row.on THEN row ELSE [on |-> TRUE, voted |-> FALSE]

(* An upsert sets the details; the defaults apply only to a new voter.        *)
Upserted(row) == IF row.on THEN row ELSE NewRow

Counted(f) == [forms EXCEPT ![f].applied = IF @ < 2 THEN @ + 1 ELSE @]

(* _execute_student_change: an addition looks first and refuses a number that *)
(* is taken, with the request already approved; a removal deletes at once.    *)
Execute(d) ==
    /\ desks[d].at = "execute"
    /\ LET f == desks[d].form
           v == forms[f].voter
       IN IF forms[f].kind = "remove"
          THEN /\ roster' = [roster EXCEPT ![v] = NoRow]
               /\ forms' = Counted(f)
               /\ Leave(d)
          ELSE /\ IF roster[v].on THEN Leave(d) ELSE GoOn(d, "found")
               /\ UNCHANGED <<roster, forms>>
    /\ UNCHANGED <<phase, moved>>

ExecuteAdd(d) ==
    /\ desks[d].at = "found"
    /\ LET f == desks[d].form
       IN roster' = [roster EXCEPT ![forms[f].voter] = Upserted(@)] /\ forms' = Counted(f)
    /\ Leave(d)
    /\ UNCHANGED <<phase, moved>>

-----------------------------------------------------------------------------
(* The superadmin's direct routes.                                            *)
Direct(d) ==
    /\ desks[d].at = "looked" /\ desks[d].op \in {"add", "remove"}
    /\ roster' = [roster EXCEPT ![desks[d].voter] = IF desks[d].op = "add" THEN Upserted(@) ELSE NoRow]
    /\ Leave(d)
    /\ UNCHANGED <<phase, moved, forms>>

(* The import compares the file with the roster, upserts the new numbers in   *)
(* one bulk write, and then removes the numbers the file lacks, unless the    *)
(* comparison found them protected.                                           *)
Protected(row) == row.voted \/ row.shielded

Compare(d) ==
    /\ desks[d].at = "admitted" /\ desks[d].op = "import"
    /\ LET listed == desks[d].file
           new    == {v \in listed : ~roster[v].on}
           gone   == {v \in Voters \ listed : roster[v].on /\ ~Protected(roster[v])}
       IN desks' = [desks EXCEPT ![d] = [at |-> "write", op |-> "import", file |-> new, gone |-> gone]]
    /\ UNCHANGED <<phase, moved, roster, forms>>

ImportNew(d) ==
    /\ desks[d].at = "write"
    /\ roster' = [v \in Voters |-> IF v \in desks[d].file THEN Upserted(roster[v]) ELSE roster[v]]
    /\ GoOn(d, "sweep")
    /\ UNCHANGED <<phase, moved, forms>>

(* Mutant: the removal relies on the comparison alone.                        *)
RemovableAny(row) == TRUE

(* The filter of the removal looks at has_voted again, at nothing else.       *)
Removable(row) == ~row.voted

ImportGone(d) ==
    /\ desks[d].at = "sweep"
    /\ roster' = [v \in Voters |-> IF v \in desks[d].gone /\ Removable(roster[v]) THEN NoRow ELSE roster[v]]
    /\ Leave(d)
    /\ UNCHANGED <<phase, moved, forms>>

-----------------------------------------------------------------------------
(* What the other components do to a voter: a ballot, or a staff role or an   *)
(* application that protects the voter from an import.                        *)
VoterVotes(v) ==
    /\ roster[v].on /\ ~roster[v].voted /\ phase # "closed"
    /\ roster' = [roster EXCEPT ![v].voted = TRUE]
    /\ UNCHANGED <<phase, moved, forms, desks>>

VoterShielded(v) ==
    /\ roster[v].on /\ ~roster[v].shielded
    /\ roster' = [roster EXCEPT ![v].shielded = TRUE]
    /\ UNCHANGED <<phase, moved, forms, desks>>

Calls == [at : {"admitted"}, op : FormOps, form : {f \in Forms : forms[f].status # "unused"}]
         \cup [at : {"admitted"}, op : VoterOps, voter : Voters]
         \cup [at : {"admitted"}, op : {"import"}, file : SUBSET Voters]

RosterNext ==
    \/ PhaseMove \/ TurnedAway
    \/ \E v \in Voters : VoterVotes(v) \/ VoterShielded(v)
    \/ \E d \in Desks :
         \/ \E call \in Calls : Admit(d, call)
         \/ LookUp(d) \/ Ask(d) \/ Claim(d) \/ CancelForm(d) \/ Execute(d) \/ ExecuteAdd(d)
         \/ Direct(d) \/ Compare(d) \/ ImportNew(d) \/ ImportGone(d)

RosterSpec == RosterInit /\ [][RosterNext]_rosterVars

-----------------------------------------------------------------------------
(* The types of the variables.                                                *)
RosterTypeOK ==
    /\ phase \in {"pre_freeze", "voting_frozen", "closed"} /\ moved \in 0 .. Moves
    /\ roster \in [Voters -> RowOf] /\ forms \in [Forms -> FormOf] /\ desks \in [Desks -> DeskOf]

(* A request changes the roster at most once, however many controllers and    *)
(* superadmins decide it at the same time, and never when it is pending,      *)
(* expired or was rejected (the claims at main.py:10087 and 11040).           *)
AppliedOnce ==
    \A f \in Forms :
        /\ forms[f].applied <= 1
        /\ forms[f].status \in {"pending", "expired_at_freeze"} \cup Rejected => forms[f].applied = 0

(* No decision replaces a decision, and an expired request is revived only by *)
(* the superadmin: the losing call of two gets a 409.  (A cancellation that   *)
(* read the request while it was pending does overwrite a decision; see       *)
(* CancelledWasPending.)                                                      *)
DecisionsStand ==
    [][\A f \in Forms :
         forms'[f].status # forms[f].status =>
            \/ forms[f].status \in {"unused", "pending"}
            \/ forms'[f].status = "cancelled"
            \/ /\ forms[f].status = "expired_at_freeze"
               /\ forms'[f].status \in {"force_approved", "force_denied"}]_rosterVars

(* No route of the roster takes the mark of having voted from a voter who     *)
(* stays on it: an addition that looked before the voter was added by someone *)
(* else, and voted, must not reset has_voted ("a double-vote path",           *)
(* main.py:3162).                                                             *)
VotersStayVoted ==
    [][\A v \in Voters : roster[v].voted /\ roster'[v].on => roster'[v].voted]_rosterVars

(* An import never removes a voter who has voted, even one who voted after    *)
(* the comparison (import_voters_apply, main.py:6982).                        *)
ImportSparesVoters ==
    [][\A v \in Voters : roster[v].voted /\ ~roster'[v].on =>
         \E d \in Desks : desks[d].at \in {"looked", "execute"} /\ desks'[d] = Vacant]_rosterVars

(* A cancelled request was never carried out: "Cannot cancel a request that   *)
(* is already ..." (cancel_student_change, main.py:9958).                     *)
CancelledWasPending == \A f \in Forms : forms[f].status = "cancelled" => forms[f].applied = 0

(* "voters with a vote, a staff role or an application can never be removed"  *)
(* by an import (import_voters_apply, main.py:6911).                          *)
ImportSparesProtected ==
    [][\A v \in Voters : Protected(roster[v]) /\ ~roster'[v].on =>
         \E d \in Desks : desks[d].at \in {"looked", "execute"} /\ desks'[d] = Vacant]_rosterVars

(* What no step of any route may do to a decided request or to a voter who    *)
(* has voted.                                                                 *)
RosterSteps == DecisionsStand /\ VotersStayVoted /\ ImportSparesVoters
=============================================================================
