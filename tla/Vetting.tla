-------------------------------- MODULE Vetting --------------------------------
(***************************************************************************)
(* One nomination, from its submission to its decision: the panel's votes, *)
(* the tally, the Chair's tie-break, the close-out when the vetting window *)
(* ends, Finance, and the superadmin's overrides.  Every handler reads the *)
(* application first and writes it later, under a filter; what approval    *)
(* adds, a row on the ballot and a certificate, is written after the       *)
(* status.                                                                 *)
(***************************************************************************)
EXTENDS Integers, FiniteSets

CONSTANTS
    Panel,          \* panelists, active or not
    External,       \* those whose access ends with the vetting phase
    Chair,          \* those whose voter record is is_chief_commissioner
    Handlers,       \* handlers and sweeps that may be under way at once
    MinPanel,       \* the smallest panel a deactivation may leave (3 in the code)
    Enforced,       \* the vetting phase blocks votes outside its window
    Approvals,      \* bound: approvals
    Events          \* bound: rejections and reversals by Finance, calls by the superadmin,
                    \* changes of panel, policy and window, failed side effects and
                    \* handlers that die, all together

ASSUME VettingAssumption ==
    /\ IsFiniteSet(Panel) /\ IsFiniteSet(Handlers)
    /\ External \subseteq Panel /\ Chair \subseteq Panel
    /\ Enforced \in BOOLEAN
    /\ {MinPanel, Approvals, Events} \subseteq Nat

VARIABLES
    app,            \* the application
    archive,        \* the document in deleted_applications, or NoApp
    ballot,         \* candidate rows with its application_id
    certs,          \* certificates issued for it that are not revoked
    active,         \* panelists that are active
    policy,         \* approval_policy
    ended,          \* the vetting window has ended
    handlers,       \* Handlers -> what is under way
    approved,       \* history: how often it was approved
    events,         \* history: how many of the bounded events happened
    marks           \* history: what befell the application

vettingVars == <<app, archive, ballot, certs, active, policy, ended, handlers, approved, events,
                 marks>>

Policies == {"unanimous", "majority_cast", "majority_total"}
Resolved == {"approved", "denied", "removed"}
Votes == {"none", "approve", "deny"}

NoVotes == [p \in Panel |-> "none"]

NoApp == [status |-> "gone", votes |-> NoVotes, cleared |-> FALSE, rejected |-> FALSE,
          override |-> FALSE, undecided |-> FALSE, handled |-> FALSE, tied |-> FALSE, cert |-> 0]

Submitted == [NoApp EXCEPT !.status = "pending"]

Idle == [pc |-> "idle", kind |-> "none", doc |-> NoApp, who |-> {}, vote |-> "none", row |-> {}]

-----------------------------------------------------------------------------
(* The tally *)

\* _live_panelists: active, access not ended.
Live == active \ (IF ended THEN External ELSE {})

For(votes, keys, v) == Cardinality({p \in keys : votes[p] = v})

\* _tally_outcome
TallyOutcome(pol, keys, votes) ==
    LET total   == Cardinality(keys)
        approve == For(votes, keys, "approve")
        deny    == For(votes, keys, "deny")
        Wins(a, b) == CASE pol = "unanimous"     -> a = total
                        [] pol = "majority_cast" -> a + b = total /\ a > b
                        [] OTHER                 -> a >= (total \div 2) + 1
    IN  CASE total > 0 /\ Wins(approve, deny) -> "approve"
          [] total > 0 /\ Wins(deny, approve) -> "deny"
          [] OTHER                            -> "none"

\* _is_tied
Tied(pol, keys, votes) ==
    /\ pol # "unanimous"
    /\ keys # {}
    /\ For(votes, keys, "approve") + For(votes, keys, "deny") = Cardinality(keys)
    /\ For(votes, keys, "approve") = For(votes, keys, "deny")

\* _closeout_vote_keys: access that just ended does not cost a vote.
CloseoutKeys == active

\* _cast_majority
CastMajority(votes) ==
    LET approve == For(votes, CloseoutKeys, "approve")
        deny    == For(votes, CloseoutKeys, "deny")
    IN  CASE approve > deny -> "approve"
          [] deny > approve -> "deny"
          [] OTHER          -> "none"

-----------------------------------------------------------------------------

VettingInit ==
    /\ app = Submitted
    /\ archive = NoApp
    /\ ballot = {} /\ certs = {}
    /\ active = Panel
    /\ policy = "majority_total"
    /\ ended = FALSE
    /\ handlers = [h \in Handlers |-> Idle]
    /\ approved = 0 /\ events = 0
    /\ marks = {}

Start(h, rec) ==
    /\ handlers[h].pc = "idle"
    /\ handlers' = [handlers EXCEPT ![h] = rec]

Goto(h, pc) == handlers' = [handlers EXCEPT ![h].pc = pc]

Done(h) == handlers' = [handlers EXCEPT ![h] = Idle]

Event ==
    /\ events < Events
    /\ events' = events + 1

Open == app.status = "pending"

\* A handler that has read the application and is about to tally, decide or write.
Reading(pc, kind) == [Idle EXCEPT !.pc = pc, !.kind = kind, !.doc = app]

-----------------------------------------------------------------------------
(* A panelist's vote *)

VotingOpen(p) ==
    /\ Open /\ app.cleared /\ ~app.undecided
    /\ ~(Enforced /\ ended)
    /\ p \in Live
    /\ app.votes[p] = "none"

BeginVote(h, p, v) ==
    /\ VotingOpen(p)
    /\ Start(h, [Reading("cast", "vote") EXCEPT !.who = {p}, !.vote = v])
    /\ UNCHANGED <<app, archive, ballot, certs, active, policy, ended, approved, events, marks>>

\* Faulty: a vote can be replaced.
VoteFilterAny(p) == Open

\* The filter of the write: still open, not voted.
VoteFilter(p) == Open /\ app.votes[p] = "none"

CastVote(h) ==
    /\ handlers[h].pc = "cast"
    /\ \E p \in handlers[h].who :
        \/ /\ VoteFilter(p)
           /\ app' = [app EXCEPT !.votes[p] = handlers[h].vote]
           /\ Goto(h, "reread")
        \/ /\ ~VoteFilter(p)
           /\ Done(h)
           /\ UNCHANGED app
    /\ UNCHANGED <<archive, ballot, certs, active, policy, ended, approved, events, marks>>

\* Faulty: the tally is made on what was read before the vote was stored.
Reread(h) == [handlers[h].doc EXCEPT !.votes = [p \in Panel |->
                IF p \in handlers[h].who THEN handlers[h].vote ELSE @[p]]]

Updated(h) == app

RereadApplication(h) ==
    /\ handlers[h].pc = "reread"
    /\ handlers' = [handlers EXCEPT ![h] = [Reading("tally", "vote") EXCEPT !.doc = Updated(h)]]
    /\ UNCHANGED <<app, archive, ballot, certs, active, policy, ended, approved, events, marks>>

-----------------------------------------------------------------------------
(* _resolve_application, close-out and the hand-made decisions *)

\* After a change of the panel or of the policy every pending application is looked at again.
Resweep(h) ==
    /\ handlers[h].pc = "resweep"
    /\ IF Open THEN handlers' = [handlers EXCEPT ![h] = Reading("tally", "resweep")] ELSE Done(h)
    /\ UNCHANGED <<app, archive, ballot, certs, active, policy, ended, approved, events, marks>>

\* The panel, the policy and the votes read decide; the status is not written yet.
Tally(h) ==
    LET doc     == handlers[h].doc
        outcome == TallyOutcome(policy, Live, doc.votes)
    IN  /\ handlers[h].pc = "tally"
        /\ IF doc.status = "gone" \/ doc.undecided \/ Live = {} THEN Done(h)
           ELSE IF outcome # "none"
           THEN handlers' = [handlers EXCEPT ![h].pc = "flip", ![h].vote = outcome]
           ELSE Goto(h, IF Tied(policy, Live, doc.votes) THEN "tie" ELSE "notie")
        /\ UNCHANGED <<app, archive, ballot, certs, active, policy, ended, approved, events, marks>>

\* _flag_tie_for_chief, whatever the status is by now; or a stale flag is cleared.
FlagTie(h) ==
    /\ handlers[h].pc \in {"tie", "notie"}
    /\ app' = CASE handlers[h].pc = "tie" /\ app.status # "gone" -> [app EXCEPT !.tied = TRUE]
                [] handlers[h].pc = "notie" /\ Open -> [app EXCEPT !.tied = FALSE]
                [] OTHER -> app
    /\ Done(h)
    /\ UNCHANGED <<archive, ballot, certs, active, policy, ended, approved, events, marks>>

TieStands == app.tied /\ Tied(policy, Live, app.votes)

TieBreak(h, v) ==
    /\ Chair \cap Live # {}
    /\ Open /\ app.cleared /\ ~app.undecided
    /\ ~(Enforced /\ ended)
    /\ TieStands
    /\ Start(h, [Reading("flip", "tiebreak") EXCEPT !.vote = v])
    /\ UNCHANGED <<app, archive, ballot, certs, active, policy, ended, approved, events, marks>>

CloseoutDue == ended /\ Open /\ app.cleared /\ ~app.undecided /\ ~app.handled

\* _maybe_close_vetting, by the sweep of any instance or from a screen: the applications due are read.
BeginCloseout(h) ==
    /\ CloseoutDue
    /\ Start(h, Reading("closeout", "closeout"))
    /\ UNCHANGED <<app, archive, ballot, certs, active, policy, ended, approved, events, marks>>

\* The same at the end of a handler.
Sweep(h) ==
    /\ handlers[h].pc = "sweep"
    /\ IF CloseoutDue THEN handlers' = [handlers EXCEPT ![h] = Reading("closeout", "closeout")]
                      ELSE Done(h)
    /\ UNCHANGED <<app, archive, ballot, certs, active, policy, ended, approved, events, marks>>

TallyCloseout(h) ==
    /\ handlers[h].pc = "closeout"
    /\ LET outcome == CastMajority(handlers[h].doc.votes)
       IN  handlers' = [handlers EXCEPT ![h].pc = IF outcome = "none" THEN "handover" ELSE "flip",
                                        ![h].vote = outcome]
    /\ UNCHANGED <<app, archive, ballot, certs, active, policy, ended, approved, events, marks>>

\* Faulty: an application nobody voted on is left alone.
HandedOverTie ==
    IF app.votes = NoVotes THEN app
    ELSE [app EXCEPT !.undecided = TRUE, !.handled = TRUE, !.tied = FALSE]

HandedOver == [app EXCEPT !.undecided = TRUE, !.handled = TRUE, !.tied = FALSE]

\* A tie, or nobody voted: not guessed but left to the Chair or the superadmin.
HandOver(h) ==
    /\ handlers[h].pc = "handover"
    /\ app' = IF Open /\ ~app.undecided THEN HandedOver ELSE app
    /\ Done(h)
    /\ UNCHANGED <<archive, ballot, certs, active, policy, ended, approved, events, marks>>

\* Both close-out decision routes: whoever acts first decides.
CloseoutDecision(h, v) ==
    /\ Open /\ app.undecided
    /\ Start(h, [Reading("flip", "decision") EXCEPT !.vote = v])
    /\ UNCHANGED <<app, archive, ballot, certs, active, policy, ended, approved, events, marks>>

-----------------------------------------------------------------------------
(* _apply_application_outcome *)

\* Faulty: the status that was read is trusted.
FlipFilterRead(h) == handlers[h].doc.status = "pending" /\ app.status # "gone"

\* Only an open application can be decided: a caller that loses the race changes nothing.
FlipFilter(h) == Open

Flip(h) ==
    /\ handlers[h].pc = "flip"
    /\ IF ~FlipFilter(h) THEN Done(h) /\ UNCHANGED <<app, approved>>
       ELSE /\ app' = [app EXCEPT
                !.status = IF handlers[h].vote = "approve" THEN "approved" ELSE "denied",
                !.tied = FALSE, !.undecided = FALSE,
                !.handled = @ \/ handlers[h].kind \in {"closeout", "decision"}]
            /\ IF handlers[h].vote = "approve"
               THEN /\ approved < Approvals
                    /\ approved' = approved + 1
                    /\ handlers' = [handlers EXCEPT ![h].pc = "candidate",
                                                    ![h].row = {approved + 1}]
               ELSE Done(h) /\ UNCHANGED approved
    /\ UNCHANGED <<archive, ballot, certs, active, policy, ended, events, marks>>

CreateCandidate(h) ==
    /\ handlers[h].pc = "candidate"
    /\ ballot' = ballot \cup handlers[h].row
    /\ Goto(h, "certificate")
    /\ UNCHANGED <<app, archive, certs, active, policy, ended, approved, events, marks>>

InsertCertificate(h) ==
    /\ handlers[h].pc = "certificate"
    /\ certs' = certs \cup handlers[h].row
    /\ Goto(h, "stamp")
    /\ UNCHANGED <<app, archive, ballot, active, policy, ended, approved, events, marks>>

StampCertificate(h) ==
    /\ handlers[h].pc = "stamp"
    /\ \E c \in handlers[h].row :
           app' = IF app.status = "gone" THEN app ELSE [app EXCEPT !.cert = c]
    /\ Done(h)
    /\ UNCHANGED <<archive, ballot, certs, active, policy, ended, approved, events, marks>>

\* A side effect of approval fails: the outcome path undoes it, a force-approval does not.
FailSideEffect(h) ==
    /\ handlers[h].pc \in {"candidate", "certificate", "stamp"}
    /\ Event
    /\ IF handlers[h].kind = "force" THEN Done(h) ELSE Goto(h, "undo")
    /\ marks' = marks \cup {IF "failed" \in marks THEN "failed again" ELSE "failed"}
    /\ UNCHANGED <<app, archive, ballot, certs, active, policy, ended, approved>>

\* Faulty: the row stays on the ballot.
UndoneBallotKept == ballot

UndoneBallot == {}

\* The certificate revoked is the one of the document read, not the one just inserted.
UndoApproval(h) ==
    /\ handlers[h].pc = "undo"
    /\ ballot' = UndoneBallot
    /\ certs' = certs \ {handlers[h].doc.cert}
    /\ Goto(h, "putback")
    /\ UNCHANGED <<app, archive, active, policy, ended, approved, events, marks>>

PutBack(h) ==
    /\ handlers[h].pc = "putback"
    /\ app' = IF app.status = "approved" THEN [app EXCEPT !.status = handlers[h].doc.status] ELSE app
    /\ Done(h)
    /\ UNCHANGED <<archive, ballot, certs, active, policy, ended, approved, events, marks>>

-----------------------------------------------------------------------------
(* Finance: each call is one guarded write *)

\* A payment cleared after the window ended is closed out at once.
ThenSweep(h) == Start(h, [Idle EXCEPT !.pc = "sweep"])

FinanceClear(h) ==
    /\ Open /\ ~app.cleared
    /\ app' = [app EXCEPT !.cleared = TRUE]
    /\ ThenSweep(h)

FinanceReject ==
    /\ Open /\ ~app.cleared
    /\ app' = [app EXCEPT !.status = "denied", !.rejected = TRUE]
    /\ UNCHANGED handlers

\* Faulty: closeout_handled stays.
ReversedHandled == [app EXCEPT !.cleared = FALSE, !.votes = NoVotes, !.tied = FALSE,
                               !.undecided = FALSE]

Reversed == [app EXCEPT !.cleared = FALSE, !.votes = NoVotes, !.tied = FALSE,
                        !.undecided = FALSE, !.handled = FALSE]

FinanceReverse ==
    /\ Open /\ app.cleared
    /\ app' = Reversed
    /\ UNCHANGED handlers

FinanceReinstate(h, target) ==
    /\ app.status = "denied" /\ app.rejected /\ ~app.override
    /\ app' = [app EXCEPT !.status = "pending", !.rejected = FALSE, !.cleared = target = "cleared"]
    /\ IF target = "cleared" THEN ThenSweep(h) ELSE UNCHANGED handlers
    /\ marks' = marks \cup {"reinstated"}

Finance ==
    /\ \/ /\ FinanceReject \/ FinanceReverse
          /\ Event
          /\ UNCHANGED marks
       \/ /\ \E h \in Handlers : \/ FinanceClear(h) /\ UNCHANGED marks
                                 \/ \E target \in {"pending", "cleared"} :
                                        FinanceReinstate(h, target)
          /\ UNCHANGED events
    /\ UNCHANGED <<archive, ballot, certs, active, policy, ended, approved>>

-----------------------------------------------------------------------------
(* The superadmin *)

Overriding(mark) ==
    /\ Event
    /\ marks' = marks \cup {mark}
    /\ UNCHANGED <<certs, active, policy, ended>>

ForceApprove(h) ==
    /\ app.status \notin {"approved", "gone"}
    /\ approved < Approvals
    /\ app' = [app EXCEPT !.status = "approved", !.override = TRUE, !.tied = FALSE]
    /\ Start(h, [Reading("candidate", "force") EXCEPT !.row = {approved + 1}])
    /\ approved' = approved + 1
    /\ Overriding("forced")
    /\ UNCHANGED <<archive, ballot>>

\* Also of an approved application, whose candidate and certificate stay.
ForceDeny ==
    /\ app.status \notin {"denied", "removed", "gone"}
    /\ app' = [app EXCEPT !.status = "denied", !.override = TRUE, !.tied = FALSE]
    /\ Overriding(IF app.status = "approved" THEN "denied approved" ELSE "forced")
    /\ UNCHANGED <<archive, ballot, handlers, approved>>

ForceClear(h) ==
    /\ app.status # "gone" /\ ~app.cleared
    /\ app' = [app EXCEPT !.cleared = TRUE]
    /\ Overriding("forced")
    /\ ThenSweep(h)
    /\ UNCHANGED <<archive, ballot, approved>>

\* The application and its candidate are read; nobody has voted for the candidate.
BeginRevert(h) ==
    /\ app.status \in {"approved", "denied"} /\ app.override
    /\ Start(h, [Reading("revert", "revert") EXCEPT
                    !.row = IF app.status = "approved" THEN ballot ELSE {}])
    /\ Overriding("forced")
    /\ UNCHANGED <<app, archive, ballot, approved>>

\* Under the state that was inspected; the marks of the close-out stay.
Revert(h) ==
    /\ handlers[h].pc = "revert"
    /\ IF app.status = handlers[h].doc.status /\ app.override
       THEN /\ app' = [app EXCEPT !.status = "pending", !.votes = NoVotes, !.override = FALSE,
                                  !.tied = FALSE, !.cert = 0]
            /\ Goto(h, IF handlers[h].doc.status = "approved" THEN "takeoff" ELSE "idle")
       ELSE Done(h) /\ UNCHANGED app
    /\ UNCHANGED <<archive, ballot, certs, active, policy, ended, approved, events, marks>>

\* The row read comes off the ballot, the certificate read is revoked.
TakeOff(h) ==
    /\ handlers[h].pc = "takeoff"
    /\ ballot' = ballot \ handlers[h].row
    /\ certs' = certs \ {handlers[h].doc.cert}
    /\ Done(h)
    /\ UNCHANGED <<app, archive, active, policy, ended, approved, events, marks>>

RemoveCandidate(h) ==
    /\ \E c \in ballot : ballot' = ballot \ {c}
    /\ Start(h, [Idle EXCEPT !.pc = "removed"])
    /\ Overriding("forced")
    /\ UNCHANGED <<app, archive, approved>>

\* The application becomes "removed" whatever it is, and the certificate it names is revoked.
MarkRemoved(h) ==
    /\ handlers[h].pc = "removed"
    /\ app' = IF app.status = "gone" THEN app
              ELSE [app EXCEPT !.status = "removed", !.override = TRUE]
    /\ certs' = certs \ {app.cert}
    /\ Done(h)
    /\ UNCHANGED <<archive, ballot, active, policy, ended, approved, events, marks>>

BeginDelete(h, mode) ==
    /\ app.status # "gone"
    /\ mode = "soft" => archive = NoApp
    /\ Event
    /\ marks' = marks \cup {"forced"}
    /\ archive' = IF mode = "soft" THEN app ELSE archive
    /\ Start(h, [Reading("delete", mode) EXCEPT !.row = ballot])
    /\ UNCHANGED <<app, ballot, certs, active, policy, ended, approved>>

\* Claimed on the status inspected; a lost claim takes the archived copy back.
Delete(h) ==
    /\ handlers[h].pc = "delete"
    /\ IF app.status = handlers[h].doc.status
       THEN app' = NoApp /\ Goto(h, "takeoff") /\ UNCHANGED archive
       ELSE /\ archive' = IF handlers[h].kind = "soft" THEN NoApp ELSE archive
            /\ Done(h) /\ UNCHANGED app
    /\ UNCHANGED <<ballot, certs, active, policy, ended, approved, events, marks>>

\* Pending again; votes, decision, certificate and ballot row are not restored.
RestoredApp(doc) == [doc EXCEPT !.status = "pending", !.votes = NoVotes, !.override = FALSE,
                                !.tied = FALSE, !.cert = 0]

Restore ==
    /\ archive # NoApp /\ app.status = "gone"
    /\ app' = RestoredApp(archive)
    /\ archive' = NoApp
    /\ Overriding("forced")
    /\ UNCHANGED <<ballot, handlers, approved>>

Purge ==
    /\ archive # NoApp
    /\ archive' = NoApp
    /\ Overriding("forced")
    /\ UNCHANGED <<app, ballot, handlers, approved>>

\* The panel is frozen while an enforced vetting window is open (_panel_open_guard).
Frozen == Enforced /\ ~ended

\* A panelist is added or activated; every pending application is looked at again in the background.
Activate(h, p) ==
    /\ ~Frozen /\ p \notin active
    /\ active' = active \cup {p}
    /\ Event
    /\ Start(h, [Idle EXCEPT !.pc = "resweep"])
    /\ UNCHANGED <<app, archive, ballot, certs, policy, ended, marks, approved>>

\* The others are counted first, the record is written later.
BeginDeactivate(h, p) ==
    /\ ~Frozen /\ p \in active
    /\ Cardinality(active \ {p}) >= MinPanel
    /\ Event
    /\ Start(h, [Idle EXCEPT !.pc = "deactivate", !.who = {p}])
    /\ UNCHANGED <<app, archive, ballot, certs, active, policy, ended, marks, approved>>

Deactivate(h) ==
    /\ handlers[h].pc = "deactivate"
    /\ active' = active \ handlers[h].who
    /\ handlers' = [handlers EXCEPT ![h] = [Idle EXCEPT !.pc = "resweep"]]
    /\ UNCHANGED <<app, archive, ballot, certs, policy, ended, approved, events, marks>>

SetPolicy(h) ==
    /\ policy' \in Policies \ {policy}
    /\ Event
    /\ Start(h, [Idle EXCEPT !.pc = "resweep"])
    /\ UNCHANGED <<app, archive, ballot, certs, active, ended, marks, approved>>

WindowEnds ==
    /\ ~ended
    /\ ended' = TRUE
    /\ UNCHANGED <<app, archive, ballot, certs, active, policy, handlers, approved, events, marks>>

ExtendWindow ==
    /\ ended
    /\ ended' = FALSE
    /\ Event
    /\ marks' = marks \cup {"extended"}
    /\ UNCHANGED <<app, archive, ballot, certs, active, policy, handlers, approved>>

HandlerDies(h) ==
    /\ handlers[h].pc # "idle"
    /\ Event
    /\ Done(h)
    /\ marks' = marks \cup {"died"}
    /\ UNCHANGED <<app, archive, ballot, certs, active, policy, ended, approved>>

-----------------------------------------------------------------------------

\* What a handler that has begun does next.
Continue(h) ==
    \/ CastVote(h) \/ RereadApplication(h) \/ Resweep(h) \/ Tally(h) \/ FlagTie(h)
    \/ Sweep(h) \/ TallyCloseout(h) \/ HandOver(h)
    \/ Flip(h) \/ CreateCandidate(h) \/ InsertCertificate(h) \/ StampCertificate(h)
    \/ UndoApproval(h) \/ PutBack(h)
    \/ Revert(h) \/ TakeOff(h) \/ MarkRemoved(h) \/ Delete(h) \/ Deactivate(h)

VettingNext ==
    \/ Finance \/ ForceDeny \/ Restore \/ Purge \/ WindowEnds \/ ExtendWindow
    \/ \E h \in Handlers :
        \/ \E p \in Panel, v \in Votes \ {"none"} : BeginVote(h, p, v)
        \/ \E v \in Votes \ {"none"} : TieBreak(h, v) \/ CloseoutDecision(h, v)
        \/ \E p \in Panel : Activate(h, p) \/ BeginDeactivate(h, p)
        \/ \E mode \in {"soft", "hard"} : BeginDelete(h, mode)
        \/ BeginCloseout(h) \/ Continue(h)
        \/ ForceApprove(h) \/ ForceClear(h) \/ BeginRevert(h) \/ RemoveCandidate(h)
        \/ SetPolicy(h) \/ FailSideEffect(h) \/ HandlerDies(h)

VettingSpec == VettingInit /\ [][VettingNext]_vettingVars

\* A handler goes on, and the loop sweeps every VETTING_CLOSEOUT_SWEEP_SECONDS.
VettingFairness ==
    \A h \in Handlers : WF_vettingVars(Continue(h)) /\ WF_vettingVars(BeginCloseout(h))

FairVettingSpec == VettingSpec /\ VettingFairness

-----------------------------------------------------------------------------

Application == [status : {"pending", "gone"} \cup Resolved, votes : [Panel -> Votes],
                cleared : BOOLEAN, rejected : BOOLEAN, override : BOOLEAN, undecided : BOOLEAN,
                handled : BOOLEAN, tied : BOOLEAN, cert : 0..Approvals]

VettingTypeOK ==
    /\ app \in Application /\ archive \in Application
    /\ ballot \subseteq 1..Approvals /\ certs \subseteq 1..Approvals
    /\ active \subseteq Panel
    /\ policy \in Policies
    /\ ended \in BOOLEAN
    /\ \A h \in Handlers : /\ handlers[h].doc \in Application
                           /\ handlers[h].who \subseteq Panel
                           /\ handlers[h].vote \in Votes
                           /\ handlers[h].row \subseteq 1..Approvals

Quiet == \A h \in Handlers : handlers[h].pc = "idle"

\* However votes, sweeps of several instances, close-outs and the Chair race, an application puts
\* one candidate on the ballot: as long as the superadmin keeps out of it.
OneCandidate == marks \cap {"forced", "denied approved"} = {} => Cardinality(ballot) <= 1

\* With nothing under way, the application is on the ballot if and only if it is approved, and its
\* certificate is then valid.  A failed side effect is undone; a second one beside it, or a handler
\* that dies, may not be.
BallotMatchesStatus ==
    (Quiet /\ marks \subseteq {"failed"}) =>
        /\ (ballot # {}) <=> (app.status = "approved")
        /\ app.status = "approved" => app.cert \in certs

\* The vote that decides, decides: with nothing under way no open application holds a majority,
\* unless a vote was stored after Finance had taken the clearance back.
NoMajorityLeftOpen ==
    (Quiet /\ marks \subseteq {"forced"} /\ Open /\ ~app.undecided /\ ~ended) =>
        TallyOutcome(policy, Live, app.votes) = "none"

\* Votes are final: one that is stored goes only with all of them.
VotesFinal ==
    [][app'.votes # NoVotes =>
         \A p \in Panel : app.votes[p] # "none" => app'.votes[p] = app.votes[p]]_vettingVars

\* What is due for the close-out does not stay due.
CloseoutHappens == CloseoutDue ~> ~CloseoutDue

\* When vetting has ended, a cleared application that is still open has been handed to the Chair or
\* is due for the next close-out, also after Finance took the clearance back and gave it again.
LeftOpenIsDue ==
    (Quiet /\ marks \subseteq {"extended", "reinstated"} /\ ended /\ Open /\ app.cleared) =>
        app.undecided \/ CloseoutDue

\* "It is retried on the next call": a close-out that failed leaves the application due.
FailedCloseoutRetried ==
    (Quiet /\ marks \subseteq {"failed"} /\ ended /\ Open /\ app.cleared /\ ~app.undecided) =>
        CloseoutDue

\* An exact tie of the whole panel is "left pending, see _flag_tie_for_chief".
TieIsFlagged ==
    (Quiet /\ marks = {} /\ Open /\ ~app.undecided /\ ~ended /\ Tied(policy, Live, app.votes)) =>
        app.tied

\* What approval adds outside the application agrees with it, whichever handlers raced for it.
BallotAgrees == OneCandidate /\ BallotMatchesStatus

\* No decision is left behind: a majority decides at once, and what the window's end leaves open is
\* handed over or due.
DecisionsTaken == NoMajorityLeftOpen /\ LeftOpenIsDue
=============================================================================
