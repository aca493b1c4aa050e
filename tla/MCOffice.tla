---------------------------------- MODULE MCOffice ----------------------------------
(***************************************************************************)
(* Finite instances of what the election office works on: nominations, the *)
(* roster with its ledger, the contact details and the list of candidates; *)
(* and of what it watches: usage, milestones and the monitor.  Each behaviour *)
(* is one component's; the others stay where they began.                   *)
(***************************************************************************)
EXTENDS Vetting, RosterChanges, ContactChanges, RosterLedger, CandidateList,
        UsageCounters, Milestones, MonitorSchedule, TLC

CONSTANTS p1, p2, n1, n2, n3

OwnNumbers == p1 :> n1 @@ p2 :> n2

VARIABLE part       \* the component this behaviour is about

Parts == {"vetting", "roster", "contact", "ledger", "list", "usage", "milestones", "monitor"}

vars == <<part, vettingVars, rosterVars, contactVars, ledgerVars, listVars, usageVars, milestoneVars,
          monitorVars>>

\* The others begin in one of their initial states.
OthersSettled ==
    /\ part # "milestones" => resultsEnd = CHOOSE d \in ResultsEnd : TRUE

Init ==
    /\ part \in Parts
    /\ VettingInit /\ RosterInit /\ ContactInit /\ LedgerInit /\ ListInit /\ UsageInit
    /\ MilestonesInit /\ MonitorInit
    /\ OthersSettled

Next ==
    \/ part = "vetting" /\ VettingNext
       /\ UNCHANGED <<part, rosterVars, contactVars, ledgerVars, listVars, usageVars, milestoneVars,
                         monitorVars>>
    \/ part = "roster" /\ RosterNext
       /\ UNCHANGED <<part, vettingVars, contactVars, ledgerVars, listVars, usageVars, milestoneVars,
                         monitorVars>>
    \/ part = "contact" /\ ContactNext
       /\ UNCHANGED <<part, vettingVars, rosterVars, ledgerVars, listVars, usageVars, milestoneVars,
                         monitorVars>>
    \/ part = "ledger" /\ LedgerNext
       /\ UNCHANGED <<part, vettingVars, rosterVars, contactVars, listVars, usageVars, milestoneVars,
                         monitorVars>>
    \/ part = "list" /\ ListNext
       /\ UNCHANGED <<part, vettingVars, rosterVars, contactVars, ledgerVars, usageVars,
                         milestoneVars, monitorVars>>
    \/ part = "usage" /\ UsageNext
       /\ UNCHANGED <<part, vettingVars, rosterVars, contactVars, ledgerVars, listVars, milestoneVars,
                         monitorVars>>
    \/ part = "milestones" /\ MilestonesNext
       /\ UNCHANGED <<part, vettingVars, rosterVars, contactVars, ledgerVars, listVars, usageVars,
                         monitorVars>>
    \/ part = "monitor" /\ MonitorNext
       /\ UNCHANGED <<part, vettingVars, rosterVars, contactVars, ledgerVars, listVars, usageVars,
                         milestoneVars>>

Spec == Init /\ [][Next]_vars

\* The types of all of them; the others are where they began.
OfficeTypeOK ==
    /\ part \in Parts
    /\ part = "vetting" => VettingTypeOK
    /\ part = "roster" => RosterTypeOK
    /\ part = "contact" => ContactTypeOK
    /\ part = "ledger" => LedgerTypeOK
    /\ part = "list" => ListTypeOK
    /\ part = "usage" => UsageTypeOK
    /\ part = "milestones" => MilestonesTypeOK
    /\ part = "monitor" => MonitorTypeOK

\* Whoever decides, undoes or closes vetting: the ballot shows who is approved, and every decision
\* that is due is taken.
VettingSound == BallotAgrees /\ DecisionsTaken

\* The turns of the election are kept under lock, and the monitor sees what it is there to see.
WatchKept == MilestonesSound /\ MonitorSound
=====================================================================================
