------------------------------- MODULE SmsBudget -------------------------------
(***************************************************************************)
(* The SMS budget of an election (`sms_usage`, sms_budget_gate, count_sms, *)
(* _budget_alerts), with enforcement on.  The gate reads the counter, the  *)
(* SMS is counted after the gateway answered, and the alerts of 50, 25 and *)
(* 10 % look at the document the counting returned.                        *)
(***************************************************************************)
EXTENDS Integers, FiniteSets

CONSTANTS
    Payers,         \* requests for a code that may be under way at once
    Holders,        \* voters
    FirstBudget,    \* sms_budget_total at the start
    TopUp,          \* what an administrator adds
    Conservation,   \* sms_mode is "conservation"
    TopUps          \* bound

ASSUME BudgetAssumption ==
    /\ IsFiniteSet(Payers) /\ Payers # {} /\ IsFiniteSet(Holders)
    /\ {FirstBudget, TopUp} \subseteq Nat \ {0}
    /\ TopUps \in Nat
    /\ Conservation \in BOOLEAN

VARIABLES
    fallback,       \* sms_fallback_on_timeout, chosen before the first code is sent
    budget,         \* sms_budget_total
    spent,          \* sent_total
    fired,          \* alerts_fired
    alerts,         \* history: how often each alert was given
    rearmed,        \* how often alerts_fired was emptied
    toppingUp,      \* an administrator saved a new total and has yet to re-arm the alerts
    served,         \* voters with sms_sends_total > 0
    payers,         \* Payers -> the request under way
    outdated        \* history: a re-send passed on a reading of the counter that no longer held

budgetVars == <<fallback, budget, spent, fired, alerts, rearmed, toppingUp, served, payers, outdated>>

Thresholds == {50, 25, 10}

NoPayer == [pc |-> "idle", voter |-> {}, left |-> 0, spent |-> 0, todo |-> {}, counts |-> 0]

Payer == [pc : {"idle", "reserve", "gateway", "alert"}, voter : SUBSET Holders, left : Int,
          spent : Nat, todo : SUBSET Thresholds, counts : 0..2]

\* Faulty: the list of providers is gone through again.
SmsPerCodeAgain == IF fallback THEN 3 ELSE 1

\* What one code may be counted as: an ambiguous answer and the other provider's.
SmsPerCode == IF fallback THEN 2 ELSE 1

Left == budget - spent

\* Faulty: the last SMS is given away twice.
HasBudgetLate == Left >= 0

HasBudget == Left > 0

\* Voters still waiting for their first code.
NeverServed == Cardinality(Holders \ served)

BudgetInit ==
    /\ fallback = FALSE
    /\ budget = FirstBudget
    /\ spent = 0
    /\ fired = {}
    /\ alerts = [t \in Thresholds |-> 0]
    /\ rearmed = 0
    /\ toppingUp = FALSE
    /\ served = {}
    /\ payers = [p \in Payers |-> NoPayer]
    /\ outdated = FALSE

Quit(p) == payers' = [payers EXCEPT ![p] = NoPayer]

\* The hard stop.  A voter has one request under way, the ladder sees to that; a re-send in
\* conservation mode has to look at the reserve first.
PassGate(p, v) ==
    /\ payers[p].pc = "idle"
    /\ \A q \in Payers : v \notin payers[q].voter
    /\ HasBudget
    /\ payers' = [payers EXCEPT ![p].voter = {v}, ![p].left = Left,
            ![p].pc = IF Conservation /\ v \in served THEN "reserve" ELSE "gateway"]
    /\ UNCHANGED <<fallback, budget, spent, fired, alerts, rearmed, toppingUp, served, outdated>>

\* Faulty: a re-send is let through whatever is left.
ReserveLowNever(left) == left <= 0

ReserveLow(left) == 5 * left <= 6 * NeverServed

\* The counter was read before the voters who wait are counted: others may have sent since.
CheckReserve(p) ==
    /\ payers[p].pc = "reserve"
    /\ IF ReserveLow(payers[p].left)
       THEN Quit(p) /\ UNCHANGED outdated
       ELSE /\ payers' = [payers EXCEPT ![p].pc = "gateway"]
            /\ outdated' = (outdated \/ ReserveLow(Left))
    /\ UNCHANGED <<fallback, budget, spent, fired, alerts, rearmed, toppingUp, served>>

\* Faulty: a threshold is due once it is behind.
DueLate(n) == {t \in Thresholds \ fired : 100 * (budget - n) < t * budget}

\* The thresholds the document just written is at or under and that it does not hold.
Due(n) == {t \in Thresholds \ fired : 100 * (budget - n) <= t * budget}

\* A provider took the message, or may have: one $inc, whose result the alerts look at.
CountSms(p) ==
    /\ payers[p].pc = "gateway"
    /\ payers[p].counts < SmsPerCode
    /\ spent' = spent + 1
    /\ payers' = [payers EXCEPT ![p].pc = "alert", ![p].spent = spent + 1,
                                ![p].counts = @ + 1, ![p].todo = Due(spent + 1)]
    /\ UNCHANGED <<fallback, budget, fired, alerts, rearmed, toppingUp, served, outdated>>

\* Faulty: the alert is given without claiming the threshold.
AlertAnyway(t) == /\ fired' = fired \cup {t}
                  /\ alerts' = [alerts EXCEPT ![t] = @ + 1]

Alert(t) == IF t \in fired THEN UNCHANGED <<fired, alerts>>
            ELSE /\ fired' = fired \cup {t}
                 /\ alerts' = [alerts EXCEPT ![t] = @ + 1]

RaiseAlert(p) ==
    /\ payers[p].pc = "alert"
    /\ \E t \in payers[p].todo :
        /\ \A u \in payers[p].todo : u <= t
        /\ Alert(t)
        /\ payers' = [payers EXCEPT ![p].todo = @ \ {t}]
    /\ UNCHANGED <<fallback, budget, spent, rearmed, toppingUp, served, outdated>>

\* After an ambiguous answer the other provider may be tried, which is counted again.
Counted(p) ==
    /\ payers[p].pc = "alert"
    /\ payers[p].todo = {}
    /\ payers' = [payers EXCEPT ![p].pc = "gateway"]
    /\ UNCHANGED <<fallback, budget, spent, fired, alerts, rearmed, toppingUp, served, outdated>>

\* The code is sent, and the voter has had one.
Served(p) ==
    /\ payers[p].pc = "gateway"
    /\ payers[p].counts > 0
    /\ served' = served \cup payers[p].voter
    /\ Quit(p)
    /\ UNCHANGED <<fallback, budget, spent, fired, alerts, rearmed, toppingUp, outdated>>

NotSent(p) ==
    /\ payers[p].pc = "gateway"
    /\ payers[p].counts = 0
    /\ Quit(p)
    /\ UNCHANGED <<fallback, budget, spent, fired, alerts, rearmed, toppingUp, served, outdated>>

\* superadmin_put_sms_budget: the setting first, then "a top-up re-arms the 50/25/10 % alerts".
SaveBudget ==
    /\ ~toppingUp /\ rearmed < TopUps
    /\ budget' = budget + TopUp
    /\ toppingUp' = TRUE
    /\ UNCHANGED <<fallback, spent, fired, alerts, rearmed, served, payers, outdated>>

Rearm ==
    /\ toppingUp
    /\ toppingUp' = FALSE
    /\ fired' = {}
    /\ rearmed' = rearmed + 1
    /\ UNCHANGED <<fallback, budget, spent, alerts, served, payers, outdated>>

ChooseFallback ==
    /\ spent = 0
    /\ \A p \in Payers : payers[p] = NoPayer
    /\ fallback' = ~fallback
    /\ UNCHANGED <<budget, spent, fired, alerts, rearmed, toppingUp, served, payers, outdated>>

BudgetNext ==
    \/ SaveBudget \/ Rearm \/ ChooseFallback
    \/ \E p \in Payers :
        \/ \E v \in Holders : PassGate(p, v)
        \/ CheckReserve(p) \/ CountSms(p) \/ RaiseAlert(p) \/ Counted(p) \/ Served(p) \/ NotSent(p)

BudgetSpec == BudgetInit /\ [][BudgetNext]_budgetVars

-----------------------------------------------------------------------------

BudgetTypeOK ==
    /\ fallback \in BOOLEAN
    /\ budget \in Nat /\ spent \in Nat /\ rearmed \in Nat
    /\ fired \subseteq Thresholds
    /\ alerts \in [Thresholds -> Nat]
    /\ toppingUp \in BOOLEAN /\ outdated \in BOOLEAN
    /\ served \subseteq Holders
    /\ payers \in [Payers -> Payer]

\* The counter overshoots the budget only by what requests that passed the gate together can add.
OverspendBounded == spent <= budget + SmsPerCode * Cardinality(Payers) - 1

\* Voters a code was counted for, whose request is not over yet.
PaidFor == UNION {payers[p].voter : p \in {q \in Payers : payers[q].counts > 0}}

\* In conservation mode, where no code is counted twice, re-sends leave one for everyone who has
\* had none, but for what requests that passed the gate together take from it; unless one of
\* them was let through on a reading of the counter that others had meanwhile made too high by
\* more than the fifth the code adds to the reserve.
ReserveKept ==
    (Conservation /\ ~fallback /\ FirstBudget >= Cardinality(Holders) /\ ~outdated) =>
        Left >= Cardinality(Holders \ (served \cup PaidFor)) - (Cardinality(Payers) - 1)

\* However many requests cross a threshold together, its alert is given once for each time the
\* alerts were armed.
AlertOnce == \A t \in Thresholds : alerts[t] <= 1 + rearmed

\* A threshold that has been passed has its alert once the requests that passed it are through.
NoThresholdMissed ==
    (/\ rearmed = 0 /\ ~toppingUp
     /\ \A p \in Payers : payers[p].pc # "alert") =>
        \A t \in Thresholds : 100 * Left <= t * budget => t \in fired

\* The budget as the settings page promises it: a bounded overshoot, a code kept for everyone who
\* has had none, and each alert once and never missed.
BudgetKept == OverspendBounded /\ ReserveKept /\ AlertOnce /\ NoThresholdMissed
=============================================================================
