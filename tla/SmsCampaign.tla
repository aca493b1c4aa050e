------------------------------ MODULE SmsCampaign ------------------------------
(***************************************************************************)
(* A bulk SMS campaign: the document, one row for each recipient, and the  *)
(* task that sends (_run_sms_campaign), which lives in the memory of a     *)
(* server process.  Processes die and start, and during a deploy two run.  *)
(***************************************************************************)
EXTENDS Integers, FiniteSets

CONSTANTS
    Servers,        \* server processes
    Rows,           \* recipients
    Batch,          \* rows claimed in one round (sms_bulk_per_second)
    Deaths,         \* bound: processes that die
    Retries         \* bound: retry-failed calls

ASSUME CampaignAssumption ==
    /\ IsFiniteSet(Servers) /\ IsFiniteSet(Rows)
    /\ Batch \in Nat \ {0}
    /\ {Deaths, Retries} \subseteq Nat

VARIABLES
    status,         \* of the campaign
    counts,         \* its counters sent, failed, ambiguous
    rows,           \* Rows -> status of the row
    tasks,          \* Servers -> the sending task
    alive,          \* processes that run
    admin,          \* the administrator's handler under way
    reached,        \* history: Rows -> messages a provider took, or may have taken
    deaths, retries,
    untold          \* history: a process died with something to tell, or counted a row being sent

campaignVars ==
    <<status, counts, rows, tasks, alive, admin, reached, deaths, retries, untold>>

Going == {"queued", "running"}

Outcomes == {"sent", "failed", "ambiguous"}

NoCounts == [o \in Outcomes |-> 0]

NoTask == [pc |-> "none", batch |-> {}, answer |-> {}, inc |-> NoCounts]

Task == [pc : {"none", "start", "look", "claim", "send", "report"}, batch : SUBSET Rows,
         answer : SUBSET (Rows \X Outcomes), inc : [Outcomes -> Nat]]

\* The administrator's call runs on a process: what it is about to do, and how many rows it moved.
NoAdmin == [pc |-> "idle", server |-> {}, n |-> 0]

Admin == [pc : {"idle", "insert", "rows", "start", "requeue", "campaign"}, server : SUBSET Servers,
          n : Nat]

CampaignInit ==
    /\ status = "none"
    /\ counts = NoCounts
    /\ rows = [r \in Rows |-> "none"]
    /\ tasks = [s \in Servers |-> NoTask]
    /\ alive = {}
    /\ admin = NoAdmin
    /\ reached = [r \in Rows |-> 0]
    /\ deaths = 0 /\ retries = 0
    /\ untold = FALSE

RowsIn(st) == {r \in Rows : rows[r] = st}

\* _start_campaign_task: one task for a campaign in a process, also one that is about to end.
StartTask(s) ==
    tasks' = IF tasks[s].pc = "none" THEN [tasks EXCEPT ![s].pc = "start"] ELSE tasks

-----------------------------------------------------------------------------
(* The administrator: start, cancel, retry the failed *)

AdminCall(s, pc) ==
    /\ admin.pc = "idle"
    /\ s \in alive
    /\ admin' = [NoAdmin EXCEPT !.pc = pc, !.server = {s}]

\* No campaign is live, the audience is not empty, the budget suffices.
SendCampaign(s) ==
    /\ status = "none"
    /\ AdminCall(s, "insert")
    /\ UNCHANGED <<status, counts, rows, tasks, alive, reached, deaths, retries, untold>>

InsertCampaign ==
    /\ admin.pc = "insert"
    /\ status' = "queued"
    /\ admin' = [admin EXCEPT !.pc = "rows"]
    /\ UNCHANGED <<counts, rows, tasks, alive, reached, deaths, retries, untold>>

InsertRows ==
    /\ admin.pc = "rows"
    /\ rows' = [r \in Rows |-> "pending"]
    /\ admin' = [admin EXCEPT !.pc = "start"]
    /\ UNCHANGED <<status, counts, tasks, alive, reached, deaths, retries, untold>>

StartCampaign ==
    /\ admin.pc = "start"
    /\ \A s \in admin.server : StartTask(s)
    /\ admin' = NoAdmin
    /\ UNCHANGED <<status, counts, rows, alive, reached, deaths, retries, untold>>

CancelCampaign ==
    /\ status \in Going
    /\ status' = "cancelled"
    /\ UNCHANGED <<counts, rows, tasks, alive, admin, reached, deaths, retries, untold>>

RetryFailed(s) ==
    /\ retries < Retries
    /\ status \notin Going \cup {"none"}
    /\ AdminCall(s, "requeue")
    /\ UNCHANGED <<status, counts, rows, tasks, alive, reached, deaths, retries, untold>>

\* Faulty: whatever may not have arrived is sent again.
RetriedRowsAll == RowsIn("failed") \cup RowsIn("ambiguous")

RetriedRows == RowsIn("failed")

\* Faulty: a status the rows do not have.
RequeuedQueued == "queued"

Requeued == "pending"

\* 409 if there is nothing to retry.
RequeueRows ==
    /\ admin.pc = "requeue"
    /\ rows' = [r \in Rows |-> IF r \in RetriedRows THEN Requeued ELSE rows[r]]
    /\ admin' = IF RetriedRows = {} THEN NoAdmin
                ELSE [admin EXCEPT !.pc = "campaign", !.n = Cardinality(RetriedRows)]
    /\ UNCHANGED <<status, counts, tasks, alive, reached, deaths, retries, untold>>

RequeueCampaign ==
    /\ admin.pc = "campaign"
    /\ status' = "queued"
    /\ counts' = [counts EXCEPT !["failed"] = @ - admin.n]
    /\ retries' = retries + 1
    /\ admin' = [admin EXCEPT !.pc = "start"]
    /\ UNCHANGED <<rows, tasks, alive, reached, deaths, untold>>

-----------------------------------------------------------------------------
(* The task *)

BeginRun(s) ==
    /\ tasks[s].pc = "start"
    /\ status' = IF status = "queued" THEN "running" ELSE status
    /\ tasks' = [tasks EXCEPT ![s].pc = "look"]
    /\ UNCHANGED <<counts, rows, alive, admin, reached, deaths, retries, untold>>

\* Cancelled, or finished by another process: stop, pending rows stay pending.
Look(s) ==
    /\ tasks[s].pc = "look"
    /\ tasks' = [tasks EXCEPT ![s] = IF status = "running" THEN [NoTask EXCEPT !.pc = "claim"]
                                                           ELSE NoTask]
    /\ UNCHANGED <<status, counts, rows, alive, admin, reached, deaths, retries, untold>>

\* Faulty: the row is claimed when it is sent.
ClaimedLate(r) == rows

Claimed(r) == [rows EXCEPT ![r] = "sending"]

ClaimRow(s) ==
    /\ tasks[s].pc = "claim"
    /\ Cardinality(tasks[s].batch) < Batch
    /\ \E r \in RowsIn("pending") \ tasks[s].batch :
        /\ rows' = Claimed(r)
        /\ tasks' = [tasks EXCEPT ![s].batch = @ \cup {r}]
    /\ UNCHANGED <<status, counts, alive, admin, reached, deaths, retries, untold>>

BatchClaimed(s) ==
    /\ tasks[s].pc = "claim"
    /\ tasks[s].batch # {}
    /\ Cardinality(tasks[s].batch) = Batch \/ RowsIn("pending") = {}
    /\ tasks' = [tasks EXCEPT ![s].pc = "send"]
    /\ UNCHANGED <<status, counts, rows, alive, admin, reached, deaths, retries, untold>>

Finish(s) ==
    /\ tasks[s].pc = "claim"
    /\ tasks[s].batch = {}
    /\ RowsIn("pending") = {}
    /\ status' = IF status = "running" THEN "done" ELSE status
    /\ tasks' = [tasks EXCEPT ![s].pc = IF status = "running" THEN "report" ELSE "none"]
    /\ UNCHANGED <<counts, rows, alive, admin, reached, deaths, retries, untold>>

\* The finished event is written to the log and the ledger before the task ends.
Report(s) ==
    /\ tasks[s].pc = "report"
    /\ tasks' = [tasks EXCEPT ![s] = NoTask]
    /\ UNCHANGED <<status, counts, rows, alive, admin, reached, deaths, retries, untold>>

\* One message of the batch goes to the gateway.
SendRow(s) ==
    /\ tasks[s].pc = "send"
    /\ tasks[s].answer = {}
    /\ \E r \in tasks[s].batch, o \in Outcomes :
        /\ reached' = [reached EXCEPT ![r] = IF o = "failed" THEN @ ELSE @ + 1]
        /\ tasks' = [tasks EXCEPT ![s].batch = @ \ {r}, ![s].answer = {<<r, o>>},
                                  ![s].inc[o] = @ + 1]
    /\ UNCHANGED <<status, counts, rows, alive, admin, deaths, retries, untold>>

\* The answer is written to the row, whatever the row says by now.
RecordRow(s) ==
    /\ tasks[s].pc = "send"
    /\ \E ans \in tasks[s].answer : rows' = [rows EXCEPT ![ans[1]] = ans[2]]
    /\ tasks' = [tasks EXCEPT ![s].answer = {}]
    /\ UNCHANGED <<status, counts, alive, admin, reached, deaths, retries, untold>>

\* Faulty: the failed are not told to the campaign.
ToldSent(inc) == [inc EXCEPT !["failed"] = 0]

Told(inc) == inc

CountRows(s) ==
    /\ tasks[s].pc = "send"
    /\ tasks[s].batch = {} /\ tasks[s].answer = {}
    /\ counts' = [o \in Outcomes |-> counts[o] + Told(tasks[s].inc)[o]]
    /\ tasks' = [tasks EXCEPT ![s] = [NoTask EXCEPT !.pc = "look"]]
    /\ UNCHANGED <<status, rows, alive, admin, reached, deaths, retries, untold>>

-----------------------------------------------------------------------------
(* Processes *)

Die(s) ==
    /\ s \in alive
    /\ deaths < Deaths
    /\ deaths' = deaths + 1
    /\ alive' = alive \ {s}
    /\ tasks' = [tasks EXCEPT ![s] = NoTask]
    /\ admin' = IF s \in admin.server THEN NoAdmin ELSE admin
    /\ untold' = (untold \/ tasks[s].inc # NoCounts \/ s \in admin.server)
    /\ UNCHANGED <<status, counts, rows, reached, retries>>

\* Faulty: a row a dead process may have sent goes back to the others.
StuckRowsBecomePending == "pending"

StuckRowsBecome == "ambiguous"

\* Faulty: only a running campaign carries on.
ResumedRunning == {"running"}

Resumed == Going

\* _resume_sms_campaigns: rows stuck in "sending" may or may not have gone out.  Another process
\* may be sending them at this moment.
Boot(s) ==
    LET stuck == RowsIn("sending")
    IN  /\ s \notin alive
        /\ alive' = alive \cup {s}
        /\ \/ /\ status \in Resumed
              /\ rows' = [r \in Rows |-> IF r \in stuck THEN StuckRowsBecome ELSE rows[r]]
              /\ counts' = [counts EXCEPT !["ambiguous"] = @ + Cardinality(stuck)]
              /\ untold' = (untold \/ \E q \in alive : tasks[q].batch # {} \/ tasks[q].answer # {})
              /\ StartTask(s)
           \/ /\ status \notin Resumed
              /\ UNCHANGED <<rows, counts, untold, tasks>>
        /\ UNCHANGED <<status, admin, reached, deaths, retries>>

TaskStep(s) == \/ BeginRun(s) \/ Look(s) \/ ClaimRow(s) \/ BatchClaimed(s) \/ Finish(s)
               \/ Report(s) \/ SendRow(s) \/ RecordRow(s) \/ CountRows(s)

AdminStep == InsertCampaign \/ InsertRows \/ StartCampaign \/ RequeueRows \/ RequeueCampaign

CampaignNext ==
    \/ AdminStep \/ CancelCampaign
    \/ \E s \in Servers : SendCampaign(s) \/ RetryFailed(s) \/ TaskStep(s) \/ Die(s) \/ Boot(s)

CampaignSpec == CampaignInit /\ [][CampaignNext]_campaignVars

\* The event loop of a live process takes every step it can, and a dead process is restarted.
CampaignFairness ==
    /\ WF_campaignVars(AdminStep)
    /\ \A s \in Servers : WF_campaignVars(TaskStep(s)) /\ WF_campaignVars(Boot(s))

FairCampaignSpec == CampaignSpec /\ CampaignFairness

-----------------------------------------------------------------------------

CampaignTypeOK ==
    /\ status \in Going \cup {"none", "done", "cancelled"}
    /\ counts \in [Outcomes -> Int]
    /\ rows \in [Rows -> Outcomes \cup {"none", "pending", "sending"}]
    /\ tasks \in [Servers -> Task]
    /\ alive \subseteq Servers
    /\ admin \in Admin
    /\ reached \in [Rows -> Nat]
    /\ deaths \in 0..Deaths /\ retries \in 0..Retries
    /\ untold \in BOOLEAN

\* A student is never sent the same campaign twice: whatever dies, starts, overlaps or is retried,
\* a message a provider took or may have taken is not sent again.
NeverSentTwice == \A r \in Rows : reached[r] <= 1

\* Once no task has anything left to tell, the counters agree with the rows, unless a process died
\* or was started while another was sending.
CountersAgree ==
    (~untold /\ admin.pc = "idle" /\ \A s \in Servers : tasks[s].inc = NoCounts) =>
        \A o \in Outcomes : counts[o] = Cardinality(RowsIn(o))

\* A campaign that nobody retries comes to an end, through deaths and restarts.
CampaignEnds == (status \in Going /\ retries = 0) ~> (status \notin Going \/ retries > 0)

\* retry-failed: "Re-queue only the recipients whose send definitely failed."
RetryQueuesFailedOnly ==
    [][admin.pc = "campaign" /\ status' = "queued" =>
            Cardinality(RowsIn("pending")) <= admin.n]_campaignVars

\* What the campaign page shows and what students received: nobody is texted twice, and the
\* counters agree with the rows.
CampaignSound == NeverSentTwice /\ CountersAgree
=============================================================================
