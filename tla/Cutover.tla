------------------------------- MODULE Cutover -------------------------------
(***************************************************************************)
(* Moving the database to another cluster: the write freeze of the process *)
(* (write_freeze.py and its middleware), the migration jobs (migrate_core, *)
(* backup_jobs) and the checklist that says when to switch                 *)
(* (_migration_state).  Requests admitted before the freeze go on, and the *)
(* sweeps of the process never pass the middleware.  A document stands for *)
(* a collection: the jobs take collections one after the other.            *)
(***************************************************************************)
EXTENDS Integers, FiniteSets

CONSTANTS
    Collections,    \* collections
    Requests,       \* write requests that may be under way at the same time
    Sweeps,         \* background tasks that write (close-out, checkpoints, a campaign), or {}
    CutoverWrites,  \* bound: writes to the source
    Restarts,       \* bound: restarts of the process
    JobCalls        \* bound: jobs of one kind

ASSUME CutoverAssumption ==
    /\ IsFiniteSet(Collections) /\ IsFiniteSet(Requests)
    /\ {CutoverWrites, Restarts, JobCalls} \subseteq Nat

VARIABLES
    source, target, \* Collections -> version, 0 when it is not there
    written,        \* writes so far
    frozen,         \* the freeze is on
    admitted,       \* handlers that passed the middleware and have not written yet
    jobs,           \* Kinds -> the newest job record of the kind
    workers,        \* Kinds -> the task that runs it
    calls, restarts,
    finalInFreeze,  \* the newest final pass started after the freeze that is on
    verifiedAfter,  \* the newest verification started after the newest final pass ended
    still           \* history: nothing but what the freeze holds back could write since it began

cutoverVars == <<source, target, written, frozen, admitted, jobs, workers, calls, restarts,
                 finalInFreeze, verifiedAfter, still>>

Kinds == {"copy", "final", "verify"}

States == 0 .. CutoverWrites

NoJob == [todo |-> {}, doc |-> {}, pc |-> "none", read |-> 0, bad |-> FALSE]

JobTask == [todo : SUBSET Collections, doc : SUBSET Collections, pc : {"none", "next", "write", "digest"},
         read : States, bad : BOOLEAN]

CutoverInit ==
    /\ source = [d \in Collections |-> 0] /\ target = source
    /\ written = 0
    /\ frozen = FALSE
    /\ admitted = {}
    /\ jobs = [k \in Kinds |-> "none"]
    /\ workers = [k \in Kinds |-> NoJob]
    /\ calls = [k \in Kinds |-> 0]
    /\ restarts = 0
    /\ finalInFreeze = FALSE /\ verifiedAfter = FALSE
    /\ still = FALSE

Data == <<source, target, written>>
Records == <<jobs, workers, calls>>
Checks == <<finalInFreeze, verifiedAfter>>

-----------------------------------------------------------------------------
(* Writers *)

\* write_freeze_middleware, once, before the handler.
\* Faulty: always.
AdmitAlways(h) == h \notin admitted

Admit(h) == ~frozen /\ h \notin admitted

Arrive(h) ==
    /\ written < CutoverWrites
    /\ Admit(h)
    /\ admitted' = admitted \cup {h}
    /\ UNCHANGED <<Data, frozen, Records, restarts, Checks, still>>

Write(d) ==
    /\ written < CutoverWrites
    /\ written' = written + 1
    /\ \/ source' = [source EXCEPT ![d] = written + 1]
       \/ source[d] # 0 /\ source' = [source EXCEPT ![d] = 0]
    /\ UNCHANGED target

HandlerWrites(h, d) ==
    /\ h \in admitted
    /\ Write(d)
    /\ admitted' = admitted \ {h}
    /\ UNCHANGED <<frozen, Records, restarts, Checks, still>>

HandlerEnds(h) ==
    /\ h \in admitted
    /\ admitted' = admitted \ {h}
    /\ UNCHANGED <<Data, frozen, Records, restarts, Checks, still>>

SweepWrites(d) ==
    /\ Sweeps # {}
    /\ Write(d)
    /\ still' = FALSE
    /\ UNCHANGED <<frozen, admitted, Records, restarts, Checks>>

-----------------------------------------------------------------------------
(* The freeze; no election is open when it starts, and none can be opened while it is on *)

\* A second start takes the place of the first: what ran before it does not count.
FreezeStarts ==
    /\ frozen' = TRUE
    /\ finalInFreeze' = FALSE
    /\ still' = (admitted = {} /\ workers["copy"] = NoJob)
    /\ UNCHANGED <<Data, admitted, Records, restarts, verifiedAfter>>

\* It expires, or is lifted.
FreezeEnds ==
    /\ frozen
    /\ frozen' = FALSE
    /\ finalInFreeze' = FALSE
    /\ still' = FALSE
    /\ UNCHANGED <<Data, admitted, Records, restarts, verifiedAfter>>

-----------------------------------------------------------------------------
(* The jobs *)

\* The final pass is refused unless the freeze is on, when it is called.
StartJob(k) ==
    /\ calls[k] < JobCalls
    /\ jobs[k] # "running"
    /\ k = "final" => frozen
    /\ calls' = [calls EXCEPT ![k] = @ + 1]
    /\ jobs' = [jobs EXCEPT ![k] = "running"]
    /\ workers' = [workers EXCEPT ![k] = [NoJob EXCEPT !.pc = "next", !.todo = Collections]]
    /\ finalInFreeze' = IF k = "final" THEN TRUE ELSE finalInFreeze
    /\ verifiedAfter' = CASE k = "verify" -> jobs["final"] = "passed"
                          [] k = "final" -> FALSE
                          [] OTHER -> verifiedAfter
    /\ still' = (still /\ k # "copy")
    /\ UNCHANGED <<Data, frozen, admitted, restarts>>

\* The next collection: its documents are read; a final pass deletes first what the source does not
\* have, a copy refuses a target that has more.
Pruned(k, d) == IF k = "final" /\ source[d] = 0 THEN 0 ELSE target[d]

Refused(k, d) == k = "copy" /\ source[d] = 0 /\ target[d] # 0

ReadNext(k, d) ==
    /\ workers[k].pc = "next"
    /\ d \in workers[k].todo
    /\ \/ /\ Refused(k, d)
          /\ workers' = [workers EXCEPT ![k] = NoJob]
          /\ jobs' = [jobs EXCEPT ![k] = "failed"]
          /\ UNCHANGED target
       \/ /\ ~Refused(k, d)
          /\ workers' = [workers EXCEPT ![k].todo = @ \ {d}, ![k].doc = {d}, ![k].read = source[d],
                                    ![k].pc = IF k = "verify" THEN "digest" ELSE "write"]
          /\ target' = [target EXCEPT ![d] = Pruned(k, d)]
          /\ UNCHANGED jobs
    /\ UNCHANGED <<source, written, frozen, admitted, calls, restarts, Checks, still>>

WriteTarget(k) ==
    /\ workers[k].pc = "write"
    /\ target' = [d \in Collections |->
                    IF d \in workers[k].doc /\ workers[k].read # 0 THEN workers[k].read ELSE target[d]]
    /\ workers' = [workers EXCEPT ![k].pc = "digest"]
    /\ UNCHANGED <<source, written, frozen, admitted, jobs, calls, restarts, Checks, still>>

Differs(d) == source[d] # target[d]

Compare(k) ==
    /\ workers[k].pc = "digest"
    /\ workers' = [workers EXCEPT ![k].pc = "next", ![k].doc = {}, ![k].read = 0,
                              ![k].bad = @ \/ \E d \in workers[k].doc : Differs(d)]
    /\ UNCHANGED <<Data, frozen, admitted, jobs, calls, restarts, Checks, still>>

EndJob(k) ==
    /\ workers[k].pc = "next"
    /\ workers[k].todo = {}
    /\ jobs' = [jobs EXCEPT ![k] = IF workers[k].bad THEN "failed" ELSE "passed"]
    /\ workers' = [workers EXCEPT ![k] = NoJob]
    /\ UNCHANGED <<Data, frozen, admitted, calls, restarts, Checks, still>>

\* An error in the worker: the record says so.
FailJob(k) ==
    /\ workers[k].pc # "none"
    /\ jobs' = [jobs EXCEPT ![k] = "failed"]
    /\ workers' = [workers EXCEPT ![k] = NoJob]
    /\ UNCHANGED <<Data, frozen, admitted, calls, restarts, Checks, still>>

\* The process starts anew: the freeze and the tasks were in its memory, and recover_interrupted
\* fails the records of the jobs that died with it.
\* Faulty: the records are left as they were.
RecoveredNot(k) == jobs[k]

Recovered(k) == IF jobs[k] = "running" THEN "failed" ELSE jobs[k]

Restart ==
    /\ restarts < Restarts
    /\ restarts' = restarts + 1
    /\ frozen' = FALSE /\ finalInFreeze' = FALSE /\ still' = FALSE
    /\ admitted' = {}
    /\ workers' = [k \in Kinds |-> NoJob]
    /\ jobs' = [k \in Kinds |-> Recovered(k)]
    /\ UNCHANGED <<Data, calls, verifiedAfter>>

JobStep(k) ==
    \/ \E d \in Collections : ReadNext(k, d)
    \/ WriteTarget(k) \/ Compare(k) \/ EndJob(k)

CutoverNext ==
    \/ \E h \in Requests : Arrive(h) \/ HandlerEnds(h)
    \/ \E h \in Requests, d \in Collections : HandlerWrites(h, d)
    \/ \E d \in Collections : SweepWrites(d)
    \/ FreezeStarts \/ FreezeEnds
    \/ \E k \in Kinds : StartJob(k) \/ JobStep(k) \/ FailJob(k)
    \/ Restart

CutoverSpec == CutoverInit /\ [][CutoverNext]_cutoverVars

\* The tasks of a process that runs go on.
FairCutoverSpec == CutoverSpec /\ \A k \in Kinds : WF_cutoverVars(JobStep(k))

-----------------------------------------------------------------------------
(* Properties *)

\* _migration_state: the two checks of the list that are about the copy itself.
Ready ==
    /\ frozen /\ finalInFreeze /\ jobs["final"] = "passed"
    /\ jobs["verify"] = "passed" /\ verifiedAfter

\* The jobs are what the code makes them; a record says "running" exactly while its task runs.
CutoverTypeOK ==
    /\ source \in [Collections -> States] /\ target \in [Collections -> States]
    /\ written \in States
    /\ admitted \subseteq Requests
    /\ jobs \in [Kinds -> {"none", "running", "passed", "failed"}]
    /\ workers \in [Kinds -> JobTask]
    /\ \A k \in Kinds : jobs[k] = "running" <=> workers[k].pc # "none"
    /\ {frozen, finalInFreeze, verifiedAfter, still} \subseteq BOOLEAN

\* When the checklist says ready, and nothing wrote that the freeze does not hold back - no handler
\* was under way when it began, no sweep wrote, no rehearsal copy ran - the target is the source,
\* whatever lapsed, failed or restarted before.
ReadyMeansMoved == Ready /\ still => target = source

\* The runbook: "Wait for every cutover-readiness check to pass", and the comment at the
\* middleware: "the freeze must cover the entire system" (main.py:752).
ReadyMeansMovedAlways == Ready => target = source

\* A job that runs ends, or its record is failed when the process comes back.
JobsEnd == \A k \in Kinds : jobs[k] = "running" ~> jobs[k] # "running"
=============================================================================
