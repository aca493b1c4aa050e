------------------------------ MODULE RestoreTest ------------------------------
(***************************************************************************)
(* The restore test: the newest backup of a tenant is streamed into a      *)
(* scratch database on another cluster, counted, its audit chain verified  *)
(* and its ballots compared with the live ones, while the election, the    *)
(* backups and other tests go on.  Beside it the check that only reads a   *)
(* backup, and the operator's restore into the live database               *)
(* (restore_check.py, restore_core.py, restore_tenant.py, backup_jobs.py). *)
(*                                                                         *)
(* Ballots have increasing ids; checkpoint k seals the ballots up to k.    *)
(***************************************************************************)
EXTENDS Integers, FiniteSets, FiniteSetsExt

CONSTANTS
    TestServers,    \* server processes
    DocIds,         \* 1 .. n, bound: of the ballots
    Archives,       \* bound: backups uploaded
    TestRuns,       \* bound: tests and checks begun
    Mishaps         \* bound: files that go bad in the bucket, resets of the election, restarts of a
                    \*        server, restores into the live database

ASSUME RestoreAssumption ==
    /\ IsFiniteSet(DocIds) /\ DocIds = 1 .. Cardinality(DocIds)
    /\ {Archives, TestRuns, Mishaps} \subseteq Nat

VARIABLES
    liveDb,           \* Colls -> ids
    wiped,          \* history: ballots deleted
    archive,        \* the backups in the bucket
    testJobs,           \* <<server, kind>>, the jobs on record as running (backup_jobs)
    tests,          \* Servers -> the test or check under way
    scratch,        \* Colls -> ids, the scratch database
    outcome,        \* history: what the last test said, and how things were
    rebuild,        \* the operator's restore
    used            \* counters for the bounds

restoreVars == <<liveDb, wiped, archive, testJobs, tests, scratch, outcome, rebuild, used>>

Colls == {"checkpoints", "ballots"}

ArchiveKinds == {"test", "check"}

Documents == [Colls -> SUBSET DocIds]

Empty == [c \in Colls |-> {}]

Archive == [ts : Nat, kind : {"full", "incr"}, docs : Documents, manifest : BOOLEAN, sound : BOOLEAN]

\* A file of a backup.
File == [ts : Nat, coll : Colls, ids : SUBSET DocIds, sound : BOOLEAN]

NoRestoreTest == [pc |-> "idle", kind |-> "test", todo |-> {}, plan |-> Empty, got |-> Empty, failed |-> FALSE,
           whole |-> FALSE, unread |-> FALSE, crowded |-> FALSE]

NoOutcome == [said |-> "none", kind |-> "test", whole |-> FALSE, cause |-> FALSE]

NoRebuild == [pc |-> "idle", got |-> Empty, todo |-> {}, replace |-> FALSE]

RestoreInit ==
    /\ liveDb = Empty
    /\ wiped = {}
    /\ archive = {}
    /\ testJobs = {}
    /\ tests = [p \in TestServers |-> NoRestoreTest]
    /\ scratch = Empty
    /\ outcome = NoOutcome
    /\ rebuild = NoRebuild
    /\ used = [tests |-> 0, reboots |-> 0, mishaps |-> 0]

-------------------------------------------------------------------------------
(* The election and its backups meanwhile. *)

Highest(S) == Max(S \cup {0})

Cast(b) ==
    /\ b \in DocIds
    /\ b = 1 + Highest(liveDb["ballots"] \cup wiped)
    /\ liveDb' = [liveDb EXCEPT !["ballots"] = @ \cup {b}]
    /\ UNCHANGED <<wiped, archive, testJobs, tests, scratch, outcome, rebuild, used>>

Seal ==
    /\ liveDb["ballots"] # {}
    /\ liveDb' = [liveDb EXCEPT !["checkpoints"] = @ \cup {Max(liveDb["ballots"])}]
    /\ UNCHANGED <<wiped, archive, testJobs, tests, scratch, outcome, rebuild, used>>

Wipe ==
    /\ used.mishaps < Mishaps
    /\ wiped' = wiped \cup liveDb["ballots"]
    /\ liveDb' = Empty
    /\ used' = [used EXCEPT !.mishaps = @ + 1]
    /\ UNCHANGED <<archive, testJobs, tests, scratch, outcome, rebuild>>

Known == UNION {a.docs["ballots"] : a \in archive}

\* An incremental holds the ballots since the last backup, and the last one of that once more.
Exported(kind) ==
    IF kind = "full" THEN liveDb
    ELSE [Empty EXCEPT !["ballots"] = {b \in liveDb["ballots"] : b \geq Highest(Known)}]

StartUpload(kind) ==
    /\ Cardinality(archive) < Archives
    /\ kind = "incr" => archive # {}
    /\ archive' = archive \cup {[ts |-> 1 + Cardinality(archive), kind |-> kind, docs |-> Exported(kind),
                                 manifest |-> FALSE, sound |-> TRUE]}
    /\ UNCHANGED <<liveDb, wiped, testJobs, tests, scratch, outcome, rebuild, used>>

FinishUpload(a) ==
    /\ a \in archive
    /\ ~a.manifest
    /\ archive' = (archive \ {a}) \cup {[a EXCEPT !.manifest = TRUE]}
    /\ UNCHANGED <<liveDb, wiped, testJobs, tests, scratch, outcome, rebuild, used>>

Rot(a) ==
    /\ a \in archive
    /\ a.sound
    /\ used.mishaps < Mishaps
    /\ archive' = (archive \ {a}) \cup {[a EXCEPT !.sound = FALSE]}
    /\ used' = [used EXCEPT !.mishaps = @ + 1]
    /\ UNCHANGED <<liveDb, wiped, testJobs, tests, scratch, outcome, rebuild>>

-------------------------------------------------------------------------------
(* What a restore reads: _plan_steps and the stream of documents. *)

FullsThere == {a \in archive : a.kind = "full"}

Base == CHOOSE a \in FullsThere : \A b \in FullsThere : b.ts \leq a.ts

PlanSteps == {a \in archive : a = Base \/ (a.kind = "incr" /\ a.ts \geq Base.ts)}

Readable == FullsThere # {} /\ \A a \in PlanSteps : a.manifest

Files(a) ==
    {f \in {[ts |-> a.ts, coll |-> "checkpoints", ids |-> a.docs["checkpoints"], sound |-> TRUE],
            [ts |-> a.ts, coll |-> "ballots", ids |-> a.docs["ballots"], sound |-> a.sound]} :
        f.ids # {} \/ ~f.sound}

Stream == UNION {Files(a) : a \in PlanSteps}

\* The order of the stream: a backup after the other, in each the files in the order of its manifest.
FileBefore(f, g) ==
    \/ f.ts < g.ts
    \/ f.ts = g.ts /\ f.coll = "checkpoints" /\ g.coll = "ballots"

IsNext(f, files) == f \in files /\ \A g \in files \ {f} : FileBefore(f, g)

Merged(files) == [c \in Colls |-> UNION {f.ids : f \in {g \in files : g.coll = c}}]

Joined(d, f) == [d EXCEPT ![f.coll] = @ \cup f.ids]

-------------------------------------------------------------------------------
(* run_restore_test, and _verify_backups. *)

UnderWay(p) == tests[p].pc # "idle"

\* start_job looks for a job of that kind on record, and records its own after it.
AskJob(p, kind) ==
    /\ ~UnderWay(p)
    /\ \A q \in TestServers : <<q, kind>> \notin testJobs
    /\ used.tests < TestRuns
    /\ tests' = [tests EXCEPT ![p] = [NoRestoreTest EXCEPT !.pc = "asked", !.kind = kind]]
    /\ used' = [used EXCEPT !.tests = @ + 1]
    /\ outcome' = NoOutcome
    /\ UNCHANGED <<liveDb, wiped, archive, testJobs, scratch, rebuild>>

RecordJob(p) ==
    /\ tests[p].pc = "asked"
    /\ testJobs' = testJobs \cup {<<p, tests[p].kind>>}
    /\ tests' = [tests EXCEPT ![p].pc = IF tests[p].kind = "test" THEN "guards" ELSE "plan"]
    /\ UNCHANGED <<liveDb, wiped, archive, scratch, outcome, rebuild, used>>

\* With an election open somewhere only an administrator who says so goes on; that may be so at any time.
Skip(p) ==
    /\ tests[p].pc = "guards"
    /\ tests' = [tests EXCEPT ![p] = NoRestoreTest]
    /\ testJobs' = testJobs \ {<<p, tests[p].kind>>}
    /\ UNCHANGED <<liveDb, wiped, archive, scratch, outcome, rebuild, used>>

OnScratch(q) == tests[q].kind = "test" /\ tests[q].pc \in {"plan", "load", "count", "compare", "cleanup"}

FlushScratch(p) ==
    /\ tests[p].pc = "guards"
    /\ scratch' = Empty
    /\ LET others == {q \in TestServers \ {p} : OnScratch(q)} IN
       tests' = [q \in TestServers |->
                   CASE q = p -> [tests[q] EXCEPT !.pc = "plan", !.crowded = others # {}]
                     [] q \in others -> [tests[q] EXCEPT !.crowded = TRUE]
                     [] OTHER -> tests[q]]
    /\ UNCHANGED <<liveDb, wiped, archive, testJobs, outcome, rebuild, used>>

ReadPlan(p) ==
    /\ tests[p].pc = "plan"
    /\ tests' = [tests EXCEPT ![p] =
         IF Readable THEN [@ EXCEPT !.pc = "load", !.todo = Stream, !.plan = Merged(Stream)]
         ELSE [@ EXCEPT !.pc = "cleanup", !.failed = TRUE, !.unread = TRUE]]
    /\ UNCHANGED <<liveDb, wiped, archive, testJobs, scratch, outcome, rebuild, used>>

\* stream_apply clears a collection before the first document it writes there.
Cleared(p, f) == IF tests[p].got[f.coll] = {} THEN {} ELSE scratch[f.coll]

BadFile(p) == [tests[p] EXCEPT !.pc = "cleanup", !.failed = TRUE]

GoodFile(p, f) == [tests[p] EXCEPT !.todo = @ \ {f}, !.got = Joined(@, f)]

\* A file at a time: checked, then its documents.
Load(p) ==
    /\ tests[p].pc = "load"
    /\ \E f \in tests[p].todo :
       /\ IsNext(f, tests[p].todo)
       /\ tests' = [tests EXCEPT ![p] = IF f.sound THEN GoodFile(p, f) ELSE BadFile(p)]
       /\ scratch' = IF f.sound /\ tests[p].kind = "test"
                       THEN [scratch EXCEPT ![f.coll] = Cleared(p, f) \cup f.ids] ELSE scratch
    /\ UNCHANGED <<liveDb, wiped, archive, testJobs, outcome, rebuild, used>>

Loaded(p) ==
    /\ tests[p].pc = "load"
    /\ tests[p].todo = {}
    /\ tests' = [tests EXCEPT ![p].pc = IF tests[p].kind = "test" THEN "count" ELSE "cleanup",
                              ![p].whole = tests[p].got = tests[p].plan]
    /\ UNCHANGED <<liveDb, wiped, archive, testJobs, scratch, outcome, rebuild, used>>

\* Of the collections that had documents: as many as there were different ones.
CountsMatch(p) ==
    \A c \in Colls : tests[p].got[c] # {} => Cardinality(scratch[c]) = Cardinality(tests[p].got[c])

CountRestored(p) ==
    /\ tests[p].pc = "count"
    /\ tests' = [tests EXCEPT ![p] = IF CountsMatch(p) THEN [@ EXCEPT !.pc = "compare"]
                                     ELSE [@ EXCEPT !.pc = "cleanup", !.failed = TRUE]]
    /\ UNCHANGED <<liveDb, wiped, archive, testJobs, scratch, outcome, rebuild, used>>

\* The last ballot a checkpoint sealed is there.
ChainValid(d) == d["checkpoints"] \subseteq d["ballots"]

\* Faulty: the other way round.
MissingFromLiveTurned(p) == liveDb["ballots"] \ tests[p].got["ballots"]

MissingFromLive(p) == tests[p].got["ballots"] \ liveDb["ballots"]

\* chain_verify_db on the copy, and the ballots of the copy looked up in the live database.
CompareIds(p) ==
    /\ tests[p].pc = "compare"
    /\ tests' = [tests EXCEPT ![p].pc = "cleanup",
                              ![p].failed = ~ChainValid(scratch) \/ MissingFromLive(p) # {},
                              ![p].whole = scratch = tests[p].plan]
    /\ UNCHANGED <<liveDb, wiped, archive, testJobs, scratch, outcome, rebuild, used>>

\* What there was to complain of.
Cause(p) ==
    \/ tests[p].unread \/ tests[p].crowded
    \/ \E a \in archive : ~a.sound
    \/ (tests[p].got["ballots"] \cup tests[p].got["checkpoints"]) \cap wiped # {}

\* Faulty: scratch is left as it is after a failure.
LeftCleanIfPassed(p) == IF tests[p].failed THEN scratch ELSE Empty

LeftClean(p) == Empty

\* The scratch database is emptied whatever happened, and the job ends.
CleanUp(p) ==
    /\ tests[p].pc = "cleanup"
    /\ scratch' = IF tests[p].kind = "test" THEN LeftClean(p) ELSE scratch
    /\ outcome' = [said |-> IF tests[p].failed THEN "failed" ELSE "passed", kind |-> tests[p].kind,
                   whole |-> tests[p].whole \/ tests[p].crowded, cause |-> Cause(p)]
    /\ tests' = [tests EXCEPT ![p] = NoRestoreTest]
    /\ testJobs' = testJobs \ {<<p, tests[p].kind>>}
    /\ UNCHANGED <<liveDb, wiped, archive, rebuild, used>>

\* A server that starts again fails every job on record as running (recover_interrupted), the one
\* of another server included, whose test goes on.
Reboot(p) ==
    /\ used.mishaps < Mishaps
    /\ UnderWay(p)
    /\ tests' = [tests EXCEPT ![p] = NoRestoreTest]
    /\ testJobs' = {}
    /\ used' = [used EXCEPT !.mishaps = @ + 1, !.reboots = @ + 1]
    /\ UNCHANGED <<liveDb, wiped, archive, scratch, outcome, rebuild>>

-------------------------------------------------------------------------------
(* restore_tenant.py: everything is read and verified, then written collection by collection. *)

BeginRebuild(replace) ==
    /\ rebuild.pc # "write"
    /\ used.mishaps < Mishaps
    /\ Readable
    /\ \A f \in Stream : f.sound
    /\ LET got == Merged(Stream) IN
       rebuild' = [pc |-> "write", got |-> got, todo |-> {c \in Colls : got[c] # {}}, replace |-> replace]
    /\ used' = [used EXCEPT !.mishaps = @ + 1]
    /\ UNCHANGED <<liveDb, wiped, archive, testJobs, tests, scratch, outcome>>

\* The election goes on between the deletion of a collection and the writing of it.
ClearLive(c) ==
    /\ rebuild.pc = "write"
    /\ rebuild.replace
    /\ c \in rebuild.todo
    /\ liveDb[c] # {}
    /\ liveDb' = [liveDb EXCEPT ![c] = {}]
    /\ wiped' = IF c = "ballots" THEN wiped \cup liveDb[c] ELSE wiped
    /\ UNCHANGED <<archive, testJobs, tests, scratch, outcome, rebuild, used>>

WriteLive(c) ==
    /\ rebuild.pc = "write"
    /\ c \in rebuild.todo
    /\ liveDb' = [liveDb EXCEPT ![c] = @ \cup rebuild.got[c]]
    /\ rebuild' = [rebuild EXCEPT !.todo = @ \ {c}]
    /\ UNCHANGED <<wiped, archive, testJobs, tests, scratch, outcome, used>>

\* "Confirming counts against the backup".
Confirmed(c) ==
    LET have == Cardinality(liveDb[c])  want == Cardinality(rebuild.got[c]) IN
    IF rebuild.replace THEN have = want ELSE have \geq want

ConfirmRebuild ==
    /\ rebuild.pc = "write"
    /\ rebuild.todo = {}
    /\ rebuild' = [rebuild EXCEPT !.pc = IF \A c \in Colls : rebuild.got[c] = {} \/ Confirmed(c)
                                          THEN "confirmed" ELSE "mismatch"]
    /\ UNCHANGED <<liveDb, wiped, archive, testJobs, tests, scratch, outcome, used>>

RestoreNext ==
    \/ Seal \/ Wipe
    \/ \E b \in DocIds : Cast(b)
    \/ \E kind \in {"full", "incr"} : StartUpload(kind)
    \/ \E a \in archive : FinishUpload(a) \/ Rot(a)
    \/ \E p \in TestServers, kind \in ArchiveKinds : AskJob(p, kind)
    \/ \E p \in TestServers :
         \/ RecordJob(p) \/ Skip(p) \/ FlushScratch(p) \/ ReadPlan(p) \/ Load(p) \/ Loaded(p)
         \/ CountRestored(p) \/ CompareIds(p) \/ CleanUp(p) \/ Reboot(p)
    \/ \E replace \in BOOLEAN : BeginRebuild(replace)
    \/ \E c \in Colls : ClearLive(c) \/ WriteLive(c)
    \/ ConfirmRebuild

RestoreSpec == RestoreInit /\ [][RestoreNext]_restoreVars

-------------------------------------------------------------------------------
RestoreTypeOK ==
    /\ {liveDb, scratch} \subseteq Documents /\ wiped \subseteq DocIds
    /\ archive \subseteq Archive /\ testJobs \subseteq TestServers \X ArchiveKinds
    /\ tests \in [TestServers -> [pc : {"idle", "asked", "guards", "plan", "load", "count", "compare", "cleanup"},
                              kind : ArchiveKinds, todo : SUBSET File, plan : Documents, got : Documents,
                              failed : BOOLEAN, whole : BOOLEAN, unread : BOOLEAN, crowded : BOOLEAN]]
    /\ outcome \in [said : {"none", "passed", "failed"}, kind : ArchiveKinds, whole : BOOLEAN, cause : BOOLEAN]
    /\ rebuild \in [pc : {"idle", "write", "confirmed", "mismatch"}, got : Documents, todo : SUBSET Colls,
                    replace : BOOLEAN]
    /\ used \in [{"tests", "reboots", "mishaps"} -> Nat]

\* A test that passes, and that shared the scratch database with no other, had every document of the full
\* and of the incrementals after it in the copy when it verified the chain; a check that passes read them all.
PassedIsWhole == outcome.said = "passed" => outcome.whole

\* A test or check fails for a reason: a bad file, a backup without its manifest or none at all, ballots
\* deleted since, another test on the scratch database; not because of what is cast or uploaded meanwhile.
NoFalseAlarm == outcome.said = "failed" => outcome.cause

\* When the tests are over and none was cut off, no copy of the votes stays on the scratch cluster.
NothingLeftBehind ==
    (used.reboots = 0 /\ \A p \in TestServers : ~OnScratch(p)) => scratch = Empty

RestoreSound == PassedIsWhole /\ NoFalseAlarm /\ NothingLeftBehind
===============================================================================
