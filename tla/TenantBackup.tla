----------------------------- MODULE TenantBackup -----------------------------
(***************************************************************************)
(* The copies of one tenant in the backup bucket: the routine fulls and    *)
(* incrementals, the snapshot taken before a destructive call, and what a  *)
(* restore makes of them.  A backup reads its collections one after the    *)
(* other while ballots are cast, uploads its files, and only then the      *)
(* manifest that makes it count.                                           *)
(*                                                                         *)
(* A ballot is named by the second in its ObjectId: ids are made by the    *)
(* client before the insert, so a ballot may appear after a later one.     *)
(***************************************************************************)
EXTENDS Integers, FiniteSets, FiniteSetsExt

CONSTANTS
    Schedulers,     \* server processes that answer the scheduler
    Wipers,         \* handlers that take a snapshot before they delete
    BackupSeconds,  \* bound: of the clock
    Lateness,       \* how long an insert may trail the making of its id
    Overlap,        \* INCR_OVERLAP_SECONDS
    Backups,        \* bound: of the backups begun, by their names
    Faults,         \* bound: runs that fail or die
    Refreshes       \* bound: unchanged fulls that are FULL_REFRESH_DAYS old

ASSUME BackupAssumption ==
    /\ {BackupSeconds, Lateness, Overlap, Backups, Faults, Refreshes} \subseteq Nat
    /\ BackupSeconds > 0 /\ Lateness \leq Overlap
    /\ Schedulers \cap Wipers = {}

VARIABLES
    backupClock,
    cast,           \* live vote_events
    noted,          \* backup_state: baseline taken, watermark, what the last full held
    bucket,         \* the uploaded backups
    runs,           \* Schedulers \cup Wipers -> the run under way
    promised,       \* history: the ballots there were when the last uploaded routine run read them
    faults, refreshes

backupVars == <<backupClock, cast, noted, bucket, runs, promised, faults, refreshes>>

Ballots == 1 .. BackupSeconds

Nothing == [named |-> {}, ballots |-> {}]

\* A backup of the collections that name ballots (a voter marked as having voted, a checkpoint
\* that seals) and of the ballots.
Contents == [named : SUBSET Ballots, ballots : SUBSET Ballots]

NoRun == [pc |-> "idle", kind |-> "full", ts |-> 0, based |-> FALSE, mark |-> 0,
          data |-> Nothing, seen |-> {}]

Run == [pc : {"idle", "over", "full", "events", "upload", "manifest", "record"},
        kind : {"full", "incr", "safety"}, ts : Nat, based : BOOLEAN, mark : {0} \cup Ballots,
        data : Contents, seen : SUBSET Ballots]

Backup == [kind : {"full", "incr", "safety"}, ts : Nat, data : Contents, manifest : BOOLEAN]

BackupInit ==
    /\ backupClock = 1
    /\ cast = {}
    /\ noted = [based |-> FALSE, mark |-> 0, last |-> Nothing]
    /\ bucket = {}
    /\ runs = [r \in Schedulers \cup Wipers |-> NoRun]
    /\ promised = {}
    /\ faults = 0 /\ refreshes = 0

Newest(S) == Max(S \cup {0})

-----------------------------------------------------------------------------
(* The election meanwhile *)

Tick ==
    /\ backupClock < BackupSeconds
    /\ backupClock' = backupClock + 1
    /\ UNCHANGED <<cast, noted, bucket, runs, promised, faults, refreshes>>

\* The ballot and the mark on its voter are one transaction, and a checkpoint seals only ballots
\* there are: whatever names a ballot is never ahead of the ballots.
CastBallot(b) ==
    /\ b \notin cast
    /\ b \in (backupClock - Lateness) .. backupClock
    /\ cast' = cast \cup {b}
    /\ UNCHANGED <<backupClock, noted, bucket, runs, promised, faults, refreshes>>

-----------------------------------------------------------------------------
(* backup_tenant *)

\* The name of the backup is taken, and backup_state read, before anything is exported.  An
\* incremental without a baseline becomes a full.
Begin(r, kind) ==
    /\ runs[r].pc = "idle"
    /\ Newest({o.ts : o \in bucket}) < Backups
    /\ runs' = [runs EXCEPT ![r] =
         [NoRun EXCEPT
            !.kind = IF kind = "incr" /\ ~noted.based THEN "full" ELSE kind,
            !.pc = IF kind = "incr" /\ noted.based THEN "events" ELSE "full",
            !.ts = 1 + Newest({o.ts : o \in bucket}),
            !.based = kind # "safety" /\ noted.based,
            !.mark = IF kind = "safety" THEN 0 ELSE noted.mark]]
    /\ UNCHANGED <<backupClock, cast, noted, bucket, promised, faults, refreshes>>

\* FULL_COLLECTIONS come first: the voters, the checkpoints.
\* Faulty: the append-only collections come first.
FirstPartEvents == "ballots"

FirstPart == "named"

ExportFull(r) ==
    /\ runs[r].pc = "full"
    /\ runs' = [runs EXCEPT ![r].pc = "events", ![r].data[FirstPart] = cast]
    /\ UNCHANGED <<backupClock, cast, noted, bucket, promised, faults, refreshes>>

\* Then the append-only ones: all of them in a full or a snapshot ...
Completed(r) == [p \in {"named", "ballots"} |-> IF p = FirstPart THEN runs[r].data[p] ELSE cast]

\* ... and what is newer than the watermark, less the overlap, in an incremental.
\* Faulty: without the overlap.
SinceMark(r) == {b \in cast : b > runs[r].mark}

Since(r) == {b \in cast : b \geq runs[r].mark - Overlap}

AnyNew(r) == \E b \in cast : b > runs[r].mark

\* The hashes of the last full, in backup_state.
\* Faulty: a baseline is enough.
SameAsLastAlways(r) == noted.based

SameAsLast(r) == noted.based /\ Completed(r) = noted.last

ExportEvents(r) ==
    /\ runs[r].pc = "events"
    /\ \/ /\ runs[r].kind = "incr"
          /\ ~AnyNew(r)
          /\ runs' = [runs EXCEPT ![r] = NoRun]
          /\ UNCHANGED refreshes
       \/ /\ runs[r].kind = "incr"
          /\ AnyNew(r)
          /\ runs' = [runs EXCEPT ![r].pc = "upload", ![r].seen = cast,
                                  ![r].data.ballots = Since(r)]
          /\ UNCHANGED refreshes
       \/ /\ runs[r].kind = "full"
          /\ SameAsLast(r)
          /\ runs' = [runs EXCEPT ![r] = NoRun]
          /\ UNCHANGED refreshes
       \/ /\ runs[r].kind # "incr"
          /\ runs[r].kind = "full" /\ SameAsLast(r) => refreshes < Refreshes
          /\ runs' = [runs EXCEPT ![r].pc = "upload", ![r].seen = cast,
                                  ![r].data = Completed(r)]
          /\ refreshes' = refreshes + (IF runs[r].kind = "full" /\ SameAsLast(r) THEN 1 ELSE 0)
    /\ UNCHANGED <<backupClock, cast, noted, bucket, promised, faults>>

Uploaded(r) == [kind |-> runs[r].kind, ts |-> runs[r].ts, data |-> runs[r].data, manifest |-> FALSE]

\* The files, all of them or, when the run fails, some.
UploadFiles(r) ==
    /\ runs[r].pc = "upload"
    /\ bucket' = bucket \cup {Uploaded(r)}
    /\ runs' = [runs EXCEPT ![r].pc = "manifest"]
    /\ UNCHANGED <<backupClock, cast, noted, promised, faults, refreshes>>

UploadManifest(r) ==
    /\ runs[r].pc = "manifest"
    /\ bucket' = (bucket \ {Uploaded(r)}) \cup {[Uploaded(r) EXCEPT !.manifest = TRUE]}
    /\ runs' = [runs EXCEPT ![r].pc = "record"]
    /\ UNCHANGED <<backupClock, cast, noted, promised, faults, refreshes>>

\* A handler takes one snapshot; what it deletes after it is not of this module.
Ended(r) == IF r \in Wipers THEN [NoRun EXCEPT !.pc = "over"] ELSE NoRun

\* The last id of what was uploaded, over the watermark read at the beginning.
\* Faulty: the newest ballot there is by now.
MarkedNow(r) == Newest(cast)

\* Faulty: the next id to come.
MarkedNext(r) == 1 + Newest(runs[r].data.ballots)

Marked(r) == IF runs[r].data.ballots = {} THEN runs[r].mark ELSE Max(runs[r].data.ballots)

RecordRun(r) ==
    /\ runs[r].pc = "record"
    /\ noted' = CASE runs[r].kind = "incr" -> [noted EXCEPT !.mark = Marked(r)]
                  [] runs[r].kind = "full" -> [based |-> TRUE, mark |-> Marked(r),
                                               last |-> runs[r].data]
                  [] OTHER -> noted
    /\ promised' = IF runs[r].kind = "safety" THEN promised ELSE runs[r].seen
    /\ runs' = [runs EXCEPT ![r] = Ended(r)]
    /\ UNCHANGED <<backupClock, cast, bucket, faults, refreshes>>

\* An upload fails, or the process dies: nothing is undone, nothing is recorded.
Fail(r) ==
    /\ runs[r].pc \notin {"idle", "over"}
    /\ faults < Faults
    /\ faults' = faults + 1
    /\ runs' = [runs EXCEPT ![r] = Ended(r)]
    /\ UNCHANGED <<backupClock, cast, noted, bucket, promised, refreshes>>

RunStep(r) ==
    \/ ExportFull(r) \/ ExportEvents(r)
    \/ UploadFiles(r) \/ UploadManifest(r) \/ RecordRun(r)

BackupNext ==
    \/ Tick
    \/ \E b \in Ballots : CastBallot(b)
    \/ \E s \in Schedulers : Begin(s, "full") \/ Begin(s, "incr")
    \/ \E s \in Wipers : Begin(s, "safety")
    \/ \E r \in Schedulers \cup Wipers : RunStep(r) \/ Fail(r)

BackupSpec == BackupInit /\ [][BackupNext]_backupVars

\* Nothing but a fault stops a run; the daily call comes again and again, and though it may find
\* an incremental running, it does not find one every day.
FairBackupSpec ==
    /\ BackupSpec
    /\ \A s \in Schedulers : WF_backupVars(RunStep(s)) /\ SF_backupVars(Begin(s, "full"))

-----------------------------------------------------------------------------
(* Restore *)

Fulls == {o \in bucket : o.kind = "full"}

Whole == {o \in bucket : o.manifest}

\* _plan_steps: the base, and for a routine full every incremental from its second on.
\* Faulty: only the base.
StepsBaseOnly(base) == {base}

Steps(base) ==
    {base} \cup {o \in bucket : base.kind = "full" /\ o.kind = "incr" /\ o.ts \geq base.ts}

\* plan_restore, open_restore_stream: merged by id.
Restored(base) ==
    [base.data EXCEPT !.ballots = UNION {o.data.ballots : o \in Steps(base) \cap Whole}]

NewestFull == {o \in Fulls \cap Whole : \A p \in Fulls \cap Whole : p.ts \leq o.ts}

-----------------------------------------------------------------------------
(* Properties *)

\* backup_state and the uploads are what the code makes them.
BackupTypeOK ==
    /\ backupClock \in 1 .. BackupSeconds
    /\ cast \subseteq Ballots /\ promised \subseteq Ballots
    /\ noted \in [based : BOOLEAN, mark : {0} \cup Ballots, last : Contents]
    /\ bucket \subseteq Backup
    /\ runs \in [Schedulers \cup Wipers -> Run]
    /\ faults \in 0 .. Faults /\ refreshes \in 0 .. Refreshes

\* A restored copy never marks a voter as having voted without that voter's ballot, and never
\* holds a checkpoint that seals a ballot it lacks: Chain Verify of the copy finds every sealed
\* ballot (the order of the collections in backup_tenant).
CopyIsConsistent ==
    \A base \in Whole :
        base.kind # "incr" =>
            base.data.named \subseteq Restored(base).ballots

\* What was there when a routine run read the ballots is restored from the newest full and the
\* incrementals after it as soon as the run is recorded, however late some inserts were and
\* whatever failed before (the watermark and its overlap).
RecordedMeansRestorable ==
    \A base \in NewestFull : promised \subseteq Restored(base).ballots

\* The watermark never passes a ballot that has not been uploaded and that the next incremental
\* would no longer read.
WatermarkBehindUploads ==
    \A base \in NewestFull, b \in cast :
        b < noted.mark - Overlap => b \in Restored(base).ballots

\* The module docstring: "a backup without a manifest is incomplete and ignored" (backup.py).
\* But the plan of a restore reads the manifest of every incremental it lists, and fails on one that
\* an interrupted run left behind.
IncompleteIgnored ==
    (\A r \in Schedulers \cup Wipers : runs[r].pc \in {"idle", "over"}) =>
        \A base \in Whole : base.kind = "full" => Steps(base) \subseteq Whole

\* Every ballot reaches the backups: the daily full picks up what an incremental stepped over.
BallotsReachBackup ==
    \A b \in Ballots :
        b \in cast ~> \E base \in NewestFull : b \in Restored(base).ballots

\* What a restore of the backups gives: consistent with itself, nothing recorded is missing, and
\* nothing is stepped over for good by the watermark.
BackupSound == CopyIsConsistent /\ RecordedMeansRestorable /\ WatermarkBehindUploads
=============================================================================
