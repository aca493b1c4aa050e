------------------------------- MODULE Milestones -------------------------------
(***************************************************************************)
(* The milestone snapshots of one tenant (backup.py 374-430, 605-691,      *)
(* 897-960).  The election's switches are compared, at each call of the    *)
(* scheduler, with those of the last call; a switch that has turned is     *)
(* followed by a snapshot under a lock nobody can shorten, and the         *)
(* certification by longer locks on all of them.  Beside that, the report  *)
(* that decides whether files are copied along.                            *)
(***************************************************************************)
EXTENDS Integers, Sequences, FiniteSets, SequencesExt

CONSTANTS
    MilestoneDays,  \* bound: of the clock
    LockDays,       \* MILESTONE_LOCK_DAYS
    UnknownDays,    \* MILESTONE_UNKNOWN_RELEASE_DAYS
    ResultsEnd,     \* when the results phase ends: the days the schedule may say, 0 for none
    Switchings,     \* bound: on the turns of the election's switches
    UploadFaults,   \* bound: on uploads and locks that fail
    Outages,        \* bound: on restarts of the server
    Snapshots       \* bound: on milestone snapshots begun

ASSUME MilestonesAssumption ==
    /\ MilestoneDays \in Nat \ {0}
    /\ {LockDays, UnknownDays, Switchings, UploadFaults, Outages, Snapshots} \subseteq Nat
    /\ ResultsEnd \subseteq Nat

VARIABLES
    day,            \* the clock
    election,       \* the election's switches
    resultsEnd,     \* the end of the results phase, 0 when the schedule has none
    recorded,       \* backup_state.flags: the switches as of the last call that did its work
    store,          \* the milestone snapshots in the bucket, oldest first
    milestoneRun,            \* the scheduler's call under way
    report,         \* the size report, and the owner's leave to copy files
    past            \* history: what the recorded switches have been through, bounds used, oddities

milestoneVars == <<day, election, resultsEnd, recorded, store, milestoneRun, report, past>>

Labels == {"open", "close", "certified"}
Flags == [open : BOOLEAN, certified : BOOLEAN]
NoFlags == [open |-> TRUE, certified |-> TRUE]        \* no election is both: free to mean none

Snapshot == [label : Labels, on : Nat, lock : Nat, whole : BOOLEAN,
             file : {"none", "copied", "locked"}]

NoCall == [pc |-> "idle", todo |-> <<>>, flags |-> NoFlags, until |-> 0, left |-> {}]

MilestonesInit ==
    /\ day = 1
    /\ election = [open |-> TRUE, certified |-> FALSE]
    /\ resultsEnd \in ResultsEnd
    /\ recorded = NoFlags
    /\ store = <<>>
    /\ milestoneRun = NoCall
    /\ report = [made |-> "no", approved |-> FALSE]
    /\ past = [owed |-> [l \in Labels |-> 0], switchings |-> 0, faults |-> 0, outages |-> 0,
               shortened |-> FALSE, unheld |-> FALSE]

-----------------------------------------------------------------------------

PassDay ==
    /\ day < MilestoneDays
    /\ day' = day + 1
    /\ UNCHANGED <<election, resultsEnd, recorded, store, milestoneRun, report, past>>

\* The commission opens, closes, certifies, or takes a certification back.
SwitchElection ==
    /\ past.switchings < Switchings
    /\ past' = [past EXCEPT !.switchings = @ + 1]
    /\ \/ ~election.certified /\ election' = [election EXCEPT !.open = ~@]
       \/ ~election.certified /\ ~election.open /\ election' = [election EXCEPT !.certified = TRUE]
       \/ election.certified /\ election' = [election EXCEPT !.certified = FALSE]
    /\ UNCHANGED <<day, resultsEnd, recorded, store, milestoneRun, report>>

LoseServer ==
    /\ past.outages < Outages /\ milestoneRun.pc # "idle"
    /\ past' = [past EXCEPT !.outages = @ + 1]
    /\ milestoneRun' = NoCall
    /\ UNCHANGED <<day, election, resultsEnd, recorded, store, report>>

\* The owner's leave, asked for by the report but taken at any time.
ApproveAssets ==
    /\ ~report.approved
    /\ report' = [made |-> IF report.made = "no" THEN "unmeasured" ELSE report.made, approved |-> TRUE]
    /\ UNCHANGED <<day, election, resultsEnd, recorded, store, milestoneRun, past>>

\* first_run_report: once, at the first call; what is there counts as made.
MeasureFirst ==
    /\ milestoneRun.pc = "idle"
    /\ report' \in IF report.made # "no" THEN {report}
                   ELSE {[report EXCEPT !.made = "fits"], [report EXCEPT !.made = "over"]}
    /\ milestoneRun' = [NoCall EXCEPT !.pc = "look"]
    /\ UNCHANGED <<day, election, resultsEnd, recorded, store, past>>

Holding == report.made = "over" /\ ~report.approved

-----------------------------------------------------------------------------

Current == [open |-> election.open, certified |-> election.certified]

\* The snapshots a change of the switches calls for, in this order.
Turned(old, new) ==
    IF old = NoFlags THEN <<>>
    ELSE (IF ~old.open /\ new.open THEN <<"open">> ELSE <<>>)
         \o (IF old.open /\ ~new.open THEN <<"close">> ELSE <<>>)
         \o (IF ~old.certified /\ new.certified THEN <<"certified">> ELSE <<>>)

DetectMilestones ==
    /\ milestoneRun.pc = "look"
    /\ milestoneRun' = [milestoneRun EXCEPT !.pc = "next", !.flags = Current, !.todo = Turned(recorded, Current)]
    /\ UNCHANGED <<day, election, resultsEnd, recorded, store, report, past>>

Latest(x, y) == IF x > y THEN x ELSE y

\* Certifying is releasing; before it the schedule says when, or nobody knows.
ReleaseHint(label) == IF label = "certified" THEN day ELSE resultsEnd

\* _retain_until, for a milestone.
RetainUntil(hint) == (IF hint = 0 THEN day + UnknownDays ELSE Latest(day, hint)) + LockDays

BeginSnapshot ==
    /\ milestoneRun.pc = "next" /\ milestoneRun.todo # <<>> /\ Len(store) < Snapshots
    /\ store' = Append(store, [label |-> Head(milestoneRun.todo), on |-> day, whole |-> FALSE, file |-> "none",
                               lock |-> RetainUntil(ReleaseHint(Head(milestoneRun.todo)))])
    /\ milestoneRun' = [milestoneRun EXCEPT !.pc = "assets"]
    /\ UNCHANGED <<day, election, resultsEnd, recorded, report, past>>

Mine == Len(store)

\* Files are copied along unless they are held back, and then locked like the rest.
CopyAsset ==
    /\ milestoneRun.pc = "assets"
    /\ IF Holding
       THEN UNCHANGED store /\ milestoneRun' = [milestoneRun EXCEPT !.pc = "manifest"]
       ELSE store' = [store EXCEPT ![Mine].file = "copied"] /\ milestoneRun' = [milestoneRun EXCEPT !.pc = "lock"]
    /\ past' = [past EXCEPT !.unheld = @ \/ (~Holding /\ report.made = "unmeasured")]
    /\ UNCHANGED <<day, election, resultsEnd, recorded, report>>

\* Faulty: the manifest follows, and the lock of the copy when there is time.
AssetDoneUnlocked == {"copied", "locked"}

AssetDone == {"locked"}

LockAsset ==
    /\ milestoneRun.pc = "lock"
    /\ \E file \in AssetDone : store' = [store EXCEPT ![Mine].file = file]
    /\ milestoneRun' = [milestoneRun EXCEPT !.pc = "manifest"]
    /\ UNCHANGED <<day, election, resultsEnd, recorded, report, past>>

\* The manifest is what makes a snapshot one.
WriteManifest ==
    /\ milestoneRun.pc = "manifest"
    /\ store' = [store EXCEPT ![Mine].whole = TRUE]
    /\ milestoneRun' = IF Head(milestoneRun.todo) = "certified"
              THEN [milestoneRun EXCEPT !.pc = "extend", !.until = day + LockDays, !.left = DOMAIN store]
              ELSE [milestoneRun EXCEPT !.pc = "next", !.todo = Tail(@)]
    /\ UNCHANGED <<day, election, resultsEnd, recorded, report, past>>

GivenUp == milestoneRun' = NoCall

\* Anything that goes wrong ends the tenant's turn, with the old switches kept.
UploadFails ==
    /\ milestoneRun.pc \in {"assets", "lock", "manifest", "extend"}
    /\ past.faults < UploadFaults
    /\ past' = [past EXCEPT !.faults = @ + 1]
    /\ GivenUp
    /\ UNCHANGED <<day, election, resultsEnd, recorded, store, report>>

\* extend_milestone_locks, over one snapshot after another.  The bucket refuses a lock shorter than
\* the one it has, and with it the whole milestone.
ExtendLock ==
    /\ milestoneRun.pc = "extend" /\ milestoneRun.left # {}
    /\ \E s \in milestoneRun.left :
         IF store[s].lock <= milestoneRun.until
         THEN /\ store' = [store EXCEPT ![s].lock = milestoneRun.until]
              /\ milestoneRun' = [milestoneRun EXCEPT !.left = @ \ {s}]
              /\ UNCHANGED past
         ELSE /\ GivenUp
              /\ past' = [past EXCEPT !.shortened = TRUE]
              /\ UNCHANGED store
    /\ UNCHANGED <<day, election, resultsEnd, recorded, report>>

\* Faulty: the locks are being extended while the milestone counts as done.
ExtendedStarted == milestoneRun.pc = "extend"

Extended == milestoneRun.pc = "extend" /\ milestoneRun.left = {}

EndCertified ==
    /\ Extended
    /\ milestoneRun' = [milestoneRun EXCEPT !.pc = "next", !.todo = Tail(@), !.left = {}]
    /\ UNCHANGED <<day, election, resultsEnd, recorded, store, report, past>>

\* Faulty: the switches are recorded when they are read.
NothingLeftToDoAtOnce == milestoneRun.pc = "next"

NothingLeftToDo == milestoneRun.pc = "next" /\ milestoneRun.todo = <<>>

RecordFlags ==
    /\ NothingLeftToDo
    /\ recorded' = milestoneRun.flags
    /\ LET turned == ToSet(Turned(recorded, milestoneRun.flags))
       IN  past' = [past EXCEPT !.owed = [l \in Labels |-> @[l] + (IF l \in turned THEN 1 ELSE 0)]]
    /\ milestoneRun' = NoCall
    /\ UNCHANGED <<day, election, resultsEnd, store, report>>

MilestonesNext ==
    \/ PassDay \/ SwitchElection \/ LoseServer \/ ApproveAssets \/ MeasureFirst
    \/ DetectMilestones \/ BeginSnapshot \/ CopyAsset \/ LockAsset \/ WriteManifest \/ UploadFails
    \/ ExtendLock \/ EndCertified \/ RecordFlags

MilestonesSpec == MilestonesInit /\ [][MilestonesNext]_milestoneVars

-----------------------------------------------------------------------------

MilestonesTypeOK ==
    /\ day \in 1 .. MilestoneDays
    /\ election \in [open : BOOLEAN, certified : BOOLEAN]
    /\ recorded \in Flags /\ resultsEnd \in ResultsEnd
    /\ store \in Seq(Snapshot)
    /\ milestoneRun \in [pc : {"idle", "look", "next", "assets", "lock", "manifest", "extend"}, todo : Seq(Labels),
                flags : Flags, until : Nat, left : SUBSET (1 .. Snapshots)]
    /\ report \in [made : {"no", "unmeasured", "fits", "over"}, approved : BOOLEAN]

MaxDay(S) == CHOOSE x \in S : \A y \in S : y <= x

CompleteSnapshot(label) == {s \in DOMAIN store : store[s].whole /\ store[s].label = label}

\* Each turn of the switches that is recorded as handled has a snapshot of its own, whatever failed or
\* stopped on the way: "keep the old flags so the next call retries this milestone".
TurnsAreSnapped == \A l \in Labels : past.owed[l] <= Cardinality(CompleteSnapshot(l))

\* "earlier milestone snapshots also last >= 1 year past release": once a certification that still
\* stands is recorded, every snapshot taken up to it is locked for that long after it.
LocksCoverRelease ==
    recorded # NoFlags /\ recorded.certified /\ past.owed["certified"] > 0 /\ election.certified =>
        LET last == MaxDay({store[s].on : s \in CompleteSnapshot("certified")})
        IN  \A s \in DOMAIN store : store[s].whole /\ store[s].on <= last => store[s].lock >= last + LockDays

\* A file that a whole snapshot lists is locked with it, and none was copied while it was to be held.
FilesAreLocked == \A s \in DOMAIN store : store[s].whole => store[s].file # "copied"

MilestonesSound == TurnsAreSnapped /\ LocksCoverRelease /\ FilesAreLocked

\* "Compliance retention can only be extended, never shortened": no lock is asked for that is shorter
\* than the one in force.  (Not so: a snapshot taken while the release was unknown is locked for longer.)
LocksOnlyGrow == ~past.shortened

\* The size report is made "once, before the first upload".  (Not so: leave given early takes its place.)
MeasuredFirst == ~past.unheld
=============================================================================
