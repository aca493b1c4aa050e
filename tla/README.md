# Verification of the multi-tenant voting system

TLA+ models of the server in `src/backend/` (FastAPI handlers over MongoDB), the TLC runs that check them and the
theorems TLAPS proves about them. Line numbers are of `src/backend/main.py` unless a file is named.

## The system

One organisation's election goes through phases: applications are paid for and vetted, voters identify themselves, get a
code by SMS and cast a ballot, an election is closed, ties are detected, a by-election may follow, results are certified.
Beside it run the services of the office: SMS campaigns, backups and a mirror, admin sessions, usage counters, a demo.
Every query is scoped to one organisation by `tenant_db.py`, so the models have one organisation.

Handlers are `async` functions in one uvicorn process; during a deploy the old process and the new one overlap (comment at
3594, `docs/PERFORMANCE_AUDIT.md`). Every `await` is a point where any other handler runs. The only locks are MongoDB's: a
single-document update is atomic, a ballot is one multi-document transaction, unique indexes arbitrate inserts. Background
loops (checkpoint sweep, vetting close-out, list sweep, upload sweep) run the same functions the routes call; backups are
called for every fifteen minutes from outside.

### Inventory

| component | state | operations | hard behaviour | what makes it correct |
|---|---|---|---|---|
| Voting (4716-5292, `auth.py`) | `voters` (has_voted, voted_rounds, last_status, vote_jti, auth_round_id), `otps`, `vote_events` | `/verify-identity`, `/verify-otp`, `/vote`, `/vote-bulk` | retries, two tabs, logins that overlap, a round switched between a read and its use | one ballot per voter and round, marked exactly, on the newest token, for the slate, from eligible voters |
| Switch, certification, schedule, grants (6252-6330, 6414-6452, 12057-12292) | settings `election_config`, `election_phases`; `exception_grants`; each process's settings cache | toggle-election, toggle-certification, schedule/phases, exception-grants | reads before writes, stale caches | nothing certified is live; ballots only while open |
| Results, ties, by-elections (1841, 3840-4060, 9228-9578) | `rounds`, `ties`, caches of settings and of results | results polls, by-elections, their schedule and its repair | two administrators, a failing write, answers from copies of different ages | a by-election resolves one tie; the tally is shown when the rule says so |
| Reset (6344-6411) | wipes the above | reset-election | minutes of upload between checks and wipe, no lock | certified results survive; nobody votes twice |
| Audit chain (1841-2093, `chain_verify.py`) | `audit_checkpoints`, Object Lock copies | sweep, checkpoint, verify | in-flight transactions, overlapping sweeps, crash between insert and upload | the chain verifies, is linear, and covers every ballot |
| Send ladder and guess bucket (4135-4288, `otp_limits.py`) | `otp_send_state`, `otp_guess_state` | reserve, roll back, consume, clear | optimistic concurrency, roll-back to an older snapshot | no send before its time, no free guess |
| Vetting and Finance (2195-3176, 7329-7930, 8648-9225, 10395-10830) | `applications`, `candidates`, certificates, `panel_members` | clearance, votes, policy and panel changes, close-out, corrections, removal, force decisions | tally on a stale document, partial failure after the status flip, two editors | on the ballot iff approved; no decision left behind |
| Nomination files (14724-14825, 8960-9010) | `nomination_uploads`, a bucket | upload, claim, sweep, delete, archive, restore, purge | sweep against claim | a form is there as long as its application |
| Candidate list (`candidate_list.py`) | `candidate_lists`, dirty mark | mark, sweep, issue now | sequence race, mark during a sweep | numbers unique, one current list |
| Roster (4449-4568, 6870-7000, 9763-10124, 11000-11535, 12961-13420) | `voters`, `student_changes`, `contact_changes`, `roster_ledger` | request/decide additions and removals, imports, edits, contact changes, ledger | two desks, freeze, voters voting meanwhile, lost races | applied once; voters who voted stay; hash chain linear |
| SMS campaigns and budget (4296-4383, 13636-13950) | campaigns, rows, `sms_usage` | start, pause, cancel, retry, resume; gate and count | a dying sender, two processes | nobody texted twice; a bounded overshoot |
| Backup, mirror, restore, freeze (`backup*.py`, `restore*.py`, `migrate_core.py`, `write_freeze.py`) | bucket, watermarks, jobs, freeze timer, monitor state | scheduled call, snapshot, milestone, mirror, drill, migration | late inserts, leases, restarts, files without a manifest | a restore has what was recorded; "ready" means moved |
| Admin login (1740-1800, 3620-3741, 6037-6260, `auth.py`) | tokens, `revoked_tokens`, per-process cache, `login_attempts` | login, guard, hat switch, logout, reset, role removal | the guard before, the write after; cached answers | a session ends with what it rests on |
| Demo mode (11611-12010) | tagged rows, settings snapshot | enable, extend, disable, expire, reset | two servers, a cached document, a crash half way | off leaves nothing behind |
| Usage counters (`analytics*.py`) | buffers, two stores | flush, switch, shutdown, copy | chunks that fail, a switch during a flush | counted once |
| Tenancy wrapper, imports and name matching, performance metrics, web client | - | - | none of their own | - |

Components call each other directly and share MongoDB collections; there are no queues. What a component takes from another
is an input of its module: the freeze of the roster, the election's switches, whether a gateway answers.

## Modules

| module | models | run |
|---|---|---|
| `VotingRounds` | voting, switch, certification, schedule, ties, by-elections, settings caches | Casting, ByElection, TwoAdmins, SlateAndRule |
| `BallotBox` | abstract: what the voting promises; refined by `VotingRounds` (`KeepsTheBallotBox`) | ByElection |
| `ElectionReset` | `VotingRounds` with the reset's steps | Reset, CertifyDuringReset |
| `AuditChain` | event stamps, checkpoints, anchors, verifier | Checkpoints, BulkBallots |
| `SendLadder`, `GuessBucket` | reservations for a code; payments for a guess | Services |
| `SmsCampaign`, `SmsBudget` | bulk sends; the counter, its alerts and reserve | Services, Progress |
| `TenantBackup`, `RestoreTest` | routine and milestone copies; the restore drill | Services, Progress |
| `Mirror`, `Cutover` | the mirror; freeze, migration jobs and checklist | Services, Progress |
| `Vetting` | clearance, votes, policy, close-out, approval and its side effects | Office, Progress |
| `RosterChanges`, `ContactChanges`, `RosterLedger` | who is on the roster; corrections; the ledger | Office |
| `CandidateList` | numbered official lists | Office, Progress |
| `UsageCounters` | buffers, flushes, storage switch, history copy | Office |
| `Milestones`, `MonitorSchedule` | snapshots at turns of the switches and their locks; samples and mails | Office |
| `AdminSessions`, `RevocationCache`, `LoginLimits` | who is let in | Access |
| `NominationFiles`, `ApplicationEdits` | forms and their applications; corrections and removal votes | Access |
| `ResultsRelease` | who is shown the tally, from which copies | Access |
| `DemoMode` | demo on two servers | Access |
| `MCVotingRounds`, `MCElectionReset`, `MCAuditChain` | names for the values of the first four | |
| `MCServices`, `MCOffice`, `MCAccess`, `MCProgress` | sums of independent components | |
| `VotingRoundsProofs`, `ElectionProofs`, `AuditChainProofs`, `RosterProofs`, `RosterLedgerProofs`, `ServicesProofs`, `AccessProofs`, `OfficeProofs` | theorems, see below | |

A sum has a variable `part` chosen in its initial states; the component of that name takes its steps and the others stay as
they began. Components in a sum share no state in the code, so nothing is lost, and one run checks each of them within its
own bounds. Their invariants hold trivially of the parts that rest. A sum of finite components stops where each of them
does, so its deadlock is not an error.

A handler is a record whose `pc` names the await it is suspended at; what it read and will use later is in the record. An
administrator, a desk, a clerk, a server process are such handlers. Several database calls are one step only where
nothing another actor does in between can be told apart; each such merge is said in the module.

**VotingRounds.** A voter's handler is a record in `requests` with `pc` `sms` (the gateway call of `/verify-identity`),
`compare` (the guess being paid for in `/verify-otp`), `check` and `commit` (before `assert_voting_allowed` and before the
transaction). An administrator's handler that reads, then writes, is a record in `tasks`. `cache[i]` is what process `i`
holds of the two settings documents; it may be refreshed at any time (`CacheExpires`) or never, so staleness is not bounded
by the five seconds of `SETTINGS_CACHE_TTL_S`; a write refreshes the writer's copy only (`invalidate_settings`).

Merged into one step: the awaits of `CheckBallot` (rule and slate of a round never change; the transaction re-reads
everything about the voter), of `ClaimTie` (nobody else knows the new round's id), of the `SetPhaseSchedule` and
`ResetByElectionSchedule` reads and writes, of the two `CodeSent` writes (a re-sent code gives the same overwriting of
`last_status`). The transaction is one step: `/vote` and `/vote-bulk` read and write the voter's document in it, so a
concurrent write of that document aborts and repeats it.

Data: `has_voted` and `voted_rounds` are one set; a code is the round it was issued in, and a right and a wrong guess are
always possible; a code may be older than its lifetime at any moment (`RejectCode`); a token is the number of the login that
minted it, and its expiry is its never being used again; a voting window is a pair of clock values. `/vote` is `/vote-bulk`
with one candidate: same checks, same claim. An empty ballot cannot be recorded, `insert_many([])` raises and aborts. Phone
numbers, names, captcha, budget and limiter decide only whether a code is sent, which the model leaves open. The
roster-freeze and early-stop guards of toggle-election are taken as satisfied by the administrator. `ballots[r][v]`
attributes events to voters for the properties' sake only; no action reads the attribution.
`set_by_election_schedule` (9525) is `SetPhaseSchedule` with more guards. `SetPhaseSchedule` for `RoundOne` is also what a
request without a `round_id` does, even during a by-election (12096). A tie record is written once and never revised.

**AuditChain.** An `_id` is its bucket's end followed by a random part; a chain hash is the set of ids folded into it, which
determines the hashed text because each fold takes ids above the earlier ones in order and events are never updated.
`TxnLifetime` is the database's limit on a transaction's life; `TxnLifetime <= Grace` is the reason given at 1870 (MongoDB's
default is 60 s, `CHECKPOINT_SEAL_GRACE_SECONDS` is 60). A worker is one call of `create_audit_checkpoint`; it reads the
head, folds, inserts under two unique indexes, uploads; it may die between steps.

**ElectionReset** adds the reset's steps in the code's order: refusals, snapshot (which succeeds or fails), codes, voters,
events, then ties, rounds and schedule.

**The other modules** each begin with a comment that says what they follow and what stands for what. Histories (`seen`,
`past`, `tally`, `marks`, `crossed` and the like) record what a property needs to remember; no guard that is code reads them,
guards that are bounds do. Hashes are injective (`Hash` is one-to-one where a module has one); object storage takes a file
or fails; random parts never collide.

Operators marked `Faulty:` are wrong variants of the definition after them; replacing the definition by its variant makes a
named property fail, which is how each property is known to depend on the code. No action uses them.

## Runs and what they show

Each property is stated in words above its definition; several are conjunctions, whose parts are named here.

| run | properties | bounds |
|---|---|---|
| Casting | `TypeOK`; `BallotsKept` (one ballot per round, marked iff cast); `CertifiedIsNotLive`; `NewestSessionOnly` (of steps) | 1 voter, 2 candidates, 3 requests, 2 logins, 2 processes, 1 admin, no by-election, voting always open |
| ByElection | `NoBallotBeforeScheduled`; `KeepsTheBallotBox` (refinement) | 3 voters of whom 2 tie, 1 by-election whose schedule write may fail, 1 admin, 1 process, 2 clock values, 1 login per voter |
| TwoAdmins | `ByElectionsResolveTies`, `RoundsInUseExist` | 2 by-election ids, 2 admins, 3 clock values, 1 login |
| SlateAndRule | `ByElectionBallotsKept` (on the slate; eligible voters only) | 3 voters of whom 2 tie, 3 candidates of whom 2 tie, 1 by-election, 1 login per voter, voting always open |
| Reset | `ResetTypeOK`, `NoSecondBallotAfterReset` | 1 voter, 2 requests, 3 logins, 1 admin |
| Checkpoints | `ChainSound` (while every ballot came by `/vote`: verifies, none skipped, counts add up); `ChainOrdered` (linear, anchors are checkpoints) | 2 ballots by either route, 2 workers, buckets of 2, grace and transaction life 1, one crash |
| Services | `ServicesTypeOK`; `CodesGuarded` (`LadderKept`, `BucketNotOverdrawn`); `CampaignSound`; `BudgetKept`; `BackupsRestore` (`BackupSound`, `RestoreSound`); `CopiesTrusted` (`MirrorSound`, `ReadyMeansMoved`) | 2 taps on a ladder of three rungs, 2 guesses, 2 rows, 2 payers for 3 voters, 2 backups with a fault, 1 document to mirror or move |
| Office | `OfficeTypeOK`; `VettingSound` (`BallotAgrees`, `DecisionsTaken`); `AppliedOnce`; `ContactsSound`; `LedgerSound`; `ListsOrdered`; `UsageSound`; `WatchKept` (`MilestonesSound`, `MonitorSound`); `RosterSteps` (of steps) | a panel of 2 with a manager more, 2 handlers; 1 voter, 2 desks, 1 request; 2 people; 3 ledger writers and 2 tries; 3 lists; 2 days |
| Access | `AccessTypeOK`; `LoginsSound` (`SessionsSound`, `RevokedStaysOut`, `LimitsSound`); `NominationSound`; `ReleaseSound`; `DemoSound`; `EditsSound` | 2 tokens; 2 processes with 2 token holders; 2 addresses, 2 logins, 5 failures; 2 files; 1 poll in 3 seconds; 1 host; 2 editors, 2 commissioners |
| Progress | `BallotsAreCovered`, `CampaignEnds`, `CloseoutHappens`, `ListCatchesUp`, `CopiesCatchUp`, `JobsEnd` (all liveness) | 2 ballots in 2 buckets by `/vote`, 2 checkpoint workers, 2 processes, 2 handlers, 1 list sweep, 1 scheduler, bounded faults |
| CertifyDuringReset | `CertifiedResultsSurvive` is violated | as Reset |
| BulkBallots | `NoBallotSkipped` is violated | as Checkpoints, both routes |

Two voters are the least that can tie, and the third voter of `SlateAndRule` is the least that can be ineligible; two
requests of one voter are the least that can race and `Casting` has a third to repeat one; two administrators and two
by-election ids are the least that can disagree. Voters meet in the code only through ties and turnout, so one voter is
enough for `Casting`; `ByElection` has two that tie and a third whose login begins in Round 1 and ends in the by-election. One position is
enough because a ballot is one set of picks and positions meet only in a ballot being well formed. By-elections with two
processes are out of TLC's reach in the time a run is given; the theorems cover any number of processes.

In the sums, the races are of two handlers (two taps, two desks, two editors, two processes) over one object, and every
fault that the code handles (a failed upload, a dead process, a gateway's refusal, a lost write) happens at least once at
any place. `Services` composes `AuditChain` with two random parts and no crash beside what `Checkpoints` has. Every bound is
a constant whose comment says "bound"; with them most behaviours come to an end, so deadlock is not checked. Sets that no
definition tells apart are declared symmetric in the runs of `VotingRounds`, `ElectionReset` and `AuditChain`, none of which
checks liveness.

### Fairness

Only `Progress` assumes any. The clock advances where there is one, each step of a background loop's call
that stays possible is taken, and awaits return: `_audit_checkpoint_loop` (2085), the vetting and list sweeps, the
scheduler's calls and `_resume_sms_campaigns` (13819, at every start) catch every exception and go on for as long as the
server runs. Requests, administrators, uploads and faults are not assumed fair; how often a process dies or a write fails is
bounded.

## Where the code and its comments part

Two of these have a run, which is expected to find the property violated.

| run | what happens | what the code says |
|---|---|---|
| CertifyDuringReset | certified during the safety snapshot, wiped after it | 6346 "Refuse to wipe a certified election" |
| BulkBallots | `/vote-bulk` dates an event and then stamps its `_id` from a later reading of the clock; across a bucket's end the `_id` is folded too early and hides later ballots (`ChainVerifies` fails there as well) | 1870 "can never land behind a checkpoint's to_id" |

The others are stated as properties in their modules and no run checks them; TLC finds each violated when it is added to
the run of its module (with the values named, where they differ).

| property | what happens |
|---|---|
| `CodeOpensItsOwnRound` (VotingRounds, 4956) | the session is stamped with the round read at 4987, after awaits; the code was checked against the one read at 4953 |
| `NoBallotBeforeScheduled` without `schedule.round = b` (9433) | a voter logs in, the by-election becomes the active round, the voter's ballot is filed under it (5030); the phases of Round 1 are saved again, so its window passes the ballot (5054, 3598); it is recorded in a by-election without a window |
| `ReserveKept` without `~outdated` (SmsBudget, 4376) | a re-send passes the reserve on a counter read before the voters who wait are counted; others spend the reserve in between |
| `NoBallotBeforeScheduled` with `Grantees` not empty (9433) | an exception grant stores its round and is looked up without it (3510) |
| `NoMarkWithoutBallot` (ElectionReset, 6390) | a session opened after the voters were unmarked casts a ballot that the reset deletes; the mark stays |
| `LastCodeStillValid` (SendLadder) | the cool-down outlives the code |
| `FailedCloseoutRetried`, `TieIsFlagged` (Vetting) | a hand-over that failed half way is not due again; a tie of two votes stored together is not flagged |
| `CancelledWasPending`, `ImportSparesProtected` (RosterChanges, 9958, 6911) | a cancellation overwrites a decision; an import removes whom another handler has just protected |
| `EditsNotLost`, `RecordsAttached`, `CodesAtCurrentPhone` (ContactChanges, 11426, 11452, 4292) | undo and roll-back write without comparing; records stored meanwhile stay at the old number |
| `StaleListIsMarked`, `SomeListCurrent` (CandidateList, 3059) | with two sweeps an outdated list takes the later number, or two supersede each other |
| `IncompleteIgnored` (TenantBackup, `backup.py:18`) | the restore plan reads the manifest of every incremental it lists and fails on one left without |
| `RecordedMeansRestorable` with two schedulers | they share one watermark document |
| `ReadyMeansMovedAlways` (Cutover) | a request admitted before the freeze writes after the final copy |
| `RetryQueuesFailedOnly` (SmsCampaign) | rows still pending are queued with the failed |
| `RestoredIsReadable` (NominationFiles) | a restore beside a purge of the same archived application |
| `BandIsGated`, `VisibleAtOnce` (ResultsRelease, 5776, 3809) | a band is told while voting is open; a read on its way back restores an older copy |
| `RefusedWhenOff`, `OwnSettingsKept` (DemoMode, 11755) | the same, of the demo's document; the clean-up of the next enable restores an old snapshot |
| `DemoSound` with two superadmins (DemoMode, 11767) | one prepares the vote between the step of the other's reset that restores the phases and its last; the demo's schedule stays after it is off |
| `LocksOnlyGrow`, `MeasuredFirst` (Milestones, `backup.py:640`, `898`) | a lock given while the release was unknown is longer than the one asked for later; leave given early replaces the report |
| `EntryInStep`, `OldLinksRevoked` (ApplicationEdits, 8921) | two editors' writes to application and entry cross; a link asked for before an edit is made after it |

Two more need no property. A ballot checked before the election is closed commits after it, since the transaction does not
read `election_config`. And `CertifiedIsNotLive` holds while one administrator acts at a time (`Casting`, one element of
`Admins`) and fails with two: toggle-election and toggle-certification each read the other's field before they write their
own, so opening and certifying at once leave an election that is both, against the comment at 6262. `assert_voting_allowed`
refuses ballots in that state.

The premises inside some properties name races the code leaves open: `GuessBucket.stale` (a bucket dropped and made again
has its first version's number), `SendLadder.crossed` (a tap that began before a reset), `ContactChanges.restored` and
`rewritten` (undo and roll-back compare nothing), `NominationFiles.InDoubt` (an insert that reports an error and happened),
`DemoMode.history` (late rows, a cached document), `SmsBudget.outdated` (above; found by the failed
proof of the shorter property, and by TLC once there are five voters), `Vetting.marks` (the superadmin's force decisions; a failed side effect).

## What is proved

Each theorem is about the module's own specification and holds for every value of its constants that its `ASSUME` allows:
any number of voters, processes, administrators, handlers and whatever else the module counts, any bounds. A further
hypothesis is written in the theorem and explained here. `tlapm` checks all of it to the last leaf.

**`VotingRoundsProofs`**

- `TypeCorrect`: `TypeOK` is inductive.
- `BallotsAlwaysKept` (`OneBallot`, `MarkedExactly`) follows from `MarksInvariant`: for each round and voter, either no mark
  and no ballot or a mark and exactly one. "At most one" is not inductive by itself, the claim tests the mark and not the
  ballots. Only `CommitBallot` changes marks or ballots (`OnlyCommitRecords`), it tests the mark, and it sets both.
- `NewestSession`: a token in use was minted, and the stored token is the newest one or none (`Sessions`).
- with `~MayFail` (a by-election's schedule can be written): `RoundsInUse`, inductive because rounds are then never deleted
  once anyone can name them (`RoundsKept`); `ByElectionBallotsAlwaysKept` (`SlateRespected`, `EligibleOnly`), from `BoxInv`,
  which adds that what a request read of its round still holds when it commits (`RequestsRead`) and that a round that does
  not exist has no ballot (`UnannouncedEmpty`); and `Implements`, `Spec => KeepsTheBallotBox`: inserting a round maps to
  `Announce`, committing a ballot to `Cast`, every other step stutters.

`~MayFail` is needed: when a schedule write fails while a second administrator has already scheduled the new round, the
roll-back (9458-9461) deletes a round that may hold ballots. With one administrator TLC checks the refinement with
failing writes (run `ByElection`).

**`ElectionProofs`**, on `VotingRounds` and `ElectionReset`

- `ResetTypeCorrect`: the voting's types are kept by the steps of the reset as well.
- `NoSecondBallot`: except between the step that unmarks the voters and the one that deletes the ballots, every ballot is
  its voter's only one and marked (`BallotsMarked`). `MarksInvariant` itself does not survive a reset: a session opened
  between the two steps leaves a mark without a ballot.
- `TiesResolvedOnce`, whatever fails and however many administrators: `ResolveInv` says of each by-election where it is on
  the way from the inserted round to the claimed tie, and that the handler holding it is the only one (`create_by_election`
  makes a new id); the claim's test of the tie's status does the rest.
- `CertifiedStaysClosed`, with one administrator at a time and while no by-election exists: what the one handler read of the
  switches still holds when it writes (`ReadsHold`), and every process's cache names Round 1 (`OnlyRoundOne`). Both
  hypotheses are needed: two administrators make an election that is live and certified (see above), and saving Round 1's
  phases again after a by-election reopens it.
- `ByElectionWaits`, with one process, no exception grants and enforced windows (`Waits`): a by-election nobody has switched
  to is unknown to schedule, requests and ballots (`Unseen`); once it is the active round and until its window is set, the
  window is shut and no request has passed its check (`Shut`). With two processes a stale cache lets a ballot through, a
  grant does (9433), and a window that is not enforced always does.

**`AuditChainProofs`**

- `ChainTypeCorrect`, `ChainAlwaysOrdered`: the two unique indexes alone keep the checkpoints one line without a gap, and
  every anchor one of them, however many workers overlap or die. What a worker holds was the head, or still is, when it read.
- `NothingToReport`: `ChainSound`, of which the main part is that while every ballot came by `/vote`,
  `ChainVerifies /\ NoBallotSkipped`. The invariant (`SealInv`) says that an `_id` lies in the bucket of the time stored beside it (`Dated`), that a fold and a checkpoint hold all events
  between their ends (`FoldWhole`, `CheckpointsWhole`), and that nothing at or after the seal was folded; a transaction
  lives no longer than the grace, so what it commits lies after the seal. One ballot by `/vote-bulk` is enough to break it
  (run `BulkBallots`). The figures of the report agree (`CountInv`): an insert adds the events it folded to the
  counts and takes the same from those still uncovered.

**`RosterProofs`**, on `CandidateList`, `RosterChanges` and `ContactChanges`

- `ListsAlwaysOrdered`: distinct numbers from the unique index; and every list but the last inserted that is current has an
  issuer who still has to supersede it (`SomeoneSupersedes`).
- `RequestsAppliedOnce` and the action properties of `RosterStepsSound`: a desk that holds the claim on a request is alone
  with it (`FormHeld`), and a voter the roster never had was not removed from it (`NothingOffRoster`).
  Both assume that there is a voter.
- `ContactsHold`, from `ContactInv`: who claimed a correction is alone with it, and one that nobody
  holds was applied once if it was approved and never otherwise (`RequestKept`); two voters with one number are a state somebody has still to recheck or to roll
  back, unless a number was given back (`NumberKept`, `Settles`); a code still live at a former phone is about to be
  forgotten by whoever changed it (`CodeKept`, `Forgets`). `ContactsTyped` adds that only corrections of numbers re-file
  a voter's records (`ContactBounds`).

**`RosterLedgerProofs`**

- `LedgerAlwaysSound` (`LedgerAlwaysVerifies`, `AnchorsAlwaysStand`, `NoEntryDroppedUnraced`) from `LedgerInv`: the sequence
  numbers have no gap, each entry carries the hash of the one before it, what a writer read of the head was the head then,
  and every lost race is another writer's entry.

**`ServicesProofs`**, on the eight components `MCServices` adds to the audit chain

- `BucketNeverOverdrawn`: while no guess was paid against a dropped document, each run of payments and the tokens left fit
  into a full bucket and the refill since its first (`Covers`), and a handler that read the present version holds no more
  than its tokens, refilled (`Holds`).
- `LadderHolds`, from `LadderInv`: at most one request begun since the last reset is at the gateway, the document is the slot
  it took, and the slot cools down for longer than a request lasts (`OneSlot`, `LadderAssumption`). So codes are a wait apart
  (`SentApart`), and a day holds no more than the ceiling because its codes map one-to-one to the sends the document
  remembers (`SentFew`).
- `CodesStayGuarded` puts the two together (`CodesGuarded`).
- `CampaignHolds`, from `CampaignInv`: a row is in the hands of one process (`Apart`), a row in hand says "sending" unless a
  process died with it, and the counters together with what each process has still to tell are the rows, the answers not
  written and those queued again (`CountsKept`).
- `BudgetAlwaysKept`: each request under way may be counted `SmsPerCode` times, those still to come are in `Owing`, and with
  them the counter never exceeds the bound (`SpendingCovered`); each re-send on its way takes one from the reserve
  (`ReserveCovers`); a threshold that was passed and did not fire is in a request's hands (`ThresholdsInHand`). The proof
  failed at first: the reserve is not kept when a re-send passes on an old reading of the counter. `outdated` records that.
- `MirrorHolds`: between syncs the copy is what the remembered digest says, and within one what was copied is what the digest
  read at its start says unless the source moved (`CopyKept`); an event the mirror lacks lies within the overlap of the
  watermark (`EventsKept`), as an insert is late, and a sync slow, by no more than that.
- `CutoverHolds`: while the freeze holds and nothing slipped past it the source rests (`SourceRests`), and what the final pass
  has behind it is moved (`FinalKept`). `CopiesHold` is both (`CopiesTrusted`).
- `BackupsHold`, with one scheduler (`OneScheduler`; `backup.py:694-704` says so of the routine calls, and two break it): a
  ballot is late by at most the overlap, so none is stepped over by the watermark, and what a base or an increment names is
  in its files.
- `RestoreTestsHold`: a checkpoint in an archive has its ballot beside it or the ballot was deleted (`Sealed`); ballots in
  archives are live or deleted (`Traced`); what a test has loaded and has still to load make up its plan (`TestRunKept`); and
  two tests on the scratch cluster both know that they share it (`Crowding`). `RestorableAndTested` is both (`BackupsRestore`).
- `ServicesTypeCorrect` (`ServicesTypeOK`), with one scheduler.

**`AccessProofs`**, on the seven components of `MCAccess`

- `NobodySlipsIn`, from `SessionsHold`, `RevokedStayOut` and `LimitsHold`. `SessionInv`: a token's role and proof follow from
  its root, no stamp lies ahead, whoever replies with a new hat has given the old one up. `CacheInv`: what a process remembers
  as not revoked was asked before the revocation ended, so it runs out within the TTL (`AskedBefore`, `AnswersAge`).
  `LimitInv` counts, for each counter, the logins that have guessed and are not counted (`UncountedLogins`), those about to lock
  it and those past its gate; each move of a login takes it from one of these sets to the next.
- `EditsHold`: the changes of identity end at the id the application has (`LeadsTo`).
- `FormsHold`: `NominationInv` says who holds a file (`HeldBy`: the submission that claimed it, then its application), that it
  is one only (`HeldOnce`) and the file readable unless its fate is in doubt (`HoldingKept`), and that the sweep has only
  files too old to be claimed (`FileKept`).
- `ReleaseHolds`: a copy still good is of the setting in force or runs out within the TTL of the change (`CopyFits`), a kept
  answer is of its kind and recent (`ResultFits`), and what a poll read is right unless it came too early (`PollFits`).
- `DemoKept` for any number of superadmins, from `DemoInv`; `DemoHolds` with one: `CleanInv` adds that the demo is on while
  its steps run, that every process knows an expired demo as it stands (`ExpiredKnown`) and that no snapshot to be restored is
  the demo's own (`DocsUnmarked`). With two superadmins it fails (table above).
- `AccessTypeCorrect` (`AccessTypeOK`): most types need the invariant of their component. A counter of logins stays under its
  limit because the logins that have guessed and are not counted are among the guesses (`LimitBounds`); a copy of a setting has a
  value of its own document (`ReleaseBounds`); clocks and histories stay under their caps (`SessionBounds`, `FormBounds`,
  `DemoBounds`).

**`OfficeProofs`**, on the other components of `MCOffice`, and on their sum

- `VettingHolds`, from `VettingInv`: one handler at a time sees an approval through, because the flip of the status is guarded by
  the status (`OneApproves`); what is approved is on the ballot with a certificate, or that handler is about to put it there or
  to undo it (`ApprovalComplete`); while the window is open somebody looks again at votes that decide (`MajorityIsSeen`); and
  what is handed over waits for the Chair (`HandedOrDue`). Each excepts what the superadmin forces or what failed half way, as
  far as the property does (`marks`).
- `UsageHolds`, from `UsageInv`: what is stored, buffered, in flight and lost adds up for each key to what was counted
  (`CountedOnce`); a process that is down holds nothing (`FlightsKept`); what is copied of a document never exceeds it
  (`CopyKept`); while no two flushes overlapped, what is in flight is what the bound on memory counts (`MemoryKept`); and after
  one switch without a failed write the new store counts nothing from before it (`SwitchKept`).
- `MilestonesHold`, from `MilestoneInv`: what a call has still to do is part of what turned, the certification last
  (`TodoKept`); the turns that were recorded, with those the call has behind it, are no more than the whole snapshots of their
  kind (`OwedKept`); and once a certification is recorded its snapshot and all before it are locked for a year after it, those
  the call has still to extend excepted (`CoverKept`).
- `MonitorHolds` and `WatchHolds` assume `Punctual`: the gaps between calls, samples and probes, counted in ticks, fit into the
  limits that are alarmed on. `put_config` accepts any positive `mirror_lag`, so without the assumption the monitor reports
  lateness that is none. In ticks of three minutes the code's values (calls 5 apart, probes and mirror 10, lag 20, silence 15)
  satisfy it, and so do those of `Office.cfg`.
- `OfficeTypeCorrect` (`OfficeTypeOK`), as long as there is a voter (`Voters # {}`, as in `RequestsAppliedOnce`); numbers of
  candidates and of certificates are those of approvals (`VettingBounds`).
- `OfficeHolds` and `OfficeWatches` state the parts of the sum: every component of a behaviour of `MCOffice` follows its own
  specification (`EachOfficePart`), so what is proved of it holds there. `MCServices` and `MCAccess` are composed alike
  (`EachRuns`, `EachPartRuns`).

TLC checks the same definitions as are proved about. The proofs changed a few of them: a tally whose CASE arms overlapped,
where the code has an order and TLA+ leaves the choice open, and sets in place of sequences where no order was lost (a test's
files, whose order is `FileBefore`; the sends a document remembers).

### Assumptions

Bounds of runs are natural numbers and, where a clock must tick, at least 1. Identities kept in finite sets are finite where a
cardinality or a sum is taken of them (rows, servers, logins, panel, names and days of usage). Of the code's own constants: a rung
of the ladder is longer than a request; an insert is late by at most the overlap of the backup (`BackupAssumption`), and
with the time a sync reads events by at most that of the mirror (`MirrorAssumption`): 120 s (`backup.py:95`,
`backup_mirror.py:24`), where MongoDB ends a transaction after 60 s; a transaction lives no longer than the grace of the chain. Documents of a
restore have numbers from 1 on. TLC evaluates each of them on the runs. What an `ASSUME` does not cover is a hypothesis of the
theorem and named with it above: `~MayFail`, one administrator, `Waits`, `OneScheduler`, one superadmin, `Punctual`, `Voters # {}`.

### What stays with TLC

Liveness (the run `Progress`): the prover has no rule for fairness here, nor for ENABLED. The refinement with a failing schedule
write and one administrator. Induction over data is out of the provers' reach as well; what would need it (sums of counters,
ceilings on sequences) is stated of sets and functions instead, by injections and by one-step facts on cardinalities. Every
invariant and every action property a run checks is stated by a theorem, some under the hypotheses named.

## Not modelled

Deleting voters or candidates during an election; the cut-off tie of a position with several seats; the legacy limiter
(`OTP_LIMITER_MODE=legacy`); rounds created outside a tie; captcha, message texts, receipts, archive formats; the live
restore over an existing database; view-as sessions; the trim of the revocation cache. `tenant_db.py` filters every query by
organisation and keeps no state. Imports' parsing, name matching and performance metrics have no state a step of another
actor could disturb. The web client is not modelled: requests may arrive in any order with any token, which includes what it
does.
