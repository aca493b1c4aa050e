---------------------------- MODULE VotingRounds ----------------------------
(***************************************************************************)
(* The voting core of src/backend/main.py for one organisation: a voter    *)
(* identifies, confirms a code and casts a ballot, while administrators    *)
(* open, close, certify and schedule the election and order by-elections.  *)
(*                                                                         *)
(* Handlers are async functions: each `await` on the database or on the    *)
(* SMS gateway is a point where every other handler may run.  A voter's    *)
(* handler is therefore a request that moves through the steps named by    *)
(* its pc; an administrator's handler that reads before it writes is a     *)
(* task with a pending write.  The ballot itself is written in one MongoDB *)
(* transaction, which conflicts with every other write of the voter's      *)
(* document and is one step here.                                          *)
(*                                                                         *)
(* Deleting candidates and voters and the reset of a whole election are    *)
(* not in this module (ElectionReset adds the reset).                      *)
(***************************************************************************)
EXTENDS Naturals, Sequences, FiniteSets

CONSTANTS
    Voters,        \* rows of the voters collection
    Candidates,    \* rows of the candidates collection
    Positions,     \* positions voted for
    PositionOf,    \* PositionOf[c]: the position candidate c runs for
    RoundOne,      \* DEFAULT_ROUND_ID
    ByElections,   \* ids a by-election may draw, "by-election-" + random hex
    Instances,     \* server processes, each with its own settings cache
    Requests,      \* voter requests that may be in progress at once
    Admins,        \* administrator requests that may be in progress at once
    Windows,       \* voting windows an administrator may schedule
    Grantees,      \* voters who may be granted an exception
    MayFail,       \* whether the database may refuse a by-election's schedule
    MaxTime,       \* bound: the clock stops there
    MaxSessions,   \* bound: sessions one voter may open
    None           \* an absent value

Rounds == {RoundOne} \cup ByElections
Rules  == {"all_registered", "round1_voters"}

(* A voting window.  Unenforced is open for ever; Closed is the zero-length *)
(* window in the past that create_by_election gives a new round.            *)
Closed     == [from |-> 0, to |-> 0]
Unenforced == [from |-> 0, to |-> MaxTime + 1]
AllWindows == Windows \cup {Closed, Unenforced}

ASSUME ConstantsAssumption ==
    /\ RoundOne \notin ByElections
    /\ None \notin Voters \cup Rounds \cup Instances \cup Positions
    /\ None \notin [rule : Rules, slate : SUBSET Candidates]
    /\ PositionOf \in [Candidates -> Positions]
    /\ MaxTime \in Nat /\ MaxTime > 0
    /\ MaxSessions \in Nat
    /\ Windows \subseteq {w \in [from : 1..MaxTime, to : 1..MaxTime] : w.from <= w.to}
                          \cup {Unenforced}
    /\ Grantees \subseteq Voters
    /\ MayFail \in BOOLEAN

VARIABLES
    now,         \* the wall clock
    voters,      \* voters: who has voted, and the session of the latest login
    minted,      \* minted[v]: how many sessions verify_otp opened for v
    otps,        \* otps[v]: the round of v's stored code, or None
    grants,      \* voters with a live exception grant for the "voting" phase
    config,      \* settings "election_config"
    schedule,    \* settings "election_phases": active round and voting window
    cache,       \* cache[i]: what instance i holds of these two documents
    rounds,      \* the rounds collection
    ties,        \* ties[r][p]: the tie record of round r and position p
    ballots,     \* ballots[r][v]: ballots recorded in r by v's transactions
    requests,    \* voter requests in progress
    tasks        \* administrator requests between their reads and their write

vars == <<now, voters, minted, otps, grants, config, schedule, cache, rounds,
          ties, ballots, requests, tasks>>
electionVars == <<config, schedule, cache, rounds, ties>>
voterVars    == <<voters, minted, otps, grants>>

-----------------------------------------------------------------------------
(* Types *)

(* One ballot: what /vote (a single candidate) or /vote-bulk (at most one   *)
(* candidate per position) inserts.  vote_events stores no voter, so that   *)
(* ballots[r][v] lists them under v is an attribution of the model's own.   *)
BallotPapers ==
    {picks \in SUBSET Candidates :
        /\ picks # {}
        /\ \A c, d \in picks : PositionOf[c] = PositionOf[d] => c = d}

Schedules == [round : Rounds, window : AllWindows]

VoterDoc == [voted       : SUBSET Rounds,      \* voted_rounds, has_voted
             last_status : {"idle", "otp_sent", "authenticated", "completed"},
             vote_jti    : 0..MaxSessions,     \* 0: unset
             auth_round  : Rounds]             \* auth_round_id, absent: round 1

RoundDoc == [status       : {"absent", "scheduled", "closed", "certified", "deleted"},
             window       : AllWindows,
             schedule_set : BOOLEAN,
             rule         : Rules,
             candidates   : SUBSET Candidates]

TieDoc == [status : {"absent", "pending", "by_election_ordered"},
           candidates : SUBSET Candidates,
           by_election : ByElections \cup {None}]

Request == [pc    : {"idle", "sms", "compare", "check", "commit"},
            voter : Voters \cup {None},
            instance : Instances \cup {None},
            round : Rounds \cup {None},
            live  : BOOLEAN,                 \* verify_identity re-sends a code
            jti   : 0..MaxSessions,          \* the token a ballot came with
            picks : SUBSET Candidates,
            rule  : Rules \cup {None}]       \* of the round as it was read

Task == [op       : {"idle", "toggle", "certify", "insert_round", "switch_round"},
         instance : Instances \cup {None},
         value    : BOOLEAN,
         round    : Rounds \cup {None},
         position : Positions \cup {None},
         rule     : Rules \cup {None}]

NoRequest == [pc |-> "idle", voter |-> None, instance |-> None, round |-> None,
              live |-> FALSE, jti |-> 0, picks |-> {}, rule |-> None]
NoTask    == [op |-> "idle", instance |-> None, value |-> FALSE, round |-> None,
              position |-> None, rule |-> None]
NoRound   == [status |-> "absent", window |-> Closed, schedule_set |-> FALSE,
              rule |-> "all_registered", candidates |-> {}]
NoTie     == [status |-> "absent", candidates |-> {}, by_election |-> None]

VoterTypeOK ==
    /\ voters \in [Voters -> VoterDoc]
    /\ minted \in [Voters -> 0..MaxSessions]
    /\ otps \in [Voters -> Rounds \cup {None}]
    /\ grants \subseteq Voters

ElectionTypeOK ==
    /\ now \in 1..MaxTime
    /\ config \in [is_open : BOOLEAN, is_certified : BOOLEAN]
    /\ schedule \in Schedules
    /\ cache \in [Instances -> [schedule : Schedules, is_open : BOOLEAN]]
    /\ rounds \in [Rounds -> RoundDoc]
    /\ ties \in [Rounds -> [Positions -> TieDoc]]

BallotTypeOK == ballots \in [Rounds -> [Voters -> Seq(BallotPapers)]]

RequestTypeOK ==
    /\ requests \in [Requests -> Request]
    /\ \A q \in Requests : requests[q].pc # "idle" =>
          /\ requests[q].voter \in Voters
          /\ requests[q].instance \in Instances
          /\ requests[q].round \in Rounds
    /\ \A q \in Requests : requests[q].pc \in {"check", "commit"} =>
          requests[q].picks \in BallotPapers

TaskTypeOK ==
    /\ tasks \in [Admins -> Task]
    /\ \A a \in Admins :
          /\ tasks[a].op # "idle" => tasks[a].instance \in Instances
          /\ tasks[a].op = "certify" => tasks[a].round \in Rounds
          /\ tasks[a].op = "insert_round" =>
                tasks[a].position \in Positions /\ tasks[a].rule \in Rules
          /\ tasks[a].op = "switch_round" =>
                tasks[a].position \in Positions /\ tasks[a].round \in ByElections

TypeOK == /\ VoterTypeOK /\ ElectionTypeOK /\ BallotTypeOK
          /\ RequestTypeOK /\ TaskTypeOK

-----------------------------------------------------------------------------
(* What the handlers compute *)

(* round_id of the cached schedule: current_round_id on instance i. *)
CurrentRound(i) == cache[i].schedule.round

IsOpenAt(w)     == w.from <= now /\ now <= w.to
WindowEnded(w)  == now > w.to
NotStarted(w)   == now < w.from

(* assert_phase_open(request, "voting", v): the cached window, or a grant.  *)
(* has_exception_grant does not look at the round the grant was given in.   *)
VotingPhaseOpen(i, v) == IsOpenAt(cache[i].schedule.window) \/ v \in grants

HasVotedInRound(v, r) == r \in voters[v].voted

(* limited to voters who participated in Round 1 *)
Eligible(v, rule) == rule = "round1_voters" => HasVotedInRound(v, RoundOne)

RoundExists(r) == rounds[r].status \notin {"absent", "deleted"}

RuleOf(r) == IF r # RoundOne /\ RoundExists(r) THEN rounds[r].rule ELSE None

(* Faulty: any registered candidate may be voted for in any round.          *)
RoundCandidateUnchecked(picks, r) == picks \subseteq Candidates

(* _round_candidate_allowed: a round document that is missing allows all. *)
RoundCandidateAllowed(picks, r) ==
    r = RoundOne \/ ~RoundExists(r) \/ picks \subseteq rounds[r].candidates

(* _round_is_ended on instance i: the master switch and the window of the  *)
(* active round, the status and the stored window of any other round.      *)
RoundIsEnded(i, r) ==
    LET active == cache[i].schedule
    IN  IF r = active.round
        THEN /\ ~NotStarted(active.window)
             /\ ~cache[i].is_open \/ WindowEnded(active.window)
        ELSE /\ RoundExists(r)
             /\ \/ rounds[r].status \in {"closed", "certified"}
                \/ WindowEnded(rounds[r].window)

(* get_vote_counts: the events of round r for candidate c. *)
Votes(r, c) ==
    Cardinality(UNION {{<<v, n>> : n \in {k \in DOMAIN ballots[r][v] :
                                            c \in ballots[r][v][k]}} : v \in Voters})

(* The candidates that share the highest positive count of a position. *)
TopTied(slate, r, p) ==
    LET running == {c \in slate : PositionOf[c] = p}
        top == {c \in running : \A d \in running : Votes(r, d) <= Votes(r, c)}
    IN  IF Cardinality(top) >= 2 /\ \A c \in top : Votes(r, c) > 0 THEN top ELSE {}

(* What an instance reads when its cached copies have gone. *)
Fresh(cfg, sch) == [schedule |-> sch, is_open |-> cfg.is_open]

-----------------------------------------------------------------------------
Init ==
    /\ now = 1
    /\ voters = [v \in Voters |-> [voted |-> {}, last_status |-> "idle",
                                   vote_jti |-> 0, auth_round |-> RoundOne]]
    /\ minted = [v \in Voters |-> 0]
    /\ otps = [v \in Voters |-> None]
    /\ grants = {}
    /\ config = [is_open |-> TRUE, is_certified |-> FALSE]
    /\ schedule \in [round : {RoundOne}, window : Windows]
    /\ cache = [i \in Instances |-> [schedule |-> schedule, is_open |-> TRUE]]
    /\ rounds = [r \in Rounds |-> NoRound]
    /\ ties = [r \in Rounds |-> [p \in Positions |-> NoTie]]
    /\ ballots = [r \in Rounds |-> [v \in Voters |-> <<>>]]
    /\ requests = [q \in Requests |-> NoRequest]
    /\ tasks = [a \in Admins |-> NoTask]

-----------------------------------------------------------------------------
(* /verify-identity *)

(* Every check before the SMS goes out, on cached settings and on one read  *)
(* of the voter; `live`: a code of this round exists and has not expired.   *)
VerifyIdentity(q, v, i) ==
    LET round == CurrentRound(i)
    IN  /\ requests[q].pc = "idle"
        /\ cache[i].is_open
        /\ VotingPhaseOpen(i, v)
        /\ ~HasVotedInRound(v, round)
        /\ Eligible(v, RuleOf(round))
        /\ \E live \in {otps[v] = round, FALSE} :
              requests' = [requests EXCEPT ![q] =
                  [NoRequest EXCEPT !.pc = "sms", !.voter = v, !.instance = i,
                                    !.round = round, !.live = live]]
        /\ UNCHANGED <<now, voterVars, electionVars, ballots, tasks>>

(* The gateway accepted the message, or may have: the code becomes valid.   *)
(* last_status is overwritten whatever it became during the send.           *)
CodeSent(q) ==
    LET v == requests[q].voter
    IN  /\ requests[q].pc = "sms"
        /\ otps' = IF requests[q].live THEN otps
                   ELSE [otps EXCEPT ![v] = requests[q].round]
        /\ voters' = [voters EXCEPT ![v].last_status = "otp_sent"]
        /\ requests' = [requests EXCEPT ![q] = NoRequest]
        /\ UNCHANGED <<now, minted, grants, electionVars, ballots, tasks>>

CodeNotSent(q) ==
    /\ requests[q].pc = "sms"
    /\ requests' = [requests EXCEPT ![q] = NoRequest]
    /\ UNCHANGED <<now, voterVars, electionVars, ballots, tasks>>

-----------------------------------------------------------------------------
(* /verify-otp *)

(* A code of another round, or one past CODE_TTL_MINUTES, is deleted; codes *)
(* may be that old at any time.                                             *)
RejectCode(v) ==
    /\ otps[v] # None
    /\ otps' = [otps EXCEPT ![v] = None]
    /\ UNCHANGED <<now, voters, minted, grants, electionVars, ballots, requests, tasks>>

(* The stored code belongs to the round that is active now; the guess is    *)
(* paid for before the code is compared.                                    *)
VerifyOtp(q, v, i) ==
    /\ requests[q].pc = "idle"
    /\ otps[v] = CurrentRound(i)
    /\ requests' = [requests EXCEPT ![q] =
           [NoRequest EXCEPT !.pc = "compare", !.voter = v, !.instance = i,
                             !.round = otps[v]]]
    /\ UNCHANGED <<now, voterVars, electionVars, ballots, tasks>>

(* The right code: a new session, for the round that is active by now.      *)
OpenSession(q) ==
    LET v == requests[q].voter
    IN  /\ requests[q].pc = "compare"
        /\ minted[v] < MaxSessions
        /\ minted' = [minted EXCEPT ![v] = @ + 1]
        /\ voters' = [voters EXCEPT
               ![v].last_status = "authenticated",
               ![v].vote_jti    = minted[v] + 1,
               ![v].auth_round  = CurrentRound(requests[q].instance)]
        /\ otps' = [otps EXCEPT ![v] = None]
        /\ requests' = [requests EXCEPT ![q] = NoRequest]
        /\ UNCHANGED <<now, grants, electionVars, ballots, tasks>>

WrongCode(q) ==
    /\ requests[q].pc = "compare"
    /\ requests' = [requests EXCEPT ![q] = NoRequest]
    /\ UNCHANGED <<now, voterVars, electionVars, ballots, tasks>>

-----------------------------------------------------------------------------
(* /vote and /vote-bulk *)

(* Faulty: a ballot may be blank, or name two candidates for one position.  *)
SubmitAnyPaper(q, v, i) ==
    /\ requests[q].pc = "idle"
    /\ \E jti \in 1..minted[v], picks \in SUBSET Candidates :
          requests' = [requests EXCEPT ![q] =
              [NoRequest EXCEPT !.pc = "check", !.voter = v, !.instance = i,
                                !.round = CurrentRound(i), !.jti = jti, !.picks = picks]]
    /\ UNCHANGED <<now, voterVars, electionVars, ballots, tasks>>

(* A ballot arrives with any token the voter was ever given: an old tab, a  *)
(* double tap, a retry after a lost answer.                                 *)
SubmitBallot(q, v, i) ==
    /\ requests[q].pc = "idle"
    /\ \E jti \in 1..minted[v], picks \in BallotPapers :
          requests' = [requests EXCEPT ![q] =
              [NoRequest EXCEPT !.pc = "check", !.voter = v, !.instance = i,
                                !.round = CurrentRound(i), !.jti = jti, !.picks = picks]]
    /\ UNCHANGED <<now, voterVars, electionVars, ballots, tasks>>

(* assert_voting_allowed: election_config from the database, the schedule   *)
(* from the cache, so its round may differ from the one read on arrival.    *)
VotingAllowed(i, v) ==
    /\ config.is_open
    /\ IF CurrentRound(i) = RoundOne
       THEN ~config.is_certified
       ELSE RoundExists(CurrentRound(i)) /\ rounds[CurrentRound(i)].status # "certified"
    /\ VotingPhaseOpen(i, v)

CheckBallot(q) ==
    LET req == requests[q]
    IN  /\ req.pc = "check"
        /\ requests' = [requests EXCEPT ![q] =
               IF /\ VotingAllowed(req.instance, req.voter)
                  /\ RoundCandidateAllowed(req.picks, req.round)
               THEN [req EXCEPT !.pc = "commit", !.rule = RuleOf(req.round)]
               ELSE NoRequest]
        /\ UNCHANGED <<now, voterVars, electionVars, ballots, tasks>>

(* Faulty: the claim does not ask whether the voter has voted.              *)
MayClaimAgain(req) ==
    LET voter == voters[req.voter]
    IN  /\ req.round = voter.auth_round
        /\ Eligible(req.voter, req.rule)
        /\ voter.last_status = "authenticated"
        /\ voter.vote_jti = req.jti

(* Faulty: any of the voter's tokens will do while a session is open.       *)
MayClaimWithOldToken(req) ==
    LET voter == voters[req.voter]
    IN  /\ req.round \notin voter.voted
        /\ req.round = voter.auth_round
        /\ Eligible(req.voter, req.rule)
        /\ voter.last_status = "authenticated"

(* Faulty: eligibility is left to the check made at /verify-identity.       *)
MayClaimUnlisted(req) ==
    LET voter == voters[req.voter]
    IN  /\ req.round \notin voter.voted
        /\ req.round = voter.auth_round
        /\ voter.last_status = "authenticated"
        /\ voter.vote_jti = req.jti

(* The conditions of the claim and of _voter_gate on the voter's document.  *)
MayClaim(req) ==
    LET voter == voters[req.voter]
    IN  /\ req.round \notin voter.voted
        /\ req.round = voter.auth_round
        /\ Eligible(req.voter, req.rule)
        /\ voter.last_status = "authenticated"
        /\ voter.vote_jti = req.jti

(* Faulty: the ballot is inserted and the session ended, but not the mark.  *)
RecordUnmarked(q, r) ==
    LET v == requests[q].voter
    IN  /\ voters' = [voters EXCEPT ![v].last_status = "completed", ![v].vote_jti = 0]
        /\ ballots' = [ballots EXCEPT ![r][v] = Append(@, requests[q].picks)]

(* The transaction: the voter is marked and the ballot inserted together.   *)
RecordBallot(q, r) ==
    LET v == requests[q].voter
    IN  /\ voters' = [voters EXCEPT
               ![v].voted       = @ \cup {r},
               ![v].last_status = "completed",
               ![v].vote_jti    = 0]
        /\ ballots' = [ballots EXCEPT ![r][v] = Append(@, requests[q].picks)]

(* Faulty: the round is looked up again for the ballot, after the checks.   *)
CommitToActiveRound(q) ==
    /\ requests[q].pc = "commit"
    /\ MayClaim(requests[q])
    /\ RecordBallot(q, CurrentRound(requests[q].instance))
    /\ requests' = [requests EXCEPT ![q] = NoRequest]
    /\ UNCHANGED <<now, minted, otps, grants, electionVars, tasks>>

CommitBallot(q) ==
    /\ requests[q].pc = "commit"
    /\ MayClaim(requests[q])
    /\ RecordBallot(q, requests[q].round)
    /\ requests' = [requests EXCEPT ![q] = NoRequest]
    /\ UNCHANGED <<now, minted, otps, grants, electionVars, tasks>>

RejectBallot(q) ==
    /\ requests[q].pc = "commit"
    /\ ~MayClaim(requests[q])
    /\ requests' = [requests EXCEPT ![q] = NoRequest]
    /\ UNCHANGED <<now, voterVars, electionVars, ballots, tasks>>
-----------------------------------------------------------------------------
(* /admin/toggle-election *)

(* Faulty: a certified round may be reopened.                               *)
ToggleAnyElection(a, i) ==
    /\ tasks[a].op = "idle"
    /\ tasks' = [tasks EXCEPT ![a] =
           [NoTask EXCEPT !.op = "toggle", !.instance = i, !.value = ~config.is_open]]
    /\ UNCHANGED <<now, voterVars, electionVars, ballots, requests>>

(* The roster freeze has a time to freeze at and an early stop gives its    *)
(* reason, so neither refuses the request.                                  *)
ToggleElection(a, i) ==
    /\ tasks[a].op = "idle"
    /\ ~config.is_open =>
          IF CurrentRound(i) = RoundOne THEN ~config.is_certified
          ELSE rounds[CurrentRound(i)].status # "certified"
    /\ tasks' = [tasks EXCEPT ![a] =
           [NoTask EXCEPT !.op = "toggle", !.instance = i, !.value = ~config.is_open]]
    /\ UNCHANGED <<now, voterVars, electionVars, ballots, requests>>

(* invalidate_settings reaches the writing instance only. *)
ToggleElectionWrite(a) ==
    LET task == tasks[a]
    IN  /\ task.op = "toggle"
        /\ config' = [config EXCEPT !.is_open = task.value]
        /\ cache' = [cache EXCEPT ![task.instance] = Fresh(config', schedule)]
        /\ tasks' = [tasks EXCEPT ![a] = NoTask]
        /\ UNCHANGED <<now, voterVars, schedule, rounds, ties, ballots, requests>>

-----------------------------------------------------------------------------
(* /admin/toggle-certification *)

Certified(r) == IF r = RoundOne THEN config.is_certified
                ELSE rounds[r].status = "certified"

ToggleCertification(a, i) ==
    LET round == CurrentRound(i)
    IN  /\ tasks[a].op = "idle"
        /\ round # RoundOne => RoundExists(round)
        /\ Certified(round) \/ ~config.is_open
        /\ tasks' = [tasks EXCEPT ![a] =
               [NoTask EXCEPT !.op = "certify", !.instance = i, !.round = round,
                              !.value = ~Certified(round)]]
        /\ UNCHANGED <<now, voterVars, electionVars, ballots, requests>>

(* Round 1 is certified in election_config, and in its round document when  *)
(* there is one; a by-election in its round document only.                  *)
ToggleCertificationWrite(a) ==
    LET task == tasks[a]
        r    == task.round
        status == IF task.value THEN "certified"
                  ELSE IF RoundIsEnded(task.instance, r) THEN "closed" ELSE "scheduled"
    IN  /\ task.op = "certify"
        /\ config' = IF r = RoundOne THEN [config EXCEPT !.is_certified = task.value]
                     ELSE config
        /\ rounds' = IF RoundExists(r) THEN [rounds EXCEPT ![r].status = status]
                     ELSE rounds
        /\ cache' = [cache EXCEPT ![task.instance] = Fresh(config, schedule)]
        /\ tasks' = [tasks EXCEPT ![a] = NoTask]
        /\ UNCHANGED <<now, voterVars, schedule, ties, ballots, requests>>

-----------------------------------------------------------------------------
(* _detect_ties_for_round: run by whoever looks at the results of a round   *)
(* that has ended.  The first look freezes Round 1's candidates; a tie is   *)
(* recorded once and never looked at again.                                 *)
DetectTies(i, r) ==
    LET snapshot == [status |-> IF config.is_certified THEN "certified" ELSE "closed",
                     window |-> cache[i].schedule.window, schedule_set |-> FALSE,
                     rule |-> "all_registered", candidates |-> Candidates]
        slate == IF r = RoundOne THEN Candidates ELSE rounds[r].candidates
    IN  /\ RoundIsEnded(i, r)
        /\ r # RoundOne => RoundExists(r)
        /\ rounds' = IF r = RoundOne /\ ~RoundExists(r)
                     THEN [rounds EXCEPT ![r] = snapshot] ELSE rounds
        /\ ties' = [ties EXCEPT ![r] = [p \in Positions |->
               IF @[p].status = "absent" /\ TopTied(slate, r, p) # {}
               THEN [status |-> "pending", candidates |-> TopTied(slate, r, p),
                     by_election |-> None]
               ELSE @[p]]]
        /\ <<rounds', ties'>> # <<rounds, ties>>
        /\ UNCHANGED <<now, voterVars, config, schedule, cache, ballots, requests, tasks>>

-----------------------------------------------------------------------------
(* /superadmin/by-elections *)

(* Only a tie of Round 1 may be taken to a by-election. *)
CreateByElection(a, i, p, rule) ==
    /\ tasks[a].op = "idle"
    /\ ties[RoundOne][p].status = "pending"
    /\ ties[RoundOne][p].by_election = None
    /\ RoundIsEnded(i, RoundOne)
    /\ tasks' = [tasks EXCEPT ![a] =
           [NoTask EXCEPT !.op = "insert_round", !.instance = i, !.position = p,
                          !.rule = rule]]
    /\ UNCHANGED <<now, voterVars, electionVars, ballots, requests>>

(* Faulty: the tie is not asked whether another request has taken it.       *)
TieIsThere(p) == ties[RoundOne][p].status # "absent"

TieIsFree(p) == /\ ties[RoundOne][p].status # "absent"
                /\ ties[RoundOne][p].by_election = None

(* The round is inserted and the tie claimed for it. *)
ClaimTie(a, b) ==
    LET p == tasks[a].position
    IN  /\ rounds' = [rounds EXCEPT ![b] =
               [status |-> "scheduled", window |-> Closed, schedule_set |-> FALSE,
                rule |-> tasks[a].rule, candidates |-> ties[RoundOne][p].candidates]]
        /\ ties' = [ties EXCEPT ![RoundOne][p].by_election = b,
                                ![RoundOne][p].status = "by_election_ordered"]
        /\ tasks' = [tasks EXCEPT ![a].op = "switch_round", ![a].round = b]

(* Faulty: the round is deleted and the request goes on with it.            *)
DeleteAndGoOn(a, b) ==
    /\ rounds' = [rounds EXCEPT ![b].status = "deleted"]
    /\ tasks' = [tasks EXCEPT ![a].op = "switch_round", ![a].round = b]
    /\ UNCHANGED ties

(* The tie was taken: the round is deleted again.                           *)
LoseTie(a, b) ==
    /\ rounds' = [rounds EXCEPT ![b].status = "deleted"]
    /\ tasks' = [tasks EXCEPT ![a] = NoTask]
    /\ UNCHANGED ties

(* Between inserting the round and claiming the tie only this request knows *)
(* the round's id, so the two writes are one step.                          *)
InsertByElection(a, b) ==
    /\ tasks[a].op = "insert_round"
    /\ rounds[b].status = "absent"
    /\ IF TieIsFree(tasks[a].position) THEN ClaimTie(a, b) ELSE LoseTie(a, b)
    /\ UNCHANGED <<now, voterVars, config, schedule, cache, ballots, requests>>

(* _write_phase_schedule, and invalidate_settings on the writing instance. *)
WriteSchedule(i, r, w) ==
    /\ schedule' = [round |-> r, window |-> w]
    /\ cache' = [cache EXCEPT ![i].schedule = schedule']

(* Faulty: the new round inherits the window of the round before it.        *)
SwitchInOldWindow(a) ==
    /\ tasks[a].op = "switch_round"
    /\ WriteSchedule(tasks[a].instance, tasks[a].round, schedule.window)
    /\ tasks' = [tasks EXCEPT ![a] = NoTask]
    /\ UNCHANGED <<now, voterVars, config, rounds, ties, ballots, requests>>

SwitchToByElection(a) ==
    /\ tasks[a].op = "switch_round"
    /\ WriteSchedule(tasks[a].instance, tasks[a].round, Closed)
    /\ tasks' = [tasks EXCEPT ![a] = NoTask]
    /\ UNCHANGED <<now, voterVars, config, rounds, ties, ballots, requests>>

(* The schedule cannot be written: the tie is pending again. *)
ByElectionFails(a) ==
    LET task == tasks[a]
    IN  /\ MayFail
        /\ task.op = "switch_round"
        /\ ties' = [ties EXCEPT ![RoundOne][task.position] =
               IF @.by_election = task.round
               THEN [@ EXCEPT !.by_election = None, !.status = "pending"] ELSE @]
        /\ rounds' = [rounds EXCEPT ![task.round].status = "deleted"]
        /\ tasks' = [tasks EXCEPT ![a] = NoTask]
        /\ UNCHANGED <<now, voterVars, config, schedule, cache, ballots, requests>>

-----------------------------------------------------------------------------
(* /admin/schedule/phases for round r; a request without a round_id is for  *)
(* Round 1.  Whatever round it names becomes the active one.                *)
SetPhaseSchedule(a, i, r, w) ==
    LET parent == rounds[RoundOne]
        real   == w # Closed /\ w # Unenforced
    IN  /\ tasks[a].op = "idle"
        /\ r # RoundOne =>
              /\ RoundExists(r)
              /\ rounds[r].status # "certified"
              /\ real /\ parent.window # Unenforced => w.from > parent.window.to
        /\ WriteSchedule(i, r, w)
        /\ rounds' = IF r = RoundOne THEN rounds
                     ELSE [rounds EXCEPT ![r].window = w, ![r].status = "scheduled",
                                         ![r].schedule_set = @ \/ real]
        /\ UNCHANGED <<now, voterVars, config, ties, ballots, requests, tasks>>

(* /superadmin/by-elections/{round_id}/reset-schedule *)
ResetByElectionSchedule(a, i, b) ==
    /\ tasks[a].op = "idle"
    /\ RoundExists(b)
    /\ rounds[b].status # "certified"
    /\ ~rounds[b].schedule_set
    /\ CurrentRound(i) = b
    /\ \A v \in Voters : ballots[b][v] = <<>>
    /\ WriteSchedule(i, b, Closed)
    /\ rounds' = [rounds EXCEPT ![b].window = Closed]
    /\ UNCHANGED <<now, voterVars, config, ties, ballots, requests, tasks>>

(* /admin/exception-grants for the "voting" phase, its revocation or expiry *)
GrantException(v) ==
    /\ v \notin grants
    /\ grants' = grants \cup {v}
    /\ UNCHANGED <<now, voters, minted, otps, electionVars, ballots, requests, tasks>>

EndException(v) ==
    /\ v \in grants
    /\ grants' = grants \ {v}
    /\ UNCHANGED <<now, voters, minted, otps, electionVars, ballots, requests, tasks>>

-----------------------------------------------------------------------------
(* The settings cache of instance i runs out (SETTINGS_CACHE_TTL_S). *)
CacheExpires(i) ==
    /\ cache[i] # Fresh(config, schedule)
    /\ cache' = [cache EXCEPT ![i] = Fresh(config, schedule)]
    /\ UNCHANGED <<now, voterVars, config, schedule, rounds, ties, ballots, requests, tasks>>

Tick ==
    /\ now < MaxTime
    /\ now' = now + 1
    /\ UNCHANGED <<voterVars, electionVars, ballots, requests, tasks>>

VoterNext ==
    \/ \E q \in Requests, v \in Voters, i \in Instances :
          VerifyIdentity(q, v, i) \/ VerifyOtp(q, v, i) \/ SubmitBallot(q, v, i)
    \/ \E q \in Requests :
          \/ CodeSent(q) \/ CodeNotSent(q) \/ OpenSession(q) \/ WrongCode(q)
          \/ CheckBallot(q) \/ CommitBallot(q) \/ RejectBallot(q)
    \/ \E v \in Voters : RejectCode(v)

AdminNext ==
    \/ \E a \in Admins, i \in Instances :
          \/ ToggleElection(a, i) \/ ToggleCertification(a, i)
          \/ \E p \in Positions, rule \in Rules : CreateByElection(a, i, p, rule)
          \/ \E r \in Rounds, w \in Windows : SetPhaseSchedule(a, i, r, w)
          \/ \E b \in ByElections : ResetByElectionSchedule(a, i, b)
    \/ \E a \in Admins :
          \/ ToggleElectionWrite(a) \/ ToggleCertificationWrite(a)
          \/ \E b \in ByElections : InsertByElection(a, b)
          \/ SwitchToByElection(a) \/ ByElectionFails(a)
    \/ \E i \in Instances, r \in Rounds : DetectTies(i, r)
    \/ \E v \in Grantees : GrantException(v) \/ EndException(v)

Next == VoterNext \/ AdminNext \/ Tick \/ \E i \in Instances : CacheExpires(i)

Spec == Init /\ [][Next]_vars
-----------------------------------------------------------------------------
(* Properties *)

(* No voter has two ballots in a round, however many requests, tokens and   *)
(* instances the voter's clicks are spread over (/vote, /vote-bulk).        *)
OneBallotPerRound ==
    \A r \in Rounds, v \in Voters : Len(ballots[r][v]) <= 1

(* A voter is marked as having voted in a round exactly when the round      *)
(* holds a ballot of theirs: turnout and tally agree, no vote is lost by a  *)
(* mark without a ballot and none is repeated by a ballot without a mark.   *)
MarkedIffBallot ==
    \A r \in Rounds, v \in Voters : r \in voters[v].voted <=> ballots[r][v] # <<>>

(* What the transaction of a ballot keeps (cast_vote, cast_bulk_vote): one  *)
(* ballot for a voter in a round, and the mark of exactly those who have    *)
(* one.                                                                     *)
BallotsKept == OneBallotPerRound /\ MarkedIffBallot

(* A by-election limited to Round 1 voters holds no ballot of anyone else,  *)
(* whichever round was active when the request arrived.                     *)
EligibleByElectionBallots ==
    \A b \in ByElections, v \in Voters :
        ballots[b][v] # <<>> /\ rounds[b].rule = "round1_voters"
            => ballots[RoundOne][v] # <<>>

(* A by-election's ballots name only the candidates whose tie it resolves.  *)
BallotsOnTheSlate ==
    \A b \in ByElections, v \in Voters : \A n \in DOMAIN ballots[b][v] :
        ballots[b][v][n] \subseteq rounds[b].candidates

(* What a by-election's ballot box holds is what the by-election announced: *)
(* ballots of those it is for, on the candidates it is between.             *)
ByElectionBallotsKept == BallotsOnTheSlate /\ EligibleByElectionBallots

(* Every by-election that exists resolves one tie of Round 1 and no two of  *)
(* them the same one, although create_by_election inserts the round before  *)
(* it claims the tie; and a tie that was claimed names a round that exists. *)
ByElectionsResolveTies ==
    /\ \A b \in ByElections : RoundExists(b) =>
          \E p \in Positions : /\ ties[RoundOne][p].by_election = b
                               /\ ties[RoundOne][p].candidates = rounds[b].candidates
    /\ \A p \in Positions :
          LET tie == ties[RoundOne][p]
          IN  /\ tie.status = "by_election_ordered" <=> tie.by_election # None
              /\ tie.by_election # None => RoundExists(tie.by_election)
              /\ \A o \in Positions \ {p} :
                    tie.by_election # None => ties[RoundOne][o].by_election # tie.by_election

(* Nothing acts on a round that is not there: not the stored schedule, not  *)
(* a cached copy of it however old, not a voter's request that began before *)
(* the switch, not the switch a by-election's creator is about to make.     *)
ExistingRounds == {RoundOne} \cup {b \in ByElections : RoundExists(b)}

RoundsInUseExist ==
    /\ schedule.round \in ExistingRounds
    /\ \A i \in Instances : CurrentRound(i) \in ExistingRounds
    /\ \A q \in Requests : requests[q].pc # "idle" => requests[q].round \in ExistingRounds
    /\ \A a \in Admins : tasks[a].op = "switch_round" => tasks[a].round \in ExistingRounds

(* Results that are final and binding belong to no live election.           *)
CertifiedIsNotLive ==
    ~(schedule.round = RoundOne /\ config.is_open /\ config.is_certified)

(* A by-election that has become the active round takes no ballot until its *)
(* own window is scheduled, whatever was under way when it was created: a   *)
(* code sent, a session opened, a ballot checked in the round before.       *)
NoBallotBeforeScheduled ==
    \A b \in ByElections, v \in Voters :
        schedule.round = b /\ ~rounds[b].schedule_set => ballots[b][v] = <<>>

(* A ballot is recorded only on the token of the voter's latest login, and  *)
(* no token ever casts two ballots, in one round or across rounds.          *)
NewestSessionOnly ==
    [][\A q \in Requests :
          requests[q].pc = "commit" /\ ballots' # ballots /\ requests'[q].pc = "idle" =>
              LET v == requests[q].voter
              IN  /\ requests[q].jti = minted[v]
                  /\ voters'[v].vote_jti = 0]_vars

(* A code issued in one round opens a session of that round only.           *)
CodeOpensItsOwnRound ==
    [][\A q \in Requests :
          requests[q].pc = "compare" /\ minted' # minted /\ requests'[q].pc = "idle" =>
              voters'[requests[q].voter].auth_round = requests[q].round]_vars
-----------------------------------------------------------------------------
(* Refinement *)

(* The round documents as the ballot box sees them. *)
Announced == [b \in ByElections |->
    IF RoundExists(b) THEN [rule |-> rounds[b].rule, slate |-> rounds[b].candidates]
    ELSE None]

Box == INSTANCE BallotBox WITH
    Papers <- BallotPapers, Notices <- [rule : Rules, slate : SUBSET Candidates],
    box <- ballots, announced <- Announced

(* The handlers together keep the promise of the ballot box.                *)
KeepsTheBallotBox == Box!Spec
=============================================================================
