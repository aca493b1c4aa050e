---------------------------- MODULE ElectionReset ----------------------------
(***************************************************************************)
(* POST /admin/reset-election (src/backend/main.py) beside everything that *)
(* VotingRounds does.  The handler checks that nothing certified and no    *)
(* by-election would be lost, uploads a safety snapshot, which can take    *)
(* minutes, and then wipes collection after collection; it takes no lock   *)
(* and checks nothing again, so voters and administrators go on between    *)
(* its steps.                                                              *)
(***************************************************************************)
EXTENDS VotingRounds

VARIABLES
    reset,      \* the step the reset has reached
    restored    \* the voting window it will put back

resetVars == <<reset, restored>>
allVars   == <<vars, resetVars>>

ResetSteps == {"idle", "snapshot", "voters", "ballots", "rounds"}

ResetTypeOK == /\ TypeOK
               /\ reset \in ResetSteps
               /\ restored \in AllWindows

ResetInit == Init /\ reset = "idle" /\ restored = Unenforced

-----------------------------------------------------------------------------
(* Faulty: the whole schedule is put back, not its window.                  *)
ScheduleToRestore(i) == cache[i].schedule

WindowToRestore(i) == IF RoundExists(RoundOne) THEN rounds[RoundOne].window
                      ELSE cache[i].schedule.window

(* The refusals, all read before the snapshot is taken. *)
StartReset(i) ==
    /\ reset = "idle"
    /\ ~config.is_certified
    /\ \A r \in Rounds : RoundExists(r) => r = RoundOne /\ rounds[r].status # "certified"
    /\ CurrentRound(i) = RoundOne \/ RoundExists(RoundOne)
    /\ reset' = "snapshot"
    /\ restored' = WindowToRestore(i)
    /\ UNCHANGED vars

SnapshotFails ==
    /\ reset = "snapshot"
    /\ reset' = "idle"
    /\ UNCHANGED <<vars, restored>>

(* The snapshot is safe: the codes are deleted first. *)
DeleteCodes ==
    /\ reset = "snapshot"
    /\ reset' = "voters"
    /\ otps' = [v \in Voters |-> None]
    /\ UNCHANGED <<now, voters, minted, grants, electionVars, ballots, requests,
                   tasks, restored>>

(* Every voter is unmarked and loses the session. *)
ResetVoters ==
    /\ reset = "voters"
    /\ reset' = "ballots"
    /\ voters' = [v \in Voters |-> [voted |-> {}, last_status |-> "idle",
                                    vote_jti |-> 0, auth_round |-> RoundOne]]
    /\ UNCHANGED <<now, minted, otps, grants, electionVars, ballots, requests,
                   tasks, restored>>

(* Faulty: the ballots stay.                                                *)
KeepBallots ==
    /\ reset = "ballots"
    /\ reset' = "rounds"
    /\ UNCHANGED <<vars, restored>>

DeleteBallots ==
    /\ reset = "ballots"
    /\ reset' = "rounds"
    /\ ballots' = [r \in Rounds |-> [v \in Voters |-> <<>>]]
    /\ UNCHANGED <<now, voterVars, electionVars, requests, tasks, restored>>

(* Ties and rounds go, and Round 1 is scheduled again. *)
DeleteRounds(i) ==
    /\ reset = "rounds"
    /\ reset' = "idle"
    /\ ties' = [r \in Rounds |-> [p \in Positions |-> NoTie]]
    /\ rounds' = [r \in Rounds |->
           IF r \in ByElections /\ RoundExists(r)
           THEN [rounds[r] EXCEPT !.status = "deleted"]
           ELSE IF r = RoundOne THEN NoRound ELSE rounds[r]]
    /\ WriteSchedule(i, RoundOne, restored)
    /\ UNCHANGED <<now, voterVars, config, ballots, requests, tasks, restored>>

ResetNext ==
    \/ \E i \in Instances : StartReset(i) \/ DeleteRounds(i)
    \/ SnapshotFails \/ DeleteCodes \/ ResetVoters \/ DeleteBallots

NextWithReset == ResetNext \/ (Next /\ UNCHANGED resetVars)

SpecWithReset == ResetInit /\ [][NextWithReset]_allVars

-----------------------------------------------------------------------------
(* Whatever a reset swept up of the sessions and transactions in flight,    *)
(* once it is over nobody has two ballots in a round, and every ballot is   *)
(* one of a voter who is marked and so cannot cast another.                 *)
NoSecondBallotAfterReset ==
    reset = "idle" =>
        \A r \in Rounds, v \in Voters :
            /\ Len(ballots[r][v]) <= 1
            /\ ballots[r][v] # <<>> => r \in voters[v].voted

(* "no voter remains marked as having voted in a deleted round"             *)
NoMarkWithoutBallot ==
    reset = "idle" =>
        \A r \in Rounds, v \in Voters : r \in voters[v].voted => ballots[r][v] # <<>>

(* Certified results are never wiped.                                       *)
CertifiedResultsSurvive ==
    [][\A r \in Rounds :
          Certified(r) =>
              \A v \in Voters : ballots[r][v] # <<>> => ballots'[r][v] # <<>>]_allVars
=============================================================================
