------------------------- MODULE VotingRoundsProofs -------------------------
(***************************************************************************)
(* Theorems about VotingRounds for every set of voters, candidates,        *)
(* rounds, server instances, requests and administrators.                  *)
(***************************************************************************)
EXTENDS VotingRounds, TLAPS

(* The initial states have the types TypeOK states.                         *)
LEMMA InitTypeOK ==
    ASSUME ConstantsAssumption, Init
    PROVE  TypeOK
<1> USE DEF Rounds
<1>1. Closed \in AllWindows /\ Unenforced \in AllWindows /\ Windows \subseteq AllWindows
  BY DEF AllWindows
<1>2. voters \in [Voters -> VoterDoc]
  BY DEF Init, VoterDoc, ConstantsAssumption
<1>3. schedule \in Schedules
  BY <1>1 DEF Init, Schedules
<1>4. rounds \in [Rounds -> RoundDoc]
  BY <1>1 DEF Init, NoRound, RoundDoc, Rules
<1>5. ties \in [Rounds -> [Positions -> TieDoc]]
  BY DEF Init, NoTie, TieDoc
<1>6. requests \in [Requests -> Request] /\ \A q \in Requests : requests[q].pc = "idle"
  BY DEF Init, NoRequest, Request, ConstantsAssumption
<1>7. tasks \in [Admins -> Task] /\ \A a \in Admins : tasks[a].op = "idle"
  BY DEF Init, NoTask, Task
<1>8. ballots \in [Rounds -> [Voters -> Seq(BallotPapers)]]
  BY DEF Init
<1>9. cache \in [Instances -> [schedule : Schedules, is_open : BOOLEAN]]
  BY <1>3 DEF Init
<1>10. /\ now \in 1..MaxTime
       /\ minted \in [Voters -> 0..MaxSessions]
       /\ otps \in [Voters -> Rounds \cup {None}]
       /\ grants \subseteq Voters
       /\ config \in [is_open : BOOLEAN, is_certified : BOOLEAN]
  BY DEF Init, ConstantsAssumption
<1>11. QED
  BY <1>2, <1>3, <1>4, <1>5, <1>6, <1>7, <1>8, <1>9, <1>10
     DEF TypeOK, VoterTypeOK, ElectionTypeOK, BallotTypeOK, RequestTypeOK, TaskTypeOK

-----------------------------------------------------------------------------
(* The unset token and a cleared request are values of their types.         *)
LEMMA NoJti ==
    ASSUME ConstantsAssumption
    PROVE  0 \in 0..MaxSessions
BY DEF ConstantsAssumption

LEMMA NoRequestType == ASSUME ConstantsAssumption PROVE NoRequest \in Request
BY NoJti DEF NoRequest, Request

(* A request that ends, or that is replaced by a well-formed one, leaves    *)
(* the requests well-formed.                                                *)
LEMMA RequestEnds ==
    ASSUME ConstantsAssumption, RequestTypeOK, NEW q \in Requests,
           requests' = [requests EXCEPT ![q] = NoRequest]
    PROVE  RequestTypeOK'
BY DEF RequestTypeOK, NoRequest, Request, ConstantsAssumption

LEMMA RequestMoves ==
    ASSUME RequestTypeOK, NEW q \in Requests, NEW req \in Request,
           requests' = [requests EXCEPT ![q] = req],
           req.voter \in Voters, req.instance \in Instances, req.round \in Rounds,
           req.pc \in {"check", "commit"} => req.picks \in BallotPapers
    PROVE  RequestTypeOK'
BY DEF RequestTypeOK

(* Every step of a voter's request keeps the types.                         *)
LEMMA VoterStepTypes ==
    ASSUME ConstantsAssumption, TypeOK, VoterNext
    PROVE  TypeOK'
<1> USE DEF TypeOK
<1>1. ASSUME NEW q \in Requests, NEW v \in Voters, NEW i \in Instances, VerifyIdentity(q, v, i)
      PROVE  TypeOK'
  <2>1. PICK live \in BOOLEAN : requests' = [requests EXCEPT ![q] =
                  [NoRequest EXCEPT !.pc = "sms", !.voter = v, !.instance = i,
                                    !.round = CurrentRound(i), !.live = live]]
    BY <1>1 DEF VerifyIdentity
  <2>2. CurrentRound(i) \in Rounds
    BY DEF CurrentRound, ElectionTypeOK, Schedules
  <2> DEFINE moved == [NoRequest EXCEPT !.pc = "sms", !.voter = v, !.instance = i,
                                         !.round = CurrentRound(i), !.live = live]
  <2>3. /\ moved \in Request /\ moved.voter \in Voters /\ moved.instance \in Instances
        /\ moved.round \in Rounds /\ moved.pc \notin {"check", "commit"}
    BY <2>2, NoJti DEF NoRequest, Request
  <2>4. requests' = [requests EXCEPT ![q] = moved]
    BY <2>1
  <2> HIDE DEF moved
  <2>5. RequestTypeOK'
    BY <2>3, <2>4, RequestMoves
  <2>6. QED
    BY <1>1, <2>5 DEF VerifyIdentity, voterVars, electionVars,
       VoterTypeOK, ElectionTypeOK, BallotTypeOK, TaskTypeOK
<1>2. ASSUME NEW q \in Requests, NEW v \in Voters, NEW i \in Instances, VerifyOtp(q, v, i)
      PROVE  TypeOK'
  <2>1. CurrentRound(i) \in Rounds
    BY DEF CurrentRound, ElectionTypeOK, Schedules
  <2> DEFINE moved == [NoRequest EXCEPT !.pc = "compare", !.voter = v, !.instance = i,
                                         !.round = otps[v]]
  <2>2. /\ moved \in Request /\ moved.voter \in Voters /\ moved.instance \in Instances
        /\ moved.round \in Rounds /\ moved.pc \notin {"check", "commit"}
    BY <1>2, <2>1, NoJti DEF VerifyOtp, NoRequest, Request
  <2>3. requests' = [requests EXCEPT ![q] = moved]
    BY <1>2 DEF VerifyOtp
  <2> HIDE DEF moved
  <2>4. RequestTypeOK'
    BY <2>2, <2>3, RequestMoves
  <2>5. QED
    BY <1>2, <2>4 DEF VerifyOtp, voterVars, electionVars,
       VoterTypeOK, ElectionTypeOK, BallotTypeOK, TaskTypeOK
<1>3. ASSUME NEW q \in Requests, NEW v \in Voters, NEW i \in Instances, SubmitBallot(q, v, i)
      PROVE  TypeOK'
  <2>1. PICK jti \in 1..minted[v], picks \in BallotPapers :
          requests' = [requests EXCEPT ![q] =
              [NoRequest EXCEPT !.pc = "check", !.voter = v, !.instance = i,
                                !.round = CurrentRound(i), !.jti = jti, !.picks = picks]]
    BY <1>3 DEF SubmitBallot
  <2>2. CurrentRound(i) \in Rounds
    BY DEF CurrentRound, ElectionTypeOK, Schedules
  <2>3. jti \in 0..MaxSessions
    BY ConstantsAssumption DEF VoterTypeOK, ConstantsAssumption
  <2>4. picks \subseteq Candidates
    BY DEF BallotPapers
  <2> DEFINE moved == [NoRequest EXCEPT !.pc = "check", !.voter = v, !.instance = i,
                                  !.round = CurrentRound(i), !.jti = jti, !.picks = picks]
  <2>5. /\ moved \in Request /\ moved.voter \in Voters /\ moved.instance \in Instances
        /\ moved.round \in Rounds /\ moved.picks \in BallotPapers
    BY <2>2, <2>3, <2>4 DEF NoRequest, Request
  <2>6. requests' = [requests EXCEPT ![q] = moved]
    BY <2>1
  <2> HIDE DEF moved
  <2>7. RequestTypeOK'
    BY <2>5, <2>6, RequestMoves
  <2>8. QED
    BY <1>3, <2>7 DEF SubmitBallot, voterVars, electionVars,
       VoterTypeOK, ElectionTypeOK, BallotTypeOK, TaskTypeOK
<1>4. ASSUME NEW q \in Requests, CodeSent(q)
      PROVE  TypeOK'
  <2>1. RequestTypeOK'
    BY <1>4, RequestEnds DEF CodeSent
  <2>2. requests[q].voter \in Voters /\ requests[q].round \in Rounds
    BY <1>4 DEF CodeSent, RequestTypeOK
  <2>3. VoterTypeOK'
    BY <1>4, <2>2 DEF CodeSent, VoterTypeOK, VoterDoc
  <2>4. QED
    BY <1>4, <2>1, <2>3 DEF CodeSent, electionVars, ElectionTypeOK, BallotTypeOK, TaskTypeOK
<1>5. ASSUME NEW q \in Requests, OpenSession(q)
      PROVE  TypeOK'
  <2>1. RequestTypeOK'
    BY <1>5, RequestEnds DEF OpenSession
  <2>2. requests[q].voter \in Voters /\ requests[q].instance \in Instances
    BY <1>5 DEF OpenSession, RequestTypeOK
  <2>3. CurrentRound(requests[q].instance) \in Rounds
    BY <2>2 DEF CurrentRound, ElectionTypeOK, Schedules
  <2>4. minted[requests[q].voter] + 1 \in 0..MaxSessions
    BY <1>5, <2>2 DEF OpenSession, VoterTypeOK, ConstantsAssumption
  <2> DEFINE v == requests[q].voter
             doc == [voters[v] EXCEPT !.last_status = "authenticated",
                                      !.vote_jti = minted[v] + 1,
                                      !.auth_round = CurrentRound(requests[q].instance)]
  <2>5. voters[v] \in VoterDoc
    BY <2>2 DEF VoterTypeOK
  <2>6. doc \in VoterDoc
    BY <2>3, <2>4, <2>5 DEF VoterDoc
  <2>7. voters' = [voters EXCEPT ![v] = doc]
    BY <1>5, <2>2 DEF OpenSession, VoterTypeOK, VoterDoc
  <2>8. /\ minted' = [minted EXCEPT ![v] = minted[v] + 1]
        /\ otps' = [otps EXCEPT ![v] = None] /\ grants' = grants
    BY <1>5, <2>2 DEF OpenSession, VoterTypeOK
  <2> HIDE DEF doc
  <2>9. VoterTypeOK'
    BY <2>2, <2>4, <2>6, <2>7, <2>8 DEF VoterTypeOK
  <2>10. QED
    BY <1>5, <2>1, <2>9 DEF OpenSession, electionVars, ElectionTypeOK, BallotTypeOK, TaskTypeOK
<1>6. ASSUME NEW q \in Requests, CheckBallot(q)
      PROVE  TypeOK'
  <2> DEFINE req == requests[q]
             checked == [req EXCEPT !.pc = "commit", !.rule = RuleOf(req.round)]
  <2>1. req \in Request /\ req.voter \in Voters /\ req.instance \in Instances
           /\ req.round \in Rounds /\ req.picks \in BallotPapers
    BY <1>6 DEF CheckBallot, RequestTypeOK
  <2>2. RuleOf(req.round) \in Rules \cup {None}
    BY <2>1 DEF RuleOf, ElectionTypeOK, RoundDoc
  <2>3. /\ checked \in Request /\ checked.voter \in Voters /\ checked.instance \in Instances
        /\ checked.round \in Rounds /\ checked.picks \in BallotPapers
    BY <2>1, <2>2 DEF Request
  <2>4. \/ requests' = [requests EXCEPT ![q] = checked]
        \/ requests' = [requests EXCEPT ![q] = NoRequest]
    BY <1>6 DEF CheckBallot
  <2> HIDE DEF checked
  <2>5. RequestTypeOK'
    BY <2>3, <2>4, RequestMoves, RequestEnds
  <2>6. QED
    BY <1>6, <2>5 DEF CheckBallot, voterVars, electionVars,
       VoterTypeOK, ElectionTypeOK, BallotTypeOK, TaskTypeOK
<1>7. ASSUME NEW q \in Requests, CommitBallot(q)
      PROVE  TypeOK'
  <2>1. RequestTypeOK'
    BY <1>7, RequestEnds DEF CommitBallot, RecordBallot
  <2>2. /\ requests[q].voter \in Voters /\ requests[q].round \in Rounds
        /\ requests[q].picks \in BallotPapers
    BY <1>7 DEF CommitBallot, RecordBallot, RequestTypeOK
  <2> DEFINE v == requests[q].voter
             doc == [voters[v] EXCEPT !.voted = @ \cup {requests[q].round},
                                      !.last_status = "completed", !.vote_jti = 0]
  <2>3. voters[v] \in VoterDoc
    BY <2>2 DEF VoterTypeOK
  <2>4. doc \in VoterDoc
    BY <2>2, <2>3, NoJti DEF VoterDoc
  <2>5. voters' = [voters EXCEPT ![v] = doc]
    BY <1>7, <2>2 DEF CommitBallot, RecordBallot, VoterTypeOK, VoterDoc
  <2> HIDE DEF doc
  <2>6. VoterTypeOK'
    BY <1>7, <2>2, <2>4, <2>5 DEF CommitBallot, RecordBallot, VoterTypeOK
  <2>7. BallotTypeOK'
    BY <1>7, <2>2 DEF CommitBallot, RecordBallot, BallotTypeOK
  <2>8. QED
    BY <1>7, <2>1, <2>6, <2>7 DEF CommitBallot, RecordBallot, electionVars, ElectionTypeOK, TaskTypeOK
<1>8. ASSUME NEW q \in Requests, CodeNotSent(q) \/ WrongCode(q) \/ RejectBallot(q)
      PROVE  TypeOK'
  <2>1. RequestTypeOK'
    BY <1>8, RequestEnds DEF CodeNotSent, WrongCode, RejectBallot
  <2>2. QED
    BY <1>8, <2>1 DEF CodeNotSent, WrongCode, RejectBallot, voterVars, electionVars,
       VoterTypeOK, ElectionTypeOK, BallotTypeOK, TaskTypeOK
<1>9. ASSUME NEW v \in Voters, RejectCode(v)
      PROVE  TypeOK'
  BY <1>9 DEF RejectCode, electionVars,
     VoterTypeOK, ElectionTypeOK, BallotTypeOK, RequestTypeOK, TaskTypeOK
<1>10. QED
  BY <1>1, <1>2, <1>3, <1>4, <1>5, <1>6, <1>7, <1>8, <1>9 DEF VoterNext

(* An administrator's task that ends leaves the tasks well-formed, and the  *)
(* settings and round documents the tasks write have their types.           *)
LEMMA TaskEnds ==
    ASSUME TaskTypeOK, NEW a \in Admins, tasks' = [tasks EXCEPT ![a] = NoTask]
    PROVE  TaskTypeOK'
BY DEF TaskTypeOK, NoTask, Task

LEMMA FreshType ==
    ASSUME NEW cfg \in [is_open : BOOLEAN, is_certified : BOOLEAN],
           NEW sch \in Schedules
    PROVE  Fresh(cfg, sch) \in [schedule : Schedules, is_open : BOOLEAN]
BY DEF Fresh

LEMMA WriteScheduleTypes ==
    ASSUME ElectionTypeOK, NEW i \in Instances, NEW r \in Rounds, NEW w \in AllWindows,
           WriteSchedule(i, r, w)
    PROVE  /\ schedule' \in Schedules
           /\ cache' \in [Instances -> [schedule : Schedules, is_open : BOOLEAN]]
<1>1. schedule' \in Schedules
  BY DEF WriteSchedule, Schedules
<1> DEFINE copy == [cache[i] EXCEPT !.schedule = schedule']
<1>2. copy \in [schedule : Schedules, is_open : BOOLEAN]
  BY <1>1 DEF ElectionTypeOK
<1>3. cache' = [cache EXCEPT ![i] = copy]
  BY DEF WriteSchedule, ElectionTypeOK
<1> HIDE DEF copy
<1>4. QED
  BY <1>1, <1>2, <1>3 DEF ElectionTypeOK

(* Replacing one round document, or one tie, keeps the collections typed.   *)
LEMMA RoundsUpdate ==
    ASSUME ElectionTypeOK, NEW r \in Rounds, NEW d \in RoundDoc,
           rounds' = [rounds EXCEPT ![r] = d]
    PROVE  rounds' \in [Rounds -> RoundDoc]
BY DEF ElectionTypeOK

LEMMA TiesUpdate ==
    ASSUME ElectionTypeOK, NEW r \in Rounds, NEW d \in [Positions -> TieDoc],
           ties' = [ties EXCEPT ![r] = d]
    PROVE  ties' \in [Rounds -> [Positions -> TieDoc]]
BY DEF ElectionTypeOK

LEMMA OneTieUpdate ==
    ASSUME ElectionTypeOK, NEW r \in Rounds, NEW p \in Positions, NEW t \in TieDoc
    PROVE  [ties[r] EXCEPT ![p] = t] \in [Positions -> TieDoc]
BY DEF ElectionTypeOK

(* Every step of an administrator, and of a reader of results, keeps them.  *)
LEMMA AdminStepTypes ==
    ASSUME ConstantsAssumption, TypeOK, AdminNext
    PROVE  TypeOK'
<1> USE DEF TypeOK
<1>1. ASSUME NEW a \in Admins, NEW i \in Instances, ToggleElection(a, i)
      PROVE  TypeOK'
  <2>1. TaskTypeOK'
    BY <1>1 DEF ToggleElection, TaskTypeOK, NoTask, Task, ElectionTypeOK
  <2>2. QED
    BY <1>1, <2>1 DEF ToggleElection, voterVars, electionVars,
       VoterTypeOK, ElectionTypeOK, BallotTypeOK, RequestTypeOK
<1>2. ASSUME NEW a \in Admins, NEW i \in Instances, ToggleCertification(a, i)
      PROVE  TypeOK'
  <2>1. CurrentRound(i) \in Rounds
    BY DEF CurrentRound, ElectionTypeOK, Schedules
  <2>2. Certified(CurrentRound(i)) \in BOOLEAN
    BY <2>1 DEF Certified, ElectionTypeOK
  <2>3. TaskTypeOK'
    BY <1>2, <2>1, <2>2 DEF ToggleCertification, TaskTypeOK, NoTask, Task
  <2>4. QED
    BY <1>2, <2>3 DEF ToggleCertification, voterVars, electionVars,
       VoterTypeOK, ElectionTypeOK, BallotTypeOK, RequestTypeOK
<1>3. ASSUME NEW a \in Admins, NEW i \in Instances, NEW p \in Positions, NEW rule \in Rules,
             CreateByElection(a, i, p, rule)
      PROVE  TypeOK'
  <2>1. TaskTypeOK'
    BY <1>3 DEF CreateByElection, TaskTypeOK, NoTask, Task
  <2>2. QED
    BY <1>3, <2>1 DEF CreateByElection, voterVars, electionVars,
       VoterTypeOK, ElectionTypeOK, BallotTypeOK, RequestTypeOK
<1>4. ASSUME NEW a \in Admins, NEW i \in Instances, NEW r \in Rounds, NEW w \in Windows,
             SetPhaseSchedule(a, i, r, w)
      PROVE  TypeOK'
  <2>1. w \in AllWindows
    BY DEF AllWindows
  <2>2. /\ schedule' \in Schedules
        /\ cache' \in [Instances -> [schedule : Schedules, is_open : BOOLEAN]]
    BY <1>4, <2>1, WriteScheduleTypes DEF SetPhaseSchedule
  <2>3. PICK set \in BOOLEAN :
           rounds' = rounds \/ rounds' = [rounds EXCEPT ![r] = [rounds[r] EXCEPT
                         !.window = w, !.status = "scheduled", !.schedule_set = set]]
    BY <1>4 DEF SetPhaseSchedule, ElectionTypeOK, RoundDoc
  <2>4. rounds[r] \in RoundDoc
    BY DEF ElectionTypeOK
  <2> DEFINE doc == [rounds[r] EXCEPT !.window = w, !.status = "scheduled", !.schedule_set = set]
  <2>5. doc \in RoundDoc
    BY <2>1, <2>4 DEF RoundDoc
  <2> HIDE DEF doc
  <2>6. rounds' \in [Rounds -> RoundDoc]
    BY <2>3, <2>5 DEF ElectionTypeOK, doc
  <2>7. QED
    BY <1>4, <2>2, <2>6 DEF SetPhaseSchedule, voterVars,
       VoterTypeOK, ElectionTypeOK, BallotTypeOK, RequestTypeOK, TaskTypeOK
<1>5. ASSUME NEW a \in Admins, NEW i \in Instances, NEW b \in ByElections,
             ResetByElectionSchedule(a, i, b)
      PROVE  TypeOK'
  <2>1. Closed \in AllWindows /\ b \in Rounds
    BY DEF AllWindows, Rounds
  <2>2. /\ schedule' \in Schedules
        /\ cache' \in [Instances -> [schedule : Schedules, is_open : BOOLEAN]]
    BY <1>5, <2>1, WriteScheduleTypes DEF ResetByElectionSchedule
  <2>3. rounds[b] \in RoundDoc
    BY <2>1 DEF ElectionTypeOK
  <2> DEFINE doc == [rounds[b] EXCEPT !.window = Closed]
  <2>4. doc \in RoundDoc
    BY <2>1, <2>3 DEF RoundDoc
  <2>5. rounds' = [rounds EXCEPT ![b] = doc]
    BY <1>5 DEF ResetByElectionSchedule
  <2> HIDE DEF doc
  <2>6. rounds' \in [Rounds -> RoundDoc]
    BY <2>4, <2>5 DEF ElectionTypeOK
  <2>7. QED
    BY <1>5, <2>2, <2>6 DEF ResetByElectionSchedule, voterVars,
       VoterTypeOK, ElectionTypeOK, BallotTypeOK, RequestTypeOK, TaskTypeOK
<1>6. ASSUME NEW a \in Admins, ToggleElectionWrite(a)
      PROVE  TypeOK'
  <2>1. TaskTypeOK'
    BY <1>6, TaskEnds DEF ToggleElectionWrite
  <2>2. tasks[a].instance \in Instances /\ tasks[a].value \in BOOLEAN
    BY <1>6 DEF ToggleElectionWrite, TaskTypeOK, Task
  <2>3. config' \in [is_open : BOOLEAN, is_certified : BOOLEAN]
    BY <1>6, <2>2 DEF ToggleElectionWrite, ElectionTypeOK
  <2>4. Fresh(config', schedule) \in [schedule : Schedules, is_open : BOOLEAN]
    BY <2>3, FreshType DEF ElectionTypeOK
  <2>5. QED
    BY <1>6, <2>1, <2>2, <2>3, <2>4 DEF ToggleElectionWrite, voterVars,
       VoterTypeOK, ElectionTypeOK, BallotTypeOK, RequestTypeOK
<1>7. ASSUME NEW a \in Admins, ToggleCertificationWrite(a)
      PROVE  TypeOK'
  <2>1. TaskTypeOK'
    BY <1>7, TaskEnds DEF ToggleCertificationWrite
  <2>2. tasks[a].instance \in Instances /\ tasks[a].value \in BOOLEAN /\ tasks[a].round \in Rounds
    BY <1>7 DEF ToggleCertificationWrite, TaskTypeOK, Task
  <2>3. config' \in [is_open : BOOLEAN, is_certified : BOOLEAN]
    BY <1>7, <2>2 DEF ToggleCertificationWrite, ElectionTypeOK
  <2>4. Fresh(config, schedule) \in [schedule : Schedules, is_open : BOOLEAN]
    BY FreshType DEF ElectionTypeOK
  <2>5. PICK status \in {"certified", "closed", "scheduled"} :
           rounds' = rounds \/ rounds' = [rounds EXCEPT ![tasks[a].round] =
                                            [rounds[tasks[a].round] EXCEPT !.status = status]]
    BY <1>7, <2>2 DEF ToggleCertificationWrite, ElectionTypeOK
  <2>6. rounds[tasks[a].round] \in RoundDoc
    BY <2>2 DEF ElectionTypeOK
  <2>7. rounds' \in [Rounds -> RoundDoc]
    <3> DEFINE doc == [rounds[tasks[a].round] EXCEPT !.status = status]
    <3>1. doc \in RoundDoc
      BY <2>6 DEF RoundDoc
    <3>2. rounds' = rounds \/ rounds' = [rounds EXCEPT ![tasks[a].round] = doc]
      BY <2>5
    <3> HIDE DEF doc
    <3>3. QED
      BY <2>2, <3>1, <3>2, RoundsUpdate DEF ElectionTypeOK
  <2>8. QED
    BY <1>7, <2>1, <2>2, <2>3, <2>4, <2>7 DEF ToggleCertificationWrite, voterVars,
       VoterTypeOK, ElectionTypeOK, BallotTypeOK, RequestTypeOK
<1>8. ASSUME NEW a \in Admins, NEW b \in ByElections, InsertByElection(a, b)
      PROVE  TypeOK'
  <2> DEFINE p == tasks[a].position
             tie == ties[RoundOne][p]
             claimed == [tie EXCEPT !.by_election = b, !.status = "by_election_ordered"]
             new == [status |-> "scheduled", window |-> Closed, schedule_set |-> FALSE,
                     rule |-> tasks[a].rule, candidates |-> tie.candidates]
             lost == [rounds[b] EXCEPT !.status = "deleted"]
  <2>1. /\ b \in Rounds /\ RoundOne \in Rounds /\ Closed \in AllWindows
        /\ p \in Positions /\ tasks[a].rule \in Rules
    BY <1>8 DEF InsertByElection, TaskTypeOK, Rounds, AllWindows
  <2>2. tie \in TieDoc /\ rounds[b] \in RoundDoc
    BY <2>1 DEF ElectionTypeOK
  <2>3. claimed \in TieDoc /\ new \in RoundDoc /\ lost \in RoundDoc
    BY <2>1, <2>2 DEF TieDoc, RoundDoc
  <2>4. \/ rounds' = [rounds EXCEPT ![b] = new]
        \/ rounds' = [rounds EXCEPT ![b] = lost]
    BY <1>8 DEF InsertByElection, ClaimTie, LoseTie
  <2>5. \/ ties' = ties
        \/ ties' = [ties EXCEPT ![RoundOne] = [ties[RoundOne] EXCEPT ![p] = claimed]]
    <3>1. CASE ties' = ties
      BY <3>1
    <3>2. CASE ties' = [ties EXCEPT ![RoundOne][p].by_election = b,
                                    ![RoundOne][p].status = "by_election_ordered"]
      <4>1. ties \in [Rounds -> [Positions -> TieDoc]]
        BY DEF ElectionTypeOK
      <4>2. ties' = [ties EXCEPT ![RoundOne] = [ties[RoundOne] EXCEPT ![p] = claimed]]
        BY <2>1, <3>2, <4>1
      <4>3. QED
        BY <4>2
    <3>3. QED
      BY <1>8, <3>1, <3>2 DEF InsertByElection, ClaimTie, LoseTie
  <2>6. \/ tasks' = [tasks EXCEPT ![a] = NoTask]
        \/ tasks' = [tasks EXCEPT ![a] = [tasks[a] EXCEPT !.op = "switch_round", !.round = b]]
    BY <1>8 DEF InsertByElection, ClaimTie, LoseTie
  <2>7. TaskTypeOK'
    <3>1. tasks[a] \in Task /\ tasks[a].instance \in Instances
      BY <1>8 DEF InsertByElection, TaskTypeOK
    <3> DEFINE next == [tasks[a] EXCEPT !.op = "switch_round", !.round = b]
    <3>2. next \in Task /\ next.instance \in Instances /\ next.position \in Positions
            /\ next.round \in ByElections /\ next.op = "switch_round"
      BY <2>1, <3>1 DEF Task
    <3>3. \/ tasks' = [tasks EXCEPT ![a] = NoTask]
          \/ tasks' = [tasks EXCEPT ![a] = next]
      BY <2>6
    <3> HIDE DEF next
    <3>4. CASE tasks' = [tasks EXCEPT ![a] = NoTask]
      BY <3>4, TaskEnds
    <3>5. CASE tasks' = [tasks EXCEPT ![a] = next]
      BY <3>2, <3>5 DEF TaskTypeOK
    <3>6. QED
      BY <3>3, <3>4, <3>5
  <2> HIDE DEF claimed, new, lost, tie
  <2>8. ElectionTypeOK'
    <3>1. rounds' \in [Rounds -> RoundDoc]
      BY <2>1, <2>3, <2>4, RoundsUpdate
    <3>2. ties' \in [Rounds -> [Positions -> TieDoc]]
      BY <2>1, <2>3, <2>5, OneTieUpdate, TiesUpdate DEF ElectionTypeOK
    <3>3. QED
      BY <1>8, <3>1, <3>2 DEF InsertByElection, ElectionTypeOK
  <2>9. QED
    BY <1>8, <2>7, <2>8 DEF InsertByElection, voterVars, VoterTypeOK, BallotTypeOK, RequestTypeOK
<1>9. ASSUME NEW a \in Admins, SwitchToByElection(a)
      PROVE  TypeOK'
  <2>1. TaskTypeOK'
    BY <1>9, TaskEnds DEF SwitchToByElection
  <2>2. tasks[a].instance \in Instances /\ tasks[a].round \in Rounds /\ Closed \in AllWindows
    BY <1>9 DEF SwitchToByElection, TaskTypeOK, Rounds, AllWindows
  <2>3. /\ schedule' \in Schedules
        /\ cache' \in [Instances -> [schedule : Schedules, is_open : BOOLEAN]]
    BY <1>9, <2>2, WriteScheduleTypes DEF SwitchToByElection
  <2>4. QED
    BY <1>9, <2>1, <2>3 DEF SwitchToByElection, voterVars,
       VoterTypeOK, ElectionTypeOK, BallotTypeOK, RequestTypeOK
<1>10. ASSUME NEW a \in Admins, ByElectionFails(a)
       PROVE  TypeOK'
  <2> DEFINE p == tasks[a].position
             b == tasks[a].round
             tie == ties[RoundOne][p]
             pending == [tie EXCEPT !.by_election = None, !.status = "pending"]
             lost == [rounds[b] EXCEPT !.status = "deleted"]
  <2>1. TaskTypeOK'
    BY <1>10, TaskEnds DEF ByElectionFails
  <2>2. b \in Rounds /\ RoundOne \in Rounds /\ p \in Positions
    BY <1>10 DEF ByElectionFails, TaskTypeOK, Rounds
  <2>3. tie \in TieDoc /\ rounds[b] \in RoundDoc
    BY <2>2 DEF ElectionTypeOK
  <2>4. pending \in TieDoc /\ lost \in RoundDoc
    BY <2>3 DEF TieDoc, RoundDoc
  <2>5. /\ rounds' = [rounds EXCEPT ![b] = lost]
        /\ \/ ties' = [ties EXCEPT ![RoundOne] = [ties[RoundOne] EXCEPT ![p] = pending]]
           \/ ties' = [ties EXCEPT ![RoundOne] = [ties[RoundOne] EXCEPT ![p] = tie]]
    BY <1>10, <2>2 DEF ByElectionFails, ElectionTypeOK
  <2> HIDE DEF pending, lost, tie, b, p
  <2>6. ElectionTypeOK'
    <3>1. rounds' \in [Rounds -> RoundDoc]
      BY <2>2, <2>4, <2>5, RoundsUpdate
    <3>2. ties' \in [Rounds -> [Positions -> TieDoc]]
      BY <2>2, <2>3, <2>4, <2>5, OneTieUpdate, TiesUpdate
    <3>3. QED
      BY <1>10, <3>1, <3>2 DEF ByElectionFails, ElectionTypeOK
  <2>7. QED
    BY <1>10, <2>1, <2>6 DEF ByElectionFails, voterVars, VoterTypeOK, BallotTypeOK, RequestTypeOK
<1>11. ASSUME NEW i \in Instances, NEW r \in Rounds, DetectTies(i, r)
       PROVE  TypeOK'
  <2> DEFINE snapshot == [status |-> IF config.is_certified THEN "certified" ELSE "closed",
                     window |-> cache[i].schedule.window, schedule_set |-> FALSE,
                     rule |-> "all_registered", candidates |-> Candidates]
             slate == IF r = RoundOne THEN Candidates ELSE rounds[r].candidates
             detected == [p \in Positions |->
               IF ties[r][p].status = "absent" /\ TopTied(slate, r, p) # {}
               THEN [status |-> "pending", candidates |-> TopTied(slate, r, p),
                     by_election |-> None]
               ELSE ties[r][p]]
  <2>1. cache[i].schedule \in Schedules
    BY DEF ElectionTypeOK
  <2>2. snapshot \in RoundDoc
    BY <2>1 DEF Schedules, RoundDoc, Rules
  <2>3. slate \subseteq Candidates
    BY DEF ElectionTypeOK, RoundDoc
  <2>4. \A p \in Positions : TopTied(slate, r, p) \subseteq Candidates
    BY <2>3 DEF TopTied
  <2>5. detected \in [Positions -> TieDoc]
    BY <2>4 DEF ElectionTypeOK, TieDoc
  <2>6. /\ rounds' = rounds \/ rounds' = [rounds EXCEPT ![r] = snapshot]
        /\ ties' = [ties EXCEPT ![r] = detected]
    BY <1>11 DEF DetectTies, ElectionTypeOK
  <2> HIDE DEF snapshot, slate, detected
  <2>7. ElectionTypeOK'
    <3>1. rounds' \in [Rounds -> RoundDoc]
      BY <2>2, <2>6, RoundsUpdate DEF ElectionTypeOK
    <3>2. ties' \in [Rounds -> [Positions -> TieDoc]]
      BY <2>5, <2>6, TiesUpdate
    <3>3. QED
      BY <1>11, <3>1, <3>2 DEF DetectTies, ElectionTypeOK
  <2>8. QED
    BY <1>11, <2>7 DEF DetectTies, voterVars, VoterTypeOK, BallotTypeOK, RequestTypeOK, TaskTypeOK
<1>12. ASSUME NEW v \in Grantees, GrantException(v) \/ EndException(v)
       PROVE  TypeOK'
  BY <1>12 DEF GrantException, EndException, electionVars, ConstantsAssumption,
     VoterTypeOK, ElectionTypeOK, BallotTypeOK, RequestTypeOK, TaskTypeOK
<1>13. QED
  BY <1>1, <1>2, <1>3, <1>4, <1>5, <1>6, <1>7, <1>8, <1>9, <1>10, <1>11, <1>12 DEF AdminNext
-----------------------------------------------------------------------------
(* The clock and the caches keep the types too.                             *)
LEMMA StepTypes ==
    ASSUME ConstantsAssumption, TypeOK, [Next]_vars
    PROVE  TypeOK'
<1>1. CASE VoterNext
  BY <1>1, VoterStepTypes
<1>2. CASE AdminNext
  BY <1>2, AdminStepTypes
<1>3. CASE Tick
  BY <1>3 DEF Tick, voterVars, electionVars, ConstantsAssumption, TypeOK, VoterTypeOK,
     ElectionTypeOK, BallotTypeOK, RequestTypeOK, TaskTypeOK
<1>4. ASSUME NEW i \in Instances, CacheExpires(i)
      PROVE  TypeOK'
  <2>1. Fresh(config, schedule) \in [schedule : Schedules, is_open : BOOLEAN]
    BY FreshType DEF TypeOK, ElectionTypeOK
  <2>2. QED
    BY <1>4, <2>1 DEF CacheExpires, voterVars, TypeOK, VoterTypeOK, ElectionTypeOK,
       BallotTypeOK, RequestTypeOK, TaskTypeOK
<1>5. CASE UNCHANGED vars
  BY <1>5 DEF vars, TypeOK, VoterTypeOK, ElectionTypeOK, BallotTypeOK, RequestTypeOK, TaskTypeOK
<1>6. QED
  BY <1>1, <1>2, <1>3, <1>4, <1>5 DEF Next

(* Every document and every request stays well-formed, for any number of    *)
(* voters, rounds, server instances and concurrent requests.                *)
THEOREM TypeCorrect == Spec => []TypeOK
<1>1. Init => TypeOK
  BY InitTypeOK, ConstantsAssumption
<1>2. TypeOK /\ [Next]_vars => TypeOK'
  BY StepTypes, ConstantsAssumption
<1>3. QED
  BY <1>1, <1>2, PTL DEF Spec
-----------------------------------------------------------------------------
(* Ballots and marks change together, and in the voter's transaction only.  *)
LEMMA OnlyCommitRecords ==
    ASSUME TypeOK, [Next]_vars
    PROVE  \/ \E q \in Requests : CommitBallot(q)
           \/ /\ ballots' = ballots
              /\ \A v \in Voters : voters'[v].voted = voters[v].voted
<1>1. CASE UNCHANGED vars
  BY <1>1 DEF vars
<1>2. ASSUME NEW q \in Requests, CodeSent(q) \/ OpenSession(q)
      PROVE  /\ ballots' = ballots
             /\ \A v \in Voters : voters'[v].voted = voters[v].voted
  <2>1. requests[q].voter \in Voters /\ \A v \in Voters : voters[v] \in VoterDoc
    BY <1>2 DEF CodeSent, OpenSession, TypeOK, RequestTypeOK, VoterTypeOK
  <2>2. CASE CodeSent(q)
    BY <2>1, <2>2 DEF CodeSent, TypeOK, VoterTypeOK, VoterDoc
  <2>3. CASE OpenSession(q)
    BY <2>1, <2>3 DEF OpenSession, TypeOK, VoterTypeOK, VoterDoc
  <2>4. QED
    BY <1>2, <2>2, <2>3
<1>3. CASE VoterNext
  BY <1>2, <1>3 DEF VoterNext, VerifyIdentity, VerifyOtp, SubmitBallot, CodeNotSent, WrongCode,
     CheckBallot, RejectBallot, RejectCode, voterVars
<1>4. CASE AdminNext
  <2>1. ASSUME NEW a \in Admins, NEW i \in Instances,
               \/ ToggleElection(a, i) \/ ToggleCertification(a, i)
               \/ \E p \in Positions, rule \in Rules : CreateByElection(a, i, p, rule)
               \/ \E r \in Rounds, w \in Windows : SetPhaseSchedule(a, i, r, w)
               \/ \E b \in ByElections : ResetByElectionSchedule(a, i, b)
        PROVE  voters' = voters /\ ballots' = ballots
    BY <2>1 DEF ToggleElection, ToggleCertification, CreateByElection, SetPhaseSchedule,
       ResetByElectionSchedule, voterVars
  <2>2. ASSUME NEW a \in Admins,
               \/ ToggleElectionWrite(a) \/ ToggleCertificationWrite(a)
               \/ \E b \in ByElections : InsertByElection(a, b)
               \/ SwitchToByElection(a) \/ ByElectionFails(a)
        PROVE  voters' = voters /\ ballots' = ballots
    BY <2>2 DEF ToggleElectionWrite, ToggleCertificationWrite, InsertByElection,
       SwitchToByElection, ByElectionFails, voterVars
  <2>3. ASSUME NEW i \in Instances, NEW r \in Rounds, DetectTies(i, r)
        PROVE  voters' = voters /\ ballots' = ballots
    BY <2>3 DEF DetectTies, voterVars
  <2>4. ASSUME NEW v \in Grantees, GrantException(v) \/ EndException(v)
        PROVE  voters' = voters /\ ballots' = ballots
    BY <2>4 DEF GrantException, EndException
  <2>5. QED
    BY <1>4, <2>1, <2>2, <2>3, <2>4 DEF AdminNext
<1>5. CASE Tick \/ \E i \in Instances : CacheExpires(i)
  BY <1>5 DEF Tick, CacheExpires, voterVars
<1>6. QED
  BY <1>1, <1>3, <1>4, <1>5 DEF Next

(* What CommitBallot does to the one voter and the one round it is about.   *)
LEMMA CommitEffect ==
    ASSUME TypeOK, NEW q \in Requests, CommitBallot(q)
    PROVE  LET w == requests[q].voter  t == requests[q].round
           IN  /\ w \in Voters /\ t \in Rounds /\ t \notin voters[w].voted
               /\ \A r \in Rounds, v \in Voters :
                     IF r = t /\ v = w
                     THEN /\ r \in voters'[v].voted
                          /\ ballots'[r][v] = Append(ballots[r][v], requests[q].picks)
                     ELSE /\ r \in voters'[v].voted <=> r \in voters[v].voted
                          /\ ballots'[r][v] = ballots[r][v]
<1> DEFINE w == requests[q].voter
           t == requests[q].round
<1>1. w \in Voters /\ t \in Rounds /\ t \notin voters[w].voted
  BY DEF CommitBallot, MayClaim, TypeOK, RequestTypeOK
<1>2. voters[w] \in VoterDoc
  BY <1>1 DEF TypeOK, VoterTypeOK
<1> DEFINE doc == [voters[w] EXCEPT !.voted = @ \cup {t}, !.last_status = "completed",
                                     !.vote_jti = 0]
<1>3. doc.voted = voters[w].voted \cup {t}
  BY <1>2 DEF VoterDoc
<1>4. voters' = [voters EXCEPT ![w] = doc]
  BY <1>1, <1>2 DEF CommitBallot, RecordBallot, TypeOK, VoterTypeOK, VoterDoc
<1> HIDE DEF doc
<1>5. \A r \in Rounds, v \in Voters :
         r \in voters'[v].voted <=> r \in voters[v].voted \/ (r = t /\ v = w)
  BY <1>1, <1>3, <1>4 DEF TypeOK, VoterTypeOK
<1>6. \A r \in Rounds, v \in Voters :
         ballots'[r][v] = IF r = t /\ v = w THEN Append(ballots[r][v], requests[q].picks)
                          ELSE ballots[r][v]
  BY <1>1 DEF CommitBallot, RecordBallot, TypeOK, BallotTypeOK
<1>7. QED
  BY <1>1, <1>5, <1>6

(* The inductive invariant behind the marks: a voter unmarked in a round    *)
(* has no ballot there, and a marked one has exactly one.                   *)
Marks ==
    \A r \in Rounds, v \in Voters :
        \/ r \notin voters[v].voted /\ ballots[r][v] = <<>>
        \/ r \in voters[v].voted /\ Len(ballots[r][v]) = 1

LEMMA MarksStep ==
    ASSUME TypeOK, Marks, [Next]_vars
    PROVE  Marks'
<1>1. ASSUME NEW q \in Requests, CommitBallot(q)
      PROVE  Marks'
  <2> SUFFICES ASSUME NEW r \in Rounds, NEW v \in Voters
               PROVE  \/ r \notin voters'[v].voted /\ ballots'[r][v] = <<>>
                      \/ r \in voters'[v].voted /\ Len(ballots'[r][v]) = 1
    BY DEF Marks
  <2>1. CASE r = requests[q].round /\ v = requests[q].voter
    <3>1. ballots[r][v] = <<>>
      BY <1>1, <2>1, CommitEffect DEF Marks
    <3>2. Len(Append(<<>>, requests[q].picks)) = 1
      OBVIOUS
    <3>3. r \in voters'[v].voted /\ ballots'[r][v] = Append(ballots[r][v], requests[q].picks)
      BY <1>1, <2>1, CommitEffect
    <3>4. QED
      BY <3>1, <3>2, <3>3
  <2>2. CASE ~(r = requests[q].round /\ v = requests[q].voter)
    BY <1>1, <2>2, CommitEffect DEF Marks
  <2>3. QED
    BY <2>1, <2>2
<1>2. CASE ballots' = ballots /\ \A v \in Voters : voters'[v].voted = voters[v].voted
  BY <1>2 DEF Marks
<1>3. QED
  BY <1>1, <1>2, OnlyCommitRecords

THEOREM MarksInvariant == Spec => []Marks
<1>1. Init => Marks
  BY DEF Init, Marks
<1>2. TypeOK /\ Marks /\ [Next]_vars => Marks'
  BY MarksStep
<1>3. QED
  BY <1>1, <1>2, TypeCorrect, PTL DEF Spec

LEMMA MarksBound ==
    ASSUME Marks
    PROVE  OneBallotPerRound
<1> SUFFICES ASSUME NEW r \in Rounds, NEW v \in Voters
             PROVE  Len(ballots[r][v]) <= 1
  BY DEF OneBallotPerRound
<1>1. CASE ballots[r][v] = <<>>
  BY <1>1
<1>2. CASE Len(ballots[r][v]) = 1
  BY <1>2
<1>3. QED
  BY <1>1, <1>2 DEF Marks

(* However many requests, tokens and server instances a voter's clicks are  *)
(* spread over, /vote and /vote-bulk record at most one ballot per round.   *)
THEOREM OneBallot == Spec => []OneBallotPerRound
<1>1. Marks => OneBallotPerRound
  BY MarksBound
<1>2. QED
  BY <1>1, MarksInvariant, PTL

(* Turnout and tally agree: a voter is marked in a round exactly when the   *)
(* round holds a ballot of theirs.                                          *)
THEOREM MarkedExactly == Spec => []MarkedIffBallot
<1>1. TypeOK /\ Marks => MarkedIffBallot
  BY DEF Marks, MarkedIffBallot
<1>2. QED
  BY <1>1, TypeCorrect, MarksInvariant, PTL

(* The two together: what the voter's transaction keeps for ever, on any    *)
(* number of requests, tokens and instances.                                *)
THEOREM BallotsAlwaysKept == Spec => []BallotsKept
<1>1. OneBallotPerRound /\ MarkedIffBallot => BallotsKept
  BY DEF BallotsKept
<1>2. QED
  BY <1>1, OneBallot, MarkedExactly, PTL
-----------------------------------------------------------------------------
(* The session a voter's document names is the latest one or none, and a    *)
(* ballot comes with a token that was minted.                               *)
Sessions ==
    /\ \A v \in Voters : voters[v].vote_jti \in {0, minted[v]}
    /\ \A q \in Requests : requests[q].pc \in {"check", "commit"} => requests[q].jti # 0

(* Administrators and readers of results open and end no session.           *)
LEMMA AdminKeepsSessions ==
    ASSUME AdminNext
    PROVE  UNCHANGED <<voters, minted, requests>>
<1>1. ASSUME NEW a \in Admins, NEW i \in Instances,
             \/ ToggleElection(a, i) \/ ToggleCertification(a, i)
             \/ \E p \in Positions, rule \in Rules : CreateByElection(a, i, p, rule)
             \/ \E r \in Rounds, w \in Windows : SetPhaseSchedule(a, i, r, w)
             \/ \E b \in ByElections : ResetByElectionSchedule(a, i, b)
      PROVE  UNCHANGED <<voters, minted, requests>>
  BY <1>1 DEF ToggleElection, ToggleCertification, CreateByElection, SetPhaseSchedule,
     ResetByElectionSchedule, voterVars
<1>2. ASSUME NEW a \in Admins,
             \/ ToggleElectionWrite(a) \/ ToggleCertificationWrite(a)
             \/ \E b \in ByElections : InsertByElection(a, b)
             \/ SwitchToByElection(a) \/ ByElectionFails(a)
      PROVE  UNCHANGED <<voters, minted, requests>>
  BY <1>2 DEF ToggleElectionWrite, ToggleCertificationWrite, InsertByElection,
     SwitchToByElection, ByElectionFails, voterVars
<1>3. ASSUME NEW i \in Instances, NEW r \in Rounds, DetectTies(i, r)
      PROVE  UNCHANGED <<voters, minted, requests>>
  BY <1>3 DEF DetectTies, voterVars
<1>4. ASSUME NEW v \in Grantees, GrantException(v) \/ EndException(v)
      PROVE  UNCHANGED <<voters, minted, requests>>
  BY <1>4 DEF GrantException, EndException
<1>5. QED
  BY <1>1, <1>2, <1>3, <1>4 DEF AdminNext

LEMMA SessionsStep ==
    ASSUME TypeOK, Sessions, [Next]_vars
    PROVE  Sessions'
<1>1. /\ requests \in [Requests -> Request] /\ voters \in [Voters -> VoterDoc]
      /\ minted \in [Voters -> 0..MaxSessions]
  BY DEF TypeOK, RequestTypeOK, VoterTypeOK
<1>2. CASE UNCHANGED <<voters, minted, requests>>
  BY <1>2 DEF Sessions
<1>3. ASSUME NEW q \in Requests, requests' = [requests EXCEPT ![q] = requests'[q]],
             requests'[q].pc \in {"check", "commit"} => requests'[q].jti # 0,
             \A v \in Voters : voters'[v].vote_jti \in {0, minted'[v]}
      PROVE  Sessions'
  BY <1>1, <1>3 DEF Sessions
<1>4. CASE VoterNext
  <2>1. ASSUME NEW q \in Requests, NEW v \in Voters, NEW i \in Instances,
               VerifyIdentity(q, v, i) \/ VerifyOtp(q, v, i) \/ SubmitBallot(q, v, i)
        PROVE  Sessions'
    <3>1. requests' = [requests EXCEPT ![q] = requests'[q]] /\ UNCHANGED <<voters, minted>>
      BY <1>1, <2>1 DEF VerifyIdentity, VerifyOtp, SubmitBallot, voterVars
    <3>2. requests'[q].pc \in {"check", "commit"} => requests'[q].jti # 0
      <4>1. CASE VerifyIdentity(q, v, i)
        <5>1. requests'[q].pc = "sms"
          BY <1>1, <4>1 DEF VerifyIdentity, NoRequest
        <5>2. QED
          BY <5>1
      <4>2. CASE VerifyOtp(q, v, i)
        <5>1. requests'[q].pc = "compare"
          BY <1>1, <4>2 DEF VerifyOtp, NoRequest
        <5>2. QED
          BY <5>1
      <4>3. CASE SubmitBallot(q, v, i)
        <5>1. PICK jti \in 1..minted[v] : requests'[q].jti = jti
          BY <1>1, <4>3 DEF SubmitBallot, NoRequest
        <5>2. QED
          BY <1>1, <5>1
      <4>4. QED
        BY <2>1, <4>1, <4>2, <4>3
    <3>3. QED
      BY <1>3, <3>1, <3>2 DEF Sessions
  <2>2. ASSUME NEW q \in Requests, CodeNotSent(q) \/ WrongCode(q) \/ RejectBallot(q)
        PROVE  Sessions'
    BY <1>1, <1>3, <2>2 DEF CodeNotSent, WrongCode, RejectBallot, NoRequest, voterVars, Sessions
  <2>3. ASSUME NEW q \in Requests, CheckBallot(q)
        PROVE  Sessions'
    <3>1. requests'[q].pc \in {"check", "commit"} => requests'[q].jti # 0
      BY <1>1, <2>3 DEF CheckBallot, NoRequest, Request, Sessions
    <3>2. requests' = [requests EXCEPT ![q] = requests'[q]] /\ UNCHANGED <<voters, minted>>
      BY <1>1, <2>3 DEF CheckBallot, voterVars
    <3>3. QED
      BY <1>3, <3>1, <3>2 DEF Sessions
  <2>4. ASSUME NEW q \in Requests, CodeSent(q)
        PROVE  Sessions'
    <3>1. requests[q].voter \in Voters
      BY <2>4 DEF CodeSent, TypeOK, RequestTypeOK
    <3>2. \A v \in Voters : voters'[v].vote_jti = voters[v].vote_jti
      BY <1>1, <2>4, <3>1 DEF CodeSent, VoterDoc
    <3>3. QED
      BY <1>1, <1>3, <2>4, <3>2 DEF CodeSent, NoRequest, Sessions
  <2>5. ASSUME NEW q \in Requests, OpenSession(q)
        PROVE  Sessions'
    <3> DEFINE w == requests[q].voter
    <3>1. w \in Voters /\ voters[w] \in VoterDoc
      BY <1>1, <2>5 DEF OpenSession, TypeOK, RequestTypeOK
    <3>2. minted' = [minted EXCEPT ![w] = minted[w] + 1]
      BY <2>5 DEF OpenSession
    <3>3. /\ voters'[w].vote_jti = minted[w] + 1
          /\ \A v \in Voters \ {w} : voters'[v] = voters[v]
      BY <1>1, <2>5, <3>1 DEF OpenSession, VoterDoc
    <3>4. \A v \in Voters : voters'[v].vote_jti \in {0, minted'[v]}
      BY <1>1, <3>1, <3>2, <3>3 DEF Sessions
    <3>5. QED
      BY <1>1, <1>3, <2>5, <3>4 DEF OpenSession, NoRequest
  <2>6. ASSUME NEW q \in Requests, CommitBallot(q)
        PROVE  Sessions'
    <3> DEFINE w == requests[q].voter
    <3>1. w \in Voters /\ voters[w] \in VoterDoc
      BY <1>1, <2>6 DEF CommitBallot, TypeOK, RequestTypeOK
    <3>2. voters'[w].vote_jti = 0 /\ \A v \in Voters \ {w} : voters'[v] = voters[v]
      BY <1>1, <2>6, <3>1 DEF CommitBallot, RecordBallot, VoterDoc
    <3>3. QED
      BY <1>1, <1>3, <2>6, <3>1, <3>2 DEF CommitBallot, NoRequest, Sessions
  <2>7. ASSUME NEW v \in Voters, RejectCode(v)
        PROVE  Sessions'
    BY <1>2, <2>7 DEF RejectCode
  <2>8. QED
    BY <1>4, <2>1, <2>2, <2>3, <2>4, <2>5, <2>6, <2>7 DEF VoterNext
<1>5. CASE AdminNext
  BY <1>2, <1>5, AdminKeepsSessions
<1>6. CASE Tick \/ UNCHANGED vars \/ \E i \in Instances : CacheExpires(i)
  BY <1>2, <1>6 DEF Tick, vars, CacheExpires, voterVars
<1>7. QED
  BY <1>4, <1>5, <1>6 DEF Next

LEMMA CommitOnLatest ==
    ASSUME TypeOK, Sessions, [Next]_vars, NEW q \in Requests,
           requests[q].pc = "commit", ballots' # ballots, requests'[q].pc = "idle"
    PROVE  LET v == requests[q].voter
           IN  requests[q].jti = minted[v] /\ voters'[v].vote_jti = 0
<1>1. PICK p \in Requests : CommitBallot(p)
  BY OnlyCommitRecords
<1>2. /\ requests \in [Requests -> Request] /\ voters \in [Voters -> VoterDoc]
      /\ requests[q].voter \in Voters
  BY DEF TypeOK, RequestTypeOK, VoterTypeOK
<1>3. p = q
  BY <1>1, <1>2 DEF CommitBallot
<1>4. requests[q].jti = minted[requests[q].voter]
  BY <1>1, <1>2, <1>3 DEF CommitBallot, MayClaim, Sessions
<1>5. voters'[requests[q].voter].vote_jti = 0
  BY <1>1, <1>2, <1>3 DEF CommitBallot, RecordBallot, VoterDoc
<1>6. QED
  BY <1>4, <1>5

(* A ballot is recorded only on the token of the voter's latest login, and  *)
(* the session ends with it: no token ever casts two ballots.               *)
THEOREM NewestSession == Spec => NewestSessionOnly
<1>1. Init => Sessions
  BY DEF Init, Sessions, NoRequest
<1>2. TypeOK /\ Sessions /\ [Next]_vars => Sessions'
  BY SessionsStep
<1> DEFINE Latest == \A q \in Requests :
          requests[q].pc = "commit" /\ ballots' # ballots /\ requests'[q].pc = "idle" =>
              LET v == requests[q].voter
              IN  /\ requests[q].jti = minted[v]
                  /\ voters'[v].vote_jti = 0
<1>3. TypeOK /\ Sessions /\ [Next]_vars => [Latest]_vars
  BY CommitOnLatest
<1>4. QED
  BY <1>1, <1>2, <1>3, TypeCorrect, PTL DEF Spec, NewestSessionOnly

-----------------------------------------------------------------------------
(* When the database accepts every by-election's schedule (~MayFail), a     *)
(* round that was announced is never withdrawn.                              *)

(* A by-election that exists goes on existing, with its rule and its slate. *)
Kept(b) == RoundExists(b) => /\ RoundExists(b)'
                             /\ rounds'[b].rule = rounds[b].rule
                             /\ rounds'[b].candidates = rounds[b].candidates

LEMMA VoterKeepsElection ==
    ASSUME VoterNext
    PROVE  UNCHANGED <<now, electionVars, tasks>>
<1>1. ASSUME NEW q \in Requests, NEW v \in Voters, NEW i \in Instances,
             VerifyIdentity(q, v, i) \/ VerifyOtp(q, v, i) \/ SubmitBallot(q, v, i)
      PROVE  UNCHANGED <<now, electionVars, tasks>>
  BY <1>1 DEF VerifyIdentity, VerifyOtp, SubmitBallot
<1>2. ASSUME NEW q \in Requests,
             \/ CodeSent(q) \/ CodeNotSent(q) \/ OpenSession(q) \/ WrongCode(q)
             \/ CheckBallot(q) \/ CommitBallot(q) \/ RejectBallot(q)
      PROVE  UNCHANGED <<now, electionVars, tasks>>
  BY <1>2 DEF CodeSent, CodeNotSent, OpenSession, WrongCode, CheckBallot, CommitBallot, RejectBallot
<1>3. ASSUME NEW v \in Voters, RejectCode(v)
      PROVE  UNCHANGED <<now, electionVars, tasks>>
  BY <1>3 DEF RejectCode
<1>4. QED
  BY <1>1, <1>2, <1>3 DEF VoterNext

LEMMA AdminKeepsRequests ==
    ASSUME AdminNext
    PROVE  UNCHANGED <<now, requests, ballots>>
<1>1. ASSUME NEW a \in Admins, NEW i \in Instances,
             \/ ToggleElection(a, i) \/ ToggleCertification(a, i)
             \/ \E p \in Positions, rule \in Rules : CreateByElection(a, i, p, rule)
             \/ \E r \in Rounds, w \in Windows : SetPhaseSchedule(a, i, r, w)
             \/ \E b \in ByElections : ResetByElectionSchedule(a, i, b)
      PROVE  UNCHANGED <<now, requests, ballots>>
  BY <1>1 DEF ToggleElection, ToggleCertification, CreateByElection, SetPhaseSchedule,
     ResetByElectionSchedule
<1>2. ASSUME NEW a \in Admins,
             \/ ToggleElectionWrite(a) \/ ToggleCertificationWrite(a)
             \/ \E b \in ByElections : InsertByElection(a, b)
             \/ SwitchToByElection(a) \/ ByElectionFails(a)
      PROVE  UNCHANGED <<now, requests, ballots>>
  BY <1>2 DEF ToggleElectionWrite, ToggleCertificationWrite, InsertByElection,
     SwitchToByElection, ByElectionFails
<1>3. ASSUME NEW i \in Instances, NEW r \in Rounds, DetectTies(i, r)
      PROVE  UNCHANGED <<now, requests, ballots>>
  BY <1>3 DEF DetectTies
<1>4. ASSUME NEW v \in Grantees, GrantException(v) \/ EndException(v)
      PROVE  UNCHANGED <<now, requests, ballots>>
  BY <1>4 DEF GrantException, EndException
<1>5. QED
  BY <1>1, <1>2, <1>3, <1>4 DEF AdminNext

(* The five ways round documents change: four rewrite one document without  *)
(* touching its rule or slate, and InsertByElection makes one of a fresh id.*)
LEMMA RoundSteps ==
    ASSUME ConstantsAssumption, TypeOK, \A a \in Admins : ~ByElectionFails(a), [Next]_vars
    PROVE  \/ \E a \in Admins, b \in ByElections : InsertByElection(a, b)
           \/ rounds' = rounds
           \/ /\ rounds' \in [Rounds -> RoundDoc]
              /\ \A b \in ByElections :
                    /\ RoundExists(b)' <=> RoundExists(b)
                    /\ rounds'[b].rule = rounds[b].rule
                    /\ rounds'[b].candidates = rounds[b].candidates
<1> DEFINE P == /\ rounds' \in [Rounds -> RoundDoc]
                /\ \A b \in ByElections :
                    /\ RoundExists(b)' <=> RoundExists(b)
                    /\ rounds'[b].rule = rounds[b].rule
                    /\ rounds'[b].candidates = rounds[b].candidates
<1>1. rounds' \in [Rounds -> RoundDoc]
  BY StepTypes DEF TypeOK, ElectionTypeOK
<1>2. \A r \in Rounds : rounds[r] \in RoundDoc
  BY DEF TypeOK, ElectionTypeOK
<1>3. ASSUME NEW r \in Rounds, NEW d \in RoundDoc, rounds' = [rounds EXCEPT ![r] = d],
             \/ r = RoundOne
             \/ /\ d.status \notin {"absent", "deleted"} <=> RoundExists(r)
                /\ d.rule = rounds[r].rule
                /\ d.candidates = rounds[r].candidates
      PROVE  P
  BY <1>1, <1>3 DEF RoundExists, TypeOK, ElectionTypeOK, Rounds, ConstantsAssumption
<1> HIDE DEF P
<1>4. ASSUME NEW a \in Admins, ToggleCertificationWrite(a)
      PROVE  rounds' = rounds \/ P
  <2> DEFINE r == tasks[a].round
  <2>1. r \in Rounds
    BY <1>4 DEF ToggleCertificationWrite, TypeOK, TaskTypeOK
  <2>2. PICK status \in {"certified", "closed", "scheduled"} :
           rounds' = rounds \/ (RoundExists(r) /\ rounds' = [rounds EXCEPT ![r].status = status])
    BY <1>4, <2>1 DEF ToggleCertificationWrite
  <2> DEFINE d == [rounds[r] EXCEPT !.status = status]
  <2>3. /\ d \in RoundDoc /\ d.status \notin {"absent", "deleted"}
        /\ d.rule = rounds[r].rule /\ d.candidates = rounds[r].candidates
    BY <1>2, <2>1 DEF RoundDoc
  <2>4. rounds' = rounds \/ (RoundExists(r) /\ rounds' = [rounds EXCEPT ![r] = d])
    BY <2>2
  <2> HIDE DEF d, r
  <2>5. QED
    BY <1>3, <2>1, <2>3, <2>4
<1>5. ASSUME NEW a \in Admins, NEW i \in Instances, NEW r \in Rounds, NEW w \in Windows,
             SetPhaseSchedule(a, i, r, w)
      PROVE  rounds' = rounds \/ P
  <2>1. w \in AllWindows
    BY DEF AllWindows
  <2>2. PICK set \in BOOLEAN : rounds' = rounds \/ (RoundExists(r) /\ rounds' = [rounds EXCEPT
                         ![r] = [rounds[r] EXCEPT !.window = w, !.status = "scheduled",
                                                  !.schedule_set = set]])
    BY <1>5, <1>2 DEF SetPhaseSchedule, TypeOK, ElectionTypeOK, RoundDoc
  <2> DEFINE d == [rounds[r] EXCEPT !.window = w, !.status = "scheduled", !.schedule_set = set]
  <2>3. /\ d \in RoundDoc /\ d.status \notin {"absent", "deleted"}
        /\ d.rule = rounds[r].rule /\ d.candidates = rounds[r].candidates
    BY <1>2, <2>1 DEF RoundDoc
  <2>4. rounds' = rounds \/ (RoundExists(r) /\ rounds' = [rounds EXCEPT ![r] = d])
    BY <2>2
  <2> HIDE DEF d
  <2>5. QED
    BY <1>3, <2>3, <2>4
<1>6. ASSUME NEW a \in Admins, NEW i \in Instances, NEW b \in ByElections,
             ResetByElectionSchedule(a, i, b)
      PROVE  P
  <2>1. b \in Rounds /\ Closed \in AllWindows /\ RoundExists(b)
    BY <1>6 DEF ResetByElectionSchedule, Rounds, AllWindows
  <2> DEFINE d == [rounds[b] EXCEPT !.window = Closed]
  <2>2. /\ d \in RoundDoc /\ d.status = rounds[b].status
        /\ d.rule = rounds[b].rule /\ d.candidates = rounds[b].candidates
    BY <1>2, <2>1 DEF RoundDoc
  <2>3. rounds' = [rounds EXCEPT ![b] = d]
    BY <1>6 DEF ResetByElectionSchedule
  <2> HIDE DEF d
  <2>4. QED
    BY <1>3, <2>1, <2>2, <2>3 DEF RoundExists
<1>7. ASSUME NEW i \in Instances, NEW r \in Rounds, DetectTies(i, r)
      PROVE  rounds' = rounds \/ P
  <2>1. PICK d : rounds' = rounds \/ (r = RoundOne /\ rounds' = [rounds EXCEPT ![r] = d])
    BY <1>7 DEF DetectTies
  <2>2. CASE rounds' = rounds
    BY <2>2
  <2>3. CASE r = RoundOne /\ rounds' = [rounds EXCEPT ![r] = d]
    <3>1. d \in RoundDoc
      BY <1>1, <2>3 DEF TypeOK, ElectionTypeOK
    <3>2. QED
      BY <1>3, <2>3, <3>1
  <2>4. QED
    BY <2>1, <2>2, <2>3
<1>8. CASE AdminNext
  <2>1. ASSUME NEW a \in Admins, NEW i \in Instances,
               \/ ToggleElection(a, i) \/ ToggleCertification(a, i)
               \/ \E p \in Positions, rule \in Rules : CreateByElection(a, i, p, rule)
        PROVE  rounds' = rounds
    BY <2>1 DEF ToggleElection, ToggleCertification, CreateByElection, electionVars
  <2>2. ASSUME NEW a \in Admins, ToggleElectionWrite(a) \/ SwitchToByElection(a)
        PROVE  rounds' = rounds
    BY <2>2 DEF ToggleElectionWrite, SwitchToByElection
  <2>3. ASSUME NEW v \in Grantees, GrantException(v) \/ EndException(v)
        PROVE  rounds' = rounds
    BY <2>3 DEF GrantException, EndException, electionVars
  <2>4. ASSUME NEW a \in Admins, ByElectionFails(a)
        PROVE  FALSE
    BY <2>4
  <2>5. QED
    BY <1>4, <1>5, <1>6, <1>7, <1>8, <2>1, <2>2, <2>3, <2>4 DEF AdminNext, P
<1>9. CASE VoterNext \/ UNCHANGED vars \/ Tick \/ \E i \in Instances : CacheExpires(i)
  BY <1>9, VoterKeepsElection DEF vars, electionVars, Tick, CacheExpires
<1>10. QED
  BY <1>8, <1>9 DEF Next, P

(* InsertByElection makes a round of a fresh id, with its tie's candidates, *)
(* and leaves every other round as it was.                                  *)
LEMMA InsertEffect ==
    ASSUME ConstantsAssumption, TypeOK, NEW a \in Admins, NEW b \in ByElections,
           InsertByElection(a, b)
    PROVE  /\ ~RoundExists(b)
           /\ rounds' \in [Rounds -> RoundDoc]
           /\ \A c \in ByElections \ {b} : rounds'[c] = rounds[c]
           /\ tasks'[a].op = "switch_round" => tasks'[a].round = b /\ RoundExists(b)'
           /\ \A other \in Admins \ {a} : tasks'[other] = tasks[other]
<1>1. b \in Rounds /\ rounds \in [Rounds -> RoundDoc] /\ tasks \in [Admins -> Task]
  BY DEF Rounds, TypeOK, ElectionTypeOK, TaskTypeOK
<1>2. [Next]_vars
  BY DEF Next, AdminNext
<1>3. rounds' \in [Rounds -> RoundDoc]
  BY <1>2, StepTypes DEF TypeOK, ElectionTypeOK
<1>4. ~RoundExists(b)
  BY DEF InsertByElection, RoundExists
<1>5. CASE ClaimTie(a, b)
  <2>1. tasks[a] \in Task
    BY <1>1
  <2>2. tasks'[a].round = b /\ \A other \in Admins \ {a} : tasks'[other] = tasks[other]
    BY <1>1, <1>5, <2>1 DEF ClaimTie, Task
  <2>3. rounds'[b].status = "scheduled" /\ \A c \in ByElections \ {b} : rounds'[c] = rounds[c]
    BY <1>1, <1>5 DEF ClaimTie, Rounds
  <2>4. QED
    BY <1>3, <1>4, <2>2, <2>3 DEF RoundExists
<1>6. CASE LoseTie(a, b)
  BY <1>1, <1>3, <1>4, <1>6 DEF LoseTie, NoTask, Rounds
<1>7. QED
  BY <1>5, <1>6 DEF InsertByElection

(* What exists goes on existing.                                            *)
LEMMA RoundsKept ==
    ASSUME ConstantsAssumption, TypeOK, ~MayFail, [Next]_vars
    PROVE  \A b \in ByElections : Kept(b)
<1>1. ASSUME NEW a \in Admins, NEW b \in ByElections, InsertByElection(a, b)
      PROVE  \A c \in ByElections : Kept(c)
  BY <1>1, InsertEffect DEF Kept, RoundExists
<1>2. CASE rounds' = rounds
  BY <1>2 DEF Kept, RoundExists
<1>3. \A a \in Admins : ~ByElectionFails(a)
  BY DEF ByElectionFails
<1>4. QED
  BY <1>1, <1>2, <1>3, RoundSteps DEF Kept
-----------------------------------------------------------------------------
(* A step adds to the rounds that exist, so that what referred to one of    *)
(* them still does; RoundsInUseExist is inductive.                          *)
LEMMA ExistingGrow ==
    ASSUME ConstantsAssumption, TypeOK, ~MayFail, [Next]_vars
    PROVE  ExistingRounds \subseteq ExistingRounds'
BY RoundsKept DEF ExistingRounds, Kept

ScheduleInUse == /\ schedule.round \in ExistingRounds
                 /\ \A i \in Instances : CurrentRound(i) \in ExistingRounds
RequestsInUse ==
    \A q \in Requests : requests[q].pc # "idle" => requests[q].round \in ExistingRounds
TasksInUse ==
    \A a \in Admins : tasks[a].op = "switch_round" => tasks[a].round \in ExistingRounds

LEMMA ScheduleStep ==
    ASSUME ConstantsAssumption, TypeOK, ~MayFail, ScheduleInUse, TasksInUse, [Next]_vars
    PROVE  ScheduleInUse'
<1>1. ExistingRounds \subseteq ExistingRounds'
  BY ExistingGrow
<1>2. CASE UNCHANGED <<schedule, cache>>
  BY <1>1, <1>2 DEF ScheduleInUse, CurrentRound
<1>3. ASSUME NEW i \in Instances, NEW r \in ExistingRounds, NEW w, WriteSchedule(i, r, w)
      PROVE  ScheduleInUse'
  <2>1. schedule'.round = r
    BY <1>3 DEF WriteSchedule
  <2>2. \A j \in Instances : CurrentRound(j)' \in {CurrentRound(j), r}
    BY <1>3, <2>1 DEF WriteSchedule, CurrentRound, TypeOK, ElectionTypeOK
  <2>3. QED
    BY <1>1, <2>1, <2>2 DEF ScheduleInUse
<1>4. ASSUME NEW i \in Instances, NEW c, schedule' = schedule,
             cache' = [cache EXCEPT ![i] = Fresh(c, schedule)]
      PROVE  ScheduleInUse'
  <2>1. \A j \in Instances : CurrentRound(j)' \in {CurrentRound(j), schedule.round}
    BY <1>4 DEF CurrentRound, Fresh, TypeOK, ElectionTypeOK
  <2>2. QED
    BY <1>1, <1>4, <2>1 DEF ScheduleInUse
<1>5. CASE AdminNext
  <2>1. ASSUME NEW a \in Admins, NEW i \in Instances,
               \/ ToggleElection(a, i) \/ ToggleCertification(a, i)
               \/ \E p \in Positions, rule \in Rules : CreateByElection(a, i, p, rule)
        PROVE  UNCHANGED <<schedule, cache>>
    BY <2>1 DEF ToggleElection, ToggleCertification, CreateByElection, electionVars
  <2>2. ASSUME NEW a \in Admins, NEW i \in Instances, NEW r \in Rounds, NEW w \in Windows,
               SetPhaseSchedule(a, i, r, w)
        PROVE  ScheduleInUse'
    <3>1. r \in ExistingRounds
      BY <2>2 DEF SetPhaseSchedule, ExistingRounds, Rounds
    <3>2. QED
      BY <1>3, <2>2, <3>1 DEF SetPhaseSchedule
  <2>3. ASSUME NEW a \in Admins, NEW i \in Instances, NEW b \in ByElections,
               ResetByElectionSchedule(a, i, b)
        PROVE  ScheduleInUse'
    BY <1>3, <2>3 DEF ResetByElectionSchedule, ExistingRounds
  <2>4. ASSUME NEW a \in Admins, ToggleElectionWrite(a) \/ ToggleCertificationWrite(a)
        PROVE  ScheduleInUse'
    <3>1. tasks[a].instance \in Instances /\ schedule' = schedule
      BY <2>4 DEF ToggleElectionWrite, ToggleCertificationWrite, TypeOK, TaskTypeOK
    <3>2. PICK c : cache' = [cache EXCEPT ![tasks[a].instance] = Fresh(c, schedule)]
      BY <2>4 DEF ToggleElectionWrite, ToggleCertificationWrite
    <3>3. QED
      BY <1>4, <3>1, <3>2
  <2>5. ASSUME NEW a \in Admins, SwitchToByElection(a)
        PROVE  ScheduleInUse'
    BY <1>3, <2>5 DEF SwitchToByElection, TasksInUse, TypeOK, TaskTypeOK
  <2>6. ASSUME NEW a \in Admins,
               (\E b \in ByElections : InsertByElection(a, b)) \/ ByElectionFails(a)
        PROVE  UNCHANGED <<schedule, cache>>
    BY <2>6 DEF InsertByElection, ByElectionFails
  <2>7. ASSUME NEW i \in Instances, NEW r \in Rounds, DetectTies(i, r)
        PROVE  UNCHANGED <<schedule, cache>>
    BY <2>7 DEF DetectTies
  <2>8. ASSUME NEW v \in Grantees, GrantException(v) \/ EndException(v)
        PROVE  UNCHANGED <<schedule, cache>>
    BY <2>8 DEF GrantException, EndException, electionVars
  <2>9. QED
    BY <1>2, <1>5, <2>1, <2>2, <2>3, <2>4, <2>5, <2>6, <2>7, <2>8 DEF AdminNext
<1>6. ASSUME NEW i \in Instances, CacheExpires(i)
      PROVE  ScheduleInUse'
  BY <1>4, <1>6 DEF CacheExpires
<1>7. CASE VoterNext \/ Tick \/ UNCHANGED vars
  BY <1>2, <1>7, VoterKeepsElection DEF Tick, vars, electionVars
<1>8. QED
  BY <1>5, <1>6, <1>7 DEF Next

LEMMA TasksStep ==
    ASSUME ConstantsAssumption, TypeOK, ~MayFail, TasksInUse, [Next]_vars
    PROVE  TasksInUse'
<1>1. ExistingRounds \subseteq ExistingRounds'
  BY ExistingGrow
<1>2. tasks \in [Admins -> Task]
  BY DEF TypeOK, TaskTypeOK
<1>3. CASE UNCHANGED tasks
  BY <1>1, <1>3 DEF TasksInUse
<1>4. ASSUME NEW a \in Admins, NEW t, t.op # "switch_round", tasks' = [tasks EXCEPT ![a] = t]
      PROVE  TasksInUse'
  BY <1>1, <1>2, <1>4 DEF TasksInUse
<1>5. ASSUME NEW a \in Admins, NEW b \in ByElections, InsertByElection(a, b)
      PROVE  TasksInUse'
  BY <1>1, <1>5, InsertEffect DEF TasksInUse, ExistingRounds
<1>6. NoTask.op # "switch_round"
  BY DEF NoTask
<1>7. CASE AdminNext
  <2>1. ASSUME NEW a \in Admins, NEW i \in Instances, ToggleElection(a, i)
        PROVE  TasksInUse'
    <3> DEFINE t == [NoTask EXCEPT !.op = "toggle", !.instance = i, !.value = ~config.is_open]
    <3>1. t.op # "switch_round" /\ tasks' = [tasks EXCEPT ![a] = t]
      BY <2>1 DEF ToggleElection, NoTask
    <3> HIDE DEF t
    <3>2. QED
      BY <1>4, <3>1
  <2>2. ASSUME NEW a \in Admins, NEW i \in Instances, ToggleCertification(a, i)
        PROVE  TasksInUse'
    <3> DEFINE t == [NoTask EXCEPT !.op = "certify", !.instance = i,
                         !.round = CurrentRound(i), !.value = ~Certified(CurrentRound(i))]
    <3>1. t.op # "switch_round" /\ tasks' = [tasks EXCEPT ![a] = t]
      BY <2>2 DEF ToggleCertification, NoTask
    <3> HIDE DEF t
    <3>2. QED
      BY <1>4, <3>1
  <2>3. ASSUME NEW a \in Admins, NEW i \in Instances, NEW p \in Positions, NEW rule \in Rules,
               CreateByElection(a, i, p, rule)
        PROVE  TasksInUse'
    <3> DEFINE t == [NoTask EXCEPT !.op = "insert_round", !.instance = i, !.position = p,
                                   !.rule = rule]
    <3>1. t.op # "switch_round" /\ tasks' = [tasks EXCEPT ![a] = t]
      BY <2>3 DEF CreateByElection, NoTask
    <3> HIDE DEF t
    <3>2. QED
      BY <1>4, <3>1
  <2>4. ASSUME NEW a \in Admins,
               \/ ToggleElectionWrite(a) \/ ToggleCertificationWrite(a)
               \/ SwitchToByElection(a) \/ ByElectionFails(a)
        PROVE  TasksInUse'
    <3>1. tasks' = [tasks EXCEPT ![a] = NoTask]
      BY <2>4 DEF ToggleElectionWrite, ToggleCertificationWrite, SwitchToByElection, ByElectionFails
    <3>2. QED
      BY <1>4, <1>6, <3>1
  <2>5. ASSUME NEW a \in Admins, NEW i \in Instances,
               \/ \E r \in Rounds, w \in Windows : SetPhaseSchedule(a, i, r, w)
               \/ \E b \in ByElections : ResetByElectionSchedule(a, i, b)
        PROVE  UNCHANGED tasks
    BY <2>5 DEF SetPhaseSchedule, ResetByElectionSchedule
  <2>6. ASSUME NEW i \in Instances, NEW r \in Rounds, DetectTies(i, r)
        PROVE  UNCHANGED tasks
    BY <2>6 DEF DetectTies
  <2>7. ASSUME NEW v \in Grantees, GrantException(v) \/ EndException(v)
        PROVE  UNCHANGED tasks
    BY <2>7 DEF GrantException, EndException
  <2>8. QED
    BY <1>3, <1>5, <1>7, <2>1, <2>2, <2>3, <2>4, <2>5, <2>6, <2>7 DEF AdminNext
<1>8. CASE VoterNext \/ Tick \/ UNCHANGED vars \/ \E i \in Instances : CacheExpires(i)
  BY <1>3, <1>8, VoterKeepsElection DEF Tick, vars, CacheExpires
<1>9. QED
  BY <1>7, <1>8 DEF Next

(* A request that is at work after a step was at work on the same round     *)
(* before it, or has just read the round from its instance's cache.         *)
LEMMA RequestsStep ==
    ASSUME ConstantsAssumption, TypeOK, ~MayFail, ScheduleInUse, RequestsInUse, [Next]_vars
    PROVE  RequestsInUse'
<1>1. ExistingRounds \subseteq ExistingRounds'
  BY ExistingGrow
<1>2. requests \in [Requests -> Request]
  BY DEF TypeOK, RequestTypeOK
<1>3. CASE UNCHANGED requests
  BY <1>1, <1>3 DEF RequestsInUse
<1>4. ASSUME NEW q \in Requests, NEW t, requests' = [requests EXCEPT ![q] = t],
             t.pc = "idle" \/ t.round \in ExistingRounds
      PROVE  RequestsInUse'
  BY <1>1, <1>2, <1>4 DEF RequestsInUse
<1>5. NoRequest.pc = "idle"
  BY DEF NoRequest
<1>6. \A i \in Instances : CurrentRound(i) \in ExistingRounds
  BY DEF ScheduleInUse
<1>7. CASE VoterNext
  <2>1. ASSUME NEW q \in Requests, NEW v \in Voters, NEW i \in Instances,
               VerifyIdentity(q, v, i) \/ VerifyOtp(q, v, i) \/ SubmitBallot(q, v, i)
        PROVE  RequestsInUse'
    <3>1. /\ requests'[q].round = CurrentRound(i)
          /\ requests' = [requests EXCEPT ![q] = requests'[q]]
      <4>1. CASE VerifyIdentity(q, v, i)
        BY <1>2, <4>1 DEF VerifyIdentity, NoRequest
      <4>2. CASE VerifyOtp(q, v, i)
        BY <1>2, <4>2 DEF VerifyOtp, NoRequest
      <4>3. CASE SubmitBallot(q, v, i)
        BY <1>2, <4>3 DEF SubmitBallot, NoRequest
      <4>4. QED
        BY <2>1, <4>1, <4>2, <4>3
    <3>2. QED
      BY <1>4, <1>6, <3>1
  <2>2. ASSUME NEW q \in Requests,
               \/ CodeSent(q) \/ CodeNotSent(q) \/ OpenSession(q) \/ WrongCode(q)
               \/ CommitBallot(q) \/ RejectBallot(q)
        PROVE  RequestsInUse'
    <3>1. requests' = [requests EXCEPT ![q] = NoRequest]
      BY <2>2 DEF CodeSent, CodeNotSent, OpenSession, WrongCode, CommitBallot, RejectBallot
    <3>2. QED
      BY <1>4, <1>5, <3>1
  <2>3. ASSUME NEW q \in Requests, CheckBallot(q)
        PROVE  RequestsInUse'
    <3> DEFINE t == [requests[q] EXCEPT !.pc = "commit", !.rule = RuleOf(requests[q].round)]
    <3>1. t.round = requests[q].round /\ requests[q].round \in ExistingRounds
      BY <1>2, <2>3 DEF CheckBallot, RequestsInUse, Request
    <3>2. requests' = [requests EXCEPT ![q] = t] \/ requests' = [requests EXCEPT ![q] = NoRequest]
      BY <2>3 DEF CheckBallot
    <3> HIDE DEF t
    <3>3. QED
      BY <1>4, <1>5, <3>1, <3>2
  <2>4. ASSUME NEW v \in Voters, RejectCode(v)
        PROVE  UNCHANGED requests
    BY <2>4 DEF RejectCode
  <2>5. QED
    BY <1>3, <1>7, <2>1, <2>2, <2>3, <2>4 DEF VoterNext
<1>8. CASE AdminNext \/ Tick \/ UNCHANGED vars \/ \E i \in Instances : CacheExpires(i)
  BY <1>3, <1>8, AdminKeepsRequests DEF Tick, vars, CacheExpires
<1>9. QED
  BY <1>7, <1>8 DEF Next

(* Nothing acts on a round that is not there, however stale the caches and  *)
(* however the voters' and administrators' requests overlap.                *)
THEOREM RoundsInUse == ASSUME ~MayFail PROVE Spec => []RoundsInUseExist
<1>1. Init => RoundsInUseExist
  BY DEF Init, RoundsInUseExist, ExistingRounds, CurrentRound, NoRequest, NoTask
<1>2. RoundsInUseExist <=> ScheduleInUse /\ RequestsInUse /\ TasksInUse
  BY DEF RoundsInUseExist, ScheduleInUse, RequestsInUse, TasksInUse
<1>3. TypeOK /\ RoundsInUseExist /\ [Next]_vars => RoundsInUseExist'
  <2> SUFFICES ASSUME TypeOK, ScheduleInUse, RequestsInUse, TasksInUse, [Next]_vars
               PROVE  RoundsInUseExist'
    BY <1>2
  <2>1. ScheduleInUse' /\ RequestsInUse' /\ TasksInUse'
    BY ConstantsAssumption, ScheduleStep, RequestsStep, TasksStep
  <2>2. QED
    BY <2>1 DEF RoundsInUseExist, ScheduleInUse, RequestsInUse, TasksInUse
<1>4. QED
  BY <1>1, <1>3, TypeCorrect, PTL DEF Spec
-----------------------------------------------------------------------------
(* What a ballot about to be committed has read of its round still holds:   *)
(* rule and slate of a by-election never change once it exists.             *)
RequestsRead ==
    \A q \in Requests :
        requests[q].pc = "commit" /\ requests[q].round # RoundOne =>
            /\ requests[q].rule = rounds[requests[q].round].rule
            /\ requests[q].picks \subseteq rounds[requests[q].round].candidates

LEMMA RequestsReadStep ==
    ASSUME ConstantsAssumption, TypeOK, ~MayFail, RequestsInUse, RequestsRead, [Next]_vars
    PROVE  RequestsRead'
<1>1. requests \in [Requests -> Request]
  BY DEF TypeOK, RequestTypeOK
<1>2. ASSUME NEW q \in Requests, requests[q].pc # "idle", requests[q].round # RoundOne
      PROVE  /\ requests[q].round \in ByElections /\ RoundExists(requests[q].round)
             /\ rounds'[requests[q].round].rule = rounds[requests[q].round].rule
             /\ rounds'[requests[q].round].candidates = rounds[requests[q].round].candidates
  BY <1>2, RoundsKept DEF RequestsInUse, ExistingRounds, Kept
<1>3. CASE UNCHANGED requests
  BY <1>2, <1>3 DEF RequestsRead
<1>4. ASSUME NEW q \in Requests, requests' = [requests EXCEPT ![q] = requests'[q]],
             requests'[q].pc # "commit"
      PROVE  RequestsRead'
  BY <1>1, <1>2, <1>4 DEF RequestsRead
<1>5. CASE VoterNext
  <2>1. ASSUME NEW q \in Requests, NEW v \in Voters, NEW i \in Instances,
               VerifyIdentity(q, v, i) \/ VerifyOtp(q, v, i) \/ SubmitBallot(q, v, i)
        PROVE  RequestsRead'
    <3>1. /\ requests'[q].pc # "commit"
          /\ requests' = [requests EXCEPT ![q] = requests'[q]]
      <4>1. CASE VerifyIdentity(q, v, i)
        BY <1>1, <4>1 DEF VerifyIdentity, NoRequest
      <4>2. CASE VerifyOtp(q, v, i)
        BY <1>1, <4>2 DEF VerifyOtp, NoRequest
      <4>3. CASE SubmitBallot(q, v, i)
        BY <1>1, <4>3 DEF SubmitBallot, NoRequest
      <4>4. QED
        BY <2>1, <4>1, <4>2, <4>3
    <3>2. QED
      BY <1>4, <3>1
  <2>2. ASSUME NEW q \in Requests,
               \/ CodeSent(q) \/ CodeNotSent(q) \/ OpenSession(q) \/ WrongCode(q)
               \/ CommitBallot(q) \/ RejectBallot(q)
        PROVE  RequestsRead'
    <3>1. requests' = [requests EXCEPT ![q] = NoRequest]
      BY <2>2 DEF CodeSent, CodeNotSent, OpenSession, WrongCode, CommitBallot, RejectBallot
    <3>2. requests'[q].pc # "commit" /\ requests' = [requests EXCEPT ![q] = requests'[q]]
      BY <1>1, <3>1 DEF NoRequest
    <3>3. QED
      BY <1>4, <3>2
  <2>3. ASSUME NEW q \in Requests, CheckBallot(q)
        PROVE  RequestsRead'
    <3>1. rounds' = rounds
      BY <1>5, VoterKeepsElection DEF electionVars
    <3>2. requests[q].pc = "check"
      BY <2>3 DEF CheckBallot
    <3>3. CASE requests'[q].pc # "commit"
      <4>1. requests' = [requests EXCEPT ![q] = requests'[q]]
        BY <1>1, <2>3 DEF CheckBallot
      <4>2. QED
        BY <1>4, <3>3, <4>1
    <3>4. CASE requests'[q].pc = "commit"
      <4> DEFINE req == requests[q]
                 t == [req EXCEPT !.pc = "commit", !.rule = RuleOf(req.round)]
      <4>1. requests' = [requests EXCEPT ![q] = t] /\ RoundCandidateAllowed(req.picks, req.round)
        BY <1>1, <2>3, <3>4 DEF CheckBallot, NoRequest
      <4>2. /\ t.round = req.round /\ t.picks = req.picks /\ t.rule = RuleOf(req.round)
        BY <1>1 DEF Request
      <4>3. req.round # RoundOne => /\ t.rule = rounds[req.round].rule
                                    /\ t.picks \subseteq rounds[req.round].candidates
        BY <1>2, <3>2, <4>1, <4>2 DEF RuleOf, RoundCandidateAllowed
      <4> HIDE DEF t
      <4>4. \A other \in Requests : requests'[other] = IF other = q THEN t ELSE requests[other]
        BY <1>1, <4>1
      <4>5. QED
        BY <3>1, <4>2, <4>3, <4>4 DEF RequestsRead
    <3>5. QED
      BY <3>3, <3>4
  <2>4. ASSUME NEW v \in Voters, RejectCode(v)
        PROVE  UNCHANGED requests
    BY <2>4 DEF RejectCode
  <2>5. QED
    BY <1>3, <1>5, <2>1, <2>2, <2>3, <2>4 DEF VoterNext
<1>6. CASE AdminNext \/ Tick \/ UNCHANGED vars \/ \E i \in Instances : CacheExpires(i)
  BY <1>3, <1>6, AdminKeepsRequests DEF Tick, vars, CacheExpires
<1>7. QED
  BY <1>5, <1>6 DEF Next

(* A by-election that does not exist, or does not exist yet, has no ballot. *)
UnannouncedEmpty ==
    \A b \in ByElections, v \in Voters : ~RoundExists(b) => ballots[b][v] = <<>>

(* The ballot a transaction records is one the ballot box invites.          *)
LEMMA CommitIsInvited ==
    ASSUME ConstantsAssumption, TypeOK, Marks, RequestsInUse, RequestsRead,
           NEW q \in Requests, CommitBallot(q)
    PROVE  LET w == requests[q].voter  t == requests[q].round
           IN  /\ ballots[t][w] = <<>>
               /\ t \in ByElections =>
                     /\ RoundExists(t)
                     /\ requests[q].picks \subseteq rounds[t].candidates
                     /\ rounds[t].rule = "round1_voters" => ballots[RoundOne][w] # <<>>
<1> DEFINE w == requests[q].voter
           t == requests[q].round
<1>1. w \in Voters /\ t \in Rounds /\ t \notin voters[w].voted
  BY CommitEffect
<1>2. ballots[t][w] = <<>>
  BY <1>1 DEF Marks
<1>3. ASSUME t \in ByElections
      PROVE  /\ RoundExists(t)
             /\ requests[q].rule = rounds[t].rule
             /\ requests[q].picks \subseteq rounds[t].candidates
  BY <1>3 DEF CommitBallot, RequestsInUse, ExistingRounds, RequestsRead, ConstantsAssumption
<1>4. ASSUME requests[q].rule = "round1_voters"
      PROVE  ballots[RoundOne][w] # <<>>
  <2>1. RoundOne \in Rounds /\ RoundOne \in voters[w].voted
    BY <1>4 DEF CommitBallot, MayClaim, Eligible, HasVotedInRound, Rounds
  <2>2. Len(ballots[RoundOne][w]) = 1
    BY <1>1, <2>1 DEF Marks
  <2>3. Len(<<>>) = 0
    OBVIOUS
  <2>4. QED
    BY <2>2, <2>3
<1>5. QED
  BY <1>2, <1>3, <1>4

LEMMA UnannouncedStep ==
    ASSUME ConstantsAssumption, TypeOK, ~MayFail, RequestsInUse, UnannouncedEmpty, [Next]_vars
    PROVE  UnannouncedEmpty'
<1>1. \A b \in ByElections : RoundExists(b) => RoundExists(b)'
  BY RoundsKept DEF Kept
<1>2. ASSUME NEW q \in Requests, CommitBallot(q)
      PROVE  UnannouncedEmpty'
  <2>1. requests[q].round \in ExistingRounds
    BY <1>2 DEF CommitBallot, RequestsInUse
  <2>2. \A b \in ByElections, v \in Voters :
            ~RoundExists(b) => ballots'[b][v] = ballots[b][v]
    BY <1>2, <2>1, CommitEffect DEF ExistingRounds, Rounds, ConstantsAssumption
  <2>3. QED
    BY <1>1, <2>2 DEF UnannouncedEmpty
<1>3. CASE ballots' = ballots
  BY <1>1, <1>3 DEF UnannouncedEmpty
<1>4. QED
  BY <1>2, <1>3, OnlyCommitRecords
LEMMA SlateStep ==
    ASSUME ConstantsAssumption, TypeOK, ~MayFail, Marks, RequestsInUse, RequestsRead,
           UnannouncedEmpty, BallotsOnTheSlate, [Next]_vars
    PROVE  BallotsOnTheSlate'
<1>1. ASSUME NEW b \in ByElections, NEW v \in Voters, NEW n \in DOMAIN ballots[b][v],
             ballots'[b][v] = ballots[b][v]
      PROVE  ballots'[b][v][n] \subseteq rounds'[b].candidates
  <2>1. ballots[b][v] # <<>>
    OBVIOUS
  <2>2. rounds'[b].candidates = rounds[b].candidates
    BY <2>1, RoundsKept DEF UnannouncedEmpty, Kept
  <2>3. QED
    BY <1>1, <2>2 DEF BallotsOnTheSlate
<1>2. ASSUME NEW q \in Requests, CommitBallot(q)
      PROVE  BallotsOnTheSlate'
  <2> SUFFICES ASSUME NEW b \in ByElections, NEW v \in Voters, NEW n \in DOMAIN ballots'[b][v]
               PROVE  ballots'[b][v][n] \subseteq rounds'[b].candidates
    BY DEF BallotsOnTheSlate
  <2>1. b \in Rounds
    BY DEF Rounds
  <2>2. CASE b = requests[q].round /\ v = requests[q].voter
    <3>1. ballots[b][v] = <<>> /\ RoundExists(b) /\ requests[q].picks \subseteq rounds[b].candidates
      BY <1>2, <2>2, CommitIsInvited
    <3>2. ballots'[b][v] = Append(<<>>, requests[q].picks)
      BY <1>2, <2>1, <2>2, <3>1, CommitEffect
    <3>3. Append(<<>>, requests[q].picks) = <<requests[q].picks>>
      OBVIOUS
    <3>4. ballots'[b][v][n] = requests[q].picks
      BY <3>2, <3>3
    <3>5. rounds'[b].candidates = rounds[b].candidates
      BY <3>1, RoundsKept DEF Kept
    <3>6. QED
      BY <3>1, <3>4, <3>5
  <2>3. CASE ~(b = requests[q].round /\ v = requests[q].voter)
    <3>1. ballots'[b][v] = ballots[b][v]
      BY <1>2, <2>1, <2>3, CommitEffect
    <3>2. QED
      BY <1>1, <3>1
  <2>4. QED
    BY <2>2, <2>3
<1>3. CASE ballots' = ballots
  BY <1>1, <1>3 DEF BallotsOnTheSlate
<1>4. QED
  BY <1>2, <1>3, OnlyCommitRecords

LEMMA EligibleStep ==
    ASSUME ConstantsAssumption, TypeOK, ~MayFail, Marks, RequestsInUse, RequestsRead,
           UnannouncedEmpty, EligibleByElectionBallots, [Next]_vars
    PROVE  EligibleByElectionBallots'
<1>1. ASSUME NEW b \in ByElections, NEW v \in Voters, ballots[b][v] # <<>>
      PROVE  rounds'[b].rule = rounds[b].rule
  BY <1>1, RoundsKept DEF UnannouncedEmpty, Kept
<1>2. ASSUME NEW q \in Requests, CommitBallot(q)
      PROVE  EligibleByElectionBallots'
  <2> SUFFICES ASSUME NEW b \in ByElections, NEW v \in Voters,
                      ballots'[b][v] # <<>>, rounds'[b].rule = "round1_voters"
               PROVE  ballots'[RoundOne][v] # <<>>
    BY DEF EligibleByElectionBallots
  <2>1. b \in Rounds /\ RoundOne \in Rounds /\ b # RoundOne
    BY DEF Rounds, ConstantsAssumption
  <2>2. ballots[RoundOne][v] # <<>> => ballots'[RoundOne][v] # <<>>
    <3>1. CASE RoundOne = requests[q].round /\ v = requests[q].voter
      BY <1>2, <2>1, <3>1, CommitEffect DEF Marks
    <3>2. CASE ~(RoundOne = requests[q].round /\ v = requests[q].voter)
      BY <1>2, <2>1, <3>2, CommitEffect
    <3>3. QED
      BY <3>1, <3>2
  <2>3. CASE b = requests[q].round /\ v = requests[q].voter
    <3>1. RoundExists(b)
      BY <1>2, <2>3, CommitIsInvited
    <3>2. rounds'[b].rule = rounds[b].rule
      BY <3>1, RoundsKept DEF Kept
    <3>3. QED
      BY <1>2, <2>2, <2>3, <3>2, CommitIsInvited
  <2>4. CASE ~(b = requests[q].round /\ v = requests[q].voter)
    <3>1. ballots[b][v] # <<>>
      BY <1>2, <2>1, <2>4, CommitEffect
    <3>2. QED
      BY <1>1, <2>2, <3>1 DEF EligibleByElectionBallots
  <2>5. QED
    BY <2>3, <2>4
<1>3. CASE ballots' = ballots
  BY <1>1, <1>3 DEF EligibleByElectionBallots
<1>4. QED
  BY <1>2, <1>3, OnlyCommitRecords

(* The invariant the theorems below rest on.                                *)
BoxInv == /\ TypeOK /\ Marks /\ RequestsRead /\ UnannouncedEmpty
          /\ ScheduleInUse /\ RequestsInUse /\ TasksInUse

LEMMA BoxInvariant == ASSUME ~MayFail PROVE Spec => []BoxInv
<1>1. Init => BoxInv
  BY ConstantsAssumption, InitTypeOK DEF Init, BoxInv, Marks, RequestsRead, UnannouncedEmpty,
     ScheduleInUse, RequestsInUse, TasksInUse, ExistingRounds, CurrentRound, NoRequest, NoTask,
     Rounds
<1>2. BoxInv /\ [Next]_vars => BoxInv'
  <2> SUFFICES ASSUME BoxInv, [Next]_vars
               PROVE  BoxInv'
    OBVIOUS
  <2> USE ConstantsAssumption DEF BoxInv
  <2>1. TypeOK'
    BY StepTypes
  <2>2. Marks'
    BY MarksStep
  <2>3. RequestsRead' /\ UnannouncedEmpty'
    BY RequestsReadStep, UnannouncedStep
  <2>4. ScheduleInUse' /\ RequestsInUse' /\ TasksInUse'
    BY ScheduleStep, RequestsStep, TasksStep
  <2>5. QED
    BY <2>1, <2>2, <2>3, <2>4
<1>3. QED
  BY <1>1, <1>2, PTL DEF Spec

(* A by-election's ballots name only the candidates whose tie it resolves,  *)
(* whichever round was active when the ballot was sent and checked.         *)
THEOREM SlateRespected == ASSUME ~MayFail PROVE Spec => []BallotsOnTheSlate
<1>1. Init => BallotsOnTheSlate
  BY DEF Init, BallotsOnTheSlate, Rounds
<1>2. BoxInv /\ BallotsOnTheSlate /\ [Next]_vars => BallotsOnTheSlate'
  BY ConstantsAssumption, SlateStep DEF BoxInv
<1>3. QED
  BY <1>1, <1>2, BoxInvariant, PTL DEF Spec

(* A by-election limited to Round 1 voters holds no ballot of anyone else.  *)
THEOREM EligibleOnly == ASSUME ~MayFail PROVE Spec => []EligibleByElectionBallots
<1>1. Init => EligibleByElectionBallots
  BY DEF Init, EligibleByElectionBallots, Rounds
<1>2. BoxInv /\ EligibleByElectionBallots /\ [Next]_vars => EligibleByElectionBallots'
  BY ConstantsAssumption, EligibleStep DEF BoxInv
<1>3. QED
  BY <1>1, <1>2, BoxInvariant, PTL DEF Spec

(* Both: a by-election's ballots are what the by-election announced.        *)
THEOREM ByElectionBallotsAlwaysKept == ASSUME ~MayFail PROVE Spec => []ByElectionBallotsKept
<1>1. BallotsOnTheSlate /\ EligibleByElectionBallots => ByElectionBallotsKept
  BY DEF ByElectionBallotsKept
<1>2. QED
  BY <1>1, SlateRespected, EligibleOnly, PTL

-----------------------------------------------------------------------------
(* The round documents seen from the ballot box: a step that inserts no     *)
(* by-election announces nothing new and withdraws nothing.                 *)
LEMMA AnnouncedSame ==
    ASSUME \A b \in ByElections : /\ RoundExists(b)' <=> RoundExists(b)
                                 /\ rounds'[b].rule = rounds[b].rule
                                 /\ rounds'[b].candidates = rounds[b].candidates
    PROVE  Announced' = Announced
BY DEF Announced

LEMMA InsertAnnounces ==
    ASSUME ConstantsAssumption, TypeOK, UnannouncedEmpty,
           NEW a \in Admins, NEW b \in ByElections, InsertByElection(a, b)
    PROVE  Announced' = Announced \/ Box!Announce(b)
<1>1. /\ ~RoundExists(b) /\ rounds' \in [Rounds -> RoundDoc]
      /\ \A c \in ByElections \ {b} : rounds'[c] = rounds[c]
  BY InsertEffect
<1>2. ballots' = ballots
  BY DEF InsertByElection
<1>3. CASE RoundExists(b)'
  <2> DEFINE notice == [rule |-> rounds'[b].rule, slate |-> rounds'[b].candidates]
  <2>1. notice \in [rule : Rules, slate : SUBSET Candidates]
    BY <1>1 DEF RoundDoc, Rounds
  <2> HIDE DEF notice
  <2>2. Announced' = [Announced EXCEPT ![b] = notice]
    BY <1>1, <1>3 DEF Announced, RoundExists, notice
  <2>3. Announced[b] = None /\ Box!Empty(b)
    BY <1>1 DEF Announced, UnannouncedEmpty, Box!Empty
  <2>4. QED
    BY <1>2, <2>1, <2>2, <2>3 DEF Box!Announce
<1>4. CASE ~RoundExists(b)'
  BY <1>1, <1>4 DEF Announced, RoundExists
<1>5. QED
  BY <1>3, <1>4

LEMMA CommitCasts ==
    ASSUME ConstantsAssumption, BoxInv, NEW q \in Requests, CommitBallot(q)
    PROVE  Box!Cast(requests[q].round, requests[q].voter, requests[q].picks)
<1> DEFINE w == requests[q].voter
           t == requests[q].round
           p == requests[q].picks
<1>1. w \in Voters /\ t \in Rounds
  BY CommitEffect DEF BoxInv
<1>2. /\ ballots[t][w] = <<>>
      /\ t \in ByElections =>
            /\ RoundExists(t)
            /\ p \subseteq rounds[t].candidates
            /\ rounds[t].rule = "round1_voters" => ballots[RoundOne][w] # <<>>
  BY CommitIsInvited DEF BoxInv
<1>3. rounds \in [Rounds -> RoundDoc]
  BY DEF BoxInv, TypeOK, ElectionTypeOK
<1>4. Box!Invited(t, w, p)
  <2>1. ASSUME t \in ByElections
        PROVE  /\ Announced[t] = [rule |-> rounds[t].rule, slate |-> rounds[t].candidates]
               /\ Announced[t] \in [rule : Rules, slate : SUBSET Candidates]
    BY <1>2, <1>3, <2>1 DEF Announced, Rounds, RoundDoc
  <2>2. t \in ByElections => Announced[t] # None
    BY <2>1 DEF ConstantsAssumption
  <2>3. QED
    BY <1>2, <2>1, <2>2 DEF Box!Invited
<1>5. Append(<<>>, p) = <<p>>
  OBVIOUS
<1>6. ballots' = [ballots EXCEPT ![t][w] = <<p>>]
  BY <1>1, <1>2, <1>5 DEF CommitBallot, RecordBallot, BoxInv, TypeOK, BallotTypeOK
<1>7. Announced' = Announced
  BY DEF CommitBallot, electionVars, Announced, RoundExists
<1>8. QED
  BY <1>2, <1>4, <1>6, <1>7 DEF Box!Cast

(* The handlers, caches and administrators together implement the ballot    *)
(* box: every step is a Cast, an Announce or invisible to it.               *)
THEOREM Implements == ASSUME ~MayFail PROVE Spec => KeepsTheBallotBox
<1>1. Init => Box!Init
  BY DEF Init, Box!Init, Announced, RoundExists, NoRound, Rounds
<1>2. BoxInv /\ [Next]_vars => [Box!Next]_(Box!boxVars)
  <2> SUFFICES ASSUME BoxInv, [Next]_vars
               PROVE  [Box!Next]_(Box!boxVars)
    OBVIOUS
  <2>1. ASSUME NEW q \in Requests, CommitBallot(q)
        PROVE  Box!Next
    <3>1. requests[q].voter \in Voters /\ requests[q].round \in Rounds
            /\ requests[q].picks \in BallotPapers
      BY <2>1 DEF CommitBallot, BoxInv, TypeOK, RequestTypeOK
    <3>2. QED
      BY <2>1, <3>1, CommitCasts, ConstantsAssumption DEF Box!Next, Rounds
  <2>2. ASSUME NEW a \in Admins, NEW b \in ByElections, InsertByElection(a, b)
        PROVE  Box!Next \/ UNCHANGED Box!boxVars
    <3>1. ballots' = ballots
      BY <2>2 DEF InsertByElection
    <3>2. Announced' = Announced \/ Box!Announce(b)
      BY <2>2, InsertAnnounces, ConstantsAssumption DEF BoxInv
    <3>3. QED
      BY <3>1, <3>2 DEF Box!Next, Box!boxVars
  <2>3. CASE ballots' = ballots /\ ~\E a \in Admins, b \in ByElections : InsertByElection(a, b)
    <3>1. \A b \in ByElections : /\ RoundExists(b)' <=> RoundExists(b)
                                 /\ rounds'[b].rule = rounds[b].rule
                                 /\ rounds'[b].candidates = rounds[b].candidates
      BY <2>3, RoundSteps, ConstantsAssumption DEF BoxInv, RoundExists, ByElectionFails
    <3>2. QED
      BY <2>3, <3>1, AnnouncedSame DEF Box!boxVars
  <2>4. QED
    BY <2>1, <2>2, <2>3, OnlyCommitRecords DEF BoxInv
<1>3. QED
  BY <1>1, <1>2, BoxInvariant, PTL DEF Spec, KeepsTheBallotBox, Box!Spec
=============================================================================
