---------------------------- MODULE ElectionProofs ----------------------------
(***************************************************************************)
(* More theorems about the election: the reset of it, the ties and the     *)
(* by-elections that resolve them, certification, and a by-election that   *)
(* waits for its window.                                                   *)
(***************************************************************************)
EXTENDS VotingRoundsProofs, ElectionReset

(* A reset beside everything else keeps the types. *)
LEMMA ResetStepTypes ==
    ASSUME ResetTypeOK, [NextWithReset]_allVars
    PROVE  ResetTypeOK'
<1>1. ASSUME [Next]_vars, UNCHANGED resetVars
      PROVE  ResetTypeOK'
  BY <1>1, StepTypes, ConstantsAssumption DEF ResetTypeOK, resetVars
<1>2. ASSUME NEW i \in Instances, StartReset(i)
      PROVE  ResetTypeOK'
  <2>1. WindowToRestore(i) \in AllWindows
    BY DEF WindowToRestore, ResetTypeOK, TypeOK, ElectionTypeOK, RoundDoc, Schedules, Rounds
  <2>2. TypeOK'
    BY <1>2, StepTypes, ConstantsAssumption DEF StartReset, ResetTypeOK
  <2> QED
    BY <1>2, <2>1, <2>2 DEF StartReset, ResetTypeOK, ResetSteps
<1>3. CASE SnapshotFails
  BY <1>3, StepTypes, ConstantsAssumption DEF SnapshotFails, ResetTypeOK, ResetSteps
<1>4. CASE DeleteCodes
  BY <1>4 DEF DeleteCodes, electionVars, ResetTypeOK, ResetSteps, TypeOK, VoterTypeOK,
     ElectionTypeOK, BallotTypeOK, RequestTypeOK, TaskTypeOK
<1>5. CASE ResetVoters
  <2>1. voters' \in [Voters -> VoterDoc]
    BY <1>5, NoJti, ConstantsAssumption DEF ResetVoters, VoterDoc, Rounds
  <2> QED
    BY <1>5, <2>1 DEF ResetVoters, electionVars, ResetTypeOK, ResetSteps, TypeOK, VoterTypeOK,
       ElectionTypeOK, BallotTypeOK, RequestTypeOK, TaskTypeOK
<1>6. CASE DeleteBallots
  <2>1. BallotTypeOK'
    BY <1>6 DEF DeleteBallots, BallotTypeOK
  <2> QED
    BY <1>6, <2>1 DEF DeleteBallots, voterVars, electionVars, ResetTypeOK, ResetSteps, TypeOK,
       VoterTypeOK, ElectionTypeOK, RequestTypeOK, TaskTypeOK
<1>7. ASSUME NEW i \in Instances, DeleteRounds(i)
      PROVE  ResetTypeOK'
  <2>1. ElectionTypeOK /\ RoundOne \in Rounds /\ restored \in AllWindows /\ Closed \in AllWindows
    BY DEF ResetTypeOK, TypeOK, Rounds, AllWindows
  <2>2. /\ schedule' \in Schedules
        /\ cache' \in [Instances -> [schedule : Schedules, is_open : BOOLEAN]]
    BY <1>7, <2>1, WriteScheduleTypes DEF DeleteRounds
  <2>3. ties' \in [Rounds -> [Positions -> TieDoc]]
    BY <1>7 DEF DeleteRounds, NoTie, TieDoc
  <2>4. rounds' \in [Rounds -> RoundDoc]
    <3>1. NoRound \in RoundDoc
      BY <2>1 DEF NoRound, RoundDoc, Rules
    <3>2. \A r \in Rounds : rounds[r] \in RoundDoc /\ [rounds[r] EXCEPT !.status = "deleted"] \in RoundDoc
      BY <2>1 DEF ElectionTypeOK, RoundDoc
    <3> QED
      BY <1>7, <3>1, <3>2 DEF DeleteRounds
  <2>5. ElectionTypeOK'
    BY <1>7, <2>1, <2>2, <2>3, <2>4 DEF DeleteRounds, ElectionTypeOK
  <2> QED
    BY <1>7, <2>5 DEF DeleteRounds, voterVars, ResetTypeOK, ResetSteps, TypeOK, VoterTypeOK,
       BallotTypeOK, RequestTypeOK, TaskTypeOK
<1>8. UNCHANGED allVars => [Next]_vars /\ UNCHANGED resetVars
  BY DEF allVars
<1> QED
  BY <1>1, <1>2, <1>3, <1>4, <1>5, <1>6, <1>7, <1>8 DEF NextWithReset, ResetNext

(* Everything stays well-formed while an election is reset under its voters'  *)
(* and administrators' feet.                                                  *)
THEOREM ResetTypeCorrect == SpecWithReset => []ResetTypeOK
<1>1. ResetInit => ResetTypeOK
  BY InitTypeOK, ConstantsAssumption DEF ResetInit, ResetTypeOK, ResetSteps, AllWindows
<1>2. ResetTypeOK /\ [NextWithReset]_allVars => ResetTypeOK'
  BY ResetStepTypes
<1> QED
  BY <1>1, <1>2, PTL DEF SpecWithReset

-----------------------------------------------------------------------------
(* Every ballot is its voter's only one in the round and the voter is marked, *)
(* except between the step that unmarks the voters and the one that deletes   *)
(* the ballots: what was cast and marked before is a ballot without a mark    *)
(* then, and its voter may cast another.                                      *)
BallotsMarked ==
    \A r \in Rounds, v \in Voters :
        /\ Len(ballots[r][v]) <= 1
        /\ ballots[r][v] # <<>> => r \in voters[v].voted

ResetInv == reset # "ballots" => BallotsMarked

LEMMA BallotsStayMarked ==
    ASSUME TypeOK, BallotsMarked, [Next]_vars
    PROVE  BallotsMarked'
<1>1. ASSUME NEW q \in Requests, CommitBallot(q)
      PROVE  BallotsMarked'
  <2> SUFFICES ASSUME NEW r \in Rounds, NEW v \in Voters
               PROVE  /\ Len(ballots'[r][v]) <= 1
                      /\ ballots'[r][v] # <<>> => r \in voters'[v].voted
    BY DEF BallotsMarked
  <2>1. CASE r = requests[q].round /\ v = requests[q].voter
    <3>1. ballots[r][v] = <<>>
      BY <1>1, <2>1, CommitEffect DEF BallotsMarked
    <3>2. Len(Append(<<>>, requests[q].picks)) = 1
      OBVIOUS
    <3>3. r \in voters'[v].voted /\ ballots'[r][v] = Append(ballots[r][v], requests[q].picks)
      BY <1>1, <2>1, CommitEffect
    <3> QED
      BY <3>1, <3>2, <3>3
  <2>2. CASE ~(r = requests[q].round /\ v = requests[q].voter)
    BY <1>1, <2>2, CommitEffect DEF BallotsMarked
  <2> QED
    BY <2>1, <2>2
<1>2. CASE ballots' = ballots /\ \A v \in Voters : voters'[v].voted = voters[v].voted
  BY <1>2 DEF BallotsMarked
<1> QED
  BY <1>1, <1>2, OnlyCommitRecords

LEMMA ResetInvStep ==
    ASSUME ResetTypeOK, ResetInv, [NextWithReset]_allVars
    PROVE  ResetInv'
<1>1. ASSUME [Next]_vars, UNCHANGED reset
      PROVE  ResetInv'
  BY <1>1, BallotsStayMarked DEF ResetInv, ResetTypeOK
<1>2. CASE ResetVoters
  BY <1>2 DEF ResetVoters, ResetInv
<1>3. CASE DeleteBallots
  <2>1. \A r \in Rounds, v \in Voters : ballots'[r][v] = <<>>
    BY <1>3 DEF DeleteBallots
  <2> QED
    BY <2>1 DEF ResetInv, BallotsMarked
<1>4. CASE SnapshotFails \/ DeleteCodes \/ \E i \in Instances : StartReset(i) \/ DeleteRounds(i)
  <2>1. UNCHANGED <<voters, ballots>> /\ reset # "ballots"
    BY <1>4 DEF SnapshotFails, DeleteCodes, StartReset, DeleteRounds, voterVars, vars
  <2> QED
    BY <2>1 DEF ResetInv, BallotsMarked
<1> QED
  BY <1>1, <1>2, <1>3, <1>4 DEF NextWithReset, ResetNext, resetVars, allVars

(* However the steps of a reset fall between those of voters and              *)
(* administrators (/admin/reset-election takes no lock), once it is over      *)
(* nobody has two ballots in a round, and whoever has one cannot cast         *)
(* another.                                                                   *)
THEOREM NoSecondBallot == SpecWithReset => []NoSecondBallotAfterReset
<1>1. ResetInit => ResetInv
  BY DEF ResetInit, Init, ResetInv, BallotsMarked
<1>2. ResetTypeOK /\ ResetInv /\ [NextWithReset]_allVars => ResetInv'
  BY ResetInvStep
<1>3. ResetInv => NoSecondBallotAfterReset
  BY DEF ResetInv, BallotsMarked, NoSecondBallotAfterReset
<1> QED
  BY <1>1, <1>2, <1>3, ResetTypeCorrect, PTL DEF SpecWithReset

-----------------------------------------------------------------------------
(* One tie each, and the creator about to switch to a by-election still holds *)
(* its tie.                                                                   *)
SwitchersHold ==
    /\ \A a \in Admins : tasks[a].op = "switch_round" =>
          ties[RoundOne][tasks[a].position].by_election = tasks[a].round
    /\ \A a, m \in Admins :
          tasks[a].op = "switch_round" /\ tasks[m].op = "switch_round" /\ a # m =>
              tasks[a].round # tasks[m].round

ResolveInv == ByElectionsResolveTies /\ SwitchersHold

(* The ties of Round 1 and the switches to come, by the steps that change     *)
(* them: creating a by-election, giving it up, and a look at the results,     *)
(* which records ties where there was none.                                   *)
TieKept(p) ==
    \/ ties'[RoundOne][p] = ties[RoundOne][p]
    \/ /\ ties[RoundOne][p].status = "absent"
       /\ ties'[RoundOne][p].status = "pending" /\ ties'[RoundOne][p].by_election = None

LEMMA TieSteps ==
    ASSUME ConstantsAssumption, TypeOK, [Next]_vars
    PROVE  \/ \E a \in Admins, b \in ByElections : InsertByElection(a, b)
           \/ \E a \in Admins : ByElectionFails(a)
           \/ /\ \A p \in Positions : TieKept(p)
              /\ \A a \in Admins : tasks'[a].op = "switch_round" => tasks'[a] = tasks[a]
<1> DEFINE Quiet == /\ \A p \in Positions : TieKept(p)
                    /\ \A a \in Admins : tasks'[a].op = "switch_round" => tasks'[a] = tasks[a]
<1>1. tasks \in [Admins -> Task] /\ ties \in [Rounds -> [Positions -> TieDoc]] /\ RoundOne \in Rounds
  BY DEF TypeOK, TaskTypeOK, ElectionTypeOK, Rounds
<1>2. CASE UNCHANGED <<ties, tasks>>
  BY <1>2 DEF TieKept
<1>3. ASSUME NEW a \in Admins, NEW t, t.op # "switch_round", tasks' = [tasks EXCEPT ![a] = t], UNCHANGED ties
      PROVE  Quiet
  BY <1>1, <1>3 DEF TieKept
<1>4. CASE AdminNext
  <2>1. ASSUME NEW a \in Admins, NEW i \in Instances, ToggleElection(a, i)
        PROVE  Quiet
    <3> DEFINE t == [NoTask EXCEPT !.op = "toggle", !.instance = i, !.value = ~config.is_open]
    <3>1. t.op # "switch_round" /\ tasks' = [tasks EXCEPT ![a] = t] /\ UNCHANGED ties
      BY <2>1 DEF ToggleElection, NoTask, electionVars
    <3> HIDE DEF t
    <3> QED
      BY <1>3, <3>1
  <2>2. ASSUME NEW a \in Admins, NEW i \in Instances, ToggleCertification(a, i)
        PROVE  Quiet
    <3> DEFINE t == [NoTask EXCEPT !.op = "certify", !.instance = i,
                         !.round = CurrentRound(i), !.value = ~Certified(CurrentRound(i))]
    <3>1. t.op # "switch_round" /\ tasks' = [tasks EXCEPT ![a] = t] /\ UNCHANGED ties
      BY <2>2 DEF ToggleCertification, NoTask, electionVars
    <3> HIDE DEF t
    <3> QED
      BY <1>3, <3>1
  <2>3. ASSUME NEW a \in Admins, NEW i \in Instances, NEW p \in Positions, NEW rule \in Rules,
               CreateByElection(a, i, p, rule)
        PROVE  Quiet
    <3> DEFINE t == [NoTask EXCEPT !.op = "insert_round", !.instance = i, !.position = p,
                                   !.rule = rule]
    <3>1. t.op # "switch_round" /\ tasks' = [tasks EXCEPT ![a] = t] /\ UNCHANGED ties
      BY <2>3 DEF CreateByElection, NoTask, electionVars
    <3> HIDE DEF t
    <3> QED
      BY <1>3, <3>1
  <2>4. ASSUME NEW a \in Admins,
               ToggleElectionWrite(a) \/ ToggleCertificationWrite(a) \/ SwitchToByElection(a)
        PROVE  Quiet
    <3>1. NoTask.op # "switch_round"
      BY DEF NoTask
    <3>2. tasks' = [tasks EXCEPT ![a] = NoTask] /\ UNCHANGED ties
      BY <2>4 DEF ToggleElectionWrite, ToggleCertificationWrite, SwitchToByElection
    <3> QED
      BY <1>3, <3>1, <3>2
  <2>5. ASSUME NEW a \in Admins, NEW i \in Instances,
               \/ \E r \in Rounds, w \in Windows : SetPhaseSchedule(a, i, r, w)
               \/ \E b \in ByElections : ResetByElectionSchedule(a, i, b)
        PROVE  UNCHANGED <<ties, tasks>>
    BY <2>5 DEF SetPhaseSchedule, ResetByElectionSchedule
  <2>6. ASSUME NEW i \in Instances, NEW r \in Rounds, DetectTies(i, r)
        PROVE  Quiet
    <3>1. PICK slate : ties' = [ties EXCEPT ![r] = [p \in Positions |->
               IF @[p].status = "absent" /\ TopTied(slate, r, p) # {}
               THEN [status |-> "pending", candidates |-> TopTied(slate, r, p), by_election |-> None]
               ELSE @[p]]]
      BY <2>6 DEF DetectTies
    <3>2. CASE r = RoundOne
      <4> SUFFICES ASSUME NEW p \in Positions PROVE TieKept(p)
        BY <2>6 DEF DetectTies
      <4>1. ties'[RoundOne][p] = IF ties[RoundOne][p].status = "absent" /\ TopTied(slate, r, p) # {}
               THEN [status |-> "pending", candidates |-> TopTied(slate, r, p), by_election |-> None]
               ELSE ties[RoundOne][p]
        BY <1>1, <3>1, <3>2
      <4> QED
        BY <4>1 DEF TieKept
    <3>3. CASE r # RoundOne
      BY <1>1, <2>6, <3>1, <3>3 DEF TieKept, DetectTies
    <3> QED
      BY <3>2, <3>3
  <2>7. ASSUME NEW v \in Grantees, GrantException(v) \/ EndException(v)
        PROVE  UNCHANGED <<ties, tasks>>
    BY <2>7 DEF GrantException, EndException, electionVars
  <2> QED
    BY <1>2, <1>4, <2>1, <2>2, <2>3, <2>4, <2>5, <2>6, <2>7 DEF AdminNext
<1>5. CASE VoterNext \/ UNCHANGED vars \/ Tick \/ \E i \in Instances : CacheExpires(i)
  BY <1>2, <1>5, VoterKeepsElection DEF vars, electionVars, Tick, CacheExpires
<1> QED
  BY <1>4, <1>5 DEF Next

(* What ByElectionsResolveTies says of one by-election and of one tie, now and *)
(* after a step.                                                              *)
Tie(p) == ties[RoundOne][p]

Resolves(p, b) == Tie(p).by_election = b /\ Tie(p).candidates = rounds[b].candidates

TieSound(p) ==
    /\ Tie(p).status = "by_election_ordered" <=> Tie(p).by_election # None
    /\ Tie(p).by_election # None => RoundExists(Tie(p).by_election)
    /\ Tie(p).by_election # None =>
          \A o \in Positions \ {p} : Tie(o).by_election # Tie(p).by_election

LEMMA TieFacts ==
    /\ ByElectionsResolveTies =>
          /\ \A b \in ByElections : RoundExists(b) => \E p \in Positions : Resolves(p, b)
          /\ \A p \in Positions : TieSound(p)
    /\ /\ \A b \in ByElections : RoundExists(b)' => \E p \in Positions : Resolves(p, b)'
       /\ \A p \in Positions : TieSound(p)'
       => ByElectionsResolveTies'
  BY DEF ByElectionsResolveTies, Resolves, TieSound, Tie, RoundExists

LEMMA TieTypes ==
    ASSUME ConstantsAssumption, TypeOK
    PROVE  /\ \A p \in Positions : Tie(p) \in TieDoc /\ Tie(p).by_election \in ByElections \cup {None}
           /\ \A a \in Admins : tasks[a].op = "switch_round" =>
                 tasks[a].position \in Positions /\ tasks[a].round \in ByElections
           /\ \A a \in Admins : tasks[a].op = "insert_round" => tasks[a].position \in Positions
           /\ \A b \in ByElections : b # None
  BY DEF Tie, TypeOK, ElectionTypeOK, TaskTypeOK, TieDoc, Rounds, ConstantsAssumption

LEMMA InsertResolves ==
    ASSUME ConstantsAssumption, TypeOK, ResolveInv, NEW a \in Admins, NEW b \in ByElections,
           InsertByElection(a, b)
    PROVE  ResolveInv'
<1>0. PICK p \in Positions : p = tasks[a].position
  BY TieTypes DEF InsertByElection
<1>1. /\ tasks[a].op = "insert_round"
      /\ tasks \in [Admins -> Task] /\ ties \in [Rounds -> [Positions -> TieDoc]]
      /\ rounds \in [Rounds -> RoundDoc] /\ RoundOne \in Rounds /\ b \in Rounds
  BY DEF InsertByElection, TypeOK, TaskTypeOK, ElectionTypeOK, Rounds
<1>2. /\ \A c \in ByElections \ {b} : rounds'[c] = rounds[c]
      /\ ~RoundExists(b)
      /\ \A m \in Admins \ {a} : tasks'[m] = tasks[m]
  BY InsertEffect
<1>3. \A c \in ByElections \ {b} : RoundExists(c)' <=> RoundExists(c)
  BY <1>2 DEF RoundExists
<1>4. /\ \A c \in ByElections : RoundExists(c) => \E o \in Positions : Resolves(o, c)
      /\ \A o \in Positions : TieSound(o)
      /\ SwitchersHold
  BY TieFacts DEF ResolveInv
<1>5. \A o \in Positions : Tie(o).by_election # b
  BY <1>2, <1>4, TieTypes DEF TieSound
<1>6. CASE ~TieIsFree(p)
  <2>1. LoseTie(a, b)
    BY <1>0, <1>6 DEF InsertByElection
  <2>2. rounds'[b].status = "deleted" /\ \A o \in Positions : Tie(o)' = Tie(o)
    BY <1>1, <2>1 DEF LoseTie, Tie
  <2>3. tasks'[a].op = "idle"
    BY <1>1, <2>1 DEF LoseTie, NoTask
  <2>4. ~RoundExists(b)'
    BY <2>2 DEF RoundExists
  <2>5. ASSUME NEW c \in ByElections, RoundExists(c)'
        PROVE  \E o \in Positions : Resolves(o, c)'
    <3>1. c # b /\ RoundExists(c)
      BY <1>3, <2>4, <2>5
    <3>2. PICK o \in Positions : Resolves(o, c)
      BY <1>4, <3>1
    <3> QED
      BY <1>2, <2>2, <3>1, <3>2 DEF Resolves
  <2>6. ASSUME NEW o \in Positions
        PROVE  TieSound(o)'
    <3>1. Tie(o).by_election # None =>
             rounds'[Tie(o).by_election].status \notin {"absent", "deleted"}
      <4>1. Tie(o).by_election # None => Tie(o).by_election \in ByElections \ {b}
        BY <1>5, TieTypes
      <4> QED
        BY <1>3, <1>4, <4>1 DEF TieSound, RoundExists
    <3> QED
      BY <1>4, <2>2, <3>1 DEF TieSound, RoundExists
  <2>7. SwitchersHold'
    BY <1>2, <1>4, <2>2, <2>3, TieTypes DEF SwitchersHold, Tie
  <2> QED
    BY <2>5, <2>6, <2>7, TieFacts DEF ResolveInv
<1>7. CASE TieIsFree(p)
  <2>1. ClaimTie(a, b)
    BY <1>0, <1>7 DEF InsertByElection
  <2>2. /\ rounds'[b].status = "scheduled" /\ rounds'[b].candidates = Tie(p).candidates
    BY <1>0, <1>1, <2>1 DEF ClaimTie, Tie
  <2>3. RoundExists(b)'
    BY <2>2 DEF RoundExists
  <2>4. \A o \in Positions \ {p} : Tie(o)' = Tie(o)
    BY <1>0, <1>1, <2>1 DEF ClaimTie, Tie
  <2>5. /\ Tie(p)'.by_election = b /\ Tie(p)'.status = "by_election_ordered"
        /\ Tie(p)'.candidates = Tie(p).candidates
    BY <1>0, <1>1, <2>1 DEF ClaimTie, Tie, TieDoc
  <2>7. Tie(p).by_election = None
    BY <1>7 DEF TieIsFree, Tie
  <2>8. ASSUME NEW c \in ByElections, RoundExists(c)'
        PROVE  \E o \in Positions : Resolves(o, c)'
    <3>1. CASE c = b
      BY <2>2, <2>4, <2>5, <3>1 DEF Resolves
    <3>2. CASE c # b
      <4>1. PICK o \in Positions : Resolves(o, c)
        BY <1>3, <1>4, <2>8, <3>2
      <4>2. o # p /\ rounds'[c] = rounds[c]
        BY <1>2, <2>7, <3>2, <4>1, TieTypes DEF Resolves
      <4> QED
        BY <2>4, <2>5, <4>1, <4>2 DEF Resolves
    <3> QED
      BY <3>1, <3>2
  <2>9. ASSUME NEW o \in Positions
        PROVE  TieSound(o)'
    <3>1. CASE o = p
      <4>1. \A n \in Positions \ {p} : Tie(n)'.by_election # b
        BY <1>5, <2>4
      <4>2. Tie(o)'.by_election = b /\ b # None
        BY <2>4, <2>5, <3>1, TieTypes
      <4> QED
        BY <2>3, <2>4, <2>5, <3>1, <4>1, <4>2 DEF TieSound, RoundExists
    <3>2. CASE o # p
      <4>1. Tie(o).by_election # None =>
             rounds'[Tie(o).by_election].status \notin {"absent", "deleted"}
        <5>1. Tie(o).by_election # None => Tie(o).by_election \in ByElections \ {b}
          BY <1>5, TieTypes
        <5> QED
          BY <1>3, <1>4, <5>1 DEF TieSound, RoundExists
      <4>2. \A n \in Positions \ {o} : Tie(n)'.by_election \in {b, Tie(n).by_election}
        BY <2>4, <2>5
      <4>3. \A n \in Positions \ {o} : Tie(o).by_election # None =>
               Tie(n)'.by_election # Tie(o).by_election
        BY <1>4, <1>5, <4>2 DEF TieSound
      <4>4. Tie(o)' = Tie(o)
        BY <2>4, <2>5, <3>2
      <4> QED
        BY <1>4, <4>1, <4>3, <4>4 DEF TieSound, RoundExists
    <3> QED
      BY <3>1, <3>2
  <2>10. SwitchersHold'
    <3>1. tasks'[a].op = "switch_round" /\ tasks'[a].round = b /\ tasks'[a].position = p
      BY <1>0, <1>1, <2>1 DEF ClaimTie, Task
    <3>2. ASSUME NEW m \in Admins \ {a}, tasks[m].op = "switch_round"
          PROVE  tasks[m].position # p /\ tasks[m].round # b /\ tasks[m].position \in Positions
      <4>1. Tie(tasks[m].position).by_election = tasks[m].round
        BY <1>4, <3>2 DEF SwitchersHold, Tie
      <4> QED
        BY <1>5, <2>7, <3>2, <4>1, TieTypes
    <3>3. ASSUME NEW m \in Admins, tasks'[m].op = "switch_round"
          PROVE  ties'[RoundOne][tasks'[m].position].by_election = tasks'[m].round
      <4>1. CASE m = a
        BY <2>5, <3>1, <4>1 DEF Tie
      <4>2. CASE m # a
        <5>1. Tie(tasks[m].position).by_election = tasks[m].round
          BY <1>2, <1>4, <3>3, <4>2 DEF SwitchersHold, Tie
        <5> QED
          BY <1>2, <2>4, <3>2, <3>3, <4>2, <5>1 DEF Tie
      <4> QED
        BY <4>1, <4>2
    <3>4. \A m, n \in Admins : tasks'[m].op = "switch_round" /\ tasks'[n].op = "switch_round" /\ m # n
             => tasks'[m].round # tasks'[n].round
      BY <1>2, <1>4, <3>1, <3>2 DEF SwitchersHold
    <3> QED
      BY <3>3, <3>4 DEF SwitchersHold
  <2> QED
    BY <2>8, <2>9, <2>10, TieFacts DEF ResolveInv
<1> QED
  BY <1>6, <1>7

LEMMA FailureResolves ==
    ASSUME ConstantsAssumption, TypeOK, ResolveInv, NEW a \in Admins, ByElectionFails(a)
    PROVE  ResolveInv'
<1>1. PICK p \in Positions, b \in ByElections : p = tasks[a].position /\ b = tasks[a].round
  BY TieTypes DEF ByElectionFails
<1>2. /\ tasks[a].op = "switch_round"
      /\ tasks \in [Admins -> Task] /\ ties \in [Rounds -> [Positions -> TieDoc]]
      /\ rounds \in [Rounds -> RoundDoc] /\ RoundOne \in Rounds /\ b \in Rounds
  BY DEF ByElectionFails, TypeOK, TaskTypeOK, ElectionTypeOK, Rounds
<1>3. /\ \A c \in ByElections : RoundExists(c) => \E o \in Positions : Resolves(o, c)
      /\ \A o \in Positions : TieSound(o)
      /\ SwitchersHold
  BY TieFacts DEF ResolveInv
<1>4. Tie(p).by_election = b
  BY <1>1, <1>2, <1>3 DEF SwitchersHold, Tie
<1> DEFINE t == [Tie(p) EXCEPT !.by_election = None, !.status = "pending"]
<1>5. ties' = [ties EXCEPT ![RoundOne][p] = t]
  BY <1>1, <1>2, <1>4 DEF ByElectionFails, Tie
<1>6. t.by_election = None /\ t.status = "pending"
  BY TieTypes DEF TieDoc
<1> HIDE DEF t
<1>7. Tie(p)' = t /\ \A o \in Positions \ {p} : Tie(o)' = Tie(o)
  BY <1>2, <1>5 DEF Tie
<1>8. rounds' = [rounds EXCEPT ![b].status = "deleted"]
  BY <1>1 DEF ByElectionFails
<1>9. /\ rounds'[b].status = "deleted" /\ \A c \in ByElections \ {b} : rounds'[c] = rounds[c]
  BY <1>2, <1>8 DEF RoundDoc, Rounds
<1>10. ~RoundExists(b)' /\ \A c \in ByElections \ {b} : RoundExists(c)' <=> RoundExists(c)
  BY <1>9 DEF RoundExists
<1>11. \A o \in Positions \ {p} : Tie(o).by_election # b
  BY <1>3, <1>4, TieTypes DEF TieSound
<1>12. ASSUME NEW c \in ByElections, RoundExists(c)'
       PROVE  \E o \in Positions : Resolves(o, c)'
  <2>1. c # b /\ rounds'[c] = rounds[c] /\ RoundExists(c)
    BY <1>9, <1>10, <1>12
  <2>2. PICK o \in Positions : Resolves(o, c)
    BY <1>3, <2>1
  <2>3. o # p
    BY <1>4, <2>1, <2>2 DEF Resolves
  <2> QED
    BY <1>7, <2>1, <2>2, <2>3 DEF Resolves
<1>13. ASSUME NEW o \in Positions
       PROVE  TieSound(o)'
  <2>1. CASE o = p
    BY <1>6, <1>7, <2>1 DEF TieSound
  <2>2. CASE o # p
    <3>1. Tie(o).by_election # None =>
             rounds'[Tie(o).by_election].status \notin {"absent", "deleted"}
      <4>1. Tie(o).by_election # None => Tie(o).by_election \in ByElections \ {b}
        BY <1>11, <2>2, TieTypes
      <4> QED
        BY <1>3, <1>10, <4>1 DEF TieSound, RoundExists
    <3>2. \A n \in Positions \ {o} : Tie(n)'.by_election \in {None, Tie(n).by_election}
      BY <1>6, <1>7
    <3>3. \A n \in Positions \ {o} : Tie(o).by_election # None =>
             Tie(n)'.by_election # Tie(o).by_election
      BY <1>3, <3>2 DEF TieSound
    <3>4. Tie(o)' = Tie(o)
      BY <1>7, <2>2
    <3> QED
      BY <1>3, <3>1, <3>3, <3>4 DEF TieSound, RoundExists
  <2> QED
    BY <2>1, <2>2
<1>14. SwitchersHold'
  <2>1. tasks'[a].op = "idle" /\ \A m \in Admins \ {a} : tasks'[m] = tasks[m]
    BY <1>2 DEF ByElectionFails, NoTask
  <2>2. ASSUME NEW m \in Admins \ {a}, tasks[m].op = "switch_round"
        PROVE  /\ ties'[RoundOne][tasks[m].position] = Tie(tasks[m].position)
               /\ Tie(tasks[m].position).by_election = tasks[m].round
    <3>1. tasks[m].round # b /\ Tie(tasks[m].position).by_election = tasks[m].round
      BY <1>1, <1>2, <1>3, <2>2 DEF SwitchersHold, Tie
    <3>2. tasks[m].position # p
      BY <1>4, <3>1
    <3> QED
      BY <1>7, <2>2, <3>1, <3>2, TieTypes DEF Tie
  <2> QED
    BY <1>3, <2>1, <2>2 DEF SwitchersHold, Tie
<1> QED
  BY <1>12, <1>13, <1>14, TieFacts DEF ResolveInv

LEMMA ResolveStep ==
    ASSUME ConstantsAssumption, TypeOK, ResolveInv, [Next]_vars
    PROVE  ResolveInv'
<1>1. CASE \E a \in Admins, b \in ByElections : InsertByElection(a, b)
  BY <1>1, InsertResolves
<1>2. CASE \E a \in Admins : ByElectionFails(a)
  BY <1>2, FailureResolves
<1>3. CASE /\ ~(\E a \in Admins, b \in ByElections : InsertByElection(a, b))
           /\ ~(\E a \in Admins : ByElectionFails(a))
  <2>1. /\ \A p \in Positions : TieKept(p)
        /\ \A a \in Admins : tasks'[a].op = "switch_round" => tasks'[a] = tasks[a]
    BY <1>3, TieSteps
  <2>2. \A b \in ByElections : /\ RoundExists(b)' <=> RoundExists(b)
                               /\ rounds'[b].candidates = rounds[b].candidates
    BY <1>3, RoundSteps DEF RoundExists
  <2>3. /\ \A c \in ByElections : RoundExists(c) => \E o \in Positions : Resolves(o, c)
        /\ \A o \in Positions : TieSound(o)
        /\ SwitchersHold
    BY TieFacts DEF ResolveInv
  <2>4. \A p \in Positions :
           /\ Tie(p)'.by_election = Tie(p).by_election
           /\ Tie(p)'.status = "by_election_ordered" <=> Tie(p).status = "by_election_ordered"
           /\ Tie(p).by_election # None => Tie(p)' = Tie(p)
    BY <2>1, <2>3 DEF TieKept, TieSound, Tie
  <2>5. ASSUME NEW b \in ByElections, RoundExists(b)'
        PROVE  \E p \in Positions : Resolves(p, b)'
    <3>1. PICK p \in Positions : Resolves(p, b)
      BY <2>2, <2>3, <2>5
    <3> QED
      BY <2>2, <2>4, <3>1, TieTypes DEF Resolves
  <2>6. ASSUME NEW p \in Positions
        PROVE  TieSound(p)'
    <3>1. Tie(p).by_election # None =>
             rounds'[Tie(p).by_election].status \notin {"absent", "deleted"}
      <4>1. Tie(p).by_election # None => Tie(p).by_election \in ByElections
        BY TieTypes
      <4> QED
        BY <2>2, <2>3, <4>1 DEF TieSound, RoundExists
    <3> QED
      BY <2>3, <2>4, <3>1 DEF TieSound, RoundExists
  <2>7. SwitchersHold'
    BY <2>1, <2>3, <2>4, TieTypes DEF SwitchersHold, Tie
  <2> QED
    BY <2>5, <2>6, <2>7, TieFacts DEF ResolveInv
<1> QED
  BY <1>1, <1>2, <1>3

LEMMA InitResolves ==
    ASSUME Init
    PROVE  ResolveInv
BY ConstantsAssumption DEF Init, ResolveInv, ByElectionsResolveTies, SwitchersHold, RoundExists,
   NoRound, NoTie, NoTask, Rounds, ConstantsAssumption

(* However requests for by-elections overlap and fail                         *)
(* (/superadmin/by-elections): a by-election that exists resolves one tie of  *)
(* Round 1, no two the same, and a tie that was taken names a by-election     *)
(* that exists.                                                               *)
THEOREM TiesResolvedOnce == Spec => []ByElectionsResolveTies
<1>1. Init => ResolveInv
  BY InitResolves
<1>2. TypeOK /\ ResolveInv /\ [Next]_vars => ResolveInv'
  BY ResolveStep, ConstantsAssumption
<1>3. ResolveInv => ByElectionsResolveTies
  BY DEF ResolveInv
<1> QED
  BY <1>1, <1>2, <1>3, TypeCorrect, PTL DEF Spec

-----------------------------------------------------------------------------
(* Before there is a by-election everything is about Round 1, and what the    *)
(* request of the one administrator has read still holds when it writes.      *)
BeforeByElections == \A b \in ByElections : rounds[b].status = "absent"

OnlyRoundOne ==
    /\ schedule.round = RoundOne
    /\ \A i \in Instances : CurrentRound(i) = RoundOne
    /\ \A a \in Admins : /\ tasks[a].op = "certify" => tasks[a].round = RoundOne
                         /\ tasks[a].op # "switch_round"

ReadsHold ==
    \A a \in Admins :
        /\ tasks[a].op = "toggle" /\ tasks[a].value => ~config.is_certified
        /\ tasks[a].op = "certify" /\ tasks[a].value => ~config.is_open

NotBoth == ~(config.is_open /\ config.is_certified)

CertifiedInv == BeforeByElections => OnlyRoundOne /\ ReadsHold /\ NotBoth

(* An id that was drawn is never free again. *)
LEMMA DrawnStaysDrawn ==
    ASSUME ConstantsAssumption, TypeOK, [Next]_vars, BeforeByElections'
    PROVE  BeforeByElections
<1>1. rounds \in [Rounds -> RoundDoc] /\ \A b \in ByElections : b \in Rounds /\ b # RoundOne
  BY DEF TypeOK, ElectionTypeOK, Rounds, ConstantsAssumption
<1>2. ASSUME NEW r \in Rounds, NEW d, rounds' = [rounds EXCEPT ![r] = d],
             r = RoundOne \/ d.status # "absent"
      PROVE  BeforeByElections
  BY <1>1, <1>2 DEF BeforeByElections
<1>3. CASE rounds' = rounds
  BY <1>3 DEF BeforeByElections
<1>4. CASE AdminNext
  <2>1. ASSUME NEW a \in Admins, ToggleCertificationWrite(a)
        PROVE  BeforeByElections
    <3> DEFINE r == tasks[a].round
    <3>1. r \in Rounds
      BY <2>1 DEF ToggleCertificationWrite, TypeOK, TaskTypeOK
    <3>2. PICK status \in {"certified", "closed", "scheduled"} :
             rounds' = rounds \/ rounds' = [rounds EXCEPT ![r].status = status]
      BY <2>1, <3>1 DEF ToggleCertificationWrite
    <3> DEFINE d == [rounds[r] EXCEPT !.status = status]
    <3>3. d.status # "absent" /\ (rounds' = rounds \/ rounds' = [rounds EXCEPT ![r] = d])
      BY <1>1, <3>1, <3>2 DEF RoundDoc
    <3> HIDE DEF d, r
    <3> QED
      BY <1>2, <1>3, <3>1, <3>3
  <2>2. ASSUME NEW a \in Admins, NEW b \in ByElections, InsertByElection(a, b)
        PROVE  BeforeByElections
    <3>1. rounds'[b].status \in {"scheduled", "deleted"}
      BY <1>1, <2>2 DEF InsertByElection, ClaimTie, LoseTie, RoundDoc
    <3> QED
      BY <3>1 DEF BeforeByElections
  <2>3. ASSUME NEW a \in Admins, ByElectionFails(a)
        PROVE  BeforeByElections
    <3>1. PICK b \in ByElections : b = tasks[a].round
      BY <2>3 DEF ByElectionFails, TypeOK, TaskTypeOK
    <3>2. rounds'[b].status = "deleted"
      BY <1>1, <2>3, <3>1 DEF ByElectionFails, RoundDoc
    <3> QED
      BY <3>2 DEF BeforeByElections
  <2>4. ASSUME NEW a \in Admins, NEW i \in Instances, NEW r \in Rounds, NEW w \in Windows,
               SetPhaseSchedule(a, i, r, w)
        PROVE  BeforeByElections
    <3> DEFINE real == w # Closed /\ w # Unenforced
               d == [rounds[r] EXCEPT !.window = w, !.status = "scheduled",
                                      !.schedule_set = @ \/ real]
    <3>1. rounds' = rounds \/ rounds' = [rounds EXCEPT ![r] = d]
      BY <2>4 DEF SetPhaseSchedule
    <3>2. d.status # "absent"
      BY <1>1 DEF RoundDoc
    <3> HIDE DEF d
    <3> QED
      BY <1>2, <1>3, <3>1, <3>2
  <2>5. ASSUME NEW a \in Admins, NEW i \in Instances, NEW b \in ByElections,
               ResetByElectionSchedule(a, i, b)
        PROVE  BeforeByElections
    <3> DEFINE d == [rounds[b] EXCEPT !.window = Closed]
    <3>1. rounds' = [rounds EXCEPT ![b] = d] /\ RoundExists(b)
      BY <2>5 DEF ResetByElectionSchedule
    <3>2. d.status # "absent"
      BY <1>1, <3>1 DEF RoundDoc, RoundExists
    <3> HIDE DEF d
    <3> QED
      BY <1>1, <1>2, <3>1, <3>2
  <2>6. ASSUME NEW i \in Instances, NEW r \in Rounds, DetectTies(i, r)
        PROVE  BeforeByElections
    <3>1. PICK d : rounds' = rounds \/ (r = RoundOne /\ rounds' = [rounds EXCEPT ![r] = d])
      BY <2>6 DEF DetectTies
    <3> QED
      BY <1>2, <1>3, <3>1
  <2>7. ASSUME NEW a \in Admins, NEW i \in Instances,
               \/ ToggleElection(a, i) \/ ToggleCertification(a, i)
               \/ \E p \in Positions, rule \in Rules : CreateByElection(a, i, p, rule)
        PROVE  rounds' = rounds
    BY <2>7 DEF ToggleElection, ToggleCertification, CreateByElection, electionVars
  <2>8. ASSUME NEW a \in Admins, ToggleElectionWrite(a) \/ SwitchToByElection(a)
        PROVE  rounds' = rounds
    BY <2>8 DEF ToggleElectionWrite, SwitchToByElection
  <2>9. ASSUME NEW v \in Grantees, GrantException(v) \/ EndException(v)
        PROVE  rounds' = rounds
    BY <2>9 DEF GrantException, EndException, electionVars
  <2> QED
    BY <1>3, <1>4, <2>1, <2>2, <2>3, <2>4, <2>5, <2>6, <2>7, <2>8, <2>9 DEF AdminNext
<1>5. CASE VoterNext \/ UNCHANGED vars \/ Tick \/ \E i \in Instances : CacheExpires(i)
  BY <1>3, <1>5, VoterKeepsElection DEF vars, electionVars, Tick, CacheExpires
<1> QED
  BY <1>4, <1>5 DEF Next

LEMMA CertifiedStep ==
    ASSUME ConstantsAssumption, \A a, m \in Admins : a = m,
           TypeOK, OnlyRoundOne, ReadsHold, NotBoth, BeforeByElections,
           [Next]_vars, BeforeByElections'
    PROVE  OnlyRoundOne' /\ ReadsHold' /\ NotBoth'
<1> DEFINE Good == OnlyRoundOne' /\ ReadsHold' /\ NotBoth'
<1>1. /\ tasks \in [Admins -> Task] /\ config \in [is_open : BOOLEAN, is_certified : BOOLEAN]
      /\ cache \in [Instances -> [schedule : Schedules, is_open : BOOLEAN]]
      /\ rounds \in [Rounds -> RoundDoc]
  BY DEF TypeOK, TaskTypeOK, ElectionTypeOK
<1>2. \A b \in ByElections : ~RoundExists(b) /\ b \in Rounds /\ b # RoundOne
  BY DEF BeforeByElections, RoundExists, Rounds, ConstantsAssumption
<1>3. CASE UNCHANGED <<config, schedule, cache, tasks>>
  BY <1>3 DEF OnlyRoundOne, ReadsHold, NotBoth, CurrentRound
<1>4. ASSUME NEW i \in Instances, cache' = [cache EXCEPT ![i] = Fresh(config, schedule)],
             UNCHANGED <<config, schedule, tasks>>
      PROVE  Good
  BY <1>1, <1>4 DEF OnlyRoundOne, ReadsHold, NotBoth, CurrentRound, Fresh
<1>5. ASSUME NEW a \in Admins, NEW t, tasks' = [tasks EXCEPT ![a] = t],
             t.op = "certify" => t.round = RoundOne, t.op # "switch_round",
             t.op = "toggle" /\ t.value => ~config.is_certified,
             t.op = "certify" /\ t.value => ~config.is_open,
             UNCHANGED <<config, schedule, cache>>
      PROVE  Good
  BY <1>1, <1>5 DEF OnlyRoundOne, ReadsHold, NotBoth, CurrentRound
<1>6. ASSUME NEW a \in Admins, NEW i \in Instances, NEW cfg \in [is_open : BOOLEAN, is_certified : BOOLEAN],
             tasks' = [tasks EXCEPT ![a] = NoTask], ~(config'.is_open /\ config'.is_certified),
             cache' = [cache EXCEPT ![i] = Fresh(cfg, schedule)], UNCHANGED schedule
      PROVE  Good
  <2>1. \A m \in Admins : tasks'[m].op = "idle"
    BY <1>1, <1>6 DEF NoTask
  <2>2. \A n \in Instances : cache'[n].schedule.round = RoundOne
    BY <1>1, <1>6 DEF OnlyRoundOne, CurrentRound, Fresh
  <2> QED
    BY <1>6, <2>1, <2>2 DEF OnlyRoundOne, ReadsHold, NotBoth, CurrentRound
<1>7. CASE AdminNext
  <2>1. ASSUME NEW a \in Admins, NEW i \in Instances, ToggleElection(a, i)
        PROVE  Good
    <3> DEFINE t == [NoTask EXCEPT !.op = "toggle", !.instance = i, !.value = ~config.is_open]
    <3>1. tasks' = [tasks EXCEPT ![a] = t] /\ UNCHANGED <<config, schedule, cache>>
      BY <2>1 DEF ToggleElection, electionVars
    <3>2. t.op = "toggle" /\ t.value = ~config.is_open
      BY DEF NoTask
    <3>3. CurrentRound(i) = RoundOne
      BY DEF OnlyRoundOne
    <3>4. ~config.is_open => ~config.is_certified
      BY <2>1, <3>3 DEF ToggleElection
    <3> HIDE DEF t
    <3> QED
      BY <1>5, <3>1, <3>2, <3>4
  <2>2. ASSUME NEW a \in Admins, NEW i \in Instances, ToggleCertification(a, i)
        PROVE  Good
    <3> DEFINE t == [NoTask EXCEPT !.op = "certify", !.instance = i,
                         !.round = CurrentRound(i), !.value = ~Certified(CurrentRound(i))]
    <3>1. tasks' = [tasks EXCEPT ![a] = t] /\ UNCHANGED <<config, schedule, cache>>
      BY <2>2 DEF ToggleCertification, electionVars
    <3>2. CurrentRound(i) = RoundOne
      BY DEF OnlyRoundOne
    <3>3. t.op = "certify" /\ t.round = RoundOne /\ t.value = ~config.is_certified
      BY <3>2 DEF NoTask, Certified
    <3>4. config.is_certified \/ ~config.is_open
      BY <2>2, <3>2 DEF ToggleCertification, Certified
    <3> HIDE DEF t
    <3> QED
      BY <1>5, <3>1, <3>3, <3>4
  <2>3. ASSUME NEW a \in Admins, NEW i \in Instances, NEW p \in Positions, NEW rule \in Rules,
               CreateByElection(a, i, p, rule)
        PROVE  Good
    <3> DEFINE t == [NoTask EXCEPT !.op = "insert_round", !.instance = i, !.position = p,
                                   !.rule = rule]
    <3>1. tasks' = [tasks EXCEPT ![a] = t] /\ UNCHANGED <<config, schedule, cache>>
      BY <2>3 DEF CreateByElection, electionVars
    <3>2. t.op = "insert_round"
      BY DEF NoTask
    <3> HIDE DEF t
    <3> QED
      BY <1>5, <3>1, <3>2
  <2>4. ASSUME NEW a \in Admins, ToggleElectionWrite(a)
        PROVE  Good
    <3>1. tasks[a].op = "toggle" /\ tasks[a].instance \in Instances
      BY <2>4 DEF ToggleElectionWrite, TypeOK, TaskTypeOK
    <3>2. config' = [config EXCEPT !.is_open = tasks[a].value] /\ tasks[a].value \in BOOLEAN
      BY <1>1, <2>4 DEF ToggleElectionWrite, Task
    <3>3. ~(config'.is_open /\ config'.is_certified)
      BY <1>1, <3>1, <3>2 DEF ReadsHold
    <3>4. config' \in [is_open : BOOLEAN, is_certified : BOOLEAN]
      BY <1>1, <3>2
    <3> QED
      BY <1>6, <2>4, <3>1, <3>3, <3>4 DEF ToggleElectionWrite
  <2>5. ASSUME NEW a \in Admins, ToggleCertificationWrite(a)
        PROVE  Good
    <3>1. tasks[a].op = "certify" /\ tasks[a].instance \in Instances /\ tasks[a].round = RoundOne
      BY <2>5 DEF ToggleCertificationWrite, TypeOK, TaskTypeOK, OnlyRoundOne
    <3>2. config' = [config EXCEPT !.is_certified = tasks[a].value] /\ tasks[a].value \in BOOLEAN
      BY <1>1, <2>5, <3>1 DEF ToggleCertificationWrite, Task
    <3>3. ~(config'.is_open /\ config'.is_certified)
      BY <1>1, <3>1, <3>2 DEF ReadsHold
    <3> QED
      BY <1>1, <1>6, <2>5, <3>1, <3>3 DEF ToggleCertificationWrite
  <2>6. ASSUME NEW a \in Admins, NEW b \in ByElections, InsertByElection(a, b)
        PROVE  FALSE
    <3>1. rounds'[b].status \in {"scheduled", "deleted"}
      BY <1>1, <1>2, <2>6 DEF InsertByElection, ClaimTie, LoseTie, RoundDoc
    <3> QED
      BY <3>1 DEF BeforeByElections
  <2>7. ASSUME NEW a \in Admins, SwitchToByElection(a) \/ ByElectionFails(a)
        PROVE  FALSE
    BY <2>7 DEF SwitchToByElection, ByElectionFails, OnlyRoundOne
  <2>8. ASSUME NEW a \in Admins, NEW i \in Instances, NEW r \in Rounds, NEW w \in Windows,
               SetPhaseSchedule(a, i, r, w)
        PROVE  Good
    <3>1. r = RoundOne
      BY <1>2, <2>8 DEF SetPhaseSchedule, Rounds
    <3>2. schedule'.round = RoundOne /\ \A n \in Instances : cache'[n].schedule.round = RoundOne
      BY <1>1, <2>8, <3>1 DEF SetPhaseSchedule, WriteSchedule, OnlyRoundOne, CurrentRound
    <3> QED
      BY <2>8, <3>2 DEF SetPhaseSchedule, OnlyRoundOne, ReadsHold, NotBoth, CurrentRound
  <2>9. ASSUME NEW a \in Admins, NEW i \in Instances, NEW b \in ByElections,
               ResetByElectionSchedule(a, i, b)
        PROVE  FALSE
    BY <1>2, <2>9 DEF ResetByElectionSchedule
  <2>10. ASSUME NEW i \in Instances, NEW r \in Rounds, DetectTies(i, r)
         PROVE  Good
    BY <1>3, <2>10 DEF DetectTies
  <2>11. ASSUME NEW v \in Grantees, GrantException(v) \/ EndException(v)
         PROVE  Good
    BY <1>3, <2>11 DEF GrantException, EndException, electionVars
  <2> QED
    BY <1>7, <2>1, <2>2, <2>3, <2>4, <2>5, <2>6, <2>7, <2>8, <2>9, <2>10, <2>11 DEF AdminNext
<1>8. ASSUME NEW i \in Instances, CacheExpires(i)
      PROVE  Good
  BY <1>4, <1>8 DEF CacheExpires
<1>9. CASE VoterNext \/ UNCHANGED vars \/ Tick
  BY <1>3, <1>9, VoterKeepsElection DEF vars, electionVars, Tick
<1> QED
  BY <1>7, <1>8, <1>9 DEF Next

(* A certified Round 1 is not open, as long as there has been no by-election  *)
(* and one administrator at a time: /admin/toggle-election and                *)
(* /admin/toggle-certification each check the other's flag a read before they *)
(* write, and Round 1 is the round every cache names.                         *)
THEOREM CertifiedStaysClosed ==
    ASSUME \A a, m \in Admins : a = m
    PROVE  Spec => [](BeforeByElections => CertifiedIsNotLive)
<1>1. Init => CertifiedInv
  BY DEF Init, CertifiedInv, OnlyRoundOne, ReadsHold, NotBoth, CurrentRound, NoTask
<1>2. TypeOK /\ CertifiedInv /\ [Next]_vars => CertifiedInv'
  BY DrawnStaysDrawn, CertifiedStep, ConstantsAssumption DEF CertifiedInv
<1>3. CertifiedInv => (BeforeByElections => CertifiedIsNotLive)
  BY DEF CertifiedInv, NotBoth, CertifiedIsNotLive
<1> QED
  BY <1>1, <1>2, <1>3, TypeCorrect, PTL DEF Spec
-----------------------------------------------------------------------------
(* With one process the cache is what is stored. *)
CacheFresh == \A i \in Instances : cache[i].schedule = schedule

(* A by-election nobody has switched to is one nobody has seen; until its own *)
(* window is scheduled its window is the closed one, and no ballot has passed *)
(* its check.                                                                 *)
Unseen(b) ==
    /\ schedule.round # b
    /\ \A q \in Requests : requests[q].round # b
    /\ \A v \in Voters : ballots[b][v] = <<>>

ToBeSwitchedTo(b) == \E a \in Admins : tasks[a].op = "switch_round" /\ tasks[a].round = b

Shut(b) ==
    /\ schedule.window = Closed
    /\ \A q \in Requests : requests[q].pc = "commit" => requests[q].round # b
    /\ \A v \in Voters : ballots[b][v] = <<>>

Waits(b) ==
    /\ rounds[b].status = "absent" => Unseen(b) /\ ~ToBeSwitchedTo(b)
    /\ ToBeSwitchedTo(b) => rounds[b].schedule_set \/ Unseen(b)
    /\ schedule.round = b /\ ~rounds[b].schedule_set => Shut(b)

WaitingInv == CacheFresh /\ grants = {} /\ \A b \in ByElections : Waits(b)

(* What a step of a voter's request may do, when every instance holds the     *)
(* stored schedule and nobody has an exception: a request is about the active *)
(* round or the one it was about, only an open window lets a ballot through   *)
(* its check, and a ballot is recorded where a checked request said.          *)
LEMMA VoterStepsWait ==
    ASSUME TypeOK, CacheFresh, grants = {}, VoterNext
    PROVE  /\ UNCHANGED <<now, config, schedule, cache, rounds, ties, tasks, grants>>
           /\ \A q \in Requests :
                 /\ requests'[q].round \in {None, schedule.round, requests[q].round}
                 /\ requests'[q].pc = "commit" =>
                       /\ requests'[q].round = requests[q].round
                       /\ requests[q].pc = "commit" \/ IsOpenAt(schedule.window)
           /\ \A b \in Rounds, v \in Voters :
                 \/ ballots'[b][v] = ballots[b][v]
                 \/ \E q \in Requests : requests[q].pc = "commit" /\ requests[q].round = b
<1> DEFINE Req(r) == \A q \in Requests :
                 /\ r[q].round \in {None, schedule.round, requests[q].round}
                 /\ r[q].pc = "commit" =>
                       /\ r[q].round = requests[q].round
                       /\ requests[q].pc = "commit" \/ IsOpenAt(schedule.window)
<1>1. UNCHANGED <<now, config, schedule, cache, rounds, ties, tasks>>
  BY VoterKeepsElection DEF electionVars
<1>2. requests \in [Requests -> Request]
  BY DEF TypeOK, RequestTypeOK
<1>3. ASSUME NEW q \in Requests, NEW t, requests' = [requests EXCEPT ![q] = t],
             t.round \in {None, schedule.round, requests[q].round},
             t.pc = "commit" => t.round = requests[q].round /\ IsOpenAt(schedule.window)
      PROVE  Req(requests')
  BY <1>2, <1>3
<1>4. NoRequest.round = None /\ NoRequest.pc = "idle"
  BY DEF NoRequest
<1>5. \A i \in Instances : CurrentRound(i) = schedule.round
  BY DEF CacheFresh, CurrentRound
<1>6. ASSUME NEW q \in Requests, NEW v \in Voters, NEW i \in Instances, VerifyIdentity(q, v, i)
      PROVE  Req(requests') /\ UNCHANGED <<ballots, grants>>
  <2>1. PICK live : requests' = [requests EXCEPT ![q] =
                  [NoRequest EXCEPT !.pc = "sms", !.voter = v, !.instance = i,
                                    !.round = CurrentRound(i), !.live = live]]
    BY <1>6 DEF VerifyIdentity
  <2> DEFINE t == [NoRequest EXCEPT !.pc = "sms", !.voter = v, !.instance = i,
                                    !.round = CurrentRound(i), !.live = live]
  <2>2. t.round = schedule.round /\ t.pc = "sms" /\ requests' = [requests EXCEPT ![q] = t]
    BY <1>5, <2>1 DEF NoRequest
  <2> HIDE DEF t
  <2> QED
    BY <1>3, <1>6, <2>2 DEF VerifyIdentity, voterVars
<1>7. ASSUME NEW q \in Requests, NEW v \in Voters, NEW i \in Instances, VerifyOtp(q, v, i)
      PROVE  Req(requests') /\ UNCHANGED <<ballots, grants>>
  <2> DEFINE t == [NoRequest EXCEPT !.pc = "compare", !.voter = v, !.instance = i,
                             !.round = otps[v]]
  <2>1. t.round = schedule.round /\ t.pc = "compare" /\ requests' = [requests EXCEPT ![q] = t]
    BY <1>5, <1>7 DEF VerifyOtp, NoRequest
  <2> HIDE DEF t
  <2> QED
    BY <1>3, <1>7, <2>1 DEF VerifyOtp, voterVars
<1>8. ASSUME NEW q \in Requests, NEW v \in Voters, NEW i \in Instances, SubmitBallot(q, v, i)
      PROVE  Req(requests') /\ UNCHANGED <<ballots, grants>>
  <2>1. PICK jti, picks : requests' = [requests EXCEPT ![q] =
              [NoRequest EXCEPT !.pc = "check", !.voter = v, !.instance = i,
                                !.round = CurrentRound(i), !.jti = jti, !.picks = picks]]
    BY <1>8 DEF SubmitBallot
  <2> DEFINE t == [NoRequest EXCEPT !.pc = "check", !.voter = v, !.instance = i,
                                !.round = CurrentRound(i), !.jti = jti, !.picks = picks]
  <2>2. t.round = schedule.round /\ t.pc = "check" /\ requests' = [requests EXCEPT ![q] = t]
    BY <1>5, <2>1 DEF NoRequest
  <2> HIDE DEF t
  <2> QED
    BY <1>3, <1>8, <2>2 DEF SubmitBallot, voterVars
<1>9. ASSUME NEW q \in Requests,
             CodeSent(q) \/ CodeNotSent(q) \/ OpenSession(q) \/ WrongCode(q) \/ RejectBallot(q)
      PROVE  Req(requests') /\ UNCHANGED <<ballots, grants>>
  <2>1. requests' = [requests EXCEPT ![q] = NoRequest]
    BY <1>9 DEF CodeSent, CodeNotSent, OpenSession, WrongCode, RejectBallot
  <2>2. UNCHANGED <<ballots, grants>>
    BY <1>9 DEF CodeSent, CodeNotSent, OpenSession, WrongCode, RejectBallot, voterVars
  <2> QED
    BY <1>3, <1>4, <2>1, <2>2
<1>10. ASSUME NEW q \in Requests, CheckBallot(q)
       PROVE  Req(requests') /\ UNCHANGED <<ballots, grants>>
  <2> DEFINE t == IF /\ VotingAllowed(requests[q].instance, requests[q].voter)
                     /\ RoundCandidateAllowed(requests[q].picks, requests[q].round)
                  THEN [requests[q] EXCEPT !.pc = "commit", !.rule = RuleOf(requests[q].round)]
                  ELSE NoRequest
  <2>1. requests' = [requests EXCEPT ![q] = t]
    BY <1>10 DEF CheckBallot
  <2>2. requests[q].instance \in Instances
    BY <1>10 DEF CheckBallot, TypeOK, RequestTypeOK
  <2>3. VotingAllowed(requests[q].instance, requests[q].voter) => IsOpenAt(schedule.window)
    BY <2>2 DEF VotingAllowed, VotingPhaseOpen, CacheFresh
  <2>4. /\ t.round \in {None, requests[q].round}
        /\ t.pc = "commit" => t.round = requests[q].round /\ IsOpenAt(schedule.window)
    BY <1>2, <1>4, <2>3 DEF Request
  <2> HIDE DEF t
  <2> QED
    BY <1>3, <1>10, <2>1, <2>4 DEF CheckBallot, voterVars
<1>11. ASSUME NEW q \in Requests, CommitBallot(q)
       PROVE  /\ Req(requests') /\ UNCHANGED grants /\ requests[q].pc = "commit"
              /\ \A b \in Rounds, v \in Voters : b # requests[q].round => ballots'[b][v] = ballots[b][v]
  <2>1. requests' = [requests EXCEPT ![q] = NoRequest] /\ UNCHANGED grants /\ requests[q].pc = "commit"
    BY <1>11 DEF CommitBallot
  <2>2. \A b \in Rounds, v \in Voters : b # requests[q].round => ballots'[b][v] = ballots[b][v]
    BY <1>11, CommitEffect
  <2> QED
    BY <1>3, <1>4, <2>1, <2>2
<1>12. ASSUME NEW v \in Voters, RejectCode(v)
       PROVE  Req(requests') /\ UNCHANGED <<ballots, grants>>
  BY <1>12 DEF RejectCode
<1> HIDE DEF Req
<1>13. \/ Req(requests') /\ UNCHANGED <<ballots, grants>>
       \/ \E q \in Requests : CommitBallot(q)
  BY <1>6, <1>7, <1>8, <1>9, <1>10, <1>12 DEF VoterNext
<1>14. /\ Req(requests') /\ UNCHANGED grants
       /\ \A b \in Rounds, v \in Voters :
             \/ ballots'[b][v] = ballots[b][v]
             \/ \E q \in Requests : requests[q].pc = "commit" /\ requests[q].round = b
  BY <1>11, <1>13
<1> QED
  BY <1>1, <1>14 DEF Req

LEMMA VoterWaits ==
    ASSUME ConstantsAssumption, TypeOK, WaitingInv, VoterNext
    PROVE  WaitingInv'
<1>1. CacheFresh' /\ grants' = {}
  BY VoterStepsWait DEF WaitingInv, CacheFresh
<1>2. ASSUME NEW b \in ByElections
      PROVE  Waits(b)'
  <2>1. b # None /\ b \in Rounds /\ Waits(b)
    BY DEF ConstantsAssumption, Rounds, WaitingInv
  <2>2. ToBeSwitchedTo(b)' <=> ToBeSwitchedTo(b)
    BY VoterStepsWait DEF WaitingInv, ToBeSwitchedTo
  <2>3. Unseen(b) => Unseen(b)'
    BY <2>1, VoterStepsWait DEF WaitingInv, Unseen
  <2>4. ~IsOpenAt(Closed)
    BY DEF IsOpenAt, Closed, TypeOK, ElectionTypeOK
  <2>5. Shut(b) => Shut(b)'
    BY <2>1, <2>4, VoterStepsWait DEF WaitingInv, Shut
  <2>6. rounds' = rounds /\ schedule' = schedule
    BY VoterStepsWait DEF WaitingInv
  <2> QED
    BY <2>1, <2>2, <2>3, <2>5, <2>6 DEF Waits
<1> QED
  BY <1>1, <1>2 DEF WaitingInv

(* The round documents by-elections wait on: only their own schedule opens    *)
(* them, and a drawn id is not drawn again.                                   *)
LEMMA AdminWaits ==
    ASSUME ConstantsAssumption, TypeOK, SwitchersHold, WaitingInv, AdminNext,
           Grantees = {}, Unenforced \notin Windows, \A i, j \in Instances : i = j
    PROVE  WaitingInv'
<1>1. /\ tasks \in [Admins -> Task] /\ rounds \in [Rounds -> RoundDoc]
      /\ cache \in [Instances -> [schedule : Schedules, is_open : BOOLEAN]]
      /\ \A b \in ByElections : b \in Rounds /\ b # RoundOne
      /\ \A b \in ByElections : rounds[b].schedule_set \in BOOLEAN
  BY DEF TypeOK, TaskTypeOK, ElectionTypeOK, RoundDoc, Rounds, ConstantsAssumption
<1>2. UNCHANGED <<now, requests, ballots>>
  BY AdminKeepsRequests
<1>3. /\ \A i \in Instances : cache[i].schedule = schedule
      /\ grants = {} /\ \A b \in ByElections : Waits(b)
  BY DEF WaitingInv, CacheFresh
<1>4. NoTask.op = "idle"
  BY DEF NoTask
(* A step that leaves the schedule, the marks of the rounds and the switches. *)
<1>5. ASSUME UNCHANGED <<schedule, grants>>, \A i \in Instances : cache'[i].schedule = schedule,
             \A b \in ByElections :
                /\ rounds'[b].status = "absent" => rounds[b].status = "absent"
                /\ rounds'[b].schedule_set = rounds[b].schedule_set
                /\ ToBeSwitchedTo(b)' => ToBeSwitchedTo(b)
      PROVE  WaitingInv'
  <2>1. \A b \in ByElections : (Unseen(b)' <=> Unseen(b)) /\ (Shut(b)' <=> Shut(b))
    BY <1>2, <1>5 DEF Unseen, Shut
  <2> QED
    BY <1>3, <1>5, <2>1 DEF WaitingInv, CacheFresh, Waits
<1>6. ASSUME NEW a \in Admins, NEW t, t.op # "switch_round", tasks' = [tasks EXCEPT ![a] = t]
      PROVE  \A b \in ByElections : ToBeSwitchedTo(b)' => ToBeSwitchedTo(b)
  BY <1>1, <1>6 DEF ToBeSwitchedTo
(* A step that makes round r the active one, in the window w.                 *)
<1>7. ASSUME NEW i \in Instances, NEW r \in Rounds, NEW w, WriteSchedule(i, r, w),
             UNCHANGED grants,
             \A b \in ByElections :
                /\ rounds'[b].status = "absent" => rounds[b].status = "absent"
                /\ ToBeSwitchedTo(b)' => ToBeSwitchedTo(b)
                /\ rounds[b].schedule_set => rounds'[b].schedule_set,
             r \in ByElections =>
                /\ rounds'[r].status # "absent"
                /\ rounds'[r].schedule_set \/ ~ToBeSwitchedTo(r)'
                /\ rounds'[r].schedule_set \/ (w = Closed /\ (Unseen(r) \/ Shut(r)))
      PROVE  WaitingInv'
  <2>1. schedule' = [round |-> r, window |-> w]
    BY <1>7 DEF WriteSchedule
  <2>2. CacheFresh'
    BY <1>1, <1>7 DEF WriteSchedule, CacheFresh
  <2>3. ASSUME NEW b \in ByElections
        PROVE  Waits(b)'
    <3>1. CASE b = r
      <4>1. w = Closed /\ (Unseen(r) \/ Shut(r)) => Shut(r)'
        BY <1>2, <2>1 DEF Unseen, Shut
      <4> QED
        BY <1>7, <3>1, <4>1 DEF Waits
    <3>2. CASE b # r
      <4>1. Unseen(b) => Unseen(b)'
        BY <1>2, <2>1, <3>2 DEF Unseen
      <4>2. Waits(b)
        BY <1>3
      <4> QED
        BY <1>7, <2>1, <3>2, <4>1, <4>2 DEF Waits
    <3> QED
      BY <3>1, <3>2
  <2> QED
    BY <1>3, <1>7, <2>2, <2>3 DEF WaitingInv
<1>8. ASSUME NEW a \in Admins, NEW i \in Instances,
             \/ ToggleElection(a, i) \/ ToggleCertification(a, i)
             \/ \E p \in Positions, rule \in Rules : CreateByElection(a, i, p, rule)
      PROVE  WaitingInv'
  <2>1. PICK t : t.op # "switch_round" /\ tasks' = [tasks EXCEPT ![a] = t]
    <3>1. CASE ToggleElection(a, i)
      <4> DEFINE t == [NoTask EXCEPT !.op = "toggle", !.instance = i, !.value = ~config.is_open]
      <4>1. t.op = "toggle" /\ tasks' = [tasks EXCEPT ![a] = t]
        BY <3>1 DEF ToggleElection, NoTask
      <4> HIDE DEF t
      <4> QED
        BY <4>1
    <3>2. CASE ToggleCertification(a, i)
      <4> DEFINE t == [NoTask EXCEPT !.op = "certify", !.instance = i,
                         !.round = CurrentRound(i), !.value = ~Certified(CurrentRound(i))]
      <4>1. t.op = "certify" /\ tasks' = [tasks EXCEPT ![a] = t]
        BY <3>2 DEF ToggleCertification, NoTask
      <4> HIDE DEF t
      <4> QED
        BY <4>1
    <3>3. ASSUME NEW p \in Positions, NEW rule \in Rules, CreateByElection(a, i, p, rule)
          PROVE  \E t : t.op # "switch_round" /\ tasks' = [tasks EXCEPT ![a] = t]
      <4> DEFINE t == [NoTask EXCEPT !.op = "insert_round", !.instance = i, !.position = p,
                                   !.rule = rule]
      <4>1. t.op = "insert_round" /\ tasks' = [tasks EXCEPT ![a] = t]
        BY <3>3 DEF CreateByElection, NoTask
      <4> HIDE DEF t
      <4> QED
        BY <4>1
    <3> QED
      BY <1>8, <3>1, <3>2, <3>3
  <2>2. UNCHANGED <<schedule, cache, rounds, grants>>
    BY <1>8 DEF ToggleElection, ToggleCertification, CreateByElection, electionVars, voterVars
  <2> QED
    BY <1>3, <1>5, <1>6, <2>1, <2>2
<1>9. ASSUME NEW a \in Admins, ToggleElectionWrite(a)
      PROVE  WaitingInv'
  <2>1. \A b \in ByElections : ToBeSwitchedTo(b)' => ToBeSwitchedTo(b)
    BY <1>4, <1>6, <1>9 DEF ToggleElectionWrite
  <2>2. \A i \in Instances : cache'[i].schedule = schedule
    BY <1>1, <1>3, <1>9 DEF ToggleElectionWrite, Fresh
  <2> QED
    BY <1>5, <1>9, <2>1, <2>2 DEF ToggleElectionWrite, voterVars
<1>10. ASSUME NEW a \in Admins, ToggleCertificationWrite(a)
       PROVE  WaitingInv'
  <2>1. \A b \in ByElections : ToBeSwitchedTo(b)' => ToBeSwitchedTo(b)
    BY <1>4, <1>6, <1>10 DEF ToggleCertificationWrite
  <2>2. \A i \in Instances : cache'[i].schedule = schedule
    BY <1>1, <1>3, <1>10 DEF ToggleCertificationWrite, Fresh
  <2>3. PICK status \in {"certified", "closed", "scheduled"} :
           rounds' = rounds \/ rounds' = [rounds EXCEPT ![tasks[a].round].status = status]
    BY <1>10 DEF ToggleCertificationWrite
  <2>4. \A b \in ByElections : /\ rounds'[b].status = "absent" => rounds[b].status = "absent"
                               /\ rounds'[b].schedule_set = rounds[b].schedule_set
    BY <1>1, <2>3 DEF RoundDoc
  <2> QED
    BY <1>5, <1>10, <2>1, <2>2, <2>4 DEF ToggleCertificationWrite, voterVars
<1>11. ASSUME NEW a \in Admins, NEW b \in ByElections, InsertByElection(a, b)
       PROVE  WaitingInv'
  <2>1. rounds[b].status = "absent" /\ UNCHANGED <<schedule, cache, grants>>
    BY <1>11 DEF InsertByElection, voterVars
  <2>2. Unseen(b) /\ ~ToBeSwitchedTo(b)
    BY <1>3, <2>1 DEF Waits
  <2>3. /\ \A c \in ByElections \ {b} : rounds'[c] = rounds[c]
        /\ tasks'[a].op = "switch_round" => tasks'[a].round = b
        /\ \A m \in Admins \ {a} : tasks'[m] = tasks[m]
    BY <1>11, InsertEffect
  <2>4. rounds'[b].status # "absent"
    BY <1>1, <1>11 DEF InsertByElection, ClaimTie, LoseTie, RoundDoc
  <2>5. \A c \in ByElections : (Unseen(c)' <=> Unseen(c)) /\ (Shut(c)' <=> Shut(c))
    BY <1>2, <2>1 DEF Unseen, Shut
  <2>6. \A c \in ByElections \ {b} : ToBeSwitchedTo(c)' => ToBeSwitchedTo(c)
    BY <2>3 DEF ToBeSwitchedTo
  <2>7. ASSUME NEW c \in ByElections
        PROVE  Waits(c)'
    <3>1. CASE c = b
      BY <2>1, <2>2, <2>4, <2>5, <3>1 DEF Waits, Unseen
    <3>2. CASE c # b
      <4>1. Waits(c)
        BY <1>3
      <4> QED
        BY <2>1, <2>3, <2>5, <2>6, <3>2, <4>1 DEF Waits
    <3> QED
      BY <3>1, <3>2
  <2> QED
    BY <1>3, <2>1, <2>7 DEF WaitingInv, CacheFresh
<1>12. ASSUME NEW a \in Admins, SwitchToByElection(a)
       PROVE  WaitingInv'
  <2>1. PICK b \in ByElections, i \in Instances : b = tasks[a].round /\ i = tasks[a].instance
    BY <1>12 DEF SwitchToByElection, TypeOK, TaskTypeOK
  <2>2. /\ WriteSchedule(i, b, Closed) /\ UNCHANGED <<rounds, grants>>
        /\ tasks' = [tasks EXCEPT ![a] = NoTask] /\ tasks[a].op = "switch_round"
    BY <1>12, <2>1 DEF SwitchToByElection, voterVars
  <2>3. \A c \in ByElections : ToBeSwitchedTo(c)' => ToBeSwitchedTo(c)
    BY <1>4, <1>6, <2>2
  <2>4. ToBeSwitchedTo(b)
    BY <2>1, <2>2 DEF ToBeSwitchedTo
  <2>5. ~ToBeSwitchedTo(b)'
    BY <1>1, <1>4, <2>1, <2>2 DEF ToBeSwitchedTo, SwitchersHold
  <2>6. rounds[b].status # "absent" /\ (rounds[b].schedule_set \/ Unseen(b))
    BY <1>3, <2>4 DEF Waits
  <2> QED
    BY <1>1, <1>7, <2>2, <2>3, <2>5, <2>6
<1>13. ASSUME NEW a \in Admins, ByElectionFails(a)
       PROVE  WaitingInv'
  <2>1. PICK b \in ByElections : b = tasks[a].round
    BY <1>13 DEF ByElectionFails, TypeOK, TaskTypeOK
  <2>2. /\ rounds' = [rounds EXCEPT ![b].status = "deleted"] /\ UNCHANGED <<schedule, cache, grants>>
        /\ tasks' = [tasks EXCEPT ![a] = NoTask]
    BY <1>13, <2>1 DEF ByElectionFails, voterVars
  <2>3. \A c \in ByElections : ToBeSwitchedTo(c)' => ToBeSwitchedTo(c)
    BY <1>4, <1>6, <2>2
  <2>4. \A c \in ByElections : /\ rounds'[c].status = "absent" => rounds[c].status = "absent"
                               /\ rounds'[c].schedule_set = rounds[c].schedule_set
    BY <1>1, <2>2 DEF RoundDoc
  <2> QED
    BY <1>3, <1>5, <2>2, <2>3, <2>4
<1>14. ASSUME NEW a \in Admins, NEW i \in Instances, NEW r \in Rounds, NEW w \in Windows,
              SetPhaseSchedule(a, i, r, w)
       PROVE  WaitingInv'
  <2>1. w # Closed /\ w # Unenforced
    BY DEF ConstantsAssumption, Closed, Unenforced
  <2>2. WriteSchedule(i, r, w) /\ UNCHANGED <<grants, tasks>>
    BY <1>14 DEF SetPhaseSchedule, voterVars
  <2>3. \A b \in ByElections : ToBeSwitchedTo(b)' => ToBeSwitchedTo(b)
    BY <2>2 DEF ToBeSwitchedTo
  <2>4. \A b \in ByElections : b # r => rounds'[b] = rounds[b]
    BY <1>1, <1>14 DEF SetPhaseSchedule
  <2>5. r \in ByElections => rounds'[r].status # "absent" /\ rounds'[r].schedule_set
    BY <1>1, <1>14, <2>1 DEF SetPhaseSchedule, RoundDoc
  <2>6. \A b \in ByElections :
                /\ rounds'[b].status = "absent" => rounds[b].status = "absent"
                /\ rounds[b].schedule_set => rounds'[b].schedule_set
    BY <2>4, <2>5
  <2> QED
    BY <1>7, <2>2, <2>3, <2>5, <2>6
<1>15. ASSUME NEW a \in Admins, NEW i \in Instances, NEW b \in ByElections,
              ResetByElectionSchedule(a, i, b)
       PROVE  WaitingInv'
  <2>1. /\ WriteSchedule(i, b, Closed) /\ UNCHANGED <<grants, tasks>>
        /\ rounds' = [rounds EXCEPT ![b].window = Closed]
        /\ ~rounds[b].schedule_set /\ RoundExists(b)
        /\ schedule.round = b
    BY <1>3, <1>15 DEF ResetByElectionSchedule, voterVars, CurrentRound
  <2>2. \A c \in ByElections : /\ rounds'[c].status = rounds[c].status
                               /\ rounds'[c].schedule_set = rounds[c].schedule_set
    BY <1>1, <2>1 DEF RoundDoc
  <2>3. \A c \in ByElections : ToBeSwitchedTo(c)' => ToBeSwitchedTo(c)
    BY <2>1 DEF ToBeSwitchedTo
  <2>4. Shut(b) /\ ~ToBeSwitchedTo(b)
    BY <1>3, <2>1 DEF Waits, Unseen
  <2>5. rounds[b].status # "absent"
    BY <2>1 DEF RoundExists
  <2> QED
    BY <1>1, <1>7, <2>1, <2>2, <2>3, <2>4, <2>5
<1>16. ASSUME NEW i \in Instances, NEW r \in Rounds, DetectTies(i, r)
       PROVE  WaitingInv'
  <2>1. PICK d : rounds' = rounds \/ (r = RoundOne /\ rounds' = [rounds EXCEPT ![r] = d])
    BY <1>16 DEF DetectTies
  <2>2. \A b \in ByElections : rounds'[b] = rounds[b]
    BY <1>1, <2>1
  <2>3. UNCHANGED <<schedule, cache, grants, tasks>>
    BY <1>16 DEF DetectTies, voterVars
  <2>4. \A b \in ByElections : ToBeSwitchedTo(b)' => ToBeSwitchedTo(b)
    BY <2>3 DEF ToBeSwitchedTo
  <2> QED
    BY <1>3, <1>5, <2>2, <2>3, <2>4
<1> QED
  BY <1>8, <1>9, <1>10, <1>11, <1>12, <1>13, <1>14, <1>15, <1>16 DEF AdminNext

LEMMA WaitingStep ==
    ASSUME ConstantsAssumption, TypeOK, SwitchersHold, WaitingInv, [Next]_vars,
           Grantees = {}, Unenforced \notin Windows, \A i, j \in Instances : i = j
    PROVE  WaitingInv'
<1>1. ASSUME UNCHANGED <<schedule, grants, rounds, tasks, requests, ballots>>,
             \A i \in Instances : cache'[i].schedule = schedule
      PROVE  WaitingInv'
  <2>1. \A b \in ByElections : Waits(b)' <=> Waits(b)
    BY <1>1 DEF Waits, Unseen, Shut, ToBeSwitchedTo
  <2> QED
    BY <1>1, <2>1 DEF WaitingInv, CacheFresh
<1>2. ASSUME NEW i \in Instances, CacheExpires(i)
      PROVE  WaitingInv'
  <2>1. \A j \in Instances : cache'[j].schedule = schedule
    BY <1>2 DEF CacheExpires, Fresh, TypeOK, ElectionTypeOK
  <2> QED
    BY <1>1, <1>2, <2>1 DEF CacheExpires, voterVars
<1>3. CASE UNCHANGED vars \/ Tick
  BY <1>1, <1>3 DEF vars, Tick, voterVars, electionVars, WaitingInv, CacheFresh
<1> QED
  BY <1>2, <1>3, VoterWaits, AdminWaits DEF Next

(* A by-election that has become the active round takes no ballot until its   *)
(* own window is scheduled (create_by_election, /admin/schedule/phases,       *)
(* /vote), on one server process, when nobody holds an exception and the      *)
(* schedule is enforced.                                                      *)
THEOREM ByElectionWaits ==
    ASSUME Grantees = {}, Unenforced \notin Windows, \A i, j \in Instances : i = j
    PROVE  Spec => []NoBallotBeforeScheduled
<1>1. Init => ResolveInv /\ WaitingInv
  <2> SUFFICES ASSUME Init PROVE ResolveInv /\ WaitingInv
    OBVIOUS
  <2>1. ResolveInv
    BY InitResolves
  <2>2. CacheFresh /\ grants = {}
    BY DEF Init, CacheFresh
  <2>3. \A b \in ByElections : Unseen(b) /\ ~ToBeSwitchedTo(b)
    BY ConstantsAssumption DEF Init, Unseen, ToBeSwitchedTo, NoRequest, NoTask, Rounds,
       ConstantsAssumption
  <2> QED
    BY <2>1, <2>2, <2>3 DEF WaitingInv, Waits, Unseen
<1>2. TypeOK /\ ResolveInv /\ WaitingInv /\ [Next]_vars => ResolveInv' /\ WaitingInv'
  BY ResolveStep, WaitingStep, ConstantsAssumption DEF ResolveInv
<1>3. WaitingInv => NoBallotBeforeScheduled
  BY DEF WaitingInv, Waits, Shut, NoBallotBeforeScheduled
<1> QED
  BY <1>1, <1>2, <1>3, TypeCorrect, PTL DEF Spec
=============================================================================
