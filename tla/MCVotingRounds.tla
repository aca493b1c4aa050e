--------------------------- MODULE MCVotingRounds ---------------------------
(***************************************************************************)
(* Finite instances of VotingRounds for TLC.  The clock shows 1, 2, 3:     *)
(* Early is Round 1's voting window and Late a by-election's.  A tie needs *)
(* two candidates of one position and two voters; a third candidate is one *)
(* the tie leaves out, a third voter one who did not vote in Round 1.      *)
(***************************************************************************)
EXTENDS VotingRounds, TLC

CONSTANTS v1, v2, v3, a1, a2, a3, President

MCCandidates == {a1, a2}
MCPositionOf == [c \in {a1, a2} |-> President]

ThreeCandidates == {a1, a2, a3}
ThreePositionOf == [c \in {a1, a2, a3} |-> President]

Early == [from |-> 1, to |-> 1]
Late  == [from |-> 2, to |-> MaxTime]

EarlyAndLate == {Early, Late}
AlwaysOpen   == {Unenforced}

Symmetry == Permutations(Voters) \cup Permutations(Candidates) \cup Permutations(Requests)
            \cup Permutations(Admins) \cup Permutations(Instances) \cup Permutations(ByElections)
=============================================================================
