------------------------------ MODULE BallotBox ------------------------------
(***************************************************************************)
(* What the voting system promises, whatever requests, tokens, caches and  *)
(* administrators do: a ballot box per round into which each voter puts at *)
(* most one ballot, where it stays.  A by-election's box is announced with *)
(* its candidates and its voters' rule before it takes a ballot, and takes *)
(* ballots only for those candidates from those voters.                    *)
(***************************************************************************)
EXTENDS Sequences

CONSTANTS Voters, RoundOne, ByElections, Papers, Notices, None

VARIABLES
    box,        \* box[r][v]: the ballots of voter v in the box of round r
    announced   \* announced[b]: the rule and the slate of by-election b, or None

boxVars == <<box, announced>>

Empty(r) == \A v \in Voters : box[r][v] = <<>>

Init == /\ box = [r \in {RoundOne} \cup ByElections |-> [v \in Voters |-> <<>>]]
        /\ announced = [b \in ByElections |-> None]

Announce(b) ==
    /\ announced[b] = None
    /\ Empty(b)
    /\ \E notice \in Notices : announced' = [announced EXCEPT ![b] = notice]
    /\ UNCHANGED box

Withdraw(b) ==
    /\ Empty(b)
    /\ announced' = [announced EXCEPT ![b] = None]
    /\ UNCHANGED box

Invited(r, v, paper) ==
    r \in ByElections =>
        /\ announced[r] # None
        /\ paper \subseteq announced[r].slate
        /\ announced[r].rule = "round1_voters" => box[RoundOne][v] # <<>>

Cast(r, v, paper) ==
    /\ box[r][v] = <<>>
    /\ Invited(r, v, paper)
    /\ box' = [box EXCEPT ![r][v] = <<paper>>]
    /\ UNCHANGED announced

Next == \/ \E b \in ByElections : Announce(b) \/ Withdraw(b)
        \/ \E r \in {RoundOne} \cup ByElections, v \in Voters, paper \in Papers :
              Cast(r, v, paper)

Spec == Init /\ [][Next]_boxVars
=============================================================================
