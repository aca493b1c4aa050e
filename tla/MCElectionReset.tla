--------------------------- MODULE MCElectionReset ---------------------------
(***************************************************************************)
(* Finite instances of ElectionReset for TLC.                              *)
(***************************************************************************)
EXTENDS ElectionReset, TLC

CONSTANTS v1, v2, a1, a2, President

MCCandidates == {a1, a2}
MCPositionOf == [c \in {a1, a2} |-> President]

AlwaysOpen == {Unenforced}

Symmetry == Permutations(Voters) \cup Permutations(Candidates) \cup Permutations(Requests)
            \cup Permutations(Admins)
=============================================================================
