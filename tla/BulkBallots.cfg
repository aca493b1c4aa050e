CONSTANTS
    Papers = {e1, e2}
    Workers = {w1}
    Routes = {"vote", "vote_bulk"}
    BucketLength = 2
    Grace = 1
    TxnLifetime = 1
    Randoms = 2
    CastUntil = 4
    MaxTime = 6
    MaxCrashes = 0
SPECIFICATION ChainSpec
CHECK_DEADLOCK FALSE
SYMMETRY Symmetry
INVARIANTS
    NoBallotSkipped
