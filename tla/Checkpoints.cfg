CONSTANTS
    Papers = {e1, e2}
    Workers = {w1, w2}
    Routes = {"vote", "vote_bulk"}
    BucketLength = 2
    Grace = 1
    TxnLifetime = 1
    Randoms = 2
    CastUntil = 4
    MaxTime = 7
    MaxCrashes = 1
SPECIFICATION ChainSpec
SYMMETRY Symmetry
CHECK_DEADLOCK FALSE
INVARIANTS
    ChainSound
    ChainOrdered
