CONSTANTS
    Taps = {r1, r2}
    Ladder <- LadderV
    LadderReset = 3
    Day = 5
    Ceiling = 2
    CodeTtl = 2
    HandlerTime = 1
    LimitResets = 1
    Rewrites = 3
    LadderEnd = 6
    Servers = {s1}
    Rows = {w1, w2}
    Batch = 1
    Deaths = 1
    Retries = 1
    Guesses = {g1, g2}
    FreeGuesses = 2
    Interval = 2
    Drops = 1
    BucketEnd = 4
    Payers = {p1, p2}
    Holders = {v1, v2, v3}
    FirstBudget = 3
    TopUp = 1
    TopUps = 1
    Conservation = TRUE
    Schedulers = {s1}
    Wipers = {r1}
    BackupSeconds = 3
    Lateness = 1
    Overlap = 1
    Backups = 2
    Faults = 1
    Refreshes = 0
    MirrorDocs = {d1}
    MirrorWrites = 1
    MirrorSeconds = 4
    EventLateness = 1
    MirrorOverlap = 2
    Slowness = 1
    MirrorResets = 1
    Timeouts = 1
    Collections = {c1}
    Requests = {h1}
    Sweeps = {sw}
    CutoverWrites = 1
    Restarts = 1
    JobCalls = 2
    TestServers = {p1, p2}
    DocIds = {1}
    Archives = 2
    TestRuns = 2
    Mishaps = 1
    Papers = {e1, e2}
    Workers = {w1}
    Routes = {"vote", "vote_bulk"}
    BucketLength = 2
    Grace = 1
    TxnLifetime = 1
    Randoms = 2
    CastUntil = 3
    MaxTime = 5
    MaxCrashes = 0
SPECIFICATION Spec
INVARIANTS
    ServicesTypeOK    BackupsRestore CopiesTrusted
CHECK_DEADLOCK FALSE
