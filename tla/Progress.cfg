CONSTANTS
    Papers = {e1, e2}
    Workers = {w2, w3}
    Routes = {"vote"}
    BucketLength = 2
    Grace = 1
    TxnLifetime = 1
    Randoms = 1
    CastUntil = 2
    MaxTime = 5
    MaxCrashes = 1
    Servers = {s1, s2}
    Rows = {w1}
    Batch = 1
    Deaths = 1
    Retries = 1
    Panel = {m1, m2}
    External = {m2}
    Chair = {m1}
    Handlers = {h1, h2}
    MinPanel = 1
    Enforced = FALSE
    Approvals = 2
    Events = 0
    Slates = {"A", "B"}
    Editors = {e1, e2}
    Sweepers = {s3}
    Managers = {}
    Edits = 3
    MaxLists = 4
    Schedulers = {s4}
    Wipers = {}
    BackupSeconds = 2
    Lateness = 1
    Overlap = 1
    Backups = 9
    Faults = 1
    Refreshes = 1
    MirrorDocs = {d1}
    MirrorWrites = 1
    MirrorSeconds = 2
    EventLateness = 1
    MirrorOverlap = 2
    Slowness = 1
    MirrorResets = 1
    Timeouts = 1
    Collections = {d1}
    Requests = {h3}
    Sweeps = {}
    CutoverWrites = 1
    Restarts = 1
    JobCalls = 1
SPECIFICATION FairSpec
PROPERTIES
    BallotsAreCovered CampaignEnds CloseoutHappens ListCatchesUp CopiesCatchUp JobsEnd
CHECK_DEADLOCK FALSE
