CONSTANTS
    Panel = {m1, m2}
    External = {m2}
    Chair = {m1}
    Handlers = {h1, h2}
    MinPanel = 1
    Enforced = FALSE
    Approvals = 2
    Events = 1
    Voters = {v1}
    Desks = {d1, d2}
    Forms = {f1}
    Bypass = FALSE
    Moves = 2
    p1 = p1
    p2 = p2
    n1 = n1
    n2 = n2
    n3 = n3
    People = {p1, p2}
    RegNos = {n1, n2, n3}
    Phones = {a, b}
    Own <- OwnNumbers
    Clerks = {k1, k2}
    Changes = {c1}
    Corrections = 1
    NoPhone = NoPhone
    Writers = {w1, w2, w3}
    Anchors = {x1, x2}
    Tries = 2
    Genesis = Genesis
    Slates = {"A", "B"}
    Editors = {e1}
    Sweepers = {s1}
    Managers = {m3}
    Edits = 2
    MaxLists = 3
    UsageDays = {1, 2}
    Names = {n1}
    MaxKeys = 1
    ChunkSize = 1
    UsageEvents = 3
    WriteFaults = 1
    Switches = 1
    Stops = 1
    MilestoneDays = 2
    LockDays = 2
    UnknownDays = 1
    ResultsEnd = {0, 1}
    Switchings = 2
    UploadFaults = 1
    Outages = 1
    Snapshots = 3
    CallEvery = 5
    RunTicks = 1
    ProbeGap = 10
    MirrorGap = 10
    LeastGap = 2
    LagLimits = {10}
    SampleLimit = 15
    SilentLimit = 15
    Debounce = 2
    Cooldown = 2
    Disturbances = 1
SPECIFICATION Spec
INVARIANTS
    OfficeTypeOK  AppliedOnce ContactsSound LedgerSound ListsOrdered
    UsageSound WatchKept
PROPERTIES
    RosterSteps
CHECK_DEADLOCK FALSE
