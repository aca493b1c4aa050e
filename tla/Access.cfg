CONSTANTS
    AdminRoles = {"it_admin", "overseer"}
    Paused = {"overseer"}
    Signers = {c1}
    MaxTokens = 2
    SessionSeconds = 2
    StampsMade = 1
    Processes = {p1, p2}
    TokenHolders = {c1, c2}
    CacheSeconds = 2
    AnswerTTL = 1
    Addresses = {i1, i2}
    Logins = {l1, l2}
    MaxPerAddress = 2
    MaxPerAccount = 3
    LockFor = 1
    LoginMinutes = 2
    Failures = 5
    Files = {f1, f2}
    Applicants = {a1}
    Submissions = {s1, s2}
    Clerks = {c1}
    UploadTTL = 0
    Rules = {"off", "required"}
    Hours = 1
    FormFaults = 1
    Servers = {p1}
    Polls = {q1}
    SettingsTTL = 2
    ResultsTTL = 2
    InWindow = TRUE
    Kinds = {"results", "band", "exact", "status"}
    Modes = {"live", "closed", "certified"}
    Seconds = 3
    BallotsCast = 1
    Changes = 1
    Hosts = {p1}
    Superadmins = {a1}
    Visitors = {v1}
    Visits = 1
    LastDay = 2
    MaxDays = 1
    DayChoices = {1}
    OwnChanges = 1
    Restarts = 1
    Editors = {e1, e2}
    Members = {m1, m2}
    Ids = {i1, i2}
    Posts = {p1, p2}
    TakenId = i2
    TakenPost = p2
    Corrections = 2
    Decisions = 1
    RemovalVotes = 2
SPECIFICATION Spec
INVARIANTS
    AccessTypeOK LoginsSound NominationSound ReleaseSound  EditsSound
CHECK_DEADLOCK FALSE
