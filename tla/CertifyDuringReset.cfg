CONSTANTS
    v1 = v1
    v2 = v2
    a1 = a1
    a2 = a2
    President = President
    Voters = {v1, v2}
    Candidates <- MCCandidates
    Positions = {President}
    PositionOf <- MCPositionOf
    RoundOne = RoundOne
    ByElections = {}
    Instances = {i1}
    Requests = {q1, q2}
    Admins = {m1}
    Windows <- AlwaysOpen
    Grantees = {}
    MayFail = FALSE
    MaxTime = 1
    MaxSessions = 2
    None = None
SPECIFICATION SpecWithReset
CHECK_DEADLOCK FALSE
SYMMETRY Symmetry
PROPERTIES
    CertifiedResultsSurvive
