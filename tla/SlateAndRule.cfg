CONSTANTS
    v1 = v1
    v2 = v2
    v3 = v3
    a1 = a1
    a2 = a2
    a3 = a3
    President = President
    Voters = {v1, v2, v3}
    Candidates <- ThreeCandidates
    Positions = {President}
    PositionOf <- ThreePositionOf
    RoundOne = RoundOne
    ByElections = {b1}
    Instances = {i1}
    Requests = {q1}
    Admins = {m1}
    Windows <- AlwaysOpen
    Grantees = {}
    MayFail = FALSE
    MaxTime = 1
    MaxSessions = 1
    None = None
SPECIFICATION Spec
CHECK_DEADLOCK FALSE
SYMMETRY Symmetry
INVARIANTS
    ByElectionBallotsKept
