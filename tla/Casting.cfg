CONSTANTS
    v1 = v1
    v2 = v2
    v3 = v3
    a1 = a1
    a2 = a2
    a3 = a3
    President = President
    Voters = {v1}
    Candidates <- MCCandidates
    Positions = {President}
    PositionOf <- MCPositionOf
    RoundOne = RoundOne
    ByElections = {}
    Instances = {i1, i2}
    Requests = {q1, q2, q3}
    Admins = {m1}
    Windows <- AlwaysOpen
    Grantees = {}
    MayFail = FALSE
    MaxTime = 1
    MaxSessions = 2
    None = None
SPECIFICATION Spec
CHECK_DEADLOCK FALSE
SYMMETRY Symmetry
INVARIANTS
    TypeOK
    BallotsKept
    
PROPERTIES
    NewestSessionOnly
