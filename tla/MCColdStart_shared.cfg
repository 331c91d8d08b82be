SPECIFICATION Spec
CONSTANTS
    u1 = u1
    u2 = u2
    p1 = p1
    p2 = p2
    Users <- OneUser
    Calls <- TwoCalls
    Shared = TRUE
    Readings <- Together
    Budget = 2
    ReqTtl = 1
    RowTtl = 4
    ActiveTtl = 3
    Cooldown = 1
    PerDay = 2
    Day = 10
    MaxTime = 2
    LastStart = 1
    MaxRequests = 3
    MaxCrashes = 1
SYMMETRY CallSymmetry
INVARIANTS TypeOK OneLiveWake
PROPERTIES ReleasedByItsOwn
CHECK_DEADLOCK FALSE
