SPECIFICATION FairSpec
CONSTANTS
    u1 = u1
    u2 = u2
    p1 = p1
    p2 = p2
    Users <- OneUser
    Calls <- TwoCalls
    Shared = FALSE
    Readings <- Together
    Budget = 5
    ReqTtl = 1
    RowTtl = 4
    ActiveTtl = 6
    Cooldown = 1
    PerDay = 2
    Day = 20
    MaxTime = 7
    LastStart = 0
    MaxRequests = 2
    MaxCrashes = 1
PROPERTIES FailedForReason NeverPinned
CHECK_DEADLOCK FALSE
