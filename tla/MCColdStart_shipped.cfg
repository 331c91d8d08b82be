SPECIFICATION FairSpec
CONSTANTS
    u1 = u1
    u2 = u2
    p1 = p1
    p2 = p2
    Users <- OneUser
    Calls <- OneCall
    Shared = FALSE
    Readings <- Together
    Budget = 18
    ReqTtl = 4
    RowTtl = 16
    ActiveTtl = 21
    Cooldown = 4
    PerDay = 6
    Day = 2880
    MaxTime = 22
    LastStart = 0
    MaxRequests = 2
    MaxCrashes = 0
PROPERTIES FailedForCause
CHECK_DEADLOCK FALSE
