SPECIFICATION FairSpec
CONSTANTS
    Candidates <- OneCandidate
    KMax = 2
    MinNConfirm = 2
    K = 1
    MaxRounds = 2
    Budget = 8
    MaxLaunches = 2
    MaxWithdrawals = 1
    MayLoseAdapters = TRUE
    Unreadable = {}
INVARIANTS PromotedOnce
PROPERTIES LaunchOnStanding NightEnds
CHECK_DEADLOCK FALSE
