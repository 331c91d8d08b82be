SPECIFICATION Spec
CONSTANTS
    Candidates <- TwoCandidates
    KMax = 2
    MinNConfirm = 2
    K = 2
    MaxRounds = 2
    Budget = 8
    MaxLaunches = 2
    MaxWithdrawals = 0
    MayLoseAdapters = FALSE
    Unreadable <- SecondOnly
INVARIANTS TypeOK IncumbentFromLedger JudgedOnce DeadNotPromoted SpentBounded SeedsDistinct
CHECK_DEADLOCK FALSE
