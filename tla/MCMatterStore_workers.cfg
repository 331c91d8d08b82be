SPECIFICATION Spec
CONSTANTS
    m1 = m1
    m2 = m2
    d1 = d1
    d2 = d2
    a = a
    b = b
    t1 = t1
    t2 = t2
    Nil = Nil
    Matter <- NewMatter
    Doc <- TwoDocs
    Worker <- TwoWorkers
    Thread <- TwoThreads
    Standing <- OneMatter
    MaxMatters = 2
    Setups <- Safe
    SlowHolders = FALSE
    EarlyUse = FALSE
    DiskSurvives = TRUE
    MaxCalls = 3
    MaxFaults = 2
INVARIANTS TypeOK HeadResolves GoneIsGone ClosedIsEmpty ReadsAgree
PROPERTIES KeepsPromises StaysClosed CallsEnd
CHECK_DEADLOCK FALSE
