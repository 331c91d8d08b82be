SPECIFICATION FairSpec
CONSTANTS
    Beats = {b1, b2}
    Width = 2
    MaxAttempts = 1
    MaxFailures = 1
    MaxNoop = 2
    MaxGates = 2
    MaxDrafted = 1
    MaxRequests = 2
    MaxOutside = 1
INVARIANTS TypeOK NeverBoth AttemptsBounded OneOpenReview
PROPERTIES WorkRunsOut
CHECK_DEADLOCK FALSE
