SPECIFICATION FairSpec
CONSTANTS
    Beats = {b1}
    Width = 1
    MaxAttempts = 1
    MaxFailures = 1
    MaxNoop = 1
    MaxGates = 1
    MaxDrafted = 1
    MaxRequests = 2
    MaxOutside = 0
PROPERTIES AskIsReached
CHECK_DEADLOCK FALSE
